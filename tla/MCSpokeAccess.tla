--------------------------- MODULE MCSpokeAccess ---------------------------
(* An instance of SpokeAccess for TLC: a profile that describes one of two  *)
(* spokes, and whose provider file names a plugin configuration of its own. *)
EXTENDS SpokeAccess, TLC

CONSTANTS b1, b2, p1, noExec, none

TwoClusters == {"east", "west"}
TwoServers == {"https://east", "https://west"}
MCClusterAt == "https://east" :> "east" @@ "https://west" :> "west"

MCProviders ==
    << [name |-> "secretreader", cliArgs |-> "", envVars |-> "AppendIfNotExists",
        exec |-> [args |-> << >>, env |-> <<[name |-> 1, value |-> "own"]>>,
                  config |-> [kind |-> "object", id |-> "east"]]] >>

\* What no manager gets past the API server: variables without data.
NoData ==
    << [name |-> "secretreader", server |-> "https://east", proxy |-> "",
        extensions |-> <<[name |-> "exec", data |-> [kind |-> "object", id |-> "east"]],
                         [name |-> "envs", data |-> [kind |-> "null"]]>>] >>

Describes(server, c) ==
    << [name |-> "secretreader", server |-> server, proxy |-> "",
        extensions |-> <<[name |-> "exec", data |-> [kind |-> "object", id |-> c]]>>] >>

MCContents == {Describes("https://east", "east"), Describes("https://west", "west"), NoData}

\* One cluster rotates its token, twice.
Tokens == "east" :> 3 @@ "west" :> 1

ASSUME DescribedAssumption == ManagersDescribe

Pod == [inCluster |-> TRUE, kubeconfig |-> "none", contextNamespace |-> "", podNamespace |-> "pod"]
=============================================================================
