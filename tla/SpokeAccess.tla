---------------------------- MODULE SpokeAccess ----------------------------
(***************************************************************************)
(* From a ClusterProfile to an answered request. Programs that use the     *)
(* library build a rest.Config (AccessBuild) and send requests with it, or *)
(* build another, in any order and as often as they like. client-go starts *)
(* the plugin of the configuration, here secretreader (CredentialPlugin),  *)
(* keeps its answer in an authenticator that all equal configurations      *)
(* share, and starts it again when a spoke answers 401: a token of         *)
(* secretreader has no expiry. Meanwhile tokens are rotated and profiles   *)
(* come to describe another spoke.                                         *)
(***************************************************************************)
EXTENDS AccessBuild

CONSTANTS
    ClusterAt,   \* ClusterAt[s]: the cluster whose API server has address s
    Environment, \* where the consumer runs, see CredentialPlugin
    MaxTokens    \* MaxTokens[c]: bound on the tokens of cluster c

Clusters == Range(ClusterAt)

ASSUME SpokeAssumption ==
    /\ DOMAIN ClusterAt = Servers /\ Clusters \subseteq Opaque
    /\ MaxTokens \in [Clusters -> Nat]

VARIABLES
    accepted,  \* accepted[c]: the number of the token that cluster c takes
    secret,    \* secret[c]: the number of the token in the Secret named c
    creds,     \* creds[key]: what the authenticator for key holds, or None
    request    \* request[b]: None, or [at, cred, refresh] of b's request;
               \* refresh: cred is what the authenticator holds, or a 401 has
               \* made the plugin run

spokes == <<accepted, secret>>
consumers == <<creds, request>>
spokeVars == <<vars, spokes, consumers>>

SpokeInit ==
    /\ Init
    /\ accepted = [c \in Clusters |-> 1] /\ secret = [c \in Clusters |-> 1]
    /\ creds = << >> /\ request = [b \in Builders |-> None]

-----------------------------------------------------------------------------
(* The plugin.                                                             *)

\* KUBERNETES_EXEC_INFO for a rest.Config; provideClusterInfo is set.
ExecInfo(key) ==
    [form |-> "v1", server |-> key.server,
     config |-> [form |-> IF key.config.kind = "null" THEN "absent" ELSE "ok",
                 name |-> IF key.config.kind = "object" THEN key.config.id ELSE ""]]

\* What namespace n of the hub holds under the name that key asks for.
SecretIn(key, n) ==
    LET name == ExecInfo(key).config.name
    IN  IF n # Environment.podNamespace \/ name \notin Clusters THEN None
        ELSE [k \in {"token"} |-> [form |-> "text", cluster |-> name, number |-> secret[name]]]

Plugin(key) == INSTANCE CredentialPlugin WITH
    Starts <- {}, Namespaces <- {"default", Environment.podNamespace}, Contents <- {},
    MaxChanges <- 0,
    plugin <- "secretreader", env <- Environment, info <- ExecInfo(key),
    hub <- [n \in {"default", Environment.podNamespace} |-> SecretIn(key, n)],
    pc <- "get", code <- None, status <- None, buffer <- << >>, out <- << >>,
    closed <- FALSE, changes <- 0, seen <- {}, refused <- FALSE

\* What the plugin makes of the Secret as it is now: a status, or nothing.
PluginAnswer(key) ==
    IF Plugin(key)!HasClient /\ Plugin(key)!ReadExecInfo /\ Plugin(key)!ValidConfig
    THEN Plugin(key)!SecretStatus(SecretIn(key, Plugin(key)!Namespace)) ELSE {}

-----------------------------------------------------------------------------
(* A request of a consumer.                                                *)

Key(b) == outcome[b]

Cached(key) == IF key \in DOMAIN creds THEN creds[key] ELSE None

At(b, l) == request[b] # None /\ request[b].at = l

\* One plugin runs for an authenticator at a time.
Busy(key) == \E b \in Builders : (At(b, "exec") \/ At(b, "exit")) /\ Key(b) = key

Continue(b, l, cred, refresh) ==
    request' = [request EXCEPT ![b] = [at |-> l, cred |-> cred, refresh |-> refresh]]

End(b) == request' = [request EXCEPT ![b] = None]

StartRequest(b) ==
    /\ request[b] = None /\ UseConfig(b)
    /\ Continue(b, "creds", None, FALSE)
    /\ UNCHANGED <<spokes, creds>>

GetCreds(b) ==
    /\ At(b, "creds") /\ ~Busy(Key(b))
    /\ IF Cached(Key(b)) # None THEN Continue(b, "send", Cached(Key(b)), TRUE)
       ELSE Continue(b, "exec", None, FALSE)
    /\ UNCHANGED <<vars, spokes, creds>>

\* The plugin reads the Secret and succeeds or fails, or the hub does not
\* answer it.
RunPlugin(b) ==
    /\ At(b, "exec")
    /\ \E cred \in PluginAnswer(Key(b)) \cup {None} :
          Continue(b, "exit", cred, request[b].refresh)
    /\ UNCHANGED <<vars, spokes, creds>>

\* A plugin that fails leaves the authenticator with what it has.
Store(key, cred) ==
    creds' = IF cred = None THEN creds
             ELSE [k \in DOMAIN creds \cup {key} |-> IF k = key THEN cred ELSE creds[k]]

\* The credential of a request is not the authenticator's any more.
Outdated(b, key) ==
    [c \in Builders |->
        IF c # b /\ (At(c, "send") \/ At(c, "rejected")) /\ Key(c) = key
        THEN [request[c] EXCEPT !.refresh = FALSE] ELSE request[c]]

PluginExits(b) ==
    /\ At(b, "exit")
    /\ LET cred == request[b].cred
           others == IF cred = None THEN request ELSE Outdated(b, Key(b))
           ended == request[b].refresh \/ cred = None
       IN  /\ Store(Key(b), cred)
           /\ request' = [others EXCEPT ![b] =
                  IF ended THEN None ELSE [at |-> "send", cred |-> cred, refresh |-> TRUE]]
    /\ UNCHANGED <<vars, spokes>>

Accepts(server, cred) ==
    cred.token.cluster = ClusterAt[server] /\ cred.token.number = accepted[ClusterAt[server]]

\* The spoke answers, or refuses the credential, or there is no answer.
Send(b) ==
    /\ At(b, "send")
    /\ \/ End(b)
       \/ /\ ~Accepts(Key(b).server, request[b].cred)
          /\ Continue(b, "rejected", request[b].cred, request[b].refresh)
    /\ UNCHANGED <<vars, spokes, creds>>

\* After a 401 the plugin runs again, unless somebody has had it run already.
Rejected(b) ==
    \/ ~request[b].refresh /\ End(b)
    \/ request[b].refresh /\ Continue(b, "exec", None, TRUE)

Refresh(b) ==
    /\ At(b, "rejected") /\ ~Busy(Key(b))
    /\ Rejected(b)
    /\ UNCHANGED <<vars, spokes, creds>>

-----------------------------------------------------------------------------

\* A cluster takes a new token only, and its Secret is written afterwards.
Rotate(c) ==
    /\ accepted[c] < MaxTokens[c] /\ secret[c] = accepted[c]
    /\ accepted' = [accepted EXCEPT ![c] = @ + 1]
    /\ UNCHANGED <<vars, secret, consumers>>

WriteSecret(c) ==
    /\ secret[c] # accepted[c]
    /\ secret' = [secret EXCEPT ![c] = accepted[c]]
    /\ UNCHANGED <<vars, accepted, consumers>>

\* A consumer gives up a configuration, or the attempt to build one.
Drop(b) ==
    /\ request[b] = None /\ Discard(b)
    /\ UNCHANGED <<spokes, consumers>>

BuildOn(b) == Build(b) /\ UNCHANGED <<spokes, consumers>>

\* What a program that uses the library may do.
Consume(b) ==
    \/ StartRequest(b) \/ GetCreds(b) \/ RunPlugin(b) \/ PluginExits(b)
    \/ Send(b) \/ Refresh(b) \/ Drop(b) \/ BuildOn(b)
    \/ (\E p \in Profiles : SelectAccessor(b, p)) /\ UNCHANGED <<spokes, consumers>>

SpokeNext ==
    /\ alive
    /\ \/ \E b \in Builders : Consume(b)
       \/ /\ \E p \in Profiles, v \in Versions, c \in Contents : Publish(p, v, c)
          /\ UNCHANGED <<spokes, consumers>>
       \/ \E c \in Clusters : Rotate(c) \/ WriteSecret(c)

\* BuildConfigFromCP goes on once it is called; nobody has to call it, to send
\* a request or to write a Secret.
SpokeSpec ==
    /\ SpokeInit /\ [][SpokeNext]_spokeVars
    /\ \A b \in Builders : WF_spokeVars(alive /\ BuildOn(b))

-----------------------------------------------------------------------------

\* A manager that an API server lets write names in every AccessProvider, as the
\* plugin's configuration, the cluster whose server it gives.
ManagersDescribe ==
    \A c \in {d \in Contents : \E v \in Versions : Admitted(v, d)} :
        \A k \in DOMAIN c :
            {x.data : x \in {y \in Range(c[k].extensions) : y.name = "exec"}}
                = {[kind |-> "object", id |-> ClusterAt[c[k].server]]}

\* The credential of a cluster is sent to the API server of that cluster and to
\* no other, whatever profiles come to describe and whoever shares the plugin's
\* answer: BuildConfigFromCP takes the address and the plugin's configuration
\* from one accessor.
NoForeignCredential ==
    \A b \in Builders :
        At(b, "send") => request[b].cred.token.cluster = ClusterAt[Key(b).server]
=============================================================================
