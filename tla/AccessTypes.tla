---------------------------- MODULE AccessTypes ----------------------------
(***************************************************************************)
(* The data that pkg/access works on and the pure functions of             *)
(* pkg/access/config.go: which AccessProvider of a ClusterProfile a        *)
(* consumer uses, and how the reserved extensions of that AccessProvider   *)
(* are merged into the exec configuration of the matching provider.        *)
(*                                                                         *)
(* Strings are abstracted to members of small sets; environment variable   *)
(* names are naturals, because the code sorts by name.  The bytes of an    *)
(* extension are abstracted to what the two YAML decoders tell apart: a    *)
(* list of strings, an object whose values are all strings, some other     *)
(* object, and no data at all (an empty or null RawExtension).             *)
(***************************************************************************)
EXTENDS Integers, Sequences, FiniteSets, FiniteSetsExt

CONSTANTS
    Args,       \* command-line arguments of an exec plugin
    EnvNames,   \* names of environment variables, ordered as the code sorts
    EnvValues,  \* values of environment variables
    Names,      \* names of access providers
    Servers,    \* API server addresses
    Proxies,    \* proxy URLs
    Opaque,     \* exec-plugin configurations this package never looks into
    Providers,  \* the consumer's Config.Providers, in file order
    NoExec      \* a provider entry without execConfig

CLIArgsPolicies == {"", "Ignore", "Append", "unsupported"}

EnvVarsPolicies == {"", "Ignore", "AppendIfNotExists", "Replace", "unsupported"}

EnvVar == [name : EnvNames, value : EnvValues]

EnvMap == UNION {[D -> EnvValues] : D \in SUBSET EnvNames}

Payload ==
         [kind : {"list"}, list : Seq(Args)]
    \cup [kind : {"strings"}, map : EnvMap]
    \cup [kind : {"object"}, id : Opaque]
    \cup [kind : {"null"}]

ExecConfig == [args : Seq(Args), env : Seq(EnvVar), config : Payload]

Provider == [name : Names, exec : ExecConfig \cup {NoExec},
             cliArgs : CLIArgsPolicies, envVars : EnvVarsPolicies]

ExtensionNames == {"exec", "args", "envs", "other"}

Extension == [name : ExtensionNames, data : Payload]

AccessProvider == [name : Names, server : Servers, proxy : Proxies,
                   extensions : Seq(Extension)]

ASSUME AccessAssumption ==
    /\ EnvNames \subseteq Nat /\ IsFiniteSet(EnvNames)
    /\ Providers \in Seq(Provider)
    /\ NoExec \notin ExecConfig

-----------------------------------------------------------------------------
(* Lookups.                                                                *)

\* Positions of the configured providers that a profile's status names.
Supported(content) ==
    {i \in DOMAIN Providers : \E k \in DOMAIN content :
                                 content[k].name = Providers[i].name}

\* The map from provider name to AccessProvider is filled in list order, so
\* the last of several entries with one name wins; the providers are then
\* tried in the order of the configuration.
GetClusterAccessor(content) ==
    LET name == Providers[Min(Supported(content))].name
    IN  content[Max({k \in DOMAIN content : content[k].name = name})]

\* The first configured provider with the accessor's name.
ProviderIndex(name) == Min({i \in DOMAIN Providers : Providers[i].name = name})

-----------------------------------------------------------------------------
(* Environment variables.                                                  *)

NamesOf(env) == {env[i].name : i \in DOMAIN env}

\* The value a map holds after env was written into it front to back.
LastValue(env, n) == env[Max({i \in DOMAIN env : env[i].name = n})].value

\* The value it holds when a name that is present is never overwritten.
FirstValue(env, n) == env[Min({i \in DOMAIN env : env[i].name = n})].value

\* Decoding an empty or null payload succeeds and leaves the map nil.
Decoded(data) == IF data.kind = "strings" THEN data.map ELSE << >>

\* Mutant: the two policies are mixed up, so the wrong side takes precedence.
MutMergeEnvSwapped(policy, env, data) ==
    LET extra == Decoded(data)
    IN  [n \in DOMAIN extra \cup NamesOf(env) |->
            IF policy = "Replace"
            THEN IF n \in NamesOf(env) THEN LastValue(env, n) ELSE extra[n]
            ELSE IF n \in DOMAIN extra THEN extra[n] ELSE FirstValue(env, n)]

\* Mutant: a variable of the provider keeps its name and loses its value.
MutMergeEnvDropsValue(policy, env, data) ==
    LET extra == Decoded(data)
    IN  [n \in DOMAIN extra \cup NamesOf(env) |->
            IF n \in DOMAIN extra THEN extra[n] ELSE ""]

\* The envVars map just before it is written back to the exec configuration.
MergeEnv(policy, env, data) ==
    LET extra == Decoded(data)
    IN  [n \in DOMAIN extra \cup NamesOf(env) |->
            IF policy = "AppendIfNotExists"
            THEN IF n \in NamesOf(env) THEN LastValue(env, n) ELSE extra[n]
            ELSE IF n \in DOMAIN extra THEN extra[n] ELSE FirstValue(env, n)]

Entries(m) == {[name |-> n, value |-> m[n]] : n \in DOMAIN m}

\* Go iterates a map in any order.
MapOrders(m) ==
    Bijection(1 .. Cardinality(DOMAIN m), Entries(m))

\* Mutant: the list keeps the order of the map iteration.
MutUnsorted(list) == list

\* slices.SortFunc by name over entries with distinct names: the entry at
\* position i is the one with i - 1 smaller names.
SortFunc(list) ==
    [i \in 1 .. Len(list) |->
        CHOOSE e \in Range(list) :
            Cardinality({d \in Range(list) : d.name < e.name}) = i - 1]

-----------------------------------------------------------------------------
(* What the ClusterProfile CRD admits as status.accessProviders.  Both      *)
(* versions store the same object without conversion, so a consumer reads  *)
(* as v1alpha2 what a manager may have written as v1alpha1.                *)

Versions == {"v1alpha1", "v1alpha2"}

UniqueNames(seq) ==
    \A i, j \in DOMAIN seq : seq[i].name = seq[j].name => i = j

\* Mutant: the schema does not say that an extension is an object.
MutAdmitsAnyPayload(content) == UniqueNames(content)

\* The list is a map by name, and an extension is an object.
AdmitsV1alpha1(content) ==
    /\ UniqueNames(content)
    /\ \A k \in DOMAIN content :
         \A i \in DOMAIN content[k].extensions :
            content[k].extensions[i].data.kind \in {"strings", "object"}

\* v1alpha2 makes the extensions a map by name, too.
AdmitsV1alpha2(content) ==
    /\ AdmitsV1alpha1(content)
    /\ \A k \in DOMAIN content : UniqueNames(content[k].extensions)

CRDAdmits(version, content) ==
    \/ version = "v1alpha1" /\ AdmitsV1alpha1(content)
    \/ version = "v1alpha2" /\ AdmitsV1alpha2(content)
=============================================================================
