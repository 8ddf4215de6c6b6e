---------------------------- MODULE AccessBuild ----------------------------
(***************************************************************************)
(* Concurrent calls of Config.BuildConfigFromCP (pkg/access/config.go) in  *)
(* one consumer process, while the cluster manager keeps publishing        *)
(* statuses.  All builders share the provider configuration; the exec      *)
(* configurations are memory locations, and a builder reaches the one it   *)
(* works on through a pointer, as the code does.                           *)
(*                                                                         *)
(* One action is one stretch of the code between two accesses to memory    *)
(* that another goroutine can reach.                                       *)
(***************************************************************************)
EXTENDS AccessTypes

CONSTANTS
    Builders,  \* goroutines that call BuildConfigFromCP
    Profiles,  \* ClusterProfile objects
    Contents,  \* what managers try to publish as status.accessProviders
    None,      \* the zero value of a builder's variables
    Source     \* "hub": profiles come through the API server and its CRD;
               \* "memory": they are Go values that nothing has validated

ASSUME SourceAssumption ==
    /\ Contents \subseteq Seq(AccessProvider)
    /\ Source \in {"hub", "memory"}

VARIABLES
    status,        \* status[p]: the access providers of profile p
    rejected,      \* contents the API server refused
    alive,         \* FALSE once a panic has ended the process
    pc,            \* pc[b]: where builder b is
    content,       \* content[b]: history, the status the call was made on
    accessor,      \* accessor[b]: clusterAccessor, a deep copy
    heap,          \* exec configurations by location
    execConfig,    \* execConfig[b]: the pointer execConfig
    idx,           \* idx[b]: the loop variable of the extension loop
    outcome,       \* outcome[b]: what the call returned
    authenticators \* client-go's authenticator cache: a key per rest.Config used

vars == <<status, rejected, alive, pc, content, accessor, heap, execConfig,
          idx, outcome, authenticators>>

local == <<pc, content, accessor, heap, execConfig, idx, outcome>>

Error == [kind |-> "error"]

Shared(i) == <<"provider", i>>

Work(b) == <<"work", b>>

Configured == {i \in DOMAIN Providers : Providers[i].exec # NoExec}

Locations == {Shared(i) : i \in Configured} \cup {Work(b) : b \in Builders}

EmptyExec == [args |-> << >>, env |-> << >>, config |-> [kind |-> "null"]]

Admitted(v, c) == Source = "memory" \/ CRDAdmits(v, c)

Init ==
    /\ status \in [Profiles ->
                     {c \in Contents : \E v \in Versions : Admitted(v, c)}]
    /\ rejected = {}
    /\ alive = TRUE
    /\ pc = [b \in Builders |-> "idle"]
    /\ content = [b \in Builders |-> None]
    /\ accessor = [b \in Builders |-> None]
    /\ heap = [l \in Locations |->
                  IF l[1] = "provider" THEN Providers[l[2]].exec ELSE EmptyExec]
    /\ execConfig = [b \in Builders |-> None]
    /\ idx = [b \in Builders |-> 0]
    /\ outcome = [b \in Builders |-> None]
    /\ authenticators = {}

-----------------------------------------------------------------------------
(* The cluster manager and the API server.                                 *)

\* A manager writes through either version of the API.
Publish(p, v, c) ==
    /\ \/ /\ Admitted(v, c)
          /\ status' = [status EXCEPT ![p] = c]
          /\ UNCHANGED rejected
       \/ /\ ~Admitted(v, c)
          /\ rejected' = rejected \cup {c}
          /\ UNCHANGED status
    /\ UNCHANGED <<alive, local, authenticators>>

-----------------------------------------------------------------------------
(* BuildConfigFromCP.                                                      *)

Return(b, o) ==
    /\ pc' = [pc EXCEPT ![b] = "returned"]
    /\ outcome' = [outcome EXCEPT ![b] = o]

\* Step 1: every AccessProvider is deep-copied before one is selected.
SelectAccessor(b, p) ==
    /\ pc[b] = "idle"
    /\ content' = [content EXCEPT ![b] = status[p]]
    /\ \/ /\ Supported(status[p]) = {}
          /\ Return(b, Error)
          /\ UNCHANGED accessor
       \/ /\ Supported(status[p]) # {}
          /\ accessor' = [accessor EXCEPT ![b] = GetClusterAccessor(status[p])]
          /\ pc' = [pc EXCEPT ![b] = "selected"]
          /\ UNCHANGED outcome
    /\ UNCHANGED <<status, rejected, alive, heap, execConfig, idx, authenticators>>

\* Mutant: the builder works on the provider's own exec configuration.
MutShareExecConfig(b, i) ==
    /\ execConfig' = [execConfig EXCEPT ![b] = Shared(i)]
    /\ UNCHANGED heap

\* execConfig.DeepCopy(): the builder continues on a location of its own.
DeepCopy(b, i) ==
    /\ heap' = [heap EXCEPT ![Work(b)] = heap[Shared(i)]]
    /\ execConfig' = [execConfig EXCEPT ![b] = Work(b)]

\* Step 2: the exec configuration of the provider, or an error without one.
GetExecConfig(b) ==
    /\ pc[b] = "selected"
    /\ LET i == ProviderIndex(accessor[b].name)
       IN  \/ /\ Providers[i].exec = NoExec
              /\ Return(b, Error)
              /\ UNCHANGED <<heap, execConfig, idx>>
           \/ /\ Providers[i].exec # NoExec
              /\ DeepCopy(b, i)
              /\ idx' = [idx EXCEPT ![b] = 1]
              /\ pc' = [pc EXCEPT ![b] = "extensions"]
              /\ UNCHANGED outcome
    /\ UNCHANGED <<status, rejected, alive, content, accessor, authenticators>>

PolicyOf(b) == Providers[ProviderIndex(accessor[b].name)]

\* Mutant: the loop does not advance.
MutProceedInPlace(b) == UNCHANGED <<idx, pc, outcome, alive>>

Proceed(b) ==
    /\ idx' = [idx EXCEPT ![b] = @ + 1]
    /\ UNCHANGED <<pc, outcome, alive>>

Fail(b) == Return(b, Error) /\ UNCHANGED <<idx, heap, alive>>

SetArgs(b, args) == heap' = [heap EXCEPT ![execConfig[b]].args = args]

SetEnv(b, env) == heap' = [heap EXCEPT ![execConfig[b]].env = env]

\* processClusterProfileSourcedCLIArgData
ProcessCLIArgs(b, data) ==
    LET policy == PolicyOf(b).cliArgs
    IN  \/ policy \in {"", "Ignore"} /\ Proceed(b) /\ UNCHANGED heap
        \/ /\ policy = "Append" /\ data.kind \in {"list", "null"}
           /\ SetArgs(b, heap[execConfig[b]].args \o
                            (IF data.kind = "list" THEN data.list ELSE << >>))
           /\ Proceed(b)
        \/ policy = "Append" /\ data.kind \notin {"list", "null"} /\ Fail(b)
        \/ policy = "unsupported" /\ Fail(b)

\* The write into the map that yaml.Unmarshal left nil.
NilMapWrite(data, env) == data.kind = "null" /\ env # << >>

\* processClusterProfileSourcedEnvVarData
ProcessEnvVars(b, data) ==
    LET policy == PolicyOf(b).envVars
        env    == heap[execConfig[b]].env
        merges == policy \in {"AppendIfNotExists", "Replace"}
    IN  \/ policy \in {"", "Ignore"} /\ Proceed(b) /\ UNCHANGED heap
        \/ policy = "unsupported" /\ Fail(b)
        \/ merges /\ data.kind \notin {"strings", "null"} /\ Fail(b)
        \/ /\ merges /\ data.kind \in {"strings", "null"} /\ ~NilMapWrite(data, env)
           /\ \E list \in MapOrders(MergeEnv(policy, env, data)) :
                 SetEnv(b, SortFunc(list))
           /\ Proceed(b)
        \/ /\ merges /\ NilMapWrite(data, env)
           /\ alive' = FALSE
           /\ UNCHANGED <<pc, outcome, idx, heap>>

\* Step 3: one iteration of the loop over the accessor's extensions.
ProcessExtension(b) ==
    /\ pc[b] = "extensions"
    /\ idx[b] <= Len(accessor[b].extensions)
    /\ LET ext == accessor[b].extensions[idx[b]]
       IN  \/ ext.name = "args" /\ ProcessCLIArgs(b, ext.data)
           \/ ext.name = "envs" /\ ProcessEnvVars(b, ext.data)
           \/ ext.name \notin {"args", "envs"} /\ Proceed(b) /\ UNCHANGED heap
    /\ UNCHANGED <<status, rejected, content, accessor, execConfig, authenticators>>

\* client-go's conversion of the extension list to a map fails when a name
\* comes back after an entry that holds data.
DuplicateExtension(extensions) ==
    \E i, j \in DOMAIN extensions :
        /\ i < j /\ extensions[i].name = extensions[j].name
        /\ extensions[i].data.kind # "null"

\* Mutant: the profile's plugin configuration gives way to the provider's.
MutPluginConfig(a, config) == config

\* The value the converted map holds under the exec key, which replaces the
\* provider's plugin configuration.
PluginConfig(a, config) ==
    LET at == {k \in DOMAIN a.extensions : a.extensions[k].name = "exec"}
    IN  IF at = {} THEN config ELSE a.extensions[Max(at)].data

\* The rest.Config.  Its Proxy function closes over the accessor.
RestConfig(b) ==
    LET exec == heap[execConfig[b]]
    IN  [kind |-> "config", server |-> accessor[b].server,
         proxy |-> accessor[b].proxy, args |-> exec.args, env |-> exec.env,
         config |-> PluginConfig(accessor[b], exec.config)]

\* Step 4.
FinishBuild(b) ==
    /\ pc[b] = "extensions"
    /\ idx[b] > Len(accessor[b].extensions)
    /\ \/ DuplicateExtension(accessor[b].extensions) /\ Return(b, Error)
       \/ /\ ~DuplicateExtension(accessor[b].extensions)
          /\ Return(b, RestConfig(b))
    /\ UNCHANGED <<status, rejected, alive, content, accessor, heap, execConfig,
                   idx, authenticators>>

-----------------------------------------------------------------------------
(* The caller.  client-go keeps one authenticator per distinct exec         *)
(* configuration and cluster; the accessor is kept with the key as history. *)

UseConfig(b) ==
    /\ pc[b] = "returned" /\ outcome[b].kind = "config"
    /\ authenticators' = authenticators \cup {[accessor |-> accessor[b],
                                               key |-> outcome[b]]}
    /\ UNCHANGED <<status, rejected, alive, local>>

Discard(b) ==
    /\ pc[b] = "returned"
    /\ pc' = [pc EXCEPT ![b] = "idle"]
    /\ content' = [content EXCEPT ![b] = None]
    /\ accessor' = [accessor EXCEPT ![b] = None]
    /\ execConfig' = [execConfig EXCEPT ![b] = None]
    /\ heap' = [heap EXCEPT ![Work(b)] = EmptyExec]
    /\ idx' = [idx EXCEPT ![b] = 0]
    /\ outcome' = [outcome EXCEPT ![b] = None]
    /\ UNCHANGED <<status, rejected, alive, authenticators>>

Build(b) == GetExecConfig(b) \/ ProcessExtension(b) \/ FinishBuild(b)

Next ==
    /\ alive
    /\ \/ \E p \in Profiles, v \in Versions, c \in Contents : Publish(p, v, c)
       \/ \E b \in Builders :
             \/ \E p \in Profiles : SelectAccessor(b, p)
             \/ Build(b) \/ UseConfig(b) \/ Discard(b)

Spec == Init /\ [][Next]_vars /\ \A b \in Builders : WF_vars(alive /\ Build(b))

-----------------------------------------------------------------------------
TypeOK ==
    /\ status \in [Profiles -> Contents]
    /\ rejected \subseteq Contents
    /\ alive \in BOOLEAN
    /\ pc \in [Builders -> {"idle", "selected", "extensions", "returned"}]
    /\ content \in [Builders -> Contents \cup {None}]
    /\ accessor \in [Builders -> (UNION {Range(c) : c \in Contents}) \cup {None}]
    /\ heap \in [Locations -> ExecConfig]
    /\ execConfig \in [Builders -> Locations \cup {None}]
    /\ idx \in [Builders -> Nat]

Call(b) ==
    CASE pc[b] = "idle" -> [state |-> "idle"]
      [] pc[b] \in {"selected", "extensions"} ->
            [state |-> "pending", content |-> content[b]]
      [] pc[b] = "returned" -> [state |-> "returned", content |-> content[b],
                                outcome |-> outcome[b]]

Promise == INSTANCE AccessPromise WITH call <- [b \in Builders |-> Call(b)]

\* Every call answers as AccessPromise says, from the status it was made on
\* and from the provider file, whatever the other calls and publications do.
KeepsPromise == Promise!Spec

\* The provider configuration that all callers share never changes: arguments
\* and variables sourced from one profile do not reach another cluster.
ProviderConfigUntouched == \A i \in Configured : heap[Shared(i)] = Providers[i].exec

\* client-go holds at most one authenticator for what one AccessProvider
\* describes, however often and by whomever its rest.Config is built.
OneAuthenticatorPerAccessor ==
    \A x, y \in authenticators : x.accessor = y.accessor => x.key = y.key

\* A call that was made returns, unless a panic ends the process.
CallReturns ==
    \A b \in Builders : pc[b] = "selected" ~> (pc[b] = "returned" \/ ~alive)

\* Merging variables into profiles that came through the API server never
\* panics, whatever managers try to publish.
NeverPanics == alive

\* The two merging policies "add existing environment variables": a call
\* that has reached the extensions returns an error or a configuration that
\* still names every variable of the provider file.
ExistingEnvIsAdded ==
    \A b \in Builders :
        pc[b] = "extensions" ~>
            /\ pc[b] = "returned"
            /\ \/ outcome[b] = Error
               \/ NamesOf(PolicyOf(b).exec.env) \subseteq NamesOf(outcome[b].env)

\* A status whose extensions have the shapes that the two merging functions
\* decode, and that names nothing twice, is never refused by the API server:
\* users can pass arguments and variables "from the ClusterProfile API side".
WellFormedIsPublishable ==
    \A c \in rejected :
        ~ /\ UniqueNames(c)
          /\ \A k \in DOMAIN c :
               LET extensions == c[k].extensions
               IN  /\ UniqueNames(extensions)
                   /\ \A i \in DOMAIN extensions :
                        extensions[i].data.kind =
                          CASE extensions[i].name = "args" -> "list"
                            [] extensions[i].name = "envs" -> "strings"
                            [] OTHER -> "object"
=============================================================================
