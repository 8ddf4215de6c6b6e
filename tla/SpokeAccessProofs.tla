------------------------- MODULE SpokeAccessProofs -------------------------
(***************************************************************************)
(* Theorems about SpokeAccess, for every number of consumers, clusters     *)
(* and tokens, and every environment of the plugin.                        *)
(***************************************************************************)
EXTENDS SpokeAccess, AccessBuildProofs

(***************************************************************************)
(* The address and the plugin's configuration stay together: in what is    *)
(* published, in the copy that a builder works on, and in the rest.Config  *)
(* that is the key of the authenticator; the credential that a plugin      *)
(* answers, that the authenticator keeps and that a request carries is the *)
(* one that this configuration names.                                      *)
(***************************************************************************)
Home(server) == [kind |-> "object", id |-> ClusterAt[server]]

Described(a) ==
    /\ a \in AccessProvider
    /\ {x.data : x \in {y \in Range(a.extensions) : y.name = "exec"}} = {Home(a.server)}

\* A key whose plugin answers for the server it is used at.
HomeKey(key) == key.kind = "config" /\ key.config = Home(key.server)

HomeCred(cred, key) == cred.token.cluster = ClusterAt[key.server]

BuildersInv ==
    /\ \A p \in Profiles : status[p] \in Contents /\ \E v \in Versions : Admitted(v, status[p])
    /\ DOMAIN status = Profiles /\ DOMAIN pc = Builders
    /\ DOMAIN accessor = Builders /\ DOMAIN outcome = Builders
    /\ \A b \in Builders :
          /\ pc[b] \in {"selected", "extensions"} => Described(accessor[b])
          /\ pc[b] = "returned" => outcome[b] = Error \/ HomeKey(outcome[b])

RequestsInv ==
    /\ DOMAIN request = Builders
    /\ \A b \in Builders :
          /\ request[b] # None =>
                /\ pc[b] = "returned" /\ HomeKey(Key(b))
                /\ DOMAIN request[b] = {"at", "cred", "refresh"}
          /\ At(b, "exit") => request[b].cred = None \/ HomeCred(request[b].cred, Key(b))
          /\ At(b, "send") => HomeCred(request[b].cred, Key(b))
    /\ \A key \in DOMAIN creds : creds[key] = None \/ HomeCred(creds[key], key)

SpokeInv == BuildersInv /\ RequestsInv

LEMMA DescribedConfig ==
    ASSUME NEW a, Described(a), NEW config
    PROVE  PluginConfig(a, config) = Home(a.server)
  <1> DEFINE at == {k \in DOMAIN a.extensions : a.extensions[k].name = "exec"}
  <1>1. a.extensions \in Seq(Extension)
    BY DEF Described, AccessProvider
  <1>2. PICK n \in Nat : at \in SUBSET (1 .. n)
    BY <1>1
  <1>3. \A k \in at : a.extensions[k].data = Home(a.server)
    BY DEF Described, Range
  <1>4. at # {}
    BY DEF Described, Range
  <1>5. PluginConfig(a, config) = IF at = {} THEN config ELSE a.extensions[Max(at)].data
    BY DEF PluginConfig
  <1> HIDE DEF at
  <1>6. Max(at) \in at
    BY <1>2, <1>4, MaxIsGreatest
  <1> QED
    BY <1>3, <1>4, <1>5, <1>6

\* secretreader answers with the token of the cluster that the key names.
LEMMA PluginAnswersHome ==
    ASSUME NEW key, HomeKey(key), NEW cred \in PluginAnswer(key)
    PROVE  HomeCred(cred, key)
  <1>1. PICK n : cred \in Plugin(key)!SecretStatus(SecretIn(key, n))
    BY DEF PluginAnswer
  <1>2. PICK data : data = SecretIn(key, n)
    OBVIOUS
  <1>3. data # None /\ cred = Plugin(key)!Credential(data["token"], "", "")
    BY <1>1, <1>2 DEF Plugin!SecretStatus, Plugin!Key
  <1>4. ExecInfo(key).config.name = ClusterAt[key.server]
    BY DEF ExecInfo, HomeKey, Home
  <1>5. data["token"].cluster = ClusterAt[key.server]
    BY <1>2, <1>3, <1>4 DEF SecretIn
  <1>6. cred.token = data["token"]
    BY <1>3 DEF Plugin!Credential
  <1> QED
    BY <1>5, <1>6 DEF HomeCred

LEMMA PublishedIsDescribed ==
    ASSUME ManagersDescribe, NEW c \in Contents, \E v \in Versions : Admitted(v, c),
           Supported(c) # {}
    PROVE  Described(GetClusterAccessor(c))
  <1>1. c \in Seq(AccessProvider)
    BY SourceAssumption
  <1>2. PICK k \in DOMAIN c : GetClusterAccessor(c) = c[k]
    BY <1>1, AccessorIsListed DEF Range
  <1>3. c[k] \in AccessProvider
    BY <1>1
  <1> QED
    BY <1>2, <1>3 DEF ManagersDescribe, Described, Home

(***************************************************************************)
(* The builders, whatever happens to requests.                             *)
(***************************************************************************)
LEMMA BuildersInit == ASSUME Init PROVE BuildersInv
  BY DEF Init, BuildersInv

\* A step that only builder b can notice.
LEMMA BuildersLocal ==
    ASSUME BuildersInv, NEW b \in Builders, UNCHANGED status,
           DOMAIN pc' = Builders, DOMAIN accessor' = Builders, DOMAIN outcome' = Builders,
           \A c \in Builders \ {b} :
               pc'[c] = pc[c] /\ accessor'[c] = accessor[c] /\ outcome'[c] = outcome[c],
           pc'[b] \in {"selected", "extensions"} => Described(accessor'[b]),
           pc'[b] = "returned" => outcome'[b] = Error \/ HomeKey(outcome'[b])
    PROVE  BuildersInv'
  BY DEF BuildersInv

LEMMA BuildersStep ==
    ASSUME ManagersDescribe, BuildersInv, [Next]_vars
    PROVE  BuildersInv'
  <1>1. ASSUME NEW p \in Profiles, NEW v \in Versions, NEW c \in Contents,
               Publish(p, v, c)
        PROVE  BuildersInv'
    BY <1>1 DEF Publish, local, BuildersInv
  <1>2. ASSUME NEW b \in Builders, NEW p \in Profiles, SelectAccessor(b, p)
        PROVE  BuildersInv'
    <2>1. CASE Supported(status[p]) = {}
      BY <1>2, <2>1, BuildersLocal DEF SelectAccessor, Return, BuildersInv
    <2>2. CASE Supported(status[p]) # {}
      <3>1. Described(GetClusterAccessor(status[p]))
        BY <2>2, PublishedIsDescribed DEF BuildersInv
      <3> QED
        BY <1>2, <2>2, <3>1, BuildersLocal DEF SelectAccessor, BuildersInv
    <2> QED
      BY <2>1, <2>2
  <1>3. ASSUME NEW b \in Builders, GetExecConfig(b) PROVE BuildersInv'
    BY <1>3, BuildersLocal DEF GetExecConfig, Return, BuildersInv
  <1>4. ASSUME NEW b \in Builders, ProcessExtension(b) PROVE BuildersInv'
    <2>1. /\ UNCHANGED <<status, accessor>> /\ pc[b] = "extensions"
          /\ \/ UNCHANGED <<pc, outcome>>
             \/ Return(b, Error)
      BY <1>4 DEF ProcessExtension, ProcessCLIArgs, ProcessEnvVars, Fail, Proceed
    <2> QED
      BY <2>1, BuildersLocal DEF Return, BuildersInv
  <1>5. ASSUME NEW b \in Builders, FinishBuild(b) PROVE BuildersInv'
    <2>1. Described(accessor[b]) /\ UNCHANGED <<status, accessor>>
      BY <1>5 DEF FinishBuild, BuildersInv
    <2>2. HomeKey(RestConfig(b))
      <3>1. PICK config : config = heap[execConfig[b]].config
        OBVIOUS
      <3>2. PluginConfig(accessor[b], config) = Home(accessor[b].server)
        BY <2>1, DescribedConfig
      <3>3. /\ RestConfig(b).kind = "config" /\ RestConfig(b).server = accessor[b].server
            /\ RestConfig(b).config = PluginConfig(accessor[b], config)
        BY <3>1 DEF RestConfig
      <3> QED
        BY <3>2, <3>3 DEF HomeKey
    <2>3. Return(b, Error) \/ Return(b, RestConfig(b))
      BY <1>5 DEF FinishBuild
    <2> QED
      BY <2>1, <2>2, <2>3, BuildersLocal DEF Return, BuildersInv
  <1>6. ASSUME NEW b \in Builders, UseConfig(b) PROVE BuildersInv'
    BY <1>6 DEF UseConfig, local, BuildersInv
  <1>7. ASSUME NEW b \in Builders, Discard(b) PROVE BuildersInv'
    BY <1>7, BuildersLocal DEF Discard, BuildersInv
  <1>8. CASE UNCHANGED vars
    BY <1>8 DEF vars, BuildersInv
  <1> QED
    BY <1>1, <1>2, <1>3, <1>4, <1>5, <1>6, <1>7, <1>8 DEF Next, Build

(***************************************************************************)
(* Requests.                                                               *)
(***************************************************************************)
LEMMA SpokeStart == SpokeInit => SpokeInv
  BY BuildersInit DEF SpokeInit, SpokeInv, RequestsInv, At

\* A request of b that goes on with a credential, or with none.
LEMMA ContinueKeeps ==
    ASSUME SpokeInv, BuildersInv', UNCHANGED <<pc, outcome>>, NEW b \in Builders,
           pc[b] = "returned", HomeKey(Key(b)),
           NEW l, NEW cred, NEW refresh, Continue(b, l, cred, refresh),
           l = "exit" => cred = None \/ HomeCred(cred, Key(b)),
           l = "send" => HomeCred(cred, Key(b)),
           \A key \in DOMAIN creds' : creds'[key] = None \/ HomeCred(creds'[key], key)
    PROVE  SpokeInv'
  BY DEF SpokeInv, RequestsInv, Continue, At, Key

LEMMA EndKeeps ==
    ASSUME SpokeInv, BuildersInv', UNCHANGED <<pc, outcome, creds>>, NEW b \in Builders,
           End(b)
    PROVE  SpokeInv'
  BY DEF SpokeInv, RequestsInv, End, At, Key

LEMMA OthersKeep ==
    ASSUME SpokeInv, BuildersInv', UNCHANGED <<request, creds>>,
           \A b \in Builders : request[b] # None => pc'[b] = pc[b] /\ outcome'[b] = outcome[b]
    PROVE  SpokeInv'
  BY DEF SpokeInv, RequestsInv, At, Key

(***************************************************************************)
(* What a consumer does besides changes nothing that a builder has: every  *)
(* step is one of AccessBuild or leaves its variables alone, so what holds *)
(* of builders holds of consumers that send requests.                      *)
(***************************************************************************)
LEMMA SpokeStepIsBuilders == [SpokeNext]_spokeVars => [Next]_vars
  <1>1. ASSUME NEW b \in Builders, alive, Consume(b) PROVE [Next]_vars
    <2>1. CASE StartRequest(b)
      BY <1>1, <2>1 DEF StartRequest, Next
    <2>2. CASE Drop(b)
      BY <1>1, <2>2 DEF Drop, Next
    <2>3. CASE (\E p \in Profiles : SelectAccessor(b, p)) \/ BuildOn(b)
      BY <1>1, <2>3 DEF Next, BuildOn
    <2>4. CASE GetCreds(b) \/ RunPlugin(b) \/ PluginExits(b) \/ Send(b) \/ Refresh(b)
      BY <2>4 DEF GetCreds, RunPlugin, PluginExits, Send, Refresh
    <2> QED
      BY <1>1, <2>1, <2>2, <2>3, <2>4 DEF Consume
  <1>2. ASSUME NEW c \in Clusters, Rotate(c) \/ WriteSecret(c) PROVE UNCHANGED vars
    BY <1>2 DEF Rotate, WriteSecret
  <1>3. CASE UNCHANGED spokeVars
    BY <1>3 DEF spokeVars
  <1>4. CASE SpokeNext
    <2>1. CASE \E p \in Profiles, v \in Versions, c \in Contents : Publish(p, v, c)
      BY <1>4, <2>1 DEF SpokeNext, Next
    <2> QED
      BY <1>1, <1>2, <1>4, <2>1 DEF SpokeNext
  <1> QED
    BY <1>3, <1>4

LEMMA SpokeStep ==
    ASSUME ManagersDescribe, SpokeInv, [SpokeNext]_spokeVars
    PROVE  SpokeInv'
  <1>1. BuildersInv'
    BY SpokeStepIsBuilders, BuildersStep DEF SpokeInv
  <1>2. \A b \in Builders : \A l : At(b, l) => pc[b] = "returned" /\ HomeKey(Key(b))
    BY DEF SpokeInv, RequestsInv, At
  <1>3. \A key \in DOMAIN creds : creds[key] = None \/ HomeCred(creds[key], key)
    BY DEF SpokeInv, RequestsInv
  <1>4. ASSUME NEW b \in Builders, StartRequest(b) PROVE SpokeInv'
    <2>1. /\ pc[b] = "returned" /\ outcome[b].kind = "config"
          /\ UNCHANGED <<pc, outcome, creds>> /\ Continue(b, "creds", None, FALSE)
      BY <1>4 DEF StartRequest, UseConfig, local
    <2>2. Error.kind = "error"
      BY DEF Error
    <2>3. outcome[b] = Error \/ HomeKey(outcome[b])
      BY <2>1 DEF SpokeInv, BuildersInv
    <2>4. HomeKey(Key(b))
      BY <2>1, <2>2, <2>3 DEF Key
    <2> QED
      BY <1>1, <1>3, <2>1, <2>4, ContinueKeeps
  <1>5. ASSUME NEW b \in Builders, GetCreds(b) PROVE SpokeInv'
    <2>1. /\ At(b, "creds") /\ UNCHANGED <<pc, outcome, creds>>
          /\ \/ Cached(Key(b)) # None /\ Continue(b, "send", Cached(Key(b)), TRUE)
             \/ Continue(b, "exec", None, FALSE)
      BY <1>5 DEF GetCreds, vars
    <2>2. Cached(Key(b)) # None => HomeCred(Cached(Key(b)), Key(b))
      BY <1>3 DEF Cached
    <2> QED
      BY <1>1, <1>2, <1>3, <2>1, <2>2, ContinueKeeps
  <1>6. ASSUME NEW b \in Builders, RunPlugin(b) PROVE SpokeInv'
    <2>1. /\ At(b, "exec") /\ UNCHANGED <<pc, outcome, creds>>
          /\ \E cred \in PluginAnswer(Key(b)) \cup {None} :
                Continue(b, "exit", cred, request[b].refresh)
      BY <1>6 DEF RunPlugin, vars
    <2>2. PICK cred \in PluginAnswer(Key(b)) \cup {None} :
             Continue(b, "exit", cred, request[b].refresh)
      BY <2>1
    <2>3. cred = None \/ HomeCred(cred, Key(b))
      BY <1>2, <2>1, PluginAnswersHome
    <2> QED
      BY <1>1, <1>2, <1>3, <2>1, <2>2, <2>3, ContinueKeeps
  <1>7. ASSUME NEW b \in Builders, PluginExits(b) PROVE SpokeInv'
    <2>1. PICK cred, key : cred = request[b].cred /\ key = Key(b)
      OBVIOUS
    <2>2. /\ At(b, "exit") /\ UNCHANGED <<pc, outcome>> /\ Store(key, cred)
          /\ cred = None \/ HomeCred(cred, key)
      BY <1>7, <2>1 DEF PluginExits, vars, SpokeInv, RequestsInv
    <2>3. \A k \in DOMAIN creds' : creds'[k] = None \/ HomeCred(creds'[k], k)
      BY <1>3, <2>2 DEF Store
    <2>4. /\ DOMAIN request' = Builders
          /\ \/ request'[b] = None
             \/ /\ request'[b] = [at |-> "send", cred |-> cred, refresh |-> TRUE]
                /\ cred # None
      BY <1>7, <2>1 DEF PluginExits, Outdated, SpokeInv, RequestsInv, At
    <2>5. ASSUME NEW c \in Builders \ {b}
          PROVE  \/ request'[c] = request[c]
                 \/ /\ request[c] # None
                    /\ request'[c] = [request[c] EXCEPT !.refresh = FALSE]
      BY <1>7 DEF PluginExits, Outdated, SpokeInv, RequestsInv, At
    <2>6. ASSUME NEW c \in Builders
          PROVE  /\ request'[c] # None =>
                       /\ pc'[c] = "returned" /\ HomeKey(Key(c)')
                       /\ DOMAIN request'[c] = {"at", "cred", "refresh"}
                 /\ At(c, "exit")' => request'[c].cred = None \/ HomeCred(request'[c].cred, Key(c)')
                 /\ At(c, "send")' => HomeCred(request'[c].cred, Key(c)')
      <3>1. Key(c)' = Key(c) /\ pc'[c] = pc[c]
        BY <2>2 DEF Key
      <3>2. CASE c = b
        BY <1>2, <2>1, <2>2, <2>4, <3>1, <3>2 DEF At
      <3>3. CASE c # b /\ request'[c] = request[c]
        BY <3>1, <3>3 DEF SpokeInv, RequestsInv, At
      <3>4. CASE c # b /\ request[c] # None /\ request'[c] = [request[c] EXCEPT !.refresh = FALSE]
        <4>1. DOMAIN request[c] = {"at", "cred", "refresh"} /\ pc[c] = "returned" /\ HomeKey(Key(c))
          BY <3>4 DEF SpokeInv, RequestsInv
        <4>2. /\ request'[c].at = request[c].at /\ request'[c].cred = request[c].cred
              /\ DOMAIN request'[c] = {"at", "cred", "refresh"}
          BY <3>4, <4>1
        <4> QED
          BY <3>1, <3>4, <4>1, <4>2 DEF SpokeInv, RequestsInv, At
      <3> QED
        BY <2>5, <3>2, <3>3, <3>4
    <2> QED
      BY <1>1, <2>3, <2>4, <2>6 DEF SpokeInv, RequestsInv
  <1>8. ASSUME NEW b \in Builders, Send(b) PROVE SpokeInv'
    <2>1. /\ At(b, "send") /\ UNCHANGED <<pc, outcome, creds>>
          /\ \/ End(b)
             \/ Continue(b, "rejected", request[b].cred, request[b].refresh)
      BY <1>8 DEF Send, vars
    <2> QED
      BY <1>1, <1>2, <1>3, <2>1, ContinueKeeps, EndKeeps
  <1>9. ASSUME NEW b \in Builders, Refresh(b) PROVE SpokeInv'
    <2>1. /\ At(b, "rejected") /\ UNCHANGED <<pc, outcome, creds>>
          /\ End(b) \/ Continue(b, "exec", None, TRUE)
      BY <1>9 DEF Refresh, Rejected, vars
    <2> QED
      BY <1>1, <1>2, <1>3, <2>1, ContinueKeeps, EndKeeps
  <1>10. ASSUME NEW b \in Builders, Drop(b) PROVE SpokeInv'
    <2>1. /\ request[b] = None /\ UNCHANGED <<request, creds>>
          /\ \A c \in Builders \ {b} : pc'[c] = pc[c] /\ outcome'[c] = outcome[c]
      BY <1>10 DEF Drop, Discard, consumers, SpokeInv, BuildersInv
    <2> QED
      BY <1>1, <2>1, OthersKeep
  <1>11. ASSUME NEW b \in Builders,
                (\E p \in Profiles : SelectAccessor(b, p)) \/ BuildOn(b),
                UNCHANGED <<spokes, consumers>>
         PROVE  SpokeInv'
    <2>1. pc[b] # "returned" /\ UNCHANGED <<request, creds>>
      BY <1>11 DEF SelectAccessor, BuildOn, Build, GetExecConfig, ProcessExtension,
                   FinishBuild, consumers
    <2>2. \/ UNCHANGED <<pc, outcome>>
          \/ \E o : Return(b, o)
          \/ (\E l : pc' = [pc EXCEPT ![b] = l]) /\ UNCHANGED outcome
      BY <1>11 DEF SelectAccessor, BuildOn, Build, GetExecConfig, ProcessExtension, ProcessCLIArgs,
                   ProcessEnvVars, Fail, Proceed, FinishBuild
    <2>3. \A c \in Builders \ {b} : pc'[c] = pc[c] /\ outcome'[c] = outcome[c]
      BY <2>2 DEF Return, SpokeInv, BuildersInv
    <2>4. request[b] = None
      BY <2>1 DEF SpokeInv, RequestsInv
    <2> QED
      BY <1>1, <2>1, <2>3, <2>4, OthersKeep
  <1>12. CASE /\ \E p \in Profiles, v \in Versions, c \in Contents : Publish(p, v, c)
              /\ UNCHANGED <<spokes, consumers>>
    BY <1>1, <1>12, OthersKeep DEF Publish, local, consumers
  <1>13. ASSUME NEW c \in Clusters, Rotate(c) \/ WriteSecret(c) PROVE SpokeInv'
    BY <1>1, <1>13, OthersKeep DEF Rotate, WriteSecret, vars, consumers
  <1>14. CASE UNCHANGED spokeVars
    BY <1>1, <1>14, OthersKeep DEF spokeVars, vars, consumers
  <1> QED
    BY <1>4, <1>5, <1>6, <1>7, <1>8, <1>9, <1>10, <1>11, <1>12, <1>13, <1>14
       DEF SpokeNext, Consume, BuildOn

(***************************************************************************)
(* Under managers that describe their clusters, no API server gets the     *)
(* credential of another cluster (BuildConfigFromCP, core.go's Run).       *)
(***************************************************************************)
THEOREM CredentialsStayHome ==
    ASSUME ManagersDescribe
    PROVE  SpokeSpec => []NoForeignCredential
  <1>1. SpokeInit => SpokeInv
    BY SpokeStart
  <1>2. SpokeInv /\ [SpokeNext]_spokeVars => SpokeInv'
    BY SpokeStep
  <1>3. SpokeInv => NoForeignCredential
    BY DEF SpokeInv, RequestsInv, NoForeignCredential, HomeCred
  <1> QED
    BY <1>1, <1>2, <1>3, PTL DEF SpokeSpec, spokeVars

\* Consumers behind an API server never panic in BuildConfigFromCP, in whatever
\* order they build, request and build again while managers publish.
THEOREM ConsumersNeverPanic == ASSUME Source = "hub" PROVE SpokeSpec => []NeverPanics
  <1>1. SpokeInit => HubInv
    BY HubInit DEF SpokeInit
  <1>2. HubInv /\ [SpokeNext]_spokeVars => HubInv'
    BY HubStep, SpokeStepIsBuilders
  <1>3. HubInv => NeverPanics
    BY DEF HubInv, NeverPanics
  <1> QED
    BY <1>1, <1>2, <1>3, PTL DEF SpokeSpec, spokeVars

\* However many requests consumers send beside, every rest.Config that they
\* build is the one that AccessPromise relates to the status it was built from,
\* and one AccessProvider leads all of them to one authenticator.
THEOREM ConsumersKeepPromise ==
    SpokeSpec => KeepsPromise /\ []OneAuthenticatorPerAccessor
  <1>1. SpokeInit => KeepInv /\ Promise!Init /\ BuildInv
    BY KeepInit, PromiseInit, BuildInit DEF SpokeInit
  <1>2. KeepInv /\ [SpokeNext]_spokeVars => KeepInv' /\ [Promise!Next]_(Promise!vars)
    BY KeepStep, PromiseStep, SpokeStepIsBuilders
  <1>3. BuildInv /\ [SpokeNext]_spokeVars => BuildInv'
    BY BuildStep, SpokeStepIsBuilders
  <1>4. BuildInv => OneAuthenticatorPerAccessor
    BY BuiltFromOne DEF BuildInv, OneAuthenticatorPerAccessor
  <1> QED
    BY <1>1, <1>2, <1>3, <1>4, PTL DEF SpokeSpec, spokeVars, KeepsPromise, Promise!Spec
=============================================================================
