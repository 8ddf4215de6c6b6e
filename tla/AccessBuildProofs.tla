------------------------- MODULE AccessBuildProofs -------------------------
(***************************************************************************)
(* Theorems about AccessBuild, for every provider file, every set of       *)
(* published statuses and every number of builders.                        *)
(***************************************************************************)
EXTENDS AccessBuild, FiniteSetTheorems, WellFoundedInduction, TLAPS

(***************************************************************************)
(* The lookups and the environment merge of AccessTypes: which             *)
(* AccessProvider is selected, and what sorting the merged variables       *)
(* returns.                                                                *)
(***************************************************************************)
LEMMA MinIsLeast ==
    ASSUME NEW S \in SUBSET Nat, S # {}
    PROVE  Min(S) \in S /\ \A x \in S : Min(S) <= x
  <1>1. PICK m \in S : \A x \in S : ~(<<x, m>> \in OpToRel(<, Nat))
    BY NatLessThanWellFounded, WFMin
  <1>2. ASSUME NEW x \in S, x < m PROVE FALSE
    <2>1. <<x, m>> \in OpToRel(<, Nat)
      BY <1>2 DEF OpToRel
    <2> QED
      BY <1>1, <2>1
  <1>3. \A x \in S : m <= x
    BY <1>2
  <1> QED
    BY <1>3 DEF Min

LEMMA MaxIsGreatest ==
    ASSUME NEW n \in Nat, NEW S \in SUBSET (1 .. n), S # {}
    PROVE  Max(S) \in S /\ \A x \in S : x <= Max(S)
  <1> DEFINE T == {n - x : x \in S}
  <1>1. T \in SUBSET Nat /\ T # {}
    <2>1. \A x \in S : n - x \in Nat
      OBVIOUS
    <2> QED
      BY <2>1
  <1>2. PICK m \in S : n - m = Min(T)
    BY <1>1, MinIsLeast
  <1>3. \A x \in S : n - m <= n - x
    BY <1>1, <1>2, MinIsLeast
  <1>4. \A x \in S : m >= x
    BY <1>3
  <1>5. Max(S) \in S /\ \A x \in S : Max(S) >= x
    BY <1>4 DEF Max
  <1> QED
    BY <1>5

\* The selected AccessProvider is an entry of the status, and its name is
\* that of the first configured provider the profile offers.
LEMMA AccessorIsListed ==
    ASSUME NEW c \in Seq(AccessProvider), Supported(c) # {}
    PROVE  /\ GetClusterAccessor(c) \in Range(c)
           /\ GetClusterAccessor(c).name =
                Providers[Min(Supported(c))].name
           /\ Min(Supported(c)) \in Supported(c)
  <1> DEFINE first == Min(Supported(c))
             at == {k \in DOMAIN c : c[k].name = Providers[first].name}
  <1>1. Supported(c) \in SUBSET Nat
    BY AccessAssumption DEF Supported
  <1>2. first \in Supported(c)
    BY <1>1, MinIsLeast
  <1>3. at # {} /\ at \in SUBSET (1 .. Len(c))
    BY <1>2 DEF Supported
  <1>4. Max(at) \in at
    <2>1. Len(c) \in Nat
      OBVIOUS
    <2> HIDE DEF at
    <2> QED
      BY <1>3, <2>1, MaxIsGreatest
  <1>5. GetClusterAccessor(c) = c[Max(at)]
    BY DEF GetClusterAccessor
  <1> QED
    BY <1>2, <1>4, <1>5 DEF Range

-----------------------------------------------------------------------------
(* Sorting.                                                                *)

Smaller(R, e) == {d \in R : d.name < e.name}

Rank(R, e) == Cardinality(Smaller(R, e))

\* A finite set of variables with different names.
Distinct(R) ==
    /\ IsFiniteSet(R)
    /\ \A e \in R : e.name \in Nat
    /\ \A d, e \in R : d.name = e.name => d = e

LEMMA RankIsMonotone ==
    ASSUME NEW R, Distinct(R), NEW d \in R, NEW e \in R, d.name < e.name
    PROVE  /\ Rank(R, d) \in Nat /\ Rank(R, e) \in Nat
           /\ Rank(R, d) < Rank(R, e)
  <1>1. Smaller(R, d) \in SUBSET Smaller(R, e)
    BY DEF Distinct, Smaller
  <1>2. Smaller(R, d) # Smaller(R, e)
    BY DEF Distinct, Smaller
  <1>3. IsFiniteSet(Smaller(R, e)) /\ IsFiniteSet(Smaller(R, d))
    BY FS_Subset DEF Distinct, Smaller
  <1> QED
    BY <1>1, <1>2, <1>3, FS_Subset, FS_CardinalityType DEF Rank

LEMMA RankIsBounded ==
    ASSUME NEW R, Distinct(R), NEW e \in R
    PROVE  Rank(R, e) \in 0 .. Cardinality(R) - 1
  <1>1. Smaller(R, e) \in SUBSET R /\ Smaller(R, e) # R
    BY DEF Distinct, Smaller
  <1> QED
    BY <1>1, FS_Subset, FS_CardinalityType DEF Distinct, Rank

\* Every position is the rank of exactly one entry.
LEMMA RankIsOnto ==
    ASSUME NEW R, Distinct(R), NEW i \in 1 .. Cardinality(R)
    PROVE  \E e \in R : Rank(R, e) = i - 1
  <1> DEFINE n == Cardinality(R)
             rank == [e \in R |-> Rank(R, e)]
  <1>1. n \in Nat
    BY FS_CardinalityType DEF Distinct
  <1>2. rank \in [R -> 0 .. n - 1]
    BY RankIsBounded
  <1>3. ASSUME NEW d \in R, NEW e \in R, rank[d] = rank[e] PROVE d = e
    BY <1>3, RankIsMonotone DEF Distinct
  <1>4. rank \in Injection(R, 0 .. n - 1)
    BY <1>2, <1>3 DEF Injection, IsInjective
  <1>5. IsFiniteSet(0 .. n - 1) /\ Cardinality(0 .. n - 1) = n
    <2>1. 0 \in Int /\ n - 1 \in Int /\ (0 > n - 1 => n = 0)
      BY <1>1
    <2>2. /\ IsFiniteSet(0 .. n - 1)
          /\ Cardinality(0 .. n - 1) = IF 0 > n - 1 THEN 0 ELSE n - 1 - 0 + 1
      BY <2>1, FS_Interval, Zenon
    <2> QED
      BY <1>1, <2>1, <2>2
  <1>6. rank \in Surjection(R, 0 .. n - 1)
    BY <1>4, <1>5, FS_Injection
  <1>7. i - 1 \in 0 .. n - 1
    BY <1>1
  <1> QED
    BY <1>6, <1>7 DEF Surjection

\* slices.SortFunc loses no entry, invents none, and leaves the names in
\* strictly increasing order.
LEMMA SortFuncSorts ==
    ASSUME NEW list, NEW R, R = Range(list), Distinct(R),
           Len(list) = Cardinality(R)
    PROVE  /\ DOMAIN SortFunc(list) = 1 .. Cardinality(R)
           /\ Range(SortFunc(list)) = R
           /\ \A i \in DOMAIN SortFunc(list) : \A j \in 1 .. i - 1 :
                 SortFunc(list)[j].name < SortFunc(list)[i].name
  <1> DEFINE n == Cardinality(R)
             s == SortFunc(list)
  <1>1. n \in Nat
    BY FS_CardinalityType DEF Distinct
  <1>2. DOMAIN s = 1 .. n
    BY DEF SortFunc
  <1>3. ASSUME NEW i \in 1 .. n
        PROVE  s[i] \in R /\ Rank(R, s[i]) = i - 1
    <2>1. s[i] = CHOOSE e \in R : Rank(R, e) = i - 1
      BY DEF SortFunc, Rank, Smaller
    <2>2. \E e \in R : Rank(R, e) = i - 1
      BY RankIsOnto
    <2> QED
      BY <2>1, <2>2
  <1>4. ASSUME NEW e \in R PROVE \E i \in 1 .. n : s[i] = e
    <2>1. Rank(R, e) \in 0 .. n - 1
      BY RankIsBounded
    <2>2. PICK i \in 1 .. n : i - 1 = Rank(R, e)
      <3>1. \A r \in 0 .. n - 1 : r + 1 \in 1 .. n /\ r + 1 - 1 = r
        BY <1>1
      <3> QED
        BY <2>1, <3>1
    <2>3. s[i] \in R /\ Rank(R, s[i]) = Rank(R, e)
      BY <1>3, <2>2
    <2>4. ~(s[i].name < e.name) /\ ~(e.name < s[i].name)
      BY <2>3, RankIsMonotone
    <2>5. s[i] = e
      BY <2>3, <2>4 DEF Distinct
    <2> QED
      BY <2>5
  <1>5. Range(s) = R
    <2>1. \A i \in 1 .. n : s[i] \in R
      BY <1>3
    <2>2. \A e \in R : \E i \in 1 .. n : s[i] = e
      BY <1>4
    <2> HIDE DEF s, n
    <2>3. Range(s) = {s[i] : i \in 1 .. n}
      BY <1>2 DEF Range
    <2> QED
      BY <2>1, <2>2, <2>3
  <1>6. ASSUME NEW i \in 1 .. n, NEW j \in 1 .. i - 1
        PROVE  s[j].name < s[i].name
    <2>1. j \in 1 .. n /\ j < i
      BY <1>1
    <2>2. /\ s[i] \in R /\ s[j] \in R
          /\ Rank(R, s[i]) = i - 1 /\ Rank(R, s[j]) = j - 1
      BY <1>3, <2>1
    <2>3. ~(s[i].name < s[j].name)
      BY <1>1, <2>1, <2>2, RankIsMonotone
    <2>4. s[i].name # s[j].name
      BY <1>1, <2>1, <2>2 DEF Distinct
    <2> QED
      BY <2>2, <2>3, <2>4 DEF Distinct
  <1> QED
    BY <1>2, <1>5, <1>6

-----------------------------------------------------------------------------
(***************************************************************************)
(* No leak.  ProviderConfigUntouched is not inductive: a builder writes    *)
(* through the pointer execConfig[b], so the proof needs that the pointer  *)
(* is the builder's own location whenever the builder is in the extension  *)
(* loop, which is what the deep copy establishes.                          *)
(***************************************************************************)
OwnPointer ==
    \A b \in Builders : pc[b] = "extensions" => execConfig[b] = Work(b)

NoLeak ==
    /\ DOMAIN pc = Builders
    /\ DOMAIN execConfig = Builders
    /\ DOMAIN heap = Locations
    /\ OwnPointer
    /\ ProviderConfigUntouched

LEMMA LocationsDisjoint ==
    \A b \in Builders, i \in Configured : Work(b) # Shared(i)
  BY DEF Work, Shared

LEMMA NoLeakInit == Init => NoLeak
  <1> SUFFICES ASSUME Init PROVE NoLeak
    OBVIOUS
  <1>1. ASSUME NEW i \in Configured PROVE heap[Shared(i)] = Providers[i].exec
    BY DEF Init, Shared, Locations
  <1> QED
    BY <1>1 DEF Init, NoLeak, OwnPointer, ProviderConfigUntouched

\* A write through the builder's own pointer leaves the shared part alone.
LEMMA WriteIsPrivate ==
    ASSUME NoLeak, NEW b \in Builders, NEW v,
           heap' = [heap EXCEPT ![Work(b)] = v]
    PROVE  DOMAIN heap' = Locations /\ ProviderConfigUntouched'
  BY LocationsDisjoint DEF NoLeak, ProviderConfigUntouched, Locations, Configured

LEMMA NoLeakStep == NoLeak /\ [Next]_vars => NoLeak'
  <1> SUFFICES ASSUME NoLeak, [Next]_vars PROVE NoLeak'
    OBVIOUS
  <1> USE DEF NoLeak, OwnPointer
  <1>1. ASSUME NEW p \in Profiles, NEW v \in Versions, NEW c \in Contents,
               Publish(p, v, c)
        PROVE  NoLeak'
    BY <1>1 DEF Publish, local, ProviderConfigUntouched
  <1>2. ASSUME NEW b \in Builders, NEW p \in Profiles, SelectAccessor(b, p)
        PROVE  NoLeak'
    BY <1>2 DEF SelectAccessor, Return, ProviderConfigUntouched
  <1>3. ASSUME NEW b \in Builders, GetExecConfig(b) PROVE NoLeak'
    <2> DEFINE i == ProviderIndex(accessor[b].name)
    <2>1. CASE Providers[i].exec = NoExec
      BY <1>3, <2>1 DEF GetExecConfig, Return, ProviderConfigUntouched
    <2>2. CASE Providers[i].exec # NoExec
      <3>1. heap' = [heap EXCEPT ![Work(b)] = heap[Shared(i)]]
        BY <1>3, <2>2 DEF GetExecConfig, DeepCopy
      <3>2. DOMAIN heap' = Locations /\ ProviderConfigUntouched'
        BY <3>1, WriteIsPrivate
      <3> QED
        BY <1>3, <2>2, <3>2 DEF GetExecConfig, DeepCopy
    <2> QED
      BY <2>1, <2>2
  <1>4. ASSUME NEW b \in Builders, ProcessExtension(b) PROVE NoLeak'
    <2>1. execConfig[b] = Work(b)
      BY <1>4 DEF ProcessExtension
    <2>2. \/ UNCHANGED heap
          \/ \E v : heap' = [heap EXCEPT ![Work(b)] = v]
      BY <1>4, <2>1 DEF ProcessExtension, ProcessCLIArgs, ProcessEnvVars,
                        SetArgs, SetEnv, Fail, Proceed
    <2>3. DOMAIN heap' = Locations /\ ProviderConfigUntouched'
      <3>1. CASE UNCHANGED heap
        BY <3>1 DEF ProviderConfigUntouched
      <3>2. CASE \E v : heap' = [heap EXCEPT ![Work(b)] = v]
        BY <3>2, WriteIsPrivate
      <3> QED
        BY <2>2, <3>1, <3>2
    <2>4. UNCHANGED execConfig
      BY <1>4 DEF ProcessExtension
    <2>5. UNCHANGED pc \/ pc' = [pc EXCEPT ![b] = "returned"]
      BY <1>4 DEF ProcessExtension, ProcessCLIArgs, ProcessEnvVars, Fail,
                  Proceed, Return
    <2> QED
      BY <2>3, <2>4, <2>5
  <1>5. ASSUME NEW b \in Builders, FinishBuild(b) PROVE NoLeak'
    BY <1>5 DEF FinishBuild, Return, ProviderConfigUntouched
  <1>6. ASSUME NEW b \in Builders, UseConfig(b) PROVE NoLeak'
    BY <1>6 DEF UseConfig, local, ProviderConfigUntouched
  <1>7. ASSUME NEW b \in Builders, Discard(b) PROVE NoLeak'
    <2>1. DOMAIN heap' = Locations /\ ProviderConfigUntouched'
      BY <1>7, WriteIsPrivate DEF Discard
    <2> QED
      BY <1>7, <2>1 DEF Discard
  <1>8. CASE UNCHANGED vars
    BY <1>8 DEF vars, ProviderConfigUntouched
  <1> QED
    BY <1>1, <1>2, <1>3, <1>4, <1>5, <1>6, <1>7, <1>8 DEF Next, Build

\* Whatever the builders do concurrently, the provider configuration they
\* share stays the one that was read from the provider file.
THEOREM SharedConfigNeverChanges == Spec => []ProviderConfigUntouched
  <1>1. NoLeak => ProviderConfigUntouched
    BY DEF NoLeak
  <1> QED
    BY NoLeakInit, NoLeakStep, <1>1, PTL DEF Spec

(***************************************************************************)
(* No panic behind the API server.  The panic needs an envs extension      *)
(* without data.  The proof carries the CRD's admission from the published *)
(* status through the accessor's deep copy to the extension the loop is    *)
(* at.                                                                     *)
(***************************************************************************)
Filled(a) ==
    /\ a \in AccessProvider
    /\ \A i \in DOMAIN a.extensions : a.extensions[i].data.kind # "null"

HubInv ==
    /\ alive = TRUE
    /\ status \in [Profiles -> {c \in Contents : AdmitsV1alpha1(c)}]
    /\ DOMAIN pc = Builders /\ DOMAIN accessor = Builders /\ DOMAIN idx = Builders
    /\ \A b \in Builders :
          /\ pc[b] \in {"selected", "extensions"} => Filled(accessor[b])
          /\ pc[b] = "extensions" => idx[b] \in Nat \ {0}

LEMMA AdmittedIsFilled ==
    ASSUME NEW c \in Contents, AdmitsV1alpha1(c), Supported(c) # {}
    PROVE  Filled(GetClusterAccessor(c))
  <1>1. c \in Seq(AccessProvider)
    BY SourceAssumption
  <1>2. PICK k \in DOMAIN c : GetClusterAccessor(c) = c[k]
    BY <1>1, AccessorIsListed DEF Range
  <1>3. c[k] \in AccessProvider
    BY <1>1
  <1>4. \A i \in DOMAIN c[k].extensions :
            c[k].extensions[i].data.kind \in {"strings", "object"}
    BY DEF AdmitsV1alpha1
  <1> QED
    BY <1>2, <1>3, <1>4 DEF Filled

LEMMA HubInit == ASSUME Source = "hub" PROVE Init => HubInv
  BY DEF Init, HubInv, Admitted, CRDAdmits, AdmitsV1alpha2

LEMMA HubStep ==
    ASSUME Source = "hub", HubInv, [Next]_vars
    PROVE  HubInv'
  <1> USE DEF HubInv
  <1>1. ASSUME NEW p \in Profiles, NEW v \in Versions, NEW c \in Contents,
               Publish(p, v, c)
        PROVE  HubInv'
    BY <1>1 DEF Publish, Admitted, CRDAdmits, AdmitsV1alpha2, local
  <1>2. ASSUME NEW b \in Builders, NEW p \in Profiles, SelectAccessor(b, p)
        PROVE  HubInv'
    <2>1. CASE Supported(status[p]) = {}
      BY <1>2, <2>1 DEF SelectAccessor, Return
    <2>2. CASE Supported(status[p]) # {}
      <3>1. Filled(GetClusterAccessor(status[p]))
        BY <2>2, AdmittedIsFilled
      <3> QED
        BY <1>2, <2>2, <3>1 DEF SelectAccessor
    <2> QED
      BY <2>1, <2>2
  <1>3. ASSUME NEW b \in Builders, GetExecConfig(b) PROVE HubInv'
    BY <1>3 DEF GetExecConfig, Return
  <1>4. ASSUME NEW b \in Builders, ProcessExtension(b) PROVE HubInv'
    <2> DEFINE data == accessor[b].extensions[idx[b]].data
    <2>1. data.kind # "null"
      <3>1. accessor[b].extensions \in Seq(Extension) /\ idx[b] \in Nat \ {0}
        BY <1>4 DEF ProcessExtension, Filled, AccessProvider
      <3>2. idx[b] \in DOMAIN accessor[b].extensions
        BY <1>4, <3>1 DEF ProcessExtension
      <3> QED
        BY <1>4, <3>2 DEF ProcessExtension, Filled
    <2>2. /\ UNCHANGED alive
          /\ \/ idx' = [idx EXCEPT ![b] = @ + 1] /\ UNCHANGED pc
             \/ pc' = [pc EXCEPT ![b] = "returned"] /\ UNCHANGED idx
      BY <1>4, <2>1 DEF ProcessExtension, ProcessCLIArgs, ProcessEnvVars,
                        NilMapWrite, Fail, Proceed, Return
    <2>3. UNCHANGED <<status, accessor>>
      BY <1>4 DEF ProcessExtension
    <2> QED
      BY <2>2, <2>3
  <1>5. ASSUME NEW b \in Builders, FinishBuild(b) PROVE HubInv'
    BY <1>5 DEF FinishBuild, Return
  <1>6. ASSUME NEW b \in Builders, UseConfig(b) PROVE HubInv'
    BY <1>6 DEF UseConfig, local
  <1>7. ASSUME NEW b \in Builders, Discard(b) PROVE HubInv'
    BY <1>7 DEF Discard
  <1>8. CASE UNCHANGED vars
    BY <1>8 DEF vars
  <1> QED
    BY <1>1, <1>2, <1>3, <1>4, <1>5, <1>6, <1>7, <1>8 DEF Next, Build

\* A consumer whose profiles come through the API server never panics in
\* BuildConfigFromCP, because the CRD admits no extension without data.
THEOREM HubNeverPanics == ASSUME Source = "hub" PROVE Spec => []NeverPanics
  <1>1. HubInv => NeverPanics
    BY DEF HubInv, NeverPanics
  <1>2. Init => HubInv
    BY HubInit
  <1>3. HubInv /\ [Next]_vars => HubInv'
    BY HubStep
  <1> QED
    BY <1>1, <1>2, <1>3, PTL DEF Spec

(***************************************************************************)
(* Types.  A builder that works on an exec configuration holds an accessor *)
(* that some configured provider serves, and its pointer is its own.       *)
(***************************************************************************)
Policy(a) == Providers[ProviderIndex(a.name)]

Served(a) ==
    /\ a \in AccessProvider
    /\ \E i \in DOMAIN Providers : Providers[i].name = a.name

Working ==
    /\ DOMAIN outcome = Builders
    /\ \A b \in Builders :
          /\ pc[b] \in {"selected", "extensions"} => Served(accessor[b])
          /\ pc[b] = "extensions" =>
                idx[b] \in 1 .. (Len(accessor[b].extensions) + 1)

TypeInv == TypeOK /\ NoLeak /\ Working

LEMMA PayloadShapes ==
    ASSUME NEW data \in Payload
    PROVE  /\ data.kind \in {"list", "strings", "object", "null"}
           /\ data.kind = "list" => data.list \in Seq(Args)
           /\ data.kind = "strings" => data.map \in EnvMap
  BY DEF Payload

LEMMA PolicyIsConfigured ==
    ASSUME NEW a, Served(a)
    PROVE  /\ ProviderIndex(a.name) \in DOMAIN Providers
           /\ Policy(a) \in Provider
  <1> DEFINE S == {i \in DOMAIN Providers : Providers[i].name = a.name}
  <1>1. S \in SUBSET Nat /\ S # {}
    BY AccessAssumption DEF Served
  <1>2. Min(S) \in S
    BY <1>1, MinIsLeast
  <1>3. ProviderIndex(a.name) = Min(S)
    BY DEF ProviderIndex
  <1> HIDE DEF S
  <1>4. ProviderIndex(a.name) \in DOMAIN Providers
    BY <1>2, <1>3 DEF S
  <1> QED
    BY <1>4, AccessAssumption DEF Policy

LEMMA SelectedIsServed ==
    ASSUME NEW c \in Seq(AccessProvider), Supported(c) # {}
    PROVE  /\ Served(GetClusterAccessor(c))
           /\ GetClusterAccessor(c) \in Range(c)
  <1>1. \A x \in Range(c) : x \in AccessProvider
    BY DEF Range
  <1> QED
    BY <1>1, AccessorIsListed DEF Served, Supported

\* The merged variables: a function on finitely many names.
LEMMA MergeEnvType ==
    ASSUME NEW policy, NEW env \in Seq(EnvVar), NEW data \in Payload
    PROVE  /\ DOMAIN MergeEnv(policy, env, data) \in SUBSET EnvNames
           /\ \A n \in DOMAIN MergeEnv(policy, env, data) :
                 MergeEnv(policy, env, data)[n] \in EnvValues
  <1> DEFINE extra == Decoded(data)
  <1>1. DOMAIN extra \in SUBSET EnvNames /\ \A n \in DOMAIN extra : extra[n] \in EnvValues
    <2>1. CASE data.kind = "strings"
      <3>1. extra \in EnvMap
        BY <2>1, PayloadShapes DEF Decoded
      <3> QED
        BY <3>1 DEF EnvMap
    <2>2. CASE data.kind # "strings"
      BY <2>2 DEF Decoded
    <2> QED
      BY <2>1, <2>2
  <1>2. ASSUME NEW n \in NamesOf(env)
        PROVE  /\ n \in EnvNames
               /\ LastValue(env, n) \in EnvValues /\ FirstValue(env, n) \in EnvValues
    <2> DEFINE at == {i \in DOMAIN env : env[i].name = n}
    <2>1. at # {} /\ at \in SUBSET (1 .. Len(env)) /\ at \in SUBSET Nat /\ Len(env) \in Nat
      BY DEF NamesOf
    <2>2. LastValue(env, n) = env[Max(at)].value /\ FirstValue(env, n) = env[Min(at)].value
      BY DEF LastValue, FirstValue
    <2>3. \A i \in at : env[i] \in EnvVar /\ env[i].name = n
      OBVIOUS
    <2> HIDE DEF at
    <2>4. Max(at) \in at /\ Min(at) \in at
      BY <2>1, MaxIsGreatest, MinIsLeast
    <2>5. \A e \in EnvVar : e.name \in EnvNames /\ e.value \in EnvValues
      BY DEF EnvVar
    <2> QED
      BY <2>1, <2>2, <2>3, <2>4, <2>5
  <1> HIDE DEF extra
  <1>3. MergeEnv(policy, env, data) =
          [n \in DOMAIN extra \cup NamesOf(env) |->
            IF policy = "AppendIfNotExists"
            THEN IF n \in NamesOf(env) THEN LastValue(env, n) ELSE extra[n]
            ELSE IF n \in DOMAIN extra THEN extra[n] ELSE FirstValue(env, n)]
    BY DEF MergeEnv, extra
  <1> QED
    BY <1>1, <1>2, <1>3

\* What the code writes back, which does not depend on the map iteration.
Nth(R, i) == CHOOSE e \in R : Rank(R, e) = i - 1

SortedEntries(m) == [i \in 1 .. Cardinality(DOMAIN m) |-> Nth(Entries(m), i)]

LEMMA SortFuncByRank ==
    ASSUME NEW list
    PROVE  SortFunc(list) = [i \in 1 .. Len(list) |-> Nth(Range(list), i)]
  BY Zenon DEF SortFunc, Nth, Rank, Smaller

LEMMA EntriesAreDistinct ==
    ASSUME NEW m, DOMAIN m \in SUBSET EnvNames
    PROVE  /\ Distinct(Entries(m))
           /\ Cardinality(Entries(m)) = Cardinality(DOMAIN m)
  <1> DEFINE f == [n \in DOMAIN m |-> [name |-> n, value |-> m[n]]]
  <1>1. IsFiniteSet(DOMAIN m)
    BY AccessAssumption, FS_Subset
  <1>2. f \in Bijection(DOMAIN m, Entries(m))
    <2>1. f \in [DOMAIN m -> Entries(m)]
      BY DEF Entries
    <2>2. \A x, y \in DOMAIN m : f[x] = f[y] => x = y
      OBVIOUS
    <2>3. \A e \in Entries(m) : \E n \in DOMAIN m : f[n] = e
      BY DEF Entries
    <2> QED
      BY <2>1, <2>2, <2>3 DEF Bijection, Injection, IsInjective, Surjection
  <1>3. IsFiniteSet(Entries(m)) /\ Cardinality(Entries(m)) = Cardinality(DOMAIN m)
    BY <1>1, <1>2, FS_Bijection DEF ExistsBijection
  <1>4. \A n \in EnvNames : n \in Nat
    BY AccessAssumption
  <1> QED
    BY <1>3, <1>4 DEF Distinct, Entries

LEMMA SortingIsDeterministic ==
    ASSUME NEW m, DOMAIN m \in SUBSET EnvNames, NEW list \in MapOrders(m)
    PROVE  /\ SortFunc(list) = SortedEntries(m)
           /\ Len(list) = Cardinality(Entries(m)) /\ Range(list) = Entries(m)
  <1> DEFINE n == Cardinality(DOMAIN m)
  <1>1. n \in Nat
    BY AccessAssumption, FS_Subset, FS_CardinalityType
  <1>2. list \in Bijection(1 .. n, Entries(m))
    BY DEF MapOrders
  <1>3. DOMAIN list = 1 .. n /\ Range(list) = Entries(m)
    BY <1>2 DEF Bijection, Injection, Surjection, Range
  <1>4. Len(list) = n
    <2>1. list \in Seq(Entries(m))
      BY <1>1, <1>2 DEF Bijection, Injection
    <2> QED
      BY <1>1, <1>3, <2>1
  <1> HIDE DEF n
  <1>5. SortFunc(list) = SortedEntries(m)
    BY <1>3, <1>4, SortFuncByRank DEF SortedEntries, n
  <1> QED
    BY <1>3, <1>4, <1>5, EntriesAreDistinct DEF n

LEMMA SortedType ==
    ASSUME NEW m, DOMAIN m \in SUBSET EnvNames, \A n \in DOMAIN m : m[n] \in EnvValues,
           NEW list \in MapOrders(m)
    PROVE  SortFunc(list) \in Seq(EnvVar)
  <1>1. Entries(m) \in SUBSET EnvVar
    BY DEF Entries, EnvVar
  <1>2. /\ DOMAIN SortFunc(list) = 1 .. Cardinality(Entries(m))
        /\ Range(SortFunc(list)) = Entries(m)
    BY SortingIsDeterministic, EntriesAreDistinct, SortFuncSorts
  <1>3. Cardinality(Entries(m)) \in Nat
    BY EntriesAreDistinct, FS_CardinalityType DEF Distinct
  <1>4. SortFunc(list) = [i \in DOMAIN SortFunc(list) |-> SortFunc(list)[i]]
    BY SortFuncByRank
  <1>5. \A i \in DOMAIN SortFunc(list) : SortFunc(list)[i] \in EnvVar
    BY <1>1, <1>2 DEF Range
  <1> QED
    BY <1>2, <1>3, <1>4, <1>5

(***************************************************************************)
(* One iteration of the extension loop, as a function of the exec          *)
(* configuration that it starts from.                                      *)
(***************************************************************************)
AfterExtension(policy, x, exec) ==
    [exec EXCEPT
        !.args = IF x.name = "args" /\ policy.cliArgs = "Append"
                 THEN @ \o (IF x.data.kind = "list" THEN x.data.list ELSE << >>) ELSE @,
        !.env = IF x.name = "envs" /\ policy.envVars \in {"AppendIfNotExists", "Replace"}
                THEN SortedEntries(MergeEnv(policy.envVars, @, x.data)) ELSE @]

\* What an iteration does to everything that builder b works on.
Advances(b) ==
    /\ idx' = [idx EXCEPT ![b] = @ + 1]
    /\ UNCHANGED <<pc, outcome, alive>>
    /\ heap' = [heap EXCEPT ![Work(b)] =
                   AfterExtension(Policy(accessor[b]), accessor[b].extensions[idx[b]], @)]
    /\ heap'[Work(b)] \in ExecConfig

GivesUp(b) == Return(b, Error) /\ UNCHANGED <<idx, heap, alive>>

Panics(b) == alive' = FALSE /\ UNCHANGED <<idx, heap, pc, outcome>>

Merges(policy) == policy.envVars \in {"AppendIfNotExists", "Replace"}

\* Extension x has the shape that the policy asks for, and the policy is known.
Decodes(policy, x) ==
    /\ x.name = "args" => \/ policy.cliArgs \in {"", "Ignore"}
                          \/ policy.cliArgs = "Append" /\ x.data.kind \in {"list", "null"}
    /\ x.name = "envs" => \/ policy.envVars \in {"", "Ignore"}
                          \/ Merges(policy) /\ x.data.kind \in {"strings", "null"}

LEMMA IterationEffect ==
    ASSUME TypeInv, NEW b \in Builders, ProcessExtension(b)
    PROVE  /\ UNCHANGED <<status, rejected, content, accessor, execConfig, authenticators>>
           /\ pc[b] = "extensions" /\ idx[b] \in 1 .. Len(accessor[b].extensions)
           /\ LET policy == Policy(accessor[b])
                  x == accessor[b].extensions[idx[b]]
              IN  \/ Advances(b) /\ Decodes(policy, x)
                  \/ GivesUp(b) /\ ~Decodes(policy, x)
                  \/ Panics(b) /\ Merges(policy) /\ x.name = "envs" /\ x.data.kind = "null"
  <1> DEFINE a == accessor[b]
             x == a.extensions[idx[b]]
             policy == Policy(a)
             exec == heap[Work(b)]
  <1>1. /\ UNCHANGED <<status, rejected, content, accessor, execConfig, authenticators>>
        /\ pc[b] = "extensions" /\ execConfig[b] = Work(b) /\ Served(a)
        /\ idx[b] <= Len(a.extensions)
    BY DEF ProcessExtension, TypeInv, NoLeak, OwnPointer, Working
  <1>2. a.extensions \in Seq(Extension) /\ idx[b] \in 1 .. Len(a.extensions)
    BY <1>1 DEF TypeInv, Working, Served, AccessProvider
  <1>3. x \in Extension /\ x.data \in Payload
    <2>1. x \in Extension
      BY <1>2
    <2> QED
      BY <2>1 DEF Extension
  <1>4. policy \in Provider /\ PolicyOf(b) = policy
    BY <1>1, PolicyIsConfigured DEF PolicyOf, Policy
  <1>5. /\ DOMAIN heap = Locations /\ Work(b) \in Locations /\ exec \in ExecConfig
    BY DEF TypeInv, TypeOK, Locations
  <1>6. exec.args \in Seq(Args) /\ exec.env \in Seq(EnvVar)
        /\ exec = [args |-> exec.args, env |-> exec.env, config |-> exec.config]
    BY <1>5 DEF ExecConfig
  <1> HIDE DEF x, policy, exec
  <1>7. \/ x.name = "args" /\ ProcessCLIArgs(b, x.data)
        \/ x.name = "envs" /\ ProcessEnvVars(b, x.data)
        \/ x.name \notin {"args", "envs"} /\ Proceed(b) /\ UNCHANGED heap
    BY DEF ProcessExtension, x
  <1>8. ASSUME Proceed(b), AfterExtension(policy, x, exec) \in ExecConfig,
               heap' = [heap EXCEPT ![Work(b)] = AfterExtension(policy, x, exec)]
        PROVE  Advances(b)
    BY <1>5, <1>8 DEF Advances, Proceed, x, policy, exec, TypeInv, TypeOK
  <1>9. ASSUME Proceed(b), UNCHANGED heap, AfterExtension(policy, x, exec) = exec
        PROVE  Advances(b)
    <2>1. heap' = [heap EXCEPT ![Work(b)] = exec]
      BY <1>5, <1>9 DEF exec, TypeInv, TypeOK
    <2> QED
      BY <1>5, <1>8, <1>9, <2>1
  <1>10. ASSUME Fail(b) PROVE GivesUp(b)
    BY <1>10 DEF Fail, GivesUp
  <1> DEFINE Effect == \/ Advances(b) /\ Decodes(policy, x)
                       \/ GivesUp(b) /\ ~Decodes(policy, x)
                       \/ Panics(b) /\ Merges(policy) /\ x.name = "envs" /\ x.data.kind = "null"
  <1>11. ASSUME x.name \notin {"args", "envs"} /\ Proceed(b) /\ UNCHANGED heap
         PROVE  Effect
    <2>1. AfterExtension(policy, x, exec) = exec
      BY <1>6, <1>11 DEF AfterExtension
    <2> QED
      BY <1>9, <1>11, <2>1 DEF Decodes
  <1>12. ASSUME x.name = "args", ProcessCLIArgs(b, x.data) PROVE Effect
    <2> DEFINE more == IF x.data.kind = "list" THEN x.data.list ELSE << >>
    <2>1. more \in Seq(Args)
      BY <1>3, PayloadShapes
    <2> HIDE DEF more
    <2>2. CASE policy.cliArgs \in {"", "Ignore"} /\ Proceed(b) /\ UNCHANGED heap
      <3>1. AfterExtension(policy, x, exec) = exec
        BY <1>6, <1>12, <2>2 DEF AfterExtension
      <3> QED
        BY <1>9, <1>12, <2>2, <3>1 DEF Decodes
    <2>3. CASE /\ policy.cliArgs = "Append" /\ Proceed(b) /\ x.data.kind \in {"list", "null"}
               /\ SetArgs(b, heap[execConfig[b]].args \o more)
      <3>1. PICK args \in Seq(Args) : args = exec.args \o more
        <4>1. \A p, q \in Seq(Args) : p \o q \in Seq(Args)
          OBVIOUS
        <4> QED
          BY <1>6, <2>1, <4>1
      <3>2. AfterExtension(policy, x, exec) = [exec EXCEPT !.args = args]
        BY <1>6, <1>12, <2>3, <3>1 DEF AfterExtension, more
      <3>3. [exec EXCEPT !.args = args] \in ExecConfig
        BY <1>5, <3>1 DEF ExecConfig
      <3>4. heap' = [heap EXCEPT ![Work(b)] = [exec EXCEPT !.args = args]]
        BY <1>1, <1>5, <2>3, <3>1 DEF SetArgs, exec
      <3> QED
        BY <1>8, <1>12, <2>3, <3>2, <3>3, <3>4 DEF Decodes
    <2>4. CASE Fail(b) /\ \/ policy.cliArgs = "Append" /\ x.data.kind \notin {"list", "null"}
                          \/ policy.cliArgs = "unsupported"
      BY <1>10, <1>12, <2>4 DEF Decodes
    <2> QED
      BY <1>4, <1>12, <2>2, <2>3, <2>4 DEF ProcessCLIArgs, more
  <1>13. ASSUME x.name = "envs", ProcessEnvVars(b, x.data) PROVE Effect
    <2> DEFINE m == MergeEnv(policy.envVars, exec.env, x.data)
    <2>1. /\ DOMAIN m \in SUBSET EnvNames
          /\ \A n \in DOMAIN m : m[n] \in EnvValues
      BY <1>3, <1>6, MergeEnvType
    <2>2. CASE policy.envVars \in {"", "Ignore"} /\ Proceed(b) /\ UNCHANGED heap
      <3>1. AfterExtension(policy, x, exec) = exec
        BY <1>6, <1>13, <2>2 DEF AfterExtension
      <3> QED
        BY <1>9, <1>13, <2>2, <3>1 DEF Decodes
    <2>3. CASE /\ policy.envVars \in {"AppendIfNotExists", "Replace"} /\ Proceed(b)
               /\ x.data.kind \in {"strings", "null"}
               /\ \E list \in MapOrders(m) : SetEnv(b, SortFunc(list))
      <3>1. PICK list \in MapOrders(m) : SetEnv(b, SortFunc(list))
        BY <2>3
      <3>2. PICK env : env = SortFunc(list)
        OBVIOUS
      <3> HIDE DEF m
      <3>3. env \in Seq(EnvVar) /\ env = SortedEntries(m)
        BY <2>1, <3>2, SortedType, SortingIsDeterministic
      <3>4. AfterExtension(policy, x, exec) = [exec EXCEPT !.env = env]
        BY <1>6, <1>13, <2>3, <3>3 DEF AfterExtension, m
      <3>5. [exec EXCEPT !.env = env] \in ExecConfig
        BY <1>5, <3>3 DEF ExecConfig
      <3>6. heap' = [heap EXCEPT ![Work(b)] = [exec EXCEPT !.env = env]]
        BY <1>1, <1>5, <3>1, <3>2 DEF SetEnv, exec
      <3> QED
        BY <1>8, <1>13, <2>3, <3>4, <3>5, <3>6 DEF Decodes, Merges
    <2>4. CASE /\ policy.envVars \in {"AppendIfNotExists", "Replace"}
               /\ x.data.kind = "null" /\ Panics(b)
      BY <1>13, <2>4 DEF Merges
    <2>5. CASE Fail(b) /\ \/ /\ policy.envVars \in {"AppendIfNotExists", "Replace"}
                             /\ x.data.kind \notin {"strings", "null"}
                          \/ policy.envVars = "unsupported"
      BY <1>10, <1>13, <2>5 DEF Decodes, Merges
    <2> QED
      BY <1>1, <1>4, <1>13, <2>2, <2>3, <2>4, <2>5
         DEF ProcessEnvVars, NilMapWrite, Panics, exec
  <1>14. Effect
    BY <1>7, <1>11, <1>12, <1>13
  <1> QED
    BY <1>1, <1>2, <1>14 DEF x, policy

LEMMA TypeInit == Init => TypeInv
  <1> SUFFICES ASSUME Init PROVE TypeInv
    OBVIOUS
  <1>1. NoLeak
    BY NoLeakInit
  <1>2. EmptyExec \in ExecConfig
    <2>1. [kind |-> "null"] \in Payload
      BY DEF Payload
    <2>2. << >> \in Seq(Args) /\ << >> \in Seq(EnvVar)
      OBVIOUS
    <2> QED
      BY <2>1, <2>2 DEF EmptyExec, ExecConfig
  <1>3. \A i \in Configured : Providers[i].exec \in ExecConfig
    <2>1. \A i \in DOMAIN Providers : Providers[i] \in Provider
      BY AccessAssumption
    <2> QED
      BY <2>1 DEF Configured, Provider
  <1>4. heap \in [Locations -> ExecConfig]
    <2>1. \A l \in Locations : IF l[1] = "provider" THEN l[2] \in Configured ELSE TRUE
      BY DEF Locations, Shared, Work
    <2> QED
      BY <1>2, <1>3, <2>1 DEF Init
  <1>5. status \in [Profiles -> Contents]
    BY DEF Init
  <1>6. Working
    BY DEF Init, Working
  <1>7. TypeOK
    <2>1. /\ pc \in [Builders -> {"idle", "selected", "extensions", "returned"}]
          /\ content \in [Builders -> Contents \cup {None}]
          /\ execConfig \in [Builders -> Locations \cup {None}]
      BY DEF Init
    <2>2. accessor \in [Builders -> (UNION {Range(c) : c \in Contents}) \cup {None}]
      <3>1. \A S : accessor \in [Builders -> S \cup {None}]
        BY DEF Init
      <3> QED
        BY <3>1, Zenon
    <2>3. idx \in [Builders -> Nat]
      BY DEF Init
    <2> QED
      BY <1>4, <1>5, <2>1, <2>2, <2>3 DEF Init, TypeOK
  <1> QED
    BY <1>1, <1>6, <1>7 DEF TypeInv

LEMMA TypeStep == TypeInv /\ [Next]_vars => TypeInv'
  <1> SUFFICES ASSUME TypeInv, [Next]_vars PROVE TypeInv'
    OBVIOUS
  <1>0. NoLeak'
    BY NoLeakStep DEF TypeInv
  <1>1. ASSUME NEW p \in Profiles, NEW v \in Versions, NEW c \in Contents,
               Publish(p, v, c)
        PROVE  TypeInv'
    <2>1. UNCHANGED <<alive, local>>
      BY <1>1 DEF Publish
    <2>2. status' \in [Profiles -> Contents] /\ rejected' \subseteq Contents
      BY <1>1 DEF Publish, TypeInv, TypeOK
    <2> QED
      BY <1>0, <2>1, <2>2 DEF local, TypeInv, TypeOK, Working
  <1>2. ASSUME NEW b \in Builders, NEW p \in Profiles, SelectAccessor(b, p)
        PROVE  TypeInv'
    <2>1. /\ UNCHANGED <<status, rejected, alive, heap, execConfig, idx>>
          /\ content' = [content EXCEPT ![b] = status[p]]
          /\ status[p] \in Contents /\ status[p] \in Seq(AccessProvider)
      BY <1>2, SourceAssumption DEF SelectAccessor, TypeInv, TypeOK
    <2>2. content' \in [Builders -> Contents \cup {None}]
      BY <2>1 DEF TypeInv, TypeOK
    <2>3. CASE Supported(status[p]) = {}
      <3>1. Return(b, Error) /\ UNCHANGED accessor
        BY <1>2, <2>3 DEF SelectAccessor
      <3> QED
        BY <1>0, <2>1, <2>2, <3>1 DEF Return, TypeInv, TypeOK, Working
    <2>4. CASE Supported(status[p]) # {}
      <3>1. PICK a : a = GetClusterAccessor(status[p])
        OBVIOUS
      <3>2. Served(a) /\ a \in UNION {Range(c) : c \in Contents}
        BY <2>1, <2>4, <3>1, SelectedIsServed
      <3>3. /\ accessor' = [accessor EXCEPT ![b] = a] /\ UNCHANGED outcome
            /\ pc' = [pc EXCEPT ![b] = "selected"]
        BY <1>2, <2>4, <3>1 DEF SelectAccessor
      <3>4. Working'
        BY <2>1, <3>2, <3>3 DEF TypeInv, TypeOK, Working
      <3>5. TypeOK'
        BY <2>1, <2>2, <3>2, <3>3 DEF TypeInv, TypeOK
      <3> QED
        BY <1>0, <3>4, <3>5 DEF TypeInv
    <2> QED
      BY <2>3, <2>4
  <1>3. ASSUME NEW b \in Builders, GetExecConfig(b) PROVE TypeInv'
    <2> DEFINE i == ProviderIndex(accessor[b].name)
    <2>1. /\ UNCHANGED <<status, rejected, alive, content, accessor>>
          /\ pc[b] = "selected" /\ Served(accessor[b])
      BY <1>3 DEF GetExecConfig, TypeInv, Working
    <2>2. i \in DOMAIN Providers
      BY <2>1, PolicyIsConfigured
    <2>3. CASE Providers[i].exec = NoExec
      <3>1. Return(b, Error) /\ UNCHANGED <<heap, execConfig, idx>>
        BY <1>3, <2>3 DEF GetExecConfig
      <3> QED
        BY <1>0, <2>1, <3>1 DEF Return, TypeInv, TypeOK, Working
    <2>4. CASE Providers[i].exec # NoExec
      <3>1. i \in Configured
        BY <2>2, <2>4 DEF Configured
      <3> HIDE DEF i
      <3>2. heap[Shared(i)] \in ExecConfig /\ Work(b) \in Locations
        BY <3>1 DEF Locations, TypeInv, TypeOK
      <3>3. /\ heap' = [heap EXCEPT ![Work(b)] = heap[Shared(i)]]
            /\ execConfig' = [execConfig EXCEPT ![b] = Work(b)]
            /\ idx' = [idx EXCEPT ![b] = 1] /\ UNCHANGED outcome
            /\ pc' = [pc EXCEPT ![b] = "extensions"]
        BY <1>3, <2>4 DEF GetExecConfig, DeepCopy, i
      <3>4. 1 \in 1 .. (Len(accessor[b].extensions) + 1)
        <4>1. Len(accessor[b].extensions) \in Nat
          BY <2>1 DEF Served, AccessProvider
        <4> QED
          BY <4>1
      <3>5. Working'
        BY <2>1, <3>3, <3>4 DEF TypeInv, TypeOK, Working
      <3>6. TypeOK'
        BY <2>1, <3>2, <3>3 DEF TypeInv, TypeOK
      <3> QED
        BY <1>0, <3>5, <3>6 DEF TypeInv
    <2> QED
      BY <2>3, <2>4
  <1>4. ASSUME NEW b \in Builders, ProcessExtension(b) PROVE TypeInv'
    <2>1. /\ UNCHANGED <<status, rejected, content, accessor, execConfig>>
          /\ pc[b] = "extensions" /\ idx[b] \in 1 .. Len(accessor[b].extensions)
          /\ Served(accessor[b])
      BY <1>4, IterationEffect DEF TypeInv, Working
    <2>2. CASE Advances(b)
      <3>1. PICK exec \in ExecConfig : heap' = [heap EXCEPT ![Work(b)] = exec]
        <4>1. PICK exec : heap' = [heap EXCEPT ![Work(b)] = exec]
          BY <2>2 DEF Advances
        <4>2. Work(b) \in Locations
          BY DEF Locations
        <4>3. exec = heap'[Work(b)]
          BY <4>1, <4>2 DEF TypeInv, TypeOK
        <4> QED
          BY <2>2, <4>1, <4>3 DEF Advances
      <3>2. /\ idx' = [idx EXCEPT ![b] = idx[b] + 1]
            /\ UNCHANGED <<pc, outcome, alive>>
        BY <2>2 DEF Advances
      <3>3. idx[b] + 1 \in 1 .. (Len(accessor[b].extensions) + 1) /\ idx[b] + 1 \in Nat
        <4>1. Len(accessor[b].extensions) \in Nat
          BY <2>1 DEF Served, AccessProvider
        <4> QED
          BY <2>1, <4>1
      <3>4. TypeOK'
        BY <2>1, <3>1, <3>2, <3>3 DEF TypeInv, TypeOK
      <3>5. Working'
        BY <2>1, <3>2, <3>3 DEF TypeInv, TypeOK, Working
      <3> QED
        BY <1>0, <3>4, <3>5 DEF TypeInv
    <2>3. CASE GivesUp(b)
      BY <1>0, <2>1, <2>3 DEF GivesUp, Return, TypeInv, TypeOK, Working
    <2>4. CASE Panics(b)
      BY <1>0, <2>1, <2>4 DEF Panics, TypeInv, TypeOK, Working
    <2> QED
      BY <1>4, <2>2, <2>3, <2>4, IterationEffect
  <1>5. ASSUME NEW b \in Builders, FinishBuild(b) PROVE TypeInv'
    BY <1>0, <1>5 DEF FinishBuild, Return, TypeInv, TypeOK, Working
  <1>6. ASSUME NEW b \in Builders, UseConfig(b) PROVE TypeInv'
    BY <1>0, <1>6 DEF UseConfig, local, TypeInv, TypeOK, Working
  <1>7. ASSUME NEW b \in Builders, Discard(b) PROVE TypeInv'
    <2>1. EmptyExec \in ExecConfig
      <3>1. [kind |-> "null"] \in Payload
        BY DEF Payload
      <3> QED
        BY <3>1 DEF EmptyExec, ExecConfig
    <2>2. PICK exec \in ExecConfig : heap' = [heap EXCEPT ![Work(b)] = exec]
      BY <1>7, <2>1 DEF Discard
    <2>3. heap' \in [Locations -> ExecConfig]
      BY <2>2 DEF TypeInv, TypeOK
    <2>4. TypeOK'
      <3>1. /\ pc' \in [Builders -> {"idle", "selected", "extensions", "returned"}]
            /\ content' \in [Builders -> Contents \cup {None}]
            /\ execConfig' \in [Builders -> Locations \cup {None}]
        BY <1>7 DEF Discard, TypeInv, TypeOK
      <3>2. accessor' \in [Builders -> (UNION {Range(c) : c \in Contents}) \cup {None}]
        <4>1. accessor' = [accessor EXCEPT ![b] = None]
          BY <1>7 DEF Discard
        <4>2. \A S : accessor \in [Builders -> S \cup {None}]
                       => accessor' \in [Builders -> S \cup {None}]
          BY <4>1
        <4>3. accessor \in [Builders -> (UNION {Range(c) : c \in Contents}) \cup {None}]
          BY DEF TypeInv, TypeOK
        <4> QED
          BY <4>2, <4>3, Zenon
      <3>3. idx' \in [Builders -> Nat]
        BY <1>7 DEF Discard, TypeInv, TypeOK
      <3> QED
        BY <1>7, <2>3, <3>1, <3>2, <3>3 DEF Discard, TypeInv, TypeOK
    <2>5. Working'
      BY <1>7 DEF Discard, TypeInv, TypeOK, Working
    <2> QED
      BY <1>0, <2>4, <2>5 DEF TypeInv
  <1>8. CASE UNCHANGED vars
    BY <1>0, <1>8 DEF vars, TypeInv, TypeOK, Working
  <1> QED
    BY <1>1, <1>2, <1>3, <1>4, <1>5, <1>6, <1>7, <1>8 DEF Next, Build

\* Every variable of the builders keeps its type: in particular what a builder
\* writes back, after whatever extensions and policies, is an exec configuration.
THEOREM BuildTypes == Spec => []TypeOK
  <1>1. TypeInv => TypeOK
    BY DEF TypeInv
  <1> QED
    BY TypeInit, TypeStep, <1>1, PTL DEF Spec

(***************************************************************************)
(* One authenticator per accessor.  What a builder returns is computed in  *)
(* a loop, partly in the order of a map iteration.  The invariant keeps    *)
(* the configurations that the loop went through; an accessor has only one *)
(* such history, so all builders that had it returned the same.            *)
(***************************************************************************)
\* The exec configurations before the loop over a's extensions and after each
\* of its first n iterations.
History(a, n, h) ==
    /\ DOMAIN h = 0 .. n
    /\ h[0] = Policy(a).exec
    /\ \A i \in 1 .. n : h[i] = AfterExtension(Policy(a), a.extensions[i], h[i - 1])

Reaches(a, n, exec) == \E h : History(a, n, h) /\ exec = h[n]

Config(a, exec) ==
    [kind |-> "config", server |-> a.server, proxy |-> a.proxy, args |-> exec.args,
     env |-> exec.env, config |-> PluginConfig(a, exec.config)]

BuiltFrom(a, o) ==
    a \in AccessProvider /\ \E exec : Reaches(a, Len(a.extensions), exec) /\ o = Config(a, exec)

BuildInv ==
    /\ TypeInv
    /\ \A b \in Builders :
          /\ pc[b] = "extensions" => Reaches(accessor[b], idx[b] - 1, heap[Work(b)])
          /\ pc[b] = "returned" =>
                outcome[b] = Error \/ BuiltFrom(accessor[b], outcome[b])
    /\ \A x \in authenticators : BuiltFrom(x.accessor, x.key)

LEMMA HistoriesAgree ==
    ASSUME NEW a, NEW n \in Nat, NEW h, NEW g, History(a, n, h), History(a, n, g)
    PROVE  \A i \in 0 .. n : h[i] = g[i]
  <1> DEFINE S == {i \in 0 .. n : h[i] # g[i]}
  <1>1. ASSUME S # {} PROVE FALSE
    <2>1. S \in SUBSET Nat
      OBVIOUS
    <2>2. Min(S) \in S /\ \A i \in S : Min(S) <= i
      BY <1>1, <2>1, MinIsLeast
    <2>3. PICK k : k = Min(S)
      OBVIOUS
    <2>4. k \in 0 .. n /\ h[k] # g[k] /\ \A i \in 0 .. n : h[i] # g[i] => k <= i
      BY <2>2, <2>3
    <2>5. k # 0
      BY <2>4 DEF History
    <2>6. k \in 1 .. n /\ k - 1 \in 0 .. n /\ ~(k <= k - 1)
      BY <2>4, <2>5
    <2>7. h[k - 1] = g[k - 1]
      BY <2>4, <2>6
    <2> QED
      BY <2>4, <2>6, <2>7 DEF History
  <1> QED
    BY <1>1

LEMMA ReachesOne ==
    ASSUME NEW a, NEW n \in Nat, NEW exec, NEW other,
           Reaches(a, n, exec), Reaches(a, n, other)
    PROVE  exec = other
  <1>1. PICK h, g : /\ History(a, n, h) /\ exec = h[n]
                    /\ History(a, n, g) /\ other = g[n]
    BY DEF Reaches
  <1>2. n \in 0 .. n
    OBVIOUS
  <1> QED
    BY <1>1, <1>2, HistoriesAgree

LEMMA ReachesNext ==
    ASSUME NEW a, NEW n \in Nat, NEW exec, Reaches(a, n, exec)
    PROVE  Reaches(a, n + 1, AfterExtension(Policy(a), a.extensions[n + 1], exec))
  <1>1. PICK h : History(a, n, h) /\ exec = h[n]
    BY DEF Reaches
  <1>2. PICK next : next = AfterExtension(Policy(a), a.extensions[n + 1], exec)
    OBVIOUS
  <1> DEFINE g == [i \in 0 .. (n + 1) |-> IF i = n + 1 THEN next ELSE h[i]]
  <1>3. History(a, n + 1, g)
    <2>1. DOMAIN g = 0 .. (n + 1) /\ g[0] = Policy(a).exec
      BY <1>1 DEF History
    <2>2. ASSUME NEW i \in 1 .. (n + 1)
          PROVE  g[i] = AfterExtension(Policy(a), a.extensions[i], g[i - 1])
      <3>1. CASE i = n + 1
        <4>1. g[i] = next /\ g[i - 1] = exec
          BY <1>1, <3>1
        <4> QED
          BY <1>2, <3>1, <4>1
      <3>2. CASE i # n + 1
        <4>1. i \in 1 .. n /\ g[i] = h[i] /\ g[i - 1] = h[i - 1]
          BY <3>2
        <4> QED
          BY <1>1, <4>1 DEF History
      <3> QED
        BY <3>1, <3>2
    <2> HIDE DEF g
    <2> QED
      BY <2>1, <2>2 DEF History
  <1>4. g[n + 1] = next
    OBVIOUS
  <1> HIDE DEF g
  <1> QED
    BY <1>2, <1>3, <1>4 DEF Reaches

LEMMA ReachesStart ==
    ASSUME NEW a PROVE Reaches(a, 0, Policy(a).exec)
  <1> DEFINE h == [i \in 0 .. 0 |-> Policy(a).exec]
  <1>1. History(a, 0, h) /\ h[0] = Policy(a).exec
    BY DEF History
  <1> HIDE DEF h
  <1> QED
    BY <1>1 DEF Reaches

LEMMA BuiltFromOne ==
    ASSUME NEW a, NEW o, NEW q, BuiltFrom(a, o), BuiltFrom(a, q)
    PROVE  o = q
  <1>1. Len(a.extensions) \in Nat
    BY DEF BuiltFrom, AccessProvider
  <1> QED
    BY <1>1, ReachesOne DEF BuiltFrom

\* A step that leaves alone what the builders work on.
LEMMA BuildFrame ==
    ASSUME BuildInv, TypeInv', UNCHANGED <<pc, accessor, heap, idx, outcome>>,
           \A x \in authenticators' : BuiltFrom(x.accessor, x.key)
    PROVE  BuildInv'
  BY DEF BuildInv

\* A step of builder b, which changes no location but its own.
LEMMA BuildLocal ==
    ASSUME BuildInv, TypeInv', NEW b \in Builders, UNCHANGED authenticators,
           \A c \in Builders \ {b} :
              /\ pc'[c] = pc[c] /\ accessor'[c] = accessor[c] /\ idx'[c] = idx[c]
              /\ outcome'[c] = outcome[c] /\ heap'[Work(c)] = heap[Work(c)],
           pc'[b] = "extensions" => Reaches(accessor'[b], idx'[b] - 1, heap'[Work(b)]),
           pc'[b] = "returned" => outcome'[b] = Error \/ BuiltFrom(accessor'[b], outcome'[b])
    PROVE  BuildInv'
  <1>1. ASSUME NEW c \in Builders
        PROVE  /\ pc'[c] = "extensions" => Reaches(accessor'[c], idx'[c] - 1, heap'[Work(c)])
               /\ pc'[c] = "returned" =>
                     outcome'[c] = Error \/ BuiltFrom(accessor'[c], outcome'[c])
    BY DEF BuildInv
  <1>2. \A x \in authenticators' : BuiltFrom(x.accessor, x.key)
    BY DEF BuildInv
  <1> QED
    BY <1>1, <1>2 DEF BuildInv

LEMMA BuildInit == Init => BuildInv
  BY TypeInit DEF Init, BuildInv

LEMMA BuildStep == BuildInv /\ [Next]_vars => BuildInv'
  <1> SUFFICES ASSUME BuildInv, [Next]_vars PROVE BuildInv'
    OBVIOUS
  <1>1. TypeInv /\ TypeInv'
    BY TypeStep DEF BuildInv
  <1>2. /\ DOMAIN pc = Builders /\ DOMAIN accessor = Builders /\ DOMAIN idx = Builders
        /\ DOMAIN outcome = Builders /\ DOMAIN heap = Locations
        /\ DOMAIN execConfig = Builders
        /\ \A c \in Builders : Work(c) \in Locations
    BY <1>1 DEF TypeInv, TypeOK, Working, Locations
  <1>3. \A b, c : b # c => Work(b) # Work(c)
    BY DEF Work
  <1>4. ASSUME NEW p \in Profiles, NEW v \in Versions, NEW c \in Contents,
               Publish(p, v, c)
        PROVE  BuildInv'
    BY <1>1, <1>4, BuildFrame DEF Publish, local, BuildInv
  <1>5. ASSUME NEW b \in Builders, NEW p \in Profiles, SelectAccessor(b, p)
        PROVE  BuildInv'
    <2>1. /\ UNCHANGED <<heap, idx, authenticators>>
          /\ \A c \in Builders \ {b} :
                pc'[c] = pc[c] /\ accessor'[c] = accessor[c] /\ outcome'[c] = outcome[c]
          /\ \/ pc'[b] = "returned" /\ outcome'[b] = Error
             \/ pc'[b] = "selected"
      BY <1>5, <1>2 DEF SelectAccessor, Return
    <2> QED
      BY <1>1, <2>1, BuildLocal
  <1>6. ASSUME NEW b \in Builders, GetExecConfig(b) PROVE BuildInv'
    <2> DEFINE i == ProviderIndex(accessor[b].name)
    <2>1. UNCHANGED <<accessor, authenticators>> /\ pc[b] = "selected" /\ Served(accessor[b])
      BY <1>1, <1>6 DEF GetExecConfig, TypeInv, Working
    <2>2. CASE Providers[i].exec = NoExec
      <3>1. Return(b, Error) /\ UNCHANGED <<heap, execConfig, idx>>
        BY <1>6, <2>2 DEF GetExecConfig
      <3> QED
        BY <1>1, <1>2, <2>1, <3>1, BuildLocal DEF Return
    <2>3. CASE Providers[i].exec # NoExec
      <3>1. i \in Configured
        BY <2>1, <2>3, PolicyIsConfigured DEF Configured
      <3>2. heap[Shared(i)] = Policy(accessor[b]).exec
        BY <1>1, <3>1 DEF TypeInv, NoLeak, ProviderConfigUntouched, Policy
      <3>3. /\ heap' = [heap EXCEPT ![Work(b)] = heap[Shared(i)]]
            /\ idx' = [idx EXCEPT ![b] = 1] /\ UNCHANGED outcome
            /\ pc' = [pc EXCEPT ![b] = "extensions"]
        BY <1>6, <2>3 DEF GetExecConfig, DeepCopy
      <3>4. Reaches(accessor'[b], idx'[b] - 1, heap'[Work(b)])
        BY <1>2, <2>1, <3>2, <3>3, ReachesStart
      <3> QED
        BY <1>1, <1>2, <1>3, <2>1, <3>3, <3>4, BuildLocal
    <2> QED
      BY <2>2, <2>3
  <1>7. ASSUME NEW b \in Builders, ProcessExtension(b) PROVE BuildInv'
    <2>1. /\ UNCHANGED <<accessor, authenticators>>
          /\ pc[b] = "extensions" /\ idx[b] \in 1 .. Len(accessor[b].extensions)
      BY <1>1, <1>7, IterationEffect
    <2>2. CASE Advances(b)
      <3> DEFINE n == idx[b] - 1
      <3>1. n \in Nat /\ n + 1 = idx[b]
        BY <1>1, <2>1 DEF TypeInv, TypeOK
      <3>2. Reaches(accessor[b], n, heap[Work(b)])
        BY <2>1 DEF BuildInv
      <3>3. /\ idx' = [idx EXCEPT ![b] = idx[b] + 1] /\ UNCHANGED <<pc, outcome>>
            /\ heap' = [heap EXCEPT ![Work(b)] =
                  AfterExtension(Policy(accessor[b]), accessor[b].extensions[idx[b]], @)]
        BY <2>2 DEF Advances
      <3>4. idx'[b] - 1 = n + 1
        BY <1>2, <3>1, <3>3
      <3>5. heap'[Work(b)] = AfterExtension(Policy(accessor[b]),
                                accessor[b].extensions[n + 1], heap[Work(b)])
        BY <1>2, <3>1, <3>3
      <3> HIDE DEF n
      <3>6. Reaches(accessor[b], n + 1, heap'[Work(b)])
        BY <3>1, <3>2, <3>5, ReachesNext
      <3>7. \A c \in Builders \ {b} : idx'[c] = idx[c] /\ heap'[Work(c)] = heap[Work(c)]
        BY <1>2, <1>3, <3>3
      <3> QED
        BY <1>1, <2>1, <3>3, <3>4, <3>6, <3>7, BuildLocal
    <2>3. CASE GivesUp(b)
      BY <1>1, <1>2, <2>1, <2>3, BuildLocal DEF GivesUp, Return
    <2>4. CASE Panics(b)
      BY <1>1, <2>1, <2>4, BuildFrame DEF Panics, BuildInv
    <2> QED
      BY <1>1, <1>7, <2>2, <2>3, <2>4, IterationEffect
  <1>8. ASSUME NEW b \in Builders, FinishBuild(b) PROVE BuildInv'
    <2> DEFINE a == accessor[b]
               exec == heap[Work(b)]
    <2>1. /\ UNCHANGED <<accessor, heap, idx, authenticators>>
          /\ pc[b] = "extensions" /\ execConfig[b] = Work(b) /\ Served(a)
          /\ idx[b] > Len(a.extensions) /\ idx[b] \in 1 .. (Len(a.extensions) + 1)
          /\ Reaches(a, idx[b] - 1, exec)
      BY <1>1, <1>8 DEF FinishBuild, TypeInv, NoLeak, OwnPointer, Working, BuildInv
    <2>2. idx[b] - 1 = Len(a.extensions) /\ a \in AccessProvider
      <3>1. Len(a.extensions) \in Nat
        BY <2>1 DEF Served, AccessProvider
      <3> QED
        BY <2>1, <3>1 DEF Served
    <2>3. \/ Return(b, Error) \/ Return(b, Config(a, exec))
      BY <1>8, <2>1 DEF FinishBuild, RestConfig, Config
    <2>4. BuiltFrom(a, Config(a, exec))
      BY <2>1, <2>2 DEF BuiltFrom
    <2> HIDE DEF exec
    <2> QED
      BY <1>1, <1>2, <2>1, <2>3, <2>4, BuildLocal DEF Return
  <1>9. ASSUME NEW b \in Builders, UseConfig(b) PROVE BuildInv'
    <2>1. /\ UNCHANGED <<pc, accessor, heap, idx, outcome>>
          /\ pc[b] = "returned" /\ outcome[b].kind = "config"
          /\ authenticators' = authenticators \cup {[accessor |-> accessor[b],
                                                      key |-> outcome[b]]}
      BY <1>9 DEF UseConfig, local
    <2>2. BuiltFrom(accessor[b], outcome[b])
      BY <2>1 DEF BuildInv, Error
    <2>3. \A x \in authenticators' : BuiltFrom(x.accessor, x.key)
      BY <2>1, <2>2 DEF BuildInv
    <2> QED
      BY <1>1, <2>1, <2>3, BuildFrame
  <1>10. ASSUME NEW b \in Builders, Discard(b) PROVE BuildInv'
    <2>1. /\ UNCHANGED authenticators /\ pc'[b] = "idle"
          /\ \A c \in Builders \ {b} :
                /\ pc'[c] = pc[c] /\ accessor'[c] = accessor[c] /\ idx'[c] = idx[c]
                /\ outcome'[c] = outcome[c] /\ heap'[Work(c)] = heap[Work(c)]
      BY <1>10, <1>2, <1>3 DEF Discard
    <2> QED
      BY <1>1, <2>1, BuildLocal
  <1>11. CASE UNCHANGED vars
    BY <1>1, <1>11, BuildFrame DEF vars, BuildInv
  <1> QED
    BY <1>4, <1>5, <1>6, <1>7, <1>8, <1>9, <1>10, <1>11 DEF Next, Build

LEMMA BuildAlways == Spec => []BuildInv
  BY BuildInit, BuildStep, PTL DEF Spec

\* client-go holds at most one authenticator for what one AccessProvider
\* describes, however often and by whomever its rest.Config is built: although
\* the variables come out of a map, sorting gives every caller the same list.
THEOREM AccessorsShareAnAuthenticator == Spec => []OneAuthenticatorPerAccessor
  <1>1. BuildInv => OneAuthenticatorPerAccessor
    BY BuiltFromOne DEF BuildInv, OneAuthenticatorPerAccessor
  <1> QED
    BY BuildAlways, <1>1, PTL

-----------------------------------------------------------------------------
(***************************************************************************)
(* The promise about one answer, for the accessor that the code selects    *)
(* and the policy that it applies.                                         *)
(***************************************************************************)
LEMMA PromiseSelects ==
    /\ \A c : Promise!Supported(c) = Supported(c)
    /\ \A s : Promise!UniqueNames(s) <=> UniqueNames(s)
    /\ \A env : Promise!NamesOf(env) = NamesOf(env)
    /\ \A data : Promise!Decoded(data) = Decoded(data)
    /\ \A f : Promise!Range(f) = Range(f)
    /\ Promise!Error = Error
  BY DEF Promise!Supported, Supported, Promise!UniqueNames, UniqueNames, Promise!NamesOf, NamesOf,
         Promise!Decoded, Decoded, Promise!Range, Range, Promise!Error, Error

LEMMA AccessorServes ==
    ASSUME NEW c \in Contents, Supported(c) # {}, NEW a, a = GetClusterAccessor(c)
    PROVE  \E k \in DOMAIN c : c[k] = a /\ Promise!Serves(c, c[k], ProviderIndex(a.name))
  <1>1. c \in Seq(AccessProvider)
    BY SourceAssumption
  <1>2. PICK k \in DOMAIN c : c[k] = a
    BY <1>1, AccessorIsListed DEF Range
  <1> DEFINE first == Min(Supported(c))
             S == {i \in DOMAIN Providers : Providers[i].name = a.name}
  <1>3. first \in Supported(c) /\ a.name = Providers[first].name
    BY <1>1, AccessorIsListed
  <1>4. Supported(c) \in SUBSET Nat /\ S \in SUBSET Nat
    BY AccessAssumption DEF Supported
  <1>5. \A i \in Supported(c) : first <= i
    BY <1>4, MinIsLeast
  <1>6. first \in S
    BY <1>3 DEF Supported
  <1>7. Min(S) \in S /\ \A i \in S : Min(S) <= i
    BY <1>4, <1>6, MinIsLeast
  <1>8. ProviderIndex(a.name) = Min(S)
    BY DEF ProviderIndex
  <1>9. PICK i \in DOMAIN Providers : i = Min(S) /\ i = ProviderIndex(a.name)
    BY <1>7, <1>8
  <1>10. Providers[i].name = a.name
    BY <1>7, <1>9
  <1>11. ASSUME NEW j \in 1 .. i - 1, NEW l \in DOMAIN c PROVE c[l].name # Providers[j].name
    <2>1. i <= first
      BY <1>6, <1>7, <1>9
    <2>2. /\ i \in Nat /\ first \in Nat
          /\ Len(Providers) \in Nat /\ DOMAIN Providers = 1 .. Len(Providers)
      BY <1>3, <1>4, <1>9, AccessAssumption
    <2>3. j \in DOMAIN Providers /\ ~(first <= j)
      BY <2>1, <2>2, <1>9
    <2>4. j \notin Supported(c)
      BY <1>5, <2>3
    <2> QED
      BY <2>3, <2>4 DEF Supported
  <1>12. c[k] \in Promise!Range(c)
    BY DEF Promise!Range
  <1> QED
    BY <1>2, <1>9, <1>10, <1>11, <1>12 DEF Promise!Serves

LEMMA PromisedBy ==
    ASSUME NEW c \in Contents, Supported(c) # {}, NEW a, a = GetClusterAccessor(c), NEW o,
           Promise!PromisedFor(a, Policy(a), o)
    PROVE  Promise!Promised(c, o)
  <1>1. PICK k \in DOMAIN c : c[k] = a /\ Promise!Serves(c, c[k], ProviderIndex(a.name))
    BY AccessorServes
  <1>2. ProviderIndex(a.name) \in DOMAIN Providers
    BY <1>1 DEF Promise!Serves
  <1> QED
    BY <1>1, <1>2 DEF Promise!Promised, Policy

\* An extension whose name no other has is the one that the promise reads.
LEMMA DataOfUnique ==
    ASSUME NEW a, UniqueNames(a.extensions), NEW k \in DOMAIN a.extensions, NEW name,
           a.extensions[k].name = name
    PROVE  Promise!Has(a, name) /\ Promise!DataOf(a, name) = a.extensions[k].data
  <1>1. \A x \in Promise!Range(a.extensions) : x.name = name => x = a.extensions[k]
    BY DEF UniqueNames, Promise!Range
  <1>2. a.extensions[k] \in Promise!Range(a.extensions)
    BY DEF Promise!Range
  <1> DEFINE x == CHOOSE y \in Promise!Range(a.extensions) : y.name = name
  <1>3. x = a.extensions[k]
    BY <1>1, <1>2
  <1>4. Promise!DataOf(a, name) = x.data
    BY DEF Promise!DataOf
  <1> QED
    BY <1>3, <1>4 DEF Promise!Has

\* An extension that the code refuses is one that the promise does not accept.
LEMMA RefusedIsUnacceptable ==
    ASSUME NEW a, Served(a), UniqueNames(a.extensions), NEW k \in DOMAIN a.extensions,
           ~Decodes(Policy(a), a.extensions[k])
    PROVE  ~Promise!Acceptable(a, Policy(a))
  <1>1. CASE a.extensions[k].name = "args"
    BY <1>1, DataOfUnique DEF Decodes, Promise!Acceptable, Promise!SourcesArgs
  <1>2. CASE a.extensions[k].name = "envs"
    <2>1. Policy(a).envVars \in EnvVarsPolicies
      BY PolicyIsConfigured DEF Provider
    <2> QED
      BY <1>2, <2>1, DataOfUnique
         DEF Decodes, Merges, Promise!Acceptable, Promise!SourcesEnv, EnvVarsPolicies
  <1> QED
    BY <1>1, <1>2 DEF Decodes

(***************************************************************************)
(* The merged variables are the promised ones.                             *)
(***************************************************************************)
LEMMA SortedEntriesSorts ==
    ASSUME NEW m, DOMAIN m \in SUBSET EnvNames
    PROVE  /\ DOMAIN SortedEntries(m) = 1 .. Cardinality(Entries(m))
           /\ Range(SortedEntries(m)) = Entries(m)
           /\ \A i \in DOMAIN SortedEntries(m) : \A j \in 1 .. i - 1 :
                 SortedEntries(m)[j].name < SortedEntries(m)[i].name
  <1>1. PICK list : list \in MapOrders(m)
    <2>1. Distinct(Entries(m)) /\ Cardinality(Entries(m)) = Cardinality(DOMAIN m)
      BY EntriesAreDistinct
    <2>2. ExistsBijection(1 .. Cardinality(Entries(m)), Entries(m))
      BY <2>1, FS_CardinalityType DEF Distinct
    <2> QED
      BY <2>1, <2>2 DEF MapOrders, ExistsBijection
  <1>2. PICK s : s = SortFunc(list) /\ s = SortedEntries(m)
    BY <1>1, SortingIsDeterministic
  <1>3. Distinct(Entries(m)) /\ Len(list) = Cardinality(Entries(m)) /\ Range(list) = Entries(m)
    BY <1>1, SortingIsDeterministic, EntriesAreDistinct
  <1>4. /\ DOMAIN SortFunc(list) = 1 .. Cardinality(Entries(m))
        /\ Range(SortFunc(list)) = Entries(m)
        /\ \A i \in DOMAIN SortFunc(list) : \A j \in 1 .. i - 1 :
              SortFunc(list)[j].name < SortFunc(list)[i].name
    BY <1>3, SortFuncSorts
  <1> QED
    BY <1>2, <1>4

LEMMA MergedIsPromised ==
    ASSUME NEW a, NEW p \in Provider, p.exec \in ExecConfig, Promise!SourcesEnv(a, p), Merges(p),
           NEW data \in Payload, data = Promise!DataOf(a, "envs")
    PROVE  Promise!PromisedEnv(a, p, SortedEntries(MergeEnv(p.envVars, p.exec.env, data)))
  <1>1. PICK base : base = p.exec.env /\ base \in Seq(EnvVar)
    BY DEF ExecConfig
  <1>2. PICK extra : extra = Decoded(data)
    OBVIOUS
  <1>3. PICK m : m = MergeEnv(p.envVars, base, data)
    OBVIOUS
  <1>4. DOMAIN m \in SUBSET EnvNames /\ DOMAIN m = DOMAIN extra \cup NamesOf(base)
    BY <1>1, <1>2, <1>3, MergeEnvType DEF MergeEnv
  <1>5. PICK env : env = SortedEntries(m)
    OBVIOUS
  <1>6. /\ Range(env) = Entries(m)
        /\ \A i \in DOMAIN env : \A j \in 1 .. i - 1 : env[j].name < env[i].name
    BY <1>4, <1>5, SortedEntriesSorts
  <1>7. NamesOf(env) = DOMAIN extra \cup NamesOf(base)
    <2>1. NamesOf(env) = {e.name : e \in Range(env)}
      BY DEF NamesOf, Range
    <2>2. ASSUME NEW n PROVE (\E e \in Entries(m) : e.name = n) <=> n \in DOMAIN m
      <3>1. ASSUME n \in DOMAIN m PROVE \E e \in Entries(m) : e.name = n
        <4>1. PICK e : e = [name |-> n, value |-> m[n]]
          OBVIOUS
        <4>2. e \in Entries(m)
          BY <3>1, <4>1 DEF Entries
        <4>3. e.name = n
          BY <4>1
        <4> QED
          BY <4>2, <4>3
      <3>2. \A e \in Entries(m) : e.name \in DOMAIN m
        BY DEF Entries
      <3> QED
        BY <3>1, <3>2
    <2>3. {e.name : e \in Entries(m)} = DOMAIN m
      BY <2>2
    <2> QED
      BY <1>4, <1>6, <2>1, <2>3
  <1> DEFINE Kept(n) == p.envVars = "AppendIfNotExists" \/ n \notin DOMAIN extra
  <1>8. ASSUME NEW e \in Range(env)
        PROVE  IF e.name \in NamesOf(base) /\ Kept(e.name) THEN e \in Range(base)
               ELSE e.value = extra[e.name]
    <2>1. PICK n \in DOMAIN m : e = [name |-> n, value |-> m[n]]
      BY <1>6 DEF Entries
    <2>2. m[n] = IF p.envVars = "AppendIfNotExists"
                 THEN IF n \in NamesOf(base) THEN LastValue(base, n) ELSE extra[n]
                 ELSE IF n \in DOMAIN extra THEN extra[n] ELSE FirstValue(base, n)
      BY <1>2, <1>3, <1>4 DEF MergeEnv
    <2>3. ASSUME n \in NamesOf(base)
          PROVE  /\ [name |-> n, value |-> LastValue(base, n)] \in Range(base)
                 /\ [name |-> n, value |-> FirstValue(base, n)] \in Range(base)
      <3> DEFINE at == {i \in DOMAIN base : base[i].name = n}
      <3>1. at # {} /\ at \in SUBSET (1 .. Len(base)) /\ at \in SUBSET Nat /\ Len(base) \in Nat
        BY <1>1, <2>3 DEF NamesOf
      <3>2. LastValue(base, n) = base[Max(at)].value /\ FirstValue(base, n) = base[Min(at)].value
        BY DEF LastValue, FirstValue
      <3>3. \A i \in at : i \in DOMAIN base /\ base[i] \in EnvVar /\ base[i].name = n
        BY <1>1
      <3> HIDE DEF at
      <3>4. Max(at) \in at /\ Min(at) \in at
        BY <3>1, MaxIsGreatest, MinIsLeast
      <3>5. \A v \in EnvVar : v = [name |-> v.name, value |-> v.value]
        BY DEF EnvVar
      <3>6. \A i \in at : [name |-> n, value |-> base[i].value] \in Range(base)
        BY <3>3, <3>5 DEF Range
      <3> QED
        BY <3>2, <3>4, <3>6
    <2>4. e.name = n /\ e.value = m[n]
      BY <2>1
    <2> QED
      BY <1>4, <2>1, <2>2, <2>3, <2>4
  <1>9. /\ \A i \in DOMAIN env : \A j \in 1 .. i - 1 : env[j].name < env[i].name
        /\ Promise!NamesOf(env) = Promise!NamesOf(base) \cup DOMAIN extra
        /\ \A e \in Promise!Range(env) :
              IF e.name \in Promise!NamesOf(base) /\ Kept(e.name) THEN e \in Promise!Range(base)
              ELSE e.value = extra[e.name]
    BY <1>6, <1>7, <1>8, PromiseSelects
  <1>10. extra = Promise!Decoded(Promise!DataOf(a, "envs"))
    BY <1>2, PromiseSelects
  <1> QED
    BY <1>1, <1>3, <1>5, <1>9, <1>10 DEF Promise!PromisedEnv

(***************************************************************************)
(* What the loop has done after n extensions, when no two have one name.   *)
(***************************************************************************)
Passed(a, n, name) == \E k \in 1 .. n : a.extensions[k].name = name

Progress(a, n, exec) ==
    /\ exec.config = Policy(a).exec.config
    /\ IF Passed(a, n, "args") THEN Promise!PromisedArgs(a, Policy(a), exec.args)
       ELSE exec.args = Policy(a).exec.args
    /\ IF Passed(a, n, "envs") THEN Promise!PromisedEnv(a, Policy(a), exec.env)
       ELSE exec.env = Policy(a).exec.env
    /\ \A k \in 1 .. n : Decodes(Policy(a), a.extensions[k])

LEMMA ConfiguredExec ==
    ASSUME NEW a, Served(a), Policy(a).exec # NoExec
    PROVE  /\ Policy(a).exec \in ExecConfig
           /\ Policy(a).exec.args \in Seq(Args) /\ Policy(a).exec.env \in Seq(EnvVar)
  BY PolicyIsConfigured DEF Provider, ExecConfig

LEMMA ProgressNext ==
    ASSUME NEW a, Served(a), Policy(a).exec # NoExec, UniqueNames(a.extensions),
           NEW n \in Nat, n + 1 \in DOMAIN a.extensions,
           NEW exec \in ExecConfig, Progress(a, n, exec),
           Decodes(Policy(a), a.extensions[n + 1])
    PROVE  Progress(a, n + 1, AfterExtension(Policy(a), a.extensions[n + 1], exec))
  <1>1. PICK p : p = Policy(a) /\ p \in Provider
    BY PolicyIsConfigured
  <1>2. PICK x : x = a.extensions[n + 1] /\ x \in Extension /\ x.data \in Payload
    <2>1. a.extensions \in Seq(Extension)
      BY DEF Served, AccessProvider
    <2>2. a.extensions[n + 1] \in Extension
      BY <2>1
    <2> QED
      BY <2>2 DEF Extension
  <1>3. PICK after : after = AfterExtension(p, x, exec)
    OBVIOUS
  <1>4. /\ p.exec \in ExecConfig /\ p.exec.args \in Seq(Args) /\ p.exec.env \in Seq(EnvVar)
    BY <1>1, ConfiguredExec
  <1>5. /\ after.config = exec.config
        /\ after.args = IF x.name = "args" /\ p.cliArgs = "Append"
                        THEN exec.args \o (IF x.data.kind = "list" THEN x.data.list ELSE << >>)
                        ELSE exec.args
        /\ after.env = IF x.name = "envs" /\ Merges(p)
                       THEN SortedEntries(MergeEnv(p.envVars, exec.env, x.data)) ELSE exec.env
    BY <1>3 DEF AfterExtension, Merges, ExecConfig
  <1>6. \A name : Passed(a, n + 1, name) <=> Passed(a, n, name) \/ x.name = name
    <2>1. \A k : k \in 1 .. (n + 1) <=> k \in 1 .. n \/ k = n + 1
      OBVIOUS
    <2> QED
      BY <1>2, <2>1 DEF Passed
  <1>7. \A name : x.name = name => ~Passed(a, n, name)
    <2>1. \A k \in 1 .. n : k \in DOMAIN a.extensions /\ k # n + 1
      BY DEF Served, AccessProvider
    <2> QED
      BY <1>2, <2>1 DEF Passed, UniqueNames
  <1>8. /\ exec.config = p.exec.config
        /\ IF Passed(a, n, "args") THEN Promise!PromisedArgs(a, p, exec.args)
           ELSE exec.args = p.exec.args
        /\ IF Passed(a, n, "envs") THEN Promise!PromisedEnv(a, p, exec.env)
           ELSE exec.env = p.exec.env
        /\ \A k \in 1 .. n : Decodes(p, a.extensions[k])
    BY <1>1 DEF Progress
  <1>9. Promise!Has(a, x.name) /\ Promise!DataOf(a, x.name) = x.data
    BY <1>2, DataOfUnique
  <1>10. IF Passed(a, n + 1, "args") THEN Promise!PromisedArgs(a, p, after.args)
         ELSE after.args = p.exec.args
    <2>1. CASE x.name = "args" /\ p.cliArgs = "Append"
      <3>1. exec.args = p.exec.args
        BY <1>7, <1>8, <2>1
      <3> QED
        BY <1>5, <1>6, <1>9, <2>1, <3>1 DEF Promise!PromisedArgs, Promise!SourcesArgs
    <2>2. CASE x.name = "args" /\ p.cliArgs # "Append"
      <3>1. exec.args = p.exec.args /\ after.args = exec.args
        BY <1>5, <1>7, <1>8, <2>2
      <3>2. ~Promise!SourcesArgs(a, p)
        BY <1>1, <1>2, <2>2 DEF Decodes, Promise!SourcesArgs
      <3>3. p.exec.args \o << >> = p.exec.args
        BY <1>4
      <3> QED
        BY <1>6, <2>2, <3>1, <3>2, <3>3 DEF Promise!PromisedArgs
    <2>3. CASE x.name # "args"
      BY <1>5, <1>6, <1>8, <2>3
    <2> QED
      BY <2>1, <2>2, <2>3
  <1>11. IF Passed(a, n + 1, "envs") THEN Promise!PromisedEnv(a, p, after.env)
         ELSE after.env = p.exec.env
    <2>1. CASE x.name = "envs" /\ Merges(p)
      <3>1. exec.env = p.exec.env
        BY <1>7, <1>8, <2>1
      <3>2. Promise!SourcesEnv(a, p) /\ x.data = Promise!DataOf(a, "envs")
        BY <1>9, <2>1 DEF Merges, Promise!SourcesEnv
      <3>3. Promise!PromisedEnv(a, p, SortedEntries(MergeEnv(p.envVars, p.exec.env, x.data)))
        BY <1>1, <1>2, <1>4, <2>1, <3>2, MergedIsPromised
      <3> QED
        BY <1>5, <1>6, <2>1, <3>1, <3>3
    <2>2. CASE x.name = "envs" /\ ~Merges(p)
      <3>1. exec.env = p.exec.env /\ after.env = exec.env
        BY <1>5, <1>7, <1>8, <2>2
      <3>2. ~Promise!SourcesEnv(a, p)
        BY <1>1, <1>2, <2>2 DEF Decodes, Promise!SourcesEnv
      <3> QED
        BY <1>6, <2>2, <3>1, <3>2 DEF Promise!PromisedEnv
    <2>3. CASE x.name # "envs"
      BY <1>5, <1>6, <1>8, <2>3
    <2> QED
      BY <2>1, <2>2, <2>3
  <1>12. \A k \in 1 .. (n + 1) : Decodes(p, a.extensions[k])
    <2>1. \A k \in 1 .. (n + 1) : k \in 1 .. n \/ k = n + 1
      OBVIOUS
    <2> QED
      BY <1>1, <1>8, <2>1
  <1> QED
    BY <1>1, <1>2, <1>3, <1>5, <1>8, <1>10, <1>11, <1>12 DEF Progress

\* The configuration that is returned after all extensions is the promised one.
LEMMA ProgressDone ==
    ASSUME NEW a, Served(a), Policy(a).exec # NoExec, NEW exec,
           UniqueNames(a.extensions) => Progress(a, Len(a.extensions), exec)
    PROVE  Promise!PromisedFor(a, Policy(a), Config(a, exec))
  <1>1. PICK p : p = Policy(a) /\ p \in Provider
    BY PolicyIsConfigured
  <1>2. PICK o : o = Config(a, exec)
    OBVIOUS
  <1>3. /\ o.kind = "config" /\ o.server = a.server /\ o.proxy = a.proxy
        /\ o.args = exec.args /\ o.env = exec.env /\ o.config = PluginConfig(a, exec.config)
    BY <1>2 DEF Config
  <1>4. a.extensions \in Seq(Extension)
    BY DEF Served, AccessProvider
  <1>5. PICK n \in Nat : n = Len(a.extensions) /\ DOMAIN a.extensions = 1 .. n
    BY <1>4
  <1>6. ASSUME UniqueNames(a.extensions)
        PROVE  /\ Promise!Acceptable(a, p) /\ Promise!PromisedArgs(a, p, o.args)
               /\ Promise!PromisedEnv(a, p, o.env) /\ Promise!PromisedConfig(a, p, o.config)
    <2>1. /\ exec.config = p.exec.config
          /\ IF Passed(a, n, "args") THEN Promise!PromisedArgs(a, p, exec.args)
             ELSE exec.args = p.exec.args
          /\ IF Passed(a, n, "envs") THEN Promise!PromisedEnv(a, p, exec.env)
             ELSE exec.env = p.exec.env
          /\ \A k \in 1 .. n : Decodes(p, a.extensions[k])
      BY <1>1, <1>5, <1>6 DEF Progress
    <2>2. \A name : Passed(a, n, name) <=> Promise!Has(a, name)
      BY <1>5 DEF Passed, Promise!Has
    <2>3. \A name : Promise!Has(a, name) =>
             \E k \in 1 .. n : a.extensions[k].name = name
                               /\ Promise!DataOf(a, name) = a.extensions[k].data
      BY <1>5, <1>6, DataOfUnique DEF Promise!Has
    <2>4. p.exec.args \o << >> = p.exec.args
      BY <1>1, ConfiguredExec
    <2>5. Promise!PromisedArgs(a, p, o.args)
      BY <1>3, <2>1, <2>2, <2>4 DEF Promise!PromisedArgs, Promise!SourcesArgs
    <2>6. Promise!PromisedEnv(a, p, o.env)
      BY <1>3, <2>1, <2>2 DEF Promise!PromisedEnv, Promise!SourcesEnv
    <2>7. Promise!Acceptable(a, p)
      <3>1. ASSUME Promise!SourcesArgs(a, p)
            PROVE  p.cliArgs = "Append" /\ Promise!DataOf(a, "args").kind \in {"list", "null"}
        <4>1. PICK k \in 1 .. n : /\ a.extensions[k].name = "args"
                                  /\ Promise!DataOf(a, "args") = a.extensions[k].data
          BY <2>3, <3>1 DEF Promise!SourcesArgs
        <4>2. Decodes(p, a.extensions[k])
          BY <2>1
        <4> QED
          BY <3>1, <4>1, <4>2 DEF Promise!SourcesArgs, Decodes
      <3>2. ASSUME Promise!SourcesEnv(a, p)
            PROVE  /\ p.envVars # "unsupported"
                   /\ Promise!DataOf(a, "envs").kind \in {"strings", "null"}
        <4>1. PICK k \in 1 .. n : /\ a.extensions[k].name = "envs"
                                  /\ Promise!DataOf(a, "envs") = a.extensions[k].data
          BY <2>3, <3>2 DEF Promise!SourcesEnv
        <4>2. Decodes(p, a.extensions[k])
          BY <2>1
        <4> QED
          BY <3>2, <4>1, <4>2 DEF Promise!SourcesEnv, Decodes, Merges
      <3> QED
        BY <1>1, <3>1, <3>2 DEF Promise!Acceptable
    <2>8. Promise!PromisedConfig(a, p, o.config)
      <3> DEFINE at == {k \in DOMAIN a.extensions : a.extensions[k].name = "exec"}
      <3>1. o.config = IF at = {} THEN p.exec.config ELSE a.extensions[Max(at)].data
        BY <1>3, <2>1 DEF PluginConfig
      <3>2. /\ at \in SUBSET (1 .. n)
            /\ \A k \in at : k \in DOMAIN a.extensions /\ a.extensions[k].name = "exec"
        BY <1>5
      <3>3. at = {} <=> ~Promise!Has(a, "exec")
        BY DEF Promise!Has
      <3> HIDE DEF at
      <3>4. CASE at = {}
        BY <3>1, <3>3, <3>4 DEF Promise!PromisedConfig
      <3>5. CASE at # {}
        <4>1. Max(at) \in at
          BY <3>2, <3>5, MaxIsGreatest
        <4>2. Promise!DataOf(a, "exec") = a.extensions[Max(at)].data
          BY <1>6, <3>2, <4>1, DataOfUnique
        <4> QED
          BY <3>1, <3>3, <3>5, <4>2 DEF Promise!PromisedConfig
      <3> QED
        BY <3>4, <3>5
    <2> QED
      BY <2>5, <2>6, <2>7, <2>8
  <1> QED
    BY <1>1, <1>2, <1>3, <1>6, PromiseSelects DEF Promise!PromisedFor

(***************************************************************************)
(* Refinement.  Promise!Answer needs to know where a builder's accessor    *)
(* comes from, and how far its exec configuration is on the way to the     *)
(* promised one: KeepInv says both, the second only for extensions with    *)
(* different names, since nothing is promised for others.                  *)
(***************************************************************************)
KeepInv ==
    /\ TypeInv
    /\ \A b \in Builders :
          /\ pc[b] \in {"selected", "extensions"} =>
                /\ content[b] \in Contents /\ Supported(content[b]) # {}
                /\ accessor[b] = GetClusterAccessor(content[b])
          /\ pc[b] = "extensions" =>
                /\ Policy(accessor[b]).exec # NoExec
                /\ UniqueNames(accessor[b].extensions) =>
                      Progress(accessor[b], idx[b] - 1, heap[Work(b)])

\* A step of builder b, which changes no location but its own.
LEMMA KeepLocal ==
    ASSUME KeepInv, TypeInv', NEW b \in Builders,
           \A c \in Builders \ {b} :
              /\ pc'[c] = pc[c] /\ content'[c] = content[c] /\ accessor'[c] = accessor[c]
              /\ idx'[c] = idx[c] /\ heap'[Work(c)] = heap[Work(c)],
           pc'[b] \in {"selected", "extensions"} =>
              /\ content'[b] \in Contents /\ Supported(content'[b]) # {}
              /\ accessor'[b] = GetClusterAccessor(content'[b]),
           pc'[b] = "extensions" =>
              /\ Policy(accessor'[b]).exec # NoExec
              /\ UniqueNames(accessor'[b].extensions) =>
                    Progress(accessor'[b], idx'[b] - 1, heap'[Work(b)])
    PROVE  KeepInv'
  <1>1. ASSUME NEW c \in Builders
        PROVE  /\ pc'[c] \in {"selected", "extensions"} =>
                    /\ content'[c] \in Contents /\ Supported(content'[c]) # {}
                    /\ accessor'[c] = GetClusterAccessor(content'[c])
               /\ pc'[c] = "extensions" =>
                    /\ Policy(accessor'[c]).exec # NoExec
                    /\ UniqueNames(accessor'[c].extensions) =>
                          Progress(accessor'[c], idx'[c] - 1, heap'[Work(c)])
    BY DEF KeepInv
  <1> QED
    BY <1>1 DEF KeepInv

LEMMA KeepFrame ==
    ASSUME KeepInv, TypeInv', UNCHANGED <<pc, content, accessor, idx, heap>>
    PROVE  KeepInv'
  BY DEF KeepInv

LEMMA KeepInit == Init => KeepInv
  BY TypeInit DEF Init, KeepInv

LEMMA KeepStep == KeepInv /\ [Next]_vars => KeepInv'
  <1> SUFFICES ASSUME KeepInv, [Next]_vars PROVE KeepInv'
    OBVIOUS
  <1>1. TypeInv /\ TypeInv'
    BY TypeStep DEF KeepInv
  <1>2. /\ DOMAIN pc = Builders /\ DOMAIN accessor = Builders /\ DOMAIN idx = Builders
        /\ DOMAIN content = Builders /\ DOMAIN heap = Locations
        /\ DOMAIN execConfig = Builders
        /\ \A c \in Builders : Work(c) \in Locations
    BY <1>1 DEF TypeInv, TypeOK, Working, Locations
  <1>3. \A b, c : b # c => Work(b) # Work(c)
    BY DEF Work
  <1>4. ASSUME NEW p \in Profiles, NEW v \in Versions, NEW c \in Contents,
               Publish(p, v, c)
        PROVE  KeepInv'
    BY <1>1, <1>4, KeepFrame DEF Publish, local
  <1>5. ASSUME NEW b \in Builders, NEW p \in Profiles, SelectAccessor(b, p)
        PROVE  KeepInv'
    <2>1. /\ UNCHANGED <<heap, idx>> /\ status[p] \in Contents
          /\ content' = [content EXCEPT ![b] = status[p]]
      BY <1>1, <1>5 DEF SelectAccessor, TypeInv, TypeOK
    <2>2. CASE Supported(status[p]) = {}
      <3>1. pc' = [pc EXCEPT ![b] = "returned"] /\ UNCHANGED accessor
        BY <1>5, <2>2 DEF SelectAccessor, Return
      <3> QED
        BY <1>1, <1>2, <2>1, <3>1, KeepLocal
    <2>3. CASE Supported(status[p]) # {}
      <3>1. /\ pc' = [pc EXCEPT ![b] = "selected"]
            /\ accessor' = [accessor EXCEPT ![b] = GetClusterAccessor(status[p])]
        BY <1>5, <2>3 DEF SelectAccessor
      <3> QED
        BY <1>1, <1>2, <2>1, <2>3, <3>1, KeepLocal
    <2> QED
      BY <2>2, <2>3
  <1>6. ASSUME NEW b \in Builders, GetExecConfig(b) PROVE KeepInv'
    <2> DEFINE i == ProviderIndex(accessor[b].name)
    <2>1. UNCHANGED <<accessor, content>> /\ pc[b] = "selected" /\ Served(accessor[b])
      BY <1>1, <1>6 DEF GetExecConfig, TypeInv, Working
    <2>2. CASE Providers[i].exec = NoExec
      <3>1. pc' = [pc EXCEPT ![b] = "returned"] /\ UNCHANGED <<heap, idx>>
        BY <1>6, <2>2 DEF GetExecConfig, Return
      <3> QED
        BY <1>1, <1>2, <2>1, <3>1, KeepLocal
    <2>3. CASE Providers[i].exec # NoExec
      <3>1. i \in Configured
        BY <2>1, <2>3, PolicyIsConfigured DEF Configured
      <3>2. heap[Shared(i)] = Policy(accessor[b]).exec
        BY <1>1, <3>1 DEF TypeInv, NoLeak, ProviderConfigUntouched, Policy
      <3>3. /\ heap' = [heap EXCEPT ![Work(b)] = heap[Shared(i)]]
            /\ idx' = [idx EXCEPT ![b] = 1]
            /\ pc' = [pc EXCEPT ![b] = "extensions"]
        BY <1>6, <2>3 DEF GetExecConfig, DeepCopy
      <3>4. idx'[b] - 1 = 0 /\ heap'[Work(b)] = Policy(accessor[b]).exec
        BY <1>2, <3>2, <3>3
      <3>5. Progress(accessor[b], 0, Policy(accessor[b]).exec)
        BY DEF Progress, Passed
      <3>6. Policy(accessor[b]).exec # NoExec
        BY <2>3 DEF Policy
      <3>7. /\ content[b] \in Contents /\ Supported(content[b]) # {}
            /\ accessor[b] = GetClusterAccessor(content[b])
        BY <2>1 DEF KeepInv
      <3>8. \A c \in Builders \ {b} :
               pc'[c] = pc[c] /\ idx'[c] = idx[c] /\ heap'[Work(c)] = heap[Work(c)]
        BY <1>2, <1>3, <3>3
      <3> QED
        BY <1>1, <1>2, <2>1, <3>4, <3>5, <3>6, <3>7, <3>8, KeepLocal
    <2> QED
      BY <2>2, <2>3
  <1>7. ASSUME NEW b \in Builders, ProcessExtension(b) PROVE KeepInv'
    <2>1. /\ UNCHANGED <<accessor, content>> /\ Served(accessor[b])
          /\ pc[b] = "extensions" /\ idx[b] \in 1 .. Len(accessor[b].extensions)
      BY <1>1, <1>7, IterationEffect DEF TypeInv, Working
    <2>2. CASE Advances(b) /\ Decodes(Policy(accessor[b]), accessor[b].extensions[idx[b]])
      <3>1. PICK n : n = idx[b] - 1
        OBVIOUS
      <3>2. n \in Nat /\ n + 1 = idx[b] /\ n + 1 \in DOMAIN accessor[b].extensions
        BY <1>1, <2>1, <3>1 DEF TypeInv, TypeOK, Served, AccessProvider
      <3>3. /\ Policy(accessor[b]).exec # NoExec
            /\ UniqueNames(accessor[b].extensions) => Progress(accessor[b], n, heap[Work(b)])
            /\ content[b] \in Contents /\ Supported(content[b]) # {}
            /\ accessor[b] = GetClusterAccessor(content[b])
        BY <2>1, <3>1 DEF KeepInv
      <3>4. heap[Work(b)] \in ExecConfig
        BY <1>1, <1>2 DEF TypeInv, TypeOK
      <3>5. /\ idx' = [idx EXCEPT ![b] = idx[b] + 1] /\ UNCHANGED pc
            /\ heap' = [heap EXCEPT ![Work(b)] =
                  AfterExtension(Policy(accessor[b]), accessor[b].extensions[idx[b]], @)]
        BY <2>2 DEF Advances
      <3>6. idx'[b] - 1 = n + 1
        BY <1>2, <3>2, <3>5
      <3>7. heap'[Work(b)] = AfterExtension(Policy(accessor[b]),
                                accessor[b].extensions[n + 1], heap[Work(b)])
        BY <1>2, <3>2, <3>5
      <3>8. UniqueNames(accessor[b].extensions) => Progress(accessor[b], n + 1, heap'[Work(b)])
        BY <2>1, <2>2, <3>2, <3>3, <3>4, <3>7, ProgressNext
      <3>9. \A c \in Builders \ {b} : idx'[c] = idx[c] /\ heap'[Work(c)] = heap[Work(c)]
        BY <1>2, <1>3, <3>5
      <3> QED
        BY <1>1, <2>1, <3>3, <3>5, <3>6, <3>8, <3>9, KeepLocal
    <2>3. CASE GivesUp(b)
      BY <1>1, <1>2, <2>1, <2>3, KeepLocal DEF GivesUp, Return
    <2>4. CASE Panics(b)
      BY <1>1, <2>1, <2>4, KeepFrame DEF Panics
    <2> QED
      BY <1>1, <1>7, <2>2, <2>3, <2>4, IterationEffect
  <1>8. ASSUME NEW b \in Builders, FinishBuild(b) PROVE KeepInv'
    <2>1. UNCHANGED <<accessor, content, heap, idx>> /\ pc' = [pc EXCEPT ![b] = "returned"]
      BY <1>8 DEF FinishBuild, Return
    <2> QED
      BY <1>1, <1>2, <2>1, KeepLocal
  <1>9. ASSUME NEW b \in Builders, UseConfig(b) PROVE KeepInv'
    BY <1>1, <1>9, KeepFrame DEF UseConfig, local
  <1>10. ASSUME NEW b \in Builders, Discard(b) PROVE KeepInv'
    <2>1. /\ pc'[b] = "idle"
          /\ \A c \in Builders \ {b} :
                /\ pc'[c] = pc[c] /\ content'[c] = content[c] /\ accessor'[c] = accessor[c]
                /\ idx'[c] = idx[c] /\ heap'[Work(c)] = heap[Work(c)]
      BY <1>10, <1>2, <1>3 DEF Discard
    <2> QED
      BY <1>1, <2>1, KeepLocal
  <1>11. CASE UNCHANGED vars
    BY <1>1, <1>11, KeepFrame DEF vars
  <1> QED
    BY <1>4, <1>5, <1>6, <1>7, <1>8, <1>9, <1>10, <1>11 DEF Next, Build

\* What the caller knows, from the variables that it depends on.
CallOf(l, c, o) ==
    CASE l = "idle" -> [state |-> "idle"]
      [] l \in {"selected", "extensions"} -> [state |-> "pending", content |-> c]
      [] l = "returned" -> [state |-> "returned", content |-> c, outcome |-> o]

calls == [b \in Builders |-> Call(b)]

LEMMA CallIs ==
    /\ \A c, o : CallOf("idle", c, o) = Promise!Idle
    /\ \A l \in {"selected", "extensions"} : \A c, o : CallOf(l, c, o) = Promise!Pending(c)
    /\ \A c, o : CallOf("returned", c, o) = Promise!Returned(c, o)
  BY DEF CallOf, Promise!Idle, Promise!Pending, Promise!Returned

LEMMA CallsOf ==
    /\ calls = [b \in Builders |-> CallOf(pc[b], content[b], outcome[b])]
    /\ calls' = [b \in Builders |-> CallOf(pc'[b], content'[b], outcome'[b])]
  BY DEF calls, Call, CallOf

\* A step that changes what the caller of b knows, and nobody else's knowledge.
LEMMA CallsLocal ==
    ASSUME NEW b \in Builders,
           \A c \in Builders \ {b} :
              pc'[c] = pc[c] /\ content'[c] = content[c] /\ outcome'[c] = outcome[c]
    PROVE  calls' = [calls EXCEPT ![b] = CallOf(pc'[b], content'[b], outcome'[b])]
  BY CallsOf

LEMMA CallsFrame ==
    ASSUME UNCHANGED <<pc, content, outcome>> PROVE UNCHANGED calls
  BY CallsOf

\* Builder b answers o, as promised for the accessor that it has selected.
LEMMA AnswerIsPromised ==
    ASSUME KeepInv, TypeInv, NEW b \in Builders, pc[b] \in {"selected", "extensions"},
           alive, NEW o, Return(b, o), UNCHANGED <<status, alive, content>>,
           Promise!PromisedFor(accessor[b], Policy(accessor[b]), o)
    PROVE  Promise!Next
  <1>1. /\ content[b] \in Contents /\ Supported(content[b]) # {}
        /\ accessor[b] = GetClusterAccessor(content[b])
    BY DEF KeepInv
  <1>2. Promise!Promised(content[b], o)
    BY <1>1, PromisedBy
  <1>3. DOMAIN pc = Builders /\ DOMAIN outcome = Builders
    BY DEF TypeInv, TypeOK, Working
  <1>4. calls' = [calls EXCEPT ![b] = Promise!Returned(content[b], o)]
    <2>1. pc'[b] = "returned" /\ outcome'[b] = o /\ content'[b] = content[b]
      BY <1>3 DEF Return
    <2>2. \A c \in Builders \ {b} :
             pc'[c] = pc[c] /\ content'[c] = content[c] /\ outcome'[c] = outcome[c]
      BY <1>3 DEF Return
    <2>3. CallOf("returned", content[b], o) = Promise!Returned(content[b], o)
      BY CallIs
    <2> QED
      BY <2>1, <2>2, <2>3, CallsLocal
  <1>5. calls[b] = Promise!Pending(content[b])
    BY CallsOf, CallIs
  <1>6. calls'[b] = Promise!Returned(content[b], o)
    <2>1. DOMAIN calls = Builders
      BY DEF calls
    <2> QED
      BY <1>4, <2>1
  <1>7. /\ calls[b].state = "pending" /\ calls[b].content = content[b]
        /\ calls'[b].state = "returned" /\ calls'[b].outcome = o
    BY <1>5, <1>6 DEF Promise!Pending, Promise!Returned
  <1>8. Promise!Answer(b)
    BY <1>2, <1>4, <1>7 DEF Promise!Answer, calls
  <1> QED
    BY <1>8 DEF Promise!Next

LEMMA PromiseInit == Init => Promise!Init
  <1> SUFFICES ASSUME Init PROVE Promise!Init
    OBVIOUS
  <1>1. status \in [Profiles -> Contents] /\ alive = TRUE
    BY DEF Init
  <1>2. calls = [b \in Builders |-> Promise!Idle]
    BY CallsOf, CallIs DEF Init
  <1> QED
    BY <1>1, <1>2 DEF Promise!Init, calls

LEMMA PromiseStep == KeepInv /\ [Next]_vars => [Promise!Next]_(Promise!vars)
  <1> SUFFICES ASSUME KeepInv, [Next]_vars PROVE [Promise!Next]_(Promise!vars)
    OBVIOUS
  <1>1. /\ TypeInv /\ DOMAIN pc = Builders /\ DOMAIN outcome = Builders
        /\ DOMAIN content = Builders /\ DOMAIN calls = Builders
    BY DEF KeepInv, TypeInv, TypeOK, Working, calls
  <1>2. ASSUME UNCHANGED <<status, alive, pc, content, outcome>> PROVE UNCHANGED Promise!vars
    BY <1>2, CallsFrame DEF Promise!vars, calls
  <1>3. ASSUME alive, NEW p \in Profiles, NEW v \in Versions, NEW c \in Contents,
               Publish(p, v, c)
        PROVE  [Promise!Next]_(Promise!vars)
    <2>1. UNCHANGED <<alive, pc, content, outcome>>
      BY <1>3 DEF Publish, local
    <2>2. CASE UNCHANGED status
      BY <1>2, <2>1, <2>2
    <2>3. CASE status' = [status EXCEPT ![p] = c]
      BY <1>3, <2>1, <2>3, CallsFrame DEF Promise!Publish, Promise!Next, calls
    <2> QED
      BY <1>3, <2>2, <2>3 DEF Publish
  <1>4. ASSUME alive, NEW b \in Builders, NEW p \in Profiles, SelectAccessor(b, p)
        PROVE  [Promise!Next]_(Promise!vars)
    <2>1. /\ UNCHANGED <<status, alive>> /\ pc[b] = "idle"
          /\ content' = [content EXCEPT ![b] = status[p]]
      BY <1>4 DEF SelectAccessor
    <2>2. calls[b] = Promise!Idle
      BY <2>1, CallsOf, CallIs
    <2>3. CASE Supported(status[p]) = {}
      <3>1. Return(b, Error)
        BY <1>4, <2>3 DEF SelectAccessor
      <3>2. Promise!Promised(status[p], Promise!Error)
        BY <2>3, PromiseSelects DEF Promise!Promised
      <3>3. /\ pc'[b] = "returned" /\ content'[b] = status[p] /\ outcome'[b] = Promise!Error
            /\ \A c \in Builders \ {b} :
                  pc'[c] = pc[c] /\ content'[c] = content[c] /\ outcome'[c] = outcome[c]
        BY <1>1, <2>1, <3>1, PromiseSelects DEF Return
      <3>4. calls' = [calls EXCEPT ![b] = Promise!Returned(status[p], Promise!Error)]
        BY <3>3, CallsLocal, CallIs
      <3> QED
        BY <1>4, <2>1, <2>2, <3>2, <3>4 DEF Promise!Refuse, Promise!Next, calls
    <2>4. CASE Supported(status[p]) # {}
      <3>1. pc' = [pc EXCEPT ![b] = "selected"] /\ UNCHANGED outcome
        BY <1>4, <2>4 DEF SelectAccessor
      <3>2. /\ pc'[b] = "selected" /\ content'[b] = status[p]
            /\ \A c \in Builders \ {b} :
                  pc'[c] = pc[c] /\ content'[c] = content[c] /\ outcome'[c] = outcome[c]
        BY <1>1, <2>1, <3>1
      <3>3. calls' = [calls EXCEPT ![b] = Promise!Pending(status[p])]
        BY <3>2, CallsLocal, CallIs
      <3> QED
        BY <1>4, <2>1, <2>2, <3>3 DEF Promise!Begin, Promise!Next, calls
    <2> QED
      BY <2>3, <2>4
  <1>5. ASSUME alive, NEW b \in Builders, GetExecConfig(b)
        PROVE  [Promise!Next]_(Promise!vars)
    <2>1. UNCHANGED <<status, alive, content>> /\ pc[b] = "selected"
      BY <1>5 DEF GetExecConfig
    <2>2. CASE Policy(accessor[b]).exec = NoExec
      <3>1. Return(b, Error)
        BY <1>5, <2>2 DEF GetExecConfig, Policy
      <3>2. Promise!PromisedFor(accessor[b], Policy(accessor[b]), Error)
        BY <2>2, PromiseSelects DEF Promise!PromisedFor, Promise!Acceptable
      <3> QED
        BY <1>1, <1>5, <2>1, <3>1, <3>2, AnswerIsPromised
    <2>3. CASE Policy(accessor[b]).exec # NoExec
      <3>1. pc' = [pc EXCEPT ![b] = "extensions"] /\ UNCHANGED outcome
        BY <1>5, <2>3 DEF GetExecConfig, Policy
      <3>2. /\ CallOf("selected", content[b], outcome[b]) = Promise!Pending(content[b])
            /\ CallOf("extensions", content[b], outcome[b]) = Promise!Pending(content[b])
        BY CallIs
      <3>3. calls' = [calls EXCEPT ![b] = Promise!Pending(content[b])]
        BY <1>1, <2>1, <3>1, <3>2, CallsLocal
      <3>4. calls[b] = Promise!Pending(content[b])
        BY <2>1, <3>2, CallsOf
      <3>5. UNCHANGED calls
        BY <1>1, <3>3, <3>4 DEF calls
      <3> QED
        BY <2>1, <3>5 DEF Promise!vars, calls
    <2> QED
      BY <2>2, <2>3
  <1>6. ASSUME alive, NEW b \in Builders, ProcessExtension(b)
        PROVE  [Promise!Next]_(Promise!vars)
    <2> DEFINE a == accessor[b]
               x == a.extensions[idx[b]]
    <2>1. /\ UNCHANGED <<status, content>> /\ pc[b] = "extensions"
          /\ Served(a) /\ idx[b] \in DOMAIN a.extensions
      BY <1>1, <1>6, IterationEffect DEF TypeInv, Working, Served, AccessProvider
    <2> HIDE DEF x
    <2>2. CASE Advances(b)
      BY <1>2, <2>1, <2>2 DEF Advances
    <2>3. CASE GivesUp(b) /\ ~Decodes(Policy(a), x)
      <3>1. ~UniqueNames(a.extensions) \/ ~Promise!Acceptable(a, Policy(a))
        BY <2>1, <2>3, RefusedIsUnacceptable DEF x
      <3>2. Promise!PromisedFor(a, Policy(a), Error)
        BY <3>1, PromiseSelects DEF Promise!PromisedFor
      <3> QED
        BY <1>1, <1>6, <2>1, <2>3, <3>2, AnswerIsPromised DEF GivesUp
    <2>4. CASE Panics(b) /\ Merges(Policy(a)) /\ x.name = "envs" /\ x.data.kind = "null"
      <3>1. /\ content[b] \in Contents /\ Supported(content[b]) # {}
            /\ a = GetClusterAccessor(content[b])
        BY <2>1 DEF KeepInv
      <3>2. PICK k \in DOMAIN content[b] :
               /\ content[b][k] = a
               /\ Promise!Serves(content[b], content[b][k], ProviderIndex(a.name))
        BY <3>1, AccessorServes
      <3>3. x \in Promise!Range(a.extensions)
        BY <2>1 DEF Promise!Range, x
      <3>4. Promise!MayPanic(content[b])
        BY <2>4, <3>2, <3>3 DEF Promise!MayPanic, Promise!Serves, Merges, Policy
      <3>5. calls[b] = Promise!Pending(content[b])
        BY <2>1, CallsOf, CallIs
      <3>6. UNCHANGED calls /\ alive' = FALSE
        BY <2>1, <2>4, CallsFrame DEF Panics
      <3> QED
        BY <1>6, <2>1, <3>4, <3>5, <3>6
           DEF Promise!Panic, Promise!Next, Promise!Pending, calls
    <2> QED
      BY <1>1, <1>6, <2>2, <2>3, <2>4, IterationEffect DEF x
  <1>7. ASSUME alive, NEW b \in Builders, FinishBuild(b)
        PROVE  [Promise!Next]_(Promise!vars)
    <2> DEFINE a == accessor[b]
               exec == heap[Work(b)]
    <2>1. /\ UNCHANGED <<status, alive, content>> /\ pc[b] = "extensions"
          /\ Served(a) /\ execConfig[b] = Work(b) /\ a.extensions \in Seq(Extension)
      BY <1>1, <1>7 DEF FinishBuild, TypeInv, NoLeak, OwnPointer, Working, Served, AccessProvider
    <2>2. CASE DuplicateExtension(a.extensions) /\ Return(b, Error)
      <3>1. ~UniqueNames(a.extensions)
        BY <2>1, <2>2 DEF DuplicateExtension, UniqueNames
      <3>2. Promise!PromisedFor(a, Policy(a), Error)
        BY <3>1, PromiseSelects DEF Promise!PromisedFor
      <3> QED
        BY <1>1, <1>7, <2>1, <2>2, <3>2, AnswerIsPromised
    <2>3. CASE Return(b, RestConfig(b))
      <3>1. RestConfig(b) = Config(a, exec)
        BY <2>1 DEF RestConfig, Config
      <3>2. idx[b] - 1 = Len(a.extensions)
        <4>1. Len(a.extensions) \in Nat /\ idx[b] \in 1 .. (Len(a.extensions) + 1)
          BY <1>1, <2>1 DEF TypeInv, Working
        <4> QED
          BY <1>7, <4>1 DEF FinishBuild
      <3>3. /\ Policy(a).exec # NoExec
            /\ UniqueNames(a.extensions) => Progress(a, Len(a.extensions), exec)
        BY <2>1, <3>2 DEF KeepInv
      <3> HIDE DEF exec
      <3>4. Promise!PromisedFor(a, Policy(a), Config(a, exec))
        BY <2>1, <3>3, ProgressDone
      <3> QED
        BY <1>1, <1>7, <2>1, <2>3, <3>1, <3>4, AnswerIsPromised
    <2> QED
      BY <1>7, <2>2, <2>3 DEF FinishBuild
  <1>8. ASSUME NEW b \in Builders, UseConfig(b) PROVE [Promise!Next]_(Promise!vars)
    BY <1>2, <1>8 DEF UseConfig, local
  <1>9. ASSUME alive, NEW b \in Builders, Discard(b) PROVE [Promise!Next]_(Promise!vars)
    <2>1. UNCHANGED <<status, alive>> /\ pc[b] = "returned"
      BY <1>9 DEF Discard
    <2>2. /\ pc'[b] = "idle"
          /\ \A c \in Builders \ {b} :
                pc'[c] = pc[c] /\ content'[c] = content[c] /\ outcome'[c] = outcome[c]
      BY <1>1, <1>9 DEF Discard
    <2>3. calls' = [calls EXCEPT ![b] = Promise!Idle]
      BY <2>2, CallsLocal, CallIs
    <2>4. calls[b].state = "returned"
      BY <2>1, CallsOf, CallIs DEF Promise!Returned
    <2> QED
      BY <1>9, <2>1, <2>3, <2>4 DEF Promise!Discard, Promise!Next, calls
  <1>10. CASE UNCHANGED vars
    BY <1>2, <1>10 DEF vars
  <1> QED
    BY <1>3, <1>4, <1>5, <1>6, <1>7, <1>8, <1>9, <1>10 DEF Next, Build

\* AccessBuild implements AccessPromise: every call of BuildConfigFromCP, run in
\* steps on shared memory, answers as if it were computed at once from the status
\* it was made on and the provider file.
THEOREM BuildImplementsPromise == Spec => KeepsPromise
  <1>1. Init => KeepInv /\ Promise!Init
    BY KeepInit, PromiseInit
  <1>2. KeepInv /\ [Next]_vars => KeepInv' /\ [Promise!Next]_(Promise!vars)
    BY KeepStep, PromiseStep
  <1> QED
    BY <1>1, <1>2, PTL DEF Spec, KeepsPromise, Promise!Spec
=============================================================================
