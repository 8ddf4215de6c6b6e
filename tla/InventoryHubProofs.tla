------------------------ MODULE InventoryHubProofs ------------------------
(***************************************************************************)
(* Proofs about the hub: conformance-seed and the agents read a profile in *)
(* one call and write it in another, and the resource version sees to it   *)
(* that what they write was true of the profile that they write to.        *)
(***************************************************************************)
EXTENDS InventoryHub, SequenceTheorems, WellFoundedInduction, TLAPS

Typed ==
    /\ writes \in Nat
    /\ profile \in [Names -> Profile \cup {None}]
    /\ \A n \in Names : Exists(n) => profile[n].rv <= writes
    /\ flags \in [Seeders -> [manager : Managers, clusters : Int]]
    /\ \A s \in Seeders : flags[s] \in Flags[s]
    /\ pc \in [Seeders -> {"idle", "namespace", "loop", "get", "update", "done", "failed"}]
    /\ i \in [Seeders -> Nat]
    /\ created \in [Seeders -> Profile \cup {None}]
    /\ DOMAIN copy = Agents

\* object is profile n as it was at some time: unless n has been written since,
\* it agrees with n in all that both API versions show.
Seen(n, object) ==
    /\ n \in Names /\ object \in Profile /\ object.rv <= writes
    /\ (Exists(n) /\ profile[n].rv = object.rv) =>
          /\ object.manager = profile[n].manager
          /\ object.status.conditions = profile[n].status.conditions
          /\ object.status.facts = profile[n].status.facts

\* The loop of a seeder is where there are names for it.
InTurn(s) ==
    /\ pc[s] \in {"namespace", "loop"} => i[s] >= 1
    /\ pc[s] \in {"get", "update"} => i[s] \in 1..flags[s].clusters

SeederInv(s) ==
    /\ InTurn(s)
    /\ pc[s] = "update" => Seen(Target(s), created[s]) /\ created[s].manager = Manager(s)

AgentInv(a) == copy[a] # None => Seen(copy[a].name, copy[a].object)

HubInv ==
    /\ Typed
    /\ \A s \in Seeders : SeederInv(s)
    /\ \A a \in Agents : AgentInv(a)

LEMMA HubInit == Init => HubInv
  <1> SUFFICES ASSUME Init PROVE HubInv
    OBVIOUS
  <1>1. \A s \in Seeders : flags[s] \in Flags[s] /\ DOMAIN flags = Seeders
    BY DEF Init
  <1>2. flags \in [Seeders -> [manager : Managers, clusters : Int]]
    BY <1>1, HubAssumption DEF Init
  <1>3. Typed
    BY <1>1, <1>2 DEF Init, Typed, Exists
  <1> QED
    BY <1>3 DEF Init, HubInv, SeederInv, InTurn, AgentInv

-----------------------------------------------------------------------------

\* The profile that a seeder works on has one of the names.
LEMMA TargetIsName ==
    ASSUME Typed, NEW s \in Seeders, i[s] \in 1..flags[s].clusters
    PROVE  Target(s) \in Names /\ i[s] \in Indexes /\ Manager(s) \in Managers
  <1>1. i[s] \in Indexes
    BY DEF Typed, Indexes, Clusters
  <1>2. Manager(s) \in Managers
    BY DEF Typed, Manager
  <1> QED
    BY <1>1, <1>2 DEF Target, Names

\* Writing gives a profile a version that nobody has seen.
LEMMA StoreIsNew ==
    ASSUME Typed, NEW n \in Names, NEW manager \in Managers, NEW status \in Status,
           Store(n, manager, status)
    PROVE  /\ writes' \in Nat /\ profile' \in [Names -> Profile \cup {None}]
           /\ \A m \in Names : Exists(m)' => profile'[m].rv <= writes'
           /\ \A m, object : Seen(m, object) => Seen(m, object)'
           /\ profile'[n] \in Profile
           /\ \A object : object = profile'[n] => Seen(n, object)'
  <1> DEFINE new == [rv |-> writes + 1, manager |-> manager, status |-> status]
  <1>1. new \in Profile /\ new # None /\ new.rv = writes + 1
    BY NoneAssumption DEF Profile, Typed
  <1>2. profile' = [profile EXCEPT ![n] = new] /\ writes' = writes + 1
    BY DEF Store
  <1> HIDE DEF new
  <1>3. writes' \in Nat /\ profile' \in [Names -> Profile \cup {None}]
    BY <1>1, <1>2 DEF Typed
  <1>4. \A m \in Names : Exists(m)' => profile'[m].rv <= writes'
    BY <1>1, <1>2 DEF Typed, Exists, Profile
  <1>5. \A m, object : Seen(m, object) => Seen(m, object)'
    BY <1>1, <1>2 DEF Typed, Seen, Exists, Profile
  <1>6. profile'[n] \in Profile /\ \A object : object = profile'[n] => Seen(n, object)'
    BY <1>1, <1>2, <1>3 DEF Typed, Seen, Exists
  <1> QED
    BY <1>3, <1>4, <1>5, <1>6

\* A deletion shows in what is there.
LEMMA DeletionKeeps ==
    ASSUME Typed, NEW n \in Names, writes' = writes + 1,
           profile' = [profile EXCEPT ![n] = None]
    PROVE  /\ writes' \in Nat /\ profile' \in [Names -> Profile \cup {None}]
           /\ \A m \in Names : Exists(m)' => profile'[m].rv <= writes'
           /\ \A m, object : Seen(m, object) => Seen(m, object)'
  BY DEF Typed, Seen, Exists, Profile

LEMMA NothingWritten ==
    ASSUME UNCHANGED <<profile, writes>>
    PROVE  \A m, object : Seen(m, object) => Seen(m, object)'
  BY DEF Seen, Exists

\* Those who do not take part in a step keep what they know.
LEMMA SeederKeeps ==
    ASSUME HubInv, NEW s \in Seeders, UNCHANGED flags,
           pc'[s] = pc[s], i'[s] = i[s], created'[s] = created[s],
           \A m, object : Seen(m, object) => Seen(m, object)'
    PROVE  SeederInv(s)'
  <1>1. InTurn(s)' /\ Target(s)' = Target(s) /\ Manager(s)' = Manager(s)
    BY DEF HubInv, SeederInv, InTurn, Target, Manager
  <1>2. ASSUME pc[s] = "update"
        PROVE  Seen(Target(s), created[s])' /\ created'[s].manager = Manager(s)'
    <2>1. Seen(Target(s), created[s]) /\ created[s].manager = Manager(s)
      BY <1>2 DEF HubInv, SeederInv
    <2>2. PICK m, object : m = Target(s) /\ object = created[s]
      OBVIOUS
    <2>3. Seen(m, object)'
      BY <2>1, <2>2
    <2>4. m = Target(s)' /\ object = created'[s]
      BY <1>1, <2>2
    <2> QED
      BY <1>1, <2>1, <2>3, <2>4 DEF Seen
  <1> QED
    BY <1>1, <1>2 DEF SeederInv

LEMMA AgentKeeps ==
    ASSUME HubInv, NEW a \in Agents, copy'[a] = copy[a],
           \A m, object : Seen(m, object) => Seen(m, object)'
    PROVE  AgentInv(a)'
  <1>1. CASE copy[a] = None
    BY <1>1 DEF AgentInv
  <1>2. CASE copy[a] # None
    <2>1. PICK m, object : m = copy[a].name /\ object = copy[a].object
      OBVIOUS
    <2>2. Seen(m, object)'
      BY <1>2, <2>1 DEF HubInv, AgentInv
    <2> QED
      BY <2>1, <2>2 DEF AgentInv, Seen
  <1> QED
    BY <1>1, <1>2

\* conformance-seed writes the facts and two conditions of a status.
LEMMA SeedStatusFields ==
    ASSUME NEW status \in Status, NEW s
    PROVE  SeedStatus(s, status) =
             [conditions |-> [status.conditions EXCEPT !["ControlPlaneHealthy"] = "True",
                                                       !["Joined"] = "True"],
              facts      |-> {[by |-> Manager(s), index |-> i[s]]},
              credential |-> status.credential]
  <1> DEFINE facts  == {[by |-> Manager(s), index |-> i[s]]}
             first  == [status EXCEPT !.facts = facts]
             second == [first EXCEPT !.conditions["ControlPlaneHealthy"] = "True"]
  <1>1. SeedStatus(s, status) = [second EXCEPT !.conditions["Joined"] = "True"]
    BY DEF SeedStatus
  <1> HIDE DEF facts
  <1>2. first = [conditions |-> status.conditions, facts |-> facts,
                 credential |-> status.credential]
    BY DEF Status
  <1> HIDE DEF first
  <1>3. second = [conditions |-> [status.conditions EXCEPT !["ControlPlaneHealthy"] = "True"],
                  facts |-> facts, credential |-> status.credential]
    BY <1>2
  <1> HIDE DEF second
  <1>4. SeedStatus(s, status) =
          [conditions |-> [status.conditions EXCEPT !["ControlPlaneHealthy"] = "True",
                                                    !["Joined"] = "True"],
           facts |-> facts, credential |-> status.credential]
    BY <1>1, <1>3
  <1> QED
    BY <1>4 DEF facts

\* Statuses that are written have the type of a status.
LEMMA StatusTypes ==
    ASSUME NEW status \in Status
    PROVE  /\ \A version : /\ Prune(status, version) \in Status
                          /\ Prune(status, version).conditions = status.conditions
                          /\ Prune(status, version).facts = status.facts
           /\ \A s \in Seeders :
                 (i[s] \in Indexes /\ Manager(s) \in Managers) => SeedStatus(s, status) \in Status
           /\ \A a : Changes(a, status) \subseteq Status
           /\ BlankStatus \in Status
  <1>1. \A version : /\ Prune(status, version) \in Status
                     /\ Prune(status, version).conditions = status.conditions
                     /\ Prune(status, version).facts = status.facts
    BY DEF Prune, Status
  <1>2. ASSUME NEW s \in Seeders, i[s] \in Indexes, Manager(s) \in Managers
        PROVE  SeedStatus(s, status) \in Status
    <2> DEFINE facts == {[by |-> Manager(s), index |-> i[s]]}
               conditions == [status.conditions EXCEPT !["ControlPlaneHealthy"] = "True",
                                                       !["Joined"] = "True"]
    <2>1. facts \in SUBSET [by : Managers, index : Indexes]
      BY <1>2
    <2>2. conditions \in [Conditions -> {"absent", "True", "False"}]
      BY DEF Status, Conditions
    <2>3. SeedStatus(s, status) = [conditions |-> conditions, facts |-> facts,
                                   credential |-> status.credential]
      BY SeedStatusFields
    <2> HIDE DEF facts, conditions
    <2> QED
      BY <2>1, <2>2, <2>3 DEF Status
  <1>3. \A a : Changes(a, status) \subseteq Status
    <2>1. [status EXCEPT !.conditions["Other"] = "True"] \in Status
      BY DEF Status, Conditions
    <2>2. [status EXCEPT !.conditions["ControlPlaneHealthy"] = "False"] \in Status
      BY DEF Status, Conditions
    <2>3. [status EXCEPT !.credential = TRUE] \in Status
      BY DEF Status
    <2> QED
      BY <2>1, <2>2, <2>3 DEF Changes
  <1>4. BlankStatus \in Status
    BY DEF BlankStatus, Status, Conditions
  <1> QED
    BY <1>1, <1>2, <1>3, <1>4

\* What a client reads is the profile, but for fields its version lacks.
LEMMA ReadIsSeen ==
    ASSUME Typed, NEW n \in Names, Exists(n), NEW version
    PROVE  Seen(n, Object(n, version)) /\ Object(n, version).manager = profile[n].manager
  <1>1. profile[n] \in Profile /\ profile[n].rv <= writes
    BY DEF Typed, Exists
  <1>2. /\ Prune(profile[n].status, version) \in Status
        /\ Prune(profile[n].status, version).conditions = profile[n].status.conditions
        /\ Prune(profile[n].status, version).facts = profile[n].status.facts
    BY <1>1, StatusTypes DEF Profile
  <1> QED
    BY <1>1, <1>2 DEF Object, Seen, Profile

LEMMA SeederMoves ==
    ASSUME HubInv, NEW s \in Seeders, UNCHANGED <<flags, copy>>,
           \A v \in Seeders \ {s} :
               pc'[v] = pc[v] /\ i'[v] = i[v] /\ created'[v] = created[v],
           \A m, object : Seen(m, object) => Seen(m, object)',
           Typed', SeederInv(s)'
    PROVE  HubInv'
  <1>1. \A v \in Seeders : SeederInv(v)'
    BY SeederKeeps
  <1>2. \A a \in Agents : AgentInv(a)'
    BY AgentKeeps
  <1> QED
    BY <1>1, <1>2 DEF HubInv

LEMMA QuietSteps ==
    ASSUME HubInv, NEW s \in Seeders,
           Start(s) \/ CreateNamespace(s) \/ Finish(s) \/ Die(s)
    PROVE  HubInv'
  <1>1. UNCHANGED <<profile, writes, flags, copy>>
    BY DEF Start, CreateNamespace, Finish, Die, server
  <1>2. \A m, object : Seen(m, object) => Seen(m, object)'
    BY <1>1, NothingWritten
  <1>3. \A v \in Seeders \ {s} : pc'[v] = pc[v] /\ i'[v] = i[v] /\ created'[v] = created[v]
    BY DEF HubInv, Typed, Start, CreateNamespace, Finish, Die, Goto
  <1>4. Typed'
    BY <1>1 DEF HubInv, Typed, Exists, Start, CreateNamespace, Finish, Die, Goto
  <1>5. SeederInv(s)'
    BY DEF HubInv, Typed, SeederInv, InTurn, Start, CreateNamespace, Finish, Die, Goto
  <1> QED
    BY <1>1, <1>2, <1>3, <1>4, <1>5, SeederMoves

LEMMA CreateProfileStep ==
    ASSUME HubInv, NEW s \in Seeders, CreateProfile(s)
    PROVE  HubInv'
  <1>1. Typed /\ InTurn(s) /\ i[s] \in 1..flags[s].clusters
    BY DEF HubInv, Typed, SeederInv, InTurn, CreateProfile, InLoop
  <1>2. Target(s) \in Names /\ i[s] \in Indexes /\ Manager(s) \in Managers
    BY <1>1, TargetIsName
  <1>n. PICK n \in Names : n = Target(s)
    BY <1>2
  <1>m. PICK manager \in Managers : manager = Manager(s)
    BY <1>2
  <1>3. UNCHANGED <<flags, i, copy>> /\ Target(s)' = Target(s) /\ Manager(s)' = Manager(s)
    BY DEF CreateProfile, Target, Manager
  <1>4. CASE /\ Create(Target(s), Manager(s), "v1alpha2")
             /\ created' = [created EXCEPT ![s] = profile'[Target(s)]]
             /\ Goto(s, "update")
    <2>1. BlankStatus \in Status
      BY DEF BlankStatus, Status, Conditions
    <2>2. Store(n, manager, BlankStatus)
      BY <1>4, <1>n, <1>m DEF Create
    <2>3. /\ writes' \in Nat /\ profile' \in [Names -> Profile \cup {None}]
          /\ \A m \in Names : Exists(m)' => profile'[m].rv <= writes'
          /\ \A m, object : Seen(m, object) => Seen(m, object)'
          /\ profile'[n] \in Profile
          /\ \A object : object = profile'[n] => Seen(n, object)'
      BY <1>1, <2>1, <2>2, StoreIsNew
    <2>4. Typed'
      BY <1>1, <1>3, <1>4, <1>n, <2>3 DEF Typed, Goto
    <2>5. created'[s] = profile'[n] /\ created'[s].manager = Manager(s)
      BY <1>1, <1>4, <1>n, <1>m, <2>2 DEF Typed, Store
    <2>6. Seen(Target(s), created[s])'
      BY <1>3, <1>n, <2>3, <2>5 DEF Seen
    <2>7. SeederInv(s)'
      BY <1>1, <1>3, <1>4, <2>5, <2>6 DEF Typed, SeederInv, InTurn, Goto
    <2>8. \A v \in Seeders \ {s} : pc'[v] = pc[v] /\ i'[v] = i[v] /\ created'[v] = created[v]
      BY <1>1, <1>3, <1>4 DEF Typed, Goto
    <2> QED
      BY <1>3, <2>3, <2>4, <2>7, <2>8, SeederMoves
  <1>5. CASE UNCHANGED <<profile, writes, created>> /\ \E l \in {"get", "failed"} : Goto(s, l)
    <2>1. \A m, object : Seen(m, object) => Seen(m, object)'
      BY <1>5, NothingWritten
    <2>2. Typed'
      BY <1>1, <1>3, <1>5 DEF Typed, Exists, Goto
    <2>3. SeederInv(s)'
      BY <1>1, <1>3, <1>5 DEF Typed, SeederInv, InTurn, Goto
    <2>4. \A v \in Seeders \ {s} : pc'[v] = pc[v] /\ i'[v] = i[v] /\ created'[v] = created[v]
      BY <1>1, <1>3, <1>5 DEF Typed, Goto
    <2> QED
      BY <1>3, <2>1, <2>2, <2>3, <2>4, SeederMoves
  <1> QED
    BY <1>4, <1>5 DEF CreateProfile, server

LEMMA GetProfileStep ==
    ASSUME HubInv, NEW s \in Seeders, GetProfile(s)
    PROVE  HubInv'
  <1>1. Typed /\ i[s] \in 1..flags[s].clusters
    BY DEF HubInv, SeederInv, InTurn, GetProfile
  <1>2. /\ UNCHANGED <<profile, writes, flags, i, copy>>
        /\ Target(s)' = Target(s) /\ Manager(s)' = Manager(s)
    BY DEF GetProfile, Target, Manager, server
  <1>3. \A m, object : Seen(m, object) => Seen(m, object)'
    BY <1>2, NothingWritten
  <1>4. \A l : Goto(s, l) => \A v \in Seeders \ {s} : pc'[v] = pc[v]
    BY <1>1 DEF Typed, Goto
  <1>5. CASE /\ Exists(Target(s)) /\ Reusable(s, profile[Target(s)])
             /\ created' = [created EXCEPT ![s] = Object(Target(s), "v1alpha2")]
             /\ Goto(s, "update")
    <2>1. PICK n, object : n \in Names /\ n = Target(s) /\ object = Object(n, "v1alpha2")
      BY <1>1, TargetIsName
    <2>2. Seen(n, object) /\ object.manager = Manager(s)
      BY <1>1, <1>5, <2>1, ReadIsSeen DEF Reusable
    <2>3. created'[s] = object /\ object \in Profile
      BY <1>1, <1>5, <2>1, <2>2 DEF Typed, Seen
    <2>4. Typed'
      BY <1>1, <1>2, <1>5, <2>1, <2>3 DEF Typed, Exists, Goto
    <2>5. Seen(Target(s), created[s])'
      BY <1>2, <1>3, <2>1, <2>2, <2>3 DEF Seen
    <2>6. SeederInv(s)'
      BY <1>1, <1>2, <1>5, <2>2, <2>3, <2>5 DEF Typed, SeederInv, InTurn, Goto
    <2>7. \A v \in Seeders \ {s} : created'[v] = created[v]
      BY <1>1, <1>5 DEF Typed
    <2> QED
      BY <1>2, <1>3, <1>4, <1>5, <2>4, <2>6, <2>7, SeederMoves
  <1>6. CASE UNCHANGED created /\ Goto(s, "failed")
    <2>1. Typed' /\ SeederInv(s)'
      BY <1>1, <1>2, <1>6 DEF Typed, Exists, SeederInv, InTurn, Goto
    <2> QED
      BY <1>2, <1>3, <1>4, <1>6, <2>1, SeederMoves
  <1> QED
    BY <1>5, <1>6 DEF GetProfile

\* What conformance-seed writes keeps the manager, because the profile that it
\* has read, and the server has not seen written since, is of that manager.
LEMMA SeedIsLatest ==
    ASSUME HubInv, NEW s \in Seeders, pc[s] = "update"
    PROVE  /\ Typed /\ i[s] \in 1..flags[s].clusters /\ i[s] \in Indexes
           /\ created[s] \in Profile /\ Seen(Target(s), created[s])
           /\ created[s].manager = Manager(s)
           /\ Target(s) \in Names /\ Manager(s) \in Managers
           /\ SeedStatus(s, created[s].status) \in Status
  <1>1. /\ Typed /\ i[s] \in 1..flags[s].clusters
        /\ Seen(Target(s), created[s]) /\ created[s].manager = Manager(s)
    BY DEF HubInv, SeederInv, InTurn
  <1>2. Target(s) \in Names /\ Manager(s) \in Managers /\ i[s] \in Indexes
    BY <1>1, TargetIsName
  <1>3. created[s] \in Profile /\ created[s].status \in Status
    BY <1>1 DEF Seen, Profile
  <1>4. SeedStatus(s, created[s].status) \in Status
    BY <1>2, <1>3, StatusTypes
  <1> QED
    BY <1>1, <1>2, <1>3, <1>4

LEMMA SeedProfileStep ==
    ASSUME HubInv, NEW s \in Seeders, SeedProfile(s)
    PROVE  HubInv'
  <1>1. /\ Typed /\ i[s] \in 1..flags[s].clusters /\ created[s] \in Profile
        /\ Target(s) \in Names /\ SeedStatus(s, created[s].status) \in Status
    BY SeedIsLatest DEF SeedProfile
  <1>2. /\ UNCHANGED <<flags, copy>> /\ created' = [created EXCEPT ![s] = None]
        /\ \A v \in Seeders \ {s} : created'[v] = created[v]
    BY <1>1 DEF Typed, SeedProfile
  <1> DEFINE status == SeedStatus(s, created[s].status)
             object == [created[s] EXCEPT !.status = SeedStatus(s, @)]
  <1>3. CASE /\ UpdateStatus(Target(s), object, "v1alpha2")
             /\ i' = [i EXCEPT ![s] = @ + 1] /\ Goto(s, "loop")
    <2>1. PICK n \in Names, pruned \in Status :
             n = Target(s) /\ pruned = Prune(status, "v1alpha2")
      BY <1>1, StatusTypes
    <2>2. object.status = status
      BY <1>1 DEF Profile
    <2>3. Exists(n) /\ Store(n, profile[n].manager, pruned)
      BY <1>3, <2>1, <2>2 DEF UpdateStatus, Latest
    <2>4. PICK manager \in Managers : manager = profile[n].manager
      BY <1>1, <2>3 DEF Typed, Exists, Profile
    <2>5. /\ writes' \in Nat /\ profile' \in [Names -> Profile \cup {None}]
          /\ \A m \in Names : Exists(m)' => profile'[m].rv <= writes'
          /\ \A m, o : Seen(m, o) => Seen(m, o)'
      BY <1>1, <2>3, <2>4, StoreIsNew
    <2>6. Typed' /\ SeederInv(s)'
      BY <1>1, <1>2, <1>3, <2>5 DEF Typed, SeederInv, InTurn, Goto
    <2>7. \A v \in Seeders \ {s} : pc'[v] = pc[v] /\ i'[v] = i[v]
      BY <1>1, <1>3 DEF Typed, Goto
    <2> QED
      BY <1>2, <2>5, <2>6, <2>7, SeederMoves
  <1>4. CASE UNCHANGED <<profile, writes, i>> /\ Goto(s, "failed")
    <2>1. Typed' /\ SeederInv(s)'
      BY <1>1, <1>2, <1>4 DEF Typed, Exists, SeederInv, InTurn, Goto
    <2>2. \A v \in Seeders \ {s} : pc'[v] = pc[v] /\ i'[v] = i[v]
      BY <1>1, <1>4 DEF Typed, Goto
    <2>3. \A m, o : Seen(m, o) => Seen(m, o)'
      BY <1>4, NothingWritten
    <2> QED
      BY <1>2, <2>1, <2>2, <2>3, SeederMoves
  <1> QED
    BY <1>3, <1>4 DEF SeedProfile, server

-----------------------------------------------------------------------------

LEMMA AgentMoves ==
    ASSUME HubInv, NEW a \in Agents, UNCHANGED seeders,
           \A b \in Agents \ {a} : copy'[b] = copy[b],
           \A m, object : Seen(m, object) => Seen(m, object)',
           writes' \in Nat, profile' \in [Names -> Profile \cup {None}],
           \A m \in Names : Exists(m)' => profile'[m].rv <= writes',
           DOMAIN copy' = Agents, AgentInv(a)'
    PROVE  HubInv'
  <1>1. UNCHANGED <<flags, pc, i, created>>
    BY DEF seeders
  <1>2. \A v \in Seeders : SeederInv(v)'
    BY <1>1, SeederKeeps
  <1>3. \A b \in Agents : AgentInv(b)'
    BY AgentKeeps
  <1>4. Typed'
    BY <1>1 DEF HubInv, Typed
  <1> QED
    BY <1>2, <1>3, <1>4 DEF HubInv

LEMMA AgentCreateStep ==
    ASSUME HubInv, NEW a \in Agents, NEW n \in Names, AgentCreate(a, n)
    PROVE  HubInv'
  <1>1. a.manager \in Managers /\ BlankStatus \in Status
    BY HubAssumption DEF BlankStatus, Status, Conditions
  <1>2. Store(n, a.manager, BlankStatus) /\ UNCHANGED <<seeders, copy>> /\ Typed
    BY DEF AgentCreate, Create, HubInv
  <1>3. /\ writes' \in Nat /\ profile' \in [Names -> Profile \cup {None}]
        /\ \A m \in Names : Exists(m)' => profile'[m].rv <= writes'
        /\ \A m, object : Seen(m, object) => Seen(m, object)'
    BY <1>1, <1>2, StoreIsNew
  <1>4. AgentInv(a)'
    BY <1>2, <1>3, AgentKeeps
  <1> QED
    BY <1>2, <1>3, <1>4, AgentMoves DEF Typed

LEMMA AgentReadStep ==
    ASSUME HubInv, NEW a \in Agents, NEW n \in Names, AgentRead(a, n)
    PROVE  HubInv'
  <1>1. PICK object : object = Object(n, a.version)
    OBVIOUS
  <1>2. Seen(n, object) /\ Typed
    BY <1>1, ReadIsSeen DEF HubInv, AgentRead
  <1>3. /\ UNCHANGED <<profile, writes>> /\ UNCHANGED seeders
        /\ copy' = [copy EXCEPT ![a] = [name |-> n, object |-> object]]
    BY <1>1 DEF AgentRead, server
  <1>4. \A m, o : Seen(m, o) => Seen(m, o)'
    BY <1>3, NothingWritten
  <1>5. copy'[a].name = n /\ copy'[a].object = object
    BY <1>2, <1>3 DEF Typed
  <1>6. AgentInv(a)'
    BY <1>2, <1>4, <1>5 DEF AgentInv, Seen
  <1> QED
    BY <1>2, <1>3, <1>4, <1>6, AgentMoves DEF Typed, Exists

\* An agent's report changes the status that the profile has.
LEMMA ReportIsLatest ==
    ASSUME HubInv, NEW a \in Agents, AgentReports(a)
    PROVE  \E n \in Names, status \in Status, changed \in Status, stored \in Status :
             /\ Exists(n) /\ n = copy[a].name
             /\ status.conditions = profile[n].status.conditions
             /\ status.facts = profile[n].status.facts
             /\ changed \in Changes(a, status)
             /\ stored.conditions = changed.conditions /\ stored.facts = changed.facts
             /\ profile[n].manager \in Managers
             /\ Store(n, profile[n].manager, stored)
  <1>1. PICK n, object : n = copy[a].name /\ object = copy[a].object
    OBVIOUS
  <1>2. Typed /\ Seen(n, object)
    BY <1>1 DEF HubInv, AgentInv, AgentReports
  <1>3. n \in Names /\ object \in Profile /\ object.status \in Status
    BY <1>2 DEF Seen, Profile
  <1>4. PICK changed \in Changes(a, object.status) :
           UpdateStatus(n, [object EXCEPT !.status = changed], a.version)
    BY <1>1 DEF AgentReports
  <1>5. changed \in Status
    BY <1>3, StatusTypes
  <1>6. PICK stored \in Status : /\ stored = Prune(changed, a.version)
                                 /\ stored.conditions = changed.conditions
                                 /\ stored.facts = changed.facts
    BY <1>5, StatusTypes
  <1>7. /\ [object EXCEPT !.status = changed].rv = object.rv
        /\ [object EXCEPT !.status = changed].status = changed
    BY <1>3 DEF Profile
  <1>8. Exists(n) /\ profile[n].rv = object.rv /\ Store(n, profile[n].manager, stored)
    BY <1>4, <1>6, <1>7 DEF UpdateStatus, Latest
  <1>9. /\ object.status.conditions = profile[n].status.conditions
        /\ object.status.facts = profile[n].status.facts
        /\ profile[n].manager \in Managers
    BY <1>2, <1>3, <1>8 DEF Seen, Typed, Exists, Profile
  <1> QED
    BY <1>1, <1>3, <1>4, <1>5, <1>6, <1>8, <1>9

\* An update leaves conditions and facts alone, and cannot change the manager.
LEMMA UpdateIsLatest ==
    ASSUME HubInv, NEW a \in Agents, AgentUpdates(a)
    PROVE  \E n \in Names, status \in Status :
             /\ Exists(n)
             /\ status.conditions = profile[n].status.conditions
             /\ status.facts = profile[n].status.facts
             /\ profile[n].manager \in Managers
             /\ Store(n, profile[n].manager, status)
  <1>1. PICK n, object, m : /\ n = copy[a].name /\ object = copy[a].object
                           /\ Update(n, [object EXCEPT !.manager = m], a.version)
    BY DEF AgentUpdates
  <1>2. Typed /\ Seen(n, object) /\ n \in Names /\ object \in Profile
    BY <1>1 DEF HubInv, AgentInv, AgentUpdates, Seen
  <1>3. Exists(n) /\ profile[n] \in Profile /\ profile[n].status \in Status
        /\ profile[n].manager \in Managers
    BY <1>1, <1>2 DEF Update, Latest, Typed, Exists, Profile
  <1>4. PICK status \in {profile[n].status, Prune(profile[n].status, a.version)} :
           Store(n, profile[n].manager, status)
    BY <1>1 DEF Update, Immutable
  <1>5. /\ status \in Status /\ status.conditions = profile[n].status.conditions
        /\ status.facts = profile[n].status.facts
    BY <1>3, <1>4, StatusTypes
  <1> QED
    BY <1>2, <1>3, <1>4, <1>5

LEMMA AgentWritesStep ==
    ASSUME HubInv, NEW a \in Agents, AgentReports(a) \/ AgentUpdates(a)
    PROVE  HubInv'
  <1>1. PICK n \in Names, manager \in Managers, status \in Status :
           Store(n, manager, status)
    BY ReportIsLatest, UpdateIsLatest
  <1>2. Typed /\ copy' = [copy EXCEPT ![a] = None] /\ UNCHANGED seeders
    BY DEF HubInv, AgentReports, AgentUpdates
  <1>3. /\ writes' \in Nat /\ profile' \in [Names -> Profile \cup {None}]
        /\ \A m \in Names : Exists(m)' => profile'[m].rv <= writes'
        /\ \A m, object : Seen(m, object) => Seen(m, object)'
    BY <1>1, <1>2, StoreIsNew
  <1>4. AgentInv(a)'
    BY <1>2 DEF AgentInv, Typed
  <1> QED
    BY <1>2, <1>3, <1>4, AgentMoves DEF Typed

LEMMA AgentDeletesStep ==
    ASSUME HubInv, NEW n \in Names, AgentDeletes(n)
    PROVE  HubInv'
  <1>1. /\ Typed /\ UNCHANGED <<seeders, copy>> /\ writes' = writes + 1
        /\ profile' = [profile EXCEPT ![n] = None]
    BY DEF HubInv, AgentDeletes
  <1>2. /\ writes' \in Nat /\ profile' \in [Names -> Profile \cup {None}]
        /\ \A m \in Names : Exists(m)' => profile'[m].rv <= writes'
        /\ \A m, object : Seen(m, object) => Seen(m, object)'
    BY <1>1, DeletionKeeps
  <1>3. UNCHANGED <<flags, pc, i, created>>
    BY <1>1 DEF seeders
  <1>4. \A v \in Seeders : SeederInv(v)'
    BY <1>2, <1>3, SeederKeeps
  <1>5. \A b \in Agents : AgentInv(b)'
    BY <1>1, <1>2, AgentKeeps
  <1>6. Typed'
    BY <1>1, <1>2, <1>3 DEF Typed
  <1> QED
    BY <1>4, <1>5, <1>6 DEF HubInv

LEMMA HubStep == HubInv /\ [Next]_vars => HubInv'
  <1> SUFFICES ASSUME HubInv, [Next]_vars PROVE HubInv'
    OBVIOUS
  <1>1. CASE UNCHANGED vars
    <2>1. UNCHANGED <<profile, writes, flags, pc, i, created, copy>>
      BY <1>1 DEF vars, server, seeders
    <2>2. \A v \in Seeders : SeederInv(v)'
      BY <2>1, NothingWritten, SeederKeeps
    <2>3. \A b \in Agents : AgentInv(b)'
      BY <2>1, NothingWritten, AgentKeeps
    <2>4. Typed'
      BY <2>1 DEF HubInv, Typed, Exists
    <2> QED
      BY <2>2, <2>3, <2>4 DEF HubInv
  <1> QED
    BY <1>1, QuietSteps, CreateProfileStep, GetProfileStep, SeedProfileStep,
       AgentCreateStep, AgentReadStep, AgentWritesStep, AgentDeletesStep DEF Next

LEMMA HubAlways == Spec => []HubInv
  BY HubInit, HubStep, PTL DEF Spec

-----------------------------------------------------------------------------
(* The ledger.                                                             *)

\* An entry of the ledger, and that only the profile written changes its entry.
LEMMA LedgerEntries ==
    ASSUME Typed
    PROVE  \A n \in Names : Exists(n) =>
             /\ ledger[n] \in Shown /\ ledger[n] # None
             /\ ledger[n].manager = profile[n].manager
             /\ ledger[n].conditions = profile[n].status.conditions
             /\ ledger[n].facts = profile[n].status.facts
  <1>1. ASSUME NEW n \in Names, Exists(n)
        PROVE  ledger[n] \in Shown
    <2>1. profile[n] \in Profile /\ profile[n].status \in Status
      BY <1>1 DEF Typed, Exists, Profile
    <2> QED
      BY <1>1, <2>1 DEF ledger, Shown, Profile, Status
  <1> QED
    BY <1>1, NoneAssumption DEF ledger

LEMMA StoreShows ==
    ASSUME Typed, NEW n \in Names, NEW manager \in Managers, NEW status \in Status,
           Store(n, manager, status)
    PROVE  ledger' = [ledger EXCEPT ![n] = [manager    |-> manager,
                                            conditions |-> status.conditions,
                                            facts      |-> status.facts]]
  <1>1. PICK new : new = [rv |-> writes + 1, manager |-> manager, status |-> status]
    OBVIOUS
  <1>2. new \in Profile /\ new # None
    BY <1>1, NoneAssumption DEF Profile, Typed
  <1>3. profile' = [profile EXCEPT ![n] = new]
    BY <1>1 DEF Store
  <1>4. profile'[n] = new /\ \A m \in Names \ {n} : profile'[m] = profile[m]
    BY <1>3 DEF Typed
  <1>5. \A m \in Names \ {n} : ledger'[m] = ledger[m]
    BY <1>4 DEF ledger, Exists
  <1>6. ledger'[n] = [manager |-> manager, conditions |-> status.conditions,
                      facts |-> status.facts]
    BY <1>1, <1>2, <1>4 DEF ledger, Exists
  <1> QED
    BY <1>5, <1>6 DEF ledger

LEMMA NothingShown == ASSUME UNCHANGED profile PROVE UNCHANGED ledger
  BY DEF ledger, Exists

LEMMA LedgerInit == Init => Ledger!Init
  BY DEF Init, Ledger!Init, ledger, Exists

LEMMA CreateShows ==
    ASSUME Typed, NEW n \in Names, NEW manager \in Managers, NEW version,
           Create(n, manager, version)
    PROVE  Ledger!Next
  <1>1. BlankStatus \in Status
    BY DEF BlankStatus, Status, Conditions
  <1>2. ledger[n] = None
    BY DEF Create, ledger
  <1>3. ledger' = [ledger EXCEPT ![n] = [manager |-> manager,
                       conditions |-> [c \in Conditions |-> "absent"], facts |-> {}]]
    BY <1>1, StoreShows DEF Create, BlankStatus
  <1> QED
    BY <1>2, <1>3 DEF Ledger!Next, Ledger!Create

\* Seed and Report of the ledger, written as the entry that they make.
LEMMA LedgerSeeds ==
    ASSUME NEW n \in Names, NEW k \in Indexes, NEW entry \in Shown,
           entry = ledger[n], entry # None,
           ledger' = [ledger EXCEPT ![n] =
               [manager    |-> entry.manager,
                conditions |-> [entry.conditions EXCEPT !["ControlPlaneHealthy"] = "True",
                                                        !["Joined"] = "True"],
                facts      |-> {[by |-> entry.manager, index |-> k]}]]
    PROVE  Ledger!Seed(n, k)
  <1>1. DOMAIN ledger = Names
    BY DEF ledger
  <1> QED
    BY <1>1 DEF Ledger!Seed, Shown

LEMMA LedgerReports ==
    ASSUME NEW n \in Names, NEW c \in Conditions, NEW value, NEW entry \in Shown,
           entry = ledger[n], entry # None,
           ledger' = [ledger EXCEPT ![n] =
               [manager    |-> entry.manager,
                conditions |-> [entry.conditions EXCEPT ![c] = value],
                facts      |-> entry.facts]]
    PROVE  Ledger!Report(n, c, value)
  <1>1. DOMAIN ledger = Names
    BY DEF ledger
  <1> QED
    BY <1>1 DEF Ledger!Report, Shown

\* An entry that is written as it was has not changed.
LEMMA SameEntry ==
    ASSUME NEW n \in Names, NEW entry \in Shown, entry = ledger[n],
           ledger' = [ledger EXCEPT ![n] = [manager    |-> entry.manager,
                                            conditions |-> entry.conditions,
                                            facts      |-> entry.facts]]
    PROVE  UNCHANGED ledger
  <1>1. entry = [manager |-> entry.manager, conditions |-> entry.conditions,
                 facts |-> entry.facts]
    BY DEF Shown
  <1>2. DOMAIN ledger = Names /\ DOMAIN ledger' = Names
    BY DEF ledger
  <1>3. \A m \in Names : ledger'[m] = ledger[m]
    BY <1>1, <1>2
  <1> QED
    BY <1>2, <1>3 DEF ledger

\* What conformance-seed writes are the facts of the profile's own manager, and
\* the two conditions.
LEMMA SeedShows ==
    ASSUME HubInv, NEW s \in Seeders, SeedProfile(s)
    PROVE  Ledger!Next \/ UNCHANGED ledger
  <1> DEFINE object == [created[s] EXCEPT !.status = SeedStatus(s, @)]
  <1>1. CASE UpdateStatus(Target(s), object, "v1alpha2")
    <2>1. /\ Typed /\ i[s] \in Indexes
          /\ created[s] \in Profile /\ Seen(Target(s), created[s])
          /\ created[s].manager = Manager(s)
          /\ Target(s) \in Names /\ Manager(s) \in Managers
          /\ SeedStatus(s, created[s].status) \in Status
      BY SeedIsLatest DEF SeedProfile
    <2>2. PICK n \in Names, read \in Profile, k \in Indexes, m \in Managers :
             n = Target(s) /\ read = created[s] /\ k = i[s] /\ m = Manager(s)
      BY <2>1
    <2>3. PICK seen \in Status : seen = read.status
      BY DEF Profile
    <2>4. PICK status \in Status : status = SeedStatus(s, seen)
      BY <2>1, <2>2, <2>3
    <2>5. PICK pruned \in Status :
             /\ pruned = Prune(status, "v1alpha2")
             /\ pruned.conditions = status.conditions /\ pruned.facts = status.facts
      BY StatusTypes
    <2>6. object.status = status /\ object.rv = read.rv
      BY <2>2, <2>3, <2>4 DEF Profile
    <2>7. Exists(n) /\ profile[n].rv = read.rv /\ Store(n, profile[n].manager, pruned)
      BY <1>1, <2>2, <2>5, <2>6 DEF UpdateStatus, Latest
    <2>8. /\ profile[n].manager = m /\ profile[n].status.conditions = seen.conditions
          /\ profile[n].status.facts = seen.facts
      BY <2>1, <2>2, <2>3, <2>7 DEF Seen
    <2>9. PICK entry \in Shown :
             /\ entry = ledger[n] /\ entry # None
             /\ entry.manager = m /\ entry.conditions = seen.conditions
      BY <2>1, <2>7, <2>8, LedgerEntries
    <2>10. ledger' = [ledger EXCEPT ![n] = [manager |-> m, conditions |-> pruned.conditions,
                                            facts |-> pruned.facts]]
      BY <2>1, <2>7, <2>8, StoreShows
    <2>11. /\ pruned.facts = {[by |-> m, index |-> k]}
           /\ pruned.conditions = [entry.conditions EXCEPT !["ControlPlaneHealthy"] = "True",
                                                           !["Joined"] = "True"]
      <3>1. status = [conditions |-> [seen.conditions EXCEPT !["ControlPlaneHealthy"] = "True",
                                                            !["Joined"] = "True"],
                      facts      |-> {[by |-> m, index |-> k]},
                      credential |-> seen.credential]
        BY <2>2, <2>4, SeedStatusFields
      <3>2. /\ status.facts = {[by |-> m, index |-> k]}
            /\ status.conditions = [seen.conditions EXCEPT !["ControlPlaneHealthy"] = "True",
                                                           !["Joined"] = "True"]
        BY <3>1, Zenon
      <3> QED
        BY <2>5, <2>9, <3>2
    <2>12. ledger' = [ledger EXCEPT ![n] =
               [manager    |-> entry.manager,
                conditions |-> [entry.conditions EXCEPT !["ControlPlaneHealthy"] = "True",
                                                        !["Joined"] = "True"],
                facts      |-> {[by |-> entry.manager, index |-> k]}]]
      BY <2>9, <2>10, <2>11, Zenon
    <2>13. Ledger!Seed(n, k)
      BY <2>9, <2>12, LedgerSeeds
    <2> QED
      BY <2>13 DEF Ledger!Next
  <1>2. CASE UNCHANGED profile
    BY <1>2, NothingShown
  <1> QED
    BY <1>1, <1>2 DEF SeedProfile, server

\* An agent's report changes one condition of the profile, or its credentials.
LEMMA ReportShows ==
    ASSUME HubInv, NEW a \in Agents, AgentReports(a)
    PROVE  Ledger!Next \/ UNCHANGED ledger
  <1>1. PICK n \in Names, status \in Status, changed \in Status, stored \in Status :
             /\ Exists(n)
             /\ status.conditions = profile[n].status.conditions
             /\ status.facts = profile[n].status.facts
             /\ changed \in Changes(a, status)
             /\ stored.conditions = changed.conditions /\ stored.facts = changed.facts
             /\ profile[n].manager \in Managers
             /\ Store(n, profile[n].manager, stored)
    BY ReportIsLatest
  <1>2. PICK entry \in Shown :
             /\ entry = ledger[n] /\ entry # None
             /\ entry.manager = profile[n].manager
             /\ entry.conditions = status.conditions /\ entry.facts = status.facts
    BY <1>1, LedgerEntries DEF HubInv
  <1>3. ledger' = [ledger EXCEPT ![n] = [manager    |-> entry.manager,
                                         conditions |-> changed.conditions,
                                         facts      |-> changed.facts]]
    BY <1>1, <1>2, StoreShows DEF HubInv
  <1>4. \/ changed = [status EXCEPT !.credential = TRUE]
        \/ \E c \in Conditions, value \in {"True", "False"} :
               changed = [status EXCEPT !.conditions[c] = value]
    BY <1>1 DEF Changes, Conditions
  <1>5. CASE changed = [status EXCEPT !.credential = TRUE]
    <2>1. changed.conditions = entry.conditions /\ changed.facts = entry.facts
      BY <1>2, <1>5 DEF Status
    <2>2. UNCHANGED ledger
      BY <1>2, <1>3, <2>1, SameEntry
    <2> QED
      BY <2>2
  <1>6. ASSUME NEW c \in Conditions, NEW value \in {"True", "False"},
               changed = [status EXCEPT !.conditions[c] = value]
        PROVE  Ledger!Next
    <2>1. /\ changed.conditions = [entry.conditions EXCEPT ![c] = value]
          /\ changed.facts = entry.facts
      BY <1>2, <1>6 DEF Status
    <2>2. Ledger!Report(n, c, value)
      BY <1>2, <1>3, <2>1, LedgerReports
    <2> QED
      BY <2>2 DEF Ledger!Next
  <1> QED
    BY <1>4, <1>5, <1>6

\* An update of the resource itself does not show.
LEMMA UpdateShows ==
    ASSUME HubInv, NEW a \in Agents, AgentUpdates(a)
    PROVE  UNCHANGED ledger
  <1>1. PICK n \in Names, status \in Status :
             /\ Exists(n)
             /\ status.conditions = profile[n].status.conditions
             /\ status.facts = profile[n].status.facts
             /\ profile[n].manager \in Managers
             /\ Store(n, profile[n].manager, status)
    BY UpdateIsLatest
  <1>2. PICK entry \in Shown :
             /\ entry = ledger[n]
             /\ entry.manager = profile[n].manager
             /\ entry.conditions = status.conditions /\ entry.facts = status.facts
    BY <1>1, LedgerEntries DEF HubInv
  <1>3. ledger' = [ledger EXCEPT ![n] = [manager    |-> entry.manager,
                                         conditions |-> entry.conditions,
                                         facts      |-> entry.facts]]
    BY <1>1, <1>2, StoreShows DEF HubInv
  <1> QED
    BY <1>2, <1>3, SameEntry

LEMMA DeletionShows ==
    ASSUME HubInv, NEW n \in Names, AgentDeletes(n)
    PROVE  Ledger!Next
  <1>1. ledger[n] # None
    BY LedgerEntries DEF HubInv, AgentDeletes
  <1>2. profile' = [profile EXCEPT ![n] = None] /\ Typed
    BY DEF HubInv, AgentDeletes
  <1>3. ledger'[n] = None /\ \A m \in Names \ {n} : ledger'[m] = ledger[m]
    BY <1>2 DEF ledger, Exists, Typed
  <1>4. ledger' = [ledger EXCEPT ![n] = None]
    BY <1>3 DEF ledger
  <1> QED
    BY <1>1, <1>4 DEF Ledger!Next, Ledger!Delete

LEMMA LedgerStep == HubInv /\ [Next]_vars => [Ledger!Next]_ledger
  <1> SUFFICES ASSUME HubInv, [Next]_vars
               PROVE  Ledger!Next \/ UNCHANGED ledger
    OBVIOUS
  <1>1. ASSUME NEW s \in Seeders, CreateProfile(s)
        PROVE  Ledger!Next \/ UNCHANGED ledger
    <2>1. Typed /\ (InLoop(s) => i[s] \in 1..flags[s].clusters)
      BY <1>1 DEF HubInv, Typed, SeederInv, InTurn, CreateProfile, InLoop
    <2>2. CASE Create(Target(s), Manager(s), "v1alpha2")
      <3>1. Target(s) \in Names /\ Manager(s) \in Managers
        BY <1>1, <2>1, TargetIsName DEF CreateProfile
      <3> QED
        BY <2>1, <2>2, <3>1, CreateShows
    <2>3. CASE UNCHANGED server
      BY <2>3, NothingShown DEF server
    <2> QED
      BY <1>1, <2>2, <2>3 DEF CreateProfile
  <1>2. ASSUME NEW s \in Seeders,
               Start(s) \/ CreateNamespace(s) \/ GetProfile(s) \/ Finish(s) \/ Die(s)
        PROVE  UNCHANGED ledger
    BY <1>2, NothingShown DEF Start, CreateNamespace, GetProfile, Finish, Die, server
  <1>3. ASSUME NEW a \in Agents, NEW n \in Names, AgentCreate(a, n)
        PROVE  Ledger!Next
    BY <1>3, CreateShows, HubAssumption DEF AgentCreate, HubInv
  <1>4. ASSUME NEW a \in Agents, NEW n \in Names, AgentRead(a, n)
        PROVE  UNCHANGED ledger
    BY <1>4, NothingShown DEF AgentRead, server
  <1>5. CASE UNCHANGED vars
    BY <1>5, NothingShown DEF vars, server
  <1> QED
    BY <1>1, <1>2, <1>3, <1>4, <1>5, SeedShows, ReportShows, UpdateShows, DeletionShows
       DEF Next

\* For any number of seeders, agents, managers and profiles, the hub keeps
\* ProfileLedger's promise: conformance-seed writes only to profiles of the
\* manager it was given, and no report of what both versions show is undone by
\* a write that rests on an older read.
THEOREM HubKeepsLedger == Spec => KeepsLedger
  <1> QED
    BY LedgerInit, HubAlways, LedgerStep, PTL DEF Spec, KeepsLedger, Ledger!Spec

-----------------------------------------------------------------------------
(* Names.                                                                  *)

\* A set of natural numbers that is not empty has a least element, and a
\* greatest one if it is bounded.
LEMMA LeastNatural ==
    ASSUME NEW S \in SUBSET Nat, S # {}
    PROVE  Min(S) \in S /\ \A k \in S : Min(S) <= k
  <1> DEFINE less == OpToRel(<, Nat)
  <1>1. IsWellFoundedOn(less, Nat)
    BY NatLessThanWellFounded
  <1>2. \A x, y \in Nat : <<y, x>> \in less <=> y < x
    BY DEF OpToRel
  <1> HIDE DEF less
  <1>3. PICK x \in S : \A y \in S : ~(<<y, x>> \in less)
    BY <1>1, WFMin
  <1>4. \A y \in S : x <= y
    <2> TAKE y \in S
    <2>1. x \in Nat /\ y \in Nat /\ ~(y < x)
      BY <1>2, <1>3
    <2> QED
      BY <2>1
  <1> QED
    BY <1>4 DEF Min

LEMMA GreatestNatural ==
    ASSUME NEW S \in SUBSET Nat, S # {}, NEW n \in Nat, \A k \in S : k <= n
    PROVE  Max(S) \in S /\ \A k \in S : k <= Max(S)
  <1> DEFINE T == {n - k : k \in S}
  <1>1. T \in SUBSET Nat /\ T # {}
    <2>1. \A k \in S : n - k \in Nat
      OBVIOUS
    <2> QED
      BY <2>1
  <1>2. PICK t \in T : \A u \in T : t <= u
    BY <1>1, LeastNatural
  <1>3. PICK x \in S : t = n - x
    BY <1>2
  <1>4. \A k \in S : k <= x
    <2> TAKE k \in S
    <2>1. t <= n - k
      BY <1>2
    <2> QED
      BY <1>3, <2>1
  <1> HIDE DEF T
  <1>5. \A k \in S : x >= k
    BY <1>4
  <1> QED
    BY <1>5 DEF Max

\* What is left of a string without the dashes at its ends: nothing, or a part
\* that begins with something else.
LEMMA TrimmedStart ==
    ASSUME NEW S, NEW s \in Seq(S)
    PROVE  \/ Trim(s) = << >>
           \/ /\ Trim(s) \in Seq(S) /\ Len(Trim(s)) \in 1..Len(s)
              /\ Trim(s)[1] # "-"
  <1> DEFINE kept == {k \in DOMAIN s : s[k] # "-"}
  <1>1. CASE kept = {}
    BY <1>1 DEF Trim
  <1>2. CASE kept # {}
    <2>1. kept \in SUBSET Nat /\ Len(s) \in Nat /\ \A k \in kept : k <= Len(s)
      OBVIOUS
    <2>2. PICK m, n : m = Min(kept) /\ n = Max(kept)
      OBVIOUS
    <2>3. m \in kept /\ \A k \in kept : m <= k
      BY <1>2, <2>1, <2>2, LeastNatural
    <2>4. n \in kept /\ \A k \in kept : k <= n
      BY <1>2, <2>1, <2>2, GreatestNatural
    <2>5. m \in 1..Len(s) /\ n \in 1..Len(s) /\ m <= n /\ s[m] # "-"
      BY <2>1, <2>3, <2>4
    <2>6. Trim(s) = SubSeq(s, m, n)
      BY <1>2, <2>2 DEF Trim
    <2> HIDE DEF kept
    <2>7. \A k \in m..n : s[k] \in S
      BY <2>5
    <2>8. /\ SubSeq(s, m, n) \in Seq(S) /\ Len(SubSeq(s, m, n)) = n - m + 1
          /\ SubSeq(s, m, n)[1] = s[m]
      BY <2>5, <2>7, SubSeqProperties
    <2> QED
      BY <2>5, <2>6, <2>8
  <1> QED
    BY <1>1, <1>2

\* Whatever its manager is called, the server takes the name of a profile that
\* conformance-seed makes of it.
LEMMA NamesAreTaken ==
    ASSUME NEW m \in Managers, NEW k \in Indexes
    PROVE  ObjectName(Name[m][k])
  <1> DEFINE mapped == [j \in DOMAIN m |-> Mapped(m[j])]
             cut == SubSeq(mapped, 1, Min({Limit, Len(mapped)}))
             Runes == Lowercase \cup {"-"}
  <1>1. m \in Seq(Chars) /\ Limit \in Nat /\ LabelLimit \in Nat /\ SuffixLen \in Nat
        /\ Limit + SuffixLen <= LabelLimit
    BY HubAssumption
  <1>2. DOMAIN m = 1..Len(m) /\ Len(m) \in Nat
    BY <1>1
  <1>3. \A j \in DOMAIN m : Mapped(m[j]) \in Runes
    BY DEF Mapped
  <1>4. mapped \in Seq(Runes) /\ Len(mapped) = Len(m)
    BY <1>2, <1>3
  <1>5. PICK n \in Nat : n = Min({Limit, Len(mapped)}) /\ n <= Limit /\ n <= Len(mapped)
    BY <1>1, <1>2, <1>4, LeastNatural
  <1>6. cut \in Seq(Runes) /\ Len(cut) <= Limit
    <2> HIDE DEF mapped, Runes
    <2>1. \A j \in 1..n : mapped[j] \in Runes
      BY <1>4, <1>5
    <2>2. /\ SubSeq(mapped, 1, n) \in Seq(Runes)
          /\ Len(SubSeq(mapped, 1, n)) = IF 1 <= n THEN n - 1 + 1 ELSE 0
      BY <2>1, SubSeqProperties
    <2>3. Len(SubSeq(mapped, 1, n)) <= n /\ Len(SubSeq(mapped, 1, n)) \in Nat
      BY <2>2
    <2>4. cut = SubSeq(mapped, 1, n)
      BY <1>5
    <2> HIDE DEF cut
    <2>5. cut \in Seq(Runes) /\ Len(cut) <= n /\ Len(cut) \in Nat
      BY <2>2, <2>3, <2>4
    <2> QED
      BY <1>1, <1>5, <2>5
  <1>7. objectNamePrefix(m) = IF Trim(cut) = << >> THEN <<"cluster-manager">> ELSE Trim(cut)
    BY DEF objectNamePrefix
  <1>8. Name[m][k].prefix = objectNamePrefix(m)
    BY DEF Name
  <1> HIDE DEF cut, mapped
  <1>9. CASE Trim(cut) = << >>
    BY <1>7, <1>8, <1>9 DEF ObjectName
  <1>10. CASE Trim(cut) # << >>
    <2>1. Trim(cut) \in Seq(Runes) /\ Len(Trim(cut)) \in 1..Len(cut) /\ Trim(cut)[1] # "-"
      BY <1>6, <1>10, TrimmedStart
    <2>2. Trim(cut)[1] \in Runes /\ \A j \in DOMAIN Trim(cut) : Trim(cut)[j] \in Runes
      BY <2>1
    <2>3. Len(Trim(cut)) + SuffixLen <= LabelLimit
      BY <1>1, <1>6, <2>1
    <2> QED
      BY <1>7, <1>8, <1>10, <2>1, <2>2, <2>3 DEF ObjectName
  <1> QED
    BY <1>9, <1>10

-----------------------------------------------------------------------------
(* Runs of conformance-seed.                                               *)

\* How far a run has come.
Progress(s) ==
    /\ pc[s] = "idle" => seeded[s] = {}
    /\ pc[s] \in {"namespace", "loop", "get", "update"} =>
          i[s] \in 1..(flags[s].clusters + 1) /\ seeded[s] = 1..(i[s] - 1)
    /\ pc[s] = "done" => seeded[s] = 1..flags[s].clusters
    /\ seeded[s] \subseteq 1..flags[s].clusters

\* The profile of turn k, as conformance-seed leaves it.
IsSeeded(s, k) ==
    LET p == profile[Name[Manager(s)][k]]
    IN  /\ p # None /\ p.status.facts = {[by |-> Manager(s), index |-> k]}
        /\ \A c \in {"ControlPlaneHealthy", "Joined"} : p.status.conditions[c] = "True"

IsOurs(s, k) ==
    Exists(Name[Manager(s)][k]) => profile[Name[Manager(s)][k]].manager = Manager(s)

\* Where an undisturbed run is, its next call succeeds.
NothingInTheWay(s) ==
    /\ pc[s] \in {"loop", "get", "update"} => namespace
    /\ pc[s] \in {"namespace", "loop", "get", "update"} =>
          \A k \in 1..flags[s].clusters : IsOurs(s, k)
    /\ pc[s] = "get" => Exists(Target(s))
    /\ pc[s] = "update" => Latest(Target(s), created[s])
    /\ pc[s] = "failed" => flags[s].clusters < 0

RunTyped ==
    /\ seeded \in [Seeders -> SUBSET Indexes]
    /\ alone \in [Seeders -> BOOLEAN] /\ namespace \in BOOLEAN

RunInv(s) ==
    /\ Progress(s)
    /\ alone[s] => \A k \in seeded[s] : IsSeeded(s, k)
    /\ (alone[s] /\ LabelValue(Manager(s))) => NothingInTheWay(s)

RunsInv == HubInv /\ RunTyped /\ \A s \in Seeders : RunInv(s)

LEMMA RunsInit == Init => RunsInv
  <1> SUFFICES ASSUME Init PROVE RunsInv
    OBVIOUS
  <1>1. RunTyped
    BY DEF Init, RunTyped
  <1>2. \A s \in Seeders : RunInv(s)
    BY DEF Init, RunInv, Progress
  <1> QED
    BY <1>1, <1>2, HubInit DEF RunsInv

\* A run has a name for each of its turns, and no two turns share one.
LEMMA TurnNames ==
    ASSUME Typed, NEW s \in Seeders, NEW k \in 1..flags[s].clusters
    PROVE  /\ k \in Indexes /\ Manager(s) \in Managers /\ Name[Manager(s)][k] \in Names
           /\ \A j \in Indexes : Name[Manager(s)][j] = Name[Manager(s)][k] => j = k
  <1>1. k \in Indexes
    BY DEF Typed, Indexes, Clusters
  <1>2. Manager(s) \in Managers
    BY DEF Typed, Manager
  <1>3. \A j \in Indexes : Name[Manager(s)][j].index = j
    BY <1>2 DEF Name
  <1> QED
    BY <1>1, <1>2, <1>3 DEF Names

\* A step of somebody else leaves a run what it was, or disturbs it.
LEMMA RunKeeps ==
    ASSUME RunsInv, NEW s \in Seeders, UNCHANGED flags, namespace => namespace',
           pc'[s] = pc[s], i'[s] = i[s], created'[s] = created[s], seeded'[s] = seeded[s],
           alone'[s] => alone[s] /\ UNCHANGED profile
    PROVE  RunInv(s)'
  <1>1. Manager(s)' = Manager(s) /\ Target(s)' = Target(s)
    BY DEF Manager, Target
  <1>2. Progress(s)'
    BY DEF RunsInv, RunInv, Progress
  <1>3. CASE UNCHANGED profile /\ alone[s]
    <2>1. \A k : IsSeeded(s, k) => IsSeeded(s, k)'
      BY <1>1, <1>3 DEF IsSeeded
    <2>2. \A k : IsOurs(s, k) => IsOurs(s, k)'
      BY <1>1, <1>3 DEF IsOurs, Exists
    <2>3. LabelValue(Manager(s))' => LabelValue(Manager(s))
      BY <1>1 DEF LabelValue
    <2>4. NothingInTheWay(s) => NothingInTheWay(s)'
      BY <1>1, <1>3, <2>2 DEF NothingInTheWay, Exists, Latest
    <2> QED
      BY <1>2, <1>3, <2>1, <2>3, <2>4 DEF RunsInv, RunInv
  <1>4. CASE ~alone'[s]
    BY <1>2, <1>4 DEF RunInv
  <1> QED
    BY <1>3, <1>4

\* A step of seeder s.
LEMMA RunMoves ==
    ASSUME RunsInv, NEW s \in Seeders, UNCHANGED flags, namespace => namespace',
           \A v \in Seeders \ {s} :
               /\ pc'[v] = pc[v] /\ i'[v] = i[v] /\ created'[v] = created[v]
               /\ seeded'[v] = seeded[v] /\ (alone'[v] => alone[v] /\ UNCHANGED profile),
           HubInv', RunTyped', RunInv(s)'
    PROVE  RunsInv'
  <1>1. \A v \in Seeders : RunInv(v)'
    BY RunKeeps
  <1> QED
    BY <1>1 DEF RunsInv

LEMMA StartRuns ==
    ASSUME RunsInv, HubInv', NEW s \in Seeders, Start(s)
    PROVE  RunsInv'
  <1>1. /\ UNCHANGED <<profile, namespace, flags, created>>
        /\ Manager(s)' = Manager(s) /\ Target(s)' = Name[Manager(s)][i'[s]]
        /\ i'[s] = 1 /\ seeded'[s] = {} /\ Typed /\ RunTyped
        /\ pc'[s] = IF flags[s].clusters < 0 THEN "failed" ELSE "namespace"
        /\ flags[s].clusters \in Int
    BY DEF Start, RunsInv, HubInv, Typed, RunTyped, Goto, server, Manager, Target
  <1>2. Progress(s)'
    BY <1>1 DEF Progress
  <1>3. ASSUME alone'[s], NEW k \in 1..flags[s].clusters
        PROVE  IsOurs(s, k)'
    <2>1. Name[Manager(s)][k] \in Names
      BY <1>1, TurnNames
    <2>2. Exists(Name[Manager(s)][k]) => profile[Name[Manager(s)][k]].manager = Manager(s)
      BY <1>1, <1>3, <2>1 DEF Start, RunTyped
    <2> QED
      BY <1>1, <2>2 DEF IsOurs, Exists
  <1>4. RunInv(s)'
    BY <1>1, <1>2, <1>3 DEF RunInv, NothingInTheWay
  <1>5. RunTyped'
    BY <1>1 DEF RunTyped, Start
  <1>6. \A v \in Seeders \ {s} :
            /\ pc'[v] = pc[v] /\ i'[v] = i[v] /\ created'[v] = created[v]
            /\ seeded'[v] = seeded[v] /\ alone'[v] = alone[v]
    BY <1>1 DEF Typed, RunTyped, Start, Goto
  <1> QED
    BY <1>1, <1>4, <1>5, <1>6, RunMoves

LEMMA QuietRuns ==
    ASSUME RunsInv, HubInv', NEW s \in Seeders, CreateNamespace(s) \/ Finish(s) \/ Die(s)
    PROVE  RunsInv'
  <1>1. /\ UNCHANGED <<profile, flags, i, seeded>>
        /\ Typed /\ RunTyped /\ RunInv(s) /\ flags[s].clusters \in Int /\ i[s] \in Nat
    BY DEF CreateNamespace, Finish, Die, RunsInv, HubInv, Typed, server
  <1>u. profile' = profile /\ Manager(s)' = Manager(s)
    BY <1>1 DEF Manager
  <1>n. namespace => namespace'
    BY DEF CreateNamespace, Finish, Die, server
  <1>2. \A k : IsSeeded(s, k) => IsSeeded(s, k)'
    BY <1>u DEF IsSeeded
  <1>3. \A k : IsOurs(s, k) => IsOurs(s, k)'
    BY <1>u DEF IsOurs, Exists
  <1>4. LabelValue(Manager(s))' => LabelValue(Manager(s))
    BY <1>u DEF LabelValue
  <1>5. Progress(s)'
    <2>1. Progress(s) /\ pc \in [Seeders -> {"idle", "namespace", "loop", "get", "update",
                                             "done", "failed"}]
      BY <1>1 DEF RunInv, Typed
    <2>2. CASE CreateNamespace(s)
      BY <1>1, <2>1, <2>2 DEF CreateNamespace, Goto, Progress
    <2>3. CASE Finish(s)
      <3>1. i[s] = flags[s].clusters + 1 /\ seeded[s] = 1..(i[s] - 1)
        BY <1>1, <2>1, <2>3 DEF Finish, InLoop, Progress
      <3>2. pc'[s] = "done" /\ seeded'[s] = 1..flags'[s].clusters
        BY <1>1, <2>1, <2>3, <3>1 DEF Finish, Goto
      <3> QED
        BY <3>2 DEF Progress
    <2>4. CASE Die(s)
      BY <1>1, <2>1, <2>4 DEF Die, Goto, Progress
    <2> QED
      BY <2>2, <2>3, <2>4
  <1>6. (alone'[s] /\ LabelValue(Manager(s))') => NothingInTheWay(s)'
    <2>1. CASE CreateNamespace(s)
      <3>1. pc[s] = "namespace" /\ pc'[s] = "loop" /\ namespace' /\ UNCHANGED alone
        BY <1>1, <2>1 DEF CreateNamespace, Goto, Typed
      <3>2. ASSUME alone[s], LabelValue(Manager(s)), NEW k \in 1..flags[s].clusters
            PROVE  IsOurs(s, k)'
        BY <1>1, <1>3, <3>1, <3>2 DEF RunInv, NothingInTheWay
      <3>3. ASSUME alone[s], LabelValue(Manager(s))
            PROVE  \A k \in 1..flags'[s].clusters : IsOurs(s, k)'
        BY <1>1, <3>2, <3>3
      <3> QED
        BY <1>4, <3>1, <3>3 DEF NothingInTheWay
    <2>2. CASE Finish(s)
      BY <1>1, <2>2 DEF Finish, Goto, Typed, NothingInTheWay
    <2>3. CASE Die(s)
      BY <1>1, <2>3 DEF Die, Disturb
    <2> QED
      BY <2>1, <2>2, <2>3
  <1>7. alone'[s] => alone[s]
    BY <1>1 DEF CreateNamespace, Finish, Die, Disturb
  <1>8. RunInv(s)'
    <2>1. ASSUME alone'[s], NEW k \in seeded'[s]
          PROVE  IsSeeded(s, k)'
      BY <1>1, <1>2, <1>7, <2>1 DEF RunInv
    <2> QED
      BY <1>5, <1>6, <2>1 DEF RunInv
  <1>9. RunTyped'
    BY <1>1 DEF RunTyped, CreateNamespace, Finish, Die, Disturb, server
  <1>10. \A v \in Seeders \ {s} :
            /\ pc'[v] = pc[v] /\ i'[v] = i[v] /\ created'[v] = created[v]
            /\ seeded'[v] = seeded[v] /\ (alone'[v] => alone[v])
    BY <1>1 DEF Typed, RunTyped, CreateNamespace, Finish, Die, Disturb, Goto
  <1> QED
    BY <1>1, <1>u, <1>n, <1>8, <1>9, <1>10, RunMoves

\* While a run is undisturbed, other turns' profiles stay when it writes its own.
LEMMA OwnWrite ==
    ASSUME Typed, NEW s \in Seeders, i[s] \in 1..flags[s].clusters, UNCHANGED flags,
           NEW new, profile' = [profile EXCEPT ![Target(s)] = new]
    PROVE  /\ Manager(s)' = Manager(s)
           /\ profile'[Target(s)] = new
           /\ \A k \in 1..flags[s].clusters : k # i[s] =>
                 /\ IsSeeded(s, k) => IsSeeded(s, k)'
                 /\ IsOurs(s, k) => IsOurs(s, k)'
  <1>1. Target(s) \in Names /\ i[s] \in Indexes
    BY TargetIsName
  <1>2. Manager(s)' = Manager(s)
    BY DEF Manager
  <1>3. profile'[Target(s)] = new
    BY <1>1 DEF Typed
  <1>4. ASSUME NEW k \in 1..flags[s].clusters, k # i[s]
        PROVE  profile'[Name[Manager(s)][k]] = profile[Name[Manager(s)][k]]
    <2>1. Name[Manager(s)][k] \in Names /\ Name[Manager(s)][k] # Target(s)
      BY <1>1, <1>4, TurnNames DEF Target
    <2> QED
      BY <2>1 DEF Typed
  <1>5. ASSUME NEW k \in 1..flags[s].clusters, k # i[s], IsSeeded(s, k)
        PROVE  IsSeeded(s, k)'
    BY <1>2, <1>4, <1>5 DEF IsSeeded
  <1>6. ASSUME NEW k \in 1..flags[s].clusters, k # i[s], IsOurs(s, k)
        PROVE  IsOurs(s, k)'
    BY <1>2, <1>4, <1>6 DEF IsOurs, Exists
  <1> QED
    BY <1>2, <1>3, <1>5, <1>6

LEMMA CreateProfileRuns ==
    ASSUME RunsInv, HubInv', NEW s \in Seeders, CreateProfile(s)
    PROVE  RunsInv'
  <1>1. /\ Typed /\ RunTyped /\ RunInv(s) /\ i[s] \in 1..flags[s].clusters /\ i[s] \in Nat
        /\ pc[s] = "loop" /\ flags[s].clusters \in Int
        /\ UNCHANGED <<flags, i, runs, seeded, copy, namespace>>
    BY DEF RunsInv, HubInv, Typed, SeederInv, InTurn, CreateProfile, InLoop, Create, Store, server
  <1>2. Target(s) \in Names /\ i[s] \in Indexes /\ Manager(s) \in Managers
    BY <1>1, TargetIsName
  <1>3. Manager(s)' = Manager(s) /\ Target(s)' = Target(s)
    BY <1>1 DEF Manager, Target
  <1>4. seeded[s] = 1..(i[s] - 1)
    BY <1>1 DEF RunInv, Progress
  <1>5. LabelValue(Manager(s))' => LabelValue(Manager(s))
    BY <1>3 DEF LabelValue
  <1>6. CASE /\ Create(Target(s), Manager(s), "v1alpha2")
             /\ created' = [created EXCEPT ![s] = profile'[Target(s)]]
             /\ Goto(s, "update") /\ Disturb(Seeders \ {s})
    <2>1. PICK new : /\ new = [rv |-> writes + 1, manager |-> Manager(s), status |-> BlankStatus]
                     /\ profile' = [profile EXCEPT ![Target(s)] = new]
      BY <1>6 DEF Create, Store
    <2>2. /\ profile'[Target(s)] = new
          /\ \A k \in 1..flags[s].clusters : k # i[s] =>
                /\ IsSeeded(s, k) => IsSeeded(s, k)'
                /\ IsOurs(s, k) => IsOurs(s, k)'
      BY <1>1, <2>1, OwnWrite
    <2>3. /\ pc'[s] = "update" /\ created'[s] = new /\ alone'[s] = alone[s]
          /\ \A v \in Seeders \ {s} : ~alone'[v]
      BY <1>1, <1>6, <2>2 DEF Typed, RunTyped, Goto, Disturb
    <2>4. Progress(s)'
      BY <1>1, <2>3 DEF RunInv, Progress
    <2>5. ASSUME alone[s], NEW k \in seeded[s]
          PROVE  IsSeeded(s, k)'
      BY <1>1, <1>4, <2>2, <2>5 DEF RunInv
    <2>6. ASSUME alone[s], LabelValue(Manager(s))
          PROVE  NothingInTheWay(s)'
      <3>1. namespace'
        BY <1>1, <2>6 DEF RunInv, NothingInTheWay
      <3>2. Latest(Target(s), created[s])'
        <4>1. new # None
          <5>1. BlankStatus \in Status /\ writes + 1 \in Nat
            BY <1>1 DEF BlankStatus, Status, Conditions, Typed
          <5>2. new \in Profile
            BY <1>2, <2>1, <5>1 DEF Profile
          <5> QED
            BY <5>2, NoneAssumption
        <4> QED
          BY <1>3, <2>2, <2>3, <4>1 DEF Latest, Exists
      <3>3. ASSUME NEW k \in 1..flags[s].clusters
            PROVE  IsOurs(s, k)'
        <4>1. CASE k = i[s]
          BY <1>3, <2>1, <2>2, <4>1 DEF IsOurs, Target
        <4>2. CASE k # i[s]
          BY <1>1, <2>2, <2>6, <4>2 DEF RunInv, NothingInTheWay
        <4> QED
          BY <4>1, <4>2
      <3> QED
        BY <1>1, <2>3, <3>1, <3>2, <3>3 DEF NothingInTheWay
    <2>7. RunInv(s)'
      BY <1>1, <1>5, <2>3, <2>4, <2>5, <2>6 DEF RunInv
    <2>8. RunTyped'
      BY <1>1, <1>6 DEF RunTyped, Disturb
    <2>9. \A v \in Seeders \ {s} : pc'[v] = pc[v] /\ created'[v] = created[v]
      BY <1>1, <1>6 DEF Typed, Goto
    <2> QED
      BY <1>1, <2>3, <2>7, <2>8, <2>9, RunMoves
  <1>7. CASE /\ UNCHANGED <<profile, created, alone>>
             /\ \/ Exists(Target(s)) /\ Goto(s, "get")
                \/ /\ ~(AdmitsManager(Manager(s), "v1alpha2") /\ ObjectName(Target(s)))
                   /\ Goto(s, "failed")
    <2>1. ObjectName(Target(s))
      BY <1>2, NamesAreTaken DEF Target
    <2>2. \A k : IsSeeded(s, k) => IsSeeded(s, k)'
      BY <1>1, <1>3, <1>7 DEF IsSeeded
    <2>3. \A k : IsOurs(s, k) => IsOurs(s, k)'
      BY <1>1, <1>3, <1>7 DEF IsOurs, Exists
    <2>4. Progress(s)'
      BY <1>1, <1>7 DEF Typed, RunInv, Progress, Goto
    <2>5. ASSUME alone[s], LabelValue(Manager(s))
          PROVE  NothingInTheWay(s)'
      <3>1. pc'[s] = "get" /\ Exists(Target(s))
        BY <1>1, <1>7, <2>1, <2>5 DEF AdmitsManager, Goto, Typed
      <3>2. namespace' /\ \A k \in 1..flags[s].clusters : IsOurs(s, k)'
        BY <1>1, <2>3, <2>5 DEF RunInv, NothingInTheWay
      <3> QED
        BY <1>1, <1>3, <1>7, <3>1, <3>2 DEF NothingInTheWay, Exists
    <2>6. RunInv(s)'
      BY <1>1, <1>5, <1>7, <2>2, <2>4, <2>5 DEF RunInv
    <2>7. RunTyped'
      BY <1>1, <1>7 DEF RunTyped
    <2>8. \A v \in Seeders \ {s} : pc'[v] = pc[v]
      BY <1>1, <1>7 DEF Typed, Goto
    <2> QED
      BY <1>1, <1>7, <2>6, <2>7, <2>8, RunMoves
  <1> QED
    BY <1>6, <1>7 DEF CreateProfile, server

LEMMA GetProfileRuns ==
    ASSUME RunsInv, HubInv', NEW s \in Seeders, GetProfile(s)
    PROVE  RunsInv'
  <1>1. /\ Typed /\ RunTyped /\ RunInv(s) /\ i[s] \in 1..flags[s].clusters
        /\ pc[s] = "get" /\ UNCHANGED <<profile, namespace, flags, i, seeded, alone>>
    BY DEF RunsInv, HubInv, SeederInv, InTurn, GetProfile, server
  <1>2. profile' = profile /\ Manager(s)' = Manager(s) /\ Target(s)' = Target(s)
    BY <1>1 DEF Manager, Target
  <1>3. Target(s) \in Names
    BY <1>1, TargetIsName
  <1>4. \A k : IsSeeded(s, k) => IsSeeded(s, k)'
    BY <1>2 DEF IsSeeded
  <1>5. \A k : IsOurs(s, k) => IsOurs(s, k)'
    BY <1>2 DEF IsOurs, Exists
  <1>6. LabelValue(Manager(s))' => LabelValue(Manager(s))
    BY <1>2 DEF LabelValue
  <1>7. Progress(s)'
    BY <1>1 DEF Typed, RunInv, Progress, GetProfile, Goto
  <1>8. ASSUME alone[s], LabelValue(Manager(s))
        PROVE  NothingInTheWay(s)'
    <2>1. /\ namespace /\ Exists(Target(s))
          /\ \A k \in 1..flags[s].clusters : IsOurs(s, k)
      BY <1>1, <1>8 DEF RunInv, NothingInTheWay
    <2>2. Reusable(s, profile[Target(s)])
      BY <1>1, <2>1 DEF IsOurs, Target, Reusable
    <2>3. /\ pc'[s] = "update"
          /\ created'[s] = [profile[Target(s)] EXCEPT !.status = Prune(@, "v1alpha2")]
      BY <1>1, <2>1, <2>2 DEF GetProfile, Goto, Typed, Object
    <2>4. profile[Target(s)] \in Profile
      BY <1>1, <1>3, <2>1 DEF Typed, Exists
    <2>5. created'[s].rv = profile[Target(s)].rv
      BY <2>3, <2>4 DEF Profile
    <2>6. Latest(Target(s), created[s])'
      BY <1>2, <2>1, <2>5 DEF Latest, Exists
    <2>7. namespace' /\ \A k \in 1..flags'[s].clusters : IsOurs(s, k)'
      BY <1>1, <1>5, <2>1
    <2> QED
      BY <2>3, <2>6, <2>7 DEF NothingInTheWay
  <1>9. RunInv(s)'
    <2>1. ASSUME alone'[s], NEW k \in seeded'[s]
          PROVE  IsSeeded(s, k)'
      BY <1>1, <1>4, <2>1 DEF RunInv
    <2>2. alone'[s] => alone[s]
      BY <1>1
    <2> QED
      BY <1>6, <1>7, <1>8, <2>1, <2>2 DEF RunInv
  <1>10. RunTyped'
    BY <1>1 DEF RunTyped
  <1>11. \A v \in Seeders \ {s} : pc'[v] = pc[v] /\ created'[v] = created[v]
    BY <1>1 DEF Typed, GetProfile, Goto
  <1> QED
    BY <1>1, <1>2, <1>9, <1>10, <1>11, RunMoves

\* What SeedProfile writes, if the server takes it.
LEMMA SeedWrites ==
    ASSUME HubInv, NEW s \in Seeders, SeedProfile(s), pc'[s] = "loop"
    PROVE  \E new \in Profile :
             /\ profile' = [profile EXCEPT ![Target(s)] = new]
             /\ new.manager = profile[Target(s)].manager
             /\ new.status.facts = {[by |-> Manager(s), index |-> i[s]]}
             /\ \A c \in {"ControlPlaneHealthy", "Joined"} : new.status.conditions[c] = "True"
             /\ Exists(Target(s))
             /\ seeded' = [seeded EXCEPT ![s] = @ \cup {i[s]}]
             /\ i' = [i EXCEPT ![s] = @ + 1]
             /\ Disturb(Seeders \ {s}) /\ UNCHANGED namespace
  <1>1. /\ Typed /\ i[s] \in Indexes
        /\ created[s] \in Profile /\ Target(s) \in Names
        /\ SeedStatus(s, created[s].status) \in Status
    BY SeedIsLatest DEF SeedProfile
  <1> DEFINE object == [created[s] EXCEPT !.status = SeedStatus(s, @)]
  <1>2. /\ UpdateStatus(Target(s), object, "v1alpha2")
        /\ seeded' = [seeded EXCEPT ![s] = @ \cup {i[s]}]
        /\ i' = [i EXCEPT ![s] = @ + 1] /\ Disturb(Seeders \ {s})
    BY <1>1 DEF SeedProfile, Goto, Typed
  <1>3. PICK n \in Names, seen \in Status, status \in Status, pruned \in Status :
           /\ n = Target(s) /\ seen = created[s].status /\ status = SeedStatus(s, seen)
           /\ pruned = Prune(status, "v1alpha2")
           /\ pruned.conditions = status.conditions /\ pruned.facts = status.facts
    BY <1>1, StatusTypes DEF Profile
  <1>4. object.status = status
    BY <1>1, <1>3 DEF Profile
  <1>5. Exists(n) /\ Store(n, profile[n].manager, pruned)
    BY <1>2, <1>3, <1>4 DEF UpdateStatus, Latest
  <1>6. PICK new : /\ new = [rv |-> writes + 1, manager |-> profile[n].manager, status |-> pruned]
                   /\ profile' = [profile EXCEPT ![n] = new]
    BY <1>5 DEF Store
  <1>7. new \in Profile
    BY <1>1, <1>5, <1>6 DEF Typed, Exists, Profile
  <1>8. status = [conditions |-> [seen.conditions EXCEPT !["ControlPlaneHealthy"] = "True",
                                                        !["Joined"] = "True"],
                  facts      |-> {[by |-> Manager(s), index |-> i[s]]},
                  credential |-> seen.credential]
    BY <1>3, SeedStatusFields
  <1>9. /\ pruned.facts = {[by |-> Manager(s), index |-> i[s]]}
        /\ pruned.conditions = [seen.conditions EXCEPT !["ControlPlaneHealthy"] = "True",
                                                       !["Joined"] = "True"]
    <2>1. /\ status.facts = {[by |-> Manager(s), index |-> i[s]]}
          /\ status.conditions = [seen.conditions EXCEPT !["ControlPlaneHealthy"] = "True",
                                                         !["Joined"] = "True"]
      BY <1>8, Zenon
    <2> QED
      BY <1>3, <2>1
  <1>10. \A c \in {"ControlPlaneHealthy", "Joined"} : pruned.conditions[c] = "True"
    BY <1>9 DEF Status, Conditions
  <1> QED
    BY <1>2, <1>3, <1>5, <1>6, <1>7, <1>9, <1>10 DEF Store

LEMMA SeedProfileRuns ==
    ASSUME RunsInv, HubInv', NEW s \in Seeders, SeedProfile(s)
    PROVE  RunsInv'
  <1>1. /\ HubInv /\ Typed /\ RunTyped /\ RunInv(s) /\ i[s] \in 1..flags[s].clusters
        /\ i[s] \in Indexes /\ pc[s] = "update" /\ UNCHANGED flags /\ Target(s) \in Names
        /\ flags[s].clusters \in Int
    BY SeedIsLatest DEF RunsInv, HubInv, Typed, SeedProfile
  <1>2. Manager(s)' = Manager(s) /\ seeded[s] = 1..(i[s] - 1)
    BY <1>1 DEF Manager, RunInv, Progress
  <1>3. LabelValue(Manager(s))' => LabelValue(Manager(s))
    BY <1>2 DEF LabelValue
  <1>4. \A v \in Seeders \ {s} : pc'[v] = pc[v] /\ created'[v] = created[v]
    BY <1>1 DEF Typed, SeedProfile, Goto
  <1>5. CASE pc'[s] = "loop"
    <2>1. PICK new \in Profile :
             /\ profile' = [profile EXCEPT ![Target(s)] = new]
             /\ new.manager = profile[Target(s)].manager
             /\ new.status.facts = {[by |-> Manager(s), index |-> i[s]]}
             /\ \A c \in {"ControlPlaneHealthy", "Joined"} : new.status.conditions[c] = "True"
             /\ Exists(Target(s))
             /\ seeded' = [seeded EXCEPT ![s] = @ \cup {i[s]}]
             /\ i' = [i EXCEPT ![s] = @ + 1]
             /\ Disturb(Seeders \ {s}) /\ UNCHANGED namespace
      BY <1>1, <1>5, SeedWrites
    <2>2. /\ profile'[Target(s)] = new
          /\ \A k \in 1..flags[s].clusters : k # i[s] =>
                /\ IsSeeded(s, k) => IsSeeded(s, k)'
                /\ IsOurs(s, k) => IsOurs(s, k)'
      BY <1>1, <2>1, OwnWrite
    <2>3. /\ seeded'[s] = seeded[s] \cup {i[s]} /\ i'[s] = i[s] + 1 /\ alone'[s] = alone[s]
          /\ \A v \in Seeders \ {s} : seeded'[v] = seeded[v] /\ i'[v] = i[v] /\ ~alone'[v]
      BY <1>1, <2>1 DEF Typed, RunTyped, Disturb
    <2>4. seeded'[s] = 1..(i'[s] - 1) /\ i'[s] \in 1..(flags'[s].clusters + 1)
      BY <1>1, <1>2, <2>3
    <2>5. Progress(s)'
      BY <1>1, <1>5, <2>4 DEF Progress
    <2>6. \A k : k = i[s] => IsSeeded(s, k)'
      <3>1. profile'[Name[Manager(s)'][i[s]]] = new /\ new # None
        BY <1>2, <2>2, NoneAssumption DEF Target
      <3> QED
        BY <1>2, <2>1, <3>1 DEF IsSeeded
    <2>7. ASSUME alone'[s], NEW k \in seeded'[s]
          PROVE  IsSeeded(s, k)'
      <3>1. CASE k = i[s]
        BY <2>6, <3>1
      <3>2. CASE k # i[s]
        <4>1. k \in seeded[s] /\ k \in 1..flags[s].clusters /\ IsSeeded(s, k)
          BY <1>1, <2>3, <2>7, <3>2 DEF RunInv, Progress
        <4> QED
          BY <2>2, <3>2, <4>1
      <3> QED
        BY <3>1, <3>2
    <2>8. ASSUME alone[s], LabelValue(Manager(s))
          PROVE  NothingInTheWay(s)'
      <3>1. namespace' /\ \A k \in 1..flags[s].clusters : IsOurs(s, k)
        BY <1>1, <2>1, <2>8 DEF RunInv, NothingInTheWay
      <3>2. ASSUME NEW k \in 1..flags[s].clusters
            PROVE  IsOurs(s, k)'
        <4>1. CASE k = i[s]
          <5>1. new.manager = Manager(s)
            BY <2>1, <3>1, <4>1 DEF IsOurs, Target
          <5>2. profile'[Name[Manager(s)'][i[s]]] = new
            BY <1>2, <2>2 DEF Target
          <5> QED
            BY <1>2, <4>1, <5>1, <5>2 DEF IsOurs
        <4>2. CASE k # i[s]
          BY <2>2, <3>1, <4>2
        <4> QED
          BY <4>1, <4>2
      <3>3. \A k \in 1..flags'[s].clusters : IsOurs(s, k)'
        BY <1>1, <3>2
      <3> QED
        BY <1>5, <3>1, <3>3 DEF NothingInTheWay
    <2>9. RunInv(s)'
      BY <1>3, <2>3, <2>5, <2>7, <2>8 DEF RunInv
    <2>10. RunTyped'
      BY <1>1, <2>1 DEF RunTyped, Disturb
    <2> QED
      BY <1>1, <1>4, <2>1, <2>3, <2>9, <2>10, RunMoves
  <1>6. CASE pc'[s] # "loop"
    <2>1. /\ UNCHANGED <<profile, namespace, i, seeded, alone>> /\ pc'[s] = "failed"
          /\ ~Latest(Target(s), [created[s] EXCEPT !.status = SeedStatus(s, @)])
      BY <1>1, <1>6 DEF SeedProfile, server, Goto, Typed
    <2>2. profile' = profile
      BY <2>1
    <2>3. \A k : IsSeeded(s, k) => IsSeeded(s, k)'
      BY <1>2, <2>2 DEF IsSeeded
    <2>4. Progress(s)'
      BY <1>1, <2>1 DEF RunInv, Progress
    <2>5. ~(alone[s] /\ LabelValue(Manager(s)))
      <3>1. created[s] \in Profile
        BY <1>1, SeedIsLatest
      <3>2. [created[s] EXCEPT !.status = SeedStatus(s, @)].rv = created[s].rv
        BY <3>1 DEF Profile
      <3>3. ~Latest(Target(s), created[s])
        BY <2>1, <3>2 DEF Latest
      <3> QED
        BY <1>1, <3>3 DEF RunInv, NothingInTheWay
    <2>6. ASSUME alone'[s], NEW k \in seeded'[s]
          PROVE  IsSeeded(s, k)'
      BY <1>1, <2>1, <2>3, <2>6 DEF RunInv
    <2>7. alone'[s] => alone[s]
      BY <2>1
    <2>8. RunInv(s)'
      BY <1>3, <2>4, <2>5, <2>6, <2>7 DEF RunInv
    <2>9. RunTyped'
      BY <1>1, <2>1 DEF RunTyped
    <2> QED
      BY <1>1, <1>4, <2>1, <2>8, <2>9, RunMoves
  <1> QED
    BY <1>5, <1>6

\* The writes of agents disturb every run, and their reads none.
LEMMA AgentsDisturb ==
    ASSUME RunsInv, HubInv',
           \/ \E a \in Agents : \/ AgentReports(a) \/ AgentUpdates(a)
                                \/ \E n \in Names : AgentCreate(a, n) \/ AgentRead(a, n)
           \/ \E n \in Names : AgentDeletes(n)
           \/ UNCHANGED vars
    PROVE  RunsInv'
  <1>1. UNCHANGED <<flags, pc, i, created, seeded>> /\ UNCHANGED namespace
    BY DEF AgentReports, AgentUpdates, AgentCreate, AgentRead, AgentDeletes, vars, seeders,
           server, UpdateStatus, Update, Create, Store
  <1>2. UNCHANGED <<profile, alone>> \/ Disturb(Seeders)
    BY DEF AgentReports, AgentUpdates, AgentCreate, AgentRead, AgentDeletes, vars, server,
           MayWrite
  <1>3. RunTyped'
    BY <1>1, <1>2 DEF RunsInv, RunTyped, Disturb
  <1>4. ASSUME NEW s \in Seeders
        PROVE  alone'[s] => alone[s] /\ UNCHANGED profile
    BY <1>2 DEF Disturb
  <1>5. \A s \in Seeders : RunInv(s)'
    BY <1>1, <1>4, RunKeeps
  <1> QED
    BY <1>3, <1>5 DEF RunsInv

LEMMA RunsStep == RunsInv /\ [Next]_vars => RunsInv'
  <1> SUFFICES ASSUME RunsInv, [Next]_vars PROVE RunsInv'
    OBVIOUS
  <1>1. HubInv'
    BY HubStep DEF RunsInv
  <1> QED
    BY <1>1, StartRuns, QuietRuns, CreateProfileRuns, GetProfileRuns, SeedProfileRuns,
       AgentsDisturb DEF Next

LEMMA RunsAlways == Spec => []RunsInv
  BY RunsInit, RunsStep, PTL DEF Spec

\* For any number of seeders, agents, managers and profiles, exit code 0 of
\* conformance-seed means that every profile was seeded in this run, and when
\* nobody interfered all of them are there, healthy and joined.
THEOREM ExitZeroMeansSeeded == Spec => []SuccessMeansSeeded
  <1>1. RunsInv => SuccessMeansSeeded
    <2> SUFFICES ASSUME RunsInv, NEW s \in Seeders, pc[s] = "done"
                 PROVE  /\ seeded[s] = 1..flags[s].clusters
                        /\ alone[s] => \A k \in seeded[s] : IsSeeded(s, k)
      BY DEF SuccessMeansSeeded, IsSeeded
    <2> QED
      BY DEF RunsInv, RunInv, Progress
  <1> QED
    BY <1>1, RunsAlways, PTL

\* Whatever an earlier run left half done, a run of conformance-seed that
\* nobody disturbs fails only for its flags; the name that it makes of any
\* manager's name, of any length and in any characters, is one that the server
\* takes.
THEOREM UndisturbedRunsSucceed == Spec => []UndisturbedRunSucceeds
  <1>1. RunsInv => UndisturbedRunSucceeds
    BY DEF RunsInv, RunInv, NothingInTheWay, UndisturbedRunSucceeds
  <1> QED
    BY <1>1, RunsAlways, PTL

-----------------------------------------------------------------------------
(* Credentials.                                                            *)

\* A v1alpha1 client that writes what it has read writes the credentials too.
SameCredential(n, object) ==
    Latest(n, object) => object.status.credential = profile[n].status.credential

ReadsCredential(a) ==
    (a.version = "v1alpha1" /\ copy[a] # None) => SameCredential(copy[a].name, copy[a].object)

CredentialInv == HubInv /\ \A a \in Agents : ReadsCredential(a)

\* The resource version tells whether a profile has been written since.
LEMMA CredentialKeeps ==
    ASSUME HubInv, [Next]_vars, NEW a \in Agents, ReadsCredential(a), copy'[a] = copy[a]
    PROVE  ReadsCredential(a)'
  <1> SUFFICES ASSUME a.version = "v1alpha1", copy[a] # None
               PROVE  SameCredential(copy[a].name, copy[a].object)'
    BY DEF ReadsCredential
  <1>1. PICK m, object : m = copy[a].name /\ object = copy[a].object
    OBVIOUS
  <1>2. Typed /\ Seen(m, object) /\ SameCredential(m, object)
    BY <1>1 DEF HubInv, AgentInv, ReadsCredential
  <1>3. \/ UNCHANGED profile
        \/ \E n, manager, status : Store(n, manager, status)
        \/ \E n \in Names : profile' = [profile EXCEPT ![n] = None]
    BY DEF Next, Start, CreateNamespace, CreateProfile, GetProfile, SeedProfile, Finish, Die,
           AgentCreate, AgentRead, AgentReports, AgentUpdates, AgentDeletes, vars, server,
           Create, Update, UpdateStatus
  <1>4. SameCredential(m, object)'
    <2>1. CASE UNCHANGED profile
      BY <1>2, <2>1 DEF SameCredential, Latest, Exists
    <2>2. CASE \E n, manager, status : Store(n, manager, status)
      <3>s. PICK n, manager, status : Store(n, manager, status)
        BY <2>2
      <3>n. PICK new : new = [rv |-> writes + 1, manager |-> manager, status |-> status]
        OBVIOUS
      <3>1. new.rv = writes + 1 /\ profile' = [profile EXCEPT ![n] = new]
        BY <3>s, <3>n DEF Store
      <3>2. m \in Names /\ object.rv <= writes /\ object.rv \in Nat /\ writes \in Nat
        BY <1>2 DEF Seen, Typed, Profile
      <3> QED
        BY <1>2, <3>1, <3>2 DEF SameCredential, Latest, Exists, Typed
    <2>3. CASE \E n \in Names : profile' = [profile EXCEPT ![n] = None]
      BY <1>2, <2>3 DEF SameCredential, Latest, Exists, Typed, Seen
    <2> QED
      BY <1>3, <2>1, <2>2, <2>3
  <1> QED
    BY <1>1, <1>4 DEF SameCredential, Latest, Exists

LEMMA CredentialStep == CredentialInv /\ [Next]_vars => CredentialInv'
  <1> SUFFICES ASSUME CredentialInv, [Next]_vars PROVE CredentialInv'
    OBVIOUS
  <1>1. HubInv /\ HubInv' /\ Typed
    BY HubStep DEF CredentialInv, HubInv
  <1>2. ASSUME NEW a \in Agents, NEW n \in Names, AgentRead(a, n), NEW b \in Agents
        PROVE  ReadsCredential(b)'
    <2>1. CASE b # a
      BY <1>1, <1>2, <2>1, CredentialKeeps DEF AgentRead, Typed, CredentialInv
    <2>2. CASE b = a
      <3>1. PICK object : object = Object(n, a.version)
        OBVIOUS
      <3>2. copy'[b].name = n /\ copy'[b].object = object /\ profile' = profile
        BY <1>1, <1>2, <2>2, <3>1 DEF AgentRead, Typed, server
      <3>3. ASSUME b.version = "v1alpha1"
            PROVE  object.status.credential = profile[n].status.credential
        <4>1. profile[n] \in Profile
          BY <1>1, <1>2 DEF AgentRead, Typed, Exists
        <4>2. object = [profile[n] EXCEPT !.status = profile[n].status]
          BY <2>2, <3>1, <3>3 DEF Object, Prune
        <4> QED
          BY <4>1, <4>2 DEF Profile
      <3> QED
        BY <3>2, <3>3 DEF ReadsCredential, SameCredential
    <2> QED
      BY <2>1, <2>2
  <1>3. ASSUME NEW a \in Agents, AgentReports(a) \/ AgentUpdates(a), NEW b \in Agents
        PROVE  ReadsCredential(b)'
    <2>1. CASE b # a
      BY <1>1, <1>3, <2>1, CredentialKeeps DEF AgentReports, AgentUpdates, Typed, CredentialInv
    <2>2. CASE b = a
      BY <1>1, <1>3, <2>2 DEF AgentReports, AgentUpdates, Typed, ReadsCredential
    <2> QED
      BY <2>1, <2>2
  <1>4. ASSUME UNCHANGED copy, NEW b \in Agents
        PROVE  ReadsCredential(b)'
    BY <1>1, <1>4, CredentialKeeps DEF CredentialInv
  <1>5. \/ UNCHANGED copy
        \/ \E a \in Agents : \/ AgentReports(a) \/ AgentUpdates(a)
                             \/ \E n \in Names : AgentRead(a, n)
    BY DEF Next, Start, CreateNamespace, CreateProfile, GetProfile, SeedProfile, Finish, Die,
           AgentCreate, AgentDeletes, vars
  <1> QED
    BY <1>1, <1>2, <1>3, <1>4, <1>5 DEF CredentialInv

\* A write that keeps the credentials of the profile it goes to keeps all.
LEMMA StoreKeepsCredentials ==
    ASSUME Typed, NEW n \in Names, NEW manager, NEW status, Store(n, manager, status),
           profile[n].status.credential => status.credential
    PROVE  \A m \in Names : (Exists(m) /\ profile[m].status.credential) =>
                (~Exists(m)' \/ profile'[m].status.credential)
  <1>1. PICK new : new.status = status /\ profile' = [profile EXCEPT ![n] = new]
    BY DEF Store
  <1>2. profile'[n] = new /\ \A m \in Names \ {n} : profile'[m] = profile[m]
    BY <1>1 DEF Typed
  <1> QED
    BY <1>1, <1>2

\* A client of v1alpha1 loses no credentials.
LEMMA V1alpha1Keeps ==
    ASSUME CredentialInv, NEW a \in Agents, a.version = "v1alpha1",
           AgentReports(a) \/ AgentUpdates(a), NEW m \in Names,
           Exists(m), profile[m].status.credential
    PROVE  ~Exists(m)' \/ profile'[m].status.credential
  <1>1. PICK n, object : n = copy[a].name /\ object = copy[a].object
    OBVIOUS
  <1>2. Typed /\ Seen(n, object) /\ SameCredential(n, object)
    BY <1>1 DEF CredentialInv, HubInv, AgentInv, ReadsCredential, AgentReports, AgentUpdates
  <1>3. n \in Names /\ object \in Profile /\ object.status \in Status
    BY <1>2 DEF Seen, Profile
  <1>4. \A status : Prune(status, a.version) = status
    BY DEF Prune
  <1>5. CASE AgentReports(a)
    <2>1. PICK status \in Changes(a, object.status) :
             UpdateStatus(n, [object EXCEPT !.status = status], a.version)
      BY <1>1, <1>5 DEF AgentReports
    <2>2. [object EXCEPT !.status = status].rv = object.rv
          /\ [object EXCEPT !.status = status].status = status
      BY <1>3 DEF Profile
    <2>3. Latest(n, object) /\ Store(n, profile[n].manager, status)
      BY <1>4, <2>1, <2>2 DEF UpdateStatus, Latest
    <2>4. object.status.credential = profile[n].status.credential
      BY <1>2, <2>3 DEF SameCredential
    <2>5. object.status.credential => status.credential
      <3>1. [object.status EXCEPT !.conditions["Other"] = "True"].credential
              = object.status.credential
        BY <1>3 DEF Status
      <3>2. [object.status EXCEPT !.conditions["ControlPlaneHealthy"] = "False"].credential
              = object.status.credential
        BY <1>3 DEF Status
      <3>3. [object.status EXCEPT !.credential = TRUE].credential
        BY <1>3 DEF Status
      <3> QED
        BY <2>1, <3>1, <3>2, <3>3 DEF Changes
    <2> QED
      BY <1>2, <1>3, <2>3, <2>4, <2>5, StoreKeepsCredentials
  <1>6. CASE AgentUpdates(a)
    <2>1. PICK manager, status : /\ status \in {profile[n].status}
                                 /\ Store(n, manager, status)
      BY <1>1, <1>4, <1>6 DEF AgentUpdates, Update
    <2> QED
      BY <1>2, <1>3, <2>1, StoreKeepsCredentials
  <1> QED
    BY <1>5, <1>6

LEMMA CredentialsLost ==
    CredentialInv /\ [Next]_vars =>
        [\A n \in Names :
         (Exists(n) /\ profile[n].status.credential) =>
             \/ ~Exists(n)' \/ profile'[n].status.credential
             \/ \E s \in Seeders : pc[s] = "update" /\ Target(s) = n /\ pc'[s] = "loop"
             \/ \E a \in Agents : /\ a.version = "v1alpha2" /\ copy[a] # None
                                  /\ copy[a].name = n /\ copy'[a] = None]_vars
  <1> SUFFICES ASSUME CredentialInv, Next, NEW n \in Names,
                      Exists(n), profile[n].status.credential,
                      ~(~Exists(n)' \/ profile'[n].status.credential)
               PROVE  \/ \E s \in Seeders : pc[s] = "update" /\ Target(s) = n /\ pc'[s] = "loop"
                      \/ \E a \in Agents : /\ a.version = "v1alpha2" /\ copy[a] # None
                                           /\ copy[a].name = n /\ copy'[a] = None
    BY DEF vars
  <1>1. Typed
    BY DEF CredentialInv, HubInv
  <1>2. profile' # profile
    BY DEF Exists
  <1>3. ASSUME NEW m, NEW manager, NEW version, Create(m, manager, version)
        PROVE  FALSE
    BY <1>1, <1>3 DEF Create, Store, Typed, Exists
  <1>4. ASSUME NEW s \in Seeders, SeedProfile(s)
        PROVE  pc[s] = "update" /\ Target(s) = n /\ pc'[s] = "loop"
    <2>1. pc[s] = "update" /\ pc'[s] = "loop" /\ HubInv
      BY <1>1, <1>2, <1>4 DEF SeedProfile, Goto, Typed, server, CredentialInv
    <2>2. PICK new : profile' = [profile EXCEPT ![Target(s)] = new]
      BY <1>4, <2>1, SeedWrites
    <2>3. Target(s) = n
      BY <1>1, <2>2 DEF Typed, Exists
    <2> QED
      BY <2>1, <2>3
  <1>5. ASSUME NEW a \in Agents, AgentReports(a) \/ AgentUpdates(a)
        PROVE  /\ a.version = "v1alpha2" /\ copy[a] # None
               /\ copy[a].name = n /\ copy'[a] = None
    <2>1. a.version # "v1alpha1"
      BY <1>5, V1alpha1Keeps
    <2>2. a.version = "v1alpha2"
      BY <2>1, HubAssumption
    <2>3. PICK m, manager, status : m = copy[a].name /\ Store(m, manager, status)
      BY <1>5 DEF AgentReports, AgentUpdates, Update, UpdateStatus
    <2>4. m = n
      BY <1>1, <2>3 DEF Store, Typed, Exists
    <2> QED
      BY <1>1, <1>5, <2>2, <2>3, <2>4 DEF AgentReports, AgentUpdates, Typed
  <1>6. ASSUME NEW m \in Names, AgentDeletes(m)
        PROVE  FALSE
    BY <1>1, <1>6 DEF AgentDeletes, Typed, Exists
  <1>7. ASSUME NEW s \in Seeders, CreateProfile(s)
        PROVE  FALSE
    BY <1>2, <1>3, <1>7 DEF CreateProfile, server
  <1>8. \/ \E s \in Seeders : CreateProfile(s) \/ SeedProfile(s)
        \/ \E a \in Agents : AgentReports(a) \/ AgentUpdates(a)
        \/ \E a \in Agents, m \in Names : AgentCreate(a, m)
        \/ \E m \in Names : AgentDeletes(m)
    BY <1>2 DEF Next, Start, CreateNamespace, GetProfile, Finish, Die, AgentRead, server
  <1> QED
    BY <1>3, <1>4, <1>5, <1>6, <1>7, <1>8 DEF AgentCreate

\* Credentials that were published through v1alpha1 are lost only when a client
\* of v1alpha2, such as conformance-seed, writes the profile, or with the
\* profile: a v1alpha1 client's write is refused unless it has read the
\* credentials that the profile has.
THEOREM CredentialsAreLostOnlyToV1alpha2 == Spec => OnlyV1alpha2LosesCredentials
  <1>1. Init => CredentialInv
    BY HubInit DEF CredentialInv, ReadsCredential, Init
  <1> QED
    BY <1>1, CredentialStep, CredentialsLost, PTL DEF Spec, OnlyV1alpha2LosesCredentials
=============================================================================
