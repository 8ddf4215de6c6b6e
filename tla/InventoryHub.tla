---------------------------- MODULE InventoryHub ----------------------------
(***************************************************************************)
(* The ClusterProfiles of one namespace, shared by runs of                 *)
(* hack/conformance-seed and by agents (cluster managers, controllers, an  *)
(* administrator) that use either API version.  Each call of a typed       *)
(* client is one step of the API server.  Of the server, this module has   *)
(* what the CRD asks of it: one stored object for both versions, pruned to *)
(* the version's fields, a status subresource, an immutable cluster        *)
(* manager, and a conflict for a write that is not of the latest version.  *)
(***************************************************************************)
EXTENDS Naturals, Integers, Sequences, FiniteSetsExt

CONSTANTS
    Chars,      \* the characters manager names are made of
    Managers,   \* names of cluster managers: sequences of Chars
    Limit,      \* maxObjectNamePrefixLength (40 in the code)
    LabelLimit, \* the length of a label value (63)
    SuffixLen,  \* the length of "-cluster-", an index and "-id"
    Seeders,    \* processes that run conformance-seed
    Flags,      \* Flags[s]: the flags [manager, clusters] that s may be given
    Agents,     \* other clients: [version, manager]
    MaxWrites,  \* bound on the resource versions that agents use up
    MaxRuns,    \* bound on the runs of one seeder
    None

Clusters == UNION {{f.clusters : f \in Flags[s]} : s \in Seeders}

Indexes == UNION {1..c : c \in Clusters}

Lowercase == {"a", "b"}
Alphanumeric == Lowercase \cup {"A"}

ASSUME HubAssumption ==
    /\ Chars \subseteq Alphanumeric \cup {"-", "_", "!"} /\ Managers \subseteq Seq(Chars)
    /\ {Limit, LabelLimit, SuffixLen, MaxWrites, MaxRuns} \subseteq Nat
    /\ Limit + SuffixLen <= LabelLimit
    /\ \A s \in Seeders : Flags[s] \subseteq [manager : Managers, clusters : Int]
    /\ Agents \subseteq [version : {"v1alpha1", "v1alpha2"}, manager : Managers]

-----------------------------------------------------------------------------
(* Names.                                                                  *)

ToLower(r) == IF r = "A" THEN "a" ELSE r

\* Mutant: an underscore or a dot of the manager's name is kept.
MutKeepRune(r) == ToLower(r)

Mapped(r) == IF ToLower(r) \in Lowercase \cup {"-"} THEN ToLower(r) ELSE "-"

Trim(s) ==
    LET kept == {k \in DOMAIN s : s[k] # "-"}
    IN  IF kept = {} THEN << >> ELSE SubSeq(s, Min(kept), Max(kept))

objectNamePrefix(manager) ==
    LET mapped == [k \in DOMAIN manager |-> Mapped(manager[k])]
        prefix == Trim(SubSeq(mapped, 1, Min({Limit, Len(mapped)})))
    IN  IF prefix = << >> THEN <<"cluster-manager">> ELSE prefix

Name == [m \in Managers |-> [k \in Indexes |->
             [prefix |-> objectNamePrefix(m), index |-> k]]]

Names == {Name[m][k] : m \in Managers, k \in Indexes}

\* What the server takes for a label value, and for a name.
LabelValue(s) ==
    /\ Len(s) \in 1..LabelLimit /\ s[1] \in Alphanumeric /\ s[Len(s)] \in Alphanumeric
    /\ \A k \in DOMAIN s : s[k] # "!"

ObjectName(n) ==
    \/ n.prefix = <<"cluster-manager">>
    \/ /\ Len(n.prefix) + SuffixLen <= LabelLimit
       /\ n.prefix[1] \in Lowercase
       /\ \A k \in DOMAIN n.prefix : n.prefix[k] \in Lowercase \cup {"-"}

-----------------------------------------------------------------------------

Conditions == {"ControlPlaneHealthy", "Joined", "Other"}

\* A profile: its metadata and spec, and its status.  credential stands for
\* status.credentialProviders, facts for the version, the properties and the
\* accessProviders that conformance-seed writes, if any.
Status == [conditions : [Conditions -> {"absent", "True", "False"}],
           facts : SUBSET [by : Managers, index : Indexes],
           credential : BOOLEAN]

Profile == [rv : Nat, manager : Managers, status : Status]

\* What of a profile does not depend on the API version or on who has read it.
Shown == [manager : Managers, conditions : [Conditions -> {"absent", "True", "False"}],
          facts : SUBSET [by : Managers, index : Indexes]]

ASSUME NoneAssumption == None \notin Profile /\ None \notin Shown

BlankStatus ==
    [conditions |-> [c \in Conditions |-> "absent"], facts |-> {}, credential |-> FALSE]

VARIABLES
    namespace,  \* the namespace exists
    profile,    \* profile[n]: None or [rv, manager, status]
    writes,     \* the last resource version
    flags,      \* flags[s]: the flags that s runs with
    pc, i,      \* pc[s] and i[s]: where s is, and in which turn of its loop
    created,    \* created[s]: the object that s works on
    copy,       \* copy[a]: None, or [name, object] that agent a has read
    runs,       \* history: the number of runs of each seeder
    alone,      \* history: nothing but the flags can make this run of s fail
    seeded      \* history: what this run of s has written the status of

server == <<namespace, profile, writes>>
seeders == <<flags, pc, i, created, runs, seeded>>
vars == <<server, seeders, copy, alone>>

Init ==
    /\ namespace \in BOOLEAN
    /\ profile = [n \in Names |-> None] /\ writes = 0
    /\ flags \in {f \in [Seeders -> UNION {Flags[s] : s \in Seeders}] :
                     \A s \in Seeders : f[s] \in Flags[s]}
    /\ pc = [s \in Seeders |-> "idle"] /\ i = [s \in Seeders |-> 0]
    /\ created = [s \in Seeders |-> None] /\ copy = [a \in Agents |-> None]
    /\ runs = [s \in Seeders |-> 0] /\ alone = [s \in Seeders |-> FALSE]
    /\ seeded = [s \in Seeders |-> {}]

-----------------------------------------------------------------------------
(* The API server.                                                         *)

Exists(n) == profile[n] # None

\* v1alpha2 has all fields of the stored version but credentialProviders.
Prune(status, version) ==
    IF version = "v1alpha2" THEN [status EXCEPT !.credential = FALSE] ELSE status

\* Mutant: clients of v1alpha1 do not see credentialProviders either.
MutObject(n, version) == [profile[n] EXCEPT !.status = Prune(@, "v1alpha2")]

Object(n, version) == [profile[n] EXCEPT !.status = Prune(@, version)]

\* v1alpha1 takes any manager name, v1alpha2 a label value that is not empty.
AdmitsManager(m, version) == version = "v1alpha2" => LabelValue(m)

Store(n, manager, status) ==
    /\ writes' = writes + 1
    /\ profile' = [profile EXCEPT ![n] =
           [rv |-> writes + 1, manager |-> manager, status |-> status]]
    /\ UNCHANGED namespace

Create(n, manager, version) ==
    /\ ~Exists(n) /\ namespace /\ AdmitsManager(manager, version) /\ ObjectName(n)
    /\ Store(n, manager, BlankStatus)

Latest(n, object) == Exists(n) /\ profile[n].rv = object.rv

\* The status subresource takes nothing but the status.
UpdateStatus(n, object, version) ==
    Latest(n, object) /\ Store(n, profile[n].manager, Prune(object.status, version))

Immutable(old, new) == old = new

\* The resource itself takes everything but the status.  Whether the server
\* prunes the status that it carries over is not for this module to say.
Update(n, object, version) ==
    /\ Latest(n, object) /\ Immutable(profile[n].manager, object.manager)
    /\ \E status \in {profile[n].status, Prune(profile[n].status, version)} :
           Store(n, object.manager, status)

-----------------------------------------------------------------------------
(* conformance-seed.                                                       *)

Manager(s) == flags[s].manager

Target(s) == Name[Manager(s)][i[s]]

Goto(s, l) == pc' = [pc EXCEPT ![s] = l]

\* A write of somebody else may make any other run fail.
Disturb(others) == alone' = [s \in Seeders |-> alone[s] /\ s \notin others]

Start(s) ==
    /\ pc[s] \in {"idle", "failed"} /\ runs[s] < MaxRuns
    /\ runs' = [runs EXCEPT ![s] = @ + 1]
    /\ seeded' = [seeded EXCEPT ![s] = {}]
    /\ alone' = [alone EXCEPT ![s] = \A n \in Names :
           (\E k \in 1..flags[s].clusters : n = Name[Manager(s)][k]) /\ Exists(n) =>
               profile[n].manager = Manager(s)]
    /\ i' = [i EXCEPT ![s] = 1]
    /\ Goto(s, IF flags[s].clusters < 0 THEN "failed" ELSE "namespace")
    /\ UNCHANGED <<server, flags, created, copy>>

\* That the namespace exists already is no error.
CreateNamespace(s) ==
    /\ pc[s] = "namespace" /\ Goto(s, "loop")
    /\ namespace' = TRUE
    /\ UNCHANGED <<profile, writes, flags, i, created, runs, seeded, copy, alone>>

\* Mutant: the loop stops one short.
MutLoopShort(s) == i[s] < flags[s].clusters

InLoop(s) == i[s] <= flags[s].clusters

CreateProfile(s) ==
    /\ pc[s] = "loop" /\ InLoop(s)
    /\ \/ /\ Create(Target(s), Manager(s), "v1alpha2")
          /\ created' = [created EXCEPT ![s] = profile'[Target(s)]]
          /\ Goto(s, "update") /\ Disturb(Seeders \ {s})
       \/ /\ Exists(Target(s)) /\ Goto(s, "get")
          /\ UNCHANGED <<server, created, alone>>
       \/ /\ ~Exists(Target(s)) /\ ~(AdmitsManager(Manager(s), "v1alpha2") /\ ObjectName(Target(s)))
          /\ Goto(s, "failed")
          /\ UNCHANGED <<server, created, alone>>
    /\ UNCHANGED <<flags, i, runs, seeded, copy>>

\* Mutant: the existing object is reused whoever it belongs to.
MutTakeOver(s, object) == TRUE

Reusable(s, object) == object.manager = Manager(s)

GetProfile(s) ==
    /\ pc[s] = "get"
    /\ \/ /\ Exists(Target(s)) /\ Reusable(s, profile[Target(s)])
          /\ created' = [created EXCEPT ![s] = Object(Target(s), "v1alpha2")]
          /\ Goto(s, "update")
       \/ /\ Exists(Target(s)) /\ ~Reusable(s, profile[Target(s)])
          /\ Goto(s, "failed") /\ UNCHANGED created
       \/ ~Exists(Target(s)) /\ Goto(s, "failed") /\ UNCHANGED created
    /\ UNCHANGED <<server, flags, i, runs, seeded, copy, alone>>

\* meta.SetStatusCondition adds a condition or replaces the one of its type.
SeedStatus(s, status) ==
    [status EXCEPT !.facts = {[by |-> Manager(s), index |-> i[s]]},
                   !.conditions["ControlPlaneHealthy"] = "True",
                   !.conditions["Joined"] = "True"]

SeedProfile(s) ==
    /\ pc[s] = "update"
    /\ LET object == [created[s] EXCEPT !.status = SeedStatus(s, @)]
       IN  \/ /\ UpdateStatus(Target(s), object, "v1alpha2")
              /\ seeded' = [seeded EXCEPT ![s] = @ \cup {i[s]}]
              /\ i' = [i EXCEPT ![s] = @ + 1]
              /\ Goto(s, "loop") /\ Disturb(Seeders \ {s})
           \/ /\ ~Latest(Target(s), object)
              /\ Goto(s, "failed")
              /\ UNCHANGED <<server, i, seeded, alone>>
    /\ created' = [created EXCEPT ![s] = None]
    /\ UNCHANGED <<flags, runs, copy>>

Finish(s) ==
    /\ pc[s] = "loop" /\ ~InLoop(s)
    /\ Goto(s, "done")
    /\ UNCHANGED <<server, flags, i, created, runs, seeded, copy, alone>>

\* A call that fails or whose answer is lost ends the run with an error, as
\* does a signal: what the calls before it wrote stays.
Die(s) ==
    /\ pc[s] \in {"namespace", "loop", "get", "update"}
    /\ Goto(s, "failed") /\ Disturb({s})
    /\ created' = [created EXCEPT ![s] = None]
    /\ UNCHANGED <<server, flags, i, runs, seeded, copy>>

-----------------------------------------------------------------------------
(* Everybody else.                                                         *)

MayWrite == writes < MaxWrites /\ Disturb(Seeders)

AgentCreate(a, n) ==
    /\ Create(n, a.manager, a.version) /\ MayWrite
    /\ UNCHANGED <<seeders, copy>>

AgentRead(a, n) ==
    /\ Exists(n)
    /\ copy' = [copy EXCEPT ![a] = [name |-> n, object |-> Object(n, a.version)]]
    /\ UNCHANGED <<server, seeders, alone>>

\* An agent reports one condition, or the credentials that v1alpha1 has.
Changes(a, status) ==
    {[status EXCEPT !.conditions["Other"] = "True"],
     [status EXCEPT !.conditions["ControlPlaneHealthy"] = "False"]} \cup
    (IF a.version = "v1alpha1" THEN {[status EXCEPT !.credential = TRUE]} ELSE {})

AgentReports(a) ==
    /\ copy[a] # None /\ MayWrite
    /\ \E status \in Changes(a, copy[a].object.status) :
         UpdateStatus(copy[a].name, [copy[a].object EXCEPT !.status = status], a.version)
    /\ copy' = [copy EXCEPT ![a] = None]
    /\ UNCHANGED seeders

\* An agent updates the labels or the display name, and would take over the
\* profile if it could.
AgentUpdates(a) ==
    /\ copy[a] # None /\ MayWrite
    /\ \E m \in {copy[a].object.manager, a.manager} :
         Update(copy[a].name, [copy[a].object EXCEPT !.manager = m], a.version)
    /\ copy' = [copy EXCEPT ![a] = None]
    /\ UNCHANGED seeders

AgentDeletes(n) ==
    /\ Exists(n) /\ MayWrite
    /\ writes' = writes + 1
    /\ profile' = [profile EXCEPT ![n] = None]
    /\ UNCHANGED <<namespace, seeders, copy>>

Next ==
    \/ \E s \in Seeders :
         \/ Start(s) \/ CreateNamespace(s) \/ CreateProfile(s) \/ GetProfile(s)
         \/ SeedProfile(s) \/ Finish(s) \/ Die(s)
    \/ \E a \in Agents :
         \/ AgentReports(a) \/ AgentUpdates(a)
         \/ \E n \in Names : AgentCreate(a, n) \/ AgentRead(a, n)
    \/ \E n \in Names : AgentDeletes(n)

Spec == Init /\ [][Next]_vars

-----------------------------------------------------------------------------

ledger == [n \in Names |->
    IF ~Exists(n) THEN None
    ELSE [manager    |-> profile[n].manager,
          conditions |-> profile[n].status.conditions,
          facts      |-> profile[n].status.facts]]

Ledger == INSTANCE ProfileLedger WITH profile <- ledger

\* The hub keeps ProfileLedger's promise: although conformance-seed reads a
\* profile in one call and writes it in another, it writes only to profiles of
\* the manager it was given, and undoes nobody's report of what both versions
\* show.  Credential providers are not in the ledger: v1alpha2 prunes them.
KeepsLedger == Ledger!Spec

\* Exit code 0 of conformance-seed: every profile was seeded in this run, and
\* when nobody interfered all of them are there, healthy and joined.
SuccessMeansSeeded ==
    \A s \in Seeders : pc[s] = "done" =>
        /\ seeded[s] = 1..flags[s].clusters
        /\ alone[s] => \A k \in seeded[s] :
             LET p == profile[Name[Manager(s)][k]]
             IN  /\ p # None /\ p.status.facts = {[by |-> Manager(s), index |-> k]}
                 /\ \A c \in {"ControlPlaneHealthy", "Joined"} : p.status.conditions[c] = "True"

\* A run of conformance-seed that nobody disturbs fails only for its flags:
\* what an earlier run left half done does not stop it, and the name it makes
\* of any manager's name is one that the server takes.
UndisturbedRunSucceeds ==
    \A s \in Seeders : (pc[s] = "failed" /\ alone[s]) =>
        flags[s].clusters < 0 \/ ~LabelValue(Manager(s))

\* Credentials that were published through v1alpha1 are lost only when a client
\* of v1alpha2 writes the profile, or with the profile.
OnlyV1alpha2LosesCredentials ==
    [][\A n \in Names :
         (Exists(n) /\ profile[n].status.credential) =>
             \/ ~Exists(n)' \/ profile'[n].status.credential
             \/ \E s \in Seeders : pc[s] = "update" /\ Target(s) = n /\ pc'[s] = "loop"
             \/ \E a \in Agents : /\ a.version = "v1alpha2" /\ copy[a] # None
                                  /\ copy[a].name = n /\ copy'[a] = None]_vars
=============================================================================
