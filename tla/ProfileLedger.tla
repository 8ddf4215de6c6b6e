--------------------------- MODULE ProfileLedger ---------------------------
(***************************************************************************)
(* What the hub promises those who share its ClusterProfiles: a profile    *)
(* belongs to one cluster manager for as long as it exists, and a report   *)
(* on its status changes what the report is about and nothing else,        *)
(* however long ago the reporter read the profile.                         *)
(***************************************************************************)
CONSTANTS Names, Managers, Conditions, Indexes, None

\* profile[n]: None, or [manager, conditions, facts].  facts is what status
\* holds beside its conditions, with the manager it was written for: nothing,
\* or one [by, index].
VARIABLE profile

Init == profile = [n \in Names |-> None]

Create(n, m) ==
    /\ profile[n] = None
    /\ profile' = [profile EXCEPT ![n] =
           [manager |-> m, conditions |-> [c \in Conditions |-> "absent"], facts |-> {}]]

Delete(n) == profile[n] # None /\ profile' = [profile EXCEPT ![n] = None]

Report(n, c, value) ==
    /\ profile[n] # None
    /\ profile' = [profile EXCEPT ![n].conditions[c] = value]

\* A report of facts is written for the manager that the profile belongs to,
\* and says that the cluster is healthy and managed.
Seed(n, i) ==
    /\ profile[n] # None
    /\ profile' = [profile EXCEPT
           ![n].facts = {[by |-> profile[n].manager, index |-> i]},
           ![n].conditions["ControlPlaneHealthy"] = "True",
           ![n].conditions["Joined"] = "True"]

Next == \E n \in Names :
    \/ \E m \in Managers : Create(n, m)
    \/ Delete(n)
    \/ \E c \in Conditions, value \in {"True", "False"} : Report(n, c, value)
    \/ \E i \in Indexes : Seed(n, i)

Spec == Init /\ [][Next]_profile
=============================================================================
