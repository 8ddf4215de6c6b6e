-------------------------- MODULE MCConformanceRun --------------------------
(***************************************************************************)
(* A small instance of ConformanceRun: inventories that meet or miss each  *)
(* requirement, and options that take every path through Run.              *)
(***************************************************************************)
EXTENDS ConformanceRun

CONSTANT absent

Profile(n, m, label, id, reports) ==
    [name |-> n, manager |-> m, managerLabel |-> label, memberID |-> id,
     healthy |-> reports, joined |-> reports, version |-> reports]

Good1 == Profile("a", "m1", "m1", "id1", TRUE)
Good2 == Profile("b", "m1", "m1", "id2", TRUE)
Bare == Profile("c", "m1", absent, absent, FALSE)
WrongLabel == Profile("d", "m1", "m2", "id1", TRUE)
EmptyID == Profile("e", "m1", "m1", "", TRUE)
\* Another manager's profile with a member ID that Good1 uses too.
Other == Profile("f", "m2", "m2", "id1", TRUE)

AllInventories ==
    { {}, {Good1}, {Good1, Good2}, {Good1, Other}, {Bare},
      {Good1, Bare}, {WrongLabel}, {EmptyID}, {Other} }

FewInventories == { {}, {Good1}, {Bare} }

AllIDs == {req.id : req \in Catalog}

Option(mode, supported, manager, expected) ==
    [client |-> "rest", named |-> TRUE, metadata |-> TRUE, runMode |-> mode, filtered |-> FALSE,
     filterParses |-> TRUE, selected |-> AllIDs, supported |-> supported,
     manager |-> manager, expected |-> expected]

Filter(o, selected) == [o EXCEPT !.filtered = TRUE, !.selected = selected]

Plain == Option("development", {}, "", 0)
Claiming == Option("development", Features, "m1", 1)
Unique == {"InventoryMemberID", "InventoryMemberUniqueness"}
Submitting == Option("submission", Unique, "m1", 0)

Running ==
    { Plain, Claiming, Submitting, Option("submission", {}, "", 2),
      Filter(Plain, {"Namespaced"}), Filter(Claiming, {"MemberUniqueness"}) }

Refused ==
    { [Plain EXCEPT !.named = FALSE], [Submitting EXCEPT !.metadata = FALSE],
      Option("development", {"InventoryMemberUniqueness"}, "", 0),
      Option("development", {"unknown"}, "", 0), Filter(Submitting, {"Namespaced"}),
      Filter(Plain, {}), [Filter(Plain, {}) EXCEPT !.filterParses = FALSE] }

\* A custom discovery client matters from the first request on.
Custom == {[Submitting EXCEPT !.client = "custom"]}

AllOptions == Running \cup Refused \cup Custom

FewOptions == {Plain, Submitting, Filter(Plain, {})}
=============================================================================
