------------------------- MODULE InformerLifecycle -------------------------
(***************************************************************************)
(* What the informer factory (client/informers/externalversions) promises: *)
(* one informer per type, which runs at most once; when a Shutdown has     *)
(* returned nothing runs, and nothing will run again.                      *)
(***************************************************************************)
CONSTANT Types  \* Go types that informers exist for

VARIABLES
    phase,  \* phase[t]: what has become of the informer for t
    down    \* "no"; "begun" once Shutdown is called; "done" once it returns

vars == <<phase, down>>

Init ==
    /\ phase = [t \in Types |-> "absent"]
    /\ down = "no"

Move(t, from, to) ==
    /\ phase[t] = from
    /\ phase' = [phase EXCEPT ![t] = to]
    /\ UNCHANGED down

Create(t) == Move(t, "absent", "created")

Run(t) == down = "no" /\ Move(t, "created", "running")

Stop(t) == Move(t, "running", "stopped")

BeginShutdown ==
    /\ down = "no" /\ down' = "begun"
    /\ UNCHANGED phase

EndShutdown ==
    /\ down = "begun" /\ \A t \in Types : phase[t] # "running"
    /\ down' = "done"
    /\ UNCHANGED phase

Next ==
    \/ \E t \in Types : Create(t) \/ Run(t) \/ Stop(t)
    \/ BeginShutdown \/ EndShutdown

Spec == Init /\ [][Next]_vars
=============================================================================
