------------------------- MODULE MCInformerFactory -------------------------
(* Instances of InformerFactory for TLC.                                   *)
EXTENDS InformerFactory, SequencesExt

CONSTANTS t1, t2, unknown, s1, s2, u1, u2, none

For(t)    == [op |-> "ForResource", type |-> t]
Run(s)    == [op |-> "Start", stop |-> s]
Wait(s)   == [op |-> "WaitForCacheSync", stop |-> s]
Cancel(s) == [op |-> "close", stop |-> s]
Down      == [op |-> "Shutdown"]

AllTypes == {t1, t2}
AllStops == {s1, s2}
Both     == {u1, u2}

\* Two controllers of one process with a stop channel each.  Each makes its
\* calls in any order: informers are requested after Start and after Shutdown,
\* and Start comes too late.
AnyOrder ==
    (u1 :> SetToSeqs({For(t1), Run(s1), Cancel(s1)})) @@
    (u2 :> SetToSeqs({For(t1), Run(s2), Wait(s2), Cancel(s2), Down}))

\* Both ask for both types in the usual order, one of them twice, and one of
\* them shuts the factory down.
UsualOrder ==
    (u1 :> {<<For(t1), For(unknown), For(t2), Run(s1), Wait(s1), Cancel(s1), Down>>}) @@
    (u2 :> {<<For(t2), Run(s2), For(t1), Run(s2), Wait(s2), Cancel(s2)>>})

\* The comment on SharedInformerFactory defers cancel first and the wait for the
\* informers second, so that the wait comes first.  The other user never
\* closes its channel, and runs the informers of both.
NeverClosed ==
    (u1 :> {<<For(t1), Run(s1), Wait(s1), For(t2), Run(s1), Down, Cancel(s1)>>}) @@
    (u2 :> {<<For(t2), Run(s2), Wait(s2)>>})

\* All of it: any order with any order, and the others beside each.
AllScripts == [u \in Both |-> AnyOrder[u] \cup UsualOrder[u] \cup NeverClosed[u]]
=============================================================================
