---------------------------- MODULE ReportStore ----------------------------
(***************************************************************************)
(* What WriteReports (conformance/report.go) promises of the files of a    *)
(* report directory: a file changes in one step, from absent or one report *)
(* to another report, and a call that returns no error has replaced every  *)
(* file that it was asked for.                                             *)
(***************************************************************************)
CONSTANTS
    Writers,  \* calls of WriteReports, each with a report of its own
    Reports,  \* paths of report files
    Absent    \* the content of a path without a file

VARIABLES
    paths,    \* paths[w]: the files that call w is asked for
    file,     \* file[p]: the call whose report p holds, or Absent
    replaced, \* replaced[w]: the files that call w has replaced
    result    \* result[w]: "none", "nil" or "error"

vars == <<paths, file, replaced, result>>

Init ==
    /\ paths \in [Writers -> SUBSET Reports]
    /\ file = [p \in Reports |-> Absent]
    /\ replaced = [w \in Writers |-> {}]
    /\ result = [w \in Writers |-> "none"]

Replace(w, p) ==
    /\ result[w] = "none" /\ p \in paths[w]
    /\ file' = [file EXCEPT ![p] = w]
    /\ replaced' = [replaced EXCEPT ![w] = @ \cup {p}]
    /\ UNCHANGED <<paths, result>>

\* Nothing is asked of a call without formats: it fails.
Succeed(w) ==
    /\ result[w] = "none"
    /\ paths[w] # {} /\ replaced[w] = paths[w]
    /\ result' = [result EXCEPT ![w] = "nil"]
    /\ UNCHANGED <<paths, file, replaced>>

\* An error tells nothing about the files replaced before it.
Fail(w) ==
    /\ result[w] = "none"
    /\ result' = [result EXCEPT ![w] = "error"]
    /\ UNCHANGED <<paths, file, replaced>>

Next ==
    \E w \in Writers : Succeed(w) \/ Fail(w) \/ \E p \in Reports : Replace(w, p)

Spec == Init /\ [][Next]_vars
=============================================================================
