---------------------------- MODULE ReportFiles ----------------------------
(***************************************************************************)
(* The report directory (conformance/report.go): processes that write      *)
(* their reports into it with WriteReports, and processes that read it     *)
(* with GenerateMatrix, all at once.  A system call may fail, and a writer *)
(* may be killed between any two of them.                                  *)
(*                                                                         *)
(* A file is named by the writer that creates it and the turn of its loop. *)
(* os.CreateTemp draws names at random; the model takes it that no name is *)
(* drawn twice, and writes the temporary name of a file as the file        *)
(* itself.  A process that has a file open keeps it, whatever happens to   *)
(* the names.                                                              *)
(***************************************************************************)
EXTENDS Naturals, Sequences, FiniteSets, SequencesExt

CONSTANTS
    Writers,   \* processes that call WriteReports once
    Readers,   \* processes that call GenerateMatrix once
    Requests,  \* what writers are asked for, see RequestType
    Absent     \* no file

Formats == {"html", "yaml"}

\* accepted: the report is valid as a submission.
RequestType == [formats : Seq(STRING), perAPI : BOOLEAN, accepted : BOOLEAN]

Reports == [base : {"report", "report-clusterprofile"}, format : Formats]

Files == [writer : Writers, turn : Nat \ {0}]

ASSUME FilesAssumption ==
    /\ Requests \subseteq RequestType
    /\ Writers \cap Readers = {}
    /\ Absent \notin Writers \cup Files

VARIABLES
    request,  \* request[w]: what call w is asked for
    pc,       \* pc[w], pc[r]: where each process is
    killed,   \* writers that were killed
    before,   \* before[w]: history, the writers that had stopped when w started
    step,     \* step[w]: turn of the loop, a position in the list of formats
    err,      \* err[w]: the calls whose errors WriteReports returns
    temps,    \* files that are in the directory under their temporary name
    reports,  \* reports[p]: the file that is there as report p, or Absent
    whole,    \* files that are written completely
    found,    \* found[r]: history, the reports there when r began its walk
    todo,     \* todo[r]: names that the walk of r will still visit
    opened,   \* opened[r]: the file that r reads
    rows      \* rows[r]: the files that are rows of the matrix of r

directory == <<temps, reports, whole>>

reading == <<found, todo, opened, rows>>

vars == <<request, pc, killed, before, step, err, directory, reading>>

\* The turns of the loop: slices.Compact drops a format that equals the one
\* before it.
Turns(w) ==
    LET formats == request[w].formats
    IN  {n \in DOMAIN formats : n = 1 \/ formats[n] # formats[n - 1]}

\* The report that file f of writer f.writer is written for.
PathOf(f) ==
    [base |-> IF request[f.writer].perAPI THEN "report-clusterprofile" ELSE "report",
     format |-> request[f.writer].formats[f.turn]]

File(w, n) == [writer |-> w, turn |-> n]

Current(w) == File(w, step[w])

Init ==
    /\ request \in [Writers -> Requests]
    /\ pc = [p \in Writers \cup Readers |-> "start"]
    /\ killed = {}
    /\ before = [w \in Writers |-> {}]
    /\ step = [w \in Writers |-> 1]
    /\ err = [w \in Writers |-> {}]
    /\ temps = {} /\ whole = {}
    /\ reports = [p \in Reports |-> Absent]
    /\ found = [r \in Readers |-> {}]
    /\ todo = [r \in Readers |-> {}]
    /\ opened = [r \in Readers |-> Absent]
    /\ rows = [r \in Readers |-> {}]

Goto(p, l) == pc' = [pc EXCEPT ![p] = l]

-----------------------------------------------------------------------------
(* WriteReports.                                                           *)

Continue(w, l) == Goto(w, l) /\ UNCHANGED err

\* The named call failed.
Fails(w, call, l) == Goto(w, l) /\ err' = [err EXCEPT ![w] = @ \cup {call}]

Acceptable(w) == request[w].formats # << >> /\ Range(request[w].formats) \subseteq Formats

\* The formats are checked and the directory is made before any file is.
Start(w) ==
    /\ pc[w] = "start"
    /\ \/ Fails(w, IF Acceptable(w) THEN "mkdir" ELSE "formats", "done")
       \/ Acceptable(w) /\ Continue(w, "create")
    /\ before' = [before EXCEPT ![w] = killed \cup {v \in Writers : pc[v] = "done"}]
    /\ UNCHANGED <<step, directory>>

\* A failed rendering, which comes first, ends the call like a failed create.
CreateTemp(w) ==
    /\ pc[w] = "create"
    /\ \/ Fails(w, "create", "done") /\ UNCHANGED temps
       \/ temps' = temps \cup {Current(w)} /\ Continue(w, "write")
    /\ UNCHANGED <<before, step, reports, whole>>

\* Mutant: the error of the write is forgotten.
MutForgetWriteError(w) == Continue(w, "chmod")

\* file.Write or file.Close fails.
WriteFails(w) == Fails(w, "write", "remove")

Write(w) ==
    /\ pc[w] = "write"
    /\ \/ WriteFails(w) /\ UNCHANGED whole
       \/ whole' = whole \cup {Current(w)} /\ Continue(w, "chmod")
    /\ UNCHANGED <<before, step, temps, reports>>

Chmod(w) ==
    /\ pc[w] = "chmod"
    /\ Fails(w, "chmod", "remove") \/ Continue(w, "rename")
    /\ UNCHANGED <<before, step, directory>>

\* Mutant: the error of the rename is dropped.
MutRenameErrorDropped(w) == Continue(w, "remove")

RenameFails(w) == Fails(w, "rename", "remove")

Rename(w) ==
    /\ pc[w] = "rename"
    /\ \/ RenameFails(w) /\ UNCHANGED <<temps, reports>>
       \/ /\ reports' = [reports EXCEPT ![PathOf(Current(w))] = Current(w)]
          /\ temps' = temps \ {Current(w)}
          /\ Continue(w, "remove")
    /\ UNCHANGED <<before, step, whole>>

Later(w) == {n \in Turns(w) : n > step[w]}

\* Mutant: the position moves on after the last format, too.
MutNextFormat(w) ==
    /\ step' = [step EXCEPT ![w] = @ + 1]
    /\ Goto(w, IF Later(w) # {} THEN "create" ELSE "done")

NextFormat(w) ==
    \/ \E n \in Later(w) :
          /\ \A m \in Later(w) : n <= m
          /\ step' = [step EXCEPT ![w] = n] /\ Goto(w, "create")
    \/ Later(w) = {} /\ UNCHANGED step /\ Goto(w, "done")

\* Mutant: os.Remove is not called.
MutKeepTemp(w) == temps

RemoveTemp(w) == temps \ {Current(w)}

\* The deferred call of atomicWrite; a missing file is no error to it.
DeferredRemove(w) ==
    /\ pc[w] = "remove"
    /\ \/ Fails(w, "remove", "done") /\ UNCHANGED <<step, temps>>
       \/ /\ temps' = RemoveTemp(w)
          /\ \/ err[w] = {} /\ NextFormat(w)
             \/ err[w] # {} /\ Goto(w, "done") /\ UNCHANGED step
          /\ UNCHANGED err
    /\ UNCHANGED <<before, reports, whole>>

WriterStep(w) ==
    /\ w \notin killed
    /\ \/ Start(w) \/ CreateTemp(w) \/ Write(w) \/ Chmod(w) \/ Rename(w)
       \/ DeferredRemove(w)
    /\ UNCHANGED <<request, killed, reading>>

\* The process ends; what it did to the directory stays.
Kill(w) ==
    /\ pc[w] \notin {"start", "done"}
    /\ killed' = killed \cup {w}
    /\ UNCHANGED <<request, pc, before, step, err, directory, reading>>

-----------------------------------------------------------------------------
(* GenerateMatrix.                                                         *)

Present == {p \in Reports : reports[p] # Absent}

\* Mutant: every file in the directory counts as a report.
MutAnyName(name) == TRUE

IsYAML(name) == name \in Reports /\ name.format = "yaml"

FileAt(name) ==
    IF name \in Reports THEN reports[name]
    ELSE IF name \in temps THEN name ELSE Absent

\* WalkDir reads the names first, or fails, and visits the files later.
Walk(r) ==
    /\ pc[r] = "start"
    /\ \/ Goto(r, "unreadable") /\ UNCHANGED <<todo, found>>
       \/ /\ todo' = [todo EXCEPT ![r] = {n \in Present \cup temps : IsYAML(n)}]
          /\ found' = [found EXCEPT ![r] = {p \in Present : p.format = "yaml"}]
          /\ Goto(r, "visit")
    /\ UNCHANGED <<opened, rows>>

\* os.ReadFile opens the file and then reads it; it may also fail on a file
\* that is there.
Open(r) ==
    /\ pc[r] = "visit"
    /\ \E n \in todo[r] :
          \/ /\ Goto(r, IF FileAt(n) = Absent THEN "failed" ELSE "unreadable")
             /\ UNCHANGED <<todo, opened>>
          \/ /\ FileAt(n) # Absent
             /\ todo' = [todo EXCEPT ![r] = @ \ {n}]
             /\ opened' = [opened EXCEPT ![r] = FileAt(n)]
             /\ Goto(r, "read")
    /\ UNCHANGED <<found, rows>>

\* What decodes as one report and validates as a submission.
Valid(f) == f \in whole /\ request[f.writer].accepted

\* Mutant: a bad file is left out of the matrix.
MutSkip(r) == Goto(r, "visit")

Reject(r) == Goto(r, "failed")

\* ReadReport and ValidateReport; one bad file fails the whole matrix.
Read(r) ==
    /\ pc[r] = "read"
    /\ \/ ~Valid(opened[r]) /\ Reject(r) /\ UNCHANGED rows
       \/ /\ Valid(opened[r])
          /\ rows' = [rows EXCEPT ![r] = @ \cup {opened[r]}]
          /\ Goto(r, "visit")
    /\ UNCHANGED <<found, todo, opened>>

\* The matrix is written out only after the walk; the write may fail.
WriteMatrix(r) ==
    /\ pc[r] = "visit" /\ todo[r] = {}
    /\ Goto(r, "written") \/ Goto(r, "unwritten")
    /\ UNCHANGED reading

ReaderStep(r) ==
    /\ Walk(r) \/ Open(r) \/ Read(r) \/ WriteMatrix(r)
    /\ UNCHANGED <<request, killed, before, step, err, directory>>

-----------------------------------------------------------------------------
Next ==
    \/ \E w \in Writers : WriterStep(w) \/ Kill(w)
    \/ \E r \in Readers : ReaderStep(r)

Spec == Init /\ [][Next]_vars

-----------------------------------------------------------------------------
WriterSteps == {"start", "create", "write", "chmod", "rename", "remove", "done"}

ReaderSteps == {"start", "visit", "read", "written", "unwritten", "failed", "unreadable"}

TypeOK ==
    /\ request \in [Writers -> Requests]
    /\ DOMAIN pc = Writers \cup Readers
    /\ \A w \in Writers : pc[w] \in WriterSteps
    /\ \A r \in Readers : pc[r] \in ReaderSteps
    /\ killed \subseteq Writers
    /\ before \in [Writers -> SUBSET Writers]
    /\ step \in [Writers -> Nat \ {0}]
    /\ \A w \in Writers : step[w] > 1 => step[w] \in Turns(w)
    /\ err \in [Writers -> SUBSET {"formats", "mkdir", "create", "write", "chmod",
                                   "rename", "remove"}]
    /\ temps \subseteq Files /\ whole \subseteq Files
    /\ reports \in [Reports -> Files \cup {Absent}]
    /\ found \in [Readers -> SUBSET Reports]
    /\ todo \in [Readers -> SUBSET Reports]
    /\ opened \in [Readers -> Files \cup {Absent}]
    /\ rows \in [Readers -> SUBSET Files]

\* A report is there completely, under the name it was written for, or not at
\* all, whichever calls fail and whenever a writer is killed.
NeverTorn ==
    \A p \in Reports :
        reports[p] # Absent => reports[p] \in whole /\ p = PathOf(reports[p])

\* A call with unacceptable formats is asked for nothing.
Asked(w) ==
    IF Acceptable(w) THEN {PathOf(File(w, n)) : n \in Turns(w)} ELSE {}

Renamed(w) ==
    {n \in Turns(w) :
        \/ n < step[w]
        \/ n = step[w] /\ pc[w] = "remove" /\ err[w] = {}
        \/ n = step[w] /\ pc[w] = "done" /\ err[w] \subseteq {"remove"}}

Store == INSTANCE ReportStore WITH
    paths <- [w \in Writers |-> Asked(w)],
    file <- [p \in Reports |-> IF reports[p] = Absent THEN Absent
                               ELSE IF reports[p] \in whole THEN reports[p].writer
                               ELSE "torn"],
    replaced <- [w \in Writers |-> {PathOf(File(w, n)) : n \in Renamed(w)}],
    result <- [w \in Writers |-> IF pc[w] # "done" THEN "none"
                                 ELSE IF err[w] = {} THEN "nil" ELSE "error"]

\* "WriteReports atomically replaces each file after rendering is complete":
\* the directory is a ReportStore.
WritesAtomically == Store!Spec

\* Temporary files do not pile up: one that is there belongs to a call that is
\* still running, to a process that was killed, or its removal failed.
NoLitter ==
    \A f \in temps : f.writer \in killed \/ pc[f.writer] # "done" \/ "remove" \in err[f.writer]

\* The formats of one call agree: after a successful call that met no other
\* call, only the traces of calls that stopped or were killed before it,
\* every report that it was asked for is its own.
Alone(w) == \A v \in Writers \ {w} : pc[v] = "start" \/ v \in before[w]

SuccessReplacesAll ==
    \A w \in Writers :
        Alone(w) /\ pc[w] = "done" /\ err[w] = {} =>
            /\ Asked(w) # {}
            /\ \A p \in Asked(w) : reports[p] # Absent /\ reports[p].writer = w

\* Where the directory and its files can be read and the matrix can be written
\* GenerateMatrix fails only for a report that cannot be accepted, never because
\* somebody replaces files while it reads them.
MatrixErrorIsJustified ==
    \A r \in Readers :
        pc[r] = "failed" => opened[r] # Absent /\ ~request[opened[r].writer].accepted

\* A matrix that is written out has one row, from an acceptable and complete
\* report, for each report that was there when the walk began.
MatrixIsComplete ==
    \A r \in Readers :
        pc[r] = "written" =>
            /\ {PathOf(f) : f \in rows[r]} = found[r]
            /\ Cardinality(rows[r]) = Cardinality(found[r])
            /\ \A f \in rows[r] : Valid(f)
=============================================================================
