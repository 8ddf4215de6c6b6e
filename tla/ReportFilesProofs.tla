------------------------- MODULE ReportFilesProofs -------------------------
(***************************************************************************)
(* Proofs about the report directory, for any number of writers and        *)
(* readers and whatever the writers are asked for: its types, that reports *)
(* are never torn, that no temporary file is left behind, that a call that *)
(* meets no other owns what it was asked for, that the directory is a      *)
(* ReportStore, and what GenerateMatrix sees of it.                        *)
(***************************************************************************)
EXTENDS ReportFiles, FiniteSetTheorems, FunctionTheorems, TLAPS

-----------------------------------------------------------------------------
(* Requests.                                                               *)

\* Nothing that is computed from the requests alone changes.
LEMMA RequestsStay ==
    ASSUME UNCHANGED request
    PROVE  /\ \A f : PathOf(f)' = PathOf(f)
           /\ \A w : Turns(w)' = Turns(w) /\ (Acceptable(w)' <=> Acceptable(w))
           /\ \A w : Asked(w)' = Asked(w)
  BY DEF PathOf, Turns, Acceptable, Asked, File

\* Turns are positions in the list of formats, and every list that is not
\* empty has a first.
LEMMA TurnsOfRequest ==
    ASSUME request \in [Writers -> Requests], NEW w \in Writers
    PROVE  /\ request[w].formats \in Seq(STRING)
           /\ Turns(w) \subseteq Nat \ {0}
           /\ Acceptable(w) => 1 \in Turns(w)
           /\ Acceptable(w) => \A n \in Turns(w) : request[w].formats[n] \in Formats
  <1>1. request[w] \in RequestType
    BY FilesAssumption
  <1>2. request[w].formats \in Seq(STRING)
    BY <1>1 DEF RequestType
  <1>3. DOMAIN request[w].formats = 1..Len(request[w].formats)
        /\ Len(request[w].formats) \in Nat
    BY <1>2
  <1>4. Turns(w) \subseteq Nat \ {0}
    BY <1>3 DEF Turns
  <1>5. ASSUME Acceptable(w) PROVE 1 \in Turns(w)
    BY <1>2, <1>3, <1>5 DEF Acceptable, Turns
  <1>6. ASSUME Acceptable(w), NEW n \in Turns(w)
        PROVE  request[w].formats[n] \in Formats
    BY <1>6 DEF Acceptable, Turns, Range
  <1> QED
    BY <1>2, <1>4, <1>5, <1>6

\* What an acceptable call is asked for are reports.
LEMMA AskedAreReports ==
    ASSUME request \in [Writers -> Requests], NEW w \in Writers
    PROVE  /\ Asked(w) \subseteq Reports
           /\ \A n \in Turns(w) : Acceptable(w) => PathOf(File(w, n)) \in Asked(w)
  <1>1. ASSUME Acceptable(w), NEW n \in Turns(w)
        PROVE  PathOf(File(w, n)) \in Reports
    BY <1>1, TurnsOfRequest DEF PathOf, File, Reports
  <1> QED
    BY <1>1 DEF Asked

-----------------------------------------------------------------------------
(* Typing.                                                                 *)

LEMMA TypeInit == Init => TypeOK
  <1> SUFFICES ASSUME Init PROVE TypeOK
    OBVIOUS
  <1>1. \A w \in Writers : w \in Writers \cup Readers
    OBVIOUS
  <1> QED
    BY FilesAssumption DEF Init, TypeOK, WriterSteps, ReaderSteps

\* A step of a writer changes its own place only.
LEMMA WriterGoes ==
    ASSUME TypeOK, NEW w \in Writers, NEW l \in WriterSteps, Goto(w, l)
    PROVE  /\ DOMAIN pc' = Writers \cup Readers
           /\ \A v \in Writers : pc'[v] \in WriterSteps
           /\ \A r \in Readers : pc'[r] \in ReaderSteps
           /\ pc'[w] = l
           /\ \A p \in (Writers \cup Readers) \ {w} : pc'[p] = pc[p]
  BY FilesAssumption DEF TypeOK, Goto

LEMMA ReaderGoes ==
    ASSUME TypeOK, NEW r \in Readers, NEW l \in ReaderSteps, Goto(r, l)
    PROVE  /\ DOMAIN pc' = Writers \cup Readers
           /\ \A v \in Writers : pc'[v] \in WriterSteps
           /\ \A s \in Readers : pc'[s] \in ReaderSteps
           /\ pc'[r] = l
           /\ \A p \in (Writers \cup Readers) \ {r} : pc'[p] = pc[p]
  BY FilesAssumption DEF TypeOK, Goto

Calls == {"formats", "mkdir", "create", "write", "chmod", "rename", "remove"}

\* Where the steps of a writer lead, and which errors they record.
WriterEnd(w) ==
    \E l \in WriterSteps \ {"start"}, e \in SUBSET Calls :
        Goto(w, l) /\ err' = [err EXCEPT ![w] = e]

LEMMA WriterOutcome ==
    ASSUME TypeOK, NEW w \in Writers, WriterStep(w)
    PROVE  WriterEnd(w)
  <1>1. err[w] \in SUBSET Calls /\ err = [err EXCEPT ![w] = err[w]]
    BY DEF TypeOK, Calls
  <1>2. ASSUME NEW c \in Calls, NEW l \in WriterSteps \ {"start"}, Fails(w, c, l)
        PROVE  WriterEnd(w)
    BY <1>1, <1>2 DEF Fails, WriterEnd
  <1>3. ASSUME NEW l \in WriterSteps \ {"start"}, Continue(w, l)
        PROVE  WriterEnd(w)
    BY <1>1, <1>3 DEF Continue, WriterEnd
  <1>4. /\ {"create", "write", "chmod", "rename", "remove", "done"}
                \subseteq WriterSteps \ {"start"}
        /\ {"formats", "mkdir", "create", "write", "chmod", "rename", "remove"}
                \subseteq Calls
    BY DEF WriterSteps, Calls
  <1>5. CASE Start(w)
    BY <1>2, <1>3, <1>4, <1>5 DEF Start
  <1>6. CASE CreateTemp(w)
    BY <1>2, <1>3, <1>4, <1>6 DEF CreateTemp
  <1>7. CASE Write(w)
    BY <1>2, <1>3, <1>4, <1>7 DEF Write, WriteFails
  <1>8. CASE Chmod(w)
    BY <1>2, <1>3, <1>4, <1>8 DEF Chmod
  <1>9. CASE Rename(w)
    BY <1>2, <1>3, <1>4, <1>9 DEF Rename, RenameFails
  <1>10. CASE DeferredRemove(w)
    <2>1. CASE Fails(w, "remove", "done")
      BY <1>2, <1>4, <2>1
    <2>2. CASE UNCHANGED err /\ \E l \in {"create", "done"} : Goto(w, l)
      BY <1>3, <1>4, <2>2 DEF Continue
    <2> QED
      BY <1>10, <2>1, <2>2 DEF DeferredRemove, NextFormat
  <1> QED
    BY <1>5, <1>6, <1>7, <1>8, <1>9, <1>10 DEF WriterStep

\* What the steps of a writer do to the turns and the directory.
LEMMA DirectoryOutcome ==
    ASSUME TypeOK, NEW w \in Writers, WriterStep(w)
    PROVE  /\ before' \in [Writers -> SUBSET Writers]
           /\ step' \in [Writers -> Nat \ {0}]
           /\ \A v \in Writers : step'[v] > 1 => step'[v] \in Turns(v)
           /\ temps' \subseteq Files /\ whole' \subseteq Files
           /\ reports' \in [Reports -> Files \cup {Absent}]
  <1>1. Current(w) \in Files
    BY DEF TypeOK, Current, File, Files
  <1>2. CASE Start(w)
    BY <1>2 DEF Start, directory, TypeOK
  <1>3. CASE CreateTemp(w)
    BY <1>1, <1>3 DEF CreateTemp, TypeOK
  <1>4. CASE Write(w)
    BY <1>1, <1>4 DEF Write, TypeOK
  <1>5. CASE Chmod(w)
    BY <1>5 DEF Chmod, directory, TypeOK
  <1>6. CASE Rename(w)
    BY <1>1, <1>6 DEF Rename, TypeOK
  <1>7. CASE DeferredRemove(w)
    <2>1. Turns(w) \subseteq Nat \ {0}
      BY TurnsOfRequest DEF TypeOK
    <2>2. UNCHANGED step \/ \E n \in Turns(w) : step' = [step EXCEPT ![w] = n]
      BY <1>7 DEF DeferredRemove, NextFormat, Later
    <2>3. /\ step' \in [Writers -> Nat \ {0}]
          /\ \A v \in Writers : step'[v] > 1 => step'[v] \in Turns(v)
      BY <2>1, <2>2 DEF TypeOK
    <2>4. temps' \subseteq Files
      BY <1>7 DEF DeferredRemove, RemoveTemp, TypeOK
    <2> QED
      BY <1>7, <2>3, <2>4 DEF DeferredRemove, TypeOK
  <1> QED
    BY <1>2, <1>3, <1>4, <1>5, <1>6, <1>7 DEF WriterStep

\* What a reader opens is a file, and only reports are on its list.
LEMMA ReadingOutcome ==
    ASSUME TypeOK, NEW r \in Readers, ReaderStep(r)
    PROVE  /\ found' \in [Readers -> SUBSET Reports]
           /\ todo' \in [Readers -> SUBSET Reports]
           /\ opened' \in [Readers -> Files \cup {Absent}]
           /\ rows' \in [Readers -> SUBSET Files]
           /\ \E l \in ReaderSteps : Goto(r, l) /\ l # "start"
  <1>1. CASE Walk(r)
    BY <1>1 DEF Walk, IsYAML, Present, TypeOK, ReaderSteps
  <1>2. CASE Open(r)
    <2>1. \A n \in todo[r] : FileAt(n) \in Files \cup {Absent}
      BY DEF FileAt, TypeOK
    <2>2. \E l \in ReaderSteps : Goto(r, l) /\ l # "start"
      BY <1>2 DEF Open, ReaderSteps
    <2>3. \E n \in todo[r] :
             \/ UNCHANGED <<todo, opened>>
             \/ /\ todo' = [todo EXCEPT ![r] = todo[r] \ {n}]
                /\ opened' = [opened EXCEPT ![r] = FileAt(n)]
      BY <1>2 DEF Open
    <2>4. /\ todo' \in [Readers -> SUBSET Reports]
          /\ opened' \in [Readers -> Files \cup {Absent}]
      BY <2>1, <2>3 DEF TypeOK
    <2> QED
      BY <1>2, <2>2, <2>4 DEF Open, TypeOK
  <1>3. CASE Read(r)
    <2>1. Valid(opened[r]) => opened[r] \in Files
      BY DEF Valid, TypeOK
    <2>2. rows' \in [Readers -> SUBSET Files]
      BY <1>3, <2>1 DEF Read, TypeOK
    <2> QED
      BY <1>3, <2>2 DEF Read, Reject, TypeOK, ReaderSteps
  <1>4. CASE WriteMatrix(r)
    BY <1>4 DEF WriteMatrix, reading, TypeOK, ReaderSteps
  <1> QED
    BY <1>1, <1>2, <1>3, <1>4 DEF ReaderStep

LEMMA TypeStep == TypeOK /\ [Next]_vars => TypeOK'
  <1> SUFFICES ASSUME TypeOK, [Next]_vars PROVE TypeOK'
    OBVIOUS
  <1>0. UNCHANGED request
    BY DEF Next, WriterStep, Kill, ReaderStep, vars
  <1>1. \A w : Turns(w)' = Turns(w)
    BY <1>0, RequestsStay
  <1>2. ASSUME NEW w \in Writers, WriterStep(w) PROVE TypeOK'
    <2>1. PICK l \in WriterSteps, e \in SUBSET Calls :
             Goto(w, l) /\ err' = [err EXCEPT ![w] = e]
      BY <1>2, WriterOutcome DEF WriterEnd
    <2>2. err' \in [Writers -> SUBSET Calls]
      BY <2>1 DEF TypeOK, Calls
    <2>3. /\ DOMAIN pc' = Writers \cup Readers
          /\ \A v \in Writers : pc'[v] \in WriterSteps
          /\ \A r \in Readers : pc'[r] \in ReaderSteps
      BY <2>1, WriterGoes
    <2>4. UNCHANGED <<killed, found, todo, opened, rows>>
      BY <1>2 DEF WriterStep, reading
    <2> QED
      BY <1>0, <1>1, <1>2, <2>2, <2>3, <2>4, DirectoryOutcome DEF TypeOK, Calls
  <1>3. ASSUME NEW w \in Writers, Kill(w) PROVE TypeOK'
    BY <1>1, <1>3 DEF Kill, TypeOK, directory, reading
  <1>4. ASSUME NEW r \in Readers, ReaderStep(r) PROVE TypeOK'
    <2>1. /\ DOMAIN pc' = Writers \cup Readers
          /\ \A v \in Writers : pc'[v] \in WriterSteps
          /\ \A s \in Readers : pc'[s] \in ReaderSteps
      BY <1>4, ReadingOutcome, ReaderGoes
    <2>2. UNCHANGED <<request, killed, before, step, err, temps, reports, whole>>
      BY <1>4 DEF ReaderStep, directory
    <2> QED
      BY <1>1, <1>4, <2>1, <2>2, ReadingOutcome DEF TypeOK
  <1>5. CASE UNCHANGED vars
    BY <1>1, <1>5 DEF vars, directory, reading, TypeOK
  <1> QED
    BY <1>2, <1>3, <1>4, <1>5 DEF Next

\* Every variable keeps its type, and a call that is past its first turn is at
\* a turn of its own list of formats.
THEOREM ReportFilesTypes == Spec => []TypeOK
  BY TypeInit, TypeStep, PTL DEF Spec

-----------------------------------------------------------------------------
(* Writers.                                                                *)

\* What is known of a writer at each place of its code.
WriterAt(w) ==
    /\ pc[w] = "start" => step[w] = 1 /\ err[w] = {} /\ w \notin killed
    /\ pc[w] \in {"create", "write", "chmod", "rename"} => err[w] = {}
    /\ pc[w] \in {"chmod", "rename"} => Current(w) \in whole
    /\ pc[w] = "remove" => "remove" \notin err[w]
    /\ pc[w] \notin {"start", "done"} => Acceptable(w) /\ step[w] \in Turns(w)
    /\ pc[w] = "done" /\ err[w] \subseteq {"remove"} =>
          Acceptable(w) /\ step[w] \in Turns(w)
    /\ pc[w] = "done" /\ err[w] = {} => Later(w) = {}

WriterInv == \A w \in Writers : WriterAt(w)

LEMMA WriterInit == Init => WriterInv
  <1> SUFFICES ASSUME Init, NEW w \in Writers PROVE WriterAt(w)
    BY DEF WriterInv
  <1> QED
    BY DEF Init, WriterAt

\* A process that stays where it is stays as it is: files that are complete
\* remain so.
LEMMA WriterStays ==
    ASSUME NEW w \in Writers, WriterAt(w), UNCHANGED request, whole \subseteq whole',
           pc'[w] = pc[w], step'[w] = step[w], err'[w] = err[w],
           w \in killed' => w \in killed \/ pc[w] # "start"
    PROVE  WriterAt(w)'
  BY RequestsStay DEF WriterAt, Current, File, Later

LEMMA WholeGrows ==
    ASSUME NEW w \in Writers, WriterStep(w)
    PROVE  whole \subseteq whole'
  BY DEF WriterStep, Start, CreateTemp, Write, Chmod, Rename, DeferredRemove, directory

LEMMA WriterInvStep ==
    ASSUME TypeOK, WriterInv, NEW w \in Writers, WriterStep(w)
    PROVE  WriterAt(w)'
  <1>0. UNCHANGED request /\ WriterAt(w)
    BY DEF WriterStep, WriterInv
  <1>1. (\A v : Turns(v)' = Turns(v)) /\ (Acceptable(w)' <=> Acceptable(w))
    BY <1>0, RequestsStay
  <1>2. Acceptable(w) => 1 \in Turns(w)
    BY TurnsOfRequest DEF TypeOK
  <1>3. ASSUME NEW l, Goto(w, l) PROVE pc'[w] = l
    BY <1>3 DEF TypeOK, Goto
  <1>4. ASSUME NEW c, NEW l, Fails(w, c, l)
        PROVE  pc'[w] = l /\ err'[w] = err[w] \cup {c}
    BY <1>4 DEF TypeOK, Goto, Fails
  <1>5. ASSUME NEW l, Continue(w, l) PROVE pc'[w] = l /\ err'[w] = err[w]
    BY <1>5 DEF TypeOK, Goto, Continue
  <1>6. CASE Start(w)
    <2>1. step'[w] = 1 /\ err[w] = {}
      BY <1>0, <1>6 DEF Start, WriterAt
    <2>2. CASE Fails(w, IF Acceptable(w) THEN "mkdir" ELSE "formats", "done")
      <3>1. pc'[w] = "done" /\ (err'[w] = {"mkdir"} \/ err'[w] = {"formats"})
        BY <1>4, <2>1, <2>2
      <3> QED
        BY <3>1 DEF WriterAt
    <2>3. CASE Acceptable(w) /\ Continue(w, "create")
      <3>1. pc'[w] = "create" /\ err'[w] = {}
        BY <1>5, <2>1, <2>3
      <3> QED
        BY <1>1, <1>2, <2>1, <2>3, <3>1 DEF WriterAt
    <2> QED
      BY <1>6, <2>2, <2>3 DEF Start
  <1>7. CASE CreateTemp(w)
    <2>1. err[w] = {} /\ Acceptable(w) /\ step'[w] \in Turns(w)
      BY <1>0, <1>7 DEF CreateTemp, WriterAt
    <2>2. \/ pc'[w] = "done" /\ err'[w] = {"create"}
          \/ pc'[w] = "write" /\ err'[w] = {}
      BY <1>4, <1>5, <1>7, <2>1 DEF CreateTemp
    <2> QED
      BY <1>1, <2>1, <2>2 DEF WriterAt
  <1>8. CASE Write(w)
    <2>1. err[w] = {} /\ Acceptable(w) /\ step'[w] = step[w] /\ step[w] \in Turns(w)
      BY <1>0, <1>8 DEF Write, WriterAt
    <2>2. \/ pc'[w] = "remove" /\ err'[w] = {"write"}
          \/ pc'[w] = "chmod" /\ err'[w] = {} /\ Current(w) \in whole'
      BY <1>4, <1>5, <1>8, <2>1 DEF Write, WriteFails
    <2> QED
      BY <1>1, <2>1, <2>2 DEF WriterAt, Current, File
  <1>9. CASE Chmod(w)
    <2>1. /\ err[w] = {} /\ Acceptable(w) /\ step'[w] = step[w] /\ step[w] \in Turns(w)
          /\ Current(w) \in whole /\ whole' = whole
      BY <1>0, <1>9 DEF Chmod, WriterAt, directory
    <2>2. \/ pc'[w] = "remove" /\ err'[w] = {"chmod"}
          \/ pc'[w] = "rename" /\ err'[w] = {}
      BY <1>4, <1>5, <1>9, <2>1 DEF Chmod
    <2> QED
      BY <1>1, <2>1, <2>2 DEF WriterAt, Current, File
  <1>10. CASE Rename(w)
    <2>1. err[w] = {} /\ Acceptable(w) /\ step'[w] = step[w] /\ step[w] \in Turns(w)
      BY <1>0, <1>10 DEF Rename, WriterAt
    <2>2. pc'[w] = "remove" /\ (err'[w] = {"rename"} \/ err'[w] = {})
      BY <1>4, <1>5, <1>10, <2>1 DEF Rename, RenameFails
    <2> QED
      BY <1>1, <2>1, <2>2 DEF WriterAt
  <1>11. CASE DeferredRemove(w)
    <2>1. "remove" \notin err[w] /\ Acceptable(w) /\ step[w] \in Turns(w)
      BY <1>0, <1>11 DEF DeferredRemove, WriterAt
    <2>2. CASE Fails(w, "remove", "done") /\ UNCHANGED step
      <3>1. pc'[w] = "done" /\ err'[w] = err[w] \cup {"remove"}
        BY <1>4, <2>2
      <3> QED
        BY <1>1, <2>1, <2>2, <3>1 DEF WriterAt
    <2>3. CASE err[w] = {} /\ NextFormat(w) /\ UNCHANGED err
      <3>1. ASSUME NEW n \in Later(w), step' = [step EXCEPT ![w] = n], Goto(w, "create")
            PROVE  WriterAt(w)'
        <4>1. pc'[w] = "create" /\ step'[w] = n /\ n \in Turns(w)
          BY <1>3, <3>1 DEF Later, TypeOK
        <4> QED
          BY <1>1, <2>1, <2>3, <4>1 DEF WriterAt
      <3>2. CASE Later(w) = {} /\ UNCHANGED step /\ Goto(w, "done")
        <4>1. pc'[w] = "done" /\ step'[w] = step[w]
          BY <1>3, <3>2
        <4>2. Later(w)' = {}
          BY <1>1, <3>2 DEF Later
        <4> QED
          BY <1>1, <2>1, <2>3, <4>1, <4>2 DEF WriterAt
      <3> QED
        BY <2>3, <3>1, <3>2 DEF NextFormat
    <2>4. CASE err[w] # {} /\ Goto(w, "done") /\ UNCHANGED <<step, err>>
      <3>1. pc'[w] = "done"
        BY <1>3, <2>4
      <3>2. ~(err'[w] \subseteq {"remove"})
        BY <2>1, <2>4
      <3> QED
        BY <3>1, <3>2, <2>4 DEF WriterAt
    <2> QED
      BY <1>11, <2>2, <2>3, <2>4 DEF DeferredRemove
  <1> QED
    BY <1>6, <1>7, <1>8, <1>9, <1>10, <1>11 DEF WriterStep

\* Who is not the writer of a step stays where it is.
LEMMA OthersStay ==
    ASSUME TypeOK, NEW w \in Writers, WriterStep(w)
    PROVE  /\ \A v \in Writers \ {w} :
                 pc'[v] = pc[v] /\ step'[v] = step[v] /\ err'[v] = err[v]
           /\ \A r \in Readers : pc'[r] = pc[r]
           /\ pc[w] # "done" /\ pc'[w] # "start"
  <1>1. PICK l \in WriterSteps \ {"start"}, e \in SUBSET Calls :
           Goto(w, l) /\ err' = [err EXCEPT ![w] = e]
    BY WriterOutcome DEF WriterEnd
  <1>2. \A v \in Writers \ {w} : step'[v] = step[v]
    BY DEF TypeOK, WriterStep, Start, CreateTemp, Write, Chmod, Rename,
           DeferredRemove, NextFormat
  <1>3. \A v \in Writers \ {w} : err'[v] = err[v]
    BY <1>1 DEF TypeOK
  <1>4. pc[w] # "done"
    BY DEF WriterStep, Start, CreateTemp, Write, Chmod, Rename, DeferredRemove
  <1> QED
    BY <1>1, <1>2, <1>3, <1>4, WriterGoes, FilesAssumption

\* A reader changes nothing of what writers do.
LEMMA ReadersOnlyRead ==
    ASSUME TypeOK, NEW r \in Readers, ReaderStep(r)
    PROVE  /\ UNCHANGED <<request, killed, before, step, err, temps, reports, whole>>
           /\ \A w \in Writers : pc'[w] = pc[w]
           /\ \A s \in Readers \ {r} : pc'[s] = pc[s]
  <1>1. PICK l \in ReaderSteps : Goto(r, l)
    BY ReadingOutcome
  <1> QED
    BY <1>1, ReaderGoes, FilesAssumption DEF ReaderStep, directory

LEMMA WriterInvNext ==
    ASSUME TypeOK, WriterInv, [Next]_vars
    PROVE  WriterInv'
  <1> SUFFICES ASSUME NEW v \in Writers PROVE WriterAt(v)'
    BY DEF WriterInv
  <1>0. WriterAt(v)
    BY DEF WriterInv
  <1>1. ASSUME NEW w \in Writers, WriterStep(w) PROVE WriterAt(v)'
    <2>1. CASE v = w
      BY <1>1, <2>1, WriterInvStep
    <2>2. CASE v # w
      BY <1>0, <1>1, <2>2, OthersStay, WholeGrows, WriterStays DEF WriterStep
    <2> QED
      BY <2>1, <2>2
  <1>2. ASSUME NEW w \in Writers, Kill(w) PROVE WriterAt(v)'
    BY <1>0, <1>2, WriterStays DEF Kill, directory
  <1>3. ASSUME NEW r \in Readers, ReaderStep(r) PROVE WriterAt(v)'
    BY <1>0, <1>3, ReadersOnlyRead, WriterStays
  <1>4. CASE UNCHANGED vars
    BY <1>0, <1>4, WriterStays DEF vars, directory
  <1> QED
    BY <1>1, <1>2, <1>3, <1>4 DEF Next

-----------------------------------------------------------------------------
(* Reports and temporary files.                                            *)

\* A temporary file is the one its writer is at, or could not remove.
TempsInv ==
    \A f \in temps :
        /\ f = Current(f.writer)
        /\ \/ pc[f.writer] \in {"write", "chmod", "rename", "remove"}
           \/ pc[f.writer] = "done" /\ "remove" \in err[f.writer]

FilesInv == TypeOK /\ WriterInv /\ NeverTorn /\ TempsInv

LEMMA FilesInit == Init => FilesInv
  BY TypeInit, WriterInit DEF Init, FilesInv, NeverTorn, TempsInv

\* Only a rename changes reports; what it puts there is complete.
LEMMA ReportsChange ==
    ASSUME TypeOK, WriterInv, NEW w \in Writers, WriterStep(w)
    PROVE  \/ UNCHANGED reports
           \/ /\ pc[w] = "rename" /\ pc'[w] = "remove" /\ err'[w] = {}
              /\ UNCHANGED <<step, whole>>
              /\ Current(w) \in whole /\ Current(w) \in Files
              /\ reports' = [reports EXCEPT ![PathOf(Current(w))] = Current(w)]
  <1>1. ASSUME Rename(w), Continue(w, "remove")
        PROVE  /\ pc[w] = "rename" /\ pc'[w] = "remove" /\ err'[w] = {}
               /\ Current(w) \in whole /\ Current(w) \in Files
    BY <1>1 DEF Rename, Continue, Goto, TypeOK, WriterInv, WriterAt
  <1> QED
    BY <1>1 DEF WriterStep, Start, CreateTemp, Write, Chmod, Rename, DeferredRemove,
                directory

LEMMA NeverTornStep ==
    ASSUME FilesInv, [Next]_vars
    PROVE  NeverTorn'
  <1>0. UNCHANGED request /\ \A f : PathOf(f)' = PathOf(f)
    BY RequestsStay DEF Next, WriterStep, Kill, ReaderStep, vars
  <1>1. CASE UNCHANGED reports /\ whole \subseteq whole'
    BY <1>0, <1>1 DEF FilesInv, NeverTorn
  <1>2. ASSUME NEW w \in Writers, WriterStep(w) PROVE NeverTorn'
    <2>1. CASE UNCHANGED reports
      BY <1>1, <1>2, <2>1, WholeGrows
    <2>2. CASE /\ Current(w) \in whole /\ UNCHANGED whole
               /\ reports' = [reports EXCEPT ![PathOf(Current(w))] = Current(w)]
      BY <1>0, <2>2 DEF FilesInv, NeverTorn, TypeOK
    <2> QED
      BY <1>2, <2>1, <2>2, ReportsChange DEF FilesInv
  <1>3. ASSUME NEW w \in Writers, Kill(w) PROVE NeverTorn'
    BY <1>1, <1>3 DEF Kill, directory
  <1>4. ASSUME NEW r \in Readers, ReaderStep(r) PROVE NeverTorn'
    BY <1>1, <1>4, ReadersOnlyRead DEF FilesInv
  <1> QED
    BY <1>1, <1>2, <1>3, <1>4 DEF Next, vars, directory

\* A temporary file of another process stays as it was.
LEMMA TempsOfOthers ==
    ASSUME FilesInv, NEW w \in Writers, WriterStep(w),
           NEW f \in temps, f.writer # w
    PROVE  /\ f = Current(f.writer)'
           /\ \/ pc'[f.writer] \in {"write", "chmod", "rename", "remove"}
              \/ pc'[f.writer] = "done" /\ "remove" \in err'[f.writer]
  <1>1. f.writer \in Writers
    BY DEF FilesInv, TypeOK, Files
  <1>2. /\ pc'[f.writer] = pc[f.writer] /\ step'[f.writer] = step[f.writer]
        /\ err'[f.writer] = err[f.writer]
    BY <1>1, OthersStay DEF FilesInv
  <1> QED
    BY <1>2 DEF FilesInv, TempsInv, Current, File

LEMMA TempsStep ==
    ASSUME FilesInv, NEW w \in Writers, WriterStep(w)
    PROVE  TempsInv'
  <1> SUFFICES ASSUME NEW f \in temps'
               PROVE  /\ f = Current(f.writer)'
                      /\ \/ pc'[f.writer] \in {"write", "chmod", "rename", "remove"}
                         \/ pc'[f.writer] = "done" /\ "remove" \in err'[f.writer]
    BY DEF TempsInv
  <1>0. f \notin temps => f = Current(w) /\ f.writer = w
    BY DEF WriterStep, Start, CreateTemp, Write, Chmod, Rename, DeferredRemove,
           RemoveTemp, directory, Current, File
  <1>1. CASE f.writer # w
    BY <1>0, <1>1, TempsOfOthers
  <1>2. CASE f.writer = w
    <2>1. f = Current(w)
      BY <1>0, <1>2 DEF FilesInv, TempsInv
    <2>2. ASSUME f \in temps
          PROVE  \/ pc[w] \in {"write", "chmod", "rename", "remove"}
                 \/ pc[w] = "done" /\ "remove" \in err[w]
      BY <1>2, <2>2 DEF FilesInv, TempsInv
    <2>3. ASSUME NEW l, Goto(w, l) PROVE pc'[w] = l
      BY <2>3 DEF FilesInv, TypeOK, Goto
    <2>4. ASSUME NEW l, NEW c, Fails(w, c, l) PROVE pc'[w] = l /\ c \in err'[w]
      BY <2>4 DEF FilesInv, TypeOK, Goto, Fails
    <2>5. CASE Start(w)
      BY <1>0, <2>2, <2>5 DEF Start, directory
    <2>6. CASE CreateTemp(w)
      BY <1>2, <2>1, <2>2, <2>3, <2>6 DEF CreateTemp, Continue, Fails, Current
    <2>7. CASE Write(w)
      BY <1>2, <2>1, <2>3, <2>7 DEF Write, WriteFails, Continue, Fails, Current
    <2>8. CASE Chmod(w)
      BY <1>2, <2>1, <2>3, <2>8 DEF Chmod, Continue, Fails, Current
    <2>9. CASE Rename(w)
      BY <1>2, <2>1, <2>3, <2>9 DEF Rename, RenameFails, Continue, Fails, Current
    <2>10. CASE DeferredRemove(w)
      <3>1. Fails(w, "remove", "done") /\ UNCHANGED step
        BY <2>1, <2>10 DEF DeferredRemove, RemoveTemp
      <3> QED
        BY <1>2, <2>1, <2>4, <3>1 DEF Current
    <2> QED
      BY <2>5, <2>6, <2>7, <2>8, <2>9, <2>10 DEF WriterStep
  <1> QED
    BY <1>1, <1>2

LEMMA FilesStep == FilesInv /\ [Next]_vars => FilesInv'
  <1> SUFFICES ASSUME FilesInv, [Next]_vars PROVE FilesInv'
    OBVIOUS
  <1>1. TypeOK' /\ WriterInv' /\ NeverTorn'
    BY TypeStep, WriterInvNext, NeverTornStep DEF FilesInv
  <1>2. ASSUME NEW r \in Readers, ReaderStep(r) PROVE TempsInv'
    <2>1. \A f \in temps : f.writer \in Writers
      BY DEF FilesInv, TypeOK, Files
    <2> QED
      BY <1>2, <2>1, ReadersOnlyRead DEF FilesInv, TempsInv, Current, File
  <1>3. TempsInv'
    BY <1>2, TempsStep
       DEF FilesInv, TempsInv, Next, Kill, vars, directory, Current, File
  <1> QED
    BY <1>1, <1>3 DEF FilesInv

LEMMA FilesAlways == Spec => []FilesInv
  BY FilesInit, FilesStep, PTL DEF Spec

\* However many processes write and read the directory, whichever system calls
\* fail and whenever a writer is killed, a report file is complete or absent.
THEOREM ReportsAreNeverTorn == Spec => []NeverTorn
  <1>1. FilesInv => NeverTorn
    BY DEF FilesInv
  <1> QED
    BY <1>1, FilesAlways, PTL

\* A temporary file that outlives its call is one that could not be removed or
\* whose writer was killed: a failed write, chmod or rename leaves nothing.
THEOREM NoTemporaryFilesPileUp == Spec => []NoLitter
  <1>1. FilesInv => NoLitter
    BY DEF FilesInv, TempsInv, NoLitter
  <1> QED
    BY <1>1, FilesAlways, PTL

-----------------------------------------------------------------------------
(* The order of the formats, and what a call has renamed.                  *)

\* The rename adds the turn it is at to what is renamed, and no other step of
\* a writer changes that.
LEMMA RenamedChange ==
    ASSUME FilesInv, NEW w \in Writers, WriterStep(w)
    PROVE  IF pc[w] = "rename" /\ pc'[w] = "remove" /\ err'[w] = {}
           THEN Renamed(w)' = Renamed(w) \cup {step[w]} /\ step[w] \in Turns(w)
           ELSE Renamed(w)' = Renamed(w)
  <1>1. UNCHANGED request /\ Turns(w)' = Turns(w)
    BY RequestsStay DEF WriterStep
  <1>2. Turns(w) \subseteq Nat \ {0} /\ step[w] \in Nat
    BY TurnsOfRequest DEF FilesInv, TypeOK
  <1>3. WriterAt(w)
    BY DEF FilesInv, WriterInv
  <1>4. ASSUME NEW l, Goto(w, l) PROVE pc'[w] = l
    BY <1>4 DEF FilesInv, TypeOK, Goto
  <1>5. ASSUME NEW l, NEW c, Fails(w, c, l)
        PROVE  pc'[w] = l /\ err'[w] = err[w] \cup {c}
    BY <1>5 DEF FilesInv, TypeOK, Goto, Fails
  <1>6. CASE Start(w)
    <2>1. pc[w] = "start" /\ step'[w] = 1
      BY <1>3, <1>6 DEF Start, WriterAt
    <2>2. \/ pc'[w] = "done" /\ ~(err'[w] \subseteq {"remove"})
          \/ pc'[w] = "create"
      <3>1. CASE Fails(w, IF Acceptable(w) THEN "mkdir" ELSE "formats", "done")
        BY <1>5, <3>1
      <3>2. CASE Continue(w, "create")
        BY <1>4, <3>2 DEF Continue
      <3> QED
        BY <1>6, <3>1, <3>2 DEF Start
    <2> QED
      BY <1>1, <1>2, <1>6, <2>1, <2>2 DEF Renamed, Start
  <1>7. CASE CreateTemp(w)
    <2>1. \/ pc'[w] = "done" /\ "create" \in err'[w]
          \/ pc'[w] = "write"
      BY <1>4, <1>5, <1>7 DEF CreateTemp, Continue
    <2> QED
      BY <1>1, <1>7, <2>1 DEF Renamed, CreateTemp
  <1>8. CASE Write(w)
    <2>1. (pc'[w] = "remove" /\ "write" \in err'[w]) \/ pc'[w] = "chmod"
      BY <1>4, <1>5, <1>8 DEF Write, WriteFails, Continue
    <2> QED
      BY <1>1, <1>8, <2>1 DEF Renamed, Write
  <1>9. CASE Chmod(w)
    <2>1. (pc'[w] = "remove" /\ "chmod" \in err'[w]) \/ pc'[w] = "rename"
      BY <1>4, <1>5, <1>9 DEF Chmod, Continue
    <2> QED
      BY <1>1, <1>9, <2>1 DEF Renamed, Chmod
  <1>10. CASE Rename(w)
    <2>1. /\ pc[w] = "rename" /\ pc'[w] = "remove" /\ UNCHANGED step
          /\ err'[w] = {} \/ "rename" \in err'[w]
      <3>1. err[w] = {}
        BY <1>3, <1>10 DEF WriterAt, Rename
      <3> QED
        BY <1>4, <1>5, <1>10, <3>1 DEF Rename, RenameFails, Continue
    <2>2. step[w] \in Turns(w)
      BY <1>3, <2>1 DEF WriterAt
    <2> QED
      BY <1>1, <2>1, <2>2 DEF Renamed
  <1>11. CASE DeferredRemove(w)
    <2>0. pc[w] = "remove" /\ "remove" \notin err[w]
      BY <1>3, <1>11 DEF DeferredRemove, WriterAt
    <2>1. CASE Fails(w, "remove", "done") /\ UNCHANGED step
      <3>1. pc'[w] = "done" /\ err'[w] = err[w] \cup {"remove"}
        BY <1>5, <2>1
      <3>2. err'[w] \subseteq {"remove"} <=> err[w] = {}
        BY <2>0, <3>1 DEF FilesInv, TypeOK
      <3> QED
        BY <1>1, <2>0, <2>1, <3>1, <3>2 DEF Renamed
    <2>2. ASSUME err[w] = {}, UNCHANGED err,
                 NEW n \in Later(w), \A m \in Later(w) : n <= m,
                 step' = [step EXCEPT ![w] = n], Goto(w, "create")
          PROVE  Renamed(w)' = Renamed(w)
      <3>1. pc'[w] = "create" /\ step'[w] = n
        BY <1>4, <2>2 DEF FilesInv, TypeOK
      <3>2. \A m \in Turns(w) : m < n <=> m <= step[w]
        BY <1>2, <2>2 DEF Later
      <3> QED
        BY <1>1, <1>2, <2>0, <2>2, <3>1, <3>2 DEF Renamed
    <2>3. CASE Goto(w, "done") /\ UNCHANGED <<step, err>>
      <3>1. err[w] \subseteq {"remove"} <=> err[w] = {}
        BY <2>0
      <3> QED
        BY <1>1, <1>4, <2>0, <2>3, <3>1 DEF Renamed
    <2> QED
      BY <1>11, <2>0, <2>1, <2>2, <2>3 DEF DeferredRemove, NextFormat
  <1> QED
    BY <1>6, <1>7, <1>8, <1>9, <1>10, <1>11 DEF WriterStep

\* Where a writer does not step it has renamed what it had.
LEMMA RenamedStays ==
    ASSUME NEW w \in Writers, UNCHANGED request,
           pc'[w] = pc[w], step'[w] = step[w], err'[w] = err[w]
    PROVE  Renamed(w)' = Renamed(w)
  BY RequestsStay DEF Renamed

\* A call without an error has renamed the file of every turn.
DoneInv ==
    \A w \in Writers :
        pc[w] = "done" /\ err[w] = {} =>
            /\ Renamed(w) = Turns(w) /\ Asked(w) # {}
            /\ Asked(w) = {PathOf(File(w, n)) : n \in Turns(w)}

LEMMA AllRenamed == FilesInv => DoneInv
  <1> SUFFICES ASSUME FilesInv, NEW w \in Writers, pc[w] = "done", err[w] = {}
               PROVE  /\ Renamed(w) = Turns(w) /\ Asked(w) # {}
                      /\ Asked(w) = {PathOf(File(w, n)) : n \in Turns(w)}
    BY DEF DoneInv
  <1>1. Acceptable(w) /\ Later(w) = {} /\ step[w] \in Turns(w)
    BY DEF FilesInv, WriterInv, WriterAt
  <1>2. Turns(w) \subseteq Nat
    BY TurnsOfRequest DEF FilesInv, TypeOK
  <1>3. \A n \in Turns(w) : n < step[w] \/ n = step[w]
    BY <1>1, <1>2 DEF Later
  <1> QED
    BY <1>1, <1>3 DEF Renamed, Asked

-----------------------------------------------------------------------------
(* A call that meets no other.                                             *)

\* The writers that had stopped when a call started have stopped for good.
BeforeInv == \A w \in Writers : \A v \in before[w] : v \in killed \/ pc[v] = "done"

\* What a call that meets no other has renamed is still there.
Keeps(w) ==
    \A n \in Renamed(w) : LET f == reports[PathOf(File(w, n))]
                          IN  f # Absent /\ f.writer = w

OwnReports == BeforeInv /\ \A w \in Writers : Alone(w) => Keeps(w)

LEMMA OwnInit == Init => OwnReports
  <1> SUFFICES ASSUME Init PROVE OwnReports
    OBVIOUS
  <1>1. \A w \in Writers : Renamed(w) = {}
    <2>1. FilesInv
      BY FilesInit
    <2>2. ASSUME NEW w \in Writers PROVE Turns(w) \subseteq Nat \ {0}
      BY <2>1, TurnsOfRequest DEF FilesInv, TypeOK
    <2> QED
      BY <2>2 DEF Init, Renamed
  <1> QED
    BY <1>1 DEF Init, OwnReports, BeforeInv, Keeps

LEMMA BeforeStep ==
    ASSUME FilesInv, BeforeInv, NEW w \in Writers, WriterStep(w)
    PROVE  /\ BeforeInv'
           /\ pc[w] # "start" => UNCHANGED before
  <1>1. killed' = killed /\ w \notin killed
    BY DEF WriterStep
  <1>2. \A v \in Writers : pc[v] = "done" => pc'[v] = "done"
    BY OthersStay DEF FilesInv
  <1>3. \/ UNCHANGED before
        \/ /\ pc[w] = "start"
           /\ before' = [before EXCEPT ![w] = killed \cup {v \in Writers : pc[v] = "done"}]
    BY DEF WriterStep, Start, CreateTemp, Write, Chmod, Rename, DeferredRemove
  <1> QED
    BY <1>1, <1>2, <1>3 DEF FilesInv, TypeOK, BeforeInv

\* A call of which another process steps is not alone, or has not started.
LEMMA OwnStepOfOther ==
    ASSUME FilesInv, OwnReports, NEW w \in Writers, WriterStep(w),
           NEW v \in Writers, v # w, Alone(v)'
    PROVE  FALSE
  <1>1. pc[w] # "done" /\ pc'[w] # "start" /\ pc'[v] = pc[v]
    BY OthersStay DEF FilesInv
  <1>2. w \notin killed
    BY DEF WriterStep
  <1>3. w \in before'[v]
    BY <1>1 DEF Alone
  <1>4. before'[v] = before[v]
    BY DEF WriterStep, Start, CreateTemp, Write, Chmod, Rename, DeferredRemove,
           FilesInv, TypeOK
  <1> QED
    BY <1>1, <1>2, <1>3, <1>4 DEF OwnReports, BeforeInv

\* A rename of its own only adds to what a call has in the directory.
LEMMA OwnStepOfWriter ==
    ASSUME FilesInv, OwnReports, NEW w \in Writers, WriterStep(w), Alone(w)'
    PROVE  Keeps(w)'
  <1>1. UNCHANGED request /\ \A f : PathOf(f)' = PathOf(f)
    BY RequestsStay DEF WriterStep
  <1>2. CASE pc[w] = "start"
    <2>1. Turns(w) \subseteq Nat \ {0} /\ step[w] = 1
      BY <1>2, TurnsOfRequest DEF FilesInv, TypeOK, WriterInv, WriterAt
    <2>2. Renamed(w)' = {}
      BY <1>2, <2>1, RenamedChange DEF Renamed
    <2> QED
      BY <2>2 DEF Keeps
  <1>3. CASE pc[w] # "start"
    <2>1. Alone(w)
      BY <1>3, BeforeStep, OthersStay DEF FilesInv, OwnReports, Alone
    <2>2. Keeps(w)
      BY <2>1 DEF OwnReports
    <2>3. CASE pc[w] = "rename" /\ pc'[w] = "remove" /\ err'[w] = {}
      <3>1. Renamed(w)' = Renamed(w) \cup {step[w]} /\ step[w] \in Turns(w)
        BY <2>3, RenamedChange
      <3>2. /\ Current(w) \in Files /\ Current(w).writer = w
            /\ reports' = [reports EXCEPT ![PathOf(Current(w))] = Current(w)]
        <4>1. Rename(w)
          BY <2>3 DEF WriterStep, Start, CreateTemp, Write, Chmod, Rename,
                      DeferredRemove
        <4>2. ~RenameFails(w)
          BY <2>3 DEF RenameFails, Fails, FilesInv, TypeOK
        <4> QED
          BY <4>1, <4>2 DEF Rename, Current, File, Files, FilesInv, TypeOK
      <3>3. Acceptable(w)
        BY <2>3 DEF FilesInv, WriterInv, WriterAt
      <3>4. ASSUME NEW n \in Turns(w) PROVE PathOf(File(w, n)) \in Reports
        BY <3>3, AskedAreReports DEF FilesInv, TypeOK
      <3>5. Current(w) = File(w, step[w])
        BY DEF Current
      <3>6. ASSUME NEW n \in Renamed(w)'
            PROVE  /\ reports'[PathOf(File(w, n))] # Absent
                   /\ reports'[PathOf(File(w, n))].writer = w
        <4>1. n \in Turns(w) /\ (n \in Renamed(w) \/ n = step[w])
          BY <3>1, <3>6 DEF Renamed
        <4>2. CASE PathOf(File(w, n)) = PathOf(Current(w))
          BY <3>2, <3>4, <4>1, <4>2, FilesAssumption DEF FilesInv, TypeOK
        <4>3. CASE PathOf(File(w, n)) # PathOf(Current(w))
          BY <2>2, <3>2, <3>4, <3>5, <4>1, <4>3 DEF Keeps, FilesInv, TypeOK
        <4> QED
          BY <4>2, <4>3
      <3> QED
        BY <1>1, <3>6 DEF Keeps, File
    <2>4. CASE ~(pc[w] = "rename" /\ pc'[w] = "remove" /\ err'[w] = {})
      <3>1. Renamed(w)' = Renamed(w) /\ UNCHANGED reports
        BY <2>4, RenamedChange, ReportsChange DEF FilesInv
      <3> QED
        BY <1>1, <2>2, <3>1 DEF Keeps, File
    <2> QED
      BY <2>3, <2>4
  <1> QED
    BY <1>2, <1>3

\* Where no writer steps nothing that a call relies on changes.
LEMMA OwnStays ==
    ASSUME FilesInv, OwnReports,
           UNCHANGED <<request, before, step, err, reports>>, killed \subseteq killed',
           \A w \in Writers : pc'[w] = pc[w]
    PROVE  OwnReports'
  <1>1. BeforeInv'
    BY DEF OwnReports, BeforeInv, FilesInv, TypeOK
  <1>2. ASSUME NEW w \in Writers PROVE Renamed(w)' = Renamed(w) /\ Alone(w)' = Alone(w)
    BY RenamedStays DEF Alone
  <1> QED
    BY <1>1, <1>2, RequestsStay DEF OwnReports, Keeps, File

LEMMA OwnStep == FilesInv /\ OwnReports /\ [Next]_vars => OwnReports'
  <1> SUFFICES ASSUME FilesInv, OwnReports, [Next]_vars PROVE OwnReports'
    OBVIOUS
  <1>1. ASSUME NEW w \in Writers, WriterStep(w) PROVE OwnReports'
    <2>1. BeforeInv'
      BY <1>1, BeforeStep DEF OwnReports
    <2>2. ASSUME NEW v \in Writers, Alone(v)' PROVE Keeps(v)'
      BY <1>1, <2>2, OwnStepOfOther, OwnStepOfWriter
    <2> QED
      BY <2>1, <2>2 DEF OwnReports
  <1>2. ASSUME NEW w \in Writers, Kill(w) PROVE OwnReports'
    BY <1>2, OwnStays DEF Kill, directory
  <1>3. ASSUME NEW r \in Readers, ReaderStep(r) PROVE OwnReports'
    BY <1>3, OwnStays, ReadersOnlyRead DEF FilesInv
  <1>4. CASE UNCHANGED vars
    BY <1>4, OwnStays DEF vars, directory
  <1> QED
    BY <1>1, <1>2, <1>3, <1>4 DEF Next

\* After a call that returned no error and met no running call, each report it
\* was asked for is its own: the formats of a directory agree again, whatever
\* failed or was killed before.
THEOREM SuccessfulCallOwnsItsReports == Spec => []SuccessReplacesAll
  <1>1. FilesInv /\ OwnReports => SuccessReplacesAll
    <2> SUFFICES ASSUME FilesInv, OwnReports, NEW w \in Writers, Alone(w),
                        pc[w] = "done", err[w] = {}
                 PROVE  /\ Asked(w) # {}
                        /\ \A p \in Asked(w) : reports[p] # Absent
                                               /\ reports[p].writer = w
      BY DEF SuccessReplacesAll
    <2> QED
      BY AllRenamed DEF DoneInv, OwnReports, Keeps
  <1> QED
    BY <1>1, OwnInit, OwnStep, FilesAlways, PTL DEF Spec

-----------------------------------------------------------------------------
(* The directory is a ReportStore: the variables of the store, one lemma   *)
(* for each kind of step.                                                  *)

StorePaths == [w \in Writers |-> Asked(w)]

StoreFile ==
    [p \in Reports |-> IF reports[p] = Absent THEN Absent
                       ELSE IF reports[p] \in whole THEN reports[p].writer
                       ELSE "torn"]

StoreReplaced == [w \in Writers |-> {PathOf(File(w, n)) : n \in Renamed(w)}]

StoreResult ==
    [w \in Writers |-> IF pc[w] # "done" THEN "none"
                       ELSE IF err[w] = {} THEN "nil" ELSE "error"]

StoreVars == <<StorePaths, StoreFile, StoreReplaced, StoreResult>>

LEMMA StoreInit == Init => Store!Init
  <1> SUFFICES ASSUME Init PROVE Store!Init
    OBVIOUS
  <1>1. FilesInv
    BY FilesInit
  <1>2. StorePaths \in [Writers -> SUBSET Reports]
    BY <1>1, AskedAreReports DEF StorePaths, FilesInv, TypeOK
  <1>3. StoreFile = [p \in Reports |-> Absent]
    BY DEF Init, StoreFile
  <1>4. \A w \in Writers : Renamed(w) = {}
    <2>1. ASSUME NEW w \in Writers PROVE Turns(w) \subseteq Nat \ {0}
      BY <1>1, TurnsOfRequest DEF FilesInv, TypeOK
    <2> QED
      BY <2>1 DEF Init, Renamed
  <1>5. StoreReplaced = [w \in Writers |-> {}]
    BY <1>4 DEF StoreReplaced
  <1>6. StoreResult = [w \in Writers |-> "none"]
    BY DEF Init, StoreResult
  <1> QED
    BY <1>2, <1>3, <1>5, <1>6
       DEF Store!Init, StorePaths, StoreFile, StoreReplaced, StoreResult

\* Where no writer steps nothing happens to the store.
LEMMA StoreStays ==
    ASSUME UNCHANGED <<request, step, err, reports, whole>>,
           \A w \in Writers : pc'[w] = pc[w]
    PROVE  UNCHANGED StoreVars
  <1>1. /\ \A w \in Writers : Renamed(w)' = Renamed(w)
        /\ \A w : Asked(w)' = Asked(w)
        /\ \A f : PathOf(f)' = PathOf(f)
    BY RenamedStays, RequestsStay
  <1>2. UNCHANGED StoreFile /\ UNCHANGED StorePaths
    BY <1>1 DEF StoreFile, StorePaths
  <1>3. UNCHANGED StoreReplaced
    BY <1>1 DEF StoreReplaced, File
  <1>4. UNCHANGED StoreResult
    BY DEF StoreResult
  <1> QED
    BY <1>2, <1>3, <1>4 DEF StoreVars

\* The rename of a file is the step in which the store replaces it.
LEMMA RenameReplaces ==
    ASSUME FilesInv, NEW w \in Writers, WriterStep(w),
           pc[w] = "rename", pc'[w] = "remove", err'[w] = {},
           reports' = [reports EXCEPT ![PathOf(Current(w))] = Current(w)],
           Current(w) \in whole, Current(w) \in Files, UNCHANGED whole
    PROVE  \E p \in Reports : Store!Replace(w, p)
  <1>1. /\ \A f : PathOf(f)' = PathOf(f)
        /\ \A v : Asked(v)' = Asked(v)
    BY RequestsStay DEF WriterStep
  <1>2. Acceptable(w) /\ step[w] \in Turns(w)
    BY DEF FilesInv, WriterInv, WriterAt
  <1>3. PathOf(Current(w)) \in Reports /\ PathOf(Current(w)) \in Asked(w)
    BY <1>2, AskedAreReports DEF Current, FilesInv, TypeOK
  <1>4. PICK p \in Reports : p = PathOf(Current(w))
    BY <1>3
  <1>5. StoreFile' = [StoreFile EXCEPT ![p] = w]
    <2>1. Current(w) # Absent /\ Current(w).writer = w
      BY FilesAssumption DEF Current, File
    <2> QED
      BY <1>4, <2>1 DEF StoreFile, FilesInv, TypeOK
  <1>6. StoreReplaced' = [StoreReplaced EXCEPT ![w] = @ \cup {p}]
    <2>1. Renamed(w)' = Renamed(w) \cup {step[w]}
      BY RenamedChange
    <2>2. \A v \in Writers \ {w} : Renamed(v)' = Renamed(v)
      BY OthersStay, RenamedStays DEF FilesInv, WriterStep
    <2>3. ASSUME NEW v \in Writers
          PROVE  {PathOf(File(v, n)) : n \in Renamed(v)}'
                    = {PathOf(File(v, n)) : n \in Renamed(v)'}
      BY <1>1 DEF File
    <2>4. {PathOf(File(w, n)) : n \in Renamed(w)'}
             = {PathOf(File(w, n)) : n \in Renamed(w)} \cup {p}
      BY <1>4, <2>1 DEF Current
    <2>5. \A v \in Writers : StoreReplaced'[v]
                = IF v = w THEN StoreReplaced[w] \cup {p} ELSE StoreReplaced[v]
      BY <2>2, <2>3, <2>4 DEF StoreReplaced
    <2> QED
      BY <2>5 DEF StoreReplaced
  <1>7. StoreResult[w] = "none" /\ UNCHANGED StoreResult
    BY OthersStay DEF FilesInv, StoreResult
  <1>8. UNCHANGED StorePaths
    BY <1>1 DEF StorePaths
  <1>9. p \in StorePaths[w]
    BY <1>4, <1>3 DEF StorePaths
  <1>10. Store!Replace(w, p)
    BY <1>5, <1>6, <1>7, <1>8, <1>9
       DEF Store!Replace, StorePaths, StoreFile, StoreReplaced, StoreResult
  <1> QED
    BY <1>10

\* Another step of a writer ends the call, or is none of the store.
LEMMA OtherStepsEnd ==
    ASSUME FilesInv, NEW w \in Writers, WriterStep(w), UNCHANGED reports,
           ~(pc[w] = "rename" /\ pc'[w] = "remove" /\ err'[w] = {})
    PROVE  Store!Succeed(w) \/ Store!Fail(w) \/ UNCHANGED StoreVars
  <1>1. /\ UNCHANGED request
        /\ \A f : PathOf(f)' = PathOf(f)
        /\ \A v : Asked(v)' = Asked(v)
    BY RequestsStay DEF WriterStep
  <1>2. FilesInv'
    BY FilesStep DEF Next
  <1>3. UNCHANGED StorePaths
    BY <1>1 DEF StorePaths
  <1>4. UNCHANGED StoreFile
    <2>1. \A q \in Reports : reports[q] # Absent => reports[q] \in whole
                                                  /\ reports[q] \in whole'
      BY WholeGrows DEF FilesInv, NeverTorn
    <2> QED
      BY <2>1 DEF StoreFile
  <1>5. \A v \in Writers : Renamed(v)' = Renamed(v)
    BY <1>1, RenamedChange, RenamedStays, OthersStay DEF FilesInv
  <1>6. UNCHANGED StoreReplaced
    BY <1>1, <1>5 DEF StoreReplaced, File
  <1>7. StoreResult[w] = "none"
    BY OthersStay DEF FilesInv, StoreResult
  <1>8. \A v \in Writers \ {w} : StoreResult'[v] = StoreResult[v]
    BY OthersStay DEF FilesInv, StoreResult
  <1>9. CASE pc'[w] # "done"
    <2>1. UNCHANGED StoreResult
      BY <1>7, <1>8, <1>9 DEF StoreResult
    <2> QED
      BY <1>3, <1>4, <1>6, <2>1 DEF StoreVars
  <1>10. CASE pc'[w] = "done" /\ err'[w] = {}
    <2>1. StoreResult' = [StoreResult EXCEPT ![w] = "nil"]
      BY <1>8, <1>10 DEF StoreResult
    <2>2. /\ Renamed(w)' = Turns(w)' /\ Asked(w)' # {}
          /\ Asked(w)' = {PathOf(File(w, n)) : n \in Turns(w)}'
      <3>1. DoneInv'
        BY <1>2, AllRenamed, PTL
      <3> QED
        BY <1>10, <3>1 DEF DoneInv
    <2>3. StorePaths[w] # {} /\ StoreReplaced[w] = StorePaths[w]
      <3>1. Turns(w)' = Turns(w)
        BY <1>1, RequestsStay
      <3>2. Renamed(w) = Turns(w)
        BY <1>5, <2>2, <3>1
      <3>3. Asked(w) = {PathOf(File(w, n)) : n \in Turns(w)} /\ Asked(w) # {}
        BY <1>1, <2>2, <3>1 DEF File
      <3> QED
        BY <3>2, <3>3 DEF StorePaths, StoreReplaced
    <2> QED
      BY <1>3, <1>4, <1>6, <1>7, <2>1, <2>3
         DEF Store!Succeed, StorePaths, StoreFile, StoreReplaced, StoreResult
  <1>11. CASE pc'[w] = "done" /\ err'[w] # {}
    <2>1. StoreResult' = [StoreResult EXCEPT ![w] = "error"]
      BY <1>8, <1>11 DEF StoreResult
    <2> QED
      BY <1>3, <1>4, <1>6, <1>7, <2>1
         DEF Store!Fail, StorePaths, StoreFile, StoreReplaced, StoreResult
  <1> QED
    BY <1>9, <1>10, <1>11

LEMMA StoreStep == FilesInv /\ [Next]_vars => [Store!Next]_(Store!vars)
  <1> SUFFICES ASSUME FilesInv, [Next]_vars PROVE [Store!Next]_(Store!vars)
    OBVIOUS
  <1>1. UNCHANGED StoreVars => UNCHANGED Store!vars
    BY DEF Store!vars, StoreVars, StorePaths, StoreFile, StoreReplaced, StoreResult
  <1>2. ASSUME NEW w \in Writers, WriterStep(w) PROVE [Store!Next]_(Store!vars)
    <2>1. CASE pc[w] = "rename" /\ pc'[w] = "remove" /\ err'[w] = {}
      <3>1. Rename(w) /\ ~RenameFails(w)
        <4>1. Rename(w)
          BY <1>2, <2>1 DEF WriterStep, Start, CreateTemp, Write, Chmod, DeferredRemove
        <4>2. ASSUME RenameFails(w) PROVE "rename" \in err'[w]
          <5>1. err \in [Writers -> SUBSET Calls]
            BY DEF FilesInv, TypeOK, Calls
          <5> QED
            BY <4>2, <5>1 DEF RenameFails, Fails
        <4> QED
          BY <2>1, <4>1, <4>2
      <3>2. /\ reports' = [reports EXCEPT ![PathOf(Current(w))] = Current(w)]
            /\ UNCHANGED whole
        BY <3>1 DEF Rename
      <3>3. Current(w) \in whole /\ Current(w) \in Files
        BY <2>1 DEF FilesInv, WriterInv, WriterAt, TypeOK, Current, File, Files
      <3>4. \E p \in Reports : Store!Replace(w, p)
        BY <1>2, <2>1, <3>2, <3>3, RenameReplaces
      <3> QED
        BY <3>4 DEF Store!Next
    <2>2. CASE ~(pc[w] = "rename" /\ pc'[w] = "remove" /\ err'[w] = {})
      <3>1. Store!Succeed(w) \/ Store!Fail(w) \/ UNCHANGED StoreVars
        BY <1>2, <2>2, ReportsChange, OtherStepsEnd DEF FilesInv
      <3> QED
        BY <1>1, <3>1 DEF Store!Next
    <2> QED
      BY <2>1, <2>2
  <1>3. ASSUME NEW w \in Writers, Kill(w) PROVE UNCHANGED StoreVars
    BY <1>3, StoreStays DEF Kill, directory
  <1>4. ASSUME NEW r \in Readers, ReaderStep(r) PROVE UNCHANGED StoreVars
    BY <1>4, StoreStays, ReadersOnlyRead DEF FilesInv
  <1>5. CASE UNCHANGED vars
    BY <1>1, <1>5, StoreStays DEF vars, directory
  <1> QED
    BY <1>1, <1>2, <1>3, <1>4, <1>5 DEF Next

\* "WriteReports atomically replaces each file after rendering is complete":
\* every step of the processes is a step of the store, in which a file changes
\* at once and a call without an error has replaced all it was asked for.
THEOREM DirectoryIsAStore == Spec => WritesAtomically
  BY StoreInit, StoreStep, FilesAlways, PTL DEF Spec, WritesAtomically, Store!Spec

-----------------------------------------------------------------------------
(* GenerateMatrix.                                                         *)

\* The file that a reader has open.
Reading(r) == IF pc[r] = "read" THEN {opened[r]} ELSE {}

Paths(files) == {PathOf(f) : f \in files}

\* A walk that has not failed has each report it found still before it, open,
\* or as one row.
Accounts(r) ==
    /\ found[r] = todo[r] \cup Paths(rows[r] \cup Reading(r))
    /\ todo[r] \cap Paths(rows[r] \cup Reading(r)) = {}
    /\ Paths(rows[r]) \cap Paths(Reading(r)) = {}
    /\ \A f, g \in rows[r] : PathOf(f) = PathOf(g) => f = g

WalkAt(r) ==
    /\ pc[r] = "start" => rows[r] = {}
    /\ \A p \in found[r] : reports[p] # Absent
    /\ rows[r] \cup Reading(r) \subseteq whole
    /\ \A f \in rows[r] : Valid(f)
    /\ pc[r] \in {"visit", "read", "written"} => Accounts(r)
    /\ pc[r] = "written" => todo[r] = {}
    /\ pc[r] = "failed" => opened[r] # Absent /\ ~request[opened[r].writer].accepted

WalkInv == \A r \in Readers : WalkAt(r)

LEMMA WalkInit == Init => WalkInv
  <1> SUFFICES ASSUME Init, NEW r \in Readers PROVE WalkAt(r)
    BY DEF WalkInv
  <1> QED
    BY DEF Init, WalkAt, Reading

\* No report is ever removed, and files that are complete remain so.
LEMMA WalkStays ==
    ASSUME NEW r \in Readers, WalkAt(r), UNCHANGED request, whole \subseteq whole',
           \A p \in found[r] : reports[p] # Absent => reports'[p] # Absent,
           pc'[r] = pc[r], found'[r] = found[r], todo'[r] = todo[r],
           opened'[r] = opened[r], rows'[r] = rows[r]
    PROVE  WalkAt(r)'
  <1>1. \A f : PathOf(f)' = PathOf(f)
    BY RequestsStay
  <1>2. Reading(r)' = Reading(r)
    BY DEF Reading
  <1>3. Accounts(r)' <=> Accounts(r)
    BY <1>1, <1>2 DEF Accounts, Paths
  <1> QED
    BY <1>2, <1>3 DEF WalkAt, Valid

\* What a reader has as todo is there, complete and under its own name.
LEMMA ThereToOpen ==
    ASSUME FilesInv, NEW r \in Readers, WalkAt(r), pc[r] = "visit", NEW n \in todo[r]
    PROVE  /\ FileAt(n) = reports[n] /\ reports[n] # Absent
           /\ reports[n] \in whole /\ PathOf(reports[n]) = n
  <1>1. n \in Reports /\ n \in found[r]
    BY DEF FilesInv, TypeOK, WalkAt, Accounts
  <1> QED
    BY <1>1 DEF FileAt, WalkAt, FilesInv, NeverTorn

LEMMA WalkStep ==
    ASSUME FilesInv, NEW r \in Readers, WalkAt(r), ReaderStep(r)
    PROVE  WalkAt(r)'
  <1>1. /\ UNCHANGED <<request, reports, temps, whole>>
        /\ \A f : PathOf(f)' = PathOf(f)
    BY RequestsStay, ReadersOnlyRead DEF FilesInv
  <1>2. ASSUME NEW l, Goto(r, l) PROVE pc'[r] = l
    BY <1>2 DEF FilesInv, TypeOK, Goto
  <1>3. CASE Walk(r) /\ Goto(r, "unreadable") /\ UNCHANGED <<todo, found>>
    <2>1. pc[r] = "start" /\ pc'[r] = "unreadable" /\ UNCHANGED <<found, todo, opened, rows>>
      BY <1>2, <1>3 DEF Walk
    <2>2. Reading(r) = {} /\ Reading(r)' = {}
      BY <2>1 DEF Reading
    <2> QED
      BY <1>1, <2>1, <2>2 DEF WalkAt, Valid
  <1>4. CASE /\ Walk(r) /\ Goto(r, "visit")
             /\ todo' = [todo EXCEPT ![r] = {n \in Present \cup temps : IsYAML(n)}]
             /\ found' = [found EXCEPT ![r] = {p \in Present : p.format = "yaml"}]
    <2>1. todo'[r] = {p \in Present : p.format = "yaml"} /\ found'[r] = todo'[r]
      BY <1>4 DEF Walk, IsYAML, Present, FilesInv, TypeOK, TempsInv, Current, File,
                  Reports
    <2>2. pc'[r] = "visit" /\ rows'[r] = {}
      BY <1>2, <1>4 DEF Walk, WalkAt
    <2>3. Reading(r)' = {}
      BY <2>2 DEF Reading
    <2>4. Accounts(r)'
      BY <2>1, <2>2, <2>3 DEF Accounts, Paths
    <2> QED
      BY <1>1, <2>1, <2>2, <2>3, <2>4 DEF WalkAt, Present
  <1>5. CASE Open(r)
    <2>0. /\ pc[r] = "visit" /\ Accounts(r) /\ Reading(r) = {}
          /\ UNCHANGED <<found, rows>>
      BY <1>5 DEF Open, WalkAt, Reading
    <2>1. ASSUME NEW n \in todo[r], UNCHANGED <<todo, opened>>,
                 Goto(r, IF FileAt(n) = Absent THEN "failed" ELSE "unreadable")
          PROVE  WalkAt(r)'
      <3>1. pc'[r] = "unreadable"
        BY <1>2, <2>0, <2>1, ThereToOpen
      <3>2. Reading(r)' = {}
        BY <3>1 DEF Reading
      <3> QED
        BY <1>1, <2>0, <3>1, <3>2 DEF WalkAt, Valid
    <2>2. ASSUME NEW n \in todo[r], todo' = [todo EXCEPT ![r] = @ \ {n}],
                 opened' = [opened EXCEPT ![r] = FileAt(n)], Goto(r, "read")
          PROVE  WalkAt(r)'
      <3>1. /\ pc'[r] = "read" /\ todo'[r] = todo[r] \ {n}
            /\ opened'[r] = reports[n]
        BY <1>2, <2>0, <2>2, ThereToOpen DEF FilesInv, TypeOK
      <3>2. reports[n] \in whole /\ PathOf(reports[n]) = n
        BY <2>0, ThereToOpen
      <3>3. Reading(r)' = {reports[n]}
        BY <3>1 DEF Reading
      <3>4. Paths(Reading(r))' = {n}
        BY <1>1, <3>2, <3>3 DEF Paths
      <3>5. Paths(rows[r])' = Paths(rows[r])
        BY <1>1, <2>0 DEF Paths
      <3>6. /\ Paths(rows[r] \cup Reading(r))' = Paths(rows[r]) \cup {n}
            /\ Paths(rows[r] \cup Reading(r)) = Paths(rows[r])
        BY <2>0, <3>4, <3>5 DEF Paths
      <3>7. Accounts(r)'
        BY <1>1, <2>0, <3>1, <3>4, <3>5, <3>6 DEF Accounts
      <3> QED
        BY <1>1, <2>0, <3>1, <3>2, <3>3, <3>7 DEF WalkAt, Valid
    <2> QED
      BY <1>5, <2>1, <2>2 DEF Open
  <1>6. CASE Read(r)
    <2>0. /\ pc[r] = "read" /\ Accounts(r) /\ Reading(r) = {opened[r]}
          /\ opened[r] \in whole /\ opened[r] \in Files
          /\ UNCHANGED <<found, todo, opened>>
      BY <1>6 DEF Read, WalkAt, Reading, FilesInv, TypeOK
    <2>1. CASE ~Valid(opened[r]) /\ Reject(r) /\ UNCHANGED rows
      <3>1. pc'[r] = "failed" /\ Reading(r)' = {}
        BY <1>2, <2>1 DEF Reject, Reading
      <3>2. opened[r] # Absent /\ ~request[opened[r].writer].accepted
        BY <2>0, <2>1, FilesAssumption DEF Valid
      <3> QED
        BY <1>1, <2>0, <2>1, <3>1, <3>2 DEF WalkAt, Valid
    <2>2. CASE /\ Valid(opened[r]) /\ Goto(r, "visit")
               /\ rows' = [rows EXCEPT ![r] = @ \cup {opened[r]}]
      <3>1. /\ pc'[r] = "visit" /\ Reading(r)' = {}
            /\ rows'[r] = rows[r] \cup Reading(r)
        BY <1>2, <2>0, <2>2 DEF FilesInv, TypeOK, Reading
      <3>2. Paths(rows[r] \cup Reading(r))' = Paths(rows[r] \cup Reading(r))
            /\ Paths(Reading(r))' = {}
        BY <1>1, <3>1 DEF Paths
      <3>3. \A f \in rows[r], g \in Reading(r) : PathOf(f) # PathOf(g)
        BY <2>0 DEF Accounts, Paths
      <3>4. \A f, g \in rows'[r] : PathOf(f) = PathOf(g) => f = g
        BY <2>0, <3>1, <3>3 DEF Accounts
      <3>5. Accounts(r)'
        BY <1>1, <2>0, <3>2, <3>4 DEF Accounts
      <3> QED
        BY <1>1, <2>0, <2>2, <3>1, <3>5 DEF WalkAt, Valid
    <2> QED
      BY <1>6, <2>1, <2>2 DEF Read
  <1>7. CASE WriteMatrix(r)
    <2>1. /\ pc[r] = "visit" /\ pc'[r] \in {"written", "unwritten"}
          /\ todo[r] = {} /\ UNCHANGED reading
      BY <1>2, <1>7 DEF WriteMatrix
    <2>2. Reading(r)' = Reading(r)
      BY <2>1 DEF Reading, reading
    <2>3. Accounts(r)'
      BY <1>1, <2>1, <2>2 DEF WalkAt, Accounts, Paths, reading
    <2> QED
      BY <1>1, <2>1, <2>2, <2>3 DEF WalkAt, Valid, reading
  <1> QED
    BY <1>3, <1>4, <1>5, <1>6, <1>7 DEF ReaderStep, Walk

\* Who is not the reader of a step keeps its place in its own walk.
LEMMA OtherWalks ==
    ASSUME FilesInv, NEW r \in Readers, ReaderStep(r), NEW s \in Readers, s # r
    PROVE  /\ pc'[s] = pc[s] /\ found'[s] = found[s] /\ todo'[s] = todo[s]
           /\ opened'[s] = opened[s] /\ rows'[s] = rows[s]
  <1>1. pc'[s] = pc[s]
    BY ReadersOnlyRead DEF FilesInv
  <1> QED
    BY <1>1 DEF ReaderStep, Walk, Open, Read, WriteMatrix, reading, FilesInv, TypeOK

LEMMA WalkNext == FilesInv /\ WalkInv /\ [Next]_vars => WalkInv'
  <1> SUFFICES ASSUME FilesInv, WalkInv, [Next]_vars, NEW s \in Readers
               PROVE  WalkAt(s)'
    BY DEF WalkInv
  <1>0. WalkAt(s)
    BY DEF WalkInv
  <1>1. ASSUME NEW w \in Writers, WriterStep(w) PROVE WalkAt(s)'
    <2>1. \A p \in Reports : reports[p] # Absent => reports'[p] # Absent
      BY <1>1, ReportsChange, FilesAssumption DEF FilesInv, TypeOK
    <2>2. found[s] \subseteq Reports
      BY DEF FilesInv, TypeOK
    <2> QED
      BY <1>0, <1>1, <2>1, <2>2, WalkStays, WholeGrows, OthersStay
         DEF FilesInv, WriterStep, reading
  <1>2. ASSUME NEW w \in Writers, Kill(w) PROVE WalkAt(s)'
    BY <1>0, <1>2, WalkStays DEF Kill, directory, reading
  <1>3. ASSUME NEW r \in Readers, ReaderStep(r) PROVE WalkAt(s)'
    <2>1. CASE r = s
      BY <1>0, <1>3, <2>1, WalkStep
    <2>2. CASE r # s
      BY <1>0, <1>3, <2>2, OtherWalks, ReadersOnlyRead, WalkStays DEF FilesInv
    <2> QED
      BY <2>1, <2>2
  <1>4. CASE UNCHANGED vars
    BY <1>0, <1>4, WalkStays DEF vars, directory, reading
  <1> QED
    BY <1>1, <1>2, <1>3, <1>4 DEF Next

LEMMA WalkAlways == Spec => []WalkInv
  BY WalkInit, WalkNext, FilesAlways, PTL DEF Spec

\* GenerateMatrix, where it can read and write, fails only for a report that is no submission: it
\* never finds a half-written file, or none, where it saw a name.
THEOREM MatrixFailsForAReason == Spec => []MatrixErrorIsJustified
  <1>1. WalkInv => MatrixErrorIsJustified
    BY DEF WalkInv, WalkAt, MatrixErrorIsJustified
  <1> QED
    BY <1>1, WalkAlways, PTL

\* There are four report names.
LEMMA FinitelyManyReports == IsFiniteSet(Reports)
  <1> DEFINE Name(b, f) == [base |-> b, format |-> f]
             Names == ((({} \cup {Name("report", "html")})
                            \cup {Name("report", "yaml")})
                            \cup {Name("report-clusterprofile", "html")})
                            \cup {Name("report-clusterprofile", "yaml")}
  <1>1. IsFiniteSet(Names)
    <2> HIDE DEF Name
    <2> QED
      BY FS_EmptySet, FS_AddElement
  <1>2. Reports \subseteq Names
    BY DEF Reports, Formats
  <1> QED
    BY <1>1, <1>2, FS_Subset

\* A matrix that is written has exactly one row for each report that was there
\* when its walk began, and each row is a complete submission.
THEOREM MatrixHasEveryReportOnce == Spec => []MatrixIsComplete
  <1>1. FilesInv /\ WalkInv => MatrixIsComplete
    <2> SUFFICES ASSUME FilesInv, WalkInv, NEW r \in Readers, pc[r] = "written"
                 PROVE  /\ {PathOf(f) : f \in rows[r]} = found[r]
                        /\ Cardinality(rows[r]) = Cardinality(found[r])
                        /\ \A f \in rows[r] : Valid(f)
      BY DEF MatrixIsComplete
    <2>1. WalkAt(r) /\ Accounts(r) /\ todo[r] = {} /\ Reading(r) = {}
      BY DEF WalkInv, WalkAt, Reading
    <2>2. found[r] = {PathOf(f) : f \in rows[r]}
      BY <2>1 DEF Accounts, Paths
    <2>3. IsFiniteSet(found[r])
      BY FinitelyManyReports, FS_Subset DEF FilesInv, TypeOK
    <2> DEFINE row == [p \in found[r] |-> CHOOSE f \in rows[r] : PathOf(f) = p]
    <2>4. ASSUME NEW p \in found[r] PROVE row[p] \in rows[r] /\ PathOf(row[p]) = p
      BY <2>2
    <2>5. ASSUME NEW f \in rows[r] PROVE PathOf(f) \in found[r] /\ row[PathOf(f)] = f
      BY <2>1, <2>2, <2>4 DEF Accounts
    <2>6. row \in Bijection(found[r], rows[r])
      <3>1. row \in [found[r] -> rows[r]]
        BY <2>4
      <3> HIDE DEF row
      <3>2. row \in Injection(found[r], rows[r])
        BY <2>4, <3>1, Fun_IsInj
      <3>3. row \in Surjection(found[r], rows[r])
        BY <2>5, <3>1, Fun_IsSurj
      <3> QED
        BY <3>2, <3>3 DEF Bijection
    <2>7. ExistsBijection(found[r], rows[r])
      BY <2>6 DEF ExistsBijection
    <2> QED
      BY <2>1, <2>2, <2>3, <2>7, FS_Bijection DEF WalkAt
  <1> QED
    BY <1>1, FilesAlways, WalkAlways, PTL
=============================================================================
