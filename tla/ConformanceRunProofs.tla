------------------------ MODULE ConformanceRunProofs ------------------------
(***************************************************************************)
(* Theorems about ConformanceRun, for every set of options, every          *)
(* inventory, both kinds of discovery client and any number of changes to  *)
(* the hub.                                                                *)
(***************************************************************************)
EXTENDS ConformanceRun, FiniteSetTheorems, TLAPS

(***************************************************************************)
(* The catalog and the summary.                                            *)
(***************************************************************************)
LEMMA CatalogIsFinite == IsFiniteSet(Catalog)
  <1>1. \A S, x : IsFiniteSet(S) => IsFiniteSet(S \cup {x})
    BY FS_AddElement
  <1>2. \A a, b, c : IsFiniteSet({a, b, c})
    <2> TAKE a, b, c
    <2>1. {a, b, c} = ({a} \cup {b}) \cup {c}
      OBVIOUS
    <2>2. IsFiniteSet({a})
      BY FS_Singleton
    <2>3. IsFiniteSet({a} \cup {b})
      BY <1>1, <2>2
    <2>4. IsFiniteSet(({a} \cup {b}) \cup {c})
      BY <1>1, <2>3
    <2> QED
      BY <2>1, <2>4
  <1>3. \A S, T : IsFiniteSet(S) /\ IsFiniteSet(T) => IsFiniteSet(S \cup T)
    BY FS_Union
  <1>4. ASSUME NEW a, NEW b, NEW c, NEW d, NEW e, NEW f, NEW g, NEW h, NEW i,
               NEW j, NEW k
        PROVE  IsFiniteSet({a, b, c, d, e, f, g, h, i, j, k})
    <2>1. {a, b, c, d, e, f, g, h, i, j, k} =
            ({a, b, c} \cup {d, e, f}) \cup ({g, h, i} \cup {j, k, k})
      OBVIOUS
    <2>2. IsFiniteSet({a, b, c} \cup {d, e, f})
      BY <1>2, <1>3
    <2>3. IsFiniteSet({g, h, i} \cup {j, k, k})
      BY <1>2, <1>3
    <2> QED
      BY <1>3, <2>1, <2>2, <2>3
  <1> QED
    BY <1>4, Zenon DEF Catalog

LEMMA CombineIsMaximal ==
    ASSUME NEW S \in SUBSET Results, S # {}
    PROVE  /\ Combine(S) \in S
           /\ \A q \in S : ResultRank[q] <= ResultRank[Combine(S)]
  <1>1. /\ ResultRank["success"] = 0 /\ ResultRank["partial"] = 1
        /\ ResultRank["unknown"] = 2 /\ ResultRank["failure"] = 3
    BY DEF ResultRank, Results
  <1>2. \E r \in S : \A q \in S : ResultRank[q] <= ResultRank[r]
    <2>1. CASE "failure" \in S
      BY <1>1, <2>1 DEF Results
    <2>2. CASE "failure" \notin S /\ "unknown" \in S
      BY <1>1, <2>2 DEF Results
    <2>3. CASE "failure" \notin S /\ "unknown" \notin S /\ "partial" \in S
      BY <1>1, <2>3 DEF Results
    <2>4. CASE S = {"success"}
      BY <1>1, <2>4
    <2> QED
      BY <2>1, <2>2, <2>3, <2>4 DEF Results
  <1> QED
    BY <1>2 DEF Combine

\* "success" is what is left when nothing worse was combined.
LEMMA CombineSuccess ==
    ASSUME NEW S \in SUBSET Results, NEW q \in S, q # "success"
    PROVE  Combine(S) \in Results /\ Combine(S) # "success"
  <1>1. /\ ResultRank["success"] = 0 /\ ResultRank["partial"] = 1
        /\ ResultRank["unknown"] = 2 /\ ResultRank["failure"] = 3
    BY DEF ResultRank, Results
  <1>2. Combine(S) \in S /\ ResultRank[q] <= ResultRank[Combine(S)]
    BY CombineIsMaximal
  <1>3. q \in {"partial", "unknown", "failure"}
    BY DEF Results
  <1>4. ResultRank[q] \in {1, 2, 3}
    BY <1>1, <1>3
  <1>5. ASSUME Combine(S) = "success" PROVE FALSE
    <2>1. ResultRank[q] <= 0
      BY <1>1, <1>2, <1>5
    <2> QED
      BY <1>4, <2>1
  <1> QED
    BY <1>2, <1>5

TestsType == [Catalog -> Outcomes] \cup {<< >>}

LEMMA SummaryType ==
    ASSUME NEW tests \in TestsType, NEW supported
    PROVE  /\ Statistics(tests) \in [Outcomes -> Nat]
           /\ ProfileResult(tests, supported) \in Results
  <1>1. DOMAIN tests \in SUBSET Catalog /\ \A req \in DOMAIN tests : tests[req] \in Outcomes
    BY DEF TestsType
  <1>2. ASSUME NEW o \in Outcomes
        PROVE  Cardinality({req \in DOMAIN tests : tests[req] = o}) \in Nat
    <2>1. {req \in DOMAIN tests : tests[req] = o} \in SUBSET Catalog
      BY <1>1
    <2> QED
      BY <2>1, CatalogIsFinite, FS_Subset, FS_CardinalityType
  <1>3. Statistics(tests) \in [Outcomes -> Nat]
    BY <1>2 DEF Statistics
  <1> DEFINE gated == {req \in DOMAIN tests : Gate(req, supported)}
             S == {"success"} \cup {Verdict(tests[req]) : req \in gated}
                  \cup (IF gated = {} THEN {"unknown"} ELSE {})
  <1>4. \A o \in Outcomes : Verdict(o) \in Results
    BY DEF Verdict, Outcomes, Results
  <1>5. S \in SUBSET Results /\ S # {}
    BY <1>1, <1>4 DEF Results
  <1>6. Combine(S) \in S
    BY <1>5, CombineIsMaximal
  <1> QED
    BY <1>3, <1>5, <1>6 DEF ProfileResult

LEMMA FinishType ==
    ASSUME NEW r \in ReportType
    PROVE  /\ Finish(r) \in ReportType
           /\ Finish(r).errors = r.errors
           /\ r.errors > 0 => Finish(r).result # "success"
  <1>1. r.tests \in TestsType
    BY DEF ReportType, TestsType
  <1> DEFINE p == ProfileResult(r.tests, r.supported)
             S == {p} \cup (IF r.errors > 0 THEN {"unknown"} ELSE {})
  <1>2. p \in Results /\ Statistics(r.tests) \in [Outcomes -> Nat]
    BY <1>1, SummaryType
  <1>3. S \in SUBSET Results /\ S # {}
    BY <1>2 DEF Results
  <1>4. Overall(p, r.errors) = Combine(S)
    BY DEF Overall
  <1>5. Combine(S) \in Results
    BY <1>3, CombineIsMaximal
  <1>6. r.errors > 0 => Combine(S) # "success"
    BY <1>3, CombineSuccess
  <1>7. Finish(r) = [r EXCEPT !.statistics = Statistics(r.tests),
                              !.profileResult = p,
                              !.result = Overall(p, r.errors)]
    BY DEF Finish
  <1> HIDE DEF p, S
  <1>8. Overall(p, r.errors) \in Results
    BY <1>4, <1>5
  <1>9. Finish(r) \in ReportType
    BY <1>2, <1>7, <1>8 DEF ReportType
  <1>10. Finish(r).errors = r.errors /\ Finish(r).result = Overall(p, r.errors)
    BY <1>7 DEF ReportType
  <1> QED
    BY <1>4, <1>6, <1>9, <1>10

LEMMA AbortType ==
    ASSUME NEW r \in ReportType, r.errors = 0
    PROVE  Abort(r) \in ReportType /\ Abort(r).result # "success"
  <1> DEFINE q == [r EXCEPT !.errors = @ + 1]
  <1>1. q \in ReportType /\ q.errors = 1
    <2>1. q = [r EXCEPT !.errors = 1]
      OBVIOUS
    <2>2. 1 \in 0 .. 1
      OBVIOUS
    <2> QED
      BY <2>1, <2>2 DEF ReportType
  <1> HIDE DEF q
  <1>2. Finish(q) \in ReportType /\ Finish(q).result # "success"
    BY <1>1, FinishType
  <1> QED
    BY <1>2 DEF Abort, q

LEMMA FillAllType ==
    ASSUME NEW r \in ReportType, r.errors = 0, NEW o \in Outcomes
    PROVE  FillAll(r, o) \in ReportType /\ FillAll(r, o).errors = 0
  BY DEF FillAll, ReportType

LEMMA CheckType ==
    ASSUME NEW req \in Catalog, NEW s \in SnapshotType
    PROVE  Check(req, s) \in Outcomes
  <1>1. CheckAPI(req, s) \in Outcomes
    BY DEF CheckAPI, SnapshotType, Outcomes
  <1>2. ASSUME NEW profiles
        PROVE  /\ CheckRepresentation(s, profiles) \in Outcomes
               /\ CheckUniqueness(profiles) \in Outcomes
               /\ CheckFields(req, profiles) \in Outcomes
    BY DEF CheckRepresentation, CheckUniqueness, CheckFields, Outcomes
  <1> QED
    BY <1>1, <1>2 DEF Check, Outcomes

LEMMA CheckedType ==
    ASSUME NEW r \in ReportType, r.errors = 0, snapshot \in SnapshotType
    PROVE  Checked(r) \in ReportType /\ Checked(r).errors = 0
  <1> DEFINE q == [r EXCEPT
        !.observed = {p.name : p \in snapshot.profiles},
        !.tests = [req \in Catalog |->
                     IF Selected(req) THEN Check(req, snapshot) ELSE "skipped"]]
  <1>1. {p.name : p \in snapshot.profiles} \in SUBSET STRING
    <2>1. snapshot.profiles \in SUBSET ProfileType
      BY DEF SnapshotType
    <2>2. \A p \in ProfileType : p.name \in STRING
      BY DEF ProfileType
    <2> QED
      BY <2>1, <2>2
  <1>2. [req \in Catalog |-> IF Selected(req) THEN Check(req, snapshot) ELSE "skipped"]
          \in [Catalog -> Outcomes]
    BY CheckType DEF Outcomes
  <1>3. q \in ReportType /\ q.errors = 0
    BY <1>1, <1>2 DEF ReportType
  <1> HIDE DEF q
  <1> QED
    BY <1>3 DEF Checked, q

(***************************************************************************)
(* The inductive invariant.  A report without an error is what every       *)
(* return path starts from; that it holds exactly one error afterwards     *)
(* bounds the counter and decides the result.                              *)
(***************************************************************************)
Agreement ==
    /\ pc # "returned" => report.errors = 0 /\ err = "nil"
    /\ ExitMatchesResult

RunInv == TypeOK /\ Agreement

LEMMA RunInit == Init => RunInv
  <1> SUFFICES ASSUME Init PROVE RunInv
    OBVIOUS
  <1>1. options \in OptionType
    BY RunAssumption DEF Init
  <1>2. snapshot \in SnapshotType
    <2>1. options.expected \in Nat
      BY <1>1 DEF OptionType
    <2>2. NoSnapshot \in SnapshotType
      BY DEF NoSnapshot, SnapshotType
    <2> QED
      BY <2>1, <2>2 DEF Init, SnapshotType
  <1>3. report \in ReportType /\ report.errors = 0
    <2>1. Statistics(<< >>) \in [Outcomes -> Nat]
      BY SummaryType DEF TestsType
    <2>2. /\ options.named \in BOOLEAN /\ options.metadata \in BOOLEAN
          /\ options.runMode \in {"development", "submission"}
          /\ options.supported \in SUBSET (Features \cup {"unknown"})
      BY <1>1 DEF OptionType
    <2>3. NewReport(options) \in ReportType
      BY <2>1, <2>2 DEF NewReport, ReportType, Results
    <2> QED
      BY <2>3 DEF Init, NewReport
  <1>4. /\ \A c \in Calls : answer[c] \in AnswerType(c) \cup {Absent}
        /\ \A c \in Calls : chan[c] \in AnswerType(c) \cup {Absent}
    BY DEF Init
  <1>5. changes \in 0 .. MaxChanges
    BY RunAssumption DEF Init
  <1> QED
    BY <1>2, <1>3, <1>4, <1>5
    DEF Init, RunInv, TypeOK, Agreement, ExitMatchesResult, Steps

\* Both early exits leave a valid report with an error.
LEMMA FailSetupStep ==
    ASSUME RunInv, pc # "returned", NEW o \in Outcomes,
           Return(Abort(FillAll(report, o)), "error")
    PROVE  report' \in ReportType /\ err' = "error" /\ pc' = "returned"
           /\ Agreement'
  <1>1. report \in ReportType /\ report.errors = 0
    BY DEF RunInv, TypeOK, Agreement
  <1>2. FillAll(report, o) \in ReportType /\ FillAll(report, o).errors = 0
    BY <1>1, FillAllType
  <1> DEFINE q == Abort(FillAll(report, o))
  <1>3. q \in ReportType /\ q.result # "success"
    BY <1>2, AbortType
  <1> QED
    BY <1>3 DEF Return, Agreement, ExitMatchesResult

LEMMA DeliverStep ==
    ASSUME RunInv, pc # "returned", NEW c \in Calls, NEW a \in AnswerType(c),
           Deliver(c, a), UNCHANGED err
    PROVE  report' \in ReportType /\ snapshot' \in SnapshotType /\ pc' \in Steps
           /\ Agreement'
  <1>1. report \in ReportType /\ report.errors = 0 /\ err = "nil"
        /\ snapshot \in SnapshotType
    BY DEF RunInv, TypeOK, Agreement
  <1>2. CASE c = "version"
    <2>1. a \in {"", "v1"}
      BY <1>2 DEF AnswerType
    <2>2. report' = [report EXCEPT !.kubernetesVersion = a] /\ pc' = "context"
          /\ UNCHANGED snapshot
      BY <1>2 DEF Deliver
    <2>3. report' \in ReportType /\ report'.errors = 0
      BY <1>1, <2>1, <2>2 DEF ReportType
    <2> QED
      BY <1>1, <2>2, <2>3 DEF Steps, Agreement, ExitMatchesResult
  <1>3. CASE c = "resources"
    <2>1. a \in ListAnswers
      BY <1>3 DEF AnswerType
    <2>2. /\ snapshot' = [snapshot EXCEPT !.resources = a.resources,
                                          !.apiError = a.apiError,
                                          !.profileError = a.apiError]
          /\ pc' \in {"list", "evaluate"} /\ UNCHANGED report
      BY <1>3 DEF Deliver
    <2>3. snapshot' \in SnapshotType
      BY <1>1, <2>1, <2>2 DEF SnapshotType, ListAnswers
    <2> QED
      BY <1>1, <2>2, <2>3 DEF Steps, Agreement, ExitMatchesResult
  <1> QED
    BY <1>2, <1>3 DEF Calls

LEMMA AnswersType ==
    ASSUME TypeOK, NEW c \in Calls
    PROVE  /\ Answers(c) \in SUBSET AnswerType(c)
           /\ ContextError(c) \in AnswerType(c)
  <1>1. hub.served \in ServedKinds
    BY RunAssumption DEF TypeOK
  <1>2. ASSUME NEW r \in {"nil", "absent", "namespaced", "cluster"},
               NEW e \in {"", "NotFound", "other"}
        PROVE  [resources |-> r, apiError |-> e] \in ListAnswers
    BY DEF ListAnswers
  <1>3. CASE c = "version"
    BY <1>3 DEF Answers, AnswerType, ContextError
  <1>4. CASE c = "resources"
    <2>1. /\ [resources |-> "nil", apiError |-> "other"] \in ListAnswers
          /\ [resources |-> "nil", apiError |-> "NotFound"] \in ListAnswers
          /\ [resources |-> "nil", apiError |-> ""] \in ListAnswers
          /\ hub.served # "none" =>
                [resources |-> hub.served, apiError |-> ""] \in ListAnswers
      BY <1>1, <1>2 DEF ServedKinds
    <2> QED
      BY <1>4, <2>1 DEF Answers, AnswerType, ContextError
  <1> QED
    BY <1>3, <1>4 DEF Calls

LEMMA RunStep == RunInv /\ [Next]_vars => RunInv'
  <1> SUFFICES ASSUME RunInv, [Next]_vars PROVE RunInv'
    OBVIOUS
  <1>1. CASE Start
    <2>1. UNCHANGED <<options, hub, changes, ctx, async, snapshot>>
      BY <1>1 DEF Start
    <2>2. CASE FailSetup(report) \/ Return(Abort(FillAll(report, "skipped")), "error")
      <3>1. report' \in ReportType /\ err' = "error" /\ pc' = "returned" /\ Agreement'
        BY <1>1, <2>2, FailSetupStep DEF Start, FailSetup, Outcomes
      <3> QED
        BY <2>1, <3>1 DEF RunInv, TypeOK, async, Steps
    <2>3. CASE pc' = "version" /\ UNCHANGED <<report, err>>
      BY <1>1, <2>1, <2>3
      DEF Start, RunInv, TypeOK, Agreement, ExitMatchesResult, async, Steps, Calls
    <2> QED
      BY <1>1, <2>2, <2>3 DEF Start
  <1>2. ASSUME NEW c \in Calls, StartCall(c) PROVE RunInv'
    <2>1. pc # "returned"
      BY <1>2 DEF StartCall, Calls
    <2>2. CASE options.client = "custom" /\ ctx = "done"
      <3>1. Deliver(c, ContextError(c)) /\ UNCHANGED <<goroutine, err>>
        BY <1>2, <2>2 DEF StartCall
      <3>2. ContextError(c) \in AnswerType(c)
        BY AnswersType DEF RunInv
      <3>3. report' \in ReportType /\ snapshot' \in SnapshotType /\ pc' \in Steps
            /\ Agreement'
        BY <2>1, <3>1, <3>2, DeliverStep
      <3> QED
        BY <1>2, <3>1, <3>3 DEF StartCall, RunInv, TypeOK
    <2>3. CASE pc' = Awaiting(c) /\ UNCHANGED <<snapshot, report>>
      <3>1. goroutine' \in [Calls -> {"none", "observing", "sending", "done"}]
        BY <1>2, <2>3 DEF StartCall, RunInv, TypeOK
      <3>2. pc' \in Steps /\ pc' # "returned"
        BY <2>3 DEF Steps, Awaiting
      <3> QED
        BY <1>2, <2>1, <2>3, <3>1, <3>2
        DEF StartCall, RunInv, TypeOK, Agreement, ExitMatchesResult
    <2> QED
      BY <1>2, <2>2, <2>3 DEF StartCall
  <1>3. ASSUME NEW c \in Calls, RestAnswer(c) PROVE RunInv'
    <2>1. PICK a \in Answers(c) : Deliver(c, a)
      BY <1>3 DEF RestAnswer
    <2>2. a \in AnswerType(c)
      BY AnswersType DEF RunInv
    <2>3. pc # "returned" /\ UNCHANGED err
      BY <1>3 DEF RestAnswer, Awaiting
    <2>4. report' \in ReportType /\ snapshot' \in SnapshotType /\ pc' \in Steps
          /\ Agreement'
      BY <2>1, <2>2, <2>3, DeliverStep
    <2> QED
      BY <1>3, <2>4 DEF RestAnswer, RunInv, TypeOK, async
  <1>4. ASSUME NEW c \in Calls, Select(c) PROVE RunInv'
    <2>1. PICK a \in AnswerType(c) : Deliver(c, a)
      <3>1. chan[c] # Absent => chan[c] \in AnswerType(c)
        BY DEF RunInv, TypeOK
      <3>2. ContextError(c) \in AnswerType(c)
        BY AnswersType DEF RunInv
      <3> QED
        BY <1>4, <3>1, <3>2 DEF Select
    <2>2. pc # "returned" /\ UNCHANGED err
      BY <1>4 DEF Select, Awaiting
    <2>3. report' \in ReportType /\ snapshot' \in SnapshotType /\ pc' \in Steps
          /\ Agreement'
      BY <2>1, <2>2, DeliverStep
    <2>4. /\ DOMAIN chan' = Calls
          /\ \A d \in Calls : chan'[d] \in AnswerType(d) \cup {Absent}
      BY <1>4 DEF Select, RunInv, TypeOK
    <2> QED
      BY <1>4, <2>3, <2>4 DEF Select, RunInv, TypeOK
  <1>5. CASE CheckContext \/ GetNamespace
    <2>1. UNCHANGED <<options, hub, changes, ctx, async, snapshot>> /\ pc # "returned"
      BY <1>5 DEF CheckContext, GetNamespace
    <2>2. CASE FailSetup(report)
      <3>1. report' \in ReportType /\ err' = "error" /\ pc' = "returned" /\ Agreement'
        BY <2>1, <2>2, FailSetupStep DEF FailSetup, Outcomes
      <3> QED
        BY <2>1, <3>1 DEF RunInv, TypeOK, async, Steps
    <2>3. CASE pc' \in {"namespace", "resources"} /\ UNCHANGED <<report, err>>
      BY <2>1, <2>3
      DEF RunInv, TypeOK, Agreement, ExitMatchesResult, async, Steps, Calls
    <2> QED
      BY <1>5, <2>2, <2>3 DEF CheckContext, GetNamespace
  <1>6. CASE List
    <2>1. hub.inventory \in SUBSET ProfileType
      BY RunAssumption DEF RunInv, TypeOK
    <2>2. Managed(hub.inventory) \in SUBSET ProfileType
      BY <2>1 DEF Managed
    <2>3. snapshot \in SnapshotType
      BY DEF RunInv, TypeOK
    <2>4. snapshot' \in SnapshotType
      <3>1. CASE \E e \in {"other", "NotFound"} :
                    snapshot' = [snapshot EXCEPT !.profileError = e]
        BY <2>3, <3>1 DEF SnapshotType
      <3>2. CASE snapshot' = [snapshot EXCEPT !.listed = TRUE,
                                 !.profiles = hub.inventory,
                                 !.managed = Managed(hub.inventory)]
        BY <2>1, <2>2, <2>3, <3>2 DEF SnapshotType
      <3> QED
        BY <1>6, <3>1, <3>2 DEF List
    <2> QED
      BY <1>6, <2>4
      DEF List, RunInv, TypeOK, Agreement, ExitMatchesResult, async, Steps
  <1>7. CASE Evaluate
    <2>1. report \in ReportType /\ report.errors = 0 /\ snapshot \in SnapshotType
      BY <1>7 DEF Evaluate, RunInv, TypeOK, Agreement
    <2>2. PICK r \in {Checked(report)} : report' = Finish(r)
      BY <1>7 DEF Evaluate
    <2>3. r \in ReportType /\ r.errors = 0
      BY <2>1, <2>2, CheckedType
    <2>4. report' \in ReportType /\ report'.errors = 0
      BY <2>2, <2>3, FinishType
    <2> QED
      BY <1>7, <2>4
      DEF Evaluate, RunInv, TypeOK, Agreement, ExitMatchesResult, async, Steps
  <1>8. CASE Conclude
    <2>1. report \in ReportType /\ report.errors = 0
      BY <1>8 DEF Conclude, RunInv, TypeOK, Agreement
    <2>2. Abort(report) \in ReportType /\ Abort(report).result # "success"
      BY <2>1, AbortType
    <2>3. report' \in ReportType /\ err' \in {"nil", "error"} /\ pc' = "returned"
          /\ (err' = "nil" <=> report'.result = "success")
      BY <1>8, <2>1, <2>2 DEF Conclude, Return
    <2> QED
      BY <1>8, <2>3
      DEF Conclude, RunInv, TypeOK, Agreement, ExitMatchesResult, async, Steps
  <1>9. CASE ChangeHub \/ EndContext
    <2>1. UNCHANGED <<options, pc, async, snapshot, report, err>>
      BY <1>9 DEF ChangeHub, EndContext
    <2>2. hub' \in [served : Served, namespace : {"found", "missing", "forbidden"},
                    inventory : Inventories]
      BY <1>9 DEF ChangeHub, EndContext, RunInv, TypeOK
    <2>3. changes' \in 0 .. MaxChanges /\ ctx' \in {"live", "done"}
      BY <1>9, RunAssumption DEF ChangeHub, EndContext, RunInv, TypeOK
    <2> QED
      BY <2>1, <2>2, <2>3 DEF RunInv, TypeOK, Agreement, ExitMatchesResult, async
  <1>10. ASSUME NEW c \in Calls, Observe(c) PROVE RunInv'
    <2>1. PICK a \in Answers(c) : answer' = [answer EXCEPT ![c] = a]
      BY <1>10 DEF Observe
    <2>2. a \in AnswerType(c)
      BY AnswersType DEF RunInv
    <2>3. \A d \in Calls : answer'[d] \in AnswerType(d) \cup {Absent}
      BY <2>1, <2>2 DEF RunInv, TypeOK
    <2> QED
      BY <1>10, <2>1, <2>3
      DEF Observe, RunInv, TypeOK, Agreement, ExitMatchesResult
  <1>11. ASSUME NEW c \in Calls, Send(c) PROVE RunInv'
    <2>1. \A d \in Calls : chan'[d] \in AnswerType(d) \cup {Absent}
      BY <1>11 DEF Send, RunInv, TypeOK
    <2> QED
      BY <1>11, <2>1 DEF Send, RunInv, TypeOK, Agreement, ExitMatchesResult
  <1>12. CASE UNCHANGED vars
    BY <1>12 DEF vars, async, RunInv, TypeOK, Agreement, ExitMatchesResult
  <1> QED
    BY <1>1, <1>2, <1>3, <1>4, <1>5, <1>6, <1>7, <1>8, <1>9, <1>10, <1>11, <1>12
    DEF Next, Step

\* Every variable of the run keeps its type; in particular no path records
\* more than one error, and every check gets an outcome of the catalog.
THEOREM RunTypeCorrect == Spec => []TypeOK
  <1>1. RunInv => TypeOK
    BY DEF RunInv
  <1> QED
    BY RunInit, RunStep, <1>1, PTL DEF Spec

\* The error that Run returns and the result in the report agree on every
\* path, whatever the hub answers and whenever the context ends.
THEOREM ExitAgreesWithReport == Spec => []ExitMatchesResult
  <1>1. RunInv => ExitMatchesResult
    BY DEF RunInv, Agreement
  <1> QED
    BY RunInit, RunStep, <1>1, PTL DEF Spec

(***************************************************************************)
(* What the summary makes of the outcomes.                                 *)
(***************************************************************************)
LEMMA Ranks ==
    /\ ResultRank["success"] = 0 /\ ResultRank["partial"] = 1
    /\ ResultRank["unknown"] = 2 /\ ResultRank["failure"] = 3
  BY DEF ResultRank, Results

LEMMA RankType ==
    ASSUME NEW r \in Results
    PROVE  /\ ResultRank[r] \in 0..3
           /\ ResultRank[r] <= 0 => r = "success"
           /\ ResultRank[r] >= 2 => r \in {"unknown", "failure"}
  BY Ranks DEF Results

\* The verdicts of the gated checks bound the result of the profile.
LEMMA ProfileResultBounds ==
    ASSUME NEW tests \in [Catalog -> Outcomes], NEW supported
    PROVE  LET P == ProfileResult(tests, supported)
           IN  /\ P \in Results
               /\ \A req \in Catalog : Gate(req, supported) =>
                     ResultRank[Verdict(tests[req])] <= ResultRank[P]
               /\ P = "failure" => \E req \in Catalog :
                     Gate(req, supported) /\ Verdict(tests[req]) = "failure"
  <1> DEFINE gated == {req \in DOMAIN tests : Gate(req, supported)}
             verdicts == {Verdict(tests[req]) : req \in gated}
             S == {"success"} \cup verdicts \cup (IF gated = {} THEN {"unknown"} ELSE {})
  <1>1. \A o \in Outcomes : Verdict(o) \in Results
    BY DEF Verdict, Outcomes, Results
  <1>2. S \in SUBSET Results /\ S # {}
    BY <1>1 DEF Results
  <1>3. ProfileResult(tests, supported) = Combine(S)
    BY DEF ProfileResult
  <1>4. gated = {req \in Catalog : Gate(req, supported)}
    OBVIOUS
  <1>5. \A req \in Catalog : Gate(req, supported) => Verdict(tests[req]) \in S
    BY <1>4
  <1>6. "failure" \in S => \E req \in Catalog :
            Gate(req, supported) /\ Verdict(tests[req]) = "failure"
    BY <1>4
  <1> HIDE DEF S
  <1>7. Combine(S) \in S /\ \A q \in S : ResultRank[q] <= ResultRank[Combine(S)]
    BY <1>2, CombineIsMaximal
  <1> QED
    BY <1>2, <1>3, <1>5, <1>6, <1>7

\* An error makes the result at least "unknown"; it blames nobody.
LEMMA OverallBounds ==
    ASSUME NEW p \in Results, NEW errors \in 0..1
    PROVE  LET R == Overall(p, errors)
           IN  /\ R \in Results /\ ResultRank[p] <= ResultRank[R]
               /\ errors = 1 => R \in {"unknown", "failure"}
               /\ R = "failure" => p = "failure"
  <1> DEFINE S == {p} \cup (IF errors > 0 THEN {"unknown"} ELSE {})
  <1>1. S \in SUBSET Results /\ S # {} /\ p \in S
    BY DEF Results
  <1>2. Overall(p, errors) = Combine(S)
    BY DEF Overall
  <1>3. errors = 1 => "unknown" \in S
    OBVIOUS
  <1>4. "failure" \in S => p = "failure"
    OBVIOUS
  <1> HIDE DEF S
  <1>5. Combine(S) \in S /\ \A q \in S : ResultRank[q] <= ResultRank[Combine(S)]
    BY <1>1, CombineIsMaximal
  <1>6. Combine(S) \in Results
    BY <1>1, <1>5
  <1>7. ResultRank[p] <= ResultRank[Combine(S)]
    BY <1>1, <1>5
  <1>8. errors = 1 => Combine(S) \in {"unknown", "failure"}
    BY <1>3, <1>5, <1>6, Ranks, RankType
  <1> QED
    BY <1>2, <1>4, <1>5, <1>6, <1>7, <1>8

(***************************************************************************)
(* What the checks mean.                                                   *)
(***************************************************************************)
LEMMA CatalogEntries ==
    /\ \A req \in Catalog :
         \/ /\ ~Optional(req) /\ req.scope = "api" /\ req.id \in {"APIAvailability", "Namespaced"}
         \/ /\ ~Optional(req) /\ req.scope = "manager"
            /\ req.id \in {"Representation", "ManagerValue", "MemberIDValue"}
         \/ /\ Optional(req) /\ req.scope = "manager"
            /\ \/ req.id = "ManagerPresence" /\ req.feature = "ClusterManagerLabel"
               \/ req.id = "MemberIDPresence" /\ req.feature = "InventoryMemberID"
               \/ req.id = "HealthyPresence" /\ req.feature = "ControlPlaneHealthy"
               \/ req.id = "JoinedPresence" /\ req.feature = "Joined"
               \/ req.id = "VersionPresence" /\ req.feature = "KubernetesVersion"
         \/ /\ Optional(req) /\ req.scope = "inventory"
            /\ req.id = "MemberUniqueness" /\ req.feature = "InventoryMemberUniqueness"
    /\ \A id \in {"APIAvailability", "Namespaced", "Representation", "ManagerValue",
                  "MemberIDValue"} :
         \E req \in Catalog : req.id = id /\ ~Optional(req)
    /\ \A f \in Features : \E req \in Catalog : Optional(req) /\ req.feature = f
    /\ \A req \in Catalog : Optional(req) => req.feature \in Features
  <1> DEFINE Entry(req) ==
         \/ /\ req.feature = "" /\ req.scope = "api" /\ req.id \in {"APIAvailability", "Namespaced"}
         \/ /\ req.feature = "" /\ req.scope = "manager"
            /\ req.id \in {"Representation", "ManagerValue", "MemberIDValue"}
         \/ /\ req.scope = "manager"
            /\ \/ req.id = "ManagerPresence" /\ req.feature = "ClusterManagerLabel"
               \/ req.id = "MemberIDPresence" /\ req.feature = "InventoryMemberID"
               \/ req.id = "HealthyPresence" /\ req.feature = "ControlPlaneHealthy"
               \/ req.id = "JoinedPresence" /\ req.feature = "Joined"
               \/ req.id = "VersionPresence" /\ req.feature = "KubernetesVersion"
         \/ /\ req.scope = "inventory"
            /\ req.id = "MemberUniqueness" /\ req.feature = "InventoryMemberUniqueness"
  <1>1. \A req \in Catalog : Entry(req)
    <2>1. /\ Entry(Req("APIAvailability", "MUST", "", "api"))
          /\ Entry(Req("Namespaced", "MUST", "", "api"))
      BY DEF Req
    <2>2. /\ Entry(Req("Representation", "MUST", "", "manager"))
          /\ Entry(Req("ManagerValue", "MUST", "", "manager"))
          /\ Entry(Req("MemberIDValue", "MUST", "", "manager"))
      BY DEF Req
    <2>3. /\ Entry(Req("ManagerPresence", "MAY", "ClusterManagerLabel", "manager"))
          /\ Entry(Req("MemberIDPresence", "SHOULD", "InventoryMemberID", "manager"))
          /\ Entry(Req("MemberUniqueness", "SHOULD", "InventoryMemberUniqueness", "inventory"))
      BY DEF Req
    <2>4. /\ Entry(Req("HealthyPresence", "Informative", "ControlPlaneHealthy", "manager"))
          /\ Entry(Req("JoinedPresence", "SHOULD", "Joined", "manager"))
          /\ Entry(Req("VersionPresence", "Informative", "KubernetesVersion", "manager"))
      BY DEF Req
    <2> HIDE DEF Entry
    <2> QED
      BY <2>1, <2>2, <2>3, <2>4, Zenon DEF Catalog
  <1>2. \A id \in {"APIAvailability", "Namespaced", "Representation", "ManagerValue",
                   "MemberIDValue"} :
          \E req \in Catalog : req.id = id /\ req.feature = ""
    <2>1. \A id : \A scope \in {"api", "manager"} :
             Req(id, "MUST", "", scope).id = id /\ Req(id, "MUST", "", scope).feature = ""
      BY DEF Req
    <2>2. /\ Req("APIAvailability", "MUST", "", "api") \in Catalog
          /\ Req("Namespaced", "MUST", "", "api") \in Catalog
          /\ Req("Representation", "MUST", "", "manager") \in Catalog
          /\ Req("ManagerValue", "MUST", "", "manager") \in Catalog
          /\ Req("MemberIDValue", "MUST", "", "manager") \in Catalog
      BY Zenon DEF Catalog
    <2> QED
      BY <2>1, <2>2
  <1>3. \A f \in Features : \E req \in Catalog : Optional(req) /\ req.feature = f
    BY DEF Features
  <1>4. \A req \in Catalog : Optional(req) => req.feature \in Features
    BY DEF Features
  <1>5. \A req \in Catalog :
         \/ /\ ~Optional(req) /\ req.scope = "api" /\ req.id \in {"APIAvailability", "Namespaced"}
         \/ /\ ~Optional(req) /\ req.scope = "manager"
            /\ req.id \in {"Representation", "ManagerValue", "MemberIDValue"}
         \/ /\ Optional(req) /\ req.scope = "manager"
            /\ \/ req.id = "ManagerPresence" /\ req.feature = "ClusterManagerLabel"
               \/ req.id = "MemberIDPresence" /\ req.feature = "InventoryMemberID"
               \/ req.id = "HealthyPresence" /\ req.feature = "ControlPlaneHealthy"
               \/ req.id = "JoinedPresence" /\ req.feature = "Joined"
               \/ req.id = "VersionPresence" /\ req.feature = "KubernetesVersion"
         \/ /\ Optional(req) /\ req.scope = "inventory"
            /\ req.id = "MemberUniqueness" /\ req.feature = "InventoryMemberUniqueness"
    BY <1>1 DEF Optional
  <1> QED
    <2>1. \A id \in {"APIAvailability", "Namespaced", "Representation", "ManagerValue",
                     "MemberIDValue"} :
            \E req \in Catalog : req.id = id /\ ~Optional(req)
      BY <1>2 DEF Optional
    <2> QED
      BY <1>3, <1>4, <1>5, <2>1

LEMMA LabelIsEmpty == \A value : Label(value) = "" <=> value \in {Absent, ""}
  BY DEF Label

\* A check is not supported only where its support may be denied.
LEMMA NotSupportedIsOptional ==
    ASSUME NEW req \in Catalog, NEW s \in SnapshotType, Check(req, s) = "not-supported"
    PROVE  Optional(req)
  <1>1. CheckAPI(req, s) # "not-supported"
    BY DEF CheckAPI, SnapshotType
  <1>2. \A profiles : CheckRepresentation(s, profiles) # "not-supported"
    BY DEF CheckRepresentation
  <1>3. ASSUME ~Optional(req), NEW profiles
        PROVE  CheckFields(req, profiles) # "not-supported"
    <2>1. Missing(req, profiles) = {}
      BY <1>3, CatalogEntries DEF Missing
    <2> QED
      BY <2>1 DEF CheckFields
  <1>4. \A profiles : CheckUniqueness(profiles) # "not-supported"
    BY DEF CheckUniqueness
  <1>5. \E profiles : CheckFields(req, profiles) = "not-supported"
    BY <1>1, <1>2, <1>4 DEF Check
  <1> QED
    BY <1>3, <1>5

\* A check fails only over what it saw: the API, or an inventory that breaks a
\* requirement, or the claim that the check is about.
LEMMA FailedCheck ==
    ASSUME snapshot \in SnapshotType, NEW req \in Catalog,
           Check(req, snapshot) \in {"failed", "not-supported"}
    PROVE  \/ snapshot.apiError = "NotFound"
           \/ snapshot.apiError = "" /\ snapshot.resources \in {"absent", "cluster"}
           \/ /\ snapshot.profileError = ""
              /\ IF Optional(req) THEN ~ClaimHolds(req.feature) ELSE ~RequirementsHold
  <1>1. CASE req.scope = "api"
    <2>1. CheckAPI(req, snapshot) \in {"failed", "not-supported"}
      BY <1>1 DEF Check
    <2> QED
      BY <2>1 DEF CheckAPI, SnapshotType
  <1>2. CASE req.scope # "api"
    <2>1. snapshot.profileError = ""
      BY <1>2 DEF Check
    <2>2. CASE req.id = "Representation"
      <3>1. CheckRepresentation(snapshot, snapshot.managed) # "passed" /\ ~Optional(req)
        BY <1>2, <2>1, <2>2, CatalogEntries DEF Check, Scoped
      <3>2. snapshot.expected \in Nat
        BY DEF SnapshotType
      <3>3. \/ snapshot.managed = {}
            \/ snapshot.expected > 0 /\ Cardinality(snapshot.managed) # snapshot.expected
        BY <3>1 DEF CheckRepresentation
      <3>4. snapshot.managed = {} \/ snapshot.expected \notin {0, Cardinality(snapshot.managed)}
        <4>1. PICK n : n = Cardinality(snapshot.managed)
          OBVIOUS
        <4> QED
          BY <3>2, <3>3, <4>1
      <3>5. ~RequirementsHold
        BY <3>4, Zenon DEF RequirementsHold
      <3> QED
        BY <2>1, <3>1, <3>5
    <2>3. CASE req.id = "MemberUniqueness"
      <3>1. CheckUniqueness(snapshot.profiles) \in {"failed", "not-supported"}
            /\ req.feature = "InventoryMemberUniqueness" /\ Optional(req)
        BY <1>2, <2>1, <2>3, CatalogEntries DEF Check, Scoped
      <3>2. \E p, q \in snapshot.profiles :
               /\ Label(p.memberID) # "" /\ p.name # q.name /\ p.memberID = q.memberID
        BY <3>1 DEF CheckUniqueness
      <3>3. ~ClaimHolds("InventoryMemberUniqueness")
        BY <3>2, LabelIsEmpty DEF ClaimHolds
      <3> QED
        BY <2>1, <3>1, <3>3
    <2>4. CASE req.id \notin {"Representation", "MemberUniqueness"}
      <3>1. CheckFields(req, snapshot.managed) \in {"failed", "not-supported"}
        BY <1>2, <2>1, <2>4, CatalogEntries DEF Check, Scoped
      <3>2. CASE ~Optional(req)
        <4>1. Missing(req, snapshot.managed) = {}
          BY <3>2, CatalogEntries DEF Missing
        <4>2. ~RequirementsHold
          BY <3>1, <4>1 DEF CheckFields, RequirementsHold
        <4> QED
          BY <2>1, <3>2, <4>2
      <3>3. CASE Optional(req)
        <4>1. req.id \notin {"ManagerValue", "MemberIDValue"}
          BY <3>3, CatalogEntries
        <4>2. PICK p \in snapshot.managed : p \in Missing(req, snapshot.managed)
          BY <3>1, <4>1 DEF CheckFields, Missing
        <4>3. ~ClaimHolds(req.feature)
          BY <2>4, <3>3, <4>2, CatalogEntries, LabelIsEmpty DEF Missing, ClaimHolds
        <4> QED
          BY <2>1, <3>3, <4>3
      <3> QED
        BY <3>2, <3>3
    <2> QED
      BY <2>2, <2>3, <2>4
  <1> QED
    BY <1>1, <1>2

NamesAreUnique(profiles) == \A p, q \in profiles : p.name = q.name => p = q

\* What a check that passed has seen.
LEMMA PassedAPI ==
    ASSUME snapshot \in SnapshotType,
           \A req \in Catalog : ~Optional(req) => Check(req, snapshot) = "passed"
    PROVE  /\ snapshot.apiError = "" /\ snapshot.profileError = ""
           /\ snapshot.resources = "namespaced"
  <1>1. PICK req \in Catalog : req.id = "APIAvailability" /\ ~Optional(req)
    BY CatalogEntries
  <1>2. CheckAPI(req, snapshot) = "passed"
    BY <1>1, CatalogEntries DEF Check
  <1>3. /\ snapshot.apiError = "" /\ snapshot.profileError = ""
        /\ snapshot.resources \in {"namespaced", "cluster"}
    BY <1>1, <1>2 DEF CheckAPI, SnapshotType
  <1>4. PICK ns \in Catalog : ns.id = "Namespaced" /\ ~Optional(ns)
    BY CatalogEntries
  <1>5. CheckAPI(ns, snapshot) = "passed"
    BY <1>4, CatalogEntries DEF Check
  <1>6. snapshot.resources # "cluster"
    BY <1>3, <1>4, <1>5 DEF CheckAPI
  <1> QED
    BY <1>3, <1>6

LEMMA ZeroOrMore == \A n \in Nat : n = 0 \/ n > 0
  OBVIOUS

LEMMA PassedRequirements ==
    ASSUME snapshot \in SnapshotType, snapshot.profileError = "",
           \A req \in Catalog : ~Optional(req) => Check(req, snapshot) = "passed"
    PROVE  RequirementsHold
  <1>1. \A req \in Catalog : req.scope = "manager" =>
            Scoped(req, snapshot) = snapshot.managed
    BY DEF Scoped
  <1>2. snapshot.managed # {} /\ snapshot.expected \in {0, Cardinality(snapshot.managed)}
    <2>1. PICK req \in Catalog : req.id = "Representation" /\ ~Optional(req)
      BY CatalogEntries
    <2>2. req.scope = "manager"
      BY <2>1, CatalogEntries
    <2>3. CheckRepresentation(snapshot, snapshot.managed) = "passed"
      BY <1>1, <2>1, <2>2 DEF Check
    <2>4. /\ snapshot.managed # {}
          /\ ~(snapshot.expected > 0 /\ Cardinality(snapshot.managed) # snapshot.expected)
      BY <2>3 DEF CheckRepresentation
    <2>5. snapshot.expected \in Nat
      BY DEF SnapshotType
    <2>6. CASE snapshot.expected = 0
      BY <2>4, <2>6
    <2>7. CASE snapshot.expected > 0
      BY <2>4, <2>7, Zenon
    <2>8. snapshot.expected = 0 \/ snapshot.expected > 0
      BY <2>5, ZeroOrMore, Zenon
    <2> QED
      BY <2>6, <2>7, <2>8, Zenon
  <1>3. \A p \in snapshot.managed : p.managerLabel \in {Absent, p.manager}
    <2>1. PICK req \in Catalog : req.id = "ManagerValue" /\ ~Optional(req)
      BY CatalogEntries
    <2>2. req.scope = "manager"
      BY <2>1, CatalogEntries
    <2>3. CheckFields(req, snapshot.managed) = "passed"
      BY <1>1, <1>2, <2>1, <2>2 DEF Check
    <2> QED
      BY <2>1, <2>3 DEF CheckFields
  <1>4. \A p \in snapshot.managed : p.memberID # ""
    <2>1. PICK req \in Catalog : req.id = "MemberIDValue" /\ ~Optional(req)
      BY CatalogEntries
    <2>2. req.scope = "manager"
      BY <2>1, CatalogEntries
    <2>3. CheckFields(req, snapshot.managed) = "passed"
      BY <1>1, <1>2, <2>1, <2>2 DEF Check
    <2> QED
      BY <2>1, <2>3 DEF CheckFields
  <1> QED
    BY <1>2, <1>3, <1>4 DEF RequirementsHold

LEMMA PassedClaim ==
    ASSUME snapshot.profileError = "", NamesAreUnique(snapshot.profiles),
           NEW req \in Catalog, Optional(req), Check(req, snapshot) = "passed"
    PROVE  /\ ClaimHolds(req.feature)
           /\ req.feature = "InventoryMemberUniqueness" =>
                 \A p \in snapshot.profiles : p.memberID \notin {Absent, ""}
  <1>1. CASE req.id = "MemberUniqueness"
    <2>1. /\ CheckUniqueness(snapshot.profiles) = "passed"
          /\ req.feature = "InventoryMemberUniqueness"
      BY <1>1, CatalogEntries DEF Check, Scoped
    <2>2. \A p \in snapshot.profiles : Label(p.memberID) # ""
      BY <2>1 DEF CheckUniqueness
    <2>3. \A p, q \in snapshot.profiles : p.memberID = q.memberID => p.name = q.name
      BY <2>1, <2>2 DEF CheckUniqueness
    <2> QED
      BY <2>1, <2>2, <2>3, LabelIsEmpty DEF ClaimHolds, NamesAreUnique
  <1>2. CASE req.id # "MemberUniqueness"
    <2>1. /\ CheckFields(req, snapshot.managed) = "passed"
          /\ req.feature # "InventoryMemberUniqueness"
      BY <1>2, CatalogEntries DEF Check, Scoped
    <2>2. Missing(req, snapshot.managed) = {}
      BY <2>1, CatalogEntries DEF CheckFields
    <2>3. \A p \in snapshot.managed :
             /\ req.id = "ManagerPresence" => p.managerLabel # Absent
             /\ req.id = "MemberIDPresence" => p.memberID \notin {Absent, ""}
             /\ req.id = "HealthyPresence" => p.healthy
             /\ req.id = "JoinedPresence" => p.joined
             /\ req.id = "VersionPresence" => p.version
      BY <2>2, LabelIsEmpty DEF Missing
    <2> QED
      BY <1>2, <2>1, <2>3, CatalogEntries DEF ClaimHolds
  <1> QED
    BY <1>1, <1>2

(***************************************************************************)
(* What is returned.  Every report summarises its tests; the tests are the *)
(* checks of the snapshot, or an error was recorded before any check.      *)
(***************************************************************************)
Observed ==
    /\ snapshot.listed =>
          /\ snapshot.apiError = "" /\ snapshot.profileError = ""
          /\ snapshot.profiles \in Inventories /\ snapshot.managed = Managed(snapshot.profiles)
          /\ pc \in {"evaluate", "conclude", "returned"}
    /\ pc \notin {"evaluate", "conclude", "returned"} =>
          snapshot.apiError = "" /\ snapshot.profileError = ""
    /\ pc \in {"evaluate", "conclude"} => snapshot.listed \/ snapshot.profileError # ""

FromOptions(r) ==
    /\ r.named = options.named /\ r.metadata = options.metadata
    /\ r.runMode = options.runMode /\ r.supported = options.supported

Summarised(r) ==
    /\ r.statistics = Statistics(r.tests)
    /\ r.profileResult = ProfileResult(r.tests, r.supported)
    /\ r.result = Overall(r.profileResult, r.errors)

Verified(r) ==
    /\ snapshot.listed \/ snapshot.profileError # ""
    /\ r.tests = [req \in Catalog |->
                    IF Selected(req) THEN Check(req, snapshot) ELSE "skipped"]

Aborted(r) ==
    r.errors = 1 /\ \E o \in {"unknown", "skipped"} : r.tests = [req \in Catalog |-> o]

Accepted(r) == (r.errors = 0 /\ r.runMode = "submission") => ValidReport(r, TRUE)

Reported ==
    /\ FromOptions(report)
    /\ pc \notin {"start", "returned"} => ValidOptions(options)
    /\ pc \in {"conclude", "returned"} => Summarised(report)
    /\ pc = "conclude" => Verified(report)
    /\ pc = "returned" =>
          \/ Aborted(report)
          \/ Verified(report) /\ ValidOptions(options) /\ Accepted(report)

VerdictInv == RunInv /\ Observed /\ Reported

LEMMA VerdictInit == Init => VerdictInv
  <1> SUFFICES ASSUME Init PROVE VerdictInv
    OBVIOUS
  <1>1. RunInv
    BY RunInit
  <1>2. Observed
    BY DEF Init, Observed, NoSnapshot
  <1>3. Reported
    BY DEF Init, Reported, FromOptions, NewReport
  <1> QED
    BY <1>1, <1>2, <1>3 DEF VerdictInv

\* Finish changes nothing but the summary.
LEMMA FinishSummarises ==
    ASSUME NEW r \in ReportType
    PROVE  /\ Summarised(Finish(r))
           /\ Finish(r).tests = r.tests /\ Finish(r).errors = r.errors
           /\ Finish(r).named = r.named /\ Finish(r).metadata = r.metadata
           /\ Finish(r).runMode = r.runMode /\ Finish(r).supported = r.supported
  <1> DEFINE p == ProfileResult(r.tests, r.supported)
  <1>1. PICK statistics, result : statistics = Statistics(r.tests) /\ result = Overall(p, r.errors)
    OBVIOUS
  <1> HIDE DEF p
  <1>2. Finish(r) = [r EXCEPT !.statistics = statistics, !.profileResult = p, !.result = result]
    BY <1>1 DEF Finish, p
  <1>3. /\ Finish(r).statistics = statistics /\ Finish(r).profileResult = p
        /\ Finish(r).result = result
        /\ Finish(r).tests = r.tests /\ Finish(r).errors = r.errors
        /\ Finish(r).named = r.named /\ Finish(r).metadata = r.metadata
        /\ Finish(r).runMode = r.runMode /\ Finish(r).supported = r.supported
    BY <1>2 DEF ReportType
  <1> QED
    BY <1>1, <1>3 DEF Summarised, p

LEMMA AbortSummarises ==
    ASSUME NEW r \in ReportType, r.errors = 0, FromOptions(r)
    PROVE  /\ Summarised(Abort(r)) /\ FromOptions(Abort(r))
           /\ Abort(r).tests = r.tests /\ Abort(r).errors = 1
  <1> DEFINE q == [r EXCEPT !.errors = @ + 1]
  <1>1. /\ q \in ReportType /\ q.errors = 1 /\ q.tests = r.tests
        /\ q.named = r.named /\ q.metadata = r.metadata
        /\ q.runMode = r.runMode /\ q.supported = r.supported
    <2>1. q = [r EXCEPT !.errors = 1]
      OBVIOUS
    <2>2. 1 \in 0 .. 1
      OBVIOUS
    <2>3. q \in ReportType /\ q.errors = 1
      BY <2>1, <2>2 DEF ReportType
    <2>4. /\ q.tests = r.tests /\ q.named = r.named /\ q.metadata = r.metadata
          /\ q.runMode = r.runMode /\ q.supported = r.supported
      BY <2>1 DEF ReportType
    <2> QED
      BY <2>3, <2>4
  <1> HIDE DEF q
  <1>2. Abort(r) = Finish(q)
    BY DEF Abort, q
  <1> QED
    BY <1>1, <1>2, FinishSummarises DEF FromOptions

\* An early exit.
LEMMA FailSetupReports ==
    ASSUME VerdictInv, pc # "returned", NEW o \in {"unknown", "skipped"},
           Return(Abort(FillAll(report, o)), "error"), UNCHANGED <<options, snapshot>>
    PROVE  Observed' /\ Reported'
  <1>1. report \in ReportType /\ report.errors = 0 /\ FromOptions(report) /\ o \in Outcomes
    BY DEF VerdictInv, RunInv, TypeOK, Agreement, Reported, Outcomes
  <1> DEFINE q == FillAll(report, o)
  <1>2. /\ q \in ReportType /\ q.errors = 0 /\ FromOptions(q)
        /\ q.tests = [req \in Catalog |-> o]
    <2>1. PICK tests : tests = [req \in Catalog |-> o]
      OBVIOUS
    <2>2. q = [report EXCEPT !.tests = tests]
      BY <2>1 DEF FillAll
    <2>3. FromOptions(q) /\ q.tests = tests
      BY <1>1, <2>2 DEF ReportType, FromOptions
    <2> QED
      BY <1>1, <2>1, <2>3, FillAllType
  <1> HIDE DEF q
  <1>3. report' = Abort(q) /\ pc' = "returned"
    BY DEF Return, q
  <1>4. PICK r : r = Abort(q)
    OBVIOUS
  <1>5. Summarised(r) /\ FromOptions(r) /\ Aborted(r)
    BY <1>2, <1>4, AbortSummarises DEF Aborted
  <1>6. FromOptions(r)' /\ Summarised(r)' /\ Aborted(r)'
    BY <1>5 DEF FromOptions, Summarised, Aborted
  <1>7. Reported'
    BY <1>3, <1>4, <1>6 DEF Reported, FromOptions, Summarised, Aborted
  <1>8. Observed'
    BY <1>3 DEF VerdictInv, Observed, Managed
  <1> QED
    BY <1>7, <1>8

\* Steps on the way to the checks.
LEMMA OnTheWay ==
    ASSUME VerdictInv, UNCHANGED options, ValidOptions(options),
           pc' \notin {"start", "evaluate", "conclude", "returned"},
           snapshot'.apiError = "", snapshot'.profileError = "", ~snapshot'.listed,
           FromOptions(report)'
    PROVE  Observed' /\ Reported'
  BY DEF VerdictInv, Observed, Reported

\* A step that leaves the report and what was observed alone.
LEMMA OnTheWaySame ==
    ASSUME VerdictInv, UNCHANGED <<options, snapshot, report>>, ValidOptions(options),
           pc \notin {"evaluate", "conclude", "returned"},
           pc' \notin {"start", "evaluate", "conclude", "returned"}
    PROVE  Observed' /\ Reported'
  <1>1. /\ FromOptions(report) /\ ~snapshot.listed
        /\ snapshot.apiError = "" /\ snapshot.profileError = ""
    BY DEF VerdictInv, Observed, Reported
  <1>2. UNCHANGED options /\ snapshot' = snapshot
    OBVIOUS
  <1>3. FromOptions(report)'
    BY <1>1 DEF FromOptions
  <1>4. snapshot'.apiError = "" /\ snapshot'.profileError = "" /\ ~snapshot'.listed
    BY <1>1, <1>2
  <1> QED
    BY <1>2, <1>3, <1>4, OnTheWay

LEMMA DeliverReports ==
    ASSUME VerdictInv, NEW c \in Calls, NEW a \in AnswerType(c), Deliver(c, a),
           pc \in {"version", "resources", "awaitVersion", "awaitResources"}, UNCHANGED options
    PROVE  Observed' /\ Reported'
  <1>1. /\ report \in ReportType /\ snapshot \in SnapshotType
        /\ FromOptions(report) /\ ValidOptions(options)
        /\ snapshot.apiError = "" /\ snapshot.profileError = "" /\ ~snapshot.listed
    BY DEF VerdictInv, RunInv, TypeOK, Observed, Reported
  <1>2. CASE c = "version"
    <2>1. /\ report' = [report EXCEPT !.kubernetesVersion = a] /\ pc' = "context"
          /\ UNCHANGED snapshot
      BY <1>2 DEF Deliver
    <2>2. FromOptions(report)'
      BY <1>1, <2>1 DEF ReportType, FromOptions
    <2> QED
      BY <1>1, <2>1, <2>2, OnTheWay
  <1>3. CASE c = "resources"
    <2>1. /\ snapshot' = [snapshot EXCEPT !.resources = a.resources,
                                          !.apiError = a.apiError,
                                          !.profileError = a.apiError]
          /\ pc' = IF a.apiError = "" THEN "list" ELSE "evaluate"
          /\ UNCHANGED report
      BY <1>3 DEF Deliver
    <2>2. /\ ~snapshot'.listed /\ snapshot'.apiError = a.apiError
          /\ snapshot'.profileError = a.apiError
      BY <1>1, <2>1 DEF SnapshotType
    <2>3. FromOptions(report)'
      BY <1>1, <2>1 DEF FromOptions
    <2>4. CASE a.apiError = ""
      BY <1>1, <2>1, <2>2, <2>3, <2>4, OnTheWay
    <2>5. CASE a.apiError # ""
      <3>1. pc' = "evaluate"
        BY <2>1, <2>5
      <3>2. Observed'
        BY <2>2, <2>5, <3>1 DEF Observed
      <3>3. Reported'
        BY <1>1, <2>3, <3>1 DEF Reported
      <3> QED
        BY <3>2, <3>3
    <2> QED
      BY <2>4, <2>5
  <1> QED
    BY <1>2, <1>3 DEF Calls

LEMMA EvaluateReports ==
    ASSUME VerdictInv, Evaluate
    PROVE  Observed' /\ Reported'
  <1>1. /\ report \in ReportType /\ report.errors = 0 /\ snapshot \in SnapshotType
        /\ FromOptions(report) /\ ValidOptions(options)
        /\ UNCHANGED <<options, snapshot>> /\ pc = "evaluate" /\ pc' = "conclude"
        /\ snapshot.listed \/ snapshot.profileError # ""
    BY DEF VerdictInv, RunInv, TypeOK, Agreement, Observed, Reported, Evaluate
  <1>2. PICK r \in {Checked(report)} : report' = Finish(r)
    BY DEF Evaluate
  <1>3. r \in ReportType /\ r.errors = 0
    BY <1>1, <1>2, CheckedType
  <1>4. FromOptions(r) /\ Verified(r)
    <2>1. PICK observed, tests :
             /\ tests = [req \in Catalog |->
                           IF Selected(req) THEN Check(req, snapshot) ELSE "skipped"]
             /\ r = [report EXCEPT !.observed = observed, !.tests = tests]
      BY <1>2 DEF Checked
    <2>2. FromOptions(r) /\ r.tests = tests
      BY <1>1, <2>1 DEF ReportType, FromOptions
    <2> QED
      BY <1>1, <2>1, <2>2 DEF Verified
  <1>5. PICK f : f = Finish(r)
    OBVIOUS
  <1>6. Summarised(f) /\ FromOptions(f) /\ Verified(f)
    BY <1>3, <1>4, <1>5, FinishSummarises DEF FromOptions, Verified
  <1>7. Summarised(report)' /\ FromOptions(report)' /\ Verified(report)'
    BY <1>1, <1>2, <1>5, <1>6 DEF Summarised, FromOptions, Verified, Selected
  <1>8. Observed'
    BY <1>1 DEF VerdictInv, Observed, Managed
  <1> QED
    BY <1>1, <1>7, <1>8 DEF Reported

LEMMA ConcludeReports ==
    ASSUME VerdictInv, Conclude
    PROVE  Observed' /\ Reported'
  <1>1. /\ report \in ReportType /\ report.errors = 0
        /\ FromOptions(report) /\ ValidOptions(options) /\ Summarised(report)
        /\ Verified(report) /\ UNCHANGED <<options, snapshot>>
        /\ pc = "conclude" /\ pc' = "returned"
    BY DEF VerdictInv, RunInv, TypeOK, Agreement, Reported, Conclude, Return
  <1>2. Observed'
    BY <1>1 DEF VerdictInv, Observed, Managed
  <1>3. PICK r : /\ r = report'
                 /\ \/ r = Abort(report)
                    \/ /\ r = report
                       /\ report.runMode = "submission" => ValidReport(report, TRUE)
    BY DEF Conclude, Return
  <1>4. Summarised(r) /\ FromOptions(r) /\ Verified(r) /\ Accepted(r)
    <2>1. CASE r = Abort(report)
      <3>1. Summarised(r) /\ FromOptions(r) /\ r.tests = report.tests /\ r.errors = 1
        BY <1>1, <2>1, AbortSummarises
      <3>2. Verified(r)
        BY <1>1, <3>1, Zenon DEF Verified
      <3>3. Accepted(r)
        BY <3>1 DEF Accepted
      <3> QED
        BY <3>1, <3>2, <3>3
    <2>2. CASE r = report /\ (report.runMode = "submission" => ValidReport(report, TRUE))
      BY <1>1, <2>2 DEF Accepted
    <2> QED
      BY <1>3, <2>1, <2>2
  <1>5. Summarised(report)' /\ FromOptions(report)'
    BY <1>1, <1>3, <1>4 DEF Summarised, FromOptions
  <1>6. Verified(report)'
    BY <1>1, <1>3, <1>4 DEF Verified, Selected
  <1>7. Accepted(report)' /\ ValidOptions(options)'
    BY <1>1, <1>3, <1>4 DEF Accepted
  <1> QED
    BY <1>1, <1>2, <1>5, <1>6, <1>7 DEF Reported

LEMMA StartReports ==
    ASSUME VerdictInv, Start
    PROVE  Observed' /\ Reported'
  <1>1. /\ UNCHANGED <<options, snapshot>> /\ pc = "start"
        /\ \/ \E o \in {"unknown", "skipped"} : Return(Abort(FillAll(report, o)), "error")
           \/ ValidOptions(options) /\ pc' = "version" /\ UNCHANGED report
    BY DEF Start, FailSetup
  <1>2. CASE \E o \in {"unknown", "skipped"} : Return(Abort(FillAll(report, o)), "error")
    <2>1. PICK o \in {"unknown", "skipped"} : Return(Abort(FillAll(report, o)), "error")
      BY <1>2
    <2> QED
      BY <1>1, <2>1, FailSetupReports
  <1>3. CASE ValidOptions(options) /\ pc' = "version" /\ UNCHANGED report
    BY <1>1, <1>3, OnTheWaySame
  <1> QED
    BY <1>1, <1>2, <1>3

LEMMA CallReports ==
    ASSUME VerdictInv, NEW c \in Calls, StartCall(c) \/ RestAnswer(c) \/ Select(c)
    PROVE  Observed' /\ Reported'
  <1>1. /\ TypeOK /\ Answers(c) \in SUBSET AnswerType(c) /\ ContextError(c) \in AnswerType(c)
        /\ chan[c] # Absent => chan[c] \in AnswerType(c)
    BY AnswersType DEF TypeOK, VerdictInv, RunInv
  <1>2. /\ pc \in {"version", "resources", "awaitVersion", "awaitResources"}
        /\ UNCHANGED options
    BY DEF StartCall, RestAnswer, Select, Calls, Awaiting
  <1>3. \/ \E a \in AnswerType(c) : Deliver(c, a)
        \/ pc' = Awaiting(c) /\ UNCHANGED <<snapshot, report>>
    BY <1>1 DEF StartCall, RestAnswer, Select
  <1>4. CASE \E a \in AnswerType(c) : Deliver(c, a)
    BY <1>2, <1>4, DeliverReports
  <1>5. CASE pc' = Awaiting(c) /\ UNCHANGED <<snapshot, report>>
    <2>1. pc' \in {"awaitVersion", "awaitResources"}
      BY <1>5 DEF Awaiting
    <2>2. ValidOptions(options)
      BY <1>2 DEF VerdictInv, Reported
    <2> QED
      BY <1>2, <1>5, <2>1, <2>2, OnTheWaySame
  <1> QED
    BY <1>3, <1>4, <1>5

LEMMA PreflightReports ==
    ASSUME VerdictInv, CheckContext \/ GetNamespace
    PROVE  Observed' /\ Reported'
  <1>1. /\ pc \in {"context", "namespace"} /\ UNCHANGED <<options, snapshot>>
        /\ \/ Return(Abort(FillAll(report, "unknown")), "error")
           \/ pc' \in {"namespace", "resources"} /\ UNCHANGED report
    BY DEF CheckContext, GetNamespace, FailSetup
  <1>2. CASE Return(Abort(FillAll(report, "unknown")), "error")
    BY <1>1, <1>2, FailSetupReports
  <1>3. CASE pc' \in {"namespace", "resources"} /\ UNCHANGED report
    <2>1. ValidOptions(options)
      BY <1>1 DEF VerdictInv, Reported
    <2> QED
      BY <1>1, <1>3, <2>1, OnTheWaySame
  <1> QED
    BY <1>1, <1>2, <1>3

LEMMA ListReports ==
    ASSUME VerdictInv, List
    PROVE  Observed' /\ Reported'
  <1>1. /\ pc = "list" /\ pc' = "evaluate" /\ UNCHANGED <<options, report>>
        /\ ValidOptions(options) /\ FromOptions(report) /\ snapshot \in SnapshotType
        /\ snapshot.apiError = "" /\ snapshot.profileError = "" /\ ~snapshot.listed
        /\ hub.inventory \in Inventories
    BY DEF List, VerdictInv, RunInv, Observed, Reported, TypeOK
  <1>2. ValidOptions(options)' /\ FromOptions(report)'
    BY <1>1 DEF FromOptions
  <1>3. Reported'
    BY <1>1, <1>2 DEF Reported
  <1>4. CASE \E e \in {"other", "NotFound"} :
                snapshot' = [snapshot EXCEPT !.profileError = e]
    <2>1. ~snapshot'.listed /\ snapshot'.profileError # ""
      BY <1>1, <1>4 DEF SnapshotType
    <2>2. Observed'
      BY <1>1, <2>1 DEF Observed
    <2> QED
      BY <1>3, <2>2
  <1>5. CASE snapshot' = [snapshot EXCEPT !.listed = TRUE,
                             !.profiles = hub.inventory,
                             !.managed = Managed(hub.inventory)]
    <2>1. PICK inventory, managed : inventory = hub.inventory /\ managed = Managed(inventory)
      OBVIOUS
    <2>2. snapshot' = [snapshot EXCEPT !.listed = TRUE, !.profiles = inventory,
                                       !.managed = managed]
      BY <1>5, <2>1
    <2>3. /\ snapshot'.listed /\ snapshot'.profiles = inventory
          /\ snapshot'.managed = managed
          /\ snapshot'.apiError = "" /\ snapshot'.profileError = ""
      BY <1>1, <2>2 DEF SnapshotType
    <2>4. snapshot'.managed = Managed(snapshot.profiles)'
      BY <1>1, <2>1, <2>3 DEF Managed
    <2>5. Observed'
      BY <1>1, <2>1, <2>3, <2>4 DEF Observed
    <2> QED
      BY <1>3, <2>5
  <1> QED
    BY <1>4, <1>5 DEF List

\* The hub, the context and the goroutines touch nothing that Run returns.
LEMMA OthersReport ==
    ASSUME VerdictInv, UNCHANGED <<options, pc, snapshot, report>>
    PROVE  Observed' /\ Reported'
  <1>1. Observed'
    BY DEF VerdictInv, Observed, Managed
  <1>2. /\ FromOptions(report) => FromOptions(report)'
        /\ Summarised(report) => Summarised(report)'
        /\ Verified(report) => Verified(report)'
        /\ Aborted(report) => Aborted(report)'
        /\ Accepted(report) => Accepted(report)'
    BY DEF FromOptions, Summarised, Verified, Aborted, Accepted, Selected
  <1>3. Reported'
    BY <1>2 DEF VerdictInv, Reported
  <1> QED
    BY <1>1, <1>3

LEMMA VerdictStep == VerdictInv /\ [Next]_vars => VerdictInv'
  <1> SUFFICES ASSUME VerdictInv, [Next]_vars PROVE VerdictInv'
    OBVIOUS
  <1>1. RunInv'
    BY RunStep DEF VerdictInv
  <1>2. \/ Start \/ CheckContext \/ GetNamespace \/ List \/ Evaluate \/ Conclude
        \/ \E c \in Calls : StartCall(c) \/ RestAnswer(c) \/ Select(c)
        \/ UNCHANGED <<options, pc, snapshot, report>>
    BY DEF Next, Step, ChangeHub, EndContext, Observe, Send, vars
  <1>3. Observed' /\ Reported'
    BY <1>2, StartReports, PreflightReports, ListReports, EvaluateReports,
       ConcludeReports, CallReports, OthersReport
  <1> QED
    BY <1>1, <1>3 DEF VerdictInv

LEMMA VerdictAlways == Spec => []VerdictInv
  BY VerdictInit, VerdictStep, PTL DEF Spec

\* The tests of a returned report: an outcome for every check of the catalog.
LEMMA ReturnedTests ==
    ASSUME VerdictInv, pc = "returned"
    PROVE  /\ report.tests \in [Catalog -> Outcomes] /\ report.errors \in 0..1
           /\ report.profileResult \in Results
           /\ \A req \in Catalog : report.tests[req] = "not-supported" => Optional(req)
           /\ \A req \in Catalog : Gate(req, report.supported) =>
                 ResultRank[Verdict(report.tests[req])] <= ResultRank[report.profileResult]
           /\ ResultRank[report.profileResult] <= ResultRank[report.result]
           /\ report.result \in Results
           /\ report.errors = 1 => report.result \in {"unknown", "failure"}
           /\ report.result = "failure" => \E req \in Catalog :
                 Gate(req, report.supported) /\ Verdict(report.tests[req]) = "failure"
  <1>1. /\ snapshot \in SnapshotType /\ report \in ReportType
        /\ Summarised(report) /\ (Aborted(report) \/ Verified(report))
    BY DEF VerdictInv, RunInv, TypeOK, Reported
  <1>2. /\ report.tests \in [Catalog -> Outcomes]
        /\ \A req \in Catalog : report.tests[req] = "not-supported" => Optional(req)
    <2>1. CASE Aborted(report)
      BY <2>1 DEF Aborted, Outcomes
    <2>2. CASE Verified(report)
      <3>1. \A req \in Catalog : Check(req, snapshot) \in Outcomes
        BY <1>1, CheckType
      <3>2. \A req \in Catalog : Check(req, snapshot) = "not-supported" => Optional(req)
        BY <1>1, NotSupportedIsOptional
      <3>3. "skipped" \in Outcomes
        BY DEF Outcomes
      <3> QED
        BY <2>2, <3>1, <3>2, <3>3 DEF Verified
    <2> QED
      BY <1>1, <2>1, <2>2
  <1>3. report.errors \in 0..1
    BY <1>1 DEF ReportType
  <1>4. PICK tests, supported, errors :
           tests = report.tests /\ supported = report.supported /\ errors = report.errors
    OBVIOUS
  <1> DEFINE p == ProfileResult(tests, supported)
             R == Overall(p, errors)
  <1>5. /\ tests \in [Catalog -> Outcomes] /\ errors \in 0..1
        /\ p = report.profileResult /\ R = report.result
    BY <1>1, <1>2, <1>3, <1>4 DEF Summarised
  <1> HIDE DEF p, R
  <1>6. /\ p \in Results
        /\ \A req \in Catalog : Gate(req, supported) =>
              ResultRank[Verdict(tests[req])] <= ResultRank[p]
        /\ p = "failure" => \E req \in Catalog :
              Gate(req, supported) /\ Verdict(tests[req]) = "failure"
    BY <1>5, ProfileResultBounds DEF p
  <1>7. /\ R \in Results /\ ResultRank[p] <= ResultRank[R]
        /\ errors = 1 => R \in {"unknown", "failure"}
        /\ R = "failure" => p = "failure"
    BY <1>5, <1>6, OverallBounds DEF R
  <1> QED
    BY <1>2, <1>3, <1>4, <1>5, <1>6, <1>7

\* The checks that count towards a result other than failure, or than success.
LEMMA VerdictRanks ==
    \A o \in Outcomes :
        /\ Verdict(o) \in Results
        /\ Verdict(o) = "failure" => o \in {"failed", "not-supported"}
        /\ ResultRank[Verdict(o)] <= 0 => o = "passed"
        /\ o \in {"failed", "unknown"} => ResultRank[Verdict(o)] >= 2
  BY Ranks DEF Verdict, Outcomes, Results

\* Run returns no error only for an inventory that it listed, whose API is
\* served and namespaced, which meets every requirement and every claim.
THEOREM SuccessesAreSound == Spec => []SuccessIsSound
  <1>1. VerdictInv => SuccessIsSound
    <2> SUFFICES ASSUME VerdictInv, pc = "returned", err = "nil"
                 PROVE  SuccessIsSound
      BY DEF SuccessIsSound
    <2>1. /\ report.result = "success" /\ snapshot \in SnapshotType
          /\ options \in OptionSets /\ report.supported = options.supported
          /\ Aborted(report) \/ Verified(report)
      BY DEF VerdictInv, RunInv, TypeOK, Agreement, ExitMatchesResult, Reported, FromOptions
    <2>2. /\ ResultRank[report.profileResult] \in 0..3
          /\ ResultRank[report.profileResult] <= 0
          /\ report.errors # 1
      BY <2>1, ReturnedTests, Ranks, RankType
    <2>3. ASSUME NEW req \in Catalog, Gate(req, report.supported)
          PROVE  report.tests[req] = "passed"
      <3>1. report.tests[req] \in Outcomes
        BY ReturnedTests
      <3>2. ResultRank[Verdict(report.tests[req])] \in 0..3
        BY <3>1, VerdictRanks, RankType
      <3>3. ResultRank[Verdict(report.tests[req])] <= ResultRank[report.profileResult]
        BY <2>3, ReturnedTests
      <3>4. ResultRank[Verdict(report.tests[req])] <= 0
        BY <2>2, <3>2, <3>3
      <3> QED
        BY <3>1, <3>4, VerdictRanks
    <2>4. Verified(report)
      BY <2>1, <2>2 DEF Aborted
    <2>5. \A req \in Catalog : Gate(req, report.supported) => Check(req, snapshot) = "passed"
      BY <2>3, <2>4 DEF Verified
    <2>6. \A req \in Catalog : ~Optional(req) => Check(req, snapshot) = "passed"
      BY <2>5 DEF Gate
    <2>7. /\ snapshot.apiError = "" /\ snapshot.profileError = ""
          /\ snapshot.resources = "namespaced"
      BY <2>1, <2>6, PassedAPI
    <2>8. RequirementsHold
      BY <2>1, <2>6, <2>7, PassedRequirements
    <2>9. snapshot.listed /\ NamesAreUnique(snapshot.profiles)
      <3>1. snapshot.listed
        BY <2>4, <2>7 DEF Verified
      <3> QED
        BY <3>1, RunAssumption DEF VerdictInv, Observed, NamesAreUnique
    <2>10. ASSUME NEW f \in Features, Claims(f)
           PROVE  /\ ClaimHolds(f)
                  /\ f = "InventoryMemberUniqueness" =>
                        \A p \in snapshot.profiles : p.memberID \notin {Absent, ""}
      <3>1. PICK req \in Catalog : Optional(req) /\ req.feature = f
        BY CatalogEntries
      <3>2. Check(req, snapshot) = "passed"
        BY <2>1, <2>5, <2>10, <3>1 DEF Claims, Gate
      <3> QED
        BY <2>7, <2>9, <3>1, <3>2, PassedClaim
    <2>11. "InventoryMemberUniqueness" \in Features
      <3>1. \A x : Req("MemberUniqueness", "SHOULD", x, "inventory").feature = x
        BY DEF Req
      <3>2. Req("MemberUniqueness", "SHOULD", "InventoryMemberUniqueness", "inventory")
              \in Catalog
        BY Zenon DEF Catalog
      <3> QED
        BY <3>1, <3>2 DEF Features, Optional
    <2> QED
      BY <2>7, <2>8, <2>9, <2>10, <2>11 DEF SuccessIsSound
  <1> QED
    BY VerdictAlways, <1>1, PTL

\* "failure" blames the implementation: Run reports it only when it saw a
\* violation, never for an error on the way to the hub.
THEOREM FailuresAreObserved == Spec => []FailureIsObserved
  <1>1. VerdictInv => FailureIsObserved
    <2> SUFFICES ASSUME VerdictInv, pc = "returned", report.result = "failure"
                 PROVE  FailureIsObserved
      BY DEF FailureIsObserved
    <2>1. /\ snapshot \in SnapshotType /\ report.supported = options.supported
          /\ Aborted(report) \/ Verified(report)
      BY DEF VerdictInv, RunInv, TypeOK, Reported, FromOptions
    <2>2. PICK req \in Catalog :
             /\ Gate(req, report.supported)
             /\ report.tests[req] \in {"failed", "not-supported"}
      BY ReturnedTests, VerdictRanks
    <2>3. Verified(report)
      BY <2>1, <2>2 DEF Aborted
    <2>4. Check(req, snapshot) \in {"failed", "not-supported"}
      BY <2>2, <2>3 DEF Verified
    <2>5. snapshot.profileError = "" => snapshot.listed
      BY <2>3 DEF Verified
    <2>6. Optional(req) => req.feature \in Features /\ Claims(req.feature)
      BY <2>1, <2>2, CatalogEntries DEF Gate, Claims
    <2> QED
      BY <2>1, <2>4, <2>5, <2>6, FailedCheck DEF FailureIsObserved
  <1> QED
    BY VerdictAlways, <1>1, PTL

\* A complete run that never saw the inventory is not even partly
\* conformant, whatever the context and the hub did.
THEOREM UnobservedRunsAreNotAccepted == Spec => []UnobservedIsNeverAccepted
  <1>1. VerdictInv => UnobservedIsNeverAccepted
    <2> SUFFICES ASSUME VerdictInv, pc = "returned", ~snapshot.listed, ~options.filtered
                 PROVE  report.result \in {"unknown", "failure"}
      BY DEF UnobservedIsNeverAccepted
    <2>1. /\ snapshot \in SnapshotType /\ options \in OptionSets
          /\ Aborted(report) \/ Verified(report)
      BY DEF VerdictInv, RunInv, TypeOK, Reported
    <2>2. CASE Aborted(report)
      BY <2>2, ReturnedTests DEF Aborted
    <2>3. CASE Verified(report)
      <3>1. snapshot.profileError # ""
        BY <2>3 DEF Verified
      <3>2. options.selected = {req.id : req \in Catalog}
        BY <2>1, RunAssumption
      <3>3. PICK req \in Catalog : req.id = "APIAvailability" /\ ~Optional(req)
        BY CatalogEntries
      <3>4. CheckAPI(req, snapshot) \in {"failed", "unknown"}
        BY <2>1, <3>1, <3>3 DEF CheckAPI, SnapshotType
      <3>5. Check(req, snapshot) \in {"failed", "unknown"}
        BY <3>3, <3>4, CatalogEntries DEF Check
      <3>6. report.tests[req] \in {"failed", "unknown"}
        <4>1. Selected(req)
          BY <3>2 DEF Selected
        <4> QED
          BY <2>3, <3>5, <4>1 DEF Verified
      <3>7. /\ ResultRank[Verdict(report.tests[req])] >= 2
            /\ ResultRank[Verdict(report.tests[req])] \in 0..3
        BY <3>6, VerdictRanks, RankType DEF Outcomes
      <3>8. /\ ResultRank[Verdict(report.tests[req])] <= ResultRank[report.profileResult]
            /\ ResultRank[report.profileResult] <= ResultRank[report.result]
            /\ ResultRank[report.profileResult] \in 0..3
            /\ ResultRank[report.result] \in 0..3
        BY <3>3, ReturnedTests, RankType DEF Gate
      <3>9. ResultRank[report.result] >= 2
        BY <3>7, <3>8
      <3> QED
        BY <3>9, ReturnedTests, RankType
    <2> QED
      BY <2>1, <2>2, <2>3
  <1> QED
    BY VerdictAlways, <1>1, PTL

\* A submission that a reviewer may accept names its Kubernetes version and
\* the profiles it observed, ran every check and met no error.
THEOREM AcceptedSubmissionsAreComplete == Spec => []AcceptedSubmission
  <1>1. VerdictInv => AcceptedSubmission
    <2> SUFFICES ASSUME VerdictInv, pc = "returned", report.runMode = "submission",
                        report.result \in {"success", "partial"}
                 PROVE  AcceptedSubmission
      BY DEF AcceptedSubmission
    <2>1. /\ report.errors \in 0..1 /\ report.errors # 1
      BY ReturnedTests
    <2>2. report.errors = 0
      BY <2>1
    <2>3. ~Aborted(report)
      BY <2>1 DEF Aborted
    <2>4. ValidOptions(options) /\ Accepted(report)
      BY <2>3 DEF VerdictInv, Reported
    <2>5. ValidReport(report, TRUE)
      BY <2>2, <2>4 DEF Accepted
    <2>6. options.runMode = "submission" /\ options.metadata = report.metadata
      BY DEF VerdictInv, Reported, FromOptions
    <2> QED
      BY <2>2, <2>4, <2>5, <2>6
      DEF AcceptedSubmission, ValidOptions, ValidReport, ValidSubmission
  <1> QED
    BY VerdictAlways, <1>1, PTL

\* Every report that Run returns for acceptable arguments, on whichever path,
\* passes the validation that tools apply to a stored report.
THEOREM EveryReportIsValid == Spec => []ReportsAreValid
  <1>1. VerdictInv => ReportsAreValid
    <2> SUFFICES ASSUME VerdictInv, pc = "returned", options.named,
                        ValidFeatures(options.supported)
                 PROVE  ValidReport(report, FALSE)
      BY DEF ReportsAreValid
    <2>1. Summarised(report) /\ FromOptions(report)
      BY DEF VerdictInv, Reported
    <2>2. /\ report.tests \in [Catalog -> Outcomes]
          /\ \A req \in Catalog : report.tests[req] = "not-supported" => Optional(req)
      BY ReturnedTests
    <2> QED
      BY <2>1, <2>2 DEF Summarised, FromOptions, ValidReport, ValidProfile
  <1> QED
    BY VerdictAlways, <1>1, PTL
=============================================================================
