--------------------------- MODULE ConformanceRun ---------------------------
(***************************************************************************)
(* One call of conformance.Run (conformance/suite.go): it observes an      *)
(* inventory hub that others keep changing, under a context that may end   *)
(* at any moment, and returns a report and an error.                       *)
(*                                                                         *)
(* A custom discovery client takes no context, so awaitDiscovery runs it   *)
(* in a goroutine and stops waiting when the context ends; the goroutine   *)
(* lives on and sends its answer into a channel nobody reads any more.     *)
(***************************************************************************)
EXTENDS ConformanceChecks

CONSTANTS
    OptionSets,   \* the options a caller may pass
    Inventories,  \* contents of the namespace: sets of profiles
    Served,       \* ways the hub serves the API, out of ServedKinds
    MaxChanges    \* bound on the changes made to the hub during the run

ServedKinds == {"none", "absent", "namespaced", "cluster"}

\* Optional features and checks are identified by their catalog names.  client
\* is the discovery client of Options.Kubernetes: "rest" is
\* *discovery.DiscoveryClient, "custom" any other implementation.
OptionType ==
    [client : {"rest", "custom"}, named : BOOLEAN, metadata : BOOLEAN, runMode : {"development", "submission"},
     filtered : BOOLEAN, filterParses : BOOLEAN,
     selected : SUBSET {req.id : req \in Catalog},
     supported : SUBSET (Features \cup {"unknown"}),
     manager : STRING, expected : Nat]

ProfileType ==
    [name : STRING, manager : STRING, managerLabel : STRING \cup {Absent},
     memberID : STRING \cup {Absent}, healthy : BOOLEAN, joined : BOOLEAN,
     version : BOOLEAN]

ASSUME RunAssumption ==
    /\ OptionSets \subseteq OptionType
    /\ \A o \in OptionSets :
          ~o.filtered => o.selected = {req.id : req \in Catalog} /\ o.filterParses
    /\ \A i \in Inventories :
          i \subseteq ProfileType /\ \A p, q \in i : p.name = q.name => p = q
    /\ Served \subseteq ServedKinds
    /\ MaxChanges \in Nat

VARIABLES
    options,   \* the caller's options
    hub,       \* [served, namespace, inventory]: the hub as it is now
    changes,   \* number of changes made to the hub so far
    ctx,       \* "live" until the deadline passes or the caller cancels
    pc,        \* where Run is
    goroutine, \* goroutine[c]: the goroutine awaitDiscovery started for call c
    answer,    \* answer[c]: what the goroutine got from observe(), or Absent
    chan,      \* chan[c]: the answer in the channel of call c, or Absent
    snapshot,  \* what the run observed
    report,    \* the report under construction
    err        \* the error returned: "nil", or "error"

async == <<goroutine, answer, chan>>

vars == <<options, hub, changes, ctx, pc, async, snapshot, report, err>>

Calls == {"version", "resources"}

Awaiting(c) == IF c = "version" THEN "awaitVersion" ELSE "awaitResources"

NewReport(o) ==
    [named |-> o.named, metadata |-> o.metadata, runMode |-> o.runMode,
     supported |-> o.supported, kubernetesVersion |-> "", observed |-> {},
     tests |-> << >>, statistics |-> Statistics(<< >>), profileResult |-> "",
     result |-> "unknown", errors |-> 0]

NoSnapshot ==
    [resources |-> "nil", apiError |-> "", profileError |-> "", listed |-> FALSE,
     profiles |-> {}, managed |-> {}, expected |-> 0]

Init ==
    /\ options \in OptionSets
    /\ hub \in [served : Served, namespace : {"found", "missing", "forbidden"},
                inventory : Inventories]
    /\ changes = 0
    /\ ctx \in {"live", "done"}
    /\ pc = "start"
    /\ goroutine = [c \in Calls |-> "none"]
    /\ answer = [c \in Calls |-> Absent]
    /\ chan = [c \in Calls |-> Absent]
    /\ snapshot = [NoSnapshot EXCEPT !.expected = options.expected]
    /\ report = NewReport(options)
    /\ err = "nil"

-----------------------------------------------------------------------------
(* The environment: cluster managers change the hub, the context ends.     *)

ChangeHub ==
    /\ pc # "returned" /\ changes < MaxChanges
    /\ changes' = changes + 1
    /\ \/ \E i \in Inventories \ {hub.inventory} : hub' = [hub EXCEPT !.inventory = i]
       \/ \E v \in Served \ {hub.served} : hub' = [hub EXCEPT !.served = v]
    /\ UNCHANGED <<options, ctx, pc, async, snapshot, report, err>>

EndContext ==
    /\ ctx = "live" /\ pc \notin {"start", "returned"}
    /\ ctx' = "done"
    /\ UNCHANGED <<options, hub, changes, pc, async, snapshot, report, err>>

-----------------------------------------------------------------------------
(* Ways to return.                                                         *)

Finish(r) ==
    LET profileResult == ProfileResult(r.tests, r.supported)
    IN  [r EXCEPT !.statistics = Statistics(r.tests),
                  !.profileResult = profileResult,
                  !.result = Overall(profileResult, r.errors)]

\* Mutant: the error is recorded, the result is not computed again.
MutAbortStale(r) == [r EXCEPT !.errors = @ + 1]

Abort(r) == Finish([r EXCEPT !.errors = @ + 1])

\* Mutant: only the required checks are listed.
MutFillRequired(r, o) ==
    [r EXCEPT !.tests = [req \in {q \in Catalog : ~Optional(q)} |-> o]]

FillAll(r, o) == [r EXCEPT !.tests = [req \in Catalog |-> o]]

Return(r, e) ==
    /\ report' = r
    /\ err' = e
    /\ pc' = "returned"

\* Mutant: the error is recorded by failSetup and by abort.
MutFailSetupTwice(r) ==
    Return(Abort([FillAll(r, "unknown") EXCEPT !.errors = 1]), "error")

FailSetup(r) == Return(Abort(FillAll(r, "unknown")), "error")

-----------------------------------------------------------------------------
(* The run.                                                                *)

Selected(req) == req.id \in options.selected

\* Everything before the first request; connect may fail on the kubeconfig.
\* Returning runs the deferred cancel only after WithTimeout.
Start ==
    /\ pc = "start"
    /\ \/ ~ValidOptions(options) /\ FailSetup(report)
       \/ ValidOptions(options) /\ ~options.filterParses /\ FailSetup(report)
       \/ /\ ValidOptions(options) /\ options.filterParses
          /\ ~\E req \in Catalog : Selected(req)
          /\ Return(Abort(FillAll(report, "skipped")), "error")
       \/ /\ ValidOptions(options) /\ options.filterParses
          /\ \E req \in Catalog : Selected(req)
          /\ \/ options.runMode = "submission" /\ ~options.metadata /\ FailSetup(report)
             \/ /\ options.runMode = "submission" => options.metadata
                /\ \/ FailSetup(report)
                   \/ pc' = "version" /\ UNCHANGED <<report, err>>
    /\ UNCHANGED <<options, hub, changes, ctx, async, snapshot>>

\* What the hub, or the way to it, may answer: for the version a version or
\* nothing, for the resources of the group version a list or an error.
Answers(c) ==
    IF c = "version" THEN {"v1", ""}
    ELSE { [resources |-> "nil", apiError |-> "other"],
           IF hub.served = "none" THEN [resources |-> "nil", apiError |-> "NotFound"]
           ELSE [resources |-> hub.served, apiError |-> ""] }
         \cup (IF options.client = "custom" THEN {[resources |-> "nil", apiError |-> ""]}
               ELSE {})

ContextError(c) ==
    IF c = "version" THEN "" ELSE [resources |-> "nil", apiError |-> "other"]

\* Run goes on with the answer a.
Deliver(c, a) ==
    \/ /\ c = "version"
       /\ report' = [report EXCEPT !.kubernetesVersion = a]
       /\ pc' = "context"
       /\ UNCHANGED snapshot
    \/ /\ c = "resources"
       /\ snapshot' = [snapshot EXCEPT !.resources = a.resources,
                                       !.apiError = a.apiError,
                                       !.profileError = a.apiError]
       /\ pc' = IF a.apiError = "" THEN "list" ELSE "evaluate"
       /\ UNCHANGED report

\* serverVersion and serverResources: a REST client sends the request, any
\* other client is called in a goroutine unless the context has ended.
StartCall(c) ==
    /\ pc = c
    /\ \/ /\ options.client = "rest"
          /\ pc' = Awaiting(c)
          /\ UNCHANGED <<goroutine, snapshot, report>>
       \/ /\ options.client = "custom" /\ ctx = "done"
          /\ Deliver(c, ContextError(c))
          /\ UNCHANGED goroutine
       \/ /\ options.client = "custom" /\ ctx = "live"
          /\ goroutine' = [goroutine EXCEPT ![c] = "observing"]
          /\ pc' = Awaiting(c)
          /\ UNCHANGED <<snapshot, report>>
    /\ UNCHANGED <<options, hub, changes, ctx, answer, chan, err>>

\* The REST request ends with an answer or an error.
RestAnswer(c) ==
    /\ options.client = "rest" /\ pc = Awaiting(c)
    /\ \E a \in Answers(c) : Deliver(c, a)
    /\ UNCHANGED <<options, hub, changes, ctx, async, err>>

\* Mutant: awaitDiscovery only waits for the channel.
MutIgnoreContext(c) == FALSE

StopWaiting(c) == ctx = "done"

\* The select of awaitDiscovery; when both cases are ready either may be taken.
Select(c) ==
    /\ options.client = "custom" /\ pc = Awaiting(c)
    /\ \/ StopWaiting(c) /\ Deliver(c, ContextError(c)) /\ UNCHANGED chan
       \/ /\ chan[c] # Absent
          /\ Deliver(c, chan[c])
          /\ chan' = [chan EXCEPT ![c] = Absent]
    /\ UNCHANGED <<options, hub, changes, ctx, goroutine, answer, err>>

CheckContext ==
    /\ pc = "context"
    /\ \/ ctx = "done" /\ FailSetup(report)
       \/ ctx = "live" /\ pc' = "namespace" /\ UNCHANGED <<report, err>>
    /\ UNCHANGED <<options, hub, changes, ctx, async, snapshot>>

\* A forbidden read of the namespace is tolerated.
GetNamespace ==
    /\ pc = "namespace"
    /\ \/ FailSetup(report)
       \/ /\ hub.namespace \in {"found", "forbidden"}
          /\ pc' = "resources"
          /\ UNCHANGED <<report, err>>
    /\ UNCHANGED <<options, hub, changes, ctx, async, snapshot>>

Managed(profiles) ==
    {p \in profiles : options.manager = "" \/ p.manager = options.manager}

List ==
    /\ pc = "list"
    /\ pc' = "evaluate"
    /\ \/ \E e \in {"other"} \cup (IF hub.served = "none" THEN {"NotFound"} ELSE {}) :
             snapshot' = [snapshot EXCEPT !.profileError = e]
       \/ /\ hub.served # "none"
          /\ snapshot' = [snapshot EXCEPT !.listed = TRUE,
                             !.profiles = hub.inventory,
                             !.managed = Managed(hub.inventory)]
    /\ UNCHANGED <<options, hub, changes, ctx, async, report, err>>

Checked(r) ==
    [r EXCEPT
        !.observed = {p.name : p \in snapshot.profiles},
        !.tests = [req \in Catalog |->
                     IF Selected(req) THEN Check(req, snapshot) ELSE "skipped"]]

\* The checks and their summary.
Evaluate ==
    /\ pc = "evaluate"
    /\ \E r \in {Checked(report)} : report' = Finish(r)
    /\ pc' = "conclude"
    /\ UNCHANGED <<options, hub, changes, ctx, async, snapshot, err>>

\* A submission validates its own report first.
Conclude ==
    /\ pc = "conclude"
    /\ \/ /\ report.runMode = "submission" /\ ~ValidReport(report, TRUE)
          /\ Return(Abort(report), "error")
       \/ /\ report.runMode = "submission" => ValidReport(report, TRUE)
          /\ Return(report, IF report.result = "success" THEN "nil" ELSE "error")
    /\ UNCHANGED <<options, hub, changes, ctx, async, snapshot>>

-----------------------------------------------------------------------------
(* The goroutine of awaitDiscovery.                                        *)

\* Mutant: an unbuffered channel, which takes a value only from a sender
\* whose receiver is waiting.
MutUnbuffered(c) == pc = Awaiting(c)

\* The channel buffers one answer.
CanSend(c) == chan[c] = Absent

\* observe() returns.
Observe(c) ==
    /\ goroutine[c] = "observing"
    /\ \E a \in Answers(c) : answer' = [answer EXCEPT ![c] = a]
    /\ goroutine' = [goroutine EXCEPT ![c] = "sending"]
    /\ UNCHANGED <<options, hub, changes, ctx, pc, chan, snapshot, report, err>>

Send(c) ==
    /\ goroutine[c] = "sending"
    /\ CanSend(c)
    /\ chan' = [chan EXCEPT ![c] = answer[c]]
    /\ goroutine' = [goroutine EXCEPT ![c] = "done"]
    /\ UNCHANGED <<options, hub, changes, ctx, pc, answer, snapshot, report, err>>

-----------------------------------------------------------------------------
Step ==
    \/ Start \/ CheckContext \/ GetNamespace \/ List \/ Evaluate \/ Conclude
    \/ \E c \in Calls : StartCall(c) \/ RestAnswer(c) \/ Select(c)

Next ==
    \/ Step \/ ChangeHub \/ EndContext
    \/ \E c \in Calls : Observe(c) \/ Send(c)

\* Every request that takes the context ends at its deadline, which passes;
\* a custom discovery client may never return, so Observe is not fair.  Each
\* subscript is a variable that the action always changes.
Fairness ==
    /\ WF_pc(Step) /\ WF_ctx(EndContext)
    /\ \A c \in Calls : WF_goroutine(Send(c))

Spec == Init /\ [][Next]_vars /\ Fairness

-----------------------------------------------------------------------------
ReportType ==
    [named : BOOLEAN, metadata : BOOLEAN, runMode : {"development", "submission"},
     supported : SUBSET (Features \cup {"unknown"}),
     kubernetesVersion : {"", "v1"}, observed : SUBSET STRING,
     tests : [Catalog -> Outcomes] \cup {<< >>}, statistics : [Outcomes -> Nat],
     profileResult : Results \cup {""}, result : Results, errors : 0 .. 1]

ListAnswers ==
    [resources : {"nil", "absent", "namespaced", "cluster"},
     apiError : {"", "NotFound", "other"}]

AnswerType(c) == IF c = "version" THEN {"", "v1"} ELSE ListAnswers

SnapshotType ==
    [resources : {"nil", "absent", "namespaced", "cluster"},
     apiError : {"", "NotFound", "other"}, profileError : {"", "NotFound", "other"},
     listed : BOOLEAN, profiles : SUBSET ProfileType, managed : SUBSET ProfileType,
     expected : Nat]

Steps == {"start", "context", "namespace", "list", "evaluate", "conclude", "returned"}
         \cup Calls \cup {Awaiting(c) : c \in Calls}

TypeOK ==
    /\ options \in OptionSets
    /\ hub \in [served : Served, namespace : {"found", "missing", "forbidden"},
                inventory : Inventories]
    /\ changes \in 0 .. MaxChanges
    /\ ctx \in {"live", "done"}
    /\ pc \in Steps
    /\ goroutine \in [Calls -> {"none", "observing", "sending", "done"}]
    /\ DOMAIN answer = Calls /\ DOMAIN chan = Calls
    /\ \A c \in Calls : /\ answer[c] \in AnswerType(c) \cup {Absent}
                        /\ chan[c] \in AnswerType(c) \cup {Absent}
    /\ snapshot \in SnapshotType
    /\ report \in ReportType
    /\ err \in {"nil", "error"}

(* Properties of what Run returns, stated with the observed hub and the    *)
(* claims, not with the checks.                                            *)

Claims(feature) == feature \in options.supported

\* The claimed capability is there for every managed profile; identifiers
\* are unique among all profiles of the inventory.
ClaimHolds(feature) ==
    CASE feature = "ClusterManagerLabel" ->
            \A p \in snapshot.managed : p.managerLabel # Absent
      [] feature = "InventoryMemberID" ->
            \A p \in snapshot.managed : p.memberID \notin {Absent, ""}
      [] feature = "InventoryMemberUniqueness" ->
            \A p, q \in snapshot.profiles :
                p.memberID = q.memberID /\ p.memberID \notin {Absent, ""} => p = q
      [] feature = "ControlPlaneHealthy" -> \A p \in snapshot.managed : p.healthy
      [] feature = "Joined" -> \A p \in snapshot.managed : p.joined
      [] feature = "KubernetesVersion" -> \A p \in snapshot.managed : p.version

RequirementsHold ==
    /\ snapshot.managed # {}
    /\ snapshot.expected \in {0, Cardinality(snapshot.managed)}
    /\ \A p \in snapshot.managed :
          /\ p.managerLabel \in {Absent, p.manager}
          /\ p.memberID # ""

\* Run returns no error only for an inventory that it listed, whose API is
\* served and namespaced, which meets every requirement and every claim.
SuccessIsSound ==
    pc = "returned" /\ err = "nil" =>
        /\ snapshot.listed
        /\ snapshot.apiError = "" /\ snapshot.resources = "namespaced"
        /\ RequirementsHold
        /\ \A f \in Features : Claims(f) => ClaimHolds(f)
        /\ Claims("InventoryMemberUniqueness") =>
              \A p \in snapshot.profiles : p.memberID \notin {Absent, ""}

\* "failure" blames the implementation: Run reports it only when it saw a
\* violation, never for an error on the way to the hub.
FailureIsObserved ==
    pc = "returned" /\ report.result = "failure" =>
        \/ snapshot.apiError = "NotFound"
        \/ snapshot.apiError = "" /\ snapshot.resources \in {"absent", "cluster"}
        \/ /\ snapshot.listed
           /\ ~RequirementsHold \/ \E f \in Features : Claims(f) /\ ~ClaimHolds(f)

\* A complete run that never saw the inventory is not even partly
\* conformant, whatever the context and the hub did.
UnobservedIsNeverAccepted ==
    pc = "returned" /\ ~snapshot.listed /\ ~options.filtered =>
        report.result \in {"unknown", "failure"}

\* A submission that a reviewer may accept names its Kubernetes version and
\* the profiles it observed, ran every check and met no error.
AcceptedSubmission ==
    pc = "returned" /\ report.runMode = "submission"
      /\ report.result \in {"success", "partial"} =>
        /\ report.kubernetesVersion # "" /\ report.observed # {}
        /\ report.errors = 0
        /\ options.metadata /\ ~options.filtered

\* Run "exits unsuccessfully for any result other than success", and the
\* report it returns with an error never claims success.
ExitMatchesResult == pc = "returned" => (err = "nil" <=> report.result = "success")

\* Every report that Run returns for acceptable arguments, on whichever path,
\* passes the validation that tools apply to a stored report.
ReportsAreValid ==
    pc = "returned" /\ options.named /\ ValidFeatures(options.supported) =>
        ValidReport(report, FALSE)

\* An outcome "unknown" means that an environment or access error prevented
\* verification.
UnknownMeansAccessError ==
    pc = "returned" =>
        \A req \in DOMAIN report.tests :
            report.tests[req] = "unknown" =>
                \/ report.errors > 0
                \/ snapshot.profileError # "" \/ snapshot.resources = "nil"

\* Run returns, even when a custom discovery client never does.
RunReturns == <>(pc = "returned")

\* The goroutine of an abandoned call ends once its observation has returned.
GoroutineEnds ==
    \A c \in Calls : goroutine[c] = "sending" ~> goroutine[c] = "done"
=============================================================================
