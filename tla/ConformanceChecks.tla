------------------------- MODULE ConformanceChecks -------------------------
(***************************************************************************)
(* The acceptance criteria of the conformance suite: the check catalog and *)
(* its summary (conformance/catalog.go), the checks of one snapshot        *)
(* (conformance/checks.go) and the validation of a report                  *)
(* (conformance/report.go).                                                *)
(*                                                                         *)
(* A check is named after its Go constant; the listed profiles are a set,  *)
(* because their order only shows in messages; a label that is not there   *)
(* is Absent, which the code distinguishes from an empty label.            *)
(***************************************************************************)
EXTENDS Integers, FiniteSets

CONSTANT Absent

(* The catalog.                                                            *)

Req(id, level, feature, scope) ==
    [id |-> id, level |-> level, feature |-> feature, scope |-> scope]

Catalog ==
    { Req("APIAvailability", "MUST", "", "api"),
      Req("Namespaced", "MUST", "", "api"),
      Req("Representation", "MUST", "", "manager"),
      Req("ManagerValue", "MUST", "", "manager"),
      Req("MemberIDValue", "MUST", "", "manager"),
      Req("ManagerPresence", "MAY", "ClusterManagerLabel", "manager"),
      Req("MemberIDPresence", "SHOULD", "InventoryMemberID", "manager"),
      Req("MemberUniqueness", "SHOULD", "InventoryMemberUniqueness", "inventory"),
      Req("HealthyPresence", "Informative", "ControlPlaneHealthy", "manager"),
      Req("JoinedPresence", "SHOULD", "Joined", "manager"),
      Req("VersionPresence", "Informative", "KubernetesVersion", "manager") }

Optional(req) == req.feature # ""

Features == {req.feature : req \in {r \in Catalog : Optional(r)}}

Outcomes == {"passed", "failed", "skipped", "unknown", "not-supported"}

Results == {"success", "partial", "unknown", "failure"}

(* Summary of the outcomes.                                                *)

ResultRank ==
    [r \in Results |-> CASE r = "success" -> 0 [] r = "partial" -> 1
                         [] r = "unknown" -> 2 [] r = "failure" -> 3]

\* Folding combine over a non-empty set of results keeps the highest rank.
Combine(results) ==
    CHOOSE r \in results : \A q \in results : ResultRank[q] <= ResultRank[r]

Gate(req, supported) == ~Optional(req) \/ req.feature \in supported

\* Mutant: an outcome nobody could determine counts as a skipped one.
MutVerdictUnknownSkipped(o) ==
    CASE o \in {"failed", "not-supported"} -> "failure"
      [] o \in {"unknown", "skipped"} -> "partial"
      [] o = "passed" -> "success"

\* What one gated outcome makes of the result.
Verdict(o) ==
    CASE o \in {"failed", "not-supported"} -> "failure"
      [] o = "unknown" -> "unknown"
      [] o = "skipped" -> "partial"
      [] o = "passed" -> "success"

Statistics(tests) ==
    [o \in Outcomes |-> Cardinality({req \in DOMAIN tests : tests[req] = o})]

ProfileResult(tests, supported) ==
    LET gated == {req \in DOMAIN tests : Gate(req, supported)}
    IN  Combine({"success"} \cup {Verdict(tests[req]) : req \in gated}
                \cup (IF gated = {} THEN {"unknown"} ELSE {}))

Overall(profileResult, errors) ==
    Combine({profileResult} \cup (IF errors > 0 THEN {"unknown"} ELSE {}))

-----------------------------------------------------------------------------
(* The checks.  A snapshot is                                              *)
(*   [resources    |-> "absent" | "namespaced" | "cluster" | "nil",        *)
(*    apiError     |-> "" | "NotFound" | "other",                          *)
(*    profileError |-> "" | "NotFound" | "other",                          *)
(*    profiles, managed |-> sets of profiles, expected |-> a number]       *)

\* Mutant: every discovery error counts as an API that is not served.
MutCheckAPIErrorFails(req, s) ==
    CASE s.apiError # "" -> "failed"
      [] s.apiError = "" /\ s.resources = "nil" -> "unknown"
      [] s.apiError = "" /\ s.resources = "absent" -> "failed"
      [] OTHER -> "passed"

CheckAPI(req, s) ==
    CASE s.apiError = "NotFound" -> "failed"
      [] s.apiError = "other" -> "unknown"
      [] s.apiError = "" /\ s.resources = "nil" -> "unknown"
      [] s.apiError = "" /\ s.resources = "absent" -> "failed"
      [] s.apiError = "" /\ s.resources \in {"namespaced", "cluster"} ->
           IF req.id = "Namespaced" /\ s.resources = "cluster" THEN "failed"
           ELSE IF req.id = "APIAvailability" /\ s.profileError # "" THEN "unknown"
           ELSE "passed"

\* A label that is not there reads as the empty string in a Go map.
Label(value) == IF value = Absent THEN "" ELSE value

CheckRepresentation(s, profiles) ==
    IF profiles = {} \/ (s.expected > 0 /\ Cardinality(profiles) # s.expected)
    THEN "failed" ELSE "passed"

CheckUniqueness(profiles) ==
    LET withID == {p \in profiles : Label(p.memberID) # ""}
    IN  IF \E p, q \in withID : p.name # q.name /\ p.memberID = q.memberID
        THEN "failed"
        ELSE IF withID # profiles THEN "skipped" ELSE "passed"

\* The profiles that a presence check lists as missing.
Missing(req, profiles) ==
    {p \in profiles :
        \/ req.id = "ManagerPresence" /\ p.managerLabel = Absent
        \/ req.id = "MemberIDPresence" /\ Label(p.memberID) = ""
        \/ req.id = "HealthyPresence" /\ ~p.healthy
        \/ req.id = "JoinedPresence" /\ ~p.joined
        \/ req.id = "VersionPresence" /\ ~p.version}

CheckFields(req, profiles) ==
    IF \/ /\ req.id = "ManagerValue"
          /\ \E p \in profiles : p.managerLabel \notin {Absent, p.manager}
       \/ /\ req.id = "MemberIDValue"
          /\ \E p \in profiles : p.memberID = ""
    THEN "failed"
    ELSE IF Missing(req, profiles) = {} THEN "passed"
    ELSE IF req.level = "SHOULD" THEN "failed" ELSE "not-supported"

\* Mutant: uniqueness looks at the profiles of one manager only.
MutScopeManaged(req, s) == s.managed

Scoped(req, s) == IF req.scope = "inventory" THEN s.profiles ELSE s.managed

Check(req, s) ==
    LET profiles == Scoped(req, s)
    IN  IF req.scope = "api" THEN CheckAPI(req, s)
        ELSE IF s.profileError # "" THEN "unknown"
        ELSE IF req.id = "Representation" THEN CheckRepresentation(s, profiles)
        ELSE IF profiles = {} THEN "unknown"
        ELSE IF req.id = "MemberUniqueness" THEN CheckUniqueness(profiles)
        ELSE CheckFields(req, profiles)

-----------------------------------------------------------------------------
(* Validation.  Options and reports carry only what a check looks at:      *)
(* "named" stands for the namespace, number, timeout, mode, API, profile   *)
(* and format arguments being acceptable ones, "metadata" for complete     *)
(* implementation and suite metadata.                                      *)

ValidFeatures(supported) ==
    /\ supported \subseteq Features
    /\ "InventoryMemberUniqueness" \in supported => "InventoryMemberID" \in supported

ValidOptions(o) ==
    /\ o.named
    /\ ValidFeatures(o.supported)
    /\ ~(o.runMode = "submission" /\ o.filtered)

ValidProfile(r) ==
    /\ ValidFeatures(r.supported)
    /\ DOMAIN r.tests = Catalog
    /\ \A req \in Catalog :
          /\ r.tests[req] \in Outcomes
          /\ r.tests[req] = "not-supported" => Optional(req)
    /\ r.statistics = Statistics(r.tests)
    /\ r.profileResult = ProfileResult(r.tests, r.supported)

\* Mutant: the Kubernetes version may be missing.
MutSubmissionAnyVersion(r) ==
    /\ r.runMode = "submission" /\ r.metadata
    /\ r.result \in {"success", "partial"}
    /\ r.observed # {}

ValidSubmission(r) ==
    /\ r.runMode = "submission" /\ r.metadata
    /\ r.kubernetesVersion # ""
    /\ r.result \in {"success", "partial"}
    /\ r.observed # {}

ValidReport(r, submission) ==
    /\ r.named
    /\ ValidProfile(r)
    /\ r.result = Overall(r.profileResult, r.errors)
    /\ submission => ValidSubmission(r)
=============================================================================
