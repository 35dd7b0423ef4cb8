----------------------------- MODULE InstallPolicy -----------------------------
(***************************************************************************)
(* From what the registry answers to what an install run may do:           *)
(* install/npm-registry.ts makes a resolution of the response,             *)
(* install/service.ts holds it against the request, install/risk.ts and    *)
(* install/policy.ts judge it, and install/service.ts decides what that    *)
(* means for an execution.                                                 *)
(*                                                                         *)
(* A resolution is a record: status, whether it names the requested        *)
(* package at an exact version, the findings of its metadata, one per      *)
(* signal of the score, and whether it carries what an execution needs.    *)
(***************************************************************************)
EXTENDS Integers, FiniteSetsExt

\* POINTS, for the findings of resolved metadata and for the other statuses.
Points == [ lifecycle_scripts |-> 35, high_advisory |-> 60, critical_advisory |-> 75,
            possible_typosquat |-> 50, new_package |-> 25, new_publisher |-> 25,
            repository_missing |-> 20, provenance_inconsistent |-> 20,
            mutable_source |-> 45, limited_registry_evidence |-> 25,
            exact_version_unresolved |-> 100, metadata_unavailable |-> 50,
            metadata_contradictory |-> 50 ]

Without(status) ==
    [status |-> status, named |-> FALSE, findings |-> {}, installable |-> FALSE]

\* What NpmRegistryMetadataProvider makes of a response; "reached" is false if
\* the request failed, timed out or its body was too long or not JSON.
ResolveResponse(r) ==
    CASE ~r.reached -> Without("unavailable")
      [] r.reached /\ r.code = 404 -> Without("unresolved")
      [] r.reached /\ r.code \notin {200, 404} -> Without("unavailable")
      [] r.reached /\ r.code = 200 /\ ~r.wellFormed -> Without("contradictory")
      [] r.reached /\ r.code = 200 /\ r.wellFormed /\ ~r.hasVersion -> Without("unresolved")
      [] r.reached /\ r.code = 200 /\ r.wellFormed /\ r.hasVersion /\ ~r.consistent ->
           Without("contradictory")
      [] OTHER -> [ status |-> "resolved", named |-> TRUE, installable |-> r.integrity,
                    findings |-> {"limited_registry_evidence"} \cup
                                 (IF r.scripts THEN {"lifecycle_scripts"} ELSE {}) ]

\* Mutant of ValidateInstallResolution: the metadata is taken at its word.
TrustInstallResolution(exact, resolution) ==
    IF resolution.status \in {"unavailable", "contradictory"} /\ ~exact
    THEN Without("unresolved")
    ELSE resolution

\* exact: the requested specifier is an exact version.
ValidateInstallResolution(exact, resolution) ==
    IF resolution.status \in {"unavailable", "contradictory"} /\ ~exact
    THEN Without("unresolved")
    ELSE IF resolution.status = "resolved" /\ ~resolution.named
    THEN Without("contradictory")
    ELSE resolution

StatusCode == [ unresolved |-> "exact_version_unresolved",
                contradictory |-> "metadata_contradictory",
                unavailable |-> "metadata_unavailable" ]

Signals(resolution) ==
    IF resolution.status = "resolved" THEN resolution.findings
    ELSE {StatusCode[resolution.status]}

ScoreInstallRisk(resolution) ==
    Min({100, MapThenSumSet(LAMBDA s : Points[s], Signals(resolution))})

\* INSTALL_POLICY_MODEL.
DenySignals == {"exact_version_unresolved", "critical_advisory"}
AskSignals == {"metadata_unavailable", "metadata_contradictory", "lifecycle_scripts",
               "high_advisory", "possible_typosquat", "mutable_source",
               "limited_registry_evidence"}
RiskEscalationThreshold == 50

StrictestSignalDecision(signals) ==
    IF signals \cap DenySignals # {} THEN "deny"
    ELSE IF signals \cap AskSignals # {} THEN "ask" ELSE "allow"

EvaluateInstallPolicy(resolution) ==
    LET decision == StrictestSignalDecision(Signals(resolution))
    IN  IF decision = "allow" /\ ScoreInstallRisk(resolution) >= RiskEscalationThreshold
        THEN "ask" ELSE decision

\* executionEvaluation(): nothing runs without resolved metadata, and nothing runs
\* without a person, whatever the verdict.
ExecutionEvaluation(resolution) ==
    IF EvaluateInstallPolicy(resolution) = "deny" \/ resolution.status # "resolved"
    THEN "deny" ELSE "ask"
=============================================================================
