------------------------- MODULE ArtifactAcceptance -------------------------
(***************************************************************************)
(* CompleteReadOnlyAcceptanceAuthority and VerifiedArtifactFileAuthority    *)
(* (src/src/stage/read-only-artifact-acceptance.ts and                      *)
(* read-only-artifact-file.ts): every artifact of an approved plan is       *)
(* downloaded into a private root, inspected by two workers that have to    *)
(* agree, and removed again; the report says whether it was.                *)
(*                                                                         *)
(* A file is "none", "partial" or "dirtied" while it is downloaded (dirtied: *)
(* somebody else wrote to it), "whole", "spoiled" (identity as captured,     *)
(* bytes not), "touched" (identity changed since, or another file),          *)
(* "replaced" (another file before the download ended) or "gone".            *)
(***************************************************************************)
EXTENDS ArchiveWorker

VARIABLES
  acc,     \* the acceptForTest() call: where it is, the artifact, what was accepted
  events,  \* the events it has recorded
  report   \* #lastReport and the error code

acceptanceVars == <<acc, events, report>>

NoReport == [state |-> "none", cleanup |-> FALSE, code |-> "none"]

\* record('artifact_acceptance_authorized') and record('artifact_download_started')
\* come before anything can fail.
AcceptanceInit ==
  /\ acc = [pc |-> "approve", n |-> 1, first |-> <<>>, accepted |-> <<>>, honest |-> {}, meddled |-> FALSE]
  /\ events = <<"authorized", "download_started">>
  /\ report = NoReport

File(i, state) == [env EXCEPT !.files[i] = state]

\* The outer catch block's report; evidence exists only with the other one.
Incomplete(cleanup, code) ==
  /\ acc' = [acc EXCEPT !.pc = "incomplete"]
  /\ events' = events \o (IF cleanup THEN <<"cleanup_complete">> ELSE <<>>) \o <<"acceptance_incomplete">>
  /\ report' = [state |-> "ACCEPTANCE_INCOMPLETE_QUARANTINE", cleanup |-> cleanup, code |-> code]

----------------------------------------------------------------------------
(* cleanupFiles().                                                           *)

\* The files are removed in order, each only while its identity is the captured one;
\* the first that is not, or cannot be removed, ends it, so a file that is already
\* gone does too.  The outcomes are the lengths of the removed prefix.
CleanupOutcomes(last) ==
  {k \in 0..last : \A i \in 1..k : env.files[i] \in {"whole", "spoiled"}}

Removed(k) == [env EXCEPT !.files = [i \in 0..Artifacts |-> IF i \in 1..k THEN "gone" ELSE @[i]]]

----------------------------------------------------------------------------
(* downloadForTest().                                                        *)

\* The root is revalidated, and the approval is consumed before the first byte.
ConsumeApproval ==
  /\ acc.pc = "approve"
  /\ \/ /\ acc' = [acc EXCEPT !.pc = "download"]
        /\ UNCHANGED <<events, report>>
     \/ Incomplete(FALSE, "artifact_approval_invalid")
  /\ UNCHANGED workerVars

\* open(O_EXCL) for the next artifact, unless the signal is aborted.
CreateFile ==
  /\ acc.pc = "download" /\ ~env.aborted
  /\ env' = File(acc.n, "partial")
  /\ acc' = [acc EXCEPT !.pc = "fetch"]
  /\ UNCHANGED <<ws, wk, src, events, report>>

\* All bytes have come in time and hash to the integrity; the identity is captured from
\* the handle, and the path has to lead to the same file.
FetchEnds ==
  /\ acc.pc = "fetch" /\ env.files[acc.n] # "replaced"
  /\ env' = File(acc.n, IF env.files[acc.n] = "partial" THEN "whole" ELSE "spoiled")
  /\ IF acc.n < Artifacts
     THEN /\ acc' = [acc EXCEPT !.pc = "download", !.n = @ + 1]
          /\ UNCHANGED events
     ELSE /\ acc' = [acc EXCEPT !.pc = "first", !.n = 1]
          /\ events' = Append(events, "integrity_verified")
  /\ UNCHANGED <<ws, wk, src, report>>

\* The deadline of #downloadOne(), the caller's signal, the transport, the digest, a
\* limit: its own file is removed if it is still the one that was created.
DownloadFails ==
  /\ acc.pc \in {"download", "fetch"}
  /\ \/ /\ acc.pc = "download" /\ UNCHANGED env
        /\ report' = [report EXCEPT !.code = "artifact_file_invalid"]
     \/ /\ acc.pc = "fetch" /\ env.files[acc.n] # "replaced"
        /\ env' = File(acc.n, "gone")
        /\ report' = [report EXCEPT !.code = "artifact_file_invalid"]
     \/ /\ acc.pc = "fetch" /\ UNCHANGED env
        /\ report' = [report EXCEPT !.code = "artifact_cleanup_incomplete"]
  /\ acc' = [acc EXCEPT !.pc = "unwind"]
  /\ UNCHANGED <<ws, wk, src, events>>

\* The catch block of downloadForTest() removes the files that were finished; the
\* error says when one is left, and acceptForTest() has no set to clean up.
DownloadCode(left) == IF left THEN "artifact_cleanup_incomplete" ELSE report.code

UnwindDownload ==
  /\ acc.pc = "unwind"
  /\ \/ \E k \in CleanupOutcomes(acc.n - 1) :
          /\ env' = Removed(k)
          /\ Incomplete(FALSE, DownloadCode(k < acc.n - 1))
     \/ \* the root is not the one it was: nothing is removed
        UNCHANGED env /\ Incomplete(FALSE, DownloadCode(TRUE))
  /\ UNCHANGED <<ws, wk, src>>

----------------------------------------------------------------------------
(* The inspections.                                                          *)

\* inspectSourceWithManifest() on a new source of the file.
StartInspection ==
  /\ acc.pc \in {"first", "second"} /\ ~env.drift
  /\ \E rogue \in BOOLEAN :
       /\ Spawned("pass_a_manifest", <<>>, rogue, acc.n)
       /\ acc' = [acc EXCEPT !.pc = IF @ = "first" THEN "inspecting1" ELSE "inspecting2",
                             !.honest = IF rogue THEN @ ELSE @ \cup {acc.n}]
  /\ UNCHANGED <<events, report>>

FirstInspected ==
  /\ acc.pc = "inspecting1" /\ ws.pc = "closed" /\ ws.result = "ok"
  /\ acc' = [acc EXCEPT !.pc = "second", !.first = ws.got]
  /\ events' = Append(events, "pass_a_verified")
  /\ UNCHANGED <<report, workerVars>>

AnyInspection == TRUE

\* canonicalJson(first) === canonicalJson(second)
SameInspection == ws.got = acc.first

\* The evidence of the artifact; projectAndValidatePackageManifest() may still refuse it.
SecondInspected ==
  /\ acc.pc = "inspecting2" /\ ws.pc = "closed" /\ ws.result = "ok" /\ SameInspection
  /\ events' = Append(events, "second_pass_a_verified")
  /\ acc' \in {[acc EXCEPT !.accepted = Append(@, acc.first), !.first = <<>>,
                           !.n = IF @ < Artifacts THEN @ + 1 ELSE @,
                           !.pc = IF acc.n < Artifacts THEN "first" ELSE "cleanup"],
               [acc EXCEPT !.pc = "catch"]}
  /\ UNCHANGED <<report, workerVars>>

\* The runtime has drifted, a session has failed, or the inspections differ.
InspectionFails ==
  /\ \/ acc.pc \in {"first", "second"} /\ env.drift
     \/ /\ acc.pc \in {"inspecting1", "inspecting2"} /\ ws.pc = "closed"
        /\ ws.result = "ok" => (acc.pc = "inspecting2" /\ ~SameInspection)
  /\ acc' = [acc EXCEPT !.pc = "catch"]
  /\ UNCHANGED <<events, report, workerVars>>

----------------------------------------------------------------------------
\* cleanup() and the complete report, or the catch block.
Cleanup ==
  /\ acc.pc = "cleanup"
  /\ \E k \in CleanupOutcomes(Artifacts) :
       /\ env' = Removed(k)
       /\ IF k = Artifacts
          THEN /\ acc' = [acc EXCEPT !.pc = "complete"]
               /\ events' = events \o <<"cleanup_complete", "acceptance_complete">>
               /\ report' = [state |-> "ACCEPTANCE_COMPLETE", cleanup |-> TRUE, code |-> "none"]
          ELSE acc' = [acc EXCEPT !.pc = "catch"] /\ UNCHANGED <<events, report>>
  /\ UNCHANGED <<ws, wk, src>>

CleanupReported(k) == k \in 0..Artifacts

\* cleanupComplete of the catch block is what its own attempt achieved.
CleanupAchieved(k) == k = Artifacts

CatchCleanup ==
  /\ acc.pc = "catch"
  /\ \E k \in CleanupOutcomes(Artifacts) :
       /\ env' = Removed(k)
       /\ Incomplete(CleanupAchieved(k), "acceptance_incomplete")
  /\ UNCHANGED <<ws, wk, src>>

----------------------------------------------------------------------------
\* Another process of the same user, once.
Meddle ==
  /\ ~acc.meddled
  /\ acc' = [acc EXCEPT !.meddled = TRUE]
  /\ \E i \in 1..Artifacts :
       \/ env.files[i] = "partial" /\ env' = File(i, "replaced")
       \/ env.files[i] = "partial" /\ env' = File(i, "dirtied")
       \/ env.files[i] = "whole" /\ env' = File(i, "touched")
  /\ UNCHANGED <<ws, wk, src, events, report>>

AcceptanceStep ==
  \/ ConsumeApproval \/ CreateFile \/ FetchEnds \/ DownloadFails \/ UnwindDownload
  \/ StartInspection \/ FirstInspected \/ SecondInspected \/ InspectionFails
  \/ Cleanup \/ CatchCleanup
  \/ SessionStep /\ UNCHANGED acceptanceVars

AcceptanceEnvironment ==
  \/ Meddle
  \/ (WorkerStep \/ CallerAborts \/ RuntimeDrifts) /\ UNCHANGED acceptanceVars
=============================================================================
