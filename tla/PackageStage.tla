---------------------------- MODULE PackageStage ----------------------------
(***************************************************************************)
(* The two users of the bounded archive worker: a materialization           *)
(* (TwoPassMaterializer) or an acceptance run (ArtifactAcceptance), each    *)
(* composed with the worker's session and its child.                        *)
(***************************************************************************)
EXTENDS TwoPassMaterializer, ArtifactAcceptance

VARIABLE job  \* the one that is run: "materialize" or "accept"

vars == <<job, workerVars, materializerVars, acceptanceVars>>

Init ==
  /\ job \in {"materialize", "accept"}
  /\ WorkerInit /\ MaterializerInit /\ AcceptanceInit

OwnStep ==
  \/ job = "materialize" /\ MaterializerStep /\ UNCHANGED <<job, acceptanceVars>>
  \/ job = "accept" /\ AcceptanceStep /\ UNCHANGED <<job, materializerVars>>

Over ==
  IF job = "materialize" THEN mt.pc \in {"done", "failed", "crashed"}
  ELSE acc.pc \in {"complete", "incomplete"}

\* A job that is over has nothing left to disturb.
EnvironmentStep ==
  /\ ~Over
  /\ \/ job = "materialize" /\ MaterializerEnvironment /\ UNCHANGED <<job, acceptanceVars>>
     \/ job = "accept" /\ AcceptanceEnvironment /\ UNCHANGED <<job, materializerVars>>

Next == OwnStep \/ EnvironmentStep

Spec == Init /\ [][Next]_vars

\* The owner's event loop goes on: file operations settle, the timers of the session,
\* of abort() and of a download fire.  Nothing is assumed of the child, of the network
\* or of whoever else changes files.
FairSpec == Spec /\ WF_vars(OwnStep)

----------------------------------------------------------------------------
\* A seal under the final name, also one that a failed or crashed materialization has
\* left, was made after the start and the commit were recorded and after the tree was
\* found to be the transcript's; if one of the two children kept to the protocol, the
\* transcript is the archive's, whatever the other one sent.  A stage is ready only
\* with all three events and no second name of the seal.  (materialize(), publishSeal())
SealIsEarned ==
  /\ disk.seal = "ours" =>
       /\ Len(audit) >= 2
       /\ disk.meddled # "late" => TreeMatches(mt.transcript)
       /\ mt.honest => mt.transcript = Archive
  /\ mt.pc = "done" => audit = AUDIT_EVENTS /\ disk.seal = "ours" /\ ~disk.temp

\* Complete evidence accepts each artifact once, after two inspections; a child that
\* lies once is not believed if the other one of the pair kept to the protocol; and no
\* downloaded file is left.  (acceptForTest())
AcceptedIsEarned ==
  report.state = "ACCEPTANCE_COMPLETE" =>
    /\ Len(acc.accepted) = Artifacts
    /\ \A i \in acc.honest : acc.accepted[i] = Archive
    /\ \A i \in 1..Artifacts : env.files[i] = "gone"
    /\ Cardinality({k \in 1..Len(events) : events[k] = "second_pass_a_verified"}) = Artifacts

\* A job that ends leaves no child running and no file open, and a downloaded file that
\* stays behind is not denied: the report does not claim a cleanup, and a failed
\* download says so in its error.  (abort(), cleanupFiles(), #downloadOne())
LeftoversAreReported ==
  Over =>
    /\ wk.state # "running"
    /\ writer.open = 0
    /\ (\E i \in 1..Artifacts : env.files[i] \notin {"none", "gone"}) =>
         /\ ~report.cleanup
         /\ report.code # "artifact_file_invalid"

\* A job comes to an end whatever the child, the transport or another process does.
\* (the timeouts of WorkerSession, abort() and #downloadOne())
EveryJobEnds == <>Over
=============================================================================
