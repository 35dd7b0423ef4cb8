------------------------ MODULE TwoPassMaterializer ------------------------
(***************************************************************************)
(* SyntheticTwoPassMaterializer and PosixTranscriptWriter                   *)
(* (src/src/stage/two-pass-materializer.ts): the archive is inspected by    *)
(* one worker, written entry by entry from a second one into a pending      *)
(* root, verified as a tree, and published by a seal between two audit      *)
(* events.  Every operation may fail, another process of the user may       *)
(* change the files, and the owner may crash; nothing is ever cleaned up.   *)
(***************************************************************************)
EXTENDS ArchiveWorker

VARIABLES
  mt,     \* the materialize() call: where it is, the stage's state, the transcript
  writer, \* the sink: the entry it has open, the entries it has seen, its abort
  disk,   \* the stage parent: pending root, tree, seal and its temporary file
  audit   \* the durable events

materializerVars == <<mt, writer, disk, audit>>

PathsOf(t) == {t[i].path : i \in 1..Len(t)}

NoWriter == [open |-> 0, bytes |-> 0, good |-> TRUE, seen |-> {}, aborted |-> FALSE]

MaterializerInit ==
  /\ mt = [pc |-> "inspect", state |-> "ARTIFACTS_VERIFIED", transcript |-> <<>>,
           verified |-> FALSE, honest |-> FALSE]
  /\ writer = NoWriter
  /\ disk = [root |-> "none", tree |-> <<>>, seal |-> "none", temp |-> FALSE,
             meddled |-> "no"]
  /\ audit = <<>>

----------------------------------------------------------------------------
(* PackageStageStateMachine, as far as a materialization goes.               *)

NEXT_STATES(s) ==
  CASE s = "ARTIFACTS_VERIFIED" -> {"PASS_A_RUNNING", "ARCHIVES_PREFLIGHTED", "FAILED_QUARANTINE"}
    [] s = "PASS_A_RUNNING" -> {"ARCHIVES_PREFLIGHTED", "FAILED_QUARANTINE"}
    [] s = "ARCHIVES_PREFLIGHTED" -> {"PASS_B_RUNNING", "MATERIALIZING", "FAILED_QUARANTINE"}
    [] s = "PASS_B_RUNNING" -> {"MATERIALIZING", "FAILED_QUARANTINE"}
    [] s = "MATERIALIZING" -> {"TREE_VERIFIED", "FAILED_QUARANTINE"}
    [] s = "TREE_VERIFIED" -> {"READY_TO_COMMIT", "FAILED_QUARANTINE"}
    [] s = "READY_TO_COMMIT" -> {"SEALED_PENDING_AUDIT", "READY", "FAILED_QUARANTINE"}
    [] s = "SEALED_PENDING_AUDIT" -> {"READY", "FAILED_QUARANTINE"}
    [] OTHER -> {}

\* A chain of transitions, each of which has to be allowed.
Moves(states) ==
  \A k \in 1..Len(states) :
    states[k] \in NEXT_STATES(IF k = 1 THEN mt.state ELSE states[k - 1])

\* The catch block: the writer is aborted and the stage quarantined.
Caught ==
  /\ mt' = [mt EXCEPT !.pc = "failed",
                      !.state = IF Moves(<<"FAILED_QUARANTINE">>) THEN "FAILED_QUARANTINE" ELSE @]
  /\ writer' = [writer EXCEPT !.aborted = TRUE, !.open = 0]

\* An operation of the owner's own fails: nothing but the catch block follows.
OwnerFails ==
  /\ mt.pc \in {"inspect", "root", "passB", "finish", "verify", "seal", "linked"}
  /\ Caught
  /\ \E left \in {disk.temp, FALSE} : disk' = [disk EXCEPT !.temp = left]
  /\ UNCHANGED <<audit, workerVars>>

AUDIT_EVENTS == <<"materialization_started", "ready_to_commit", "ready">>

\* audit.record(): in this order only.  The owner goes on when it resolves; a record
\* that rejects may or may not be durable.
Records(event, next) ==
  \/ event = AUDIT_EVENTS[Len(audit) + 1] /\ audit' = Append(audit, event) /\ next
  \/ audit' \in {audit, Append(audit, event)} /\ Caught

----------------------------------------------------------------------------
(* materialize().                                                            *)

\* worker.inspect(): the runtime is revalidated before the child is started.
Inspect ==
  /\ mt.pc = "inspect" /\ ~env.drift /\ Moves(<<"PASS_A_RUNNING">>)
  /\ \E rogue \in BOOLEAN :
       /\ Spawned("pass_a", <<>>, rogue, 0)
       /\ mt' = [mt EXCEPT !.pc = "passA", !.state = "PASS_A_RUNNING", !.honest = ~rogue]
  /\ UNCHANGED <<writer, disk, audit>>

\* The transcript is authenticated; the start is recorded before anything is written.
PassAEnds ==
  /\ mt.pc = "passA" /\ ws.pc = "closed"
  /\ IF ws.result = "ok" /\ Moves(<<"ARCHIVES_PREFLIGHTED">>)
     THEN Records("materialization_started",
                  /\ mt' = [mt EXCEPT !.pc = "root", !.state = "ARCHIVES_PREFLIGHTED", !.transcript = ws.got]
                  /\ UNCHANGED writer)
     ELSE Caught /\ UNCHANGED audit
  /\ UNCHANGED <<disk, workerVars>>

\* mkdtemp() in a private parent.
CreateRoot ==
  /\ mt.pc = "root"
  /\ disk' = [disk EXCEPT !.root = "ours"]
  /\ mt' = [mt EXCEPT !.pc = "passB"]
  /\ UNCHANGED <<writer, audit, workerVars>>

\* worker.materialize(): the same bytes, the same runtime, the same transcript.
Materialize ==
  /\ mt.pc = "passB" /\ ~env.drift /\ Moves(<<"PASS_B_RUNNING", "MATERIALIZING">>)
  /\ \E rogue \in BOOLEAN :
       /\ Spawned("pass_b", mt.transcript, rogue, 0)
       /\ mt' = [mt EXCEPT !.pc = "writing", !.state = "MATERIALIZING", !.honest = @ \/ ~rogue]
  /\ UNCHANGED <<writer, disk, audit>>

----------------------------------------------------------------------------
(* PosixTranscriptWriter.                                                    *)

Node(path, node) == [q \in DOMAIN disk.tree \cup {path} |-> IF q = path THEN node ELSE disk.tree[q]]

SinkActive == mt.pc = "writing" /\ ~writer.aborted

\* A sink operation is done: the frame is acknowledged.
Sunk == ws' = [ws EXCEPT !.pc = "ack"] /\ UNCHANGED <<wk, src, env>>

\* assertParentChain(): the directory was created by this writer and is still there.
ParentChain(e) == e.parent = "" \/ (e.parent \in writer.seen /\ disk.tree[e.parent] = "dir700")

\* start(): the root is still ours; a directory or a file is created exclusively.
SinkStart ==
  /\ ws.pc = "entry_start" /\ SinkActive /\ disk.root = "ours" /\ writer.open = 0
  /\ LET e == mt.transcript[ws.index]
     IN  /\ e.path \notin writer.seen /\ e.path \notin DOMAIN disk.tree /\ ParentChain(e)
         /\ disk' = [disk EXCEPT !.tree = Node(e.path, IF e.dir THEN "dir700" ELSE "partial")]
         /\ writer' = IF e.dir THEN [writer EXCEPT !.seen = @ \cup {e.path}]
                      ELSE [writer EXCEPT !.open = ws.index, !.bytes = 0, !.good = TRUE]
  /\ Sunk /\ UNCHANGED <<mt, audit>>

\* write(): at the offset reached, never past the declared size.
SinkWrite ==
  /\ ws.pc = "body_chunk" /\ SinkActive /\ writer.open = ws.index
  /\ ws.offset <= mt.transcript[ws.index].size
  /\ writer' = [writer EXCEPT !.bytes = ws.offset, !.good = @ /\ ws.whole]
  /\ Sunk /\ UNCHANGED <<mt, disk, audit>>

\* The entry of the entry_end frame: the session already points to the next one.
EndedEntry == mt.transcript[IF ws.at = "entry_start" THEN ws.index - 1 ELSE ws.index]

\* end() counts the bytes it wrote and hashes them; it does not read the file again.
WriterComplete(e) == writer.bytes = e.size /\ writer.good

SinkEnd ==
  /\ ws.pc = "entry_end" /\ SinkActive
  /\ LET e == EndedEntry
     IN  \/ /\ e.dir /\ writer.open = 0
            /\ UNCHANGED <<writer, disk>>
         \/ /\ ~e.dir /\ writer.open # 0 /\ WriterComplete(e)
            /\ writer' = [writer EXCEPT !.open = 0, !.seen = @ \cup {e.path}]
            /\ disk' = [disk EXCEPT !.tree = Node(e.path, IF disk.tree[e.path] # "partial" THEN "changed"
                                                          ELSE "whole")]
  /\ Sunk /\ UNCHANGED <<mt, audit>>

\* Any of the three throws: the catch block of the pass aborts the sink and the session.
SinkFails ==
  /\ mt.pc = "writing" /\ ws.pc \in {"entry_start", "body_chunk", "entry_end"}
  /\ ws' = Throw(ws)
  /\ writer' = [writer EXCEPT !.aborted = TRUE, !.open = 0]
  /\ UNCHANGED <<wk, src, env, mt, disk, audit>>

\* A session that throws during pass B aborts its sink first.
WriterFollows ==
  writer' = IF mt.pc = "writing" /\ ws.pc # "abort" /\ ws'.pc = "abort"
            THEN [writer EXCEPT !.aborted = TRUE, !.open = 0] ELSE writer

----------------------------------------------------------------------------
\* finish(): every entry seen; the directories get their mode.
PassBEnds ==
  /\ mt.pc = "writing" /\ ws.pc = "closed"
  /\ IF ws.result = "ok" THEN mt' = [mt EXCEPT !.pc = "finish"] /\ UNCHANGED writer ELSE Caught
  /\ UNCHANGED <<disk, audit, workerVars>>

FinishWriter ==
  /\ mt.pc = "finish" /\ ~writer.aborted /\ writer.open = 0 /\ disk.root = "ours"
  /\ writer.seen = PathsOf(mt.transcript)
  /\ \A i \in 1..Len(mt.transcript) : mt.transcript[i].dir => disk.tree[mt.transcript[i].path] = "dir700"
  /\ disk' = [disk EXCEPT !.tree = [q \in DOMAIN disk.tree |->
                                      IF disk.tree[q] = "dir700" THEN "dir755" ELSE disk.tree[q]]]
  /\ mt' = [mt EXCEPT !.pc = "verify"]
  /\ UNCHANGED <<writer, audit, workerVars>>

\* createMaterializedTreeManifest() and assertTreeMatchesTranscript().
TreeMatches(t) ==
  /\ DOMAIN disk.tree = PathsOf(t)
  /\ \A i \in 1..Len(t) : disk.tree[t[i].path] = IF t[i].dir THEN "dir755" ELSE "whole"

VerifyNames ==
  /\ mt.pc = "verify" /\ DOMAIN disk.tree = PathsOf(mt.transcript) /\ disk.root = "ours"
  /\ mt' = [mt EXCEPT !.pc = "commit", !.state = "READY_TO_COMMIT", !.verified = TRUE]
  /\ UNCHANGED <<writer, disk, audit, workerVars>>

\* The tree is the transcript's, in the root that was created.
VerifyTree ==
  /\ mt.pc = "verify" /\ TreeMatches(mt.transcript) /\ disk.root = "ours"
  /\ Moves(<<"TREE_VERIFIED", "READY_TO_COMMIT">>)
  /\ mt' = [mt EXCEPT !.pc = "commit", !.state = "READY_TO_COMMIT", !.verified = TRUE]
  /\ UNCHANGED <<writer, disk, audit, workerVars>>

RecordCommit ==
  /\ mt.pc = "commit"
  /\ Records("ready_to_commit", mt' = [mt EXCEPT !.pc = "seal"] /\ UNCHANGED writer)
  /\ UNCHANGED <<disk, workerVars>>

\* publishSeal(): a synced temporary file is linked exclusively under the final name ...
LinkSeal ==
  /\ mt.pc = "seal" /\ disk.root = "ours" /\ disk.seal = "none"
  /\ disk' = [disk EXCEPT !.seal = "ours", !.temp = TRUE]
  /\ mt' = [mt EXCEPT !.pc = "linked"]
  /\ UNCHANGED <<writer, audit, workerVars>>

\* ... and loses its other name; the root is checked once more.
SealPublished ==
  /\ mt.pc = "linked" /\ disk.root = "ours" /\ Moves(<<"SEALED_PENDING_AUDIT">>)
  /\ disk' = [disk EXCEPT !.temp = FALSE]
  /\ mt' = [mt EXCEPT !.pc = "ready", !.state = "SEALED_PENDING_AUDIT"]
  /\ UNCHANGED <<writer, audit, workerVars>>

\* The last event makes the stage ready; the result follows without an await.
RecordReady ==
  /\ mt.pc = "ready"
  /\ Records("ready", /\ Moves(<<"READY">>)
                      /\ mt' = [mt EXCEPT !.pc = "done", !.state = "READY"] /\ UNCHANGED writer)
  /\ UNCHANGED <<disk, workerVars>>

----------------------------------------------------------------------------
\* Another process of the same user, once: the pending root, a file or a directory of
\* it, or the name of the seal.
Interfere ==
  /\ disk.root = "ours" /\ disk.meddled = "no"
  /\ LET when == IF mt.verified THEN "late" ELSE "early" IN
     \/ disk' = [disk EXCEPT !.root = "replaced", !.meddled = when]
     \/ \E p \in DOMAIN disk.tree : disk' = [disk EXCEPT !.tree[p] = "changed", !.meddled = when]
     \/ disk' = [disk EXCEPT !.tree = Node("stray", "changed"), !.meddled = when]
     \/ disk.seal = "none" /\ disk' = [disk EXCEPT !.seal = "foreign", !.meddled = when]
  /\ UNCHANGED <<mt, writer, audit, workerVars>>

\* The owner dies with all it had in memory, and the child loses its pipes; what is on
\* the disk stays.
Crash ==
  /\ mt.pc \notin {"done", "failed", "crashed"}
  /\ mt' = [mt EXCEPT !.pc = "crashed"]
  /\ ws' = NoSession /\ wk' = NoWorker /\ src' = "none"
  /\ writer' = NoWriter
  /\ UNCHANGED <<env, disk, audit>>

MaterializerStep ==
  \/ OwnerFails \/ Inspect \/ PassAEnds \/ CreateRoot \/ Materialize
  \/ SinkStart \/ SinkWrite \/ SinkEnd \/ SinkFails
  \/ PassBEnds \/ FinishWriter \/ VerifyTree \/ RecordCommit
  \/ LinkSeal \/ SealPublished \/ RecordReady
  \/ SessionStep /\ WriterFollows /\ UNCHANGED <<mt, disk, audit>>

MaterializerEnvironment ==
  \/ Interfere \/ Crash
  \/ (WorkerStep \/ CallerAborts \/ RuntimeDrifts) /\ UNCHANGED materializerVars
=============================================================================
