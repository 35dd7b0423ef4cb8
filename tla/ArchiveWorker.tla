---------------------------- MODULE ArchiveWorker ----------------------------
(***************************************************************************)
(* The bounded archive worker (src/src/stage/bounded-archive-worker.ts and  *)
(* archive-worker-entry.ts): a parent session that feeds an archive to a    *)
(* sandboxed child process, reads its frames one at a time, validates each  *)
(* against what it has accepted before, and acknowledges it.  The child may *)
(* be honest or not; the parent trusts none of its frames.                  *)
(*                                                                         *)
(* Bodies are lengths plus the fact whether they hash to the digest the      *)
(* transcript names; a digest is represented by what it is the digest of.   *)
(***************************************************************************)
EXTENDS Naturals, Sequences, FiniteSets, SequencesExt

CONSTANTS
  Archive,      \* the entries of the archive: [path, parent, dir, size]
  Claims,       \* the transcripts a child may claim, well formed or not
  MaxEntries,   \* limits.archiveEntries
  MaxFile,      \* limits.regularFileBytes
  MaxTotal,     \* limits.uncompressedArtifactBytes
  ChunkBytes,   \* options.bodyChunkBytes
  ManifestPath, \* the path of the package's own manifest
  Artifacts     \* the number of artifacts of an acceptance plan

ASSUME LimitsAssumption ==
  /\ MaxEntries \in Nat /\ MaxFile \in Nat /\ MaxTotal \in Nat /\ ChunkBytes \in Nat \ {0}
  /\ Artifacts \in Nat \ {0}
  /\ Archive \in Claims

VARIABLES
  ws,   \* the WorkerSession and the #runPass... method that drives it
  wk,   \* the child process, its output pipe and the acknowledgements it has not read
  src,  \* #writeInitial(): "none", "reading", "fed", "checked" or "failed"
  env   \* the caller's signal, the runtime's files, the artifacts' files, the one being read

workerVars == <<ws, wk, src, env>>

NoSession == [pc |-> "none", pass |-> "none", at |-> "none", got |-> <<>>, index |-> 0, offset |-> 0,
              whole |-> TRUE, guard |-> FALSE, expect |-> "success", result |-> "none"]

NoWorker == [state |-> "none", rogue |-> FALSE, out |-> <<>>, sent |-> 0, waits |-> FALSE,
             stderr |-> FALSE]

WorkerInit ==
  /\ ws = NoSession /\ wk = NoWorker /\ src = "none"
  /\ env = [aborted |-> FALSE, drift |-> FALSE, reading |-> 0,
            files |-> [i \in 0..Artifacts |-> IF i = 0 THEN "whole" ELSE "none"]]

\* The source of a session: file number 0 is bufferArtifactSource(), bytes in memory.
SourceFile == env.files[env.reading]

----------------------------------------------------------------------------
(* Frames.                                                                   *)

Frame(type, i, o, n, good, claim) ==
  [type |-> type, index |-> i, offset |-> o, bytes |-> n, good |-> good, claim |-> claim]

ManifestIndex(t) == SelectInSeq(t, LAMBDA e : e.path = ManifestPath)

\* readPackageManifestFrames() refuses a transcript without a manifest file.
HasManifest(t) == ManifestIndex(t) # 0 /\ ~t[ManifestIndex(t)].dir

Entry == [path : STRING, parent : STRING, dir : BOOLEAN, size : Nat]

\* The archive is a package's: it has a manifest.  (Of another one the child sends the
\* transcript at most, and the parent refuses it.)
ASSUME ArchiveAssumption ==
  /\ Archive \in Seq(Entry)
  /\ HasManifest(Archive)

\* The chunks of a body of entry i, each of ChunkBytes but the last.
Chunks(type, i, size) ==
  [k \in 1..((size + ChunkBytes - 1) \div ChunkBytes) |->
     Frame(type, i, (k - 1) * ChunkBytes,
           IF k * ChunkBytes <= size THEN ChunkBytes ELSE size - (k - 1) * ChunkBytes, TRUE, <<>>)]

Body(t, i, start, chunk, end) ==
  <<Frame(start, i, 0, t[i].size, TRUE, <<>>)>> \o Chunks(chunk, i, t[i].size)
    \o <<Frame(end, i, 0, t[i].size, TRUE, <<>>)>>

\* main() of the worker: the frames it sends for a pass, each after the previous
\* one's acknowledgement, when the archive reads t.
Script(pass, t) ==
  (CASE pass = "pass_a" -> <<Frame("transcript", 0, 0, 0, TRUE, t)>>
     [] pass = "pass_a_manifest" ->
          <<Frame("transcript", 0, 0, 0, TRUE, t)>>
            \o Body(t, ManifestIndex(t), "manifest_start", "manifest_chunk", "manifest_end")
     [] pass = "pass_b" ->
          FlattenSeq([i \in 1..Len(t) |-> Body(t, i, "entry_start", "body_chunk", "entry_end")]))
  \o <<Frame("complete", 0, 0, 0, TRUE, t)>>

ERROR == Frame("error", 0, 0, 0, TRUE, <<>>)

----------------------------------------------------------------------------
(* The parent's validation.                                                  *)

\* validateTranscriptEntry() and validateTranscriptFrame(): bounded, portable,
\* without two entries for one path, and with the sum it declares.
TranscriptValid(t) ==
  /\ Len(t) \in 1..MaxEntries
  /\ \A i \in 1..Len(t) : t[i].size <= MaxFile /\ (t[i].dir => t[i].size = 0)
  /\ \A i, j \in 1..Len(t) : t[i].path = t[j].path => i = j
  /\ FoldLeft(LAMBDA sum, e : sum + e.size, 0, t) <= MaxTotal

\* What a child that does not follow the protocol may send: any frame of the type the
\* parent waits for (other transcripts, other entries, bodies that do not hash, refused
\* capabilities), an error, or garbage, which also stands for frames of another type.
RogueFrames(pass) ==
  LET all == {Frame(type, 0, 0, 0, TRUE, c) : type \in {"transcript", "complete"}, c \in Claims}
               \cup UNION {ToSet(Script(pass, c)) : c \in {d \in Claims : TranscriptValid(d) /\ HasManifest(d)}}
  IN  {f \in all \cup {[g EXCEPT !.good = FALSE] : g \in all} : f.type = ws.at}
        \cup {ERROR, Frame("garbage", 0, 0, 0, FALSE, <<>>)}

\* decodeCanonicalBase64() of a body chunk: the limit is on the encoded length.
MaxDecoded(type) == IF type = "body_chunk" THEN 3 * ((ChunkBytes + 2) \div 3) ELSE ChunkBytes

Declared == ws.got[ws.index].size

\* What the next frame has to be, given what has been accepted.
FrameValid(f) ==
  /\ f.type = ws.at
  /\ CASE ws.at = "transcript" -> TranscriptValid(f.claim)
       [] ws.at = "complete" -> f.claim = ws.got /\ f.good
       [] ws.at \in {"entry_start", "manifest_start"} -> f.index = ws.index /\ f.bytes = Declared
       [] ws.at \in {"body_chunk", "manifest_chunk"} ->
            /\ f.index = ws.index /\ f.offset = ws.offset
            /\ f.bytes \in 1..MaxDecoded(ws.at) /\ f.offset + f.bytes <= Declared
       [] ws.at = "entry_end" -> f.index = ws.index /\ f.bytes = Declared /\ f.good
       [] ws.at = "manifest_end" ->
            f.index = ws.index /\ f.bytes = ws.offset /\ f.good /\ ws.whole

\* The position after a valid frame.
Advance(f) ==
  LET body(w, chunk, end) ==
        [w EXCEPT !.at = IF w.offset < w.got[w.index].size THEN chunk ELSE end]
  IN  CASE ws.at = "transcript" /\ ws.pass = "pass_a" -> [ws EXCEPT !.got = f.claim, !.at = "complete"]
        [] ws.at = "transcript" /\ ws.pass = "pass_a_manifest" ->
             [ws EXCEPT !.got = f.claim, !.at = "manifest_start", !.index = ManifestIndex(f.claim)]
        [] ws.at = "manifest_start" -> body(ws, "manifest_chunk", "manifest_end")
        [] ws.at = "manifest_chunk" ->
             body([ws EXCEPT !.offset = @ + f.bytes, !.whole = @ /\ f.good], "manifest_chunk", "manifest_end")
        [] ws.at = "manifest_end" -> [ws EXCEPT !.at = "complete"]
        [] ws.at = "entry_start" -> body([ws EXCEPT !.offset = 0], "body_chunk", "entry_end")
        [] ws.at = "body_chunk" -> body([ws EXCEPT !.offset = @ + f.bytes], "body_chunk", "entry_end")
        [] ws.at = "entry_end" ->
             IF ws.index = Len(ws.got) THEN [ws EXCEPT !.at = "complete"]
             ELSE [ws EXCEPT !.at = "entry_start", !.index = @ + 1]
        [] ws.at = "complete" -> [ws EXCEPT !.at = "end"]

----------------------------------------------------------------------------
(* The session.                                                              *)

\* #spawn() and the constructor; a signal already aborted fails the session at once.
Spawned(pass, t, rogue, file) ==
  /\ ws' = [NoSession EXCEPT !.pc = "read", !.pass = pass, !.got = t, !.guard = env.aborted,
                             !.at = IF pass = "pass_b" THEN "entry_start" ELSE "transcript",
                             !.index = IF pass = "pass_b" THEN 1 ELSE 0]
  /\ wk' = [NoWorker EXCEPT !.state = "running", !.rogue = rogue]
  /\ src' = "reading"
  /\ env' = [env EXCEPT !.reading = file]

\* The catch block of the pass: the sink's abort is the caller's, then session.abort().
Throw(w) == [w EXCEPT !.pc = "abort", !.result = "failed"]

Live == ws.pc \notin {"none", "closed", "abort"}

\* #fail(): nothing once the session is finished.
Rejected == IF Live THEN [ws EXCEPT !.guard = TRUE] ELSE ws

\* nextFrame(): one frame, or the end of the output, or the guard.  An error frame
\* is acknowledged and ends the pass where one is allowed; a body frame of pass B
\* goes to the sink before it is acknowledged.
NextFrame ==
  /\ ws.pc = "read" /\ ~ws.guard
  /\ \/ /\ wk.out # <<>>
        /\ wk' = [wk EXCEPT !.out = Tail(@)]
        /\ LET f == Head(wk.out)
           IN  ws' = IF f.type = "error" /\ ws.at \in {"transcript", "entry_start"}
                     THEN [ws EXCEPT !.pc = "ack", !.at = "end", !.expect = "failure"]
                     ELSE IF ~FrameValid(f) THEN Throw(ws)
                     ELSE IF ws.pass = "pass_a_manifest" /\ f.type = "transcript" /\ ~HasManifest(f.claim)
                     THEN Throw(ws)
                     ELSE [Advance(f) EXCEPT !.pc =
                             IF f.type \in {"entry_start", "body_chunk", "entry_end"} THEN f.type ELSE "ack",
                             !.whole = IF f.type = "body_chunk" THEN f.good ELSE @]
     \/ /\ wk.out = <<>> /\ wk.state # "running"
        /\ ws' = Throw(ws) /\ UNCHANGED wk
  /\ UNCHANGED <<src, env>>

\* acknowledge(): to a child that is gone the write may fail.
Acknowledge ==
  /\ ws.pc = "ack" /\ ~ws.guard
  /\ \/ /\ ws' = [ws EXCEPT !.pc = IF ws.at = "end" THEN "drain" ELSE "read"]
        /\ wk' = [wk EXCEPT !.waits = FALSE]
     \/ /\ wk.state # "running"
        /\ ws' = Throw(ws) /\ UNCHANGED wk
  /\ UNCHANGED <<src, env>>

\* #finish(): of the session only its result is left.
Closed(exit, result) ==
  /\ ws' = [NoSession EXCEPT !.pc = "closed", !.got = ws.got, !.result = result]
  /\ wk' = [NoWorker EXCEPT !.state = exit]
  /\ src' = "none"

\* finishSuccess() and finishExpectedFailure(): the output is at its end, the child has
\* exited by itself with the code that fits, and has written nothing to stderr.
Exited == wk.state \in {"exit0", "exit1", "signal"}

CleanExit ==
  /\ wk.out = <<>> /\ ~wk.stderr
  /\ wk.state = IF ws.expect = "success" THEN "exit0" ELSE "exit1"

Finish ==
  /\ ws.pc = "drain" /\ ~ws.guard /\ Exited
  /\ IF CleanExit
     THEN Closed(wk.state, IF ws.expect = "success" THEN "ok" ELSE "failed")
     ELSE ws' = Throw(ws) /\ UNCHANGED <<wk, src>>
  /\ UNCHANGED env

\* Any race with the guard that has been rejected.
GuardRejects ==
  /\ ws.guard /\ ws.pc \in {"read", "ack", "drain"}
  /\ ws' = Throw(ws)
  /\ UNCHANGED <<wk, src, env>>

AbortWaits ==
  /\ ws.pc = "abort" /\ wk.state # "running"
  /\ Closed(wk.state, "failed")
  /\ UNCHANGED env

\* abort(): SIGTERM, SIGKILL after 250 ms, and the end of the wait after 500 ms; the
\* second signal cannot be refused.
AbortEnds ==
  /\ ws.pc = "abort"
  /\ Closed(IF wk.state = "running" THEN "signal" ELSE wk.state, "failed")
  /\ UNCHANGED env

\* The timer of the session, the child's 'error' event, too much on stderr.
SessionFails ==
  /\ Live /\ ~ws.guard
  /\ ws' = Rejected
  /\ UNCHANGED <<wk, src, env>>

\* The caller aborts its signal, also between two sessions.
CallerAborts ==
  /\ ~env.aborted
  /\ env' = [env EXCEPT !.aborted = TRUE]
  /\ ws' = Rejected
  /\ UNCHANGED <<wk, src>>

----------------------------------------------------------------------------
(* #writeInitial(), which nobody awaits.                                     *)

\* All of the artifact is in the pipe; the child can take it only while it lives.  The
\* copy in memory has been hashed before, so that its check cannot fail.
SourceFed ==
  /\ src = "reading" /\ wk.state = "running"
  /\ src' = IF env.reading = 0 THEN "checked" ELSE "fed"
  /\ UNCHANGED <<ws, wk, env>>

\* validateAfterRead() and the digest of the bytes that were read.
SourceChecked ==
  /\ src = "fed"
  /\ src' = IF SourceFile = "whole" THEN "checked" ELSE "failed"
  /\ ws' = IF SourceFile = "whole" THEN ws ELSE Rejected
  /\ UNCHANGED <<wk, env>>

\* A read fails, the file is not the one that was downloaded, or the pipe is broken.
SourceFails ==
  /\ src = "reading"
  /\ src' = "failed"
  /\ ws' = Rejected
  /\ UNCHANGED <<wk, env>>

----------------------------------------------------------------------------
(* The child.                                                                *)

\* The next frame of the script; the first one needs the whole archive.
WorkerSends ==
  /\ wk.state = "running" /\ ~wk.rogue /\ ~wk.waits /\ wk.sent < Len(Script(ws.pass, Archive))
  /\ src \in {"fed", "checked"} /\ SourceFile # "spoiled" /\ (ws.pass = "pass_b" => ws.got = Archive)
  /\ wk' = [wk EXCEPT !.out = Append(@, Script(ws.pass, Archive)[wk.sent + 1]), !.sent = @ + 1, !.waits = TRUE]
  /\ UNCHANGED <<ws, src, env>>

\* The archive is refused (also: not the bytes, or not the transcript, that were asked
\* for): an error frame without waiting for its acknowledgement, and exit code 1.
WorkerRefuses ==
  /\ wk.state = "running" /\ ~wk.rogue /\ wk.sent = 0 /\ src \in {"fed", "checked"}
  /\ wk' = [wk EXCEPT !.out = Append(@, ERROR), !.state = "exit1"]
  /\ UNCHANGED <<ws, src, env>>

WorkerExits ==
  /\ wk.state = "running" /\ ~wk.rogue /\ ~wk.waits /\ wk.sent = Len(Script(ws.pass, Archive))
  /\ wk' = [wk EXCEPT !.state = "exit0"]
  /\ UNCHANGED <<ws, src, env>>

\* A child that does as it pleases.
RogueWorker ==
  /\ wk.state = "running" /\ wk.rogue
  /\ \/ /\ wk.out = <<>>
        /\ \E f \in RogueFrames(ws.pass) : wk' = [wk EXCEPT !.out = Append(@, f)]
     \/ \E s \in {"exit0", "exit1"}, e \in BOOLEAN : wk' = [wk EXCEPT !.state = s, !.stderr = e]
  /\ UNCHANGED <<ws, src, env>>

\* Out of memory, or stopped by the signal of #fail() or abort().
WorkerKilled ==
  /\ wk.state = "running"
  /\ wk' = [wk EXCEPT !.state = "signal"]
  /\ UNCHANGED <<ws, src, env>>

----------------------------------------------------------------------------
\* Somebody changes a file of the runtime: no further session starts.  During a session
\* nothing looks at it.
RuntimeDrifts ==
  /\ ~env.drift /\ ws.pc \in {"none", "closed"}
  /\ env' = [env EXCEPT !.drift = TRUE]
  /\ UNCHANGED <<ws, wk, src>>

SessionStep ==
  NextFrame \/ Acknowledge \/ Finish \/ GuardRejects \/ AbortEnds \/ SessionFails

\* What the child and the source do once the session has failed or ended, nobody looks
\* at: the guard wins every race, and #fail() returns at once.
WorkerStep ==
  /\ Live /\ ~ws.guard
  /\ \/ WorkerSends \/ WorkerRefuses \/ WorkerExits \/ RogueWorker \/ WorkerKilled
     \/ SourceFed \/ SourceChecked \/ SourceFails
=============================================================================
