-------------------------- MODULE PackageStageProofs --------------------------
(***************************************************************************)
(* Proofs about the package stage, for any archive, any set of transcripts *)
(* a child may claim, any limits and any number of artifacts.              *)
(*                                                                         *)
(* The parent never believes a child.  What carries the proofs is that a   *)
(* session of a child that keeps to the protocol can succeed only with the *)
(* archive's own transcript (TrustedSession), and that both jobs compare   *)
(* two sessions: one honest child is enough.  Around it, the step a job is *)
(* at says what is durable and what is still at work.                      *)
(***************************************************************************)
EXTENDS PackageStage, FiniteSetTheorems, WellFoundedInduction, TLAPS

Fields(r, F) == DOMAIN r = F /\ r = [x \in F |-> r[x]]

SessionFields == {"pc", "pass", "at", "got", "index", "offset", "whole", "guard", "expect", "result"}
WorkerFields  == {"state", "rogue", "out", "sent", "waits", "stderr"}
FileStates    == {"none", "partial", "dirtied", "whole", "spoiled", "touched", "replaced", "gone"}

EnvType       == [aborted : BOOLEAN, drift : BOOLEAN, reading : 0..Artifacts,
                  files : [0..Artifacts -> FileStates]]

InspectionPasses == {"pass_a", "pass_a_manifest"}
SinkCalls        == {"entry_start", "body_chunk", "entry_end"}
Positions        == {"transcript", "manifest_start", "manifest_chunk", "manifest_end",
                     "entry_start", "body_chunk", "entry_end", "complete", "end"}

\* A session that has neither ended nor not begun.
Open == ws.pc \notin {"none", "closed"}

FrameTypes == {"transcript", "manifest_start", "manifest_chunk", "manifest_end", "complete", "error"}

\* What an inspecting child that keeps to the protocol may have sent.
InspectionFrames ==
  {f \in [type : FrameTypes, index : Nat, offset : Int, bytes : Int, good : BOOLEAN,
          claim : {Archive, <<>>}] : f.type = "transcript" => f.claim = Archive}

SessionTypes ==
  /\ Fields(ws, SessionFields) /\ Fields(wk, WorkerFields)
  /\ wk.sent \in Nat /\ wk.rogue \in BOOLEAN
  /\ env \in EnvType
  /\ ws.pc \in {"none", "read", "ack", "drain", "abort", "closed"} \cup SinkCalls
  /\ Open => ws.at \in Positions /\ ws.pass \in InspectionPasses \cup {"pass_b"}

\* Where a session stands says what it can read next.
SessionSteps ==
  /\ ~Open => wk.state # "running"
  /\ ws.pc = "read" => ws.at # "end"
  /\ ws.pc = "drain" => ws.at = "end"
  /\ Open /\ ws.at = "transcript" => ws.pass \in InspectionPasses

\* An honest inspection: after its transcript the session has the archive's.
HonestInspection ==
  Open /\ ~wk.rogue /\ ws.pass \in InspectionPasses =>
    /\ wk.out \in Seq(InspectionFrames)
    /\ ws.at # "transcript" /\ ws.expect = "success" => ws.got = Archive

\* An honest second pass over another transcript than the archive's sends nothing but
\* its refusal.
HonestRefusal ==
  Open /\ ~wk.rogue /\ ws.pass = "pass_b" /\ ws.got # Archive =>
    /\ wk.out \in Seq({ERROR})
    /\ ws.at \in {"entry_start", "end"}
    /\ ws.at = "end" => ws.expect = "failure"

SessionInv == SessionTypes /\ SessionSteps /\ HonestInspection /\ HonestRefusal

\* The session of an honest child, while it runs and when it has ended.
TrustedSession ==
  IF ws.pc = "closed" THEN ws.result = "ok" => ws.got = Archive ELSE ~wk.rogue

-----------------------------------------------------------------------------
MaterializerTypes ==
  /\ Fields(mt, {"pc", "state", "transcript", "verified", "honest"})
  /\ Fields(writer, {"open", "bytes", "good", "seen", "aborted"})
  /\ Fields(disk, {"root", "tree", "seal", "temp", "meddled"})
  /\ mt.verified \in BOOLEAN /\ mt.honest \in BOOLEAN
  /\ mt.pc \in {"inspect", "passA", "root", "passB", "writing", "finish", "verify", "commit",
                "seal", "linked", "ready", "done", "failed", "crashed"}

\* The events that are durable at each step.
AuditInv ==
  /\ mt.pc \in {"inspect", "passA"} => audit = <<>>
  /\ mt.pc \in {"root", "passB", "writing", "finish", "verify", "commit"} =>
       audit = <<"materialization_started">>
  /\ mt.pc \in {"seal", "linked", "ready"} =>
       audit = <<"materialization_started", "ready_to_commit">>
  /\ mt.pc = "done" => audit = AUDIT_EVENTS

\* The tree was verified, and is changed afterwards by somebody else only.
TreeInv ==
  /\ mt.verified => mt.pc \in {"commit", "seal", "linked", "ready", "done", "failed", "crashed"}
  /\ mt.pc \in {"commit", "seal", "linked", "ready", "done"} => mt.verified
  /\ mt.verified /\ disk.meddled # "late" => TreeMatches(mt.transcript)

SealInv ==
  /\ disk.seal = "ours" =>
       /\ mt.pc \in {"linked", "ready", "done", "failed", "crashed"}
       /\ mt.verified /\ Len(audit) >= 2
       /\ mt.honest => mt.transcript = Archive
  /\ mt.pc \in {"linked", "ready", "done"} => disk.seal = "ours"
  /\ mt.pc \in {"ready", "done"} => ~disk.temp

\* One of the two children is enough.
HonestInv ==
  /\ mt.pc = "passA" => Open \/ ws.pc = "closed"
  /\ mt.pc = "writing" => (Open \/ ws.pc = "closed") /\ ws.got = mt.transcript
  /\ mt.pc = "passA" /\ Open => ws.pass \in InspectionPasses
  /\ mt.pc = "writing" /\ Open => ws.pass = "pass_b"
  /\ mt.pc = "passA" /\ mt.honest => TrustedSession
  /\ mt.pc = "writing" /\ mt.honest /\ mt.transcript # Archive => TrustedSession
  /\ mt.pc \in {"root", "passB", "finish", "verify", "commit", "seal", "linked", "ready", "done"} =>
       (mt.honest => mt.transcript = Archive)

\* The session and the open file belong to a pass.
QuietInv ==
  /\ Open => mt.pc \in {"passA", "writing"}
  /\ mt.pc \in {"verify", "commit", "seal", "linked", "ready", "done", "failed", "crashed"} =>
       writer.open = 0

NoDownload == (\A i \in 1..Artifacts : env.files[i] = "none") /\ report.state = "none"

MaterializerInv ==
  /\ MaterializerTypes /\ AuditInv /\ TreeInv /\ SealInv /\ HonestInv /\ QuietInv
  /\ NoDownload

-----------------------------------------------------------------------------
Downloads   == {"approve", "download", "fetch", "unwind"}
Inspections == {"first", "inspecting1", "second", "inspecting2"}

EventNames ==
  {"authorized", "download_started", "integrity_verified", "pass_a_verified",
   "second_pass_a_verified", "cleanup_complete", "acceptance_complete", "acceptance_incomplete"}

AccFields == {"pc", "n", "first", "accepted", "honest", "meddled"}

SecondPasses(ev) == {k \in 1..Len(ev) : ev[k] = "second_pass_a_verified"}

AcceptanceTypes ==
  /\ Fields(acc, AccFields)
  /\ Fields(report, {"state", "cleanup", "code"})
  /\ acc.pc \in Downloads \cup Inspections \cup {"cleanup", "catch", "complete", "incomplete"}
  /\ acc.n \in 1..Artifacts
  /\ \E T : acc.accepted \in Seq(T)
  /\ acc.honest \in SUBSET (1..Artifacts)
  /\ events \in Seq(EventNames)
  /\ report.cleanup \in BOOLEAN

\* What is downloaded, and what the error will say of it.
FileInv ==
  /\ acc.pc \in {"approve", "download"} => \A i \in acc.n..Artifacts : env.files[i] = "none"
  /\ acc.pc = "approve" => acc.n = 1
  /\ acc.pc \in {"fetch", "unwind"} => \A i \in (acc.n + 1)..Artifacts : env.files[i] = "none"
  /\ acc.pc = "unwind" => \/ report.code = "artifact_cleanup_incomplete"
                          \/ env.files[acc.n] \in {"none", "gone"}
  /\ acc.pc = "complete" => \A i \in 1..Artifacts : env.files[i] = "gone"
  /\ acc.pc = "incomplete" =>
       \/ \A i \in 1..Artifacts : env.files[i] \in {"none", "gone"}
       \/ ~report.cleanup /\ report.code # "artifact_file_invalid"
  /\ report.state = "ACCEPTANCE_COMPLETE" => acc.pc = "complete"

\* One artifact after the other, each counted once.
CountInv ==
  /\ acc.pc \in Downloads => Len(acc.accepted) = 0 /\ acc.honest = {}
  /\ acc.pc \in Inspections => Len(acc.accepted) = acc.n - 1
  /\ acc.pc \in {"cleanup", "complete"} => Len(acc.accepted) = Artifacts
  /\ acc.pc \in Downloads \cup Inspections \cup {"cleanup", "complete"} =>
       Cardinality(SecondPasses(events)) = Len(acc.accepted)

\* One of the two children of an artifact is enough.
PairInv ==
  /\ acc.pc \in {"first", "cleanup", "complete"} => acc.honest \subseteq 1..Len(acc.accepted)
  /\ acc.pc \in {"inspecting1", "second", "inspecting2"} =>
       acc.honest \subseteq 1..(Len(acc.accepted) + 1)
  /\ acc.pc \in Inspections \cup {"cleanup", "complete"} =>
       \A i \in acc.honest : i <= Len(acc.accepted) => acc.accepted[i] = Archive
  /\ acc.pc \in {"inspecting1", "inspecting2"} => Open \/ ws.pc = "closed"
  /\ acc.pc \in {"inspecting1", "inspecting2"} /\ Open => ws.pass \in InspectionPasses
  /\ acc.pc = "inspecting1" /\ acc.n \in acc.honest => TrustedSession
  /\ acc.pc = "second" /\ acc.n \in acc.honest => acc.first = Archive
  /\ acc.pc = "inspecting2" /\ acc.n \in acc.honest /\ acc.first # Archive => TrustedSession
  /\ Open => acc.pc \in {"inspecting1", "inspecting2"}

NoMaterialization == disk.seal = "none" /\ mt.pc = "inspect" /\ writer.open = 0

AcceptanceInv ==
  /\ AcceptanceTypes /\ FileInv /\ CountInv /\ PairInv
  /\ NoMaterialization

\* The inductive invariant.
IInv ==
  /\ SessionInv
  /\ job \in {"materialize", "accept"}
  /\ job = "materialize" => MaterializerInv
  /\ job = "accept" => AcceptanceInv

-----------------------------------------------------------------------------
(* Frames. *)

\* A body of any size is a whole number of chunks.
LEMMA ChunkCount ==
  ASSUME NEW size \in Nat, NEW c \in Nat \ {0}
  PROVE  (size + c - 1) \div c \in Nat
OBVIOUS

\* Sequences over a set.
LEMMA OneElement == ASSUME NEW S, NEW a \in S PROVE <<a>> \in Seq(S)
OBVIOUS

\* Two sequences, one after the other.
LEMMA Concatenation == ASSUME NEW S, NEW s \in Seq(S), NEW t \in Seq(S) PROVE s \o t \in Seq(S)
OBVIOUS

\* One element more.
LEMMA Appending == ASSUME NEW S, NEW s \in Seq(S), NEW a \in S PROVE Append(s, a) \in Seq(S)
OBVIOUS

\* What reading from the front leaves.
LEMMA HeadAndTail ==
  ASSUME NEW S, NEW s \in Seq(S), s # <<>> PROVE Head(s) \in S /\ Tail(s) \in Seq(S)
OBVIOUS

\* Sequences with the same elements are the same.
LEMMA SameSequence ==
  ASSUME NEW S, NEW s \in Seq(S), NEW t \in Seq(S), Len(s) = Len(t),
         \A i \in 1..Len(s) : s[i] = t[i]
  PROVE  s = t
OBVIOUS

\* A set of numbers has a least one.
LEMMA LeastNat ==
  ASSUME NEW I, I \subseteq Nat, I # {}
  PROVE  \E x \in I : \A y \in I : x <= y
<1> DEFINE R == {ss \in Nat \X Nat : ss[1] < ss[2]}
<1>1. OpToRel(<, Nat) = R
  BY DEF OpToRel
<1>2. IsWellFoundedOn(R, Nat)
  BY ONLY <1>1, NatLessThanWellFounded
<1> HIDE DEF R
<1>3. PICK x \in I : \A y \in I : ~(<<y, x>> \in R)
  BY <1>2, WFMin
<1>4. ASSUME NEW a \in Nat, NEW b \in Nat, a < b PROVE <<a, b>> \in R
  BY <1>4 DEF R
<1>5. \A y \in I : ~(y < x)
  BY <1>3, <1>4
<1>6. \A y \in I : x <= y
  BY <1>5
<1> QED
  BY <1>6

\* The manifest is an entry of the archive.
LEMMA ManifestEntry == ManifestIndex(Archive) \in 1..Len(Archive)
<1> DEFINE I == {i \in 1..Len(Archive) : Archive[i].path = ManifestPath}
<1>1. ManifestIndex(Archive) = IF I # {} THEN Min(I) ELSE 0
  BY DEF ManifestIndex, SelectInSeq
<1>2. I # {} /\ ManifestIndex(Archive) = Min(I)
  BY <1>1, ArchiveAssumption DEF HasManifest
<1>3. I \subseteq Nat
  BY ArchiveAssumption
<1>4. \E x \in I : \A y \in I : x <= y
  BY <1>2, <1>3, LeastNat
<1> QED
  BY <1>2, <1>4 DEF Min

\* The frames of a body claim no transcript.
LEMMA BodyFrames ==
  ASSUME NEW i \in 1..Len(Archive), NEW start \in FrameTypes, NEW chunk \in FrameTypes,
         NEW end \in FrameTypes, "transcript" \notin {start, chunk, end}
  PROVE  Body(Archive, i, start, chunk, end) \in Seq(InspectionFrames)
<1> DEFINE size == Archive[i].size
           n    == (size + ChunkBytes - 1) \div ChunkBytes
<1>1. size \in Nat /\ i \in Nat
  <2>1. Archive[i] \in Entry
    BY ArchiveAssumption
  <2> QED
    BY <2>1 DEF Entry
<1>2. n \in Nat
  BY <1>1, LimitsAssumption, ChunkCount
<1> HIDE DEF size
<1>3. ASSUME NEW o \in Int, NEW b \in Int, NEW type \in {start, chunk, end}
      PROVE  Frame(type, i, o, b, TRUE, <<>>) \in InspectionFrames
  BY <1>1 DEF Frame, InspectionFrames
<1>4. ASSUME NEW k \in 1..n
      PROVE  /\ (k - 1) * ChunkBytes \in Int
             /\ (IF k * ChunkBytes <= size THEN ChunkBytes ELSE size - (k - 1) * ChunkBytes) \in Int
  BY <1>1, <1>2, LimitsAssumption
<1>5. Chunks(chunk, i, size) \in [1..n -> InspectionFrames]
  BY <1>3, <1>4 DEF Chunks
<1> HIDE DEF n
<1>6. Chunks(chunk, i, size) \in Seq(InspectionFrames)
  BY <1>2, <1>5
<1>7. /\ Frame(start, i, 0, size, TRUE, <<>>) \in InspectionFrames
      /\ Frame(end, i, 0, size, TRUE, <<>>) \in InspectionFrames
  <2>1. 0 \in Int /\ size \in Int
    BY <1>1
  <2> QED
    BY <1>3, <2>1
<1>8. /\ <<Frame(start, i, 0, size, TRUE, <<>>)>> \in Seq(InspectionFrames)
      /\ <<Frame(end, i, 0, size, TRUE, <<>>)>> \in Seq(InspectionFrames)
  BY <1>7, OneElement
<1>9. <<Frame(start, i, 0, size, TRUE, <<>>)>> \o Chunks(chunk, i, size)
        \o <<Frame(end, i, 0, size, TRUE, <<>>)>> \in Seq(InspectionFrames)
  BY <1>6, <1>8, Concatenation
<1> QED
  BY <1>9 DEF Body, size

\* All that the script of an inspection sends is the archive's.
LEMMA ScriptFrames ==
  ASSUME NEW pass \in InspectionPasses
  PROVE  Script(pass, Archive) \in Seq(InspectionFrames)
<1>1. /\ Frame("transcript", 0, 0, 0, TRUE, Archive) \in InspectionFrames
      /\ Frame("complete", 0, 0, 0, TRUE, Archive) \in InspectionFrames
  BY DEF Frame, InspectionFrames, FrameTypes
<1>2. Body(Archive, ManifestIndex(Archive), "manifest_start", "manifest_chunk", "manifest_end")
        \in Seq(InspectionFrames)
  BY ManifestEntry, BodyFrames DEF FrameTypes
<1>3. /\ <<Frame("transcript", 0, 0, 0, TRUE, Archive)>> \in Seq(InspectionFrames)
      /\ <<Frame("complete", 0, 0, 0, TRUE, Archive)>> \in Seq(InspectionFrames)
  BY <1>1, OneElement
<1>4. CASE pass = "pass_a"
  <2>1. Script(pass, Archive) = <<Frame("transcript", 0, 0, 0, TRUE, Archive)>>
                                 \o <<Frame("complete", 0, 0, 0, TRUE, Archive)>>
    BY <1>4 DEF Script
  <2> QED
    BY <1>3, <2>1, Concatenation
<1>5. CASE pass = "pass_a_manifest"
  <2>1. Script(pass, Archive) =
          (<<Frame("transcript", 0, 0, 0, TRUE, Archive)>>
             \o Body(Archive, ManifestIndex(Archive), "manifest_start", "manifest_chunk", "manifest_end"))
            \o <<Frame("complete", 0, 0, 0, TRUE, Archive)>>
    BY <1>5 DEF Script
  <2> QED
    BY <1>2, <1>3, <2>1, Concatenation
<1> QED
  BY <1>4, <1>5 DEF InspectionPasses

\* The refusal of an archive claims nothing.
LEMMA ErrorFrame == ERROR \in InspectionFrames
BY DEF ERROR, Frame, InspectionFrames, FrameTypes

-----------------------------------------------------------------------------
(* The session. *)

\* What a valid frame does to the session: only a transcript changes what it has got,
\* and it waits for no second one.
LEMMA AdvanceEffect ==
  ASSUME SessionInv, ws.pc = "read", NEW f, NEW pc, NEW whole,
         f.type = "transcript" <=> ws.at = "transcript",
         ws' = [Advance(f) EXCEPT !.pc = pc, !.whole = whole]
  PROVE  /\ Fields(ws', SessionFields)
         /\ ws'.pc = pc /\ ws'.pass = ws.pass /\ ws'.expect = ws.expect
         /\ ws'.at \in Positions \ {"transcript"}
         /\ ws'.got = IF ws.at = "transcript" THEN f.claim ELSE ws.got
<1>1. /\ Fields(ws, SessionFields) /\ ws.at \in Positions \ {"end"}
      /\ ws.at = "transcript" => ws.pass \in InspectionPasses
  BY DEF SessionInv, SessionTypes, SessionSteps, Open
<1>2. CASE ws.at = "transcript"
  BY <1>1, <1>2 DEF Advance, Fields, SessionFields, Positions, InspectionPasses
<1>3. CASE ws.at \in {"manifest_start", "manifest_chunk", "manifest_end"}
  BY <1>1, <1>3 DEF Advance, Fields, SessionFields, Positions
<1>4. CASE ws.at \in {"entry_start", "body_chunk", "entry_end"}
  BY <1>1, <1>4 DEF Advance, Fields, SessionFields, Positions
<1>5. CASE ws.at = "complete"
  BY <1>1, <1>5 DEF Advance, Fields, SessionFields, Positions
<1> QED
  BY <1>1, <1>2, <1>3, <1>4, <1>5 DEF Positions

\* The catch block of a pass.
LEMMA ThrowEffect ==
  ASSUME Fields(ws, SessionFields), ws' = Throw(ws)
  PROVE  /\ Fields(ws', SessionFields)
         /\ ws'.pc = "abort" /\ ws'.pass = ws.pass /\ ws'.expect = ws.expect
         /\ ws'.at = ws.at /\ ws'.got = ws.got
BY DEF Throw, Fields, SessionFields

\* A rejected guard is all that #fail() changes.
LEMMA RejectedEffect ==
  ASSUME Fields(ws, SessionFields), ws' = Rejected
  PROVE  /\ Fields(ws', SessionFields)
         /\ ws'.pc = ws.pc /\ ws'.pass = ws.pass /\ ws'.expect = ws.expect
         /\ ws'.at = ws.at /\ ws'.got = ws.got /\ ws'.result = ws.result
BY DEF Rejected, Fields, SessionFields

\* What a step does to a session that may be open: none begins, none is forgotten, an
\* honest child's stays trusted, and pass B keeps the transcript it was given.
SessionMoved ==
  /\ SessionInv'
  /\ env'.files = env.files /\ env'.drift \in BOOLEAN
  /\ Open' => Open /\ ws'.pass = ws.pass
  /\ ws'.pc = "none" <=> ws.pc = "none"
  /\ ~Open \/ ws.pass = "pass_b" => ws'.got = ws.got
  /\ TrustedSession => TrustedSession'

USE DEF SinkCalls, EnvType

\* The parent reads on: the child is left alone, but for a frame taken from the pipe.
LEMMA ReadsOn ==
  ASSUME SessionInv, Open, UNCHANGED env,
         Fields(ws', SessionFields), Fields(wk', WorkerFields),
         wk'.sent = wk.sent, wk'.rogue = wk.rogue,
         wk'.out = wk.out \/ (wk.out # <<>> /\ wk'.out = Tail(wk.out)),
         ws'.pc \in {"read", "ack", "drain", "abort"} \cup SinkCalls,
         ws'.pc = "read" => ws'.at # "end",
         ws'.pc = "drain" => ws'.at = "end",
         ws'.pass = ws.pass, ws'.got = ws.got, ws'.at = ws.at, ws'.expect = ws.expect
  PROVE  SessionMoved
<1>1. SessionTypes' /\ SessionSteps'
  BY DEF SessionInv, SessionTypes, SessionSteps, Open
<1>2. ASSUME NEW S, wk.out \in Seq(S) PROVE wk'.out \in Seq(S)
  BY <1>2, HeadAndTail
<1>3. HonestInspection' /\ HonestRefusal'
  BY <1>2 DEF SessionInv, HonestInspection, HonestRefusal, Open
<1> QED
  BY <1>1, <1>3 DEF SessionMoved, SessionInv, SessionTypes, TrustedSession, Open

\* nextFrame(): the parent takes one frame, and is moved on by a valid one only.
LEMMA NextFrameMoves ==
  ASSUME SessionInv, NextFrame
  PROVE  SessionMoved
<1> DEFINE f == Head(wk.out)
<1>0. /\ Open /\ ws.pc = "read" /\ UNCHANGED env
      /\ Fields(ws, SessionFields) /\ Fields(wk, WorkerFields)
      /\ ws.at \in Positions \ {"end"} /\ ws.pass \in InspectionPasses \cup {"pass_b"}
      /\ ws.at = "transcript" => ws.pass \in InspectionPasses
  BY DEF NextFrame, Open, SessionInv, SessionTypes, SessionSteps
<1>1. CASE wk' = wk /\ ws' = Throw(ws)
  BY <1>0, <1>1, ThrowEffect, ReadsOn DEF SessionInv, SessionTypes
<1>2. CASE wk.out # <<>> /\ wk' = [wk EXCEPT !.out = Tail(@)]
  <2>1. /\ Fields(wk', WorkerFields) /\ wk'.sent = wk.sent /\ wk'.rogue = wk.rogue
        /\ wk'.out = Tail(wk.out)
    BY <1>0, <1>2 DEF Fields, WorkerFields
  <2>2. CASE ws' = Throw(ws)
    BY <1>0, <1>2, <2>1, <2>2, ThrowEffect, ReadsOn DEF SessionInv, SessionTypes
  <2>3. ASSUME NEW S, wk.out \in Seq(S) PROVE f \in S /\ wk'.out \in Seq(S)
    BY <1>2, <2>1, <2>3, HeadAndTail
  <2>4. ~wk.rogue /\ ws.pass \in InspectionPasses => f \in InspectionFrames /\ wk'.out \in Seq(InspectionFrames)
    BY <1>0, <2>3 DEF SessionInv, HonestInspection
  <2>5. ~wk.rogue /\ ws.pass = "pass_b" /\ ws.got # Archive =>
          f = ERROR /\ wk'.out \in Seq({ERROR}) /\ ws.at = "entry_start"
    BY <1>0, <2>3 DEF SessionInv, HonestRefusal
  <2> HIDE DEF f
  <2>6. ASSUME ws' = [ws EXCEPT !.pc = "ack", !.at = "end", !.expect = "failure"]
        PROVE  SessionMoved
    <3>1. /\ Fields(ws', SessionFields) /\ ws'.pc = "ack" /\ ws'.at = "end"
          /\ ws'.expect = "failure" /\ ws'.got = ws.got /\ ws'.pass = ws.pass
      BY <1>0, <2>6 DEF Fields, SessionFields
    <3>2. SessionTypes' /\ SessionSteps'
      BY <1>0, <2>1, <3>1 DEF SessionInv, SessionTypes, SessionSteps, Open, Positions
    <3>3. HonestInspection' /\ HonestRefusal'
      BY <1>0, <2>1, <2>4, <2>5, <3>1 DEF HonestInspection, HonestRefusal, Open
    <3> QED
      BY <1>0, <2>1, <3>1, <3>2, <3>3 DEF SessionMoved, SessionInv, SessionTypes, TrustedSession, Open
  <2>7. ASSUME NEW pc \in {"ack"} \cup SinkCalls, NEW whole, f.type = ws.at, f.type # "error",
               ws' = [Advance(f) EXCEPT !.pc = pc, !.whole = whole]
        PROVE  SessionMoved
    <3>1. /\ Fields(ws', SessionFields)
          /\ ws'.pc = pc /\ ws'.pass = ws.pass /\ ws'.expect = ws.expect
          /\ ws'.at \in Positions \ {"transcript"}
          /\ ws'.got = IF ws.at = "transcript" THEN f.claim ELSE ws.got
      BY <1>0, <2>7, AdvanceEffect
    <3>2. SessionTypes' /\ SessionSteps'
      BY <1>0, <2>1, <3>1 DEF SessionInv, SessionTypes, SessionSteps, Open
    <3>3. HonestInspection'
      <4>1. ~wk.rogue /\ ws.pass \in InspectionPasses /\ ws.at = "transcript" => f.claim = Archive
        BY <2>4, <2>7 DEF InspectionFrames
      <4> QED
        BY <1>0, <2>1, <2>4, <3>1, <4>1 DEF SessionInv, HonestInspection, Open
    <3>4. HonestRefusal'
      <4>1. ~wk.rogue /\ ws.pass = "pass_b" => ws.got = Archive
        BY <2>5, <2>7 DEF ERROR, Frame
      <4> QED
        BY <1>0, <2>1, <3>1, <4>1 DEF HonestRefusal, InspectionPasses
    <3> QED
      BY <1>0, <2>1, <3>1, <3>2, <3>3, <3>4
         DEF SessionMoved, SessionInv, SessionTypes, TrustedSession, Open, InspectionPasses
  <2>8. ASSUME FrameValid(f) PROVE f.type = ws.at /\ f.type # "error"
    BY <1>0, <2>8 DEF FrameValid, Positions
  <2>9. \/ ws' = Throw(ws)
        \/ ws' = [ws EXCEPT !.pc = "ack", !.at = "end", !.expect = "failure"]
        \/ /\ FrameValid(f)
           /\ ws' = [Advance(f) EXCEPT !.pc =
                        IF f.type \in {"entry_start", "body_chunk", "entry_end"} THEN f.type ELSE "ack",
                      !.whole = IF f.type = "body_chunk" THEN f.good ELSE @]
    BY <1>2 DEF NextFrame, f
  <2> QED
    BY <2>2, <2>6, <2>7, <2>8, <2>9
<1> QED
  BY <1>1, <1>2 DEF NextFrame

\* The session ends: what is left of it is its result, which is "ok" only after the
\* pass's last frame.
LEMMA ClosedMoves ==
  ASSUME SessionInv, Open, UNCHANGED env, NEW exit, exit # "running", NEW result,
         result = "ok" => ws.pc = "drain" /\ ws.expect = "success",
         Closed(exit, result)
  PROVE  SessionMoved
<1>1. /\ Fields(ws', SessionFields) /\ ws'.pc = "closed" /\ ws'.got = ws.got /\ ws'.result = result
      /\ Fields(wk', WorkerFields) /\ wk'.state = exit /\ wk'.sent = 0 /\ wk'.rogue \in BOOLEAN
  BY DEF Closed, NoSession, NoWorker, Fields, SessionFields, WorkerFields
<1>2. SessionTypes' /\ SessionSteps' /\ HonestInspection' /\ HonestRefusal'
  <2>1. ~Open'
    BY <1>1 DEF Open
  <2>2. SessionTypes'
    BY <1>1, <2>1 DEF SessionInv, SessionTypes
  <2> QED
    BY <1>1, <2>1, <2>2 DEF SessionSteps, HonestInspection, HonestRefusal
<1>3. ~wk.rogue /\ result = "ok" => ws.got = Archive
  BY DEF SessionInv, SessionTypes, SessionSteps, HonestInspection, HonestRefusal, Open
<1> QED
  BY <1>1, <1>2, <1>3 DEF SessionMoved, SessionInv, SessionTypes, TrustedSession, Open

\* Every step of the parent.
LEMMA SessionStepMoves ==
  ASSUME SessionInv, SessionStep
  PROVE  SessionMoved /\ Open
<1>0. Fields(ws, SessionFields) /\ Fields(wk, WorkerFields)
  BY DEF SessionInv, SessionTypes
<1>1. CASE NextFrame
  BY <1>1, NextFrameMoves DEF NextFrame, Open
<1>2. CASE Acknowledge
  <2>1. Open /\ UNCHANGED env
    BY <1>2 DEF Acknowledge, Open
  <2>2. CASE wk' = wk /\ ws' = Throw(ws)
    BY <1>0, <2>1, <2>2, ThrowEffect, ReadsOn
  <2>3. CASE /\ ws' = [ws EXCEPT !.pc = IF ws.at = "end" THEN "drain" ELSE "read"]
             /\ wk' = [wk EXCEPT !.waits = FALSE]
    <3>1. /\ Fields(ws', SessionFields) /\ ws'.pc = IF ws.at = "end" THEN "drain" ELSE "read"
          /\ ws'.pass = ws.pass /\ ws'.got = ws.got /\ ws'.at = ws.at /\ ws'.expect = ws.expect
          /\ Fields(wk', WorkerFields) /\ wk'.sent = wk.sent /\ wk'.rogue = wk.rogue
          /\ wk'.out = wk.out
      BY <1>0, <2>3 DEF Fields, SessionFields, WorkerFields
    <3> QED
      BY <2>1, <3>1, ReadsOn
  <2> QED
    BY <1>2, <2>1, <2>2, <2>3 DEF Acknowledge
<1>3. CASE Finish
  <2>1. Open /\ UNCHANGED env /\ ws.pc = "drain" /\ wk.state # "running"
    BY <1>3 DEF Finish, Open, Exited
  <2>2. CASE UNCHANGED <<wk, src>> /\ ws' = Throw(ws)
    BY <1>0, <2>1, <2>2, ThrowEffect, ReadsOn
  <2>3. CASE Closed(wk.state, IF ws.expect = "success" THEN "ok" ELSE "failed")
    BY <2>1, <2>3, ClosedMoves
  <2> QED
    BY <1>3, <2>1, <2>2, <2>3 DEF Finish
<1>4. CASE GuardRejects
  <2>1. Open /\ UNCHANGED <<wk, env>> /\ ws' = Throw(ws)
    BY <1>4 DEF GuardRejects, Open
  <2> QED
    BY <1>0, <2>1, ThrowEffect, ReadsOn
<1>5. CASE AbortEnds
  <2>1. Open /\ UNCHANGED env /\ Closed(IF wk.state = "running" THEN "signal" ELSE wk.state, "failed")
    BY <1>5 DEF AbortEnds, Open
  <2> QED
    BY <2>1, ClosedMoves
<1>6. CASE SessionFails
  <2>1. Open /\ UNCHANGED <<wk, env>> /\ ws' = Rejected
    BY <1>6 DEF SessionFails, Live, Open
  <2>2. /\ ws.pc \in {"read", "ack", "drain", "abort"} \cup SinkCalls
        /\ ws.pc = "read" => ws.at # "end"
        /\ ws.pc = "drain" => ws.at = "end"
    BY <2>1 DEF SessionInv, SessionTypes, SessionSteps, Open
  <2> QED
    BY <1>0, <2>1, <2>2, RejectedEffect, ReadsOn
<1> QED
  BY <1>1, <1>2, <1>3, <1>4, <1>5, <1>6 DEF SessionStep

\* The guard of the session is all that changes, whether a session is open or not.
LEMMA OnlyRejected ==
  ASSUME SessionInv, UNCHANGED wk, ws' \in {ws, Rejected},
         env' \in EnvType
  PROVE  /\ SessionInv'
         /\ env'.files = env.files => SessionMoved
<1>1. /\ Fields(ws', SessionFields)
      /\ ws'.pc = ws.pc /\ ws'.pass = ws.pass /\ ws'.expect = ws.expect
      /\ ws'.at = ws.at /\ ws'.got = ws.got /\ ws'.result = ws.result
  BY RejectedEffect DEF SessionInv, SessionTypes
<1>2. SessionTypes' /\ SessionSteps'
  BY <1>1 DEF SessionInv, SessionTypes, SessionSteps, Open
<1>3. HonestInspection' /\ HonestRefusal'
  BY <1>1 DEF SessionInv, HonestInspection, HonestRefusal, Open
<1>4. SessionInv'
  BY <1>2, <1>3 DEF SessionInv
<1>5. TrustedSession => TrustedSession'
  BY <1>1 DEF TrustedSession
<1>6. env'.drift \in BOOLEAN
  OBVIOUS
<1> QED
  BY <1>1, <1>4, <1>5, <1>6 DEF SessionMoved, Open

\* The child's pipe, its exit code or its acknowledgements: an honest child sends only
\* what the script or its refusal allows.
LEMMA ChildMoves ==
  ASSUME SessionInv, Open, UNCHANGED <<ws, env>>,
         Fields(wk', WorkerFields), wk'.sent \in Nat, wk'.rogue = wk.rogue,
         \/ wk.rogue
         \/ wk'.out = wk.out
         \/ wk'.out = Append(wk.out, ERROR)
         \/ /\ \E f \in InspectionFrames : wk'.out = Append(wk.out, f)
            /\ ws.pass # "pass_b"
         \/ ws.pass = "pass_b" /\ ws.got = Archive
  PROVE  SessionMoved
<1>1. SessionTypes' /\ SessionSteps'
  BY DEF SessionInv, SessionTypes, SessionSteps, Open
<1>2. HonestInspection'
  <2>1. SUFFICES ASSUME Open, ~wk.rogue, ws.pass \in InspectionPasses
                 PROVE  wk'.out \in Seq(InspectionFrames)
    BY DEF SessionInv, HonestInspection, Open
  <2>2. wk.out \in Seq(InspectionFrames)
    BY <2>1 DEF SessionInv, HonestInspection
  <2>3. wk'.out = wk.out \/ \E f \in InspectionFrames : wk'.out = Append(wk.out, f)
    BY <2>1, ErrorFrame DEF InspectionPasses
  <2> QED
    BY <2>2, <2>3, Appending
<1>3. HonestRefusal'
  <2>1. SUFFICES ASSUME Open, ~wk.rogue, ws.pass = "pass_b", ws.got # Archive
                 PROVE  wk'.out \in Seq({ERROR})
    BY DEF SessionInv, HonestRefusal, Open
  <2>2. wk.out \in Seq({ERROR})
    BY <2>1 DEF SessionInv, HonestRefusal
  <2>3. wk'.out = wk.out \/ wk'.out = Append(wk.out, ERROR)
    BY <2>1
  <2> QED
    BY <2>2, <2>3, Appending
<1> QED
  BY <1>1, <1>2, <1>3 DEF SessionMoved, SessionInv, SessionTypes, TrustedSession, Open

\* Every step of the child and of the source.
LEMMA WorkerStepMoves ==
  ASSUME SessionInv, WorkerStep
  PROVE  SessionMoved
<1>0. /\ Open /\ Fields(wk, WorkerFields) /\ wk.sent \in Nat
      /\ ws.pass \in InspectionPasses \cup {"pass_b"}
      /\ env \in EnvType
  BY DEF WorkerStep, Live, Open, SessionInv, SessionTypes
<1>1. CASE WorkerSends
  <2> DEFINE f == Script(ws.pass, Archive)[wk.sent + 1]
  <2>1. /\ Fields(wk', WorkerFields) /\ wk'.sent = wk.sent + 1 /\ wk'.rogue = wk.rogue
        /\ wk'.out = Append(wk.out, f) /\ UNCHANGED <<ws, env>>
    BY <1>0, <1>1 DEF WorkerSends, Fields, WorkerFields
  <2>2. ws.pass \in InspectionPasses => f \in InspectionFrames
    BY <1>0, <1>1, ScriptFrames DEF WorkerSends
  <2>3. ws.pass = "pass_b" => ws.got = Archive
    BY <1>1 DEF WorkerSends
  <2>4. wk.sent + 1 \in Nat
    BY <1>0
  <2> HIDE DEF f
  <2> QED
    BY <1>0, <2>1, <2>2, <2>3, <2>4, ChildMoves DEF InspectionPasses
<1>2. CASE WorkerRefuses
  <2>1. /\ Fields(wk', WorkerFields) /\ wk'.sent = wk.sent /\ wk'.rogue = wk.rogue
        /\ wk'.out = Append(wk.out, ERROR) /\ UNCHANGED <<ws, env>>
    BY <1>0, <1>2 DEF WorkerRefuses, Fields, WorkerFields
  <2> QED
    BY <1>0, <2>1, ChildMoves
<1>3. CASE WorkerExits \/ WorkerKilled
  <2>1. /\ Fields(wk', WorkerFields) /\ wk'.sent = wk.sent /\ wk'.rogue = wk.rogue
        /\ wk'.out = wk.out /\ UNCHANGED <<ws, env>>
    BY <1>0, <1>3 DEF WorkerExits, WorkerKilled, Fields, WorkerFields
  <2> QED
    BY <1>0, <2>1, ChildMoves
<1>4. CASE RogueWorker
  <2>1. /\ Fields(wk', WorkerFields) /\ wk'.sent = wk.sent /\ wk'.rogue = wk.rogue
        /\ wk.rogue /\ UNCHANGED <<ws, env>>
    BY <1>0, <1>4 DEF RogueWorker, Fields, WorkerFields
  <2> QED
    BY <1>0, <2>1, ChildMoves
<1>5. CASE SourceFed \/ SourceChecked \/ SourceFails
  <2>1. UNCHANGED <<wk, env>> /\ ws' \in {ws, Rejected}
    BY <1>5 DEF SourceFed, SourceChecked, SourceFails
  <2> QED
    BY <1>0, <2>1, OnlyRejected
<1> QED
  BY <1>1, <1>2, <1>3, <1>4, <1>5 DEF WorkerStep

\* The caller's signal and the runtime's files.
LEMMA OutsideMoves ==
  ASSUME SessionInv, CallerAborts \/ RuntimeDrifts
  PROVE  SessionMoved
<1>1. /\ UNCHANGED wk /\ ws' \in {ws, Rejected} /\ env'.files = env.files
      /\ env' \in EnvType
  BY DEF CallerAborts, RuntimeDrifts, SessionInv, SessionTypes
<1> QED
  BY <1>1, OnlyRejected

\* The sink's answers to pass B.
LEMMA SinkMoves ==
  ASSUME SessionInv, ws.pc \in SinkCalls, UNCHANGED <<wk, env>>,
         ws' = [ws EXCEPT !.pc = "ack"] \/ ws' = Throw(ws)
  PROVE  SessionMoved /\ Open
<1>0. Open /\ Fields(ws, SessionFields) /\ Fields(wk, WorkerFields)
  BY DEF Open, SessionInv, SessionTypes
<1>1. /\ Fields(ws', SessionFields) /\ ws'.pc \in {"ack", "abort"}
      /\ ws'.pass = ws.pass /\ ws'.got = ws.got /\ ws'.at = ws.at /\ ws'.expect = ws.expect
  BY <1>0 DEF Throw, Fields, SessionFields
<1> QED
  BY <1>0, <1>1, ReadsOn

\* #spawn().
LEMMA SpawnedEffect ==
  ASSUME SessionInv, NEW pass \in InspectionPasses \cup {"pass_b"}, NEW t, NEW rogue \in BOOLEAN,
         NEW file \in 0..Artifacts, Spawned(pass, t, rogue, file)
  PROVE  /\ SessionInv' /\ Open' /\ env'.files = env.files
         /\ ws'.pass = pass /\ ws'.got = t /\ ws'.pc = "read" /\ wk'.rogue = rogue
<1>1. /\ Fields(ws', SessionFields) /\ ws'.pc = "read" /\ ws'.pass = pass /\ ws'.got = t
      /\ ws'.at = IF pass = "pass_b" THEN "entry_start" ELSE "transcript"
      /\ Fields(wk', WorkerFields) /\ wk'.state = "running" /\ wk'.rogue = rogue /\ wk'.sent = 0
      /\ wk'.out = <<>>
  BY DEF Spawned, NoSession, NoWorker, Fields, SessionFields, WorkerFields
<1>2. /\ env'.files = env.files
      /\ env' \in EnvType
  BY DEF Spawned, SessionInv, SessionTypes
<1>3. SessionTypes'
  BY <1>1, <1>2 DEF SessionTypes, Open, Positions
<1>4. SessionSteps'
  BY <1>1 DEF SessionSteps, Open
<1>5. HonestInspection' /\ HonestRefusal'
  BY <1>1 DEF HonestInspection, HonestRefusal, InspectionPasses
<1> QED
  BY <1>1, <1>2, <1>3, <1>4, <1>5 DEF SessionInv, Open

-----------------------------------------------------------------------------
(* The materialization. *)

\* The three events, one after the other.
LEMMA Events ==
  /\ Append(<<>>, "materialization_started") = <<"materialization_started">>
  /\ Append(<<"materialization_started">>, "ready_to_commit")
       = <<"materialization_started", "ready_to_commit">>
  /\ Append(<<"materialization_started", "ready_to_commit">>, "ready") = AUDIT_EVENTS
<1>1. ASSUME NEW a PROVE Append(<<>>, a) = <<a>>
  OBVIOUS
<1>2. ASSUME NEW a, NEW b PROVE Append(<<a>>, b) = <<a, b>>
  <2>1. <<a, b>> \in Seq({a, b}) /\ Append(<<a>>, b) \in Seq({a, b})
    OBVIOUS
  <2>2. Len(Append(<<a>>, b)) = 2 /\ \A i \in 1..2 : Append(<<a>>, b)[i] = <<a, b>>[i]
    OBVIOUS
  <2> QED
    BY <2>1, <2>2, SameSequence
<1>3. ASSUME NEW a, NEW b, NEW c PROVE Append(<<a, b>>, c) = <<a, b, c>>
  <2>1. <<a, b, c>> \in Seq({a, b, c}) /\ Append(<<a, b>>, c) \in Seq({a, b, c})
    OBVIOUS
  <2>2. Len(Append(<<a, b>>, c)) = 3 /\ \A i \in 1..3 : Append(<<a, b>>, c)[i] = <<a, b, c>>[i]
    OBVIOUS
  <2> QED
    BY <2>1, <2>2, SameSequence
<1> QED
  BY <1>1, <1>2, <1>3, Zenon DEF AUDIT_EVENTS

\* The catch block of materialize(): the materialization fails, its writer is aborted.
LEMMA CaughtEffect ==
  ASSUME MaterializerTypes, Caught
  PROVE  /\ Fields(mt', {"pc", "state", "transcript", "verified", "honest"})
         /\ Fields(writer', {"open", "bytes", "good", "seen", "aborted"})
         /\ mt'.pc = "failed" /\ mt'.transcript = mt.transcript
         /\ mt'.verified = mt.verified /\ mt'.honest = mt.honest
         /\ writer'.open = 0
BY DEF Caught, MaterializerTypes, Fields

\* The catch block: what is on the disk and in the audit stays as it is, but for an event
\* whose record may have become durable and a temporary file.
LEMMA CaughtInv ==
  ASSUME MaterializerInv, ~Open', env'.files = env.files, UNCHANGED report, Caught,
         Fields(disk', {"root", "tree", "seal", "temp", "meddled"}),
         disk'.tree = disk.tree, disk'.seal = disk.seal, disk'.meddled = disk.meddled,
         \/ audit' = audit
         \/ mt.pc \in {"passA", "commit", "ready"} /\ \E event : audit' = Append(audit, event)
  PROVE  MaterializerInv'
<1>1. /\ Fields(mt', {"pc", "state", "transcript", "verified", "honest"})
      /\ Fields(writer', {"open", "bytes", "good", "seen", "aborted"})
      /\ mt'.pc = "failed" /\ mt'.transcript = mt.transcript
      /\ mt'.verified = mt.verified /\ mt'.honest = mt.honest
      /\ writer'.open = 0
  BY CaughtEffect DEF MaterializerInv
<1>2. MaterializerTypes' /\ AuditInv' /\ HonestInv' /\ QuietInv' /\ NoDownload'
  BY <1>1 DEF MaterializerInv, MaterializerTypes, AuditInv, HonestInv, QuietInv, NoDownload
<1>3. TreeInv'
  BY <1>1 DEF MaterializerInv, TreeInv, TreeMatches
<1>4. disk.seal = "ours" => Len(audit') >= 2
  <2>1. CASE audit' = audit
    BY <2>1 DEF MaterializerInv, SealInv
  <2>2. ASSUME NEW event, audit' = Append(audit, event), mt.pc = "ready" PROVE Len(audit') >= 2
    <3>1. audit = <<"materialization_started", "ready_to_commit">>
      BY <2>2 DEF MaterializerInv, AuditInv
    <3> QED
      BY <2>2, <3>1
  <2> QED
    BY <2>1, <2>2 DEF MaterializerInv, SealInv
<1>5. SealInv'
  BY <1>1, <1>4 DEF MaterializerInv, SealInv
<1> QED
  BY <1>2, <1>3, <1>5 DEF MaterializerInv

\* A pass begins.
LEMMA PassBegins ==
  ASSUME SessionInv, MaterializerInv, Inspect \/ Materialize, UNCHANGED report
  PROVE  SessionInv' /\ MaterializerInv'
<1>1. ASSUME NEW rogue \in BOOLEAN, NEW pass \in InspectionPasses \cup {"pass_b"}, NEW t,
             Spawned(pass, t, rogue, 0)
      PROVE  /\ SessionInv' /\ Open' /\ env'.files = env.files
             /\ ws'.pass = pass /\ ws'.got = t /\ ws'.pc = "read" /\ wk'.rogue = rogue
  BY <1>1, LimitsAssumption, SpawnedEffect
<1>2. CASE Inspect
  <2>1. PICK rogue \in BOOLEAN :
          /\ Spawned("pass_a", <<>>, rogue, 0)
          /\ mt' = [mt EXCEPT !.pc = "passA", !.state = "PASS_A_RUNNING", !.honest = ~rogue]
    BY <1>2 DEF Inspect
  <2>2. /\ SessionInv' /\ Open' /\ env'.files = env.files
        /\ ws'.pass = "pass_a" /\ ws'.pc = "read" /\ wk'.rogue = rogue
    BY <1>1, <2>1 DEF InspectionPasses
  <2>3. /\ Fields(mt', {"pc", "state", "transcript", "verified", "honest"})
        /\ mt'.pc = "passA" /\ mt'.verified = mt.verified /\ mt'.honest = ~rogue
        /\ mt'.transcript = mt.transcript /\ mt.pc = "inspect" /\ UNCHANGED <<writer, disk, audit>>
    BY <1>2, <2>1 DEF Inspect, MaterializerInv, MaterializerTypes, Fields
  <2>4. MaterializerTypes' /\ AuditInv' /\ TreeInv' /\ SealInv' /\ QuietInv' /\ NoDownload'
    BY <2>2, <2>3 DEF MaterializerInv, MaterializerTypes, AuditInv, TreeInv, SealInv, QuietInv, NoDownload
  <2>5. HonestInv'
    BY <2>2, <2>3 DEF HonestInv, TrustedSession, InspectionPasses
  <2> QED
    BY <2>2, <2>4, <2>5 DEF MaterializerInv
<1>3. CASE Materialize
  <2>1. PICK rogue \in BOOLEAN :
          /\ Spawned("pass_b", mt.transcript, rogue, 0)
          /\ mt' = [mt EXCEPT !.pc = "writing", !.state = "MATERIALIZING", !.honest = @ \/ ~rogue]
    BY <1>3 DEF Materialize
  <2>2. /\ SessionInv' /\ Open' /\ env'.files = env.files
        /\ ws'.pass = "pass_b" /\ ws'.got = mt.transcript /\ ws'.pc = "read" /\ wk'.rogue = rogue
    BY <1>1, <2>1
  <2>3. /\ Fields(mt', {"pc", "state", "transcript", "verified", "honest"})
        /\ mt'.pc = "writing" /\ mt'.verified = mt.verified /\ mt'.honest = (mt.honest \/ ~rogue)
        /\ mt'.transcript = mt.transcript /\ mt.pc = "passB" /\ UNCHANGED <<writer, disk, audit>>
    BY <1>3, <2>1 DEF Materialize, MaterializerInv, MaterializerTypes, Fields
  <2>4. MaterializerTypes' /\ AuditInv' /\ TreeInv' /\ SealInv' /\ QuietInv' /\ NoDownload'
    BY <2>2, <2>3 DEF MaterializerInv, MaterializerTypes, AuditInv, TreeInv, SealInv, QuietInv, NoDownload
  <2>5. mt.honest => mt.transcript = Archive
    BY <2>3 DEF MaterializerInv, HonestInv
  <2>6. HonestInv'
    BY <2>2, <2>3, <2>5 DEF HonestInv, TrustedSession, InspectionPasses
  <2> QED
    BY <2>2, <2>4, <2>6 DEF MaterializerInv
<1> QED
  BY <1>2, <1>3

\* The owner goes on between two passes, or after them: no session is open.
LEMMA BetweenPasses ==
  ASSUME SessionInv, MaterializerInv, mt.pc \notin {"passA", "writing"}
  PROVE  ~Open
BY DEF MaterializerInv, QuietInv

\* An unchanged session.
LEMMA SameSession ==
  ASSUME SessionInv, UNCHANGED workerVars
  PROVE  /\ SessionInv' /\ (Open' <=> Open) /\ env'.files = env.files
         /\ TrustedSession' <=> TrustedSession
BY DEF workerVars, SessionInv, SessionTypes, SessionSteps, HonestInspection, HonestRefusal, Open,
       TrustedSession

\* A step of the owner fails between two passes.
LEMMA OwnerFailsInv ==
  ASSUME SessionInv, MaterializerInv, OwnerFails, UNCHANGED report
  PROVE  SessionInv' /\ MaterializerInv'
<1>1. SessionInv' /\ ~Open' /\ env'.files = env.files
  BY SameSession, BetweenPasses DEF OwnerFails
<1>2. /\ Fields(disk', {"root", "tree", "seal", "temp", "meddled"})
      /\ disk'.tree = disk.tree /\ disk'.seal = disk.seal /\ disk'.meddled = disk.meddled
  BY DEF OwnerFails, MaterializerInv, MaterializerTypes, Fields
<1> QED
  BY <1>1, <1>2, CaughtInv DEF OwnerFails

\* The end of pass A: the transcript is what the session got.
LEMMA PassAEndsInv ==
  ASSUME SessionInv, MaterializerInv, PassAEnds, UNCHANGED report
  PROVE  SessionInv' /\ MaterializerInv'
<1>1. SessionInv' /\ ~Open' /\ ~Open /\ env'.files = env.files /\ mt.pc = "passA" /\ UNCHANGED disk
  BY SameSession DEF PassAEnds, Open
<1>2. CASE Caught /\ audit' \in {audit, Append(audit, "materialization_started")}
  BY <1>1, <1>2, CaughtInv DEF MaterializerInv, MaterializerTypes
<1>3. CASE /\ ws.result = "ok" /\ audit' = Append(audit, "materialization_started") /\ UNCHANGED writer
           /\ mt' = [mt EXCEPT !.pc = "root", !.state = "ARCHIVES_PREFLIGHTED", !.transcript = ws.got]
  <2>1. /\ Fields(mt', {"pc", "state", "transcript", "verified", "honest"})
        /\ mt'.pc = "root" /\ mt'.transcript = ws.got
        /\ mt'.verified = mt.verified /\ mt'.honest = mt.honest
    BY <1>3 DEF MaterializerInv, MaterializerTypes, Fields
  <2>2. audit' = <<"materialization_started">> /\ ~mt.verified /\ disk.seal # "ours"
    BY <1>1, <1>3, Events DEF MaterializerInv, AuditInv, TreeInv, SealInv
  <2>3. mt.honest => ws.got = Archive
    BY <1>1, <1>3 DEF MaterializerInv, HonestInv, PassAEnds, TrustedSession
  <2>4. MaterializerTypes' /\ AuditInv' /\ TreeInv' /\ SealInv' /\ QuietInv' /\ NoDownload'
    BY <1>1, <1>3, <2>1, <2>2
       DEF MaterializerInv, MaterializerTypes, AuditInv, TreeInv, SealInv, QuietInv, NoDownload
  <2>5. HonestInv'
    BY <2>1, <2>3 DEF HonestInv
  <2> QED
    BY <1>1, <2>4, <2>5 DEF MaterializerInv
<1> QED
  BY <1>2, <1>3 DEF PassAEnds, Records

\* The end of pass B: it was the transcript that was asked for.
LEMMA PassBEndsInv ==
  ASSUME SessionInv, MaterializerInv, PassBEnds, UNCHANGED report
  PROVE  SessionInv' /\ MaterializerInv'
<1>1. SessionInv' /\ ~Open' /\ ~Open /\ env'.files = env.files /\ mt.pc = "writing" /\ UNCHANGED <<disk, audit>>
  BY SameSession DEF PassBEnds, Open
<1>2. CASE Caught
  BY <1>1, <1>2, CaughtInv DEF MaterializerInv, MaterializerTypes
<1>3. CASE ws.result = "ok" /\ mt' = [mt EXCEPT !.pc = "finish"] /\ UNCHANGED writer
  <2>1. /\ Fields(mt', {"pc", "state", "transcript", "verified", "honest"})
        /\ mt'.pc = "finish" /\ mt'.transcript = mt.transcript
        /\ mt'.verified = mt.verified /\ mt'.honest = mt.honest
    BY <1>3 DEF MaterializerInv, MaterializerTypes, Fields
  <2>2. mt.honest => mt.transcript = Archive
    BY <1>1, <1>3 DEF MaterializerInv, HonestInv, PassBEnds, TrustedSession
  <2>3. MaterializerTypes' /\ AuditInv' /\ TreeInv' /\ SealInv' /\ QuietInv' /\ NoDownload'
    BY <1>1, <1>3, <2>1
       DEF MaterializerInv, MaterializerTypes, AuditInv, TreeInv, SealInv, QuietInv, NoDownload
  <2>4. HonestInv'
    BY <2>1, <2>2 DEF HonestInv
  <2> QED
    BY <1>1, <2>3, <2>4 DEF MaterializerInv
<1> QED
  BY <1>2, <1>3 DEF PassBEnds

\* A step of the owner alone: it moves on, and the disk changes under its hands.
LEMMA OwnerMoves ==
  ASSUME SessionInv, MaterializerInv, UNCHANGED workerVars, UNCHANGED <<report, writer>>,
         mt.pc \notin {"passA", "writing"}, mt'.pc \notin {"passA", "writing"},
         Fields(mt', {"pc", "state", "transcript", "verified", "honest"}),
         mt'.transcript = mt.transcript, mt'.honest = mt.honest, mt'.verified \in BOOLEAN
  PROVE  SessionInv' /\ ~Open' /\ NoDownload'
<1>1. SessionInv' /\ (Open' <=> Open) /\ env'.files = env.files
  BY SameSession
<1> QED
  BY <1>1, BetweenPasses DEF MaterializerInv, NoDownload

\* The root is created, or its creation fails.
LEMMA CreateRootInv ==
  ASSUME SessionInv, MaterializerInv, CreateRoot, UNCHANGED report
  PROVE  SessionInv' /\ MaterializerInv'
<1>1. /\ Fields(mt', {"pc", "state", "transcript", "verified", "honest"})
      /\ mt.pc = "root" /\ mt'.pc = "passB" /\ mt'.transcript = mt.transcript
      /\ mt'.verified = mt.verified /\ mt'.honest = mt.honest
      /\ Fields(disk', {"root", "tree", "seal", "temp", "meddled"})
      /\ disk'.tree = disk.tree /\ disk'.seal = disk.seal /\ disk'.meddled = disk.meddled
      /\ UNCHANGED workerVars /\ UNCHANGED <<writer, audit>>
  BY DEF CreateRoot, MaterializerInv, MaterializerTypes, Fields
<1>2. SessionInv' /\ ~Open' /\ NoDownload'
  BY <1>1, OwnerMoves DEF MaterializerInv, MaterializerTypes
<1>3. MaterializerTypes' /\ AuditInv' /\ TreeInv' /\ SealInv' /\ HonestInv' /\ QuietInv'
  BY <1>1, <1>2 DEF MaterializerInv, MaterializerTypes, AuditInv, TreeInv, SealInv, HonestInv, QuietInv
<1> QED
  BY <1>2, <1>3 DEF MaterializerInv

\* The writer is finished, or the finish fails.
LEMMA FinishWriterInv ==
  ASSUME SessionInv, MaterializerInv, FinishWriter, UNCHANGED report
  PROVE  SessionInv' /\ MaterializerInv'
<1>1. /\ Fields(mt', {"pc", "state", "transcript", "verified", "honest"})
      /\ mt.pc = "finish" /\ mt'.pc = "verify" /\ mt'.transcript = mt.transcript
      /\ mt'.verified = mt.verified /\ mt'.honest = mt.honest
      /\ Fields(disk', {"root", "tree", "seal", "temp", "meddled"})
      /\ disk'.seal = disk.seal /\ disk'.meddled = disk.meddled
      /\ UNCHANGED workerVars /\ UNCHANGED <<writer, audit>> /\ writer.open = 0
  BY DEF FinishWriter, MaterializerInv, MaterializerTypes, Fields
<1>2. SessionInv' /\ ~Open' /\ NoDownload'
  BY <1>1, OwnerMoves DEF MaterializerInv, MaterializerTypes
<1>3. MaterializerTypes' /\ AuditInv' /\ TreeInv' /\ SealInv' /\ HonestInv' /\ QuietInv'
  BY <1>1, <1>2 DEF MaterializerInv, MaterializerTypes, AuditInv, TreeInv, SealInv, HonestInv, QuietInv
<1> QED
  BY <1>2, <1>3 DEF MaterializerInv

\* The tree is compared with the transcript before anything is committed.
LEMMA VerifyTreeInv ==
  ASSUME SessionInv, MaterializerInv, VerifyTree, UNCHANGED report
  PROVE  SessionInv' /\ MaterializerInv'
<1>1. /\ Fields(mt', {"pc", "state", "transcript", "verified", "honest"})
      /\ mt.pc = "verify" /\ mt'.pc = "commit" /\ mt'.transcript = mt.transcript
      /\ mt'.verified = TRUE /\ mt'.honest = mt.honest
      /\ UNCHANGED workerVars /\ UNCHANGED <<writer, disk, audit>> /\ TreeMatches(mt.transcript)
  BY DEF VerifyTree, MaterializerInv, MaterializerTypes, Fields
<1>2. SessionInv' /\ ~Open' /\ NoDownload'
  BY <1>1, OwnerMoves DEF MaterializerInv, MaterializerTypes
<1>3. TreeInv'
  BY <1>1 DEF TreeInv, TreeMatches
<1>4. MaterializerTypes' /\ AuditInv' /\ SealInv' /\ HonestInv' /\ QuietInv'
  BY <1>1, <1>2 DEF MaterializerInv, MaterializerTypes, AuditInv, SealInv, HonestInv, QuietInv
<1> QED
  BY <1>2, <1>3, <1>4 DEF MaterializerInv

\* The commit and the ready event are recorded, or the recorder throws.
LEMMA RecordsInv ==
  ASSUME SessionInv, MaterializerInv, RecordCommit \/ RecordReady, UNCHANGED report
  PROVE  SessionInv' /\ MaterializerInv'
<1>1. /\ mt.pc \in {"commit", "ready"} /\ UNCHANGED workerVars /\ UNCHANGED disk
      /\ SessionInv' /\ ~Open' /\ env'.files = env.files
  BY SameSession, BetweenPasses DEF RecordCommit, RecordReady
<1>2. CASE Caught /\ \E event : audit' \in {audit, Append(audit, event)}
  BY <1>1, <1>2, CaughtInv DEF MaterializerInv, MaterializerTypes
<1>3. ASSUME NEW pc, NEW event, audit' = Append(audit, event), UNCHANGED writer,
             \/ mt.pc = "commit" /\ pc = "seal" /\ event = "ready_to_commit"
             \/ mt.pc = "ready" /\ pc = "done" /\ event = "ready",
             Fields(mt', {"pc", "state", "transcript", "verified", "honest"}),
             mt'.pc = pc, mt'.transcript = mt.transcript, mt'.verified = mt.verified,
             mt'.honest = mt.honest
      PROVE  MaterializerInv'
  <2>1. AuditInv'
    BY <1>3, Events DEF MaterializerInv, AuditInv
  <2>2. NoDownload'
    BY <1>1, <1>3, OwnerMoves DEF MaterializerInv, MaterializerTypes
  <2>3. disk.seal = "ours" => Len(audit') >= 2
    BY <1>3, Events DEF MaterializerInv, SealInv, AuditInv, AUDIT_EVENTS
  <2>4. MaterializerTypes' /\ TreeInv' /\ SealInv' /\ HonestInv' /\ QuietInv'
    BY <1>1, <1>3, <2>3
       DEF MaterializerInv, MaterializerTypes, TreeInv, TreeMatches, SealInv, HonestInv, QuietInv
  <2> QED
    BY <2>1, <2>2, <2>4 DEF MaterializerInv
<1>4. ASSUME NEW pc, mt' = [mt EXCEPT !.pc = pc] \/ mt' = [mt EXCEPT !.pc = pc, !.state = "READY"]
      PROVE  /\ Fields(mt', {"pc", "state", "transcript", "verified", "honest"})
             /\ mt'.pc = pc /\ mt'.transcript = mt.transcript /\ mt'.verified = mt.verified
             /\ mt'.honest = mt.honest
  BY <1>4 DEF MaterializerInv, MaterializerTypes, Fields
<1>5. CASE RecordCommit
  <2>1. \/ Caught /\ \E event : audit' \in {audit, Append(audit, event)}
        \/ /\ audit' = Append(audit, "ready_to_commit") /\ UNCHANGED writer
           /\ mt.pc = "commit" /\ mt' = [mt EXCEPT !.pc = "seal"]
    BY <1>5 DEF RecordCommit, Records
  <2> QED
    BY <1>1, <1>2, <1>3, <1>4, <2>1
<1>6. CASE RecordReady
  <2>1. \/ Caught /\ \E event : audit' \in {audit, Append(audit, event)}
        \/ /\ audit' = Append(audit, "ready") /\ UNCHANGED writer
           /\ mt.pc = "ready" /\ mt' = [mt EXCEPT !.pc = "done", !.state = "READY"]
    BY <1>6 DEF RecordReady, Records
  <2> QED
    BY <1>1, <1>2, <1>3, <1>4, <2>1
<1> QED
  BY <1>5, <1>6

\* The two steps of publishSeal(): the link, and the removal of the first name.
LEMMA SealStepsInv ==
  ASSUME SessionInv, MaterializerInv, LinkSeal \/ SealPublished, UNCHANGED report
  PROVE  SessionInv' /\ MaterializerInv'
<1>1. /\ Fields(mt', {"pc", "state", "transcript", "verified", "honest"})
      /\ \/ mt.pc = "seal" /\ mt'.pc = "linked"
         \/ mt.pc = "linked" /\ mt'.pc = "ready" /\ disk'.temp = FALSE
      /\ mt'.transcript = mt.transcript /\ mt'.verified = mt.verified /\ mt'.honest = mt.honest
      /\ Fields(disk', {"root", "tree", "seal", "temp", "meddled"})
      /\ disk'.tree = disk.tree /\ disk'.meddled = disk.meddled
      /\ UNCHANGED workerVars /\ UNCHANGED <<writer, audit>>
  <2>1. CASE LinkSeal
    BY <2>1 DEF LinkSeal, MaterializerInv, MaterializerTypes, Fields
  <2>2. CASE SealPublished
    BY <2>2 DEF SealPublished, MaterializerInv, MaterializerTypes, Fields
  <2> QED
    BY <2>1, <2>2
<1>2. disk'.seal = "ours"
  BY DEF LinkSeal, SealPublished, MaterializerInv, MaterializerTypes, SealInv, Fields
<1>3. SessionInv' /\ ~Open' /\ NoDownload'
  BY <1>1, OwnerMoves DEF MaterializerInv, MaterializerTypes
<1>4. mt.verified /\ Len(audit) >= 2 /\ (mt.honest => mt.transcript = Archive)
  <2>1. mt.verified /\ (mt.honest => mt.transcript = Archive)
    BY <1>1 DEF MaterializerInv, TreeInv, HonestInv
  <2>2. audit = <<"materialization_started", "ready_to_commit">>
    BY <1>1 DEF MaterializerInv, AuditInv
  <2> QED
    BY <2>1, <2>2
<1>5. MaterializerTypes' /\ AuditInv' /\ HonestInv' /\ QuietInv'
  BY <1>1, <1>3 DEF MaterializerInv, MaterializerTypes, AuditInv, HonestInv, QuietInv
<1>6. SealInv'
  BY <1>1, <1>2, <1>4 DEF SealInv
<1>7. TreeInv'
  BY <1>1 DEF MaterializerInv, TreeInv, TreeMatches
<1> QED
  BY <1>3, <1>5, <1>6, <1>7 DEF MaterializerInv

\* The session moves while a pass goes on; before the tree is verified the writer and the
\* tree may change with it.
LEMMA PassGoesOn ==
  ASSUME MaterializerInv, SessionMoved, UNCHANGED <<report, mt, audit>>,
         Open => mt.pc \in {"passA", "writing"},
         Fields(writer', {"open", "bytes", "good", "seen", "aborted"}),
         Fields(disk', {"root", "tree", "seal", "temp", "meddled"}),
         disk'.seal = disk.seal, disk'.temp = disk.temp, disk'.meddled = disk.meddled,
         \/ writer' = writer /\ disk'.tree = disk.tree
         \/ mt.pc = "writing"
  PROVE  SessionInv' /\ MaterializerInv'
<1>1. MaterializerTypes' /\ AuditInv' /\ SealInv' /\ NoDownload'
  BY DEF MaterializerInv, MaterializerTypes, AuditInv, SealInv, NoDownload, SessionMoved
<1>2. QuietInv'
  BY DEF MaterializerInv, QuietInv, SessionMoved
<1>3. TreeInv'
  BY DEF MaterializerInv, TreeInv, TreeMatches
<1>4. HonestInv'
  BY DEF MaterializerInv, HonestInv, SessionMoved, Open, InspectionPasses
<1> QED
  BY <1>1, <1>2, <1>3, <1>4 DEF MaterializerInv, SessionMoved

\* The sink of pass B, which writes the tree.
LEMMA SinkInv ==
  ASSUME SessionInv, MaterializerInv, SinkStart \/ SinkWrite \/ SinkEnd \/ SinkFails, UNCHANGED report
  PROVE  SessionInv' /\ MaterializerInv'
<1>1. /\ mt.pc = "writing" /\ ws.pc \in SinkCalls /\ UNCHANGED <<wk, env, mt, audit>>
      /\ ws' = [ws EXCEPT !.pc = "ack"] \/ ws' = Throw(ws)
  BY DEF SinkStart, SinkWrite, SinkEnd, SinkFails, SinkActive, Sunk
<1>2. SessionMoved
  BY <1>1, SinkMoves
<1>3. Fields(writer', {"open", "bytes", "good", "seen", "aborted"})
  BY DEF SinkStart, SinkWrite, SinkEnd, SinkFails, MaterializerInv, MaterializerTypes, Fields
<1>4. /\ Fields(disk', {"root", "tree", "seal", "temp", "meddled"})
      /\ disk'.seal = disk.seal /\ disk'.temp = disk.temp /\ disk'.meddled = disk.meddled
  BY DEF SinkStart, SinkWrite, SinkEnd, SinkFails, MaterializerInv, MaterializerTypes, Fields
<1> QED
  BY <1>1, <1>2, <1>3, <1>4, PassGoesOn

\* A step of the session of a pass.
LEMMA PassInv ==
  ASSUME SessionInv, MaterializerInv, SessionStep, WriterFollows, UNCHANGED <<mt, disk, audit, report>>
  PROVE  SessionInv' /\ MaterializerInv'
<1>1. SessionMoved /\ Open
  BY SessionStepMoves
<1>2. /\ Fields(writer', {"open", "bytes", "good", "seen", "aborted"})
      /\ mt.pc # "writing" => writer' = writer
  BY DEF WriterFollows, MaterializerInv, MaterializerTypes, Fields
<1> QED
  BY <1>1, <1>2, PassGoesOn DEF MaterializerInv, MaterializerTypes, QuietInv

\* Another process of the user: after the verification it can only be late.
LEMMA InterfereInv ==
  ASSUME SessionInv, MaterializerInv, Interfere, UNCHANGED report
  PROVE  SessionInv' /\ MaterializerInv'
<1>1. /\ UNCHANGED workerVars /\ UNCHANGED <<mt, writer, audit>>
      /\ Fields(disk', {"root", "tree", "seal", "temp", "meddled"})
      /\ disk'.meddled = IF mt.verified THEN "late" ELSE "early"
      /\ disk'.temp = disk.temp
      /\ disk'.seal = disk.seal \/ (disk.seal = "none" /\ disk'.seal = "foreign")
  BY DEF Interfere, MaterializerInv, MaterializerTypes, Fields
<1>2. /\ SessionInv' /\ (Open' <=> Open) /\ env'.files = env.files
      /\ TrustedSession' <=> TrustedSession
      /\ ws' = ws
  BY <1>1, SameSession DEF workerVars
<1>3. MaterializerTypes' /\ AuditInv' /\ TreeInv' /\ SealInv' /\ QuietInv' /\ NoDownload'
  BY <1>1, <1>2
     DEF MaterializerInv, MaterializerTypes, AuditInv, TreeInv, SealInv, QuietInv, NoDownload
<1>4. HonestInv'
  BY <1>1, <1>2 DEF MaterializerInv, HonestInv
<1> QED
  BY <1>2, <1>3, <1>4 DEF MaterializerInv

\* The owner's death: what is on the disk stays.
LEMMA CrashInv ==
  ASSUME SessionInv, MaterializerInv, Crash, UNCHANGED report
  PROVE  SessionInv' /\ MaterializerInv'
<1>1. /\ Fields(mt', {"pc", "state", "transcript", "verified", "honest"})
      /\ mt'.pc = "crashed" /\ mt'.transcript = mt.transcript
      /\ mt'.verified = mt.verified /\ mt'.honest = mt.honest /\ UNCHANGED <<disk, audit, env>>
  BY DEF Crash, MaterializerInv, MaterializerTypes, Fields
<1>2. /\ Fields(ws', SessionFields) /\ ws'.pc = "none"
      /\ Fields(wk', WorkerFields) /\ wk'.state = "none" /\ wk'.sent = 0 /\ wk'.rogue \in BOOLEAN
      /\ Fields(writer', {"open", "bytes", "good", "seen", "aborted"}) /\ writer'.open = 0
  BY DEF Crash, NoSession, NoWorker, NoWriter, Fields, SessionFields, WorkerFields
<1>3. ~Open'
  BY <1>2 DEF Open
<1>4. SessionInv'
  <2>1. SessionTypes'
    BY <1>1, <1>2, <1>3 DEF SessionInv, SessionTypes
  <2> QED
    BY <1>2, <1>3, <2>1 DEF SessionInv, SessionSteps, HonestInspection, HonestRefusal
<1>5. MaterializerTypes' /\ AuditInv' /\ SealInv' /\ QuietInv' /\ NoDownload' /\ HonestInv'
  BY <1>1, <1>2, <1>3
     DEF MaterializerInv, MaterializerTypes, AuditInv, SealInv, QuietInv, NoDownload, HonestInv
<1>6. TreeInv'
  BY <1>1 DEF MaterializerInv, TreeInv, TreeMatches
<1> QED
  BY <1>4, <1>5, <1>6 DEF MaterializerInv

\* Every step of a materialization.
LEMMA MaterializerStepsInv ==
  ASSUME SessionInv, MaterializerInv, MaterializerStep \/ MaterializerEnvironment, UNCHANGED report
  PROVE  SessionInv' /\ MaterializerInv'
<1>1. CASE MaterializerStep
  BY <1>1, OwnerFailsInv, PassBegins, PassAEndsInv, CreateRootInv, SinkInv, PassBEndsInv,
     FinishWriterInv, VerifyTreeInv, RecordsInv, SealStepsInv, PassInv DEF MaterializerStep
<1>2. CASE Interfere \/ Crash
  BY <1>2, InterfereInv, CrashInv
<1>3. CASE (WorkerStep \/ CallerAborts \/ RuntimeDrifts) /\ UNCHANGED materializerVars
  <2>1. SessionMoved /\ UNCHANGED <<mt, writer, disk, audit>>
    BY <1>3, WorkerStepMoves, OutsideMoves DEF materializerVars
  <2> QED
    BY <2>1, PassGoesOn DEF MaterializerInv, MaterializerTypes, QuietInv
<1> QED
  BY <1>1, <1>2, <1>3 DEF MaterializerEnvironment

-----------------------------------------------------------------------------
(* The acceptance run. *)

\* Counting the second inspections of a history that grows by one event.
LEMMA CountAppend ==
  ASSUME NEW ev \in Seq(EventNames), NEW e \in EventNames
  PROVE  /\ Append(ev, e) \in Seq(EventNames)
         /\ Cardinality(SecondPasses(ev)) \in Nat
         /\ Cardinality(SecondPasses(Append(ev, e))) =
              Cardinality(SecondPasses(ev)) + (IF e = "second_pass_a_verified" THEN 1 ELSE 0)
<1>0. Append(ev, e) \in Seq(EventNames) /\ Len(ev) \in Nat /\ Len(Append(ev, e)) = Len(ev) + 1
  OBVIOUS
<1>1. IsFiniteSet(SecondPasses(ev))
  <2>1. IsFiniteSet(1..Len(ev))
    BY <1>0, FS_Interval
  <2> QED
    BY <2>1, FS_Subset DEF SecondPasses
<1>2. Cardinality(SecondPasses(ev)) \in Nat
  BY <1>1, FS_CardinalityType
<1>3. \A k \in 1..Len(ev) : Append(ev, e)[k] = ev[k]
  OBVIOUS
<1>4. Append(ev, e)[Len(ev) + 1] = e
  OBVIOUS
<1>5. CASE e = "second_pass_a_verified"
  <2>1. SecondPasses(Append(ev, e)) = SecondPasses(ev) \cup {Len(ev) + 1}
    BY <1>0, <1>3, <1>4, <1>5 DEF SecondPasses
  <2>2. Len(ev) + 1 \notin SecondPasses(ev)
    BY <1>0 DEF SecondPasses
  <2>3. Cardinality(SecondPasses(ev) \cup {Len(ev) + 1}) = Cardinality(SecondPasses(ev)) + 1
    BY <1>1, <2>2, FS_AddElement
  <2> QED
    BY <1>0, <1>2, <1>5, <2>1, <2>3
<1>6. CASE e # "second_pass_a_verified"
  <2>1. SecondPasses(Append(ev, e)) = SecondPasses(ev)
    BY <1>0, <1>3, <1>4, <1>6 DEF SecondPasses
  <2> QED
    BY <1>0, <1>2, <1>6, <2>1
<1> QED
  BY <1>5, <1>6

\* The last events count nothing.
LEMMA CountLast ==
  ASSUME NEW ev \in Seq(EventNames), NEW tail \in Seq(EventNames),
         \A k \in 1..Len(tail) : tail[k] # "second_pass_a_verified"
  PROVE  ev \o tail \in Seq(EventNames) /\ SecondPasses(ev \o tail) = SecondPasses(ev)
<1>1. /\ ev \o tail \in Seq(EventNames) /\ Len(ev \o tail) = Len(ev) + Len(tail)
      /\ Len(ev) \in Nat /\ Len(tail) \in Nat
  OBVIOUS
<1>2. \A k \in 1..Len(ev) : (ev \o tail)[k] = ev[k]
  OBVIOUS
<1>3. ASSUME NEW k \in 1..(Len(ev) + Len(tail)), k \notin 1..Len(ev)
      PROVE  (ev \o tail)[k] # "second_pass_a_verified"
  <2>1. k - Len(ev) \in 1..Len(tail) /\ (ev \o tail)[k] = tail[k - Len(ev)]
    BY <1>1, <1>3
  <2> QED
    BY <2>1
<1> QED
  BY <1>1, <1>2, <1>3 DEF SecondPasses

\* What an element more does to a sequence.
LEMMA OneMore ==
  ASSUME NEW T, NEW s \in Seq(T), NEW e
  PROVE  /\ Append(s, e) \in Seq(T \cup {e}) /\ Len(Append(s, e)) = Len(s) + 1 /\ Len(s) \in Nat
         /\ \A i \in 1..Len(s) : Append(s, e)[i] = s[i]
         /\ Append(s, e)[Len(s) + 1] = e
<1>1. s \in Seq(T \cup {e}) /\ e \in T \cup {e}
  OBVIOUS
<1> QED
  BY <1>1

\* One file changes.
LEMMA FileEffect ==
  ASSUME SessionInv, NEW n \in 1..Artifacts, NEW state \in FileStates, env' = File(n, state)
  PROVE  /\ env' \in EnvType
         /\ \A i \in 0..Artifacts : env'.files[i] = IF i = n THEN state ELSE env.files[i]
BY LimitsAssumption DEF SessionInv, SessionTypes, File, EnvType

\* A prefix of the files is removed.
LEMMA RemovedEffect ==
  ASSUME SessionInv, NEW k, env' = Removed(k)
  PROVE  /\ env' \in EnvType
         /\ \A i \in 0..Artifacts : env'.files[i] = IF i \in 1..k THEN "gone" ELSE env.files[i]
BY LimitsAssumption DEF SessionInv, SessionTypes, Removed, EnvType, FileStates

\* A session that is not touched.
LEMMA FilesOnly ==
  ASSUME SessionInv, UNCHANGED <<ws, wk>>, env' \in EnvType
  PROVE  SessionInv' /\ (Open' <=> Open) /\ (TrustedSession' <=> TrustedSession)
<1>1. SessionInv'
  BY OnlyRejected DEF EnvType
<1> QED
  BY <1>1 DEF Open, TrustedSession

\* The end without evidence.
LEMMA IncompleteInv ==
  ASSUME SessionInv, AcceptanceInv, ~Open, UNCHANGED <<ws, wk, disk, mt, writer>>, env' \in EnvType,
         NEW cleanup \in BOOLEAN, NEW code, Incomplete(cleanup, code),
         \/ \A i \in 1..Artifacts : env'.files[i] \in {"none", "gone"}
         \/ ~cleanup /\ code # "artifact_file_invalid"
  PROVE  SessionInv' /\ AcceptanceInv'
<1>1. SessionInv' /\ ~Open'
  BY FilesOnly
<1>2. /\ Fields(acc', AccFields) /\ acc'.pc = "incomplete" /\ acc'.n = acc.n
      /\ acc'.accepted = acc.accepted /\ acc'.honest = acc.honest
      /\ Fields(report', {"state", "cleanup", "code"}) /\ report'.cleanup = cleanup
      /\ report'.code = code /\ report'.state = "ACCEPTANCE_INCOMPLETE_QUARANTINE"
  BY DEF Incomplete, AcceptanceInv, AcceptanceTypes, Fields, AccFields
<1>3. events' \in Seq(EventNames)
  <2> DEFINE cleaned == IF cleanup THEN <<"cleanup_complete">> ELSE <<>>
  <2>1. cleaned \in Seq(EventNames)
    <3>1. <<"cleanup_complete">> \in Seq(EventNames)
      BY OneElement DEF EventNames
    <3>2. <<>> \in Seq(EventNames)
      OBVIOUS
    <3> QED
      BY <3>1, <3>2
  <2>2. <<"acceptance_incomplete">> \in Seq(EventNames)
    BY OneElement DEF EventNames
  <2>3. events \in Seq(EventNames) /\ events' = (events \o cleaned) \o <<"acceptance_incomplete">>
    BY DEF Incomplete, AcceptanceInv, AcceptanceTypes
  <2> HIDE DEF cleaned
  <2> QED
    BY <2>1, <2>2, <2>3, Concatenation
<1>4. AcceptanceTypes'
  BY <1>2, <1>3 DEF AcceptanceInv, AcceptanceTypes, AccFields
<1>5. FileInv' /\ CountInv' /\ PairInv' /\ NoMaterialization'
  BY <1>1, <1>2
     DEF AcceptanceInv, FileInv, CountInv, PairInv, NoMaterialization, Downloads, Inspections
<1> QED
  BY <1>1, <1>4, <1>5 DEF AcceptanceInv


\* The approval is consumed, or the run ends before it has a file.
LEMMA ConsumeApprovalInv ==
  ASSUME SessionInv, AcceptanceInv, ConsumeApproval, UNCHANGED <<disk, mt, writer>>
  PROVE  SessionInv' /\ AcceptanceInv'
<1>0. /\ acc.pc = "approve" /\ ~Open /\ UNCHANGED <<ws, wk, env>> /\ env \in EnvType
      /\ \A i \in 1..Artifacts : env.files[i] = "none"
  BY DEF ConsumeApproval, workerVars, SessionInv, SessionTypes, AcceptanceInv, PairInv, FileInv
<1>1. CASE Incomplete(FALSE, "artifact_approval_invalid")
  BY <1>0, <1>1, IncompleteInv
<1>2. CASE acc' = [acc EXCEPT !.pc = "download"] /\ UNCHANGED <<events, report>>
  <2>1. SessionInv' /\ (Open' <=> Open)
    BY <1>0, FilesOnly
  <2>2. /\ Fields(acc', AccFields) /\ acc'.pc = "download" /\ acc'.n = acc.n
        /\ acc'.accepted = acc.accepted /\ acc'.honest = acc.honest
    BY <1>2 DEF AcceptanceInv, AcceptanceTypes, Fields, AccFields
  <2>3. AcceptanceTypes' /\ FileInv' /\ CountInv' /\ PairInv' /\ NoMaterialization'
    BY <1>0, <1>2, <2>1, <2>2
       DEF AcceptanceInv, AcceptanceTypes, FileInv, CountInv, PairInv, NoMaterialization,
           Downloads, Inspections
  <2> QED
    BY <2>1, <2>3 DEF AcceptanceInv
<1> QED
  BY <1>1, <1>2 DEF ConsumeApproval

\* The next artifact's file is created.
LEMMA CreateFileInv ==
  ASSUME SessionInv, AcceptanceInv, CreateFile, UNCHANGED <<disk, mt, writer>>
  PROVE  SessionInv' /\ AcceptanceInv'
<1>0. /\ acc.pc = "download" /\ UNCHANGED <<ws, wk, events, report>> /\ acc.n \in 1..Artifacts
      /\ env' = File(acc.n, "partial") /\ acc' = [acc EXCEPT !.pc = "fetch"]
  BY DEF CreateFile, AcceptanceInv, AcceptanceTypes
<1>1. /\ env' \in EnvType
      /\ \A i \in 0..Artifacts : env'.files[i] = IF i = acc.n THEN "partial" ELSE env.files[i]
  BY <1>0, FileEffect DEF FileStates
<1>2. SessionInv' /\ (Open' <=> Open)
  BY <1>0, <1>1, FilesOnly
<1>3. /\ Fields(acc', AccFields) /\ acc'.pc = "fetch" /\ acc'.n = acc.n
      /\ acc'.accepted = acc.accepted /\ acc'.honest = acc.honest
  BY <1>0 DEF AcceptanceInv, AcceptanceTypes, Fields, AccFields
<1>4. AcceptanceTypes' /\ CountInv' /\ PairInv' /\ NoMaterialization'
  BY <1>0, <1>2, <1>3
     DEF AcceptanceInv, AcceptanceTypes, CountInv, PairInv, NoMaterialization, Downloads, Inspections
<1>5. FileInv'
  <2>1. \A i \in (acc.n + 1)..Artifacts : env'.files[i] = "none"
    BY <1>0, <1>1, LimitsAssumption DEF AcceptanceInv, FileInv
  <2> QED
    BY <1>0, <1>3, <2>1 DEF AcceptanceInv, FileInv
<1> QED
  BY <1>2, <1>4, <1>5 DEF AcceptanceInv

\* A download is complete: the next one, or the first inspection.
LEMMA FetchEndsInv ==
  ASSUME SessionInv, AcceptanceInv, FetchEnds, UNCHANGED <<disk, mt, writer>>
  PROVE  SessionInv' /\ AcceptanceInv'
<1>0. acc.pc = "fetch" /\ UNCHANGED <<ws, wk, report>> /\ acc.n \in 1..Artifacts
  BY DEF FetchEnds, AcceptanceInv, AcceptanceTypes
<1>1. /\ env' \in EnvType
      /\ \A i \in 0..Artifacts : i # acc.n => env'.files[i] = env.files[i]
  BY <1>0, FileEffect DEF FileStates, FetchEnds
<1>2. SessionInv' /\ (Open' <=> Open)
  BY <1>0, <1>1, FilesOnly
<1>3. CASE acc.n < Artifacts
  <2>1. /\ Fields(acc', AccFields) /\ acc'.pc = "download" /\ acc'.n = acc.n + 1
        /\ acc'.accepted = acc.accepted /\ acc'.honest = acc.honest /\ events' = events
    BY <1>3 DEF FetchEnds, AcceptanceInv, AcceptanceTypes, Fields, AccFields
  <2>2. AcceptanceTypes' /\ CountInv' /\ PairInv' /\ NoMaterialization'
    BY <1>0, <1>2, <1>3, <2>1, LimitsAssumption
       DEF AcceptanceInv, AcceptanceTypes, CountInv, PairInv, NoMaterialization, Downloads, Inspections
  <2>3. FileInv'
    BY <1>0, <1>1, <1>3, <2>1, LimitsAssumption DEF AcceptanceInv, FileInv
  <2> QED
    BY <1>2, <2>2, <2>3 DEF AcceptanceInv
<1>4. CASE ~(acc.n < Artifacts)
  <2>1. /\ Fields(acc', AccFields) /\ acc'.pc = "first" /\ acc'.n = 1
        /\ acc'.accepted = acc.accepted /\ acc'.honest = acc.honest
        /\ events' = Append(events, "integrity_verified")
    BY <1>4 DEF FetchEnds, AcceptanceInv, AcceptanceTypes, Fields, AccFields
  <2>2. events' \in Seq(EventNames) /\ Cardinality(SecondPasses(events')) = Cardinality(SecondPasses(events))
    BY <2>1, CountAppend DEF AcceptanceInv, AcceptanceTypes, EventNames
  <2>3. AcceptanceTypes' /\ FileInv' /\ CountInv' /\ PairInv' /\ NoMaterialization'
    BY <1>0, <1>2, <2>1, <2>2, LimitsAssumption
       DEF AcceptanceInv, AcceptanceTypes, FileInv, CountInv, PairInv, NoMaterialization,
           Downloads, Inspections
  <2> QED
    BY <1>2, <2>3 DEF AcceptanceInv
<1> QED
  BY <1>3, <1>4

\* A download fails: its own file is removed, or the error says that it is left.
LEMMA DownloadFailsInv ==
  ASSUME SessionInv, AcceptanceInv, DownloadFails, UNCHANGED <<disk, mt, writer>>
  PROVE  SessionInv' /\ AcceptanceInv'
<1>0. /\ acc.pc \in {"download", "fetch"} /\ UNCHANGED <<ws, wk, events>> /\ acc.n \in 1..Artifacts
      /\ acc' = [acc EXCEPT !.pc = "unwind"] /\ env \in EnvType
  BY DEF DownloadFails, AcceptanceInv, AcceptanceTypes, SessionInv, SessionTypes
<1>1. /\ env' \in EnvType
      /\ \A i \in 0..Artifacts : i # acc.n => env'.files[i] = env.files[i]
      /\ report'.code = "artifact_cleanup_incomplete" \/ env'.files[acc.n] \in {"none", "gone"}
  <2>1. CASE acc.pc = "download" /\ env' = env
    BY <1>0, <2>1 DEF AcceptanceInv, FileInv
  <2>2. CASE env' = File(acc.n, "gone")
    BY <1>0, <2>2, FileEffect DEF FileStates
  <2>3. CASE env' = env /\ report' = [report EXCEPT !.code = "artifact_cleanup_incomplete"]
    BY <1>0, <2>3 DEF AcceptanceInv, AcceptanceTypes, Fields
  <2> QED
    BY <2>1, <2>2, <2>3 DEF DownloadFails
<1>2. SessionInv' /\ (Open' <=> Open)
  BY <1>0, <1>1, FilesOnly
<1>3. /\ Fields(acc', AccFields) /\ acc'.pc = "unwind" /\ acc'.n = acc.n
      /\ acc'.accepted = acc.accepted /\ acc'.honest = acc.honest
  BY <1>0 DEF AcceptanceInv, AcceptanceTypes, Fields, AccFields
<1>4. /\ Fields(report', {"state", "cleanup", "code"})
      /\ report'.state = report.state /\ report'.cleanup = report.cleanup
  BY DEF DownloadFails, AcceptanceInv, AcceptanceTypes, Fields
<1>5. AcceptanceTypes' /\ CountInv' /\ PairInv' /\ NoMaterialization'
  BY <1>0, <1>2, <1>3, <1>4
     DEF AcceptanceInv, AcceptanceTypes, CountInv, PairInv, NoMaterialization, Downloads, Inspections
<1>6. FileInv'
  <2>1. \A i \in (acc.n + 1)..Artifacts : env.files[i] = "none"
    BY <1>0, LimitsAssumption DEF AcceptanceInv, FileInv
  <2>2. \A i \in (acc'.n + 1)..Artifacts : env'.files[i] = "none"
    BY <1>0, <1>1, <1>3, <2>1, LimitsAssumption
  <2> QED
    BY <1>0, <1>1, <1>3, <1>4, <2>2 DEF AcceptanceInv, FileInv
<1> QED
  BY <1>2, <1>5, <1>6 DEF AcceptanceInv

\* The finished downloads are removed; what is left is in the error.
LEMMA UnwindDownloadInv ==
  ASSUME SessionInv, AcceptanceInv, UnwindDownload, UNCHANGED <<disk, mt, writer>>
  PROVE  SessionInv' /\ AcceptanceInv'
<1>0. /\ acc.pc = "unwind" /\ ~Open /\ UNCHANGED <<ws, wk>> /\ acc.n \in 1..Artifacts /\ env \in EnvType
      /\ \A i \in (acc.n + 1)..Artifacts : env.files[i] = "none"
      /\ report.code = "artifact_cleanup_incomplete" \/ env.files[acc.n] \in {"none", "gone"}
  BY DEF UnwindDownload, AcceptanceInv, AcceptanceTypes, PairInv, FileInv, SessionInv, SessionTypes
<1>1. CASE UNCHANGED env /\ Incomplete(FALSE, DownloadCode(TRUE))
  BY <1>0, <1>1, IncompleteInv DEF DownloadCode
<1>2. ASSUME NEW k \in CleanupOutcomes(acc.n - 1), env' = Removed(k),
             Incomplete(FALSE, DownloadCode(k < acc.n - 1))
      PROVE  SessionInv' /\ AcceptanceInv'
  <2>1. k \in 0..(acc.n - 1)
    BY DEF CleanupOutcomes
  <2>2. /\ env' \in EnvType
        /\ \A i \in 0..Artifacts : env'.files[i] = IF i \in 1..k THEN "gone" ELSE env.files[i]
    BY <1>2, RemovedEffect
  <2>3. CASE k < acc.n - 1
    BY <1>0, <1>2, <2>2, <2>3, IncompleteInv DEF DownloadCode
  <2>4. CASE k = acc.n - 1
    <3>1. DownloadCode(k < acc.n - 1) = report.code
      BY <1>0, <2>4 DEF DownloadCode
    <3>2. \/ \A i \in 1..Artifacts : env'.files[i] \in {"none", "gone"}
          \/ report.code # "artifact_file_invalid"
      BY <1>0, <2>2, <2>4, LimitsAssumption
    <3> QED
      BY <1>0, <1>2, <2>2, <3>1, <3>2, IncompleteInv
  <2> QED
    BY <1>0, <2>1, <2>3, <2>4, LimitsAssumption
<1> QED
  BY <1>1, <1>2 DEF UnwindDownload


\* A new inspection begins; an honest child makes the artifact's pair honest.
LEMMA StartInspectionInv ==
  ASSUME SessionInv, AcceptanceInv, StartInspection, UNCHANGED <<disk, mt, writer>>
  PROVE  SessionInv' /\ AcceptanceInv'
<1>0. /\ acc.pc \in {"first", "second"} /\ UNCHANGED <<events, report>> /\ acc.n \in 1..Artifacts
      /\ Len(acc.accepted) = acc.n - 1
  BY DEF StartInspection, AcceptanceInv, AcceptanceTypes, CountInv, Inspections
<1>1. PICK rogue \in BOOLEAN :
        /\ Spawned("pass_a_manifest", <<>>, rogue, acc.n)
        /\ acc' = [acc EXCEPT !.pc = IF @ = "first" THEN "inspecting1" ELSE "inspecting2",
                              !.honest = IF rogue THEN @ ELSE @ \cup {acc.n}]
  BY DEF StartInspection
<1>2. /\ SessionInv' /\ Open' /\ ws'.pass = "pass_a_manifest" /\ env'.files = env.files
      /\ ~rogue => TrustedSession'
  <2>1. acc.n \in 0..Artifacts /\ "pass_a_manifest" \in InspectionPasses \cup {"pass_b"}
    BY <1>0, LimitsAssumption DEF InspectionPasses
  <2>2. /\ SessionInv' /\ Open' /\ env'.files = env.files
        /\ ws'.pass = "pass_a_manifest" /\ ws'.pc = "read" /\ wk'.rogue = rogue
    BY <1>1, <2>1, SpawnedEffect
  <2> QED
    BY <2>2 DEF TrustedSession
<1>3. /\ Fields(acc', AccFields) /\ acc'.n = acc.n /\ acc'.accepted = acc.accepted
      /\ acc'.first = acc.first
      /\ acc'.pc = IF acc.pc = "first" THEN "inspecting1" ELSE "inspecting2"
      /\ acc'.honest = IF rogue THEN acc.honest ELSE acc.honest \cup {acc.n}
  BY <1>1 DEF AcceptanceInv, AcceptanceTypes, Fields, AccFields
<1>4. AcceptanceTypes' /\ FileInv' /\ NoMaterialization'
  BY <1>0, <1>2, <1>3
     DEF AcceptanceInv, AcceptanceTypes, FileInv, NoMaterialization, Inspections
<1>5. CountInv'
  BY <1>0, <1>3 DEF AcceptanceInv, CountInv, Downloads, Inspections
<1>6. PairInv'
  <2>1. acc'.honest \subseteq 1..(Len(acc'.accepted) + 1)
    BY <1>0, <1>3, LimitsAssumption DEF AcceptanceInv, PairInv
  <2>2. \A i \in acc'.honest : i <= Len(acc'.accepted) => acc'.accepted[i] = Archive
    BY <1>0, <1>3, LimitsAssumption DEF AcceptanceInv, PairInv, Inspections
  <2>3. acc.pc = "first" /\ acc.n \in acc'.honest => ~rogue
    BY <1>0, <1>3, LimitsAssumption DEF AcceptanceInv, PairInv
  <2>4. acc.pc = "second" /\ acc.n \in acc'.honest => ~rogue \/ acc.first = Archive
    BY <1>0, <1>3 DEF AcceptanceInv, PairInv
  <2> QED
    BY <1>0, <1>2, <1>3, <2>1, <2>2, <2>3, <2>4 DEF PairInv, InspectionPasses
<1> QED
  BY <1>2, <1>4, <1>5, <1>6 DEF AcceptanceInv

\* The first inspection's transcript is kept for the second one.
LEMMA FirstInspectedInv ==
  ASSUME SessionInv, AcceptanceInv, FirstInspected, UNCHANGED <<disk, mt, writer>>
  PROVE  SessionInv' /\ AcceptanceInv'
<1>0. /\ acc.pc = "inspecting1" /\ ws.pc = "closed" /\ ws.result = "ok" /\ UNCHANGED <<ws, wk, env, report>>
      /\ env \in EnvType /\ events \in Seq(EventNames)
  BY DEF FirstInspected, workerVars, SessionInv, SessionTypes, AcceptanceInv, AcceptanceTypes
<1>1. SessionInv' /\ ~Open' /\ ~Open
  BY <1>0, FilesOnly DEF Open
<1>2. /\ Fields(acc', AccFields) /\ acc'.n = acc.n /\ acc'.accepted = acc.accepted
      /\ acc'.first = ws.got /\ acc'.pc = "second" /\ acc'.honest = acc.honest
      /\ events' = Append(events, "pass_a_verified")
  BY DEF FirstInspected, AcceptanceInv, AcceptanceTypes, Fields, AccFields
<1>3. events' \in Seq(EventNames) /\ Cardinality(SecondPasses(events')) = Cardinality(SecondPasses(events))
  BY <1>0, <1>2, CountAppend DEF EventNames
<1>4. AcceptanceTypes' /\ FileInv' /\ NoMaterialization'
  BY <1>0, <1>2, <1>3
     DEF AcceptanceInv, AcceptanceTypes, FileInv, NoMaterialization, Inspections
<1>5. CountInv'
  BY <1>0, <1>2, <1>3 DEF AcceptanceInv, CountInv, Downloads, Inspections
<1>6. PairInv'
  <2>1. acc.n \in acc.honest => ws.got = Archive
    BY <1>0 DEF AcceptanceInv, PairInv, TrustedSession
  <2> QED
    BY <1>0, <1>1, <1>2, <2>1 DEF AcceptanceInv, PairInv, Inspections
<1> QED
  BY <1>1, <1>4, <1>5, <1>6 DEF AcceptanceInv

\* Two inspections agree: the artifact is accepted, unless its manifest is refused.
LEMMA SecondInspectedInv ==
  ASSUME SessionInv, AcceptanceInv, SecondInspected, UNCHANGED <<disk, mt, writer>>
  PROVE  SessionInv' /\ AcceptanceInv'
<1>0. /\ acc.pc = "inspecting2" /\ ws.pc = "closed" /\ ws.result = "ok" /\ UNCHANGED <<ws, wk, env, report>>
      /\ ws.got = acc.first /\ env \in EnvType /\ events \in Seq(EventNames)
      /\ acc.n \in 1..Artifacts /\ Len(acc.accepted) = acc.n - 1
  BY DEF SecondInspected, SameInspection, workerVars, SessionInv, SessionTypes, AcceptanceInv,
         AcceptanceTypes, CountInv, Inspections
<1>1. SessionInv' /\ ~Open' /\ ~Open
  BY <1>0, FilesOnly DEF Open
<1>2. /\ events' \in Seq(EventNames)
      /\ Cardinality(SecondPasses(events')) = Cardinality(SecondPasses(events)) + 1
      /\ Cardinality(SecondPasses(events)) = Len(acc.accepted)
  BY <1>0, CountAppend DEF SecondInspected, EventNames, AcceptanceInv, CountInv, Inspections
<1>3. CASE acc' = [acc EXCEPT !.pc = "catch"]
  <2>1. /\ Fields(acc', AccFields) /\ acc'.n = acc.n /\ acc'.accepted = acc.accepted
        /\ acc'.pc = "catch" /\ acc'.honest = acc.honest
    BY <1>3 DEF AcceptanceInv, AcceptanceTypes, Fields, AccFields
  <2>2. AcceptanceTypes' /\ FileInv' /\ NoMaterialization' /\ CountInv' /\ PairInv'
    BY <1>0, <1>1, <1>2, <2>1
       DEF AcceptanceInv, AcceptanceTypes, FileInv, NoMaterialization, CountInv, PairInv,
           Downloads, Inspections
  <2> QED
    BY <1>1, <2>2 DEF AcceptanceInv
<1>4. CASE acc' = [acc EXCEPT !.accepted = Append(@, acc.first), !.first = <<>>,
                              !.n = IF @ < Artifacts THEN @ + 1 ELSE @,
                              !.pc = IF acc.n < Artifacts THEN "first" ELSE "cleanup"]
  <2>1. /\ Fields(acc', AccFields) /\ acc'.accepted = Append(acc.accepted, acc.first)
        /\ acc'.n = IF acc.n < Artifacts THEN acc.n + 1 ELSE acc.n
        /\ acc'.pc = IF acc.n < Artifacts THEN "first" ELSE "cleanup"
        /\ acc'.honest = acc.honest
    BY <1>4 DEF AcceptanceInv, AcceptanceTypes, Fields, AccFields
  <2>2. /\ \E T : acc'.accepted \in Seq(T)
        /\ Len(acc'.accepted) = acc.n
        /\ \A i \in 1..(acc.n - 1) : acc'.accepted[i] = acc.accepted[i]
        /\ acc'.accepted[acc.n] = acc.first
    <3>1. PICK T : acc.accepted \in Seq(T)
      BY DEF AcceptanceInv, AcceptanceTypes
    <3>2. /\ Append(acc.accepted, acc.first) \in Seq(T \cup {acc.first})
          /\ Len(Append(acc.accepted, acc.first)) = Len(acc.accepted) + 1
          /\ \A i \in 1..Len(acc.accepted) : Append(acc.accepted, acc.first)[i] = acc.accepted[i]
          /\ Append(acc.accepted, acc.first)[Len(acc.accepted) + 1] = acc.first
      BY <3>1, OneMore
    <3> QED
      BY <1>0, <2>1, <3>2, LimitsAssumption
  <2>3. acc'.n \in 1..Artifacts
    BY <1>0, <2>1, LimitsAssumption
  <2>4. AcceptanceTypes' /\ FileInv' /\ NoMaterialization'
    BY <1>0, <1>2, <2>1, <2>2, <2>3
       DEF AcceptanceInv, AcceptanceTypes, FileInv, NoMaterialization, Inspections
  <2>5. CountInv'
    BY <1>0, <1>2, <2>1, <2>2, LimitsAssumption
       DEF AcceptanceInv, CountInv, Downloads, Inspections
  <2>6. PairInv'
    <3>1. acc.n \in acc.honest => acc.first = Archive
      BY <1>0 DEF AcceptanceInv, PairInv, TrustedSession
    <3>2. /\ acc.honest \subseteq 1..acc.n
          /\ \A i \in acc.honest : i <= acc.n - 1 => acc.accepted[i] = Archive
      BY <1>0, LimitsAssumption DEF AcceptanceInv, PairInv, Inspections
    <3>3. \A i \in acc'.honest : acc'.accepted[i] = Archive
      BY <1>0, <2>1, <2>2, <3>1, <3>2, LimitsAssumption
    <3> QED
      BY <1>0, <1>1, <2>1, <2>2, <3>2, <3>3 DEF PairInv
  <2> QED
    BY <1>1, <2>4, <2>5, <2>6 DEF AcceptanceInv
<1> QED
  BY <1>3, <1>4 DEF SecondInspected


\* An inspection fails, or the two differ.
LEMMA InspectionFailsInv ==
  ASSUME SessionInv, AcceptanceInv, InspectionFails, UNCHANGED <<disk, mt, writer>>
  PROVE  SessionInv' /\ AcceptanceInv'
<1>0. /\ acc.pc \in Inspections /\ ~Open /\ UNCHANGED <<ws, wk, env, report, events>> /\ env \in EnvType
  BY DEF InspectionFails, workerVars, SessionInv, SessionTypes, AcceptanceInv, PairInv, Open, Inspections
<1>1. SessionInv' /\ ~Open'
  BY <1>0, FilesOnly
<1>2. /\ Fields(acc', AccFields) /\ acc'.n = acc.n /\ acc'.accepted = acc.accepted
      /\ acc'.pc = "catch" /\ acc'.honest = acc.honest
  BY DEF InspectionFails, AcceptanceInv, AcceptanceTypes, Fields, AccFields
<1>3. AcceptanceTypes' /\ FileInv' /\ NoMaterialization' /\ CountInv' /\ PairInv'
  BY <1>0, <1>1, <1>2
     DEF AcceptanceInv, AcceptanceTypes, FileInv, NoMaterialization, CountInv, PairInv,
         Downloads, Inspections
<1> QED
  BY <1>1, <1>3 DEF AcceptanceInv

\* All artifacts are accepted: the files are removed, or the catch block tries again.
LEMMA CleanupInv ==
  ASSUME SessionInv, AcceptanceInv, Cleanup, UNCHANGED <<disk, mt, writer>>
  PROVE  SessionInv' /\ AcceptanceInv'
<1>0. /\ acc.pc = "cleanup" /\ ~Open /\ UNCHANGED <<ws, wk>> /\ events \in Seq(EventNames)
  BY DEF Cleanup, AcceptanceInv, AcceptanceTypes, PairInv
<1>1. PICK k \in CleanupOutcomes(Artifacts) :
        /\ env' = Removed(k)
        /\ IF k = Artifacts
           THEN /\ acc' = [acc EXCEPT !.pc = "complete"]
                /\ events' = events \o <<"cleanup_complete", "acceptance_complete">>
                /\ report' = [state |-> "ACCEPTANCE_COMPLETE", cleanup |-> TRUE, code |-> "none"]
           ELSE acc' = [acc EXCEPT !.pc = "catch"] /\ UNCHANGED <<events, report>>
  BY DEF Cleanup
<1>2. /\ env' \in EnvType
      /\ \A i \in 0..Artifacts : env'.files[i] = IF i \in 1..k THEN "gone" ELSE env.files[i]
  BY <1>1, RemovedEffect
<1>3. SessionInv' /\ ~Open'
  BY <1>0, <1>2, FilesOnly
<1>4. CASE k = Artifacts
  <2>1. /\ Fields(acc', AccFields) /\ acc'.n = acc.n /\ acc'.accepted = acc.accepted
        /\ acc'.pc = "complete" /\ acc'.honest = acc.honest
        /\ Fields(report', {"state", "cleanup", "code"}) /\ report'.cleanup \in BOOLEAN
    <3>1. /\ acc' = [acc EXCEPT !.pc = "complete"]
          /\ report' = [state |-> "ACCEPTANCE_COMPLETE", cleanup |-> TRUE, code |-> "none"]
      BY <1>1, <1>4
    <3>2. Fields(acc, AccFields)
      BY DEF AcceptanceInv, AcceptanceTypes
    <3>3. Fields(report', {"state", "cleanup", "code"}) /\ report'.cleanup \in BOOLEAN
      BY <3>1 DEF Fields
    <3> QED
      BY <3>1, <3>2, <3>3 DEF Fields, AccFields
  <2>2. events' \in Seq(EventNames) /\ SecondPasses(events') = SecondPasses(events)
    <3> DEFINE last == <<"cleanup_complete", "acceptance_complete">>
    <3>1. last \in Seq(EventNames)
      BY DEF EventNames
    <3>2. \A i \in 1..Len(last) : last[i] # "second_pass_a_verified"
      OBVIOUS
    <3>3. events' = events \o last
      BY <1>1, <1>4
    <3> HIDE DEF last
    <3> QED
      BY <1>0, <3>1, <3>2, <3>3, CountLast
  <2>3. \A i \in 1..Artifacts : env'.files[i] = "gone"
    BY <1>2, <1>4, LimitsAssumption
  <2>4. AcceptanceTypes' /\ FileInv' /\ NoMaterialization'
    BY <1>0, <2>1, <2>2, <2>3 DEF AcceptanceInv, AcceptanceTypes, FileInv, NoMaterialization
  <2>5. CountInv' /\ PairInv'
    BY <1>0, <1>3, <2>1, <2>2 DEF AcceptanceInv, CountInv, PairInv, Downloads, Inspections
  <2> QED
    BY <1>3, <2>4, <2>5 DEF AcceptanceInv
<1>5. CASE k # Artifacts
  <2>1. /\ Fields(acc', AccFields) /\ acc'.n = acc.n /\ acc'.accepted = acc.accepted
        /\ acc'.pc = "catch" /\ acc'.honest = acc.honest /\ UNCHANGED <<events, report>>
    BY <1>1, <1>5 DEF AcceptanceInv, AcceptanceTypes, Fields, AccFields
  <2>2. AcceptanceTypes' /\ FileInv' /\ NoMaterialization' /\ CountInv' /\ PairInv'
    BY <1>0, <1>3, <2>1
       DEF AcceptanceInv, AcceptanceTypes, FileInv, NoMaterialization, CountInv, PairInv,
           Downloads, Inspections
  <2> QED
    BY <1>3, <2>2 DEF AcceptanceInv
<1> QED
  BY <1>4, <1>5

\* The catch block's own attempt, which the report is about.
LEMMA CatchCleanupInv ==
  ASSUME SessionInv, AcceptanceInv, CatchCleanup, UNCHANGED <<disk, mt, writer>>
  PROVE  SessionInv' /\ AcceptanceInv'
<1>0. acc.pc = "catch" /\ ~Open /\ UNCHANGED <<ws, wk>>
  BY DEF CatchCleanup, AcceptanceInv, PairInv
<1>1. PICK k \in CleanupOutcomes(Artifacts) :
        env' = Removed(k) /\ Incomplete(k = Artifacts, "acceptance_incomplete")
  BY DEF CatchCleanup, CleanupAchieved
<1>2. /\ env' \in EnvType
      /\ \A i \in 0..Artifacts : env'.files[i] = IF i \in 1..k THEN "gone" ELSE env.files[i]
  BY <1>1, RemovedEffect
<1>3. (k = Artifacts) \in BOOLEAN
  OBVIOUS
<1>4. k = Artifacts => \A i \in 1..Artifacts : env'.files[i] = "gone"
  BY <1>2, LimitsAssumption
<1>5. \/ \A i \in 1..Artifacts : env'.files[i] \in {"none", "gone"}
      \/ ~(k = Artifacts) /\ "acceptance_incomplete" # "artifact_file_invalid"
  BY <1>4
<1> QED
  BY <1>0, <1>1, <1>2, <1>3, <1>5, IncompleteInv

\* Another process changes a file of a run that is not over.
LEMMA MeddleInv ==
  ASSUME SessionInv, AcceptanceInv, Meddle, acc.pc \notin {"complete", "incomplete"},
         UNCHANGED <<disk, mt, writer>>
  PROVE  SessionInv' /\ AcceptanceInv'
<1>1. PICK n \in 1..Artifacts :
        /\ env.files[n] \in {"partial", "whole"}
        /\ \E state \in {"replaced", "dirtied", "touched"} : env' = File(n, state)
  BY DEF Meddle
<1>2. /\ env' \in EnvType
      /\ \A i \in 1..Artifacts : env.files[i] \in {"none", "gone"} => env'.files[i] = env.files[i]
  BY <1>1, FileEffect, LimitsAssumption DEF FileStates
<1>3. UNCHANGED <<ws, wk, events, report>>
  BY DEF Meddle
<1>4. /\ SessionInv' /\ (Open' <=> Open) /\ (TrustedSession' <=> TrustedSession)
  BY <1>2, <1>3, FilesOnly
<1>5. /\ Fields(acc', AccFields) /\ acc'.n = acc.n /\ acc'.accepted = acc.accepted
      /\ acc'.pc = acc.pc /\ acc'.honest = acc.honest /\ acc'.first = acc.first
  BY DEF Meddle, AcceptanceInv, AcceptanceTypes, Fields, AccFields
<1>6. AcceptanceTypes' /\ NoMaterialization' /\ CountInv' /\ PairInv'
  BY <1>3, <1>4, <1>5
     DEF AcceptanceInv, AcceptanceTypes, NoMaterialization, CountInv, PairInv
<1>7. FileInv'
  <2>1. acc.n \in 1..Artifacts
    BY DEF AcceptanceInv, AcceptanceTypes
  <2>2. \A i \in 1..Artifacts : env.files[i] = "none" => env'.files[i] = "none"
    BY <1>2
  <2> QED
    BY <1>2, <1>3, <1>5, <2>1, <2>2, LimitsAssumption DEF AcceptanceInv, FileInv
<1> QED
  BY <1>4, <1>6, <1>7 DEF AcceptanceInv

\* The session of an inspection moves, and the run waits.
LEMMA InspectionGoesOn ==
  ASSUME AcceptanceInv, SessionMoved, UNCHANGED <<acc, events, report, disk, mt, writer>>
  PROVE  SessionInv' /\ AcceptanceInv'
<1>1. AcceptanceTypes' /\ FileInv' /\ CountInv' /\ NoMaterialization'
  BY DEF AcceptanceInv, AcceptanceTypes, FileInv, CountInv, NoMaterialization, SessionMoved
<1>2. PairInv'
  BY DEF AcceptanceInv, PairInv, SessionMoved, Open
<1> QED
  BY <1>1, <1>2 DEF AcceptanceInv, SessionMoved

\* Every step of an acceptance run that is not over.
LEMMA AcceptanceStepsInv ==
  ASSUME SessionInv, AcceptanceInv, UNCHANGED materializerVars,
         AcceptanceStep \/ (AcceptanceEnvironment /\ acc.pc \notin {"complete", "incomplete"})
  PROVE  SessionInv' /\ AcceptanceInv'
<1>1. UNCHANGED <<disk, mt, writer>>
  BY DEF materializerVars
<1>2. CASE (SessionStep \/ WorkerStep \/ CallerAborts \/ RuntimeDrifts) /\ UNCHANGED acceptanceVars
  <2>1. SessionMoved /\ UNCHANGED <<acc, events, report>>
    BY <1>2, SessionStepMoves, WorkerStepMoves, OutsideMoves DEF acceptanceVars
  <2> QED
    BY <1>1, <2>1, InspectionGoesOn
<1>3. CASE Meddle /\ acc.pc \notin {"complete", "incomplete"}
  BY <1>1, <1>3, MeddleInv
<1>4. CASE AcceptanceStep
  BY <1>1, <1>2, <1>4, ConsumeApprovalInv, CreateFileInv, FetchEndsInv, DownloadFailsInv,
     UnwindDownloadInv, StartInspectionInv, FirstInspectedInv, SecondInspectedInv,
     InspectionFailsInv, CleanupInv, CatchCleanupInv DEF AcceptanceStep
<1> QED
  BY <1>2, <1>3, <1>4 DEF AcceptanceEnvironment

-----------------------------------------------------------------------------
(* Both jobs. *)

\* Neither job has begun: no session, no file, no event but the first two.
LEMMA InitIInv ==
  ASSUME Init PROVE IInv
<1>1. /\ Fields(ws, SessionFields) /\ ws.pc = "none" /\ ~Open
      /\ Fields(wk, WorkerFields) /\ wk.state = "none" /\ wk.sent = 0 /\ wk.rogue \in BOOLEAN
  BY DEF Init, WorkerInit, NoSession, NoWorker, Fields, SessionFields, WorkerFields, Open
<1>2. env \in EnvType /\ \A i \in 1..Artifacts : env.files[i] = "none"
  BY LimitsAssumption DEF Init, WorkerInit, FileStates
<1>3. SessionInv
  BY <1>1, <1>2 DEF SessionInv, SessionTypes, SessionSteps, HonestInspection, HonestRefusal
<1>4. /\ Fields(mt, {"pc", "state", "transcript", "verified", "honest"})
      /\ Fields(writer, {"open", "bytes", "good", "seen", "aborted"})
      /\ Fields(disk, {"root", "tree", "seal", "temp", "meddled"})
      /\ mt.verified \in BOOLEAN /\ ~mt.verified /\ mt.honest \in BOOLEAN
      /\ mt.pc = "inspect" /\ audit = <<>> /\ disk.seal = "none" /\ writer.open = 0
  BY DEF Init, MaterializerInit, NoWriter, Fields
<1>5. /\ Fields(report, {"state", "cleanup", "code"})
      /\ report.state = "none" /\ report.cleanup \in BOOLEAN
  BY DEF Init, AcceptanceInit, NoReport, Fields
<1>6. MaterializerInv
  BY <1>1, <1>2, <1>4, <1>5
     DEF MaterializerInv, MaterializerTypes, AuditInv, TreeInv, SealInv, HonestInv, QuietInv, NoDownload
<1>7. /\ Fields(acc, AccFields) /\ acc.pc = "approve" /\ acc.n = 1
      /\ acc.accepted = <<>> /\ acc.honest = {}
  BY DEF Init, AcceptanceInit, Fields, AccFields
<1>8. events \in Seq(EventNames) /\ Cardinality(SecondPasses(events)) = 0
  <2>1. events = <<"authorized", "download_started">>
    BY DEF Init, AcceptanceInit
  <2>2. SecondPasses(events) = {}
    BY <2>1 DEF SecondPasses
  <2>3. Cardinality(SecondPasses(events)) = 0
    BY <2>2, FS_EmptySet
  <2>4. events \in Seq(EventNames)
    BY <2>1 DEF EventNames
  <2> QED
    BY <2>3, <2>4
<1>9. acc.accepted \in Seq({}) /\ Len(acc.accepted) = 0
  BY <1>7
<1>10. AcceptanceInv
  <2>1. AcceptanceTypes
    BY <1>5, <1>7, <1>8, <1>9, LimitsAssumption DEF AcceptanceTypes, Downloads
  <2> QED
    BY <1>1, <1>2, <1>4, <1>5, <1>7, <1>8, <1>9, <2>1
       DEF AcceptanceInv, FileInv, CountInv, PairInv, NoMaterialization, Downloads, Inspections
<1> QED
  BY <1>3, <1>6, <1>10 DEF IInv, Init

\* Every step, and no step, keeps the invariant.
LEMMA NextIInv ==
  ASSUME IInv, [Next]_vars PROVE IInv'
<1>1. CASE job = "materialize" /\ UNCHANGED <<job, acceptanceVars>>
           /\ (MaterializerStep \/ MaterializerEnvironment)
  BY <1>1, MaterializerStepsInv DEF IInv, acceptanceVars
<1>2. CASE job = "accept" /\ UNCHANGED <<job, materializerVars>>
           /\ (AcceptanceStep \/ (AcceptanceEnvironment /\ ~Over))
  <2>1. ~Over => acc.pc \notin {"complete", "incomplete"}
    BY <1>2 DEF Over
  <2> QED
    BY <1>2, <2>1, AcceptanceStepsInv DEF IInv
<1>3. CASE UNCHANGED vars
  <2>1. UNCHANGED <<job, ws, wk, src, env, mt, writer, disk, audit, acc, events, report>>
    BY <1>3 DEF vars, workerVars, materializerVars, acceptanceVars
  <2>2. /\ SessionInv' /\ (Open' <=> Open) /\ (TrustedSession' <=> TrustedSession)
    BY <2>1, FilesOnly DEF IInv, SessionInv, SessionTypes
  <2>3. job = "materialize" => MaterializerInv'
    BY <2>1, <2>2
       DEF IInv, MaterializerInv, MaterializerTypes, AuditInv, TreeInv, TreeMatches, SealInv, HonestInv,
           QuietInv, NoDownload
  <2>4. job = "accept" => AcceptanceInv'
    BY <2>1, <2>2
       DEF IInv, AcceptanceInv, AcceptanceTypes, FileInv, CountInv, PairInv, NoMaterialization
  <2> QED
    BY <2>1, <2>2, <2>3, <2>4 DEF IInv
<1> QED
  BY <1>1, <1>2, <1>3 DEF Next, OwnStep, EnvironmentStep

\* The invariant holds in every state.
THEOREM Inductive == Spec => []IInv
BY InitIInv, NextIInv, PTL DEF Spec

\* A seal under the final name is earned: for every archive, whatever a child claims and
\* whoever crashes or interferes, it was made after the start and the commit were durable
\* and the tree was found to be the transcript's, and one child that kept to the protocol
\* makes the transcript the archive's.  (materialize(), publishSeal())
THEOREM SealsAreEarned == Spec => []SealIsEarned
<1>1. ASSUME IInv PROVE SealIsEarned
  <2>1. CASE job = "materialize"
    BY <1>1, <2>1 DEF IInv, MaterializerInv, AuditInv, TreeInv, SealInv, SealIsEarned
  <2>2. CASE job = "accept"
    BY <1>1, <2>2 DEF IInv, AcceptanceInv, NoMaterialization, SealIsEarned
  <2> QED
    BY <1>1, <2>1, <2>2 DEF IInv
<1> QED
  BY <1>1, Inductive, PTL

\* Complete evidence is earned, for any number of artifacts: each was accepted once, after
\* two inspections of which an honest one decides, and its file is gone.  (acceptForTest())
THEOREM AcceptancesAreEarned == Spec => []AcceptedIsEarned
<1>1. ASSUME IInv, report.state = "ACCEPTANCE_COMPLETE" PROVE AcceptedIsEarned
  <2>1. job = "accept" /\ AcceptanceInv /\ acc.pc = "complete"
    BY <1>1 DEF IInv, MaterializerInv, NoDownload, AcceptanceInv, FileInv
  <2>2. Len(acc.accepted) = Artifacts /\ Cardinality(SecondPasses(events)) = Artifacts
    BY <2>1 DEF AcceptanceInv, CountInv
  <2>3. \A i \in acc.honest : acc.accepted[i] = Archive
    BY <2>1, <2>2, LimitsAssumption DEF AcceptanceInv, PairInv
  <2>4. \A i \in 1..Artifacts : env.files[i] = "gone"
    BY <2>1 DEF AcceptanceInv, FileInv
  <2> QED
    BY <2>2, <2>3, <2>4 DEF AcceptedIsEarned, SecondPasses
<1>2. ASSUME IInv PROVE AcceptedIsEarned
  BY <1>1, <1>2 DEF AcceptedIsEarned
<1> QED
  BY <1>2, Inductive, PTL

\* Nothing is left behind in silence: a job that is over has no child running and no file
\* open, and a downloaded file that stays is in the report.  (abort(), cleanupFiles())
THEOREM LeftoversAreAlwaysReported == Spec => []LeftoversAreReported
<1>1. ASSUME IInv, Over PROVE LeftoversAreReported
  <2>1. CASE job = "materialize"
    <3>1. mt.pc \in {"done", "failed", "crashed"} /\ MaterializerInv
      BY <1>1, <2>1 DEF Over, IInv
    <3>2. ~Open /\ writer.open = 0
      BY <3>1 DEF MaterializerInv, QuietInv
    <3>3. \A i \in 1..Artifacts : env.files[i] = "none"
      BY <3>1 DEF MaterializerInv, NoDownload
    <3> QED
      BY <1>1, <3>2, <3>3 DEF IInv, SessionInv, SessionSteps, LeftoversAreReported
  <2>2. CASE job = "accept"
    <3>1. acc.pc \in {"complete", "incomplete"} /\ AcceptanceInv
      BY <1>1, <2>2 DEF Over, IInv
    <3>2. ~Open /\ writer.open = 0
      BY <3>1 DEF AcceptanceInv, PairInv, NoMaterialization
    <3>3. \/ \A i \in 1..Artifacts : env.files[i] \in {"none", "gone"}
          \/ ~report.cleanup /\ report.code # "artifact_file_invalid"
      BY <3>1 DEF AcceptanceInv, FileInv
    <3> QED
      BY <1>1, <3>2, <3>3 DEF IInv, SessionInv, SessionSteps, LeftoversAreReported
  <2> QED
    BY <1>1, <2>1, <2>2 DEF IInv
<1>2. ASSUME IInv PROVE LeftoversAreReported
  BY <1>1, <1>2 DEF LeftoversAreReported
<1> QED
  BY <1>2, Inductive, PTL
=============================================================================
