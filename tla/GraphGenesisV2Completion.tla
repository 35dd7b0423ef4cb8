---------------------- MODULE GraphGenesisV2Completion ----------------------
(***************************************************************************)
(* The dormant synthetic completion of the second Graph Genesis composition *)
(* (class SessionOwnedSyntheticCompletion of                                 *)
(* src/src/stage/graph-genesis-v2-production.ts, with the fixture            *)
(* authorities of graph-genesis-v2-execution.ts and                          *)
(* graph-genesis-v2-post-state.ts).  It consumes a sealed authorization and  *)
(* takes the run through issue, capture, compile, reserve, write and         *)
(* finalize; the caller may call its methods in any order and at any time,   *)
(* while the session may be revoked, the workspace edited and the output     *)
(* path taken by others.  Each await is a value of busy.                     *)
(***************************************************************************)
EXTENDS ExactGraph

CONSTANTS
  Documents, \* the locks that npm may have left, see ExactGraph
  MaxEdits   \* how often the workspace's lock is rewritten

ASSUME MaxEditsAssumption == MaxEdits \in Nat

VARIABLES
  cp,       \* the completion: phase, operation in flight, tokens, terminal proof
  events,   \* this action's durable audit events after the authorized prefix
  row,      \* the terminal status of its durable tool-call row, or "none"
  document, \* what the workspace's package-lock.json says of the graph
  lock,     \* the version of the file; a rewrite changes a digest in it
  file,     \* the output path
  revoked,  \* a session, output or caller signal is aborted
  clock     \* 0: in the start window, 1: past it, 2: past the execution deadline

vars == <<cp, events, row, document, lock, file, revoked, clock>>

START == "execution_start_recorded"
TERMINAL == <<"graph_genesis_incomplete", "execution_completed", "outcome_receipt_finalized">>

----------------------------------------------------------------------------
(* SyntheticGraphGenesisV2ExecutionAuthority: the phases of a fixture run.    *)

\* Each method of the authority that issueSyntheticQuiescedRun() calls: the phase it
\* needs and the phase it leaves; any other call fails.
RunTransitions ==
  { <<"reserved", "markExecutionStarted", "started">>,
    <<"started", "recordBrokerIntent", "intent-recorded">>,
    <<"intent-recorded", "commitBrokerArm", "armed">>,
    <<"armed", "recordSpawnAttempt", "running">>,
    <<"running", "observeChildClose", "child-closed-open">>,
    <<"drained", "observeChildClose", "child-closed">>,
    <<"running", "observeListenerQuiesced", "drained">>,
    <<"child-closed-open", "observeListenerQuiesced", "child-closed">>,
    <<"child-closed", "quiesce", "terminal">> }

RunAfter(calls) ==
  LET Call(phase, method) ==
        IF \E t \in RunTransitions : t[1] = phase /\ t[2] = method
        THEN (CHOOSE t \in RunTransitions : t[1] = phase /\ t[2] = method)[3] ELSE "invalid"
  IN  FoldLeft(Call, "reserved", calls)

IssuedCalls ==
  << "markExecutionStarted", "recordBrokerIntent", "commitBrokerArm", "recordSpawnAttempt",
     "observeChildClose", "observeListenerQuiesced", "quiesce" >>

----------------------------------------------------------------------------
Init ==
  /\ cp = [phase |-> "new", busy |-> "no", started |-> FALSE, journal |-> <<>>,
           post |-> 0, artifact |-> 0, seen |-> 0, written |-> FALSE,
           attempted |-> FALSE, proof |-> "unattempted", result |-> "none"]
  /\ events = <<>> /\ row = "none"
  /\ document \in Documents /\ lock = 1 /\ file = "absent" /\ revoked = FALSE /\ clock = 0

FenceUnlatched == ~revoked /\ clock # 2 /\ (cp.phase = "new" => clock = 0)

\* #fence(): nothing terminal, nothing revoked, in time.
Fence == ~cp.attempted /\ ~revoked /\ clock # 2 /\ (cp.phase = "new" => clock = 0)

OutputTrusted == ~revoked /\ cp.written

\* #verifyOutput(): the file is ours, whole and unchanged since it was written.
OutputVerified == ~revoked /\ cp.written /\ file = "whole"

\* #prove(): the action's own events are the start, the journal and the terminal
\* events, in this order; other actions' events do not matter.
Proves(c, ev) == ev = <<START>> \o c.journal \o TERMINAL

\* #terminal(): one attempt to write the outcome, then one independent proof, also
\* when the write throws.  c is the completion as the caller left it.
Terminal(c, ev, status) ==
  \E w \in {"ok", "lost", "torn"}, readable \in BOOLEAN :
    LET writes == w # "lost" /\ Len(ev) > 0
        ev2    == IF writes THEN ev \o TERMINAL ELSE ev
        row2   == IF writes THEN status ELSE row
        proven == /\ readable /\ Proves(c, ev2) /\ row2 = status
                  /\ status = "incomplete" => OutputVerified
    IN  /\ events' = ev2 /\ row' = row2
        /\ cp' = [c EXCEPT !.phase = "terminal", !.attempted = TRUE,
                           !.proof = IF proven THEN "proven" ELSE "unknown",
                           !.result = IF proven THEN status ELSE "none"]

FailureWhenIdle(c, ev) ==
  IF ~c.started \/ c.attempted \/ c.busy # "no" THEN cp' = c /\ events' = ev /\ row' = row
  ELSE Terminal(c, ev, "failed")

\* #failure(): nothing to end before the run has started or after its terminal attempt.
Failure(c, ev) ==
  IF ~c.started \/ c.attempted THEN cp' = c /\ events' = ev /\ row' = row
  ELSE Terminal(c, ev, "failed")

\* #append(): durable first, then journalled; a write that throws fails the run.
AppendThen(c, type, done) ==
  \/ cp' = [done EXCEPT !.journal = Append(@, type)] /\ events' = Append(events, type) /\ UNCHANGED row
  \/ Failure(c, events)
  \/ Failure(c, Append(events, type))

\* #sync() and #async(): a call while another is in flight fails the run; after the
\* terminal attempt every call is refused without effect.
Reentered ==
  /\ ~cp.attempted /\ cp.busy # "no"
  /\ Failure(cp, events)
  /\ UNCHANGED <<document, lock, file, revoked, clock>>

Free == ~cp.attempted /\ cp.busy = "no"

\* A method called out of its phase, or when the fence is down.
CallFails(phase) ==
  /\ Free /\ (cp.phase # phase \/ ~Fence)
  /\ Failure(cp, events)
  /\ UNCHANGED <<document, lock, file, revoked, clock>>

\* issueSyntheticQuiescedRun(): the start is recorded before the run's events.
Issue ==
  /\ Free /\ cp.phase = "new" /\ Fence /\ RunAfter(IssuedCalls) = "terminal"
  /\ LET c    == [cp EXCEPT !.started = TRUE]
         list == <<START, "quiesced">>
     IN  \/ /\ cp' = [c EXCEPT !.phase = "issued", !.journal = <<"quiesced">>]
            /\ events' = list /\ UNCHANGED row
         \/ \E n \in 0..2 : Failure(c, SubSeq(list, 1, n))
  /\ UNCHANGED <<document, lock, file, revoked, clock>>

\* captureSyntheticPostState(): the lock is read between two inventories, which do
\* not see a rewrite of the same size.
Capture ==
  /\ Free /\ cp.phase = "issued" /\ Fence
  /\ cp' = [cp EXCEPT !.busy = "capture", !.seen = lock]
  /\ UNCHANGED <<events, row, document, lock, file, revoked, clock>>

\* An awaited operation of a method comes back: the fence is looked at first.
Resumed(op) == cp.busy = op

Idle(c) == [c EXCEPT !.busy = "no"]

\* An operation rejects, or the fence is down when it comes back.
OperationFails ==
  /\ cp.busy # "no"
  /\ Failure(Idle(cp), events)
  /\ file' \in {file} \cup IF cp.busy = "open" /\ file = "absent" THEN {"partial"} ELSE {}
  /\ UNCHANGED <<document, lock, revoked, clock>>

Captured ==
  /\ Resumed("capture") /\ Fence
  /\ AppendThen(Idle(cp), "post_state_validated", [Idle(cp) EXCEPT !.phase = "captured", !.post = cp.seen])
  /\ UNCHANGED <<document, lock, file, revoked, clock>>

\* The candidate is compiled, and validated again as a payload when the artifact is
\* made of it and when it is encoded.
Compilable(doc) == CompilesV2(doc) /\ ValidPayload(CandidateV2(doc))

\* compileSyntheticArtifact(): from the captured lock, never from the workspace.
Compile ==
  /\ Free /\ cp.phase = "captured" /\ Fence
  /\ IF Compilable(document)
     THEN AppendThen(cp, "candidate_compiled", [cp EXCEPT !.phase = "compiled", !.artifact = cp.post])
     ELSE Failure(cp, events)
  /\ UNCHANGED <<document, lock, file, revoked, clock>>

Reserve ==
  /\ Free /\ cp.phase = "compiled" /\ Fence
  /\ cp' = [cp EXCEPT !.busy = "reserve"]
  /\ UNCHANGED <<events, row, document, lock, file, revoked, clock>>

ReservedQuietly ==
  /\ Resumed("reserve") /\ Fence /\ file = "absent"
  /\ cp' = [Idle(cp) EXCEPT !.phase = "reserved"]
  /\ UNCHANGED <<events, row, document, lock, file, revoked, clock>>

Reserved ==
  /\ Resumed("reserve") /\ Fence /\ file = "absent"
  /\ AppendThen(Idle(cp), "output_intent", [Idle(cp) EXCEPT !.phase = "reserved"])
  /\ UNCHANGED <<document, lock, file, revoked, clock>>

\* writeReservedArtifact(): the reservation is spent, the captured state revalidated ...
Write ==
  /\ Free /\ cp.phase = "reserved" /\ Fence
  /\ cp' = [cp EXCEPT !.busy = "revalidate", !.phase = "writing"]
  /\ UNCHANGED <<events, row, document, lock, file, revoked, clock>>

Revalidated ==
  /\ Resumed("revalidate") /\ Fence /\ lock = cp.post /\ file = "absent"
  /\ cp' = [cp EXCEPT !.busy = "open"]
  /\ UNCHANGED <<events, row, document, lock, file, revoked, clock>>

\* ... the file created exclusively; the request is with the operating system and
\* is carried out even when the run has failed in between ...
Opened ==
  /\ Resumed("open") /\ Fence /\ file = "absent"
  /\ file' = "partial"
  /\ cp' = [cp EXCEPT !.busy = "fill"]
  /\ UNCHANGED <<events, row, document, lock, revoked, clock>>

\* ... written, synced, read back and identified ...
Filled ==
  /\ Resumed("fill") /\ Fence /\ file = "partial"
  /\ file' = "whole"
  /\ cp' = [cp EXCEPT !.busy = "recheck", !.written = TRUE]
  /\ UNCHANGED <<events, row, document, lock, revoked, clock>>

\* ... and the captured state revalidated again before the event.
WriteDone ==
  /\ Resumed("recheck") /\ Fence /\ lock = cp.post
  /\ AppendThen(Idle(cp), "output_written", [Idle(cp) EXCEPT !.phase = "written"])
  /\ UNCHANGED <<document, lock, file, revoked, clock>>

\* finalizeSyntheticIncomplete(): never a success, at best a proven incomplete run.
Finalize ==
  /\ Free /\ cp.phase = "written" /\ Fence
  /\ IF OutputVerified THEN Terminal(cp, events, "incomplete") ELSE Failure(cp, events)
  /\ UNCHANGED <<document, lock, file, revoked, clock>>

----------------------------------------------------------------------------
(* The environment.                                                          *)

\* Any of the three signals is aborted: the listeners end a started run at once.
Revoke ==
  /\ ~revoked /\ revoked' = TRUE
  /\ Failure(cp, events)
  /\ UNCHANGED <<document, lock, file, clock>>

Tick == clock < 2 /\ clock' = clock + 1 /\ UNCHANGED <<cp, events, row, document, lock, file, revoked>>

\* The lock is rewritten with the same size.
EditLock == lock <= MaxEdits /\ lock' = lock + 1 /\ UNCHANGED <<cp, events, row, document, file, revoked, clock>>

\* Somebody takes the output path, or changes what was written there.
Interfere ==
  /\ \/ file = "absent" /\ file' = "foreign"
     \/ file \in {"partial", "whole"} /\ file' = "changed"
  /\ UNCHANGED <<cp, events, row, document, lock, revoked, clock>>

Next ==
  \/ Reentered \/ \E p \in {"new", "issued", "captured", "compiled", "reserved", "written"} : CallFails(p)
  \/ Issue \/ Capture \/ Captured \/ Compile \/ Reserve \/ Reserved \/ Write \/ Revalidated
  \/ Opened \/ Filled \/ WriteDone \/ Finalize \/ OperationFails
  \/ Revoke \/ Tick \/ EditLock \/ Interfere

Spec == Init /\ [][Next]_vars

----------------------------------------------------------------------------
\* Once the outcome is durable nothing follows it: an operation that was in flight
\* when the run failed comes back to a closed fence and appends no evidence.
NothingAfterTerminal ==
  \A i \in 1..Len(events) : events[i] = "outcome_receipt_finalized" => i = Len(events)

\* A started run does not outlive its session: with a signal aborted, its terminal
\* attempt has been made, whatever was in flight.
RevokedMeansTerminal == revoked /\ cp.started => cp.attempted

\* A file of ours, even an orphan left by a run that failed while it was being
\* created, is announced: its intent, and the artifact it is for, are durable.
OutputIsAnnounced ==
  file \in {"partial", "whole"} => \E i \in 1..Len(events) : events[i] = "output_intent"

\* The evidence is whole whatever was in flight: the end of a run comes with its session
\* at the latest and is the end, and no file was made without its announcement.
\* (#terminal(), the abort listeners, reserveOutput())
EvidenceIsWhole == NothingAfterTerminal /\ RevokedMeansTerminal /\ OutputIsAnnounced

\* What is compiled is the exact graph of the captured lock: every package in it is
\* needed, by dependencies or by required peers, and found where a program would find
\* it, in a version that is allowed.  A lock of which that is true is not refused; the
\* first version of the compiler agrees but for peers and ranges.
\* (compileUnsignedCandidateV2(), analyzePeerDependencySemantics(), compileLockGraph())
CandidateIsExact ==
  /\ cp.artifact # 0 => ExactLock(document) /\ ExactCandidate(document, CandidateV2(document))
  /\ cp.phase = "captured" =>
       /\ ExactLock(document) => Compilable(document)
       /\ CompilesV1(document) <=> ExactLockV1(document)

\* A completion proof is given only for a run whose whole history is durable and
\* whose file, when the proof is given, holds the artifact of the captured lock.
ProofHoldsWhenGiven ==
  [][cp'.result = "incomplete" /\ cp.result # "incomplete" =>
       /\ row' = "incomplete" /\ file = "whole" /\ ~revoked /\ cp.artifact = cp.post
       /\ events' = <<START, "quiesced", "post_state_validated", "candidate_compiled",
                       "output_intent", "output_written">> \o TERMINAL]_vars
=============================================================================
