----------------------- MODULE GraphGenesisV2Execution -----------------------
(***************************************************************************)
(* The owner that consumes a sealed authorization (class                    *)
(* SessionOwnedDormantConcreteExecution), the journal of what it expects in *)
(* the audit database (class ConcreteAuditJournal), the child process, and  *)
(* the operations that revoke everything: closeOutputIntent(),              *)
(* closeContext(), the caller's signal and the listener's own events.       *)
(***************************************************************************)
EXTENDS GraphGenesisV2Session

VARIABLES
  ex,     \* the execution: where #run() is, its latch, its child, its journal
  closer  \* closeContext(): where it is

vars == <<sessionVars, ex, closer>>

START == "execution_start_recorded"
ARM == <<"broker_arm_intent", "broker_armed">>
SPAWN == "spawn_intent"
TERMINAL == <<"graph_genesis_incomplete", "execution_completed", "outcome_receipt_finalized">>

ExecutionInit ==
  /\ Init
  /\ ex = [pc |-> "none", failure |-> "none", startReturned |-> FALSE,
           expected |-> <<>>, pending |-> FALSE, read |-> FALSE, attempted |-> FALSE, child |-> "none",
           created |-> FALSE, closeObserved |-> FALSE, woken |-> FALSE,
           status |-> "none", proven |-> FALSE]
  /\ closer = "no"

----------------------------------------------------------------------------
(* The latch, and how an abort reaches it.                                   *)

\* #latch(): the first failure wins; a finished execution ignores it.
Latch(e, code) ==
  IF e.pc \in {"none", "terminal"} \/ e.failure # "none" THEN e
  ELSE [e EXCEPT !.failure = code, !.woken = TRUE]

\* #latch() also aborts the output, and with it the preparation and the listener.
Cut(outputs) ==
  /\ out' = AbortOutputs(outputs)
  /\ pr' = IF outputs \cap Linked = {} THEN pr ELSE RevokePreparation(pr)
  /\ lis' = IF outputs \cap Linked = {} THEN lis ELSE RevokeListener(lis)
  /\ au' = IF outputs \cap Linked = {} THEN au ELSE CancelTicket(au)

\* #stopAndDrain(): the phase stops, the listener's close starts, the child is signalled.
Stopping(e) == [e EXCEPT !.pc = "stopping"]

\* The catch block of #run() and the stop that follows it.
Stop(e, code) ==
  /\ ex' = Stopping(Latch(e, code))
  /\ lis' = StartClose([lis EXCEPT !.aborted = TRUE])
  /\ out' = AbortOutputs({pr.output})
  /\ pr' = RevokePreparation(pr)

----------------------------------------------------------------------------
(* Consuming the seal.                                                       *)

CreateDormantConcreteExecution ==
  /\ seal = "minted" /\ AuthenticatesPrepared
  /\ lis.state = "disarmed" /\ out[pr.output].inContext
  /\ seal' = "consumed"
  /\ ex' = [ex EXCEPT !.pc = "reserved", !.expected = db.events,
                      !.failure = IF caller THEN "cancelled" ELSE "none", !.woken = caller]
  /\ lis' = [lis EXCEPT !.executionOwned = TRUE, !.lifetime = FALSE, !.aborted = caller]
  /\ out' = IF caller THEN AbortOutputs({pr.output}) ELSE out
  /\ pr' = IF caller THEN RevokePreparation(pr) ELSE pr
  /\ UNCHANGED <<ctx, active, au, db, caller, clock, closer>>

----------------------------------------------------------------------------
(* #run().                                                                   *)

\* #fence(): deadline before cancellation; "none" when the run may go on.
Fence(startWindow) ==
  CASE clock = 2 \/ (startWindow /\ clock = 1) -> "deadline"
    [] ex.failure # "none" \/ caller \/ ctx # "open" \/ out[pr.output].aborted
         \/ ~out[pr.output].registered -> "cancelled"
    [] OTHER -> "none"

\* ConcreteAuditJournal.verify(): the chain is exactly what the journal expects.
Verify == ~db.foreign /\ db.events = ex.expected

\* execute(): claimed before the first await; #revalidateBeforeSpawn() begins.
Execute ==
  /\ ex.pc = "reserved"
  /\ IF Fence(TRUE) = "none" /\ Verify
     THEN /\ ex' = [ex EXCEPT !.pc = "first", !.read = TRUE]
          /\ UNCHANGED <<lis, out, pr>>
     ELSE Stop(ex, IF Fence(TRUE) # "none" THEN Fence(TRUE) ELSE "revalidation_failed")
  /\ UNCHANGED <<ctx, active, au, seal, db, caller, clock, closer>>

\* An operation of a revalidation rejects, or its deadline or an abort ends the
\* wait while the operation itself goes on.
RevalidationEnds ==
  /\ ex.pc \in {"first", "second", "after"}
  /\ \/ Stop([ex EXCEPT !.read = FALSE], "revalidation_failed")
     \/ /\ ex.failure # "none" \/ clock = 2 \/ (clock = 1 /\ ex.pc # "after")
        /\ Stop(ex, "revalidation_failed")
  /\ UNCHANGED <<ctx, active, au, seal, db, caller, clock, closer>>

\* journal.start(), the two broker events and the arming of the listener: one
\* uninterrupted block, ended by the first write that throws or by a fence.
\* A start that throws is uncertain, even if it has committed.
StartAndArm ==
  /\ ex.pc = "first"
  /\ IF Fence(TRUE) # "none" THEN Stop([ex EXCEPT !.read = FALSE], Fence(TRUE)) /\ UNCHANGED <<db, clock>>
     ELSE IF ~Verify
     THEN Stop([ex EXCEPT !.read = FALSE], "revalidation_failed") /\ UNCHANGED <<db, clock>>
     ELSE LET list == <<START>> \o ARM IN
       \/ \E w \in Writes(list) :
            LET e == [ex EXCEPT !.read = FALSE, !.expected = @ \o Accepted(list, w),
                                !.startReturned = w.n > 0, !.pending = w.how # "ok"]
                ev == db.events \o Committed(list, w)
            IN  /\ db' = [db EXCEPT !.events = ev,
                                    !.row = IF Len(ev) > Len(db.events) THEN "forwarding" ELSE @]
                /\ IF w.how = "ok"
                   THEN /\ ex' = [e EXCEPT !.pc = "second", !.read = TRUE]
                        /\ lis' = [lis EXCEPT !.state = "armed"]
                        /\ UNCHANGED <<out, pr>>
                   ELSE Stop(e, IF w.n = 0 THEN "audit_invalid" ELSE "revalidation_failed")
                /\ UNCHANGED clock
       \/ \* time runs out between two of the writes
          \E n \in 1..2 :
            /\ db' = [db EXCEPT !.events = @ \o SubSeq(list, 1, n), !.row = "forwarding"]
            /\ clock' = 1
            /\ Stop([ex EXCEPT !.read = FALSE, !.expected = @ \o SubSeq(list, 1, n),
                               !.startReturned = TRUE], "deadline")
  /\ UNCHANGED <<ctx, active, au, seal, caller, closer>>

MayStartAnyway(w) == TRUE

\* An append that throws leaves through the catch block: the child is not started.
MayStart(w) == w.how = "ok"

\* The spawn intent is durable and the fence is passed before spawn(), which
\* may throw; nothing runs in between.
Spawn ==
  /\ ex.pc = "second"
  /\ IF Fence(TRUE) # "none" \/ ~Verify
     THEN Stop([ex EXCEPT !.read = FALSE],
               IF Fence(TRUE) # "none" THEN Fence(TRUE) ELSE "revalidation_failed") /\ UNCHANGED db
     ELSE \E w \in Writes(<<SPAWN>>) :
            LET e == [ex EXCEPT !.read = FALSE, !.expected = @ \o Accepted(<<SPAWN>>, w),
                                !.pending = w.how # "ok"]
            IN  /\ db' = [db EXCEPT !.events = @ \o Committed(<<SPAWN>>, w)]
                /\ IF ~MayStart(w) THEN Stop(e, "revalidation_failed")
                   ELSE \/ Stop([e EXCEPT !.attempted = TRUE], "spawn_failed")
                        \/ /\ ex' = [e EXCEPT !.pc = "running", !.attempted = TRUE, !.child = "starting"]
                           /\ UNCHANGED <<lis, out, pr>>
  /\ UNCHANGED <<ctx, active, au, seal, caller, clock, closer>>

\* The wait for the child is over: with a failure, or with exit code 0 and a
\* last revalidation.
Wake ==
  /\ ex.pc = "running" /\ ex.woken
  /\ IF ex.failure = "none" /\ Fence(FALSE) = "none"
     THEN ex' = [ex EXCEPT !.pc = "after", !.read = TRUE] /\ UNCHANGED <<lis, out, pr>>
     ELSE Stop(ex, Fence(FALSE))
  /\ UNCHANGED <<ctx, active, au, seal, db, caller, clock, closer>>

\* #revalidateAfterChild() passes or not: a complete result is not available yet.
AfterChild ==
  /\ ex.pc = "after"
  /\ Stop([ex EXCEPT !.read = FALSE],
          IF Fence(FALSE) # "none" THEN Fence(FALSE)
          ELSE IF Verify THEN "completion_unavailable" ELSE "revalidation_failed")
  /\ UNCHANGED <<ctx, active, au, seal, db, caller, clock, closer>>

StatusUnobserved ==
  IF ex.startReturned /\ lis.clean THEN "execution_error" ELSE "outcome_unknown"

\* Only a run whose start is certain, whose child's end was observed and whose
\* listener closed cleanly is an execution error; any other is of unknown outcome.
TerminalStatus ==
  IF ex.startReturned /\ (ex.child = "none" \/ ex.closeObserved) /\ lis.clean
  THEN "execution_error" ELSE "outcome_unknown"

\* After the stop: the outcome is written once, never after an uncertain start,
\* and an independent read-only connection reconciles what is really there.
Finish ==
  /\ ex.pc = "stopping" /\ lis.closing = "done"
  /\ \E w \in {"ok", "lost", "torn"}, readable \in BOOLEAN :
       LET status    == TerminalStatus
           attempts  == ex.startReturned /\ Verify
           events    == IF attempts /\ w # "lost" THEN db.events \o TERMINAL ELSE db.events
           matches   == CASE attempts -> events = ex.expected \o TERMINAL
                          [] ~attempts /\ ex.startReturned -> FALSE
                          [] ~ex.startReturned /\ ex.pending -> events \in {ex.expected, Append(ex.expected, START)}
                          [] OTHER -> events = ex.expected
           proven    == readable /\ ~db.foreign /\ matches /\ ~ex.read
       IN  /\ db' = [db EXCEPT !.events = events,
                               !.row = IF attempts /\ w # "lost" THEN status ELSE @]
           /\ ex' = [ex EXCEPT !.pc = "terminal", !.proven = proven,
                               !.status = IF proven /\ ex.startReturned THEN status ELSE "outcome_unknown"]
  /\ UNCHANGED <<ctx, out, active, lis, pr, au, seal, caller, clock, closer>>

\* An abandoned operation of the execution settles.
ExecutionReadSettles ==
  /\ ex.pc \in {"stopping", "terminal"} /\ ex.read
  /\ ex' = [ex EXCEPT !.read = FALSE]
  /\ UNCHANGED <<sessionVars, closer>>

----------------------------------------------------------------------------
(* The child and the other sources of failure.                               *)

\* A failure latched outside #run(): it also cuts the output and all that hangs on it.
LatchAndCut(code) ==
  /\ ex' = Latch(ex, code)
  /\ Cut({pr.output})

\* The 'spawn' event.
ChildSpawned ==
  /\ ex.child = "starting" /\ ex.pc # "terminal"
  /\ ex' = [ex EXCEPT !.child = "alive", !.created = TRUE]
  /\ UNCHANGED <<sessionVars, closer>>

\* The 'error' event of a child that could not be started, or output over the limit.
ChildFails ==
  /\ ex.child \in {"starting", "alive"} /\ ex.pc \in {"running", "after", "stopping"}
  /\ IF ex.child = "alive" THEN LatchAndCut("output_overflow")
     ELSE /\ ex' = [Latch(ex, "process_error") EXCEPT !.child = "exited1"]
          /\ Cut({pr.output})
  /\ UNCHANGED <<ctx, active, seal, db, caller, clock, closer>>

\* The process ends: by itself, or signalled by #stopAndDrain().
ChildExits ==
  /\ ex.child = "alive"
  /\ \E c \in {"exited0", "exited1"} : ex' = [ex EXCEPT !.child = c]
  /\ UNCHANGED <<sessionVars, closer>>

\* The 'close' event, ignored once the execution is terminal.
ChildCloses ==
  /\ ex.child \in {"exited0", "exited1"} /\ ~ex.closeObserved /\ ex.pc # "terminal"
  /\ LET e == [ex EXCEPT !.closeObserved = TRUE, !.woken = TRUE]
     IN  IF ex.created /\ ex.child = "exited0"
         THEN ex' = e /\ UNCHANGED <<out, pr, lis, au>>
         ELSE ex' = Latch(e, "process_error") /\ Cut({pr.output})
  /\ UNCHANGED <<ctx, active, seal, db, caller, clock, closer>>

ExecutionTimer ==
  /\ ex.pc = "running" /\ clock = 2 /\ ex.failure = "none"
  /\ LatchAndCut("deadline")
  /\ UNCHANGED <<ctx, active, seal, db, caller, clock, closer>>

\* The caller aborts the signal it gave to authorize().
CallerAborts ==
  /\ ~caller /\ au.pc # "idle"
  /\ caller' = TRUE
  /\ IF ex.pc \in {"none", "terminal"}
     THEN au' = CancelTicket(au) /\ UNCHANGED <<ex, out, pr, lis>>
     ELSE LatchAndCut("cancelled")
  /\ UNCHANGED <<ctx, active, seal, db, clock, closer>>

\* The listener's lifetime ends, its server fails, or a request reaches it while armed.
ListenerRevoked ==
  /\ lis.state # "none" /\ lis.closing = "no" /\ ~lis.aborted
  /\ lis' = RevokeListener(lis)
  /\ out' = AbortOutputs(Linked)
  /\ pr' = RevokePreparation(pr)
  /\ au' = CancelTicket(au)
  /\ ex' = Latch(ex, "cancelled")
  /\ UNCHANGED <<ctx, active, seal, db, caller, clock, closer>>

----------------------------------------------------------------------------
(* closeOutputIntent() and closeContext().                                   *)

LatchedForRevocation == Latch(ex, "cancelled")

\* stopForRevocation(): latch; an execution nobody has claimed is run to its stop.
StoppedForRevocation ==
  LET e == Latch(ex, "cancelled") IN IF ex.pc = "reserved" THEN Stopping(e) ELSE e

ListenerAfterRevocation ==
  LET l == RevokeListener(lis) IN IF ex.pc = "reserved" THEN StartClose(l) ELSE l

CloseOutputIntent(o) ==
  /\ out[o].registered
  /\ out' = [AbortOutputs({o}) EXCEPT ![o].registered = FALSE, ![o].closer = "stopping"]
  /\ IF o \in Linked
     THEN /\ pr' = RevokePreparation(pr) /\ au' = CancelTicket(au)
          /\ ex' = StoppedForRevocation /\ lis' = ListenerAfterRevocation
     ELSE UNCHANGED <<pr, au, ex, lis>>
  /\ UNCHANGED <<ctx, active, seal, db, caller, clock, closer>>

Owns(o) == ex.pc # "none" /\ pr.output = o

\* The execution has ended: listeners of the context that no execution owns are closed.
OutputStopped(o) ==
  /\ out[o].closer = "stopping" /\ (Owns(o) => ex.pc = "terminal")
  /\ out' = [out EXCEPT ![o].closer = "listeners"]
  /\ lis' = IF ctx = "open" /\ ~lis.executionOwned THEN StartClose(lis) ELSE lis
  /\ UNCHANGED <<ctx, active, pr, au, seal, db, caller, clock, ex, closer>>

StartRelease(r) == IF r = "no" THEN "running" ELSE r

OutputListenersClosed(o) ==
  /\ out[o].closer = "listeners" /\ lis.closing # "running"
  /\ out' = [out EXCEPT ![o].closer = "releasing", ![o].release = StartRelease(@),
                        ![o].inContext = @ /\ ctx # "open"]
  /\ UNCHANGED <<ctx, active, lis, pr, au, seal, db, caller, clock, ex, closer>>

PreparationDrained(o) == pr.output = o => ~pr.read

\* No operation of a preparation or of the execution may still be under way.
CustodyDrained(o) == pr.output = o => ~pr.read /\ ~ex.read

\* #releaseOutputCustody(), shared by both closes: custody is drained first.
ReleaseOutputCustody(o) ==
  /\ out[o].release = "running" /\ CustodyDrained(o)
  /\ out' = [out EXCEPT ![o].release = "done", ![o].descriptor = "closed"]
  /\ active' = FALSE
  /\ UNCHANGED <<ctx, lis, pr, au, seal, db, caller, clock, ex, closer>>

\* The release is done, or its five seconds are over and the close fails.
OutputClosed(o) ==
  /\ out[o].closer = "releasing"
  /\ out' = [out EXCEPT ![o].closer = IF out[o].release = "done" THEN "done" ELSE "failed"]
  /\ UNCHANGED <<ctx, active, lis, pr, au, seal, db, caller, clock, ex, closer>>

CloseContext ==
  /\ ctx = "open"
  /\ ctx' = "closing" /\ closer' = "stopping"
  /\ out' = [o \in Outputs |-> IF out[o].inContext \/ o \in Linked
                              THEN [out[o] EXCEPT !.registered = FALSE, !.aborted = TRUE] ELSE out[o]]
  /\ pr' = RevokePreparation(pr)
  /\ au' = IF au.ticket = "pending" THEN [au EXCEPT !.ticket = "cancelled"] ELSE au
  /\ ex' = StoppedForRevocation
  /\ lis' = ListenerAfterRevocation
  /\ UNCHANGED <<active, seal, db, caller, clock>>

ContextAborted ==
  /\ closer = "stopping"
  /\ closer' = "listeners"
  /\ lis' = StartClose(lis)
  /\ UNCHANGED <<ctx, out, active, pr, au, seal, db, caller, clock, ex>>

ContextStopped ==
  /\ closer = "stopping" /\ ex.pc \in {"none", "terminal"}
  /\ closer' = "listeners"
  /\ lis' = StartClose(lis)
  /\ UNCHANGED <<ctx, out, active, pr, au, seal, db, caller, clock, ex>>

\* Only the outputs the context held when the close began are released.
Held == {o \in Outputs : out[o].inContext /\ ~out[o].registered}

ContextListenersClosed ==
  /\ closer = "listeners" /\ lis.closing # "running"
  /\ closer' = "releasing"
  /\ out' = [o \in Outputs |-> IF o \in Held THEN [out[o] EXCEPT !.release = StartRelease(@)] ELSE out[o]]
  /\ UNCHANGED <<ctx, active, lis, pr, au, seal, db, caller, clock, ex>>

\* Every release has settled or run out of time; dashboard.close() may reject as well.
ContextClosed ==
  /\ closer = "releasing"
  /\ ctx' = "closed"
  /\ closer' \in IF \A o \in Held : out[o].release = "done" THEN {"done", "failed"} ELSE {"failed"}
  /\ out' = [o \in Outputs |-> [out[o] EXCEPT !.inContext = FALSE]]
  /\ UNCHANGED <<active, lis, pr, au, seal, db, caller, clock, ex>>

----------------------------------------------------------------------------
ExecutionStep ==
  \/ CreateDormantConcreteExecution \/ Execute \/ RevalidationEnds \/ StartAndArm \/ Spawn
  \/ Wake \/ AfterChild \/ Finish \/ ExecutionReadSettles
  \/ ChildSpawned \/ ChildFails \/ ChildExits \/ ChildCloses \/ ExecutionTimer
  \/ CallerAborts \/ ListenerRevoked
  \/ \E o \in Outputs : CloseOutputIntent(o) \/ OutputStopped(o) \/ OutputListenersClosed(o)
                         \/ ReleaseOutputCustody(o) \/ OutputClosed(o)
  \/ CloseContext \/ ContextStopped \/ ContextListenersClosed \/ ContextClosed

Next == (SessionStep /\ UNCHANGED <<ex, closer>>) \/ ExecutionStep

\* What the runtime guarantees: timers fire, promises whose deadline is a timer
\* settle, and an execution that has begun is driven on.
\* Nothing is assumed of the person, of the caller, of the child or of abandoned reads.
Fairness ==
  /\ WF_vars(Tick /\ UNCHANGED <<ex, closer>>)
  /\ WF_vars(ListenerClosed /\ UNCHANGED <<ex, closer>>)
  /\ WF_vars(RevalidationEnds) /\ WF_vars(ExecutionTimer) /\ WF_vars(Wake) /\ WF_vars(Finish)
  /\ \A o \in Outputs : /\ WF_vars(OutputStopped(o)) /\ WF_vars(OutputListenersClosed(o))
                         /\ WF_vars(OutputClosed(o))
  /\ WF_vars(ContextStopped) /\ WF_vars(ContextListenersClosed) /\ WF_vars(ContextClosed)

Spec == ExecutionInit /\ [][Next]_vars

FairSpec == Spec /\ Fairness

----------------------------------------------------------------------------
Covered(n) ==
  LET all == AUTHORIZED_V2_EVENTS \o <<START>> \o ARM \o <<SPAWN>>
  IN  Len(db.events) >= n /\ SubSeq(db.events, 1, n) = SubSeq(all, 1, n)

\* Every effect has its evidence first, in order and durable: the seal the
\* approved authorization, the armed listener the execution start and the arm
\* intent, the attempt to start a child all of these and the spawn intent.
EffectsAreCovered ==
  /\ seal # "none" => Covered(8) /\ au.ticket = "approved"
  /\ lis.state = "armed" => Covered(11)
  /\ ex.attempted => Covered(12)

\* What the terminal proof says is what the database and the world hold: a proven
\* result names the status of the durable row, and execution_error is reported only
\* when the child's end was observed, the listener is closed and no read is pending.
ProofIsReal ==
  ex.pc = "terminal" =>
    /\ ex.proven /\ ex.startReturned => db.row = ex.status
    /\ ex.status = "execution_error" =>
         /\ ex.proven /\ lis.state = "closed"
         /\ ex.child \in {"none", "exited0", "exited1"}
         /\ \E i \in 1..Len(db.events) : db.events[i] = "outcome_receipt_finalized"

\* The descriptor of an output is closed, and its path given up, only when nothing
\* can use it any more: no read is under way, the execution has ended and will not
\* start, and no preparation goes on.
CustodyOutlivesUse ==
  \A o \in Outputs : out[o].descriptor = "closed" /\ pr.output = o =>
    /\ ~pr.read /\ ~ex.read /\ ex.pc \in {"none", "terminal"}
    /\ pr.pc \in {"constructing", "binding", "prepared"} => pr.revoked

\* A closed context leaves nothing at work: the listener has been closed, no approval
\* can still be given, no seal can be used and the execution is terminal.
ClosedContextIsQuiet ==
  ctx = "closed" =>
    /\ lis.state # "none" => lis.closing = "done"
    /\ au.ticket # "pending" \/ au.pc # "waiting"
    /\ ex.pc \in {"none", "terminal"} /\ ~AuthenticatesPrepared

\* Closing an output or a context ends the use of it first: what is closed is at rest.
ClosedMeansIdle == CustodyOutlivesUse /\ ClosedContextIsQuiet

\* Whatever was begun ends: an execution reaches its terminal proof and both
\* closes return, even when a read never settles or the child never closes.
EverythingEnds ==
  /\ (ex.pc \notin {"none", "reserved", "terminal"}) ~> (ex.pc = "terminal")
  /\ (closer = "stopping") ~> (closer \in {"done", "failed"})
  /\ \A o \in Outputs : (out[o].closer = "stopping") ~> (out[o].closer \in {"done", "failed"})
=============================================================================
