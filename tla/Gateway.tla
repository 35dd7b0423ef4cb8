------------------------------- MODULE Gateway -------------------------------
(***************************************************************************)
(* The MCP gateway (gateway/gateway.ts, the tools/call handler of          *)
(* createGateway) together with the components it drives: the approval     *)
(* service and the audit recorder, which are instances of their own        *)
(* modules, the upstream MCP server, the downstream client, the person at  *)
(* the dashboard and the shutdown sequence of cli/main.ts.                 *)
(*                                                                         *)
(* A handler is an async function.  Between two awaits it runs alone:      *)
(* `running' names the handler whose synchronous segment is being run, and *)
(* no other JavaScript callback may start until it is idle again.  Within  *)
(* a segment every SQLite transaction is a step of its own, so the process *)
(* may die, and a transaction may fail, between any two of them.           *)
(***************************************************************************)
EXTENDS Integers, FiniteSets

CONSTANTS
    Calls,            \* tools/call requests; also the ids of their tickets
    TTLs,             \* approvals.ttl of the active policy
    MaxTime,          \* bound on time, see ApprovalService
    MaxFailures,      \* bound on failing transactions, see AuditRecorder
    MaxEvents,        \* bound on audit events of a call, see AuditRecorder
    NoCall

ASSUME GatewayAssumption ==
    /\ TTLs \subseteq Nat \ {0}      \* approval_ttl_seconds is positive
    /\ NoCall \notin Calls

VARIABLES
    \* The approval service.
    mono, wall, closed, requested, pending, visible, published, expiresAt, due,
    outcome, answers, settledAt,
    \* The audit recorder and its database.
    live, boundary, decision, terminal, dispatched, authorization, required,
    approval, issued, status, completed, approvalRow, authEvents, startEvents,
    outcomeEvents, events, failures,
    \* The handlers.
    pc,          \* the step the handler of each call is at
    running,     \* the handler whose synchronous segment is running, or NoCall
    aborted,     \* calls whose callAbort signal is aborted
    result,      \* the upstream result a completing handler holds
    reply,       \* what the downstream client was answered
    \* The upstream server.
    sent,        \* requests written to the upstream server, per call
    executed,    \* times the upstream server has run the tool, per call
    \* The process.
    up,          \* the parts that close() has not closed yet
    crashed,     \* the process has died
    hasCoordinator   \* createGateway was given an approval coordinator

Approvals == INSTANCE ApprovalService WITH Tickets <- Calls
Audit     == INSTANCE AuditRecorder

approvalVars == <<mono, wall, closed, requested, pending, visible, published,
                  expiresAt, due, outcome, answers, settledAt>>
auditVars    == <<live, boundary, decision, terminal, dispatched, authorization,
                  required, approval, issued, status, completed, approvalRow,
                  authEvents, startEvents, outcomeEvents, events, failures>>
handlerVars  == <<pc, running, aborted, result, reply>>
upstreamVars == <<sent, executed>>
processVars  == <<up, crashed, hasCoordinator>>
vars == <<approvalVars, auditVars, handlerVars, upstreamVars, processVars>>

\* Steps of a handler.  "evaluating", "awaiting" and "upstream" are its awaits.
Waits    == {"evaluating", "awaiting", "upstream"}
Segments == {"deny", "ask", "record", "resolve", "block", "cancelled", "forward",
             "complete", "recover", "reject"}
Replies  == {"none", "denied", "approval_unavailable", "approval_denied",
             "approval_expired", "result", "error"}
\* What close() of cli/main.ts closes after the approval service, in its order.
CloseOrder == <<"downstream", "dashboard", "upstream", "database">>
Parts == {CloseOrder[i] : i \in DOMAIN CloseOrder}

TypeOK ==
    /\ Approvals!TicketTypeOK
    /\ Audit!RecorderTypeOK
    /\ pc \in [Calls -> Waits \cup Segments \cup {"idle", "done"}]
    /\ running \in Calls \cup {NoCall}
    /\ aborted \subseteq Calls
    /\ result \in [Calls -> {"none", "ok", "error"}]
    /\ reply \in [Calls -> Replies]
    /\ sent \in [Calls -> Nat]
    /\ executed \in [Calls -> Nat]
    /\ up \subseteq Parts
    /\ {crashed, hasCoordinator} \subseteq BOOLEAN

Init ==
    /\ Approvals!TicketInit
    /\ Audit!RecorderInit
    /\ pc = [c \in Calls |-> "idle"]
    /\ running = NoCall
    /\ aborted = {}
    /\ result = [c \in Calls |-> "none"]
    /\ reply = [c \in Calls |-> "none"]
    /\ sent = [c \in Calls |-> 0]
    /\ executed = [c \in Calls |-> 0]
    /\ up = Parts
    /\ crashed = FALSE
    /\ hasCoordinator \in BOOLEAN

-----------------------------------------------------------------------------
(* The event loop. *)

\* The process runs and its database is open.  What handlers do after the
\* database is closed has no durable effect: every audit method throws.
Alive == ~crashed /\ "database" \in up

\* A callback may start: no synchronous segment is running.
Idle == Alive /\ running = NoCall

\* The next statement of the running segment of c.
At(c, step) == Alive /\ running = c /\ pc[c] = step

Goto(c, step) == pc' = [pc EXCEPT ![c] = step]

\* The segment goes on, or gives the event loop back at an await.
Continue(c, step) == Goto(c, step) /\ running' = c
Await(c, step) == Goto(c, step) /\ running' = NoCall

\* The handler returns or throws; its finally block forgets the call.
Answer(c, r) ==
    /\ Await(c, "done")
    /\ reply' = [reply EXCEPT ![c] = r]

Quiet == UNCHANGED <<upstreamVars, processVars>>

-----------------------------------------------------------------------------
(* The tools/call handler. *)

\* A request arrives; the handler runs up to `await interceptor.evaluate'.
Receive(c) ==
    /\ Idle
    /\ "downstream" \in up
    /\ pc[c] = "idle"
    /\ Await(c, "evaluating")
    /\ UNCHANGED <<approvalVars, auditVars, aborted, result, reply>>
    /\ Quiet

\* A tool whose exact identity is required and missing is denied without an
\* evaluation, in the same segment.
ReceiveWithoutIdentity(c) ==
    /\ Idle
    /\ "downstream" \in up
    /\ pc[c] = "idle"
    /\ Audit!Begin(c, "generic", "deny")
    /\ Continue(c, "deny")
    /\ UNCHANGED <<approvalVars, aborted, result, reply>>
    /\ Quiet

\* The policy has decided; audit.begin() records the decision.
Evaluated(c, d) ==
    /\ Idle
    /\ pc[c] = "evaluating"
    /\ Audit!Begin(c, "generic", d)
    /\ Continue(c, CASE d = "deny" -> "deny" [] d = "ask" -> "ask" [] OTHER -> "forward")
    /\ UNCHANGED <<approvalVars, aborted, result, reply>>
    /\ Quiet

\* audit.begin() throws: the call is answered with an error and never forwarded.
BeginThrows(c, step) ==
    /\ Idle
    /\ pc[c] = step
    /\ Audit!BeginThrows(c)
    /\ Answer(c, "error")
    /\ UNCHANGED <<approvalVars, aborted, result>>
    /\ Quiet

\* Mutant of Throws: the failure to record is logged and the call goes on.
ThrowsFailsOpen(c, step) ==
    /\ At(c, step)
    /\ Audit!RollBack(c)
    /\ Await(c, "upstream")
    /\ sent' = [sent EXCEPT ![c] = @ + 1]
    /\ UNCHANGED <<approvalVars, aborted, result, reply, executed, processVars>>

\* An audit method throws and nothing catches it: the request fails.
Throws(c, step) ==
    /\ At(c, step)
    /\ Audit!RollBack(c)
    /\ Answer(c, "error")
    /\ UNCHANGED <<approvalVars, aborted, result>>
    /\ Quiet

\* Mutant of Block: a failing markBlocked() is swallowed.
BlockSwallows(c, step, st, r) ==
    /\ At(c, step)
    /\ Audit!MarkBlocked(c, st) \/ Audit!MarkBlockedThrows(c, st)
    /\ Answer(c, r)
    /\ UNCHANGED <<approvalVars, aborted, result>>
    /\ Quiet

\* markBlocked(st), for a denial, a missing coordinator or a failed approval.
\* projectResult() of the SDK may refuse the answer.
Block(c, step, st, r) ==
    /\ At(c, step)
    /\ \/ Audit!MarkBlocked(c, st) /\ (Answer(c, r) \/ Answer(c, "error"))
       \/ Audit!MarkBlockedThrows(c, st) /\ Answer(c, "error")
    /\ UNCHANGED <<approvalVars, aborted, result>>
    /\ Quiet

Deny(c) == Block(c, "deny", "denied", "denied")

ApprovalUnavailable(c) ==
    /\ ~hasCoordinator
    /\ Block(c, "ask", "approval_unavailable", "approval_unavailable")

\* approval.coordinator.request(): the ticket is in the dashboard at once.
Ask(c, ttl) ==
    /\ At(c, "ask")
    /\ hasCoordinator
    /\ Approvals!Request(c, ttl)
    /\ Continue(c, "record")
    /\ UNCHANGED <<auditVars, aborted, result, reply>>
    /\ Quiet

\* request() throws because close() has closed the service: the row keeps the
\* status it has.
AskThrows(c, ttl) ==
    /\ At(c, "ask")
    /\ hasCoordinator
    /\ ~Approvals!CanRequest(ttl)
    /\ Answer(c, "error")
    /\ UNCHANGED <<approvalVars, auditVars, aborted, result>>
    /\ Quiet

\* markApprovalRequested() and the await; a call that was cancelled meanwhile
\* cancels its ticket first.
RecordRequest(c) ==
    /\ At(c, "record")
    /\ Audit!MarkApprovalRequested(c)
    /\ IF c \in aborted THEN Approvals!Cancel(c) ELSE UNCHANGED approvalVars
    /\ Await(c, "awaiting")
    /\ UNCHANGED <<aborted, result, reply>>
    /\ Quiet

RecordRequestThrows(c) ==
    /\ At(c, "record")
    /\ Audit!RollBack(c)
    /\ Approvals!Cancel(c)
    /\ Answer(c, "error")
    /\ UNCHANGED <<aborted, result>>
    /\ Quiet

\* Mutant of Resume: only a person's decision wakes the handler.
ResumeOnDecision(c) ==
    /\ Idle
    /\ pc[c] = "awaiting"
    /\ outcome[c] \in Approvals!Decisions
    /\ Continue(c, "resolve")
    /\ UNCHANGED <<approvalVars, auditVars, aborted, result, reply>>
    /\ Quiet

\* The ticket's promise has resolved; the handler goes on in a later task.
Resume(c) ==
    /\ Idle
    /\ pc[c] = "awaiting"
    /\ outcome[c] # Approvals!Unsettled
    /\ Continue(c, "resolve")
    /\ UNCHANGED <<approvalVars, auditVars, aborted, result, reply>>
    /\ Quiet

RecordOutcome(c) ==
    /\ At(c, "resolve")
    /\ Audit!MarkApprovalResolved(c, outcome[c])
    /\ Continue(c, IF outcome[c] # "approved" THEN "block"
                   ELSE IF c \in aborted THEN "cancelled" ELSE "forward")
    /\ UNCHANGED <<approvalVars, aborted, result, reply>>
    /\ Quiet

\* Mutants of BlockUnapproved: every refusal is recorded as a denial; a
\* cancellation is answered like a refusal.
BlockAsDenied(c) == Block(c, "block", "approval_denied", "approval_denied")

\* A ticket that was not approved; cancellation is answered with an error.
BlockUnapproved(c) ==
    Block(c, "block", Audit!ResolvedStatus(outcome[c]),
          IF outcome[c] = "cancelled" THEN "error" ELSE Audit!ResolvedStatus(outcome[c]))

\* markFailed(code), then the request fails whether or not it was written.
Fail(c, step, code) ==
    /\ At(c, step)
    /\ Audit!MarkFailed(c, code) \/ Audit!MarkFailedThrows(c, code)
    /\ Answer(c, "error")
    /\ UNCHANGED <<approvalVars, aborted, result>>
    /\ Quiet

\* Mutant of CancelledBeforeExecution: the row is left as it is.
CancelledUnrecorded(c) ==
    /\ At(c, "cancelled")
    /\ Answer(c, "error")
    /\ UNCHANGED <<approvalVars, auditVars, aborted, result>>
    /\ Quiet

\* Approved, but the client has cancelled: never forwarded.
CancelledBeforeExecution(c) == Fail(c, "cancelled", "other")

\* markForwarding(), then callTool(), which writes the request to the upstream
\* server; with a signal that is aborted already it may reject before that.
Forward(c) ==
    /\ At(c, "forward")
    /\ Audit!MarkForwarding(c)
    /\ Await(c, "upstream")
    /\ \/ sent' = [sent EXCEPT ![c] = @ + 1]
       \/ c \in aborted /\ UNCHANGED sent
    /\ UNCHANGED <<approvalVars, aborted, result, reply, executed, processVars>>

\* callTool() resolves with a result, an error result included.
Returned(c, r) ==
    /\ Idle
    /\ pc[c] = "upstream"
    /\ "upstream" \in up
    /\ sent[c] > 0
    /\ r = "ok" => executed[c] > 0
    /\ result' = [result EXCEPT ![c] = r]
    /\ Continue(c, "complete")
    /\ UNCHANGED <<approvalVars, auditVars, aborted, reply>>
    /\ Quiet

\* callTool() rejects: the signal, a protocol error, the SDK's request timeout
\* or a closed connection.  The tool may have run all the same.
Rejected(c) ==
    /\ Idle
    /\ pc[c] = "upstream"
    /\ Continue(c, "reject")
    /\ UNCHANGED <<approvalVars, auditVars, aborted, result, reply>>
    /\ Quiet

RecordRejection(c) ==
    Fail(c, "reject", IF c \in aborted THEN "cancelled" ELSE "upstream_error")

\* markCompleted() and projectResult(), which may refuse the result once the
\* row is finished: the handle is terminal then and markFailed() throws.
Complete(c) ==
    /\ At(c, "complete")
    /\ \/ /\ Audit!MarkCompleted(c, result[c] = "error")
          /\ Answer(c, "result") \/ Answer(c, "error")
       \/ Audit!RollBack(c) /\ Continue(c, "recover") /\ UNCHANGED reply
    /\ UNCHANGED <<approvalVars, aborted, result>>
    /\ Quiet

\* The outcome could not be written: one attempt to say so, never a retry.
Recover(c) == Fail(c, "recover", "audit_completion_failed")

-----------------------------------------------------------------------------
(* Everybody else. *)

\* notifications/cancelled, or the SDK aborting the handler: the signal's
\* listener cancels a ticket the handler is waiting for.
Cancel(c) ==
    /\ Idle
    /\ pc[c] \notin {"idle", "done"}
    /\ c \notin aborted
    /\ aborted' = aborted \cup {c}
    /\ IF pc[c] = "awaiting" THEN Approvals!Cancel(c) ELSE UNCHANGED approvalVars
    /\ UNCHANGED <<auditVars, pc, running, result, reply>>
    /\ Quiet

\* The person decides in the dashboard.
HumanDecides(c, d) ==
    /\ Idle
    /\ "dashboard" \in up
    /\ Approvals!Decide(c, d)
    /\ UNCHANGED <<auditVars, handlerVars>>
    /\ Quiet

TimerFires(c) ==
    /\ Idle
    /\ Approvals!TimerFires(c)
    /\ UNCHANGED <<auditVars, handlerVars>>
    /\ Quiet

Tick ==
    /\ Idle
    /\ Approvals!Tick
    /\ UNCHANGED <<auditVars, handlerVars>>
    /\ Quiet

\* The upstream server runs a tool whose request it has received, be the
\* gateway alive or not.
UpstreamExecutes(c) ==
    /\ executed[c] < sent[c]
    /\ executed' = [executed EXCEPT ![c] = @ + 1]
    /\ UNCHANGED <<approvalVars, auditVars, handlerVars, sent, processVars>>

\* Mutant of CloseApprovals: the flag is set and the tickets stay.
CloseKeepsTickets ==
    /\ Idle
    /\ ~closed
    /\ closed' = TRUE
    /\ UNCHANGED <<mono, wall, requested, pending, visible, published, expiresAt, due,
                   outcome, answers, settledAt, auditVars, handlerVars>>
    /\ Quiet

\* close(): the approval service first, synchronously with the signal.
CloseApprovals ==
    /\ Idle
    /\ Approvals!Close
    /\ UNCHANGED <<auditVars, handlerVars>>
    /\ Quiet

\* The rest of close(), one awaited part after the other.
ClosePart(i) ==
    /\ Idle
    /\ closed
    /\ CloseOrder[i] \in up
    /\ \A j \in 1..(i - 1) : CloseOrder[j] \notin up
    /\ up' = up \ {CloseOrder[i]}
    /\ UNCHANGED <<approvalVars, auditVars, handlerVars, upstreamVars, crashed,
                   hasCoordinator>>

\* The process dies, within a synchronous segment or not.
Crash ==
    /\ Alive
    /\ crashed' = TRUE
    /\ Audit!Crash \/ (live = {} /\ UNCHANGED auditVars)
    /\ UNCHANGED <<approvalVars, handlerVars, upstreamVars, up, hasCoordinator>>

HandlerStep(c) ==
    \/ \E d \in Audit!EffectiveDecisions : Evaluated(c, d)
    \/ Deny(c)
    \/ ApprovalUnavailable(c)
    \/ \E ttl \in TTLs : Ask(c, ttl) \/ AskThrows(c, ttl)
    \/ RecordRequest(c)
    \/ RecordRequestThrows(c)
    \/ Resume(c)
    \/ RecordOutcome(c)
    \/ BlockUnapproved(c)
    \/ CancelledBeforeExecution(c)
    \/ Forward(c)
    \/ RecordRejection(c)
    \/ Complete(c)
    \/ Recover(c)
    \/ BeginThrows(c, "evaluating")
    \/ \E step \in {"resolve", "forward"} : Throws(c, step)

Next ==
    \/ \E c \in Calls :
         \/ Receive(c)
         \/ ReceiveWithoutIdentity(c)
         \/ "downstream" \in up /\ BeginThrows(c, "idle")
         \/ HandlerStep(c)
         \/ \E r \in {"ok", "error"} : Returned(c, r)
         \/ Rejected(c)
         \/ Cancel(c)
         \/ \E d \in Approvals!Decisions : HumanDecides(c, d)
         \/ TimerFires(c)
         \/ UpstreamExecutes(c)
    \/ Tick
    \/ CloseApprovals
    \/ \E i \in DOMAIN CloseOrder : ClosePart(i)
    \/ Crash

Spec == Init /\ [][Next]_vars

\* The event loop goes on with a handler that can go on, time passes, timers
\* run, and the SDK's request timeout ends a call the upstream server leaves
\* unanswered.  Nothing is assumed of the person, the client, the upstream
\* server or whoever stops the process.
FairSpec ==
    /\ Spec
    /\ WF_vars(Tick)
    /\ \A c \in Calls : /\ WF_vars(HandlerStep(c))
                        /\ WF_vars(TimerFires(c))
                        /\ WF_vars(Rejected(c))

-----------------------------------------------------------------------------
\* "This durable pre-execution event is the fail-closed boundary": whatever is
\* sent upstream was sent once, after its start was recorded, and for a call
\* that policy allows or whose ticket really resolved to approved.
ReleasedOnlyWhenAuthorized ==
    \A c \in Calls : sent[c] > 0 =>
        /\ sent[c] = 1
        /\ startEvents[c] # {}
        /\ \/ decision[c] = "allow"
           \/ decision[c] = "ask" /\ approvalRow[c] = "approved" /\ outcome[c] = "approved"

\* An answer is never better than the record: a call answered as blocked is
\* finished as blocked and was never sent; a call answered with a result has
\* its outcome receipt.
AnswerIsRecorded ==
    \A c \in Calls :
        /\ reply[c] \in {"denied", "approval_unavailable", "approval_denied", "approval_expired"}
             => c \in completed /\ status[c] = reply[c] /\ sent[c] = 0
        /\ reply[c] = "result" =>
             /\ outcomeEvents[c] # {}
             /\ status[c] = "completed" => executed[c] = 1

\* A person's refusal is final and their approval is not overstated: the
\* receipt of a finished call embeds what the ticket resolved to.
ReceiptTellsTheDecision ==
    \A c \in completed : \A a \in authEvents[c] :
        approvalRow[c] # "none" =>
            a.approval = approvalRow[c] /\ approvalRow[c] = outcome[c]

\* A handler that has ended leaves nothing open, whatever the client, the person
\* and the timers do: no ticket, so the dashboard never offers a decision that
\* nobody waits for, and, without failing transactions and before shutdown, no
\* call without a terminal record.
EveryCallIsFinished ==
    \A c \in Calls : pc[c] = "done" =>
        /\ Alive => c \notin pending
        /\ failures = 0 /\ ~closed => c \in completed

\* What the client was told and what the audit database keeps are one story: the
\* answer, the person's decision and the end of the call agree with the record.
RecordTellsTheStory == AnswerIsRecorded /\ ReceiptTellsTheDecision /\ EveryCallIsFinished

\* The gateway uses its components only through their operations: seen from the
\* recorder and from the approval service it is one of their clients.
UsesComponents == Audit!RecorderSpec /\ Approvals!TicketSpec

\* Every request is answered, unless the process stops: approvals expire even
\* if nobody decides, and no handler waits for another one.
EveryCallIsAnswered ==
    \A c \in Calls : pc[c] # "idle" ~> (pc[c] = "done" \/ ~Alive)
=============================================================================
