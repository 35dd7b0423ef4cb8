---------------------------- MODULE GatewayProofs ----------------------------
(***************************************************************************)
(* Proofs about the gateway, for any number of calls, of failing           *)
(* transactions and of closing or dying processes.                         *)
(*                                                                         *)
(* The step a handler is at says what its audit handle and its ticket      *)
(* are like: a call that has not been forwarded holds no receipt, so a     *)
(* block, an approval and a failure are recorded at most once and only     *)
(* before the start; a ticket is pending only while the handler of its     *)
(* call has it; and a settled ticket never changes, so what was recorded   *)
(* of it stays true.                                                       *)
(***************************************************************************)
EXTENDS Gateway, TLAPS

Steps == Waits \cup Segments \cup {"idle", "done"}

\* The parts of the state that belong to handlers, audit handles and tickets.
HandlerTypes ==
    /\ pc \in [Calls -> Steps]
    /\ result \in [Calls -> {"none", "ok", "error"}]
    /\ reply \in [Calls -> Replies]
    /\ sent \in [Calls -> Nat]
    /\ executed \in [Calls -> Nat]

AuditTypes ==
    /\ decision \in [Calls -> Audit!EffectiveDecisions]
    /\ approvalRow \in [Calls -> Audit!Resolutions \cup {"none", "pending"}]
    /\ DOMAIN authorization = Calls
    /\ DOMAIN approval = Calls
    /\ DOMAIN status = Calls
    /\ DOMAIN authEvents = Calls
    /\ DOMAIN startEvents = Calls
    /\ DOMAIN outcomeEvents = Calls
    /\ completed \subseteq Calls
    /\ failures \in Nat

TicketTypes == outcome \in [Calls -> Approvals!Outcomes \cup {Approvals!Unsettled}]

\* A ticket is pending only unsettled, and an id that was not handed out is unsettled.
TicketInv(c) ==
    /\ c \in pending => c \in requested /\ outcome[c] = Approvals!Unsettled
    /\ c \notin requested => outcome[c] = Approvals!Unsettled

\* Nothing durable but the row: neither a receipt nor a start.
Unreceipted(c) ==
    /\ c \notin completed /\ c \notin dispatched
    /\ authorization[c] = Audit!NoReceipt /\ authEvents[c] = {}

\* What policy and the person must have said of a call that is sent.
Permitted(c) ==
    \/ decision[c] = "allow"
    \/ decision[c] = "ask" /\ approvalRow[c] = "approved" /\ outcome[c] = "approved"

\* The receipts tell what the ticket resolved to.
Receipted(c) ==
    \A a \in authEvents[c] :
        approvalRow[c] # "none" => a.approval = approvalRow[c] /\ approvalRow[c] = outcome[c]

\* The approval the handle remembers is the ticket's.
Remembered(c) == approvalRow[c] = outcome[c] /\ approval[c] = outcome[c]

\* What the step of a handler says of its handle and its ticket.
StepInv(c) ==
    /\ pc[c] \in {"idle", "evaluating", "deny", "ask", "record"} =>
         Unreceipted(c) /\ approvalRow[c] = "none"
    /\ pc[c] = "deny" => decision[c] = "deny"
    /\ pc[c] \in {"ask", "record", "awaiting", "resolve", "block", "cancelled"} =>
         decision[c] = "ask"
    /\ pc[c] \in {"awaiting", "resolve"} => Unreceipted(c) /\ approvalRow[c] = "pending"
    /\ pc[c] = "resolve" => outcome[c] # Approvals!Unsettled
    /\ pc[c] \in {"block", "cancelled"} => Unreceipted(c) /\ Remembered(c)
    /\ pc[c] = "block" => outcome[c] \in {"denied", "expired", "cancelled"}
    /\ pc[c] = "cancelled" => outcome[c] = "approved"
    /\ pc[c] = "forward" =>
         /\ Unreceipted(c) /\ Permitted(c)
         /\ approvalRow[c] = "none" \/ Remembered(c)
    /\ pc[c] \in {"upstream", "complete", "recover", "reject"} =>
         /\ c \in dispatched /\ c \notin completed
         /\ authorization[c] # Audit!NoReceipt /\ Receipted(c)
    /\ pc[c] = "complete" => result[c] = "error" \/ executed[c] = 1
    /\ c \in pending => pc[c] \in {"record", "awaiting"}

\* What holds of a call whatever the step of its handler.
CallInv(c) ==
    /\ sent[c] \in {0, 1} /\ executed[c] <= sent[c]
    /\ sent[c] = 1 => c \in dispatched
    /\ c \in dispatched => startEvents[c] # {} /\ Permitted(c)
    /\ c \in completed => Receipted(c) /\ pc[c] = "done"
    /\ pc[c] = "done" /\ failures = 0 /\ ~closed => c \in completed
    /\ reply[c] # "none" => pc[c] = "done"
    /\ reply[c] \in {"denied", "approval_unavailable", "approval_denied", "approval_expired"} =>
         c \in completed /\ status[c] = reply[c] /\ sent[c] = 0
    /\ reply[c] = "result" =>
         outcomeEvents[c] # {} /\ (status[c] = "completed" => executed[c] = 1)

IInv ==
    /\ HandlerTypes /\ AuditTypes /\ TicketTypes
    /\ \A c \in Calls : TicketInv(c) /\ StepInv(c) /\ CallInv(c)

USE DEF Waits, Segments, Steps, Replies, Audit!EffectiveDecisions, Audit!Resolutions,
        Approvals!Outcomes, Approvals!Decisions, Approvals!Unsettled

-----------------------------------------------------------------------------
(* What a step leaves alone. *)

HandlerKept(d) ==
    /\ pc'[d] = pc[d] /\ result'[d] = result[d] /\ reply'[d] = reply[d]
    /\ sent'[d] = sent[d] /\ executed'[d] = executed[d]

AuditKept(d) ==
    /\ decision'[d] = decision[d] /\ authorization'[d] = authorization[d]
    /\ approval'[d] = approval[d] /\ status'[d] = status[d]
    /\ approvalRow'[d] = approvalRow[d] /\ authEvents'[d] = authEvents[d]
    /\ startEvents'[d] = startEvents[d] /\ outcomeEvents'[d] = outcomeEvents[d]
    /\ d \in dispatched' <=> d \in dispatched
    /\ d \in completed' <=> d \in completed

\* A ticket that the handler of d does not touch may be settled, by others and once.
TicketKept(d) ==
    /\ d \in pending' => d \in pending /\ outcome'[d] = outcome[d]
    /\ d \in requested' <=> d \in requested
    /\ outcome[d] # Approvals!Unsettled \/ d \notin requested => outcome'[d] = outcome[d]

\* Failures are only counted and the service stays closed.
Later == (failures' = 0 => failures = 0) /\ (closed => closed')

\* A call that a step leaves alone keeps its invariant.
LEMMA KeptInv ==
    ASSUME NEW d \in Calls, TicketInv(d), StepInv(d), CallInv(d),
           HandlerKept(d), AuditKept(d), TicketKept(d), Later
    PROVE  TicketInv(d)' /\ StepInv(d)' /\ CallInv(d)'
<1>1. TicketInv(d)'
  BY DEF TicketInv, TicketKept
<1>2. /\ Unreceipted(d) => Unreceipted(d)'
      /\ Receipted(d) => Receipted(d)'
      /\ Permitted(d) => Permitted(d)'
      /\ Remembered(d) /\ outcome[d] # Approvals!Unsettled => Remembered(d)'
  BY DEF Unreceipted, Receipted, Permitted, Remembered, AuditKept, TicketKept
<1>3. StepInv(d)'
  BY <1>2 DEF StepInv, HandlerKept, AuditKept, TicketKept, Permitted, Remembered
<1>4. CallInv(d)'
  BY <1>2 DEF CallInv, HandlerKept, AuditKept, Later
<1> QED
  BY <1>1, <1>3, <1>4

\* A step of the handler of c.
LEMMA OneCall ==
    ASSUME IInv, NEW c \in Calls, HandlerTypes', AuditTypes', TicketTypes', Later,
           \A d \in Calls \ {c} : HandlerKept(d) /\ AuditKept(d) /\ TicketKept(d),
           TicketInv(c)' /\ StepInv(c)' /\ CallInv(c)'
    PROVE  IInv'
BY KeptInv DEF IInv

\* A step in which no handler moves.
LEMMA NoCallMoves ==
    ASSUME IInv, HandlerTypes', AuditTypes', TicketTypes', Later,
           \A d \in Calls : HandlerKept(d) /\ AuditKept(d) /\ TicketKept(d)
    PROVE  IInv'
BY KeptInv DEF IInv

-----------------------------------------------------------------------------
(* The methods of the audit handle, as the handler of c sees them. *)

\* Only the handle and the rows of c change.
AuditOf(c) ==
    /\ AuditTypes' /\ (failures' = 0 => failures = 0)
    /\ \A d \in Calls \ {c} : AuditKept(d)

\* begin().
LEMMA BeginEffect ==
    ASSUME AuditTypes, NEW c \in Calls, NEW b, NEW d \in Audit!EffectiveDecisions, Audit!Begin(c, b, d)
    PROVE  /\ AuditOf(c) /\ decision'[c] = d
           /\ UNCHANGED <<dispatched, authorization, completed, approvalRow, authEvents,
                          startEvents, outcomeEvents, failures>>
BY DEF AuditTypes, AuditOf, AuditKept, Audit!Begin, Audit!UpdateStatus

\* A transaction fails and its method leaves the handle as it was.
LEMMA RollBackEffect ==
    ASSUME AuditTypes, NEW c \in Calls, Audit!RollBack(c) \/ Audit!BeginThrows(c)
    PROVE  AuditOf(c) /\ AuditKept(c) /\ failures' # 0
BY DEF AuditTypes, AuditOf, AuditKept, Audit!RollBack, Audit!BeginThrows, Audit!database,
       Audit!handle

\* markApprovalRequested().
LEMMA RequestedEffect ==
    ASSUME AuditTypes, NEW c \in Calls, Audit!MarkApprovalRequested(c)
    PROVE  /\ AuditOf(c) /\ approvalRow'[c] = "pending"
           /\ UNCHANGED <<decision, dispatched, authorization, completed, authEvents,
                          startEvents, outcomeEvents, failures>>
BY DEF AuditTypes, AuditOf, AuditKept, Audit!MarkApprovalRequested, Audit!UpdateStatus

\* markApprovalResolved().
LEMMA ResolvedEffect ==
    ASSUME AuditTypes, NEW c \in Calls, NEW o \in Audit!Resolutions,
           Audit!MarkApprovalResolved(c, o)
    PROVE  /\ AuditOf(c) /\ approvalRow'[c] = o /\ approval'[c] = o
           /\ UNCHANGED <<decision, dispatched, authorization, completed, authEvents,
                          startEvents, outcomeEvents, failures>>
BY DEF AuditTypes, AuditOf, AuditKept, Audit!MarkApprovalResolved, Audit!UpdateStatus

\* markBlocked(): the receipt embeds what the status says of the approval.
LEMMA BlockedEffect ==
    ASSUME AuditTypes, NEW c \in Calls, NEW st, Audit!MarkBlocked(c, st), authEvents[c] = {}
    PROVE  /\ AuditOf(c) /\ status'[c] = st /\ c \in completed' /\ c \notin dispatched
           /\ \A a \in authEvents'[c] : a.approval = Audit!BlockedApproval(c, st)
           /\ UNCHANGED <<decision, dispatched, approvalRow, startEvents, outcomeEvents, failures>>
<1>1. /\ authEvents'[c] = {Audit!BuildAuthorization(c, "blocked", Audit!BlockedApproval(c, st))}
      /\ status'[c] = st /\ completed' = completed \cup {c} /\ c \notin dispatched
  BY DEF AuditTypes, Audit!MarkBlocked, Audit!Add, Audit!Finish, Audit!UpdateStatus
<1>2. AuditOf(c)
  BY DEF AuditTypes, AuditOf, AuditKept, Audit!MarkBlocked, Audit!OverrideApproval, Audit!Add,
         Audit!Finish, Audit!UpdateStatus
<1> QED
  BY <1>1, <1>2 DEF Audit!MarkBlocked, Audit!BuildAuthorization

\* markBlocked() throws: no row changes.
LEMMA BlockedThrowsEffect ==
    ASSUME AuditTypes, NEW c \in Calls, NEW st, Audit!MarkBlockedThrows(c, st)
    PROVE  /\ AuditOf(c)
           /\ \/ failures' # 0
              \/ ~Audit!ReceiptIsValid(c, "blocked", Audit!BlockedApproval(c, st), TRUE)
           /\ UNCHANGED <<decision, dispatched, authorization, status, completed, approvalRow,
                          authEvents, startEvents, outcomeEvents>>
<1>1. UNCHANGED <<decision, dispatched, authorization, status, completed, approvalRow,
                  authEvents, startEvents, outcomeEvents>>
  BY DEF Audit!MarkBlockedThrows, Audit!database
<1>2. approval' = [approval EXCEPT ![c] = Audit!BlockedApproval(c, st)]
  BY DEF Audit!MarkBlockedThrows, Audit!OverrideApproval
<1>3. /\ failures' = failures \/ failures' = failures + 1
      /\ failures' = failures + 1 \/ ~Audit!ReceiptIsValid(c, "blocked", Audit!BlockedApproval(c, st), TRUE)
  BY DEF Audit!MarkBlockedThrows
<1>4. failures' \in Nat /\ (failures' = 0 => failures = 0) /\ (failures' = failures + 1 => failures' # 0)
  BY <1>3 DEF AuditTypes
<1>5. AuditOf(c)
  BY <1>1, <1>2, <1>4 DEF AuditTypes, AuditOf, AuditKept
<1> QED
  BY <1>1, <1>3, <1>4, <1>5

\* markForwarding(): the start and the only receipt, around the approval of the handle.
LEMMA ForwardingEffect ==
    ASSUME AuditTypes, NEW c \in Calls, Audit!MarkForwarding(c), authEvents[c] = {}
    PROVE  /\ AuditOf(c) /\ c \in dispatched' /\ c \notin dispatched /\ startEvents'[c] # {}
           /\ authorization'[c] # Audit!NoReceipt
           /\ \A a \in authEvents'[c] : a.approval = approval[c]
           /\ UNCHANGED <<decision, approval, completed, approvalRow, outcomeEvents, failures>>
<1> DEFINE next == Audit!BuildAuthorization(c, "authorized", approval[c])
<1>1. /\ authEvents'[c] = {next} /\ authorization'[c] = next /\ startEvents'[c] # {}
      /\ c \in dispatched' /\ c \notin dispatched
  BY DEF AuditTypes, Audit!MarkForwarding, Audit!Add
<1>2. AuditOf(c)
  BY DEF AuditTypes, AuditOf, AuditKept, Audit!MarkForwarding, Audit!Add, Audit!UpdateStatus
<1>3. next.approval = approval[c] /\ next # Audit!NoReceipt
  BY DEF Audit!BuildAuthorization, Audit!NoReceipt
<1> QED
  BY <1>1, <1>2, <1>3 DEF Audit!MarkForwarding

\* markCompleted().
LEMMA CompletedEffect ==
    ASSUME AuditTypes, NEW c \in Calls, NEW isError \in BOOLEAN, Audit!MarkCompleted(c, isError)
    PROVE  /\ AuditOf(c) /\ c \in completed' /\ outcomeEvents'[c] # {}
           /\ status'[c] = IF isError THEN "upstream_error" ELSE "completed"
           /\ UNCHANGED <<decision, dispatched, authorization, approval, approvalRow, authEvents,
                          startEvents, failures>>
BY DEF AuditTypes, AuditOf, AuditKept, Audit!MarkCompleted, Audit!CompleteCall, Audit!Add,
       Audit!Finish, Audit!UpdateStatus

\* markFailed(): a call that has a receipt keeps it, one that has none gets one around the
\* approval of the handle.
LEMMA FailedEffect ==
    ASSUME AuditTypes, NEW c \in Calls, NEW code \in {"other", "cancelled", "upstream_error", "audit_completion_failed"},
           Audit!MarkFailed(c, code)
    PROVE  /\ AuditOf(c) /\ c \in completed' /\ status'[c] = "failed"
           /\ authorization[c] # Audit!NoReceipt => authEvents'[c] = authEvents[c]
           /\ authorization[c] = Audit!NoReceipt /\ authEvents[c] = {} =>
                \A a \in authEvents'[c] : a.approval = approval[c]
           /\ UNCHANGED <<decision, dispatched, approvalRow, startEvents, failures>>
<1>1. AuditOf(c)
  BY DEF AuditTypes, AuditOf, AuditKept, Audit!MarkFailed, Audit!Add, Audit!Finish,
         Audit!UpdateStatus
<1>2. Audit!FailedApproval(c, code) = approval[c]
  BY DEF Audit!FailedApproval
<1>3. ASSUME authorization[c] = Audit!NoReceipt, authEvents[c] = {}
      PROVE  \A a \in authEvents'[c] : a.approval = approval[c]
  <2>1. authEvents'[c] = {Audit!FailedAuthorization(c, code)}
    BY <1>3 DEF AuditTypes, Audit!MarkFailed, Audit!Add
  <2> QED
    BY <1>2, <1>3, <2>1 DEF Audit!FailedAuthorization, Audit!BuildAuthorization
<1> QED
  BY <1>1, <1>3 DEF AuditTypes, Audit!MarkFailed, Audit!Finish, Audit!UpdateStatus

\* markFailed() throws: no row changes.
LEMMA FailedThrowsEffect ==
    ASSUME AuditTypes, NEW c \in Calls, NEW code, Audit!MarkFailedThrows(c, code)
    PROVE  /\ AuditOf(c) /\ failures' # 0
           /\ UNCHANGED <<decision, dispatched, authorization, status, completed, approvalRow,
                          authEvents, startEvents, outcomeEvents>>
BY DEF AuditTypes, AuditOf, AuditKept, Audit!MarkFailedThrows, Audit!database

-----------------------------------------------------------------------------
(* Tickets, and the bookkeeping of a handler. *)

\* Tickets are at most settled.
TicketsKept == TicketTypes' /\ (closed => closed') /\ \A d \in Calls : TicketKept(d)

\* settle().
LEMMA SettleEffect ==
    ASSUME IInv, NEW ts, NEW o \in Approvals!Outcomes, Approvals!Settle(ts, o),
           requested' = requested, closed => closed'
    PROVE  TicketsKept /\ \A d \in ts : d \notin pending'
<1>1. ASSUME NEW d \in Calls
      PROVE  outcome'[d] = IF d \in ts \cap pending /\ outcome[d] = Approvals!Unsettled
                           THEN o ELSE outcome[d]
  BY DEF Approvals!Settle, Approvals!Resolve
<1>2. TicketTypes'
  BY DEF IInv, TicketTypes, Approvals!Settle, Approvals!Resolve
<1>3. pending' = pending \ ts
  BY DEF Approvals!Settle
<1>4. ASSUME NEW d \in Calls PROVE TicketKept(d)
  BY <1>1, <1>3 DEF IInv, TicketInv, TicketKept
<1> QED
  BY <1>2, <1>3, <1>4 DEF TicketsKept

\* A decision, a timer, a cancellation, the end of the service and the clock.
LEMMA TicketStep ==
    ASSUME IInv,
           \/ \E t \in Calls, d \in Approvals!Decisions : Approvals!Decide(t, d)
           \/ \E t \in Calls : Approvals!TimerFires(t) \/ Approvals!Cancel(t)
           \/ Approvals!Close
           \/ Approvals!Tick
           \/ UNCHANGED approvalVars
    PROVE  TicketsKept
<1>1. ASSUME NEW t \in Calls, NEW d \in Approvals!Decisions, Approvals!Decide(t, d)
      PROVE  TicketsKept
  BY <1>1, SettleEffect DEF Approvals!Decide, Approvals!EffectiveDecision
<1>2. ASSUME NEW t \in Calls, Approvals!TimerFires(t) \/ Approvals!Cancel(t)
      PROVE  TicketsKept
  BY <1>2, SettleEffect DEF Approvals!TimerFires, Approvals!Cancel
<1>3. CASE Approvals!Close
  BY <1>3, SettleEffect DEF Approvals!Close
<1>4. CASE Approvals!Tick
  BY <1>4 DEF IInv, Approvals!Tick, TicketsKept, TicketTypes, TicketKept
<1>5. CASE UNCHANGED approvalVars
  BY <1>5 DEF IInv, approvalVars, TicketsKept, TicketTypes, TicketKept
<1> QED
  BY <1>1, <1>2, <1>3, <1>4, <1>5

\* ticket.cancel() leaves nothing pending.
LEMMA CancelEffect ==
    ASSUME IInv, NEW c \in Calls, Approvals!Cancel(c)
    PROVE  TicketsKept /\ c \notin pending'
BY SettleEffect DEF Approvals!Cancel

\* Only the handler of c moves.
HandlerOf(c) == HandlerTypes' /\ \A d \in Calls \ {c} : HandlerKept(d)

\* What Goto assigns.
LEMMA GotoEffect ==
    ASSUME HandlerTypes, NEW c \in Calls, NEW step \in Steps, Goto(c, step),
           UNCHANGED <<result, reply, sent, executed>>
    PROVE  HandlerOf(c) /\ pc'[c] = step
BY DEF HandlerTypes, HandlerOf, HandlerKept, Goto

\* What Answer assigns.
LEMMA AnswerEffect ==
    ASSUME HandlerTypes, NEW c \in Calls, NEW r \in Replies, Answer(c, r),
           UNCHANGED <<result, sent, executed>>
    PROVE  HandlerOf(c) /\ pc'[c] = "done" /\ reply'[c] = r
BY DEF HandlerTypes, HandlerOf, HandlerKept, Answer, Await, Goto

\* A step of the handler of c, put together from its parts.
LEMMA StepOf ==
    ASSUME IInv, NEW c \in Calls, HandlerOf(c), AuditOf(c), TicketsKept,
           StepInv(c)', CallInv(c)'
    PROVE  IInv'
<1>1. TicketInv(c)'
  BY DEF IInv, TicketsKept, TicketKept, TicketInv
<1> QED
  BY <1>1, OneCall DEF HandlerOf, AuditOf, TicketsKept, Later

\* A step in which the audit recorder takes no part.
LEMMA AuditIdle ==
    ASSUME IInv, NEW c \in Calls, UNCHANGED auditVars
    PROVE  AuditOf(c) /\ AuditKept(c)
BY DEF IInv, AuditTypes, AuditOf, AuditKept, auditVars

-----------------------------------------------------------------------------
(* The steps of a handler. *)

\* The handler goes on and nothing else moves.
LEMMA MoveIInv ==
    ASSUME IInv, NEW c \in Calls,
           \/ Receive(c) \/ Resume(c) \/ Rejected(c) \/ (\E r \in {"ok", "error"} : Returned(c, r))
    PROVE  IInv'
<1>1. /\ AuditOf(c) /\ AuditKept(c) /\ TicketsKept /\ UNCHANGED <<outcome, pending, closed, failures>>
  BY AuditIdle, TicketStep DEF Receive, Resume, Rejected, Returned, approvalVars, auditVars
<1>2. /\ TicketInv(c) /\ StepInv(c) /\ CallInv(c) /\ HandlerTypes
  BY DEF IInv
<1>3. CASE Receive(c)
  <2>1. HandlerOf(c) /\ pc'[c] = "evaluating" /\ UNCHANGED <<result, reply, sent, executed>>
    BY <1>2, <1>3, GotoEffect DEF Receive, Await, Quiet, upstreamVars
  <2>2. StepInv(c)' /\ CallInv(c)'
    BY <1>1, <1>2, <1>3, <2>1 DEF Receive, StepInv, CallInv, AuditKept, Unreceipted, Permitted,
                                  Receipted
  <2> QED
    BY <1>1, <2>1, <2>2, StepOf
<1>4. CASE Resume(c)
  <2>1. HandlerOf(c) /\ pc'[c] = "resolve" /\ UNCHANGED <<result, reply, sent, executed>>
    BY <1>2, <1>4, GotoEffect DEF Resume, Continue, Quiet, upstreamVars
  <2>2. StepInv(c)' /\ CallInv(c)'
    BY <1>1, <1>2, <1>4, <2>1 DEF Resume, TicketInv, StepInv, CallInv, AuditKept, Unreceipted,
                                  Permitted, Receipted
  <2> QED
    BY <1>1, <2>1, <2>2, StepOf
<1>5. CASE Rejected(c)
  <2>1. HandlerOf(c) /\ pc'[c] = "reject" /\ UNCHANGED <<result, reply, sent, executed>>
    BY <1>2, <1>5, GotoEffect DEF Rejected, Continue, Quiet, upstreamVars
  <2>2. StepInv(c)' /\ CallInv(c)'
    BY <1>1, <1>2, <1>5, <2>1 DEF Rejected, StepInv, CallInv, AuditKept, Permitted, Receipted
  <2> QED
    BY <1>1, <2>1, <2>2, StepOf
<1>6. CASE \E r \in {"ok", "error"} : Returned(c, r)
  <2>1. PICK r \in {"ok", "error"} : Returned(c, r)
    BY <1>6
  <2>2. /\ HandlerOf(c) /\ pc'[c] = "complete" /\ result'[c] = r
        /\ UNCHANGED <<reply, sent, executed>>
    BY <1>2, <2>1 DEF Returned, Continue, Goto, Quiet, upstreamVars, HandlerTypes, HandlerOf,
                      HandlerKept
  <2>3. r = "error" \/ executed[c] = 1
    BY <1>2, <2>1 DEF Returned, CallInv, HandlerTypes
  <2>4. StepInv(c)' /\ CallInv(c)'
    BY <1>1, <1>2, <2>1, <2>2, <2>3 DEF Returned, StepInv, CallInv, AuditKept, Permitted, Receipted
  <2> QED
    BY <1>1, <2>2, <2>4, StepOf
<1> QED
  BY <1>3, <1>4, <1>5, <1>6

\* The decision is recorded.
LEMMA EvaluatedIInv ==
    ASSUME IInv, NEW c \in Calls,
           ReceiveWithoutIdentity(c) \/ (\E d \in Audit!EffectiveDecisions : Evaluated(c, d))
    PROVE  IInv'
<1>1. TicketInv(c) /\ StepInv(c) /\ CallInv(c) /\ HandlerTypes /\ AuditTypes
  BY DEF IInv
<1>2. PICK d \in Audit!EffectiveDecisions :
        /\ Audit!Begin(c, "generic", d) /\ pc[c] \in {"idle", "evaluating"}
        /\ Continue(c, CASE d = "deny" -> "deny" [] d = "ask" -> "ask" [] OTHER -> "forward")
        /\ UNCHANGED <<approvalVars, aborted, result, reply>> /\ Quiet
  BY DEF ReceiveWithoutIdentity, Evaluated
<1>3. /\ AuditOf(c) /\ decision'[c] = d
      /\ UNCHANGED <<dispatched, authorization, completed, approvalRow, authEvents,
                     startEvents, outcomeEvents, failures>>
  BY <1>1, <1>2, BeginEffect
<1> DEFINE step == CASE d = "deny" -> "deny" [] d = "ask" -> "ask" [] OTHER -> "forward"
<1>4. /\ step \in Steps /\ step \in {"deny", "ask", "forward"}
      /\ (step = "deny" => d = "deny") /\ (step = "ask" => d = "ask")
      /\ (step = "forward" => d = "allow")
  OBVIOUS
<1>5. HandlerOf(c) /\ pc'[c] = step /\ UNCHANGED <<result, reply, sent, executed>>
  BY <1>1, <1>2, <1>4, GotoEffect DEF Continue, Quiet, upstreamVars
<1>6. TicketsKept /\ UNCHANGED <<pending, outcome, closed>>
  BY <1>2, TicketStep DEF approvalVars
<1> HIDE DEF step
<1>7. StepInv(c)'
  BY <1>1, <1>2, <1>3, <1>4, <1>5, <1>6 DEF StepInv, Unreceipted, Permitted
<1>8. CallInv(c)'
  BY <1>1, <1>2, <1>3, <1>4, <1>5, <1>6 DEF StepInv, CallInv, Unreceipted, HandlerTypes
<1> QED
  BY <1>3, <1>5, <1>6, <1>7, <1>8, StepOf

\* A handler that ends because a transaction has failed.
LEMMA ThrowsIInv ==
    ASSUME IInv, NEW c \in Calls,
           \/ BeginThrows(c, "evaluating") \/ BeginThrows(c, "idle")
           \/ \E step \in {"resolve", "forward"} : Throws(c, step)
           \/ RecordRequestThrows(c)
    PROVE  IInv'
<1>1. TicketInv(c) /\ StepInv(c) /\ CallInv(c) /\ HandlerTypes /\ AuditTypes
  BY DEF IInv
<1>2. /\ AuditOf(c) /\ AuditKept(c) /\ failures' # 0
  BY <1>1, RollBackEffect DEF BeginThrows, Throws, RecordRequestThrows
<1>3. /\ HandlerOf(c) /\ pc'[c] = "done" /\ reply'[c] = "error"
      /\ UNCHANGED <<result, sent, executed>>
  BY <1>1, AnswerEffect DEF BeginThrows, Throws, RecordRequestThrows, Quiet, upstreamVars
<1>4. TicketsKept /\ c \notin pending'
  <2>1. CASE RecordRequestThrows(c)
    BY <2>1, CancelEffect DEF RecordRequestThrows
  <2>2. CASE ~RecordRequestThrows(c)
    BY <1>1, <2>2, TicketStep DEF BeginThrows, Throws, At, StepInv, approvalVars
  <2> QED
    BY <2>1, <2>2
<1>5. pc[c] \in {"evaluating", "idle", "resolve", "forward", "record"}
  BY DEF BeginThrows, Throws, RecordRequestThrows, At
<1>6. c \notin completed /\ c \notin dispatched /\ sent[c] = 0
  BY <1>1, <1>5 DEF StepInv, CallInv, Unreceipted
<1>7. StepInv(c)' /\ CallInv(c)'
  BY <1>1, <1>2, <1>3, <1>4, <1>6 DEF StepInv, CallInv, AuditKept
<1> QED
  BY <1>2, <1>3, <1>4, <1>7, StepOf

\* A blocked call: Deny, ApprovalUnavailable and BlockUnapproved.
LEMMA BlockIInv ==
    ASSUME IInv, NEW c \in Calls, NEW step \in {"deny", "ask", "block"}, NEW st, NEW r \in Replies,
           Block(c, step, st, r), r \in {st, "error"},
           \/ step = "deny" /\ st = "denied"
           \/ step = "ask" /\ st = "approval_unavailable"
           \/ step = "block" /\ st = Audit!ResolvedStatus(outcome[c])
    PROVE  IInv'
<1>1. TicketInv(c) /\ StepInv(c) /\ CallInv(c) /\ HandlerTypes /\ AuditTypes
  BY DEF IInv
<1>2. pc[c] = step /\ Unreceipted(c) /\ sent[c] = 0 /\ c \notin pending
  BY <1>1 DEF Block, At, StepInv, CallInv, Unreceipted
<1>3. /\ step = "deny" => decision[c] = "deny" /\ approvalRow[c] = "none"
      /\ step = "ask" => approvalRow[c] = "none" /\ Audit!BlockedApproval(c, st) = "unavailable"
      /\ step = "block" => /\ Audit!BlockedApproval(c, st) = outcome[c]
                           /\ outcome[c] \in {"denied", "expired", "cancelled"}
                           /\ approvalRow[c] = outcome[c]
  BY <1>1, <1>2 DEF StepInv, Remembered, Audit!BlockedApproval, Audit!ResolvedStatus
<1>4. st # "result" /\ st # "none"
  BY <1>1, <1>2, <1>3 DEF StepInv, Audit!ResolvedStatus
<1>5. TicketsKept /\ UNCHANGED <<pending, outcome, closed>>
  BY TicketStep DEF Block, approvalVars
<1>6. UNCHANGED <<result, sent, executed>>
  BY DEF Block, Quiet, upstreamVars
<1>7. ASSUME NEW q \in {r, "error"}, Answer(c, q), Audit!MarkBlocked(c, st)
      PROVE  IInv'
  <2>1. /\ AuditOf(c) /\ status'[c] = st /\ c \in completed' /\ c \notin dispatched
        /\ \A a \in authEvents'[c] : a.approval = Audit!BlockedApproval(c, st)
        /\ UNCHANGED <<decision, dispatched, approvalRow, startEvents, outcomeEvents, failures>>
    BY <1>1, <1>2, <1>7, BlockedEffect DEF Unreceipted
  <2>2. HandlerOf(c) /\ pc'[c] = "done" /\ reply'[c] = q
    BY <1>1, <1>6, <1>7, AnswerEffect
  <2>3. Receipted(c)'
    BY <1>3, <1>5, <2>1 DEF Receipted
  <2>4. StepInv(c)'
    BY <1>2, <1>5, <2>2 DEF StepInv
  <2>5. CallInv(c)'
    BY <1>1, <1>2, <1>4, <1>6, <2>1, <2>2, <2>3 DEF CallInv
  <2> QED
    BY <1>5, <2>1, <2>2, <2>4, <2>5, StepOf
<1>8. ASSUME Answer(c, "error"), Audit!MarkBlockedThrows(c, st)
      PROVE  IInv'
  <2>1. /\ AuditOf(c)
        /\ failures' # 0 \/ ~Audit!ReceiptIsValid(c, "blocked", Audit!BlockedApproval(c, st), TRUE)
        /\ UNCHANGED <<decision, dispatched, authorization, status, completed, approvalRow,
                       authEvents, startEvents, outcomeEvents>>
    BY <1>1, <1>8, BlockedThrowsEffect
  <2>2. Audit!ReceiptIsValid(c, "blocked", Audit!BlockedApproval(c, st), TRUE)
    BY <1>3 DEF Audit!ReceiptIsValid
  <2>3. HandlerOf(c) /\ pc'[c] = "done" /\ reply'[c] = "error"
    BY <1>1, <1>6, <1>8, AnswerEffect
  <2>4. StepInv(c)' /\ CallInv(c)'
    BY <1>1, <1>2, <1>5, <1>6, <2>1, <2>2, <2>3 DEF StepInv, CallInv, Unreceipted
  <2> QED
    BY <1>5, <2>1, <2>3, <2>4, StepOf
<1> QED
  BY <1>7, <1>8 DEF Block

\* request() of the approval service.
LEMMA AskIInv ==
    ASSUME IInv, NEW c \in Calls, NEW ttl \in TTLs, Ask(c, ttl)
    PROVE  IInv'
<1>1. TicketInv(c) /\ StepInv(c) /\ CallInv(c) /\ HandlerTypes /\ TicketTypes
  BY DEF IInv
<1>2. /\ requested' = requested \cup {c} /\ pending' = pending \cup {c} /\ c \notin requested
      /\ UNCHANGED <<closed, outcome, failures>> /\ pc[c] = "ask"
  BY DEF Ask, At, Approvals!Request, Approvals!AddEntry, auditVars
<1>3. AuditOf(c) /\ AuditKept(c)
  BY AuditIdle DEF Ask
<1>4. HandlerOf(c) /\ pc'[c] = "record" /\ UNCHANGED <<result, reply, sent, executed>>
  BY <1>1, GotoEffect DEF Ask, Continue, Quiet, upstreamVars
<1>5. TicketTypes' /\ \A d \in Calls \ {c} : TicketKept(d)
  BY <1>1, <1>2 DEF TicketTypes, TicketKept
<1>6. TicketInv(c)'
  BY <1>1, <1>2 DEF TicketInv
<1>7. StepInv(c)' /\ CallInv(c)'
  BY <1>1, <1>2, <1>3, <1>4 DEF StepInv, CallInv, AuditKept, Unreceipted
<1> QED
  BY <1>2, <1>3, <1>4, <1>5, <1>6, <1>7, OneCall DEF HandlerOf, AuditOf, Later

\* request() throws: the service is closed.
LEMMA AskThrowsIInv ==
    ASSUME IInv, NEW c \in Calls, NEW ttl \in TTLs, AskThrows(c, ttl)
    PROVE  IInv'
<1>1. TicketInv(c) /\ StepInv(c) /\ CallInv(c) /\ HandlerTypes
  BY DEF IInv
<1>2. closed /\ pc[c] = "ask"
  <2>1. ttl > 0
    BY GatewayAssumption
  <2> QED
    BY <2>1 DEF AskThrows, At, Approvals!CanRequest
<1>3. AuditOf(c) /\ AuditKept(c) /\ UNCHANGED failures
  BY AuditIdle DEF AskThrows, auditVars
<1>4. /\ HandlerOf(c) /\ pc'[c] = "done" /\ reply'[c] = "error"
      /\ UNCHANGED <<result, sent, executed>>
  BY <1>1, AnswerEffect DEF AskThrows, Quiet, upstreamVars
<1>5. TicketsKept /\ UNCHANGED <<pending, outcome, closed>>
  BY TicketStep DEF AskThrows, approvalVars
<1>6. StepInv(c)' /\ CallInv(c)'
  BY <1>1, <1>2, <1>3, <1>4, <1>5 DEF StepInv, CallInv, AuditKept, Unreceipted
<1> QED
  BY <1>3, <1>4, <1>5, <1>6, StepOf

\* The request is recorded and awaited.
LEMMA RecordRequestIInv ==
    ASSUME IInv, NEW c \in Calls, RecordRequest(c)
    PROVE  IInv'
<1>1. TicketInv(c) /\ StepInv(c) /\ CallInv(c) /\ HandlerTypes /\ AuditTypes
  BY DEF IInv
<1>2. /\ AuditOf(c) /\ approvalRow'[c] = "pending" /\ pc[c] = "record"
      /\ UNCHANGED <<decision, dispatched, authorization, completed, authEvents,
                     startEvents, outcomeEvents, failures>>
  BY <1>1, RequestedEffect DEF RecordRequest, At
<1>3. HandlerOf(c) /\ pc'[c] = "awaiting" /\ UNCHANGED <<result, reply, sent, executed>>
  BY <1>1, GotoEffect DEF RecordRequest, Await, Quiet, upstreamVars
<1>4. TicketsKept
  BY TicketStep DEF RecordRequest
<1>5. StepInv(c)' /\ CallInv(c)'
  BY <1>1, <1>2, <1>3, <1>4 DEF StepInv, CallInv, Unreceipted, TicketsKept, TicketKept
<1> QED
  BY <1>2, <1>3, <1>4, <1>5, StepOf

\* The ticket's outcome is recorded.
LEMMA RecordOutcomeIInv ==
    ASSUME IInv, NEW c \in Calls, RecordOutcome(c)
    PROVE  IInv'
<1>1. /\ TicketInv(c) /\ StepInv(c) /\ CallInv(c) /\ HandlerTypes /\ AuditTypes
      /\ outcome[c] \in Approvals!Outcomes \cup {Approvals!Unsettled}
  BY DEF IInv, TicketTypes
<1>2. pc[c] = "resolve" /\ outcome[c] \in Audit!Resolutions
  BY <1>1 DEF RecordOutcome, At, StepInv
<1>3. /\ AuditOf(c) /\ approvalRow'[c] = outcome[c] /\ approval'[c] = outcome[c]
      /\ UNCHANGED <<decision, dispatched, authorization, completed, authEvents,
                     startEvents, outcomeEvents, failures>>
  BY <1>1, <1>2, ResolvedEffect DEF RecordOutcome
<1>4. /\ HandlerOf(c) /\ UNCHANGED <<result, reply, sent, executed>>
      /\ pc'[c] = IF outcome[c] # "approved" THEN "block"
                  ELSE IF c \in aborted THEN "cancelled" ELSE "forward"
  BY <1>1, GotoEffect DEF RecordOutcome, Continue, Quiet, upstreamVars
<1>5. TicketsKept /\ UNCHANGED <<pending, outcome, closed>>
  BY TicketStep DEF RecordOutcome, approvalVars
<1>6. StepInv(c)' /\ CallInv(c)'
  BY <1>1, <1>2, <1>3, <1>4, <1>5 DEF StepInv, CallInv, Unreceipted, Remembered, Permitted
<1> QED
  BY <1>3, <1>4, <1>5, <1>6, StepOf

\* A handler that ends with markFailed(): a cancelled call, a rejected one, and one whose
\* result could not be recorded.
LEMMA FailIInv ==
    ASSUME IInv, NEW c \in Calls, NEW step \in {"cancelled", "reject", "recover"},
           NEW code \in {"other", "cancelled", "upstream_error", "audit_completion_failed"},
           Fail(c, step, code)
    PROVE  IInv'
<1>1. TicketInv(c) /\ StepInv(c) /\ CallInv(c) /\ HandlerTypes /\ AuditTypes
  BY DEF IInv
<1>2. /\ pc[c] = step /\ c \notin pending /\ c \notin completed /\ reply[c] = "none"
      /\ Answer(c, "error")
  BY <1>1 DEF Fail, At, StepInv, CallInv, Unreceipted
<1>3. TicketsKept /\ UNCHANGED <<pending, outcome, closed>>
  BY TicketStep DEF Fail, approvalVars
<1>4. /\ HandlerOf(c) /\ pc'[c] = "done" /\ reply'[c] = "error"
      /\ UNCHANGED <<result, sent, executed>>
  BY <1>1, <1>2, AnswerEffect DEF Fail, Quiet, upstreamVars
<1>5. CASE Audit!MarkFailed(c, code)
  <2>1. /\ AuditOf(c) /\ c \in completed' /\ status'[c] = "failed"
        /\ authorization[c] # Audit!NoReceipt => authEvents'[c] = authEvents[c]
        /\ authorization[c] = Audit!NoReceipt /\ authEvents[c] = {} =>
             \A a \in authEvents'[c] : a.approval = approval[c]
        /\ UNCHANGED <<decision, dispatched, approvalRow, startEvents, failures>>
    BY <1>1, <1>5, FailedEffect
  <2>2. Receipted(c)'
    <3>1. CASE step = "cancelled"
      BY <1>1, <1>2, <1>3, <2>1, <3>1 DEF StepInv, Unreceipted, Remembered, Receipted
    <3>2. CASE step \in {"reject", "recover"}
      BY <1>1, <1>2, <1>3, <2>1, <3>2 DEF StepInv, Receipted
    <3> QED
      BY <3>1, <3>2
  <2>3. StepInv(c)' /\ CallInv(c)'
    BY <1>1, <1>2, <1>3, <1>4, <2>1, <2>2 DEF StepInv, CallInv, Permitted
  <2> QED
    BY <1>3, <1>4, <2>1, <2>3, StepOf
<1>6. CASE Audit!MarkFailedThrows(c, code)
  <2>1. /\ AuditOf(c) /\ failures' # 0
        /\ UNCHANGED <<decision, dispatched, authorization, status, completed, approvalRow,
                       authEvents, startEvents, outcomeEvents>>
    BY <1>1, <1>6, FailedThrowsEffect
  <2>2. StepInv(c)' /\ CallInv(c)'
    BY <1>1, <1>2, <1>3, <1>4, <2>1 DEF StepInv, CallInv, Permitted
  <2> QED
    BY <1>3, <1>4, <2>1, <2>2, StepOf
<1> QED
  BY <1>5, <1>6 DEF Fail

\* The start is recorded and the request sent.
LEMMA ForwardIInv ==
    ASSUME IInv, NEW c \in Calls, Forward(c)
    PROVE  IInv'
<1>1. TicketInv(c) /\ StepInv(c) /\ CallInv(c) /\ HandlerTypes /\ AuditTypes
  BY DEF IInv
<1>2. /\ pc[c] = "forward" /\ Unreceipted(c) /\ Permitted(c) /\ sent[c] = 0
      /\ approvalRow[c] = "none" \/ Remembered(c)
      /\ c \notin pending /\ reply[c] = "none"
  BY <1>1 DEF Forward, At, StepInv, CallInv, Unreceipted
<1>3. /\ AuditOf(c) /\ c \in dispatched' /\ startEvents'[c] # {}
      /\ authorization'[c] # Audit!NoReceipt
      /\ \A a \in authEvents'[c] : a.approval = approval[c]
      /\ UNCHANGED <<decision, approval, completed, approvalRow, outcomeEvents, failures>>
  BY <1>1, <1>2, ForwardingEffect DEF Forward, Unreceipted
<1>4. TicketsKept /\ UNCHANGED <<pending, outcome, closed>>
  BY TicketStep DEF Forward, approvalVars
<1>5. /\ HandlerOf(c) /\ pc'[c] = "upstream" /\ sent'[c] \in {0, 1}
      /\ UNCHANGED <<result, reply, executed>>
  BY <1>1, <1>2 DEF Forward, Await, Goto, HandlerTypes, HandlerOf, HandlerKept
<1>6. Receipted(c)' /\ Permitted(c)'
  BY <1>2, <1>3, <1>4 DEF Receipted, Permitted, Remembered
<1>7. executed[c] = 0
  BY <1>1, <1>2 DEF CallInv, HandlerTypes
<1>8. StepInv(c)' /\ CallInv(c)'
  BY <1>1, <1>2, <1>3, <1>4, <1>5, <1>6, <1>7 DEF StepInv, CallInv, Unreceipted
<1> QED
  BY <1>3, <1>4, <1>5, <1>8, StepOf

\* The outcome is recorded, or cannot be.
LEMMA CompleteIInv ==
    ASSUME IInv, NEW c \in Calls, Complete(c)
    PROVE  IInv'
<1>1. TicketInv(c) /\ StepInv(c) /\ CallInv(c) /\ HandlerTypes /\ AuditTypes
  BY DEF IInv
<1>2. /\ pc[c] = "complete" /\ c \notin pending /\ c \notin completed /\ c \in dispatched
      /\ reply[c] = "none" /\ Receipted(c)
      /\ result[c] = "error" \/ executed[c] = 1
  BY <1>1 DEF Complete, At, StepInv, CallInv
<1>3. TicketsKept /\ UNCHANGED <<pending, outcome, closed>>
  BY TicketStep DEF Complete, approvalVars
<1>4. UNCHANGED <<result, sent, executed>>
  BY DEF Complete, Quiet, upstreamVars
<1>5. ASSUME NEW r \in {"result", "error"}, Answer(c, r), Audit!MarkCompleted(c, result[c] = "error")
      PROVE  IInv'
  <2>1. /\ AuditOf(c) /\ c \in completed' /\ outcomeEvents'[c] # {}
        /\ status'[c] = IF result[c] = "error" THEN "upstream_error" ELSE "completed"
        /\ UNCHANGED <<decision, dispatched, authorization, approval, approvalRow, authEvents,
                       startEvents, failures>>
    BY <1>1, <1>5, CompletedEffect
  <2>2. HandlerOf(c) /\ pc'[c] = "done" /\ reply'[c] = r
    BY <1>1, <1>4, <1>5, AnswerEffect
  <2>3. StepInv(c)' /\ CallInv(c)'
    BY <1>1, <1>2, <1>3, <1>4, <2>1, <2>2 DEF StepInv, CallInv, Permitted, Receipted
  <2> QED
    BY <1>3, <2>1, <2>2, <2>3, StepOf
<1>6. ASSUME Audit!RollBack(c), Continue(c, "recover"), UNCHANGED reply
      PROVE  IInv'
  <2>1. AuditOf(c) /\ AuditKept(c) /\ failures' # 0
    BY <1>1, <1>6, RollBackEffect
  <2>2. HandlerOf(c) /\ pc'[c] = "recover"
    BY <1>1, <1>4, <1>6, GotoEffect DEF Continue
  <2>3. StepInv(c)' /\ CallInv(c)'
    BY <1>1, <1>2, <1>3, <1>4, <1>6, <2>1, <2>2 DEF StepInv, CallInv, Permitted, Receipted, AuditKept
  <2> QED
    BY <1>3, <2>1, <2>2, <2>3, StepOf
<1> QED
  BY <1>5, <1>6 DEF Complete

-----------------------------------------------------------------------------
(* Everybody else. *)

\* The client, the person, the timers, the clock, the shutdown and the end of the process.
LEMMA OthersIInv ==
    ASSUME IInv,
           \/ \E c \in Calls : \/ Cancel(c) \/ TimerFires(c)
                               \/ \E d \in Approvals!Decisions : HumanDecides(c, d)
           \/ Tick \/ CloseApprovals \/ (\E i \in DOMAIN CloseOrder : ClosePart(i)) \/ Crash
           \/ UNCHANGED vars
    PROVE  IInv'
<1>1. UNCHANGED <<pc, result, reply, sent, executed>>
  BY DEF Cancel, TimerFires, HumanDecides, Tick, CloseApprovals, ClosePart, Crash, vars,
         Quiet, handlerVars, upstreamVars
<1>2. UNCHANGED <<decision, dispatched, authorization, approval, status, completed, approvalRow,
                  authEvents, startEvents, outcomeEvents, failures>>
  BY DEF Cancel, TimerFires, HumanDecides, Tick, CloseApprovals, ClosePart, Crash, vars,
         auditVars, Audit!Crash, Audit!database
<1>3. TicketsKept
  BY TicketStep DEF Cancel, TimerFires, HumanDecides, Tick, CloseApprovals, ClosePart, Crash, vars
<1>4. HandlerTypes' /\ AuditTypes' /\ \A d \in Calls : HandlerKept(d) /\ AuditKept(d)
  BY <1>1, <1>2 DEF IInv, HandlerTypes, AuditTypes, HandlerKept, AuditKept
<1> QED
  BY <1>2, <1>3, <1>4, NoCallMoves DEF TicketsKept, Later

\* The upstream server runs a tool.
LEMMA UpstreamExecutesIInv ==
    ASSUME IInv, NEW c \in Calls, UpstreamExecutes(c)
    PROVE  IInv'
<1>1. TicketInv(c) /\ StepInv(c) /\ CallInv(c) /\ HandlerTypes
  BY DEF IInv
<1>2. AuditOf(c) /\ AuditKept(c) /\ UNCHANGED failures
  BY AuditIdle DEF UpstreamExecutes, auditVars
<1>3. TicketsKept /\ UNCHANGED <<pending, outcome, closed>>
  BY TicketStep DEF UpstreamExecutes, approvalVars
<1>4. sent[c] = 1 /\ executed[c] = 0
  BY <1>1 DEF UpstreamExecutes, CallInv, HandlerTypes
<1>5. HandlerOf(c) /\ executed'[c] = 1 /\ UNCHANGED <<pc, result, reply, sent>>
  BY <1>1, <1>4 DEF UpstreamExecutes, handlerVars, HandlerTypes, HandlerOf, HandlerKept
<1>6. StepInv(c)' /\ CallInv(c)'
  BY <1>1, <1>2, <1>3, <1>4, <1>5 DEF StepInv, CallInv, AuditKept, Unreceipted, Permitted,
                                      Receipted, Remembered
<1> QED
  BY <1>2, <1>3, <1>5, <1>6, StepOf

-----------------------------------------------------------------------------
(* The invariant and what follows from it. *)

\* A gateway that was just created satisfies the invariant.
LEMMA InitIInv == Init => IInv
<1> SUFFICES ASSUME Init PROVE IInv
  OBVIOUS
<1>1. HandlerTypes
  BY DEF Init, HandlerTypes
<1>2. AuditTypes
  BY DEF Init, Audit!RecorderInit, AuditTypes
<1>3. TicketTypes
  BY DEF Init, Approvals!TicketInit, TicketTypes
<1>4. ASSUME NEW c \in Calls PROVE TicketInv(c) /\ StepInv(c) /\ CallInv(c)
  BY DEF Init, Audit!RecorderInit, Approvals!TicketInit, TicketInv, StepInv, CallInv, Unreceipted
<1> QED
  BY <1>1, <1>2, <1>3, <1>4 DEF IInv

\* Every step of a handler preserves it.
LEMMA HandlerStepIInv ==
    ASSUME IInv, NEW c \in Calls, HandlerStep(c)
    PROVE  IInv'
<1>1. CASE Deny(c)
  BY <1>1, BlockIInv DEF Deny
<1>2. CASE ApprovalUnavailable(c)
  BY <1>2, BlockIInv DEF ApprovalUnavailable
<1>3. CASE BlockUnapproved(c)
  <2> DEFINE st == Audit!ResolvedStatus(outcome[c])
             r  == IF outcome[c] = "cancelled" THEN "error" ELSE st
  <2>1. outcome[c] \in {"denied", "expired", "cancelled"}
    BY <1>3 DEF IInv, BlockUnapproved, Block, At, StepInv
  <2>2. r \in Replies /\ r \in {st, "error"}
    BY <2>1 DEF Audit!ResolvedStatus
  <2>3. Block(c, "block", st, r)
    BY <1>3 DEF BlockUnapproved
  <2> HIDE DEF r
  <2> QED
    BY <2>2, <2>3, BlockIInv
<1>4. CASE CancelledBeforeExecution(c) \/ RecordRejection(c) \/ Recover(c)
  BY <1>4, FailIInv DEF CancelledBeforeExecution, RecordRejection, Recover
<1>5. CASE \/ (\E d \in Audit!EffectiveDecisions : Evaluated(c, d)) \/ Resume(c)
           \/ (\E ttl \in TTLs : Ask(c, ttl) \/ AskThrows(c, ttl))
           \/ RecordRequest(c) \/ RecordRequestThrows(c) \/ RecordOutcome(c) \/ Forward(c)
           \/ Complete(c) \/ BeginThrows(c, "evaluating")
           \/ \E step \in {"resolve", "forward"} : Throws(c, step)
  BY <1>5, EvaluatedIInv, MoveIInv, AskIInv, AskThrowsIInv, RecordRequestIInv, RecordOutcomeIInv,
     ForwardIInv, CompleteIInv, ThrowsIInv
<1> QED
  BY <1>1, <1>2, <1>3, <1>4, <1>5 DEF HandlerStep

\* Every step preserves it.
LEMMA NextIInv == IInv /\ [Next]_vars => IInv'
<1> SUFFICES ASSUME IInv, [Next]_vars PROVE IInv'
  OBVIOUS
<1>1. ASSUME NEW c \in Calls,
             \/ Receive(c) \/ ReceiveWithoutIdentity(c) \/ BeginThrows(c, "idle") \/ HandlerStep(c)
             \/ (\E r \in {"ok", "error"} : Returned(c, r)) \/ Rejected(c) \/ UpstreamExecutes(c)
      PROVE  IInv'
  BY <1>1, MoveIInv, EvaluatedIInv, ThrowsIInv, HandlerStepIInv, UpstreamExecutesIInv
<1> QED
  BY <1>1, OthersIInv DEF Next

\* The inductive invariant holds in every reachable state.
THEOREM Inductive == Spec => []IInv
<1>1. Init => IInv
  BY InitIInv
<1>2. IInv /\ [Next]_vars => IInv'
  BY NextIInv
<1> QED
  BY <1>1, <1>2, PTL DEF Spec

\* The fail-closed boundary of the gateway: whatever reaches the upstream server was sent
\* once, after its start was durable, for a call that policy allows or whose ticket a
\* person approved, however handlers, timers, cancellations and crashes interleave.
THEOREM ReleasesAreAuthorized == Spec => []ReleasedOnlyWhenAuthorized
<1>1. ASSUME IInv PROVE ReleasedOnlyWhenAuthorized
  BY <1>1 DEF IInv, CallInv, Permitted, ReleasedOnlyWhenAuthorized
<1> QED
  BY <1>1, Inductive, PTL

\* What the client was told, what the person decided and how the call ended agree with
\* the audit database, and a handler that has ended leaves no ticket behind.
THEOREM RecordsTellTheStory == Spec => []RecordTellsTheStory
<1>1. ASSUME IInv PROVE RecordTellsTheStory
  <2>1. AnswerIsRecorded
    BY <1>1 DEF IInv, CallInv, AnswerIsRecorded
  <2>2. ASSUME NEW c \in completed, NEW a \in authEvents[c], approvalRow[c] # "none"
        PROVE  a.approval = approvalRow[c] /\ approvalRow[c] = outcome[c]
    <3>1. c \in Calls
      BY <1>1, <2>2 DEF IInv, AuditTypes
    <3> QED
      BY <1>1, <2>2, <3>1 DEF IInv, CallInv, Receipted
  <2>3. EveryCallIsFinished
    BY <1>1 DEF IInv, StepInv, CallInv, EveryCallIsFinished
  <2> QED
    BY <2>1, <2>2, <2>3 DEF ReceiptTellsTheDecision, RecordTellsTheStory
<1> QED
  BY <1>1, Inductive, PTL

-----------------------------------------------------------------------------
(* The gateway as a client of its components. *)

\* The steps of a handler call methods of the recorder, within the conventions every
\* caller keeps: it blocks, and asks for approval, only without a receipt.
LEMMA HandlerUsesAudit ==
    ASSUME IInv, NEW c \in Calls, HandlerStep(c)
    PROVE  [Audit!RecorderNext]_(Audit!recorderVars)
<1>1. StepInv(c) /\ outcome[c] \in Approvals!Outcomes \cup {Approvals!Unsettled}
  BY DEF IInv, TicketTypes
<1>2. ASSUME NEW step \in {"deny", "ask", "block"}, NEW st \in Audit!BlockedStatuses, NEW r,
             Block(c, step, st, r)
      PROVE  Audit!RecorderNext
  <2>1. Audit!CanBlock(c)
    BY <1>1, <1>2 DEF Block, At, StepInv, Unreceipted, Audit!CanBlock
  <2> QED
    BY <1>2, <2>1 DEF Block, Audit!RecorderNext
<1>3. ASSUME NEW step, NEW code \in Audit!FailureCodes, Fail(c, step, code)
      PROVE  Audit!RecorderNext
  BY <1>3 DEF Fail, Audit!RecorderNext
<1>4. CASE \E d \in Audit!EffectiveDecisions : Evaluated(c, d)
  <2>1. "generic" \in Audit!Boundaries
    BY DEF Audit!Boundaries
  <2> QED
    BY <1>4, <2>1 DEF Evaluated, Audit!RecorderNext
<1>5. CASE Deny(c) \/ ApprovalUnavailable(c)
  BY <1>2, <1>5 DEF Deny, ApprovalUnavailable, Audit!BlockedStatuses
<1>6. CASE BlockUnapproved(c)
  <2>1. outcome[c] \in {"denied", "expired", "cancelled"}
    BY <1>1, <1>6 DEF BlockUnapproved, Block, At, StepInv
  <2>2. Audit!ResolvedStatus(outcome[c]) \in Audit!BlockedStatuses
    BY <2>1 DEF Audit!ResolvedStatus, Audit!BlockedStatuses
  <2> QED
    BY <1>2, <1>6, <2>2 DEF BlockUnapproved
<1>7. CASE CancelledBeforeExecution(c) \/ RecordRejection(c) \/ Recover(c)
  BY <1>3, <1>7 DEF CancelledBeforeExecution, RecordRejection, Recover, Audit!FailureCodes
<1>8. CASE (\E ttl \in TTLs : Ask(c, ttl) \/ AskThrows(c, ttl)) \/ Resume(c)
  BY <1>8 DEF Ask, AskThrows, Resume, auditVars, Audit!recorderVars, Audit!handle, Audit!database
<1>9. CASE RecordRequest(c)
  <2>1. Audit!CanAskForApproval(c)
    BY <1>1, <1>9 DEF RecordRequest, At, StepInv, Unreceipted, Audit!CanAskForApproval
  <2> QED
    BY <1>9, <2>1 DEF RecordRequest, Audit!RecorderNext
<1>10. CASE RecordOutcome(c)
  <2>1. Audit!CanAskForApproval(c) /\ outcome[c] \in Audit!Resolutions
    BY <1>1, <1>10 DEF RecordOutcome, At, StepInv, Unreceipted, Audit!CanAskForApproval
  <2> QED
    BY <1>10, <2>1 DEF RecordOutcome, Audit!RecorderNext
<1>11. CASE Forward(c)
  BY <1>11 DEF Forward, Audit!RecorderNext
<1>12. CASE Complete(c)
  BY <1>12 DEF Complete, Audit!RecorderNext
<1>13. CASE RecordRequestThrows(c) \/ BeginThrows(c, "evaluating")
            \/ \E step \in {"resolve", "forward"} : Throws(c, step)
  BY <1>13 DEF RecordRequestThrows, BeginThrows, Throws, Audit!RecorderNext
<1> QED
  BY <1>4, <1>5, <1>6, <1>7, <1>8, <1>9, <1>10, <1>11, <1>12, <1>13 DEF HandlerStep

\* And so does every step of the gateway.
LEMMA UsesAudit ==
    ASSUME IInv, [Next]_vars
    PROVE  [Audit!RecorderNext]_(Audit!recorderVars)
<1>1. ASSUME UNCHANGED auditVars PROVE UNCHANGED Audit!recorderVars
  BY <1>1 DEF auditVars, Audit!recorderVars, Audit!handle, Audit!database
<1>2. ASSUME NEW c \in Calls, ReceiveWithoutIdentity(c) \/ BeginThrows(c, "idle")
      PROVE  Audit!RecorderNext
  BY <1>2 DEF ReceiveWithoutIdentity, BeginThrows, Audit!RecorderNext, Audit!Boundaries
<1>3. ASSUME NEW c \in Calls,
             \/ Receive(c) \/ (\E r \in {"ok", "error"} : Returned(c, r)) \/ Rejected(c)
             \/ Cancel(c) \/ (\E d \in Approvals!Decisions : HumanDecides(c, d))
             \/ TimerFires(c) \/ UpstreamExecutes(c)
      PROVE  UNCHANGED Audit!recorderVars
  BY <1>1, <1>3 DEF Receive, Returned, Rejected, Cancel, HumanDecides, TimerFires, UpstreamExecutes
<1>4. ASSUME Tick \/ CloseApprovals \/ (\E i \in DOMAIN CloseOrder : ClosePart(i)) \/ UNCHANGED vars
      PROVE  UNCHANGED Audit!recorderVars
  BY <1>1, <1>4 DEF Tick, CloseApprovals, ClosePart, vars
<1>5. CASE Crash
  BY <1>1, <1>5 DEF Crash, Audit!RecorderNext
<1> QED
  BY <1>2, <1>3, <1>4, <1>5, HandlerUsesAudit DEF Next

\* Every step of the gateway is a step of the approval service, or none.
LEMMA UsesApprovals ==
    ASSUME [Next]_vars
    PROVE  [Approvals!TicketNext]_(Approvals!ticketVars)
<1>1. ASSUME UNCHANGED approvalVars PROVE UNCHANGED Approvals!ticketVars
  BY <1>1 DEF approvalVars, Approvals!ticketVars
<1>2. ASSUME NEW c \in Calls, Approvals!Cancel(c) PROVE Approvals!TicketNext
  BY <1>2 DEF Approvals!TicketNext
<1>3. ASSUME NEW c \in Calls, NEW ttl \in TTLs, Ask(c, ttl) PROVE Approvals!TicketNext
  BY <1>3 DEF Ask, Approvals!TicketNext
<1>4. ASSUME NEW c \in Calls, RecordRequest(c) \/ RecordRequestThrows(c) \/ Cancel(c)
      PROVE  [Approvals!TicketNext]_(Approvals!ticketVars)
  BY <1>1, <1>2, <1>4 DEF RecordRequest, RecordRequestThrows, Cancel
<1>5. ASSUME NEW c \in Calls, (\E d \in Approvals!Decisions : HumanDecides(c, d)) \/ TimerFires(c)
      PROVE  Approvals!TicketNext
  BY <1>5 DEF HumanDecides, TimerFires, Approvals!TicketNext
<1>6. CASE Tick \/ CloseApprovals
  BY <1>6 DEF Tick, CloseApprovals, Approvals!TicketNext
<1>7. CASE (\E i \in DOMAIN CloseOrder : ClosePart(i)) \/ Crash \/ UNCHANGED vars
  BY <1>1, <1>7 DEF ClosePart, Crash, vars
<1>8. ASSUME NEW c \in Calls,
             \/ Receive(c) \/ ReceiveWithoutIdentity(c) \/ BeginThrows(c, "idle")
             \/ (\E r \in {"ok", "error"} : Returned(c, r)) \/ Rejected(c) \/ UpstreamExecutes(c)
      PROVE  UNCHANGED Approvals!ticketVars
  BY <1>1, <1>8 DEF Receive, ReceiveWithoutIdentity, BeginThrows, Returned, Rejected,
                    UpstreamExecutes
<1>9. ASSUME NEW c \in Calls, HandlerStep(c) PROVE [Approvals!TicketNext]_(Approvals!ticketVars)
  <2>1. \/ UNCHANGED approvalVars \/ RecordRequest(c) \/ RecordRequestThrows(c)
        \/ \E ttl \in TTLs : Ask(c, ttl)
    BY <1>9 DEF HandlerStep, Evaluated, Deny, ApprovalUnavailable, AskThrows, Resume, RecordOutcome,
                BlockUnapproved, Block, CancelledBeforeExecution, RecordRejection, Recover, Fail,
                Forward, Complete, BeginThrows, Throws
  <2> QED
    BY <1>1, <1>3, <1>4, <2>1
<1> QED
  BY <1>4, <1>5, <1>6, <1>7, <1>8, <1>9 DEF Next

\* The gateway uses its components only through their operations, so that everything that
\* is proved of the recorder and of the approval service holds within the gateway.
THEOREM ComponentsAreUsed == Spec => UsesComponents
<1>1. Init => Audit!RecorderInit /\ Approvals!TicketInit
  BY DEF Init
<1>2. IInv /\ [Next]_vars => [Audit!RecorderNext]_(Audit!recorderVars) /\ [Approvals!TicketNext]_(Approvals!ticketVars)
  BY UsesAudit, UsesApprovals
<1> QED
  BY <1>1, <1>2, Inductive, PTL DEF Spec, UsesComponents, Audit!RecorderSpec, Approvals!TicketSpec
=============================================================================
