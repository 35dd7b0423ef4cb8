--------------------------- MODULE ComponentProofs ---------------------------
(***************************************************************************)
(* Proofs about the three services that every flow of the guard is built   *)
(* from and that know nothing of each other: the approval service, the     *)
(* audit recorder and the metadata broker, each with an arbitrary client.  *)
(* No definition is shared: each part below is about the variables of its  *)
(* own component only.                                                     *)
(***************************************************************************)
EXTENDS ApprovalService, AuditRecorder, MetadataBroker, FiniteSetTheorems, TLAPS

-----------------------------------------------------------------------------
(**************************************************************************)
(* Proofs about the approval service, for any set of tickets, any TTLs and *)
(* any bound on time.                                                      *)
(*                                                                         *)
(* None of the invariants is inductive alone.  They hold together because  *)
(* a ticket's entry leaves `pending' in the very step that resolves its    *)
(* promise (NoOrphanTicket), and because an id that was never handed out   *)
(* has no history (Fresh), so a new ticket starts from a clean slate.      *)
(**************************************************************************)

\* An id that was never handed out is unsettled and was never decided.
Fresh ==
    \A t \in Tickets \ requested : outcome[t] = Unsettled /\ answers[t] = {}

\* Every ticket the dashboard shows was published.
VisibleWasPublished == visible \subseteq published

\* After close() nothing is pending.
ClosedIsDrained == closed => pending = {}

\* The inductive invariant.
TicketIInv ==
    /\ TicketTypeOK
    /\ Fresh
    /\ VisibleWasPublished
    /\ NoOrphanTicket
    /\ AnswerIsOutcome
    /\ NoLateDecision
    /\ ClosedIsDrained

USE DEF Outcomes, Decisions, Unsettled

-----------------------------------------------------------------------------
\* A service that was just constructed satisfies the invariant.
LEMMA TicketInitIInv == TicketInit => TicketIInv
<1> SUFFICES ASSUME TicketInit PROVE TicketIInv
  OBVIOUS
<1>1. TicketTypeOK
  <2>1. mono \in Nat /\ wall \in Nat
    BY MaxTimeAssumption DEF TicketInit
  <2> QED
    BY <2>1 DEF TicketInit, TicketTypeOK
<1>2. Fresh /\ VisibleWasPublished /\ NoOrphanTicket /\ ClosedIsDrained
  BY DEF TicketInit, Fresh, VisibleWasPublished, NoOrphanTicket, ClosedIsDrained
<1>3. AnswerIsOutcome /\ NoLateDecision
  BY DEF TicketInit, AnswerIsOutcome, NoLateDecision
<1> QED
  BY <1>1, <1>2, <1>3 DEF TicketIInv

\* settle() resolves exactly the pending tickets among ts, each for the first
\* time, and removes them from the map in the same step.
LEMMA SettleEffect ==
    ASSUME TicketIInv, NEW ts \in SUBSET Tickets, NEW o \in Outcomes, Settle(ts, o)
    PROVE  /\ pending' = pending \ ts
           /\ visible' = visible \ ts
           /\ outcome' \in [Tickets -> Outcomes \cup {Unsettled}]
           /\ settledAt' \in [Tickets -> Nat]
           /\ \A t \in Tickets :
                IF t \in ts \cap pending
                THEN outcome'[t] = o /\ settledAt'[t] = wall
                ELSE outcome'[t] = outcome[t] /\ settledAt'[t] = settledAt[t]
<1>1. \A t \in pending : outcome[t] = Unsettled
  BY DEF TicketIInv, TicketTypeOK, NoOrphanTicket
<1> QED
  BY <1>1 DEF TicketIInv, TicketTypeOK, Settle, Resolve

\* A settling step that changes nothing but the entries, the promises and,
\* for a decision, its answer.
LEMMA SettleIInv ==
    ASSUME TicketIInv, NEW ts \in SUBSET requested, NEW o \in Outcomes, Settle(ts, o),
           o \in Decisions => \A t \in ts \cap pending : t \in published /\ wall < expiresAt[t],
           UNCHANGED <<mono, wall, requested, published, expiresAt, due>>,
           closed' \in BOOLEAN, closed' => closed \/ ts = pending,
           \/ UNCHANGED answers
           \/ \E t \in ts \cap pending : answers' = [answers EXCEPT ![t] = @ \cup {o}]
    PROVE  TicketIInv'
<1>0. ts \in SUBSET Tickets
  BY DEF TicketIInv, TicketTypeOK
<1>1. /\ pending' = pending \ ts
      /\ visible' = visible \ ts
      /\ outcome' \in [Tickets -> Outcomes \cup {Unsettled}]
      /\ settledAt' \in [Tickets -> Nat]
      /\ \A t \in Tickets :
           IF t \in ts \cap pending
           THEN outcome'[t] = o /\ settledAt'[t] = wall
           ELSE outcome'[t] = outcome[t] /\ settledAt'[t] = settledAt[t]
  BY <1>0, SettleEffect
<1>2. \A t \in pending : t \in Tickets /\ outcome[t] = Unsettled /\ answers[t] = {}
  BY DEF TicketIInv, TicketTypeOK, NoOrphanTicket, AnswerIsOutcome
<1>3. TicketTypeOK'
  BY <1>1, <1>2 DEF TicketIInv, TicketTypeOK
<1>4. Fresh'
  BY <1>1, <1>2 DEF TicketIInv, TicketTypeOK, Fresh
<1>5. NoOrphanTicket'
  BY <1>1, <1>2 DEF TicketIInv, TicketTypeOK, NoOrphanTicket
<1>6. AnswerIsOutcome'
  BY <1>1, <1>2 DEF TicketIInv, TicketTypeOK, AnswerIsOutcome
<1>7. NoLateDecision'
  BY <1>1, <1>2 DEF TicketIInv, TicketTypeOK, NoLateDecision
<1>8. ClosedIsDrained'
  BY <1>1 DEF TicketIInv, TicketTypeOK, ClosedIsDrained
<1>9. VisibleWasPublished'
  BY <1>1 DEF TicketIInv, VisibleWasPublished
<1> QED
  BY <1>3, <1>4, <1>5, <1>6, <1>7, <1>8, <1>9 DEF TicketIInv

\* Storing a new entry, visible or not, preserves the invariant.
LEMMA AddEntryIInv ==
    ASSUME TicketIInv, NEW t \in Tickets, NEW ttl \in TTLs, AddEntry(t, ttl),
           UNCHANGED <<mono, wall, closed, outcome, answers, settledAt>>,
           \/ UNCHANGED <<visible, published>>
           \/ visible' = visible \cup {t} /\ published' = published \cup {t}
    PROVE  TicketIInv'
<1>1. ttl \in Nat
  BY TTLAssumption
<1>2. t \notin requested /\ t \notin pending /\ ~closed /\ outcome[t] = Unsettled
  BY DEF TicketIInv, TicketTypeOK, Fresh, AddEntry, CanRequest
<1>3. TicketTypeOK'
  BY <1>1 DEF TicketIInv, TicketTypeOK, AddEntry
<1>4. Fresh'
  BY DEF TicketIInv, TicketTypeOK, Fresh, AddEntry
<1>5. NoOrphanTicket'
  BY <1>2 DEF TicketIInv, TicketTypeOK, NoOrphanTicket, AddEntry
<1>6. AnswerIsOutcome'
  BY DEF TicketIInv, AnswerIsOutcome
<1>7. NoLateDecision'
  BY <1>2 DEF TicketIInv, TicketTypeOK, NoLateDecision, AddEntry
<1>8. ClosedIsDrained'
  BY <1>2 DEF TicketIInv, ClosedIsDrained
<1>9. VisibleWasPublished'
  BY DEF TicketIInv, VisibleWasPublished
<1> QED
  BY <1>3, <1>4, <1>5, <1>6, <1>7, <1>8, <1>9 DEF TicketIInv

\* Every method of the service, every timer and every step of the clocks
\* preserves the invariant.
LEMMA TicketNextIInv == TicketIInv /\ [TicketNext]_ticketVars => TicketIInv'
<1> SUFFICES ASSUME TicketIInv, [TicketNext]_ticketVars PROVE TicketIInv'
  OBVIOUS
<1>1. ASSUME NEW t \in Tickets, NEW ttl \in TTLs, RequestHidden(t, ttl) PROVE TicketIInv'
  BY <1>1, AddEntryIInv DEF RequestHidden
<1>2. ASSUME NEW t \in Tickets, NEW ttl \in TTLs, Request(t, ttl) PROVE TicketIInv'
  BY <1>2, AddEntryIInv DEF Request
<1>3. ASSUME NEW t \in Tickets, Publish(t) PROVE TicketIInv'
  BY <1>3 DEF Publish, TicketIInv, TicketTypeOK, Fresh, VisibleWasPublished, NoOrphanTicket, AnswerIsOutcome,
              NoLateDecision, ClosedIsDrained
<1>4. ASSUME NEW t \in Tickets, NEW d \in Decisions, Decide(t, d) PROVE TicketIInv'
  <2> DEFINE o == EffectiveDecision(t, d)
  <2>1. o \in Outcomes /\ (o \in Decisions => ~(expiresAt[t] <= wall))
    BY DEF EffectiveDecision
  <2>2. /\ t \in pending /\ t \in requested /\ t \in published
        /\ expiresAt[t] \in Nat /\ wall \in Nat
    BY <1>4 DEF Decide, CanDecide, TicketIInv, TicketTypeOK, VisibleWasPublished
  <2>3. /\ Settle({t}, o)
        /\ \E u \in {t} \cap pending : answers' = [answers EXCEPT ![u] = @ \cup {o}]
        /\ UNCHANGED <<mono, wall, closed, requested, published, expiresAt, due>>
    BY <1>4, <2>2 DEF Decide
  <2>4. {t} \in SUBSET requested /\ closed' \in BOOLEAN /\ (closed' => closed)
    BY <2>2, <2>3 DEF TicketIInv, TicketTypeOK
  <2>5. o \in Decisions => \A u \in {t} \cap pending : u \in published /\ wall < expiresAt[u]
    BY <2>1, <2>2
  <2> HIDE DEF o
  <2> QED
    BY <2>1, <2>3, <2>4, <2>5, SettleIInv
<1>5. ASSUME NEW t \in Tickets, TimerFires(t) PROVE TicketIInv'
  BY <1>5, SettleIInv DEF TimerFires, TicketIInv, TicketTypeOK
<1>6. ASSUME NEW t \in Tickets, Cancel(t) PROVE TicketIInv'
  BY <1>6, SettleIInv DEF Cancel, TicketIInv, TicketTypeOK
<1>7. CASE Close
  BY <1>7, SettleIInv DEF Close, TicketIInv, TicketTypeOK
<1>8. CASE Tick
  BY <1>8 DEF Tick, TicketIInv, TicketTypeOK, Fresh, VisibleWasPublished, NoOrphanTicket, AnswerIsOutcome,
              NoLateDecision, ClosedIsDrained
<1>9. CASE SetClock
  BY <1>9, MaxTimeAssumption
     DEF SetClock, TicketIInv, TicketTypeOK, Fresh, VisibleWasPublished, NoOrphanTicket, AnswerIsOutcome,
         NoLateDecision, ClosedIsDrained
<1>10. CASE UNCHANGED ticketVars
  BY <1>10 DEF ticketVars, TicketIInv, TicketTypeOK, Fresh, VisibleWasPublished, NoOrphanTicket, AnswerIsOutcome,
               NoLateDecision, ClosedIsDrained
<1> QED
  BY <1>1, <1>2, <1>3, <1>4, <1>5, <1>6, <1>7, <1>8, <1>9, <1>10 DEF TicketNext

\* The invariant holds in every reachable state.
LEMMA TicketInductive == TicketSpec => []TicketIInv
BY TicketInitIInv, TicketNextIInv, PTL DEF TicketSpec

\* The state of the service is always well formed: every entry belongs to an
\* id that was handed out, and only entries are visible.
THEOREM TicketTypeCorrect == TicketSpec => []TicketTypeOK
BY TicketInductive, PTL DEF TicketIInv

\* No promise is left that nothing can resolve: a ticket is pending exactly as
\* long as it is unsettled, for any number of tickets and any interleaving of
\* decisions, timers, cancellations and close().
THEOREM TicketsAreNeverOrphaned == TicketSpec => []NoOrphanTicket
BY TicketInductive, PTL DEF TicketIInv

\* What decide() told the dashboard is what the waiting call received.
THEOREM AnswersAreOutcomes == TicketSpec => []AnswerIsOutcome
BY TicketInductive, PTL DEF TicketIInv

\* No ticket is approved or denied at or after its expiresAt, whatever is done
\* to the wall clock, nor before it was published.
THEOREM DecisionsAreInTime == TicketSpec => []NoLateDecision
BY TicketInductive, PTL DEF TicketIInv

-----------------------------------------------------------------------------
(* The refinement of OneShotTickets. *)

\* One settled ticket is one settling step of the contract.
LEMMA SettleRefines ==
    ASSUME TicketIInv, NEW t \in pending, NEW o \in Outcomes, Settle({t}, o), UNCHANGED closed
    PROVE  OneShot!Settle(t)
<1>1. t \in Tickets /\ {t} \in SUBSET Tickets
  BY DEF TicketIInv, TicketTypeOK
<1>2. /\ pending' = pending \ {t}
      /\ outcome' \in [Tickets -> Outcomes \cup {Unsettled}]
      /\ \A u \in Tickets : IF u \in {t} \cap pending THEN outcome'[u] = o
                                                     ELSE outcome'[u] = outcome[u]
  BY <1>1, SettleEffect
<1>3. outcome' = [outcome EXCEPT ![t] = o]
  BY <1>1, <1>2 DEF TicketIInv, TicketTypeOK
<1> QED
  BY <1>2, <1>3 DEF OneShot!Settle

\* close() settles every open ticket with one result.
LEMMA CloseRefines ==
    ASSUME TicketIInv, Close
    PROVE  OneShot!Shut
<1>1. pending \in SUBSET Tickets /\ "cancelled" \in Outcomes
  BY DEF TicketIInv, TicketTypeOK
<1>2. /\ pending' = pending \ pending
      /\ outcome' \in [Tickets -> Outcomes \cup {Unsettled}]
      /\ \A u \in Tickets : IF u \in pending \cap pending THEN outcome'[u] = "cancelled"
                                                         ELSE outcome'[u] = outcome[u]
  BY <1>1, SettleEffect DEF Close
<1>3. outcome' = [u \in Tickets |-> IF u \in pending THEN "cancelled" ELSE outcome[u]]
  BY <1>2
<1> QED
  BY <1>1, <1>2, <1>3 DEF Close, OneShot!Shut

\* A step of the service is a step of the contract or invisible to it.
LEMMA StepRefines == TicketIInv /\ [TicketNext]_ticketVars => [OneShot!Next]_(OneShot!vars)
<1> SUFFICES ASSUME TicketIInv, [TicketNext]_ticketVars PROVE [OneShot!Next]_(OneShot!vars)
  OBVIOUS
<1>1. ASSUME NEW t \in Tickets, NEW ttl \in TTLs, RequestHidden(t, ttl) \/ Request(t, ttl)
      PROVE  OneShot!Open(t)
  BY <1>1 DEF RequestHidden, Request, AddEntry, CanRequest, OneShot!Open, TicketIInv, TicketTypeOK, Fresh
<1>2. ASSUME NEW t \in Tickets, Publish(t) PROVE UNCHANGED OneShot!vars
  BY <1>2 DEF Publish, OneShot!vars
<1>3. ASSUME NEW t \in Tickets, NEW d \in Decisions, Decide(t, d) PROVE OneShot!Settle(t)
  BY <1>3, SettleRefines DEF Decide, CanDecide, EffectiveDecision
<1>4. ASSUME NEW t \in Tickets, TimerFires(t) PROVE OneShot!Settle(t)
  BY <1>4, SettleRefines DEF TimerFires
<1>5. ASSUME NEW t \in Tickets, Cancel(t)
      PROVE  OneShot!Settle(t) \/ UNCHANGED OneShot!vars
  <2>1. CASE t \in pending
    BY <1>5, <2>1, SettleRefines DEF Cancel
  <2>2. CASE t \notin pending
    <3>1. pending' = pending /\ UNCHANGED closed
      BY <1>5, <2>2 DEF Cancel, Settle
    <3>2. outcome' = outcome
      BY <1>5, <2>2 DEF Cancel, Settle, Resolve, TicketIInv, TicketTypeOK
    <3> QED
      BY <3>1, <3>2 DEF OneShot!vars
  <2> QED
    BY <2>1, <2>2
<1>6. CASE Close
  BY <1>6, CloseRefines DEF OneShot!Next
<1>7. CASE Tick \/ SetClock \/ UNCHANGED ticketVars
  BY <1>7 DEF Tick, SetClock, ticketVars, OneShot!vars
<1> QED
  BY <1>1, <1>2, <1>3, <1>4, <1>5, <1>6, <1>7 DEF TicketNext, OneShot!Next

\* The service implements the one-shot contract: a ticket is opened at most
\* once, settled at most once, and keeps its result for ever.
THEOREM TicketsAreOneShot == TicketSpec => ImplementsOneShot
<1>1. TicketInit => OneShot!Init
  BY DEF TicketInit, OneShot!Init
<1> QED
  BY <1>1, TicketInductive, StepRefines, PTL DEF TicketSpec, ImplementsOneShot, OneShot!Spec

-----------------------------------------------------------------------------
(**************************************************************************)
(* Proofs about the audit recorder, for any number of calls, of failing    *)
(* transactions and of crashes.                                            *)
(*                                                                         *)
(* The inductive invariant ties the memory of a handle to its rows: the    *)
(* closure variables of a call say exactly which receipts are durable.     *)
(* That is what is lost when a method assigns before its transaction       *)
(* commits, and what makes a later method write a second receipt.          *)
(**************************************************************************)

\* A call whose begin() has not committed has neither a handle nor rows.
Unbegun(c) ==
    status[c] = "none" =>
        /\ c \notin live /\ c \notin terminal /\ c \notin dispatched
        /\ c \notin required /\ c \notin completed
        /\ authorization[c] = NoReceipt
        /\ approval[c] = "not_required"
        /\ approvalRow[c] = "none"

\* The authorization the handle holds is the only durable one, and a recorded
\* start cites it.
MemoryMatchesRows(c) ==
    /\ authEvents[c] = IF authorization[c] = NoReceipt THEN {} ELSE {authorization[c]}
    /\ startEvents[c] = IF c \in dispatched THEN {authorization[c].id} ELSE {}
    /\ c \in terminal <=> c \in completed

\* What each kind of authorization implies.
ReceiptMeaning(c) ==
    /\ c \in dispatched => authorization[c].status = "authorized"
    /\ c \in terminal => authorization[c] # NoReceipt
    /\ authorization[c] # NoReceipt /\ c \notin terminal =>
         /\ authorization[c].status = "authorized"
         /\ boundary[c] # "graph_genesis_plan" => c \in dispatched
    /\ c \in completed /\ status[c] \in BlockedStatuses =>
         authorization[c].status = "blocked"

\* An outcome exists exactly for a dispatched call that has ended, and extends
\* its authorization.
OutcomeExtends(c) ==
    IF c \in dispatched /\ c \in terminal
    THEN \E o \in outcomeEvents[c] :
            outcomeEvents[c] = {o} /\ o.extends = authorization[c].id
    ELSE outcomeEvents[c] = {}

\* The approval the handle remembers is backed by the approvals row, and an
\* authorized call has what its decision demands.
ApprovalIsBacked(c) ==
    /\ approval[c] = "approved" => approvalRow[c] = "approved"
    /\ approvalRow[c] # "none" => c \in required
    /\ decision[c] = "ask" => c \in required
    /\ authorization[c].status = "authorized" =>
         /\ decision[c] # "deny"
         /\ c \in required => approvalRow[c] = "approved"

CallInv(c) ==
    /\ Unbegun(c)
    /\ MemoryMatchesRows(c)
    /\ ReceiptMeaning(c)
    /\ OutcomeExtends(c)
    /\ ApprovalIsBacked(c)

RecorderIInv == RecorderTypeOK /\ \A c \in Calls : CallInv(c)

USE DEF Boundaries, EffectiveDecisions, Resolutions, ApprovalStates, BlockedStatuses,
        GraphTerminal, FailureCodes, OutcomeStatuses, AuthorizationStatuses,
        RowStatuses, NoReceipt, Authorizations, OutcomeReceipts

-----------------------------------------------------------------------------
\* An empty database and no handle satisfy the invariant.
LEMMA RecorderInitIInv == RecorderInit => RecorderIInv
<1> SUFFICES ASSUME RecorderInit PROVE RecorderIInv
  OBVIOUS
<1>1. RecorderTypeOK
  BY DEF RecorderInit, RecorderTypeOK
<1>2. ASSUME NEW c \in Calls PROVE CallInv(c)
  BY DEF RecorderInit, CallInv, Unbegun, MemoryMatchesRows, ReceiptMeaning, OutcomeExtends,
         ApprovalIsBacked
<1> QED
  BY <1>1, <1>2 DEF RecorderIInv

\* Nothing of call d, in memory or in the database, is touched.
Untouched(d) ==
    /\ (d \in live)' = (d \in live)
    /\ (d \in terminal)' = (d \in terminal)
    /\ (d \in dispatched)' = (d \in dispatched)
    /\ (d \in required)' = (d \in required)
    /\ (d \in completed)' = (d \in completed)
    /\ boundary'[d] = boundary[d]
    /\ decision'[d] = decision[d]
    /\ authorization'[d] = authorization[d]
    /\ approval'[d] = approval[d]
    /\ status'[d] = status[d]
    /\ approvalRow'[d] = approvalRow[d]
    /\ authEvents'[d] = authEvents[d]
    /\ startEvents'[d] = startEvents[d]
    /\ outcomeEvents'[d] = outcomeEvents[d]
    /\ events'[d] = events[d]

\* Calls do not share state: a call that is not touched keeps its invariant.
LEMMA UntouchedInv ==
    ASSUME NEW d \in Calls, CallInv(d), Untouched(d)
    PROVE  CallInv(d)'
BY DEF Untouched, CallInv, Unbegun, MemoryMatchesRows, ReceiptMeaning, OutcomeExtends,
       ApprovalIsBacked

\* A step of call c that is well typed, keeps the invariant of c and touches
\* no other call preserves the invariant.
LEMMA OneCall ==
    ASSUME RecorderIInv, NEW c \in Calls, RecorderTypeOK', CallInv(c)',
           \A d \in Calls \ {c} : Untouched(d)
    PROVE  RecorderIInv'
BY UntouchedInv DEF RecorderIInv

-----------------------------------------------------------------------------
(* One lemma per method. *)

\* begin() starts the call from nothing.
LEMMA BeginIInv ==
    ASSUME RecorderIInv, NEW c \in Calls,
           NEW b \in Boundaries, NEW decided \in EffectiveDecisions, Begin(c, b, decided)
    PROVE  RecorderIInv'
<1>1. RecorderTypeOK'
  BY EventsAssumption DEF RecorderIInv, RecorderTypeOK, Begin, UpdateStatus, AppendEvents
<1>2. CallInv(c)'
  BY EventsAssumption DEF RecorderIInv, RecorderTypeOK, Begin, UpdateStatus, AppendEvents, CallInv, Unbegun,
         MemoryMatchesRows, ReceiptMeaning, OutcomeExtends, ApprovalIsBacked
<1>3. \A d \in Calls \ {c} : Untouched(d)
  BY DEF RecorderIInv, RecorderTypeOK, Begin, UpdateStatus, AppendEvents, Untouched
<1> QED
  BY <1>1, <1>2, <1>3, OneCall

\* markAuthorized() stores and remembers the first receipt of a call.
LEMMA MarkAuthorizedIInv ==
    ASSUME RecorderIInv, NEW c \in Calls, MarkAuthorized(c)
    PROVE  RecorderIInv'
<1>1. RecorderTypeOK'
  BY DEF RecorderIInv, RecorderTypeOK, MarkAuthorized, BuildAuthorization,
         ReceiptIsValid, ApprovalSatisfied, Usable, Add, UpdateStatus, AppendEvents
<1>2. CallInv(c)'
  BY DEF RecorderIInv, RecorderTypeOK, MarkAuthorized, BuildAuthorization,
         ReceiptIsValid, ApprovalSatisfied, Usable, Add, UpdateStatus, AppendEvents, CallInv, Unbegun,
         MemoryMatchesRows, ReceiptMeaning, OutcomeExtends, ApprovalIsBacked
<1>3. \A d \in Calls \ {c} : Untouched(d)
  BY DEF RecorderIInv, RecorderTypeOK, MarkAuthorized, BuildAuthorization,
         ReceiptIsValid, ApprovalSatisfied, Usable, Add, UpdateStatus, AppendEvents, Untouched
<1> QED
  BY <1>1, <1>2, <1>3, OneCall

\* markExecutionStarted() cites the receipt the handle holds.
LEMMA MarkExecutionStartedIInv ==
    ASSUME RecorderIInv, NEW c \in Calls, MarkExecutionStarted(c)
    PROVE  RecorderIInv'
<1>1. RecorderTypeOK'
  BY DEF RecorderIInv, RecorderTypeOK, MarkExecutionStarted, Usable, Add,
         UpdateStatus, AppendEvents
<1>2. CallInv(c)'
  BY DEF RecorderIInv, RecorderTypeOK, MarkExecutionStarted, Usable, Add,
         UpdateStatus, AppendEvents, CallInv, Unbegun,
         MemoryMatchesRows, ReceiptMeaning, OutcomeExtends, ApprovalIsBacked
<1>3. \A d \in Calls \ {c} : Untouched(d)
  BY DEF RecorderIInv, RecorderTypeOK, MarkExecutionStarted, Usable, Add,
         UpdateStatus, AppendEvents, Untouched
<1> QED
  BY <1>1, <1>2, <1>3, OneCall

\* markForwarding() stores receipt and start together.
LEMMA MarkForwardingIInv ==
    ASSUME RecorderIInv, NEW c \in Calls, MarkForwarding(c)
    PROVE  RecorderIInv'
<1>1. RecorderTypeOK'
  BY DEF RecorderIInv, RecorderTypeOK, MarkForwarding, BuildAuthorization,
         ReceiptIsValid, ApprovalSatisfied, Usable, Add, UpdateStatus, AppendEvents
<1>2. CallInv(c)'
  BY DEF RecorderIInv, RecorderTypeOK, MarkForwarding, BuildAuthorization,
         ReceiptIsValid, ApprovalSatisfied, Usable, Add, UpdateStatus, AppendEvents, CallInv, Unbegun,
         MemoryMatchesRows, ReceiptMeaning, OutcomeExtends, ApprovalIsBacked
<1>3. \A d \in Calls \ {c} : Untouched(d)
  BY DEF RecorderIInv, RecorderTypeOK, MarkForwarding, BuildAuthorization,
         ReceiptIsValid, ApprovalSatisfied, Usable, Add, UpdateStatus, AppendEvents, Untouched
<1> QED
  BY <1>1, <1>2, <1>3, OneCall

\* markApprovalRequested() comes before any authorization.
LEMMA MarkApprovalRequestedIInv ==
    ASSUME RecorderIInv, NEW c \in Calls, CanAskForApproval(c), MarkApprovalRequested(c)
    PROVE  RecorderIInv'
<1>1. RecorderTypeOK'
  BY DEF RecorderIInv, RecorderTypeOK, CanAskForApproval,
         MarkApprovalRequested, Usable, UpdateStatus, AppendEvents
<1>2. CallInv(c)'
  BY DEF RecorderIInv, RecorderTypeOK, CanAskForApproval,
         MarkApprovalRequested, Usable, UpdateStatus, AppendEvents, CallInv, Unbegun,
         MemoryMatchesRows, ReceiptMeaning, OutcomeExtends, ApprovalIsBacked
<1>3. \A d \in Calls \ {c} : Untouched(d)
  BY DEF RecorderIInv, RecorderTypeOK, CanAskForApproval,
         MarkApprovalRequested, Usable, UpdateStatus, AppendEvents, Untouched
<1> QED
  BY <1>1, <1>2, <1>3, OneCall

\* markApprovalResolved() moves the row and the handle together.
LEMMA MarkApprovalResolvedIInv ==
    ASSUME RecorderIInv, NEW c \in Calls, NEW o \in Resolutions, CanAskForApproval(c), MarkApprovalResolved(c, o)
    PROVE  RecorderIInv'
<1>1. RecorderTypeOK'
  BY DEF RecorderIInv, RecorderTypeOK, CanAskForApproval,
         MarkApprovalResolved, ResolvedStatus, Usable, UpdateStatus, AppendEvents
<1>2. CallInv(c)'
  BY DEF RecorderIInv, RecorderTypeOK, CanAskForApproval,
         MarkApprovalResolved, ResolvedStatus, Usable, UpdateStatus, AppendEvents, CallInv, Unbegun,
         MemoryMatchesRows, ReceiptMeaning, OutcomeExtends, ApprovalIsBacked
<1>3. \A d \in Calls \ {c} : Untouched(d)
  BY DEF RecorderIInv, RecorderTypeOK, CanAskForApproval,
         MarkApprovalResolved, ResolvedStatus, Usable, UpdateStatus, AppendEvents, Untouched
<1> QED
  BY <1>1, <1>2, <1>3, OneCall

\* markBlocked() ends a call that has no authorization yet.
LEMMA MarkBlockedIInv ==
    ASSUME RecorderIInv, NEW c \in Calls, NEW st \in BlockedStatuses, CanBlock(c), MarkBlocked(c, st)
    PROVE  RecorderIInv'
<1>1. RecorderTypeOK'
  BY DEF RecorderIInv, RecorderTypeOK, CanBlock, MarkBlocked,
         OverrideApproval, BlockedApproval, BuildAuthorization, ReceiptIsValid, Finish, Usable, Add, UpdateStatus, AppendEvents
<1>2. CallInv(c)'
  BY DEF RecorderIInv, RecorderTypeOK, CanBlock, MarkBlocked,
         OverrideApproval, BlockedApproval, BuildAuthorization, ReceiptIsValid, Finish, Usable, Add, UpdateStatus, AppendEvents, CallInv, Unbegun,
         MemoryMatchesRows, ReceiptMeaning, OutcomeExtends, ApprovalIsBacked
<1>3. \A d \in Calls \ {c} : Untouched(d)
  BY DEF RecorderIInv, RecorderTypeOK, CanBlock, MarkBlocked,
         OverrideApproval, BlockedApproval, BuildAuthorization, ReceiptIsValid, Finish, Usable, Add, UpdateStatus, AppendEvents, Untouched
<1> QED
  BY <1>1, <1>2, <1>3, OneCall

\* A failing markBlocked() only overrides the approval it remembers, and never
\* with an approval.
LEMMA MarkBlockedThrowsIInv ==
    ASSUME RecorderIInv, NEW c \in Calls, NEW st \in BlockedStatuses, CanBlock(c), MarkBlockedThrows(c, st)
    PROVE  RecorderIInv'
<1>0. BlockedApproval(c, st) \in ApprovalStates
  BY DEF RecorderIInv, RecorderTypeOK, BlockedApproval
<1>1. RecorderTypeOK'
  <2>1. approval' \in [Calls -> ApprovalStates] /\ required' \subseteq Calls
    BY <1>0 DEF RecorderIInv, RecorderTypeOK, MarkBlockedThrows, OverrideApproval
  <2>2. failures' \in Nat
    BY DEF RecorderIInv, RecorderTypeOK, MarkBlockedThrows, ReceiptIsValid
  <2> QED
    BY <2>1, <2>2 DEF RecorderIInv, RecorderTypeOK, MarkBlockedThrows, database
<1>2. CallInv(c)'
  BY DEF RecorderIInv, RecorderTypeOK, CanBlock, MarkBlockedThrows,
         OverrideApproval, BlockedApproval, Usable, database, CallInv, Unbegun,
         MemoryMatchesRows, ReceiptMeaning, OutcomeExtends, ApprovalIsBacked
<1>3. \A d \in Calls \ {c} : Untouched(d)
  BY DEF RecorderIInv, RecorderTypeOK, CanBlock, MarkBlockedThrows,
         OverrideApproval, BlockedApproval, Usable, database, Untouched
<1> QED
  BY <1>1, <1>2, <1>3, OneCall

\* The completing methods add the only outcome of a dispatched call.
LEMMA CompleteIInv ==
    ASSUME RecorderIInv, NEW c \in Calls,
           NEW st \in OutcomeStatuses, NEW n \in Nat, CompleteCall(c, st, st, n)
    PROVE  RecorderIInv'
<1>1. RecorderTypeOK'
  BY DEF RecorderIInv, RecorderTypeOK, CompleteCall, CreateOutcome, Finish,
         Usable, Add, UpdateStatus, AppendEvents
<1>2. CallInv(c)'
  <2> DEFINE o == CreateOutcome(c, authorization[c], st)
  <2>1. /\ c \in live /\ c \notin terminal /\ c \in dispatched
        /\ authorization[c] # NoReceipt
        /\ outcomeEvents[c] = {}
        /\ authorization[c].status = "authorized"
        /\ status[c] # "none"
    BY DEF RecorderIInv, CompleteCall, Usable, CallInv, Unbegun, ReceiptMeaning, OutcomeExtends
  <2>2. outcomeEvents'[c] = {o} /\ o.extends = authorization[c].id
    BY <2>1 DEF RecorderIInv, RecorderTypeOK, CompleteCall, CreateOutcome, Add
  <2>3. /\ c \in terminal' /\ c \in completed' /\ c \in dispatched'
        /\ status'[c] = st /\ st \notin BlockedStatuses /\ st # "none"
        /\ UNCHANGED <<boundary, decision, authorization, required, approval, approvalRow,
                       authEvents, startEvents>>
    BY <2>1 DEF RecorderIInv, RecorderTypeOK, CompleteCall, Finish, UpdateStatus
  <2>4. Unbegun(c)' /\ MemoryMatchesRows(c)' /\ ReceiptMeaning(c)' /\ ApprovalIsBacked(c)'
    BY <2>1, <2>3 DEF RecorderIInv, CallInv, Unbegun, MemoryMatchesRows, ReceiptMeaning,
                      ApprovalIsBacked
  <2>5. OutcomeExtends(c)'
    BY <2>2, <2>3 DEF OutcomeExtends
  <2> QED
    BY <2>4, <2>5 DEF CallInv
<1>3. \A d \in Calls \ {c} : Untouched(d)
  BY DEF RecorderIInv, RecorderTypeOK, CompleteCall, CreateOutcome, Finish,
         Usable, Add, UpdateStatus, AppendEvents, Untouched
<1> QED
  BY <1>1, <1>2, <1>3, OneCall

\* markFailed() keeps an authorization and builds one only if there is none.
LEMMA MarkFailedIInv ==
    ASSUME RecorderIInv, NEW c \in Calls, NEW code \in FailureCodes, MarkFailed(c, code)
    PROVE  RecorderIInv'
<1>1. RecorderTypeOK'
  BY DEF RecorderIInv, RecorderTypeOK, MarkFailed,
         FailedAuthorization, FailedApproval, TerminalStatusForFailure, BuildAuthorization,
         CreateOutcome, ReceiptIsValid, Finish, Usable, Add, UpdateStatus, AppendEvents
<1>2. CallInv(c)'
  <2> DEFINE auth == FailedAuthorization(c, code)
             o    == CreateOutcome(c, auth, TerminalStatusForFailure(code))
  <2>1. /\ c \in live /\ c \notin terminal /\ status[c] # "none"
        /\ outcomeEvents[c] = {}
        /\ c \in dispatched => authorization[c] # NoReceipt
    BY DEF RecorderIInv, RecorderTypeOK, MarkFailed, Usable, CallInv, Unbegun, ReceiptMeaning, OutcomeExtends
  <2>2. /\ auth # NoReceipt
        /\ authorization[c] # NoReceipt => auth = authorization[c]
        /\ authorization[c] = NoReceipt => auth.status = "failed_pre_dispatch"
    BY <2>1 DEF RecorderIInv, RecorderTypeOK, FailedAuthorization, BuildAuthorization
  <2>3. /\ authorization'[c] = auth
        /\ c \in terminal' /\ c \in completed' /\ status'[c] = "failed"
        /\ authEvents'[c] = {auth}
        /\ outcomeEvents'[c] = IF c \in dispatched THEN {o} ELSE {}
        /\ UNCHANGED <<boundary, decision, dispatched, required, approvalRow, startEvents>>
    BY <2>1, <2>2 DEF RecorderIInv, RecorderTypeOK, CallInv, MemoryMatchesRows, MarkFailed, Finish,
                      UpdateStatus, Add
  <2>4. o.extends = auth.id
    BY DEF CreateOutcome
  <2>5. approval'[c] = "approved" => approval[c] = "approved"
    BY DEF RecorderIInv, RecorderTypeOK, MarkFailed, FailedApproval
  <2> HIDE DEF auth, o
  <2>6. Unbegun(c)' /\ MemoryMatchesRows(c)' /\ ReceiptMeaning(c)'
    BY <2>1, <2>2, <2>3 DEF RecorderIInv, CallInv, Unbegun, MemoryMatchesRows, ReceiptMeaning
  <2>7. OutcomeExtends(c)'
    BY <2>3, <2>4 DEF OutcomeExtends
  <2>8. ApprovalIsBacked(c)'
    BY <2>2, <2>3, <2>5 DEF RecorderIInv, CallInv, ApprovalIsBacked
  <2> QED
    BY <2>6, <2>7, <2>8 DEF CallInv
<1>3. \A d \in Calls \ {c} : Untouched(d)
  BY DEF RecorderIInv, RecorderTypeOK, MarkFailed,
         FailedAuthorization, FailedApproval, TerminalStatusForFailure, BuildAuthorization,
         CreateOutcome, ReceiptIsValid, Finish, Usable, Add, UpdateStatus, AppendEvents, Untouched
<1> QED
  BY <1>1, <1>2, <1>3, OneCall

\* A failing markFailed() never turns an approval into an approved one.
LEMMA MarkFailedThrowsIInv ==
    ASSUME RecorderIInv, NEW c \in Calls, NEW code \in FailureCodes, MarkFailedThrows(c, code)
    PROVE  RecorderIInv'
<1>1. RecorderTypeOK'
  BY DEF RecorderIInv, RecorderTypeOK, MarkFailedThrows,
         FailedApproval, Usable, database
<1>2. CallInv(c)'
  BY DEF RecorderIInv, RecorderTypeOK, MarkFailedThrows,
         FailedApproval, Usable, database, CallInv, Unbegun,
         MemoryMatchesRows, ReceiptMeaning, OutcomeExtends, ApprovalIsBacked
<1>3. \A d \in Calls \ {c} : Untouched(d)
  BY DEF RecorderIInv, RecorderTypeOK, MarkFailedThrows,
         FailedApproval, Usable, database, Untouched
<1> QED
  BY <1>1, <1>2, <1>3, OneCall

\* appendEvidence() adds an event that is no receipt.
LEMMA AppendEvidenceIInv ==
    ASSUME RecorderIInv, NEW c \in Calls, AppendEvidence(c)
    PROVE  RecorderIInv'
<1>1. RecorderTypeOK'
  BY DEF RecorderIInv, RecorderTypeOK, AppendEvidence, handle, AppendEvents, Usable
<1>2. CallInv(c)'
  BY DEF RecorderIInv, RecorderTypeOK, AppendEvidence, handle, AppendEvents, Usable, CallInv, Unbegun,
         MemoryMatchesRows, ReceiptMeaning, OutcomeExtends, ApprovalIsBacked
<1>3. \A d \in Calls \ {c} : Untouched(d)
  BY DEF RecorderIInv, RecorderTypeOK, AppendEvidence, handle, AppendEvents, Usable, Untouched
<1> QED
  BY <1>1, <1>2, <1>3, OneCall

\* A rolled-back method leaves memory and rows as they were.
LEMMA RollBackIInv ==
    ASSUME RecorderIInv, NEW c \in Calls, RollBack(c)
    PROVE  RecorderIInv'
<1>1. RecorderTypeOK'
  BY DEF RecorderIInv, RecorderTypeOK, RollBack, Usable, database
<1>2. CallInv(c)'
  BY DEF RecorderIInv, RecorderTypeOK, RollBack, Usable, database, CallInv, Unbegun,
         MemoryMatchesRows, ReceiptMeaning, OutcomeExtends, ApprovalIsBacked
<1>3. \A d \in Calls \ {c} : Untouched(d)
  BY DEF RecorderIInv, RecorderTypeOK, RollBack, Usable, database, Untouched
<1> QED
  BY <1>1, <1>2, <1>3, OneCall

-----------------------------------------------------------------------------
\* Every method, every failure and every crash preserves the invariant.
LEMMA RecorderNextIInv == RecorderIInv /\ [RecorderNext]_recorderVars => RecorderIInv'
<1> SUFFICES ASSUME RecorderIInv, [RecorderNext]_recorderVars PROVE RecorderIInv'
  OBVIOUS
<1>1. ASSUME NEW c \in Calls, NEW b \in Boundaries, NEW d \in EffectiveDecisions, Begin(c, b, d)
      PROVE  RecorderIInv'
  BY <1>1, BeginIInv
<1>2. ASSUME NEW c \in Calls, BeginThrows(c) PROVE RecorderIInv'
  BY <1>2 DEF BeginThrows, handle, database, RecorderIInv, RecorderTypeOK, CallInv, Unbegun,
              MemoryMatchesRows, ReceiptMeaning, OutcomeExtends, ApprovalIsBacked
<1>3. ASSUME NEW c \in Calls, MarkCompleted(c, TRUE) \/ MarkCompleted(c, FALSE) PROVE RecorderIInv'
  BY <1>3, CompleteIInv DEF MarkCompleted
<1>4. ASSUME NEW c \in Calls, NEW e \in BOOLEAN, MarkExecutionResult(c, e) PROVE RecorderIInv'
  BY <1>4, CompleteIInv DEF MarkExecutionResult
<1>5. ASSUME NEW c \in Calls, NEW st \in GraphTerminal, FinalizeGraphGenesisOutcome(c, st)
      PROVE  RecorderIInv'
  BY <1>5, CompleteIInv DEF FinalizeGraphGenesisOutcome
<1>6. CASE Crash
  BY <1>6 DEF Crash, database, RecorderIInv, RecorderTypeOK, CallInv, Unbegun, MemoryMatchesRows,
              ReceiptMeaning, OutcomeExtends, ApprovalIsBacked
<1>7. CASE UNCHANGED recorderVars
  BY <1>7 DEF recorderVars, handle, database, RecorderIInv, RecorderTypeOK, CallInv, Unbegun, MemoryMatchesRows,
              ReceiptMeaning, OutcomeExtends, ApprovalIsBacked
<1> QED
  BY <1>1, <1>2, <1>3, <1>4, <1>5, <1>6, <1>7, MarkAuthorizedIInv,
     MarkExecutionStartedIInv, MarkForwardingIInv, MarkApprovalRequestedIInv,
     MarkApprovalResolvedIInv, MarkBlockedIInv, MarkBlockedThrowsIInv, MarkFailedIInv,
     MarkFailedThrowsIInv, AppendEvidenceIInv, RollBackIInv
  DEF RecorderNext

\* The invariant holds in every reachable state.
LEMMA RecorderInductive == RecorderSpec => []RecorderIInv
BY RecorderInitIInv, RecorderNextIInv, PTL DEF RecorderSpec

\* Handles and rows are always well formed.
THEOREM RecorderTypeCorrect == RecorderSpec => []RecorderTypeOK
BY RecorderInductive, PTL DEF RecorderIInv

\* A receipt export never meets contradictory evidence, whatever the callers
\* do and whatever fails.
THEOREM ExportsAreNeverRefused == RecorderSpec => []ExportNeverRefused
<1>1. RecorderIInv => ExportNeverRefused
  BY DEF RecorderIInv, CallInv, MemoryMatchesRows, ReceiptMeaning, OutcomeExtends, ExportNeverRefused
<1> QED
  BY <1>1, RecorderInductive, PTL

\* The fail-closed boundary: no start is recorded without the durable, approved
\* authorization of the same call.
THEOREM StartsAreAuthorized == RecorderSpec => []StartIsAuthorized
<1>1. ASSUME RecorderIInv, NEW c \in Calls, startEvents[c] # {}
      PROVE  /\ \A s \in startEvents[c] :
                  \E a \in authEvents[c] : a.id = s /\ a.status = "authorized"
             /\ decision[c] # "deny"
             /\ decision[c] = "ask" \/ approvalRow[c] # "none" => approvalRow[c] = "approved"
  <2>1. c \in dispatched /\ startEvents[c] = {authorization[c].id}
    BY <1>1 DEF RecorderIInv, CallInv, MemoryMatchesRows
  <2>2. authorization[c].status = "authorized"
    BY <1>1, <2>1 DEF RecorderIInv, CallInv, ReceiptMeaning
  <2>3. authorization[c] # NoReceipt
    BY <2>2
  <2>4. authEvents[c] = {authorization[c]}
    BY <1>1, <2>3 DEF RecorderIInv, CallInv, MemoryMatchesRows
  <2> QED
    BY <1>1, <2>1, <2>2, <2>4 DEF RecorderIInv, CallInv, ApprovalIsBacked
<1>2. RecorderIInv => StartIsAuthorized
  BY <1>1 DEF StartIsAuthorized
<1> QED
  BY <1>2, RecorderInductive, PTL

\* A finished row has its authorization, and an outcome exactly if it started; a
\* row that is finished as blocked never did.
THEOREM FinishedRowsHaveReceipts == RecorderSpec => []FinishedRowHasReceipts
<1>1. ASSUME RecorderIInv, NEW c \in completed
      PROVE  authEvents[c] # {} /\ (outcomeEvents[c] # {} <=> startEvents[c] # {})
  BY <1>1 DEF RecorderIInv, RecorderTypeOK, CallInv, MemoryMatchesRows, ReceiptMeaning, OutcomeExtends
<1>2. ASSUME RecorderIInv, NEW c \in completed, status[c] \in BlockedStatuses
      PROVE  startEvents[c] = {}
  BY <1>2 DEF RecorderIInv, RecorderTypeOK, CallInv, MemoryMatchesRows, ReceiptMeaning
<1>3. RecorderIInv => FinishedRowHasReceipts
  BY <1>1, <1>2 DEF FinishedRowHasReceipts
<1> QED
  BY <1>3, RecorderInductive, PTL

-----------------------------------------------------------------------------
\* No step touches the rows of a finished call.
RowsKept(c) ==
    /\ status'[c] = status[c]
    /\ events'[c] = events[c]
    /\ authEvents'[c] = authEvents[c]
    /\ outcomeEvents'[c] = outcomeEvents[c]
    /\ approvalRow'[c] = approvalRow[c]

\* Every method refuses a finished call, so a step on another call is the only
\* step that writes.
LEMMA FinishedKept ==
    ASSUME RecorderIInv, RecorderNext, NEW c \in completed
    PROVE  RowsKept(c)
<1>1. c \in Calls /\ c \in terminal /\ status[c] # "none"
  BY DEF RecorderIInv, RecorderTypeOK, CallInv, Unbegun, MemoryMatchesRows
<1>2. ~Usable(c)
  BY <1>1 DEF Usable
<1>3. ASSUME NEW d \in Calls, NEW b \in Boundaries, NEW e \in EffectiveDecisions, Begin(d, b, e)
      PROVE  RowsKept(c)
  BY <1>1, <1>3 DEF RecorderIInv, RecorderTypeOK, Begin, UpdateStatus, AppendEvents, RowsKept
<1>4. ASSUME NEW d \in Calls, MarkAuthorized(d) \/ MarkExecutionStarted(d) \/ MarkForwarding(d)
      PROVE  RowsKept(c)
  BY <1>1, <1>2, <1>4 DEF RecorderIInv, RecorderTypeOK, MarkAuthorized, MarkExecutionStarted, MarkForwarding,
                          UpdateStatus, AppendEvents, Add, RowsKept
<1>5. ASSUME NEW d \in Calls, NEW o \in Resolutions,
             MarkApprovalRequested(d) \/ MarkApprovalResolved(d, o)
      PROVE  RowsKept(c)
  BY <1>1, <1>2, <1>5 DEF RecorderIInv, RecorderTypeOK, MarkApprovalRequested, MarkApprovalResolved,
                          UpdateStatus, AppendEvents, RowsKept
<1>6. ASSUME NEW d \in Calls, NEW st \in BlockedStatuses, MarkBlocked(d, st)
      PROVE  RowsKept(c)
  BY <1>1, <1>2, <1>6 DEF RecorderIInv, RecorderTypeOK, MarkBlocked, Finish, UpdateStatus, AppendEvents, Add,
                          RowsKept
<1>7. ASSUME NEW d \in Calls, NEW st, NEW n, CompleteCall(d, st, st, n)
      PROVE  RowsKept(c)
  BY <1>1, <1>2, <1>7 DEF RecorderIInv, RecorderTypeOK, CompleteCall, Finish, UpdateStatus, AppendEvents, Add,
                          RowsKept
<1>8. ASSUME NEW d \in Calls, NEW code \in FailureCodes, MarkFailed(d, code)
      PROVE  RowsKept(c)
  BY <1>1, <1>2, <1>8 DEF RecorderIInv, RecorderTypeOK, MarkFailed, Finish, UpdateStatus, AppendEvents, Add,
                          RowsKept
<1>9. ASSUME NEW d \in Calls, AppendEvidence(d) PROVE RowsKept(c)
  BY <1>1, <1>2, <1>9 DEF RecorderIInv, RecorderTypeOK, AppendEvidence, AppendEvents, RowsKept
<1>10. ASSUME UNCHANGED database PROVE RowsKept(c)
  BY <1>10 DEF database, RowsKept
<1> QED
  BY <1>3, <1>4, <1>5, <1>6, <1>7, <1>8, <1>9, <1>10
  DEF RecorderNext, BeginThrows, MarkBlockedThrows, MarkFailedThrows, RollBack, Crash,
      MarkCompleted, MarkExecutionResult, FinalizeGraphGenesisOutcome

\* A finished row and its evidence are final, for every late call of a handle
\* that outlived its request.
THEOREM FinishedRowsAreFinal == RecorderSpec => FinishedIsFinal
<1> DEFINE Kept == \A c \in completed : RowsKept(c)
<1>1. RecorderIInv /\ [RecorderNext]_recorderVars => [Kept]_recorderVars
  BY FinishedKept
<1>2. RecorderSpec => [][Kept]_recorderVars
  BY <1>1, RecorderInductive, PTL DEF RecorderSpec
<1> QED
  BY <1>2 DEF FinishedIsFinal, RowsKept

-----------------------------------------------------------------------------
(**************************************************************************)
(* Proofs about the metadata broker, for any number of requests and        *)
(* packages and any limits.                                                *)
(*                                                                         *)
(* The counters of a session say nothing by themselves; the inductive      *)
(* invariant says what they count.  Admitted requests have the ordinals    *)
(* 1..started, one each; `active' counts the handlers of admitted requests *)
(* that have not ended; `reserved' is what was received plus a whole       *)
(* response for every admitted request that has not delivered, because a   *)
(* failed one never gives its reservation back.                            *)
(**************************************************************************)

Admitted == {r \in Requests : seq[r] # 0}
Accepted == {r \in Requests : reply[r] = "ok"}
Busy     == {r \in Admitted : pc[r] # "done"}
Entry(r) == [seq |-> seq[r], bytes |-> size[r]]

\* What the place of a handler implies.
HandlerInv(r) ==
    /\ pc[r] = "none" => seq[r] = 0 /\ reply[r] = "none"
    /\ pc[r] \in {"intent", "fetching", "validating"} => seq[r] # 0
    /\ pc[r] \in {"fetching", "validating"} => seq[r] \in fetched
    /\ pc[r] = "validating" => size[r] \in 1..ResponseBytes
    /\ pc[r] = "notifying" => failed
    /\ reply[r] = "ok" => /\ pc[r] = "done" /\ seq[r] # 0 /\ seq[r] \in validated
                          /\ size[r] \in 1..ResponseBytes

\* The ordinals of the admitted requests are 1..started, one each.
Ordinals ==
    /\ \A r \in Requests : seq[r] \in 0..started
    /\ \A r1, r2 \in Admitted : seq[r1] = seq[r2] => r1 = r2
    /\ \A n \in 1..started : \E r \in Admitted : seq[r] = n

\* The evidence of one kind implies that of the kind before it.
Chain ==
    /\ validated \subseteq fetched /\ fetched \subseteq observed
    /\ observed \subseteq intents /\ intents \subseteq 1..started

\* What the counters count.
Counters ==
    /\ IsFiniteSet(Admitted) /\ Cardinality(Admitted) = started
    /\ active = Cardinality(Busy)
    /\ names = {pkg[r] : r \in Admitted} /\ IsFiniteSet(names)
    /\ started <= TotalRequests
    /\ active <= ConcurrentRequests
    /\ Cardinality(names) <= UniquePackageNames

\* The entries are those of the accepted requests, and what is reserved covers
\* what was received and what may still come.
Bytes ==
    /\ entries = {Entry(r) : r \in Accepted}
    /\ IsFiniteSet(ReceivedBytes)
    /\ reserved = Cardinality(ReceivedBytes)
                    + ResponseBytes * Cardinality(Admitted \ Accepted)
    /\ reserved <= AggregateBytes

\* A session that has failed can only be armed again by an arm() that was awaiting
\* its record since before the first request.
Failure ==
    /\ failed <=> aborted
    /\ notifying => failed
    /\ failed => state \in {"failing", "incomplete", "armed"}
    /\ arming => leaseUsed /\ state # "armed" /\ started = 0
    /\ state \in {"armed", "complete"} => leaseUsed /\ ~arming
    /\ started > 0 => leaseUsed
    /\ failed /\ state = "armed" =>
         Accepted = {} /\ \A r \in Requests : pc[r] # "validating"

\* With a ledger the session is over.
Ledger ==
    ledger # NoLedger =>
        state = "complete" /\ ~failed /\ Accepted = Admitted /\ ledger.count = started

BrokerIInv ==
    /\ TypeOK
    /\ \A r \in Requests : HandlerInv(r)
    /\ Ordinals
    /\ Chain
    /\ Counters
    /\ Bytes
    /\ Failure
    /\ Ledger

USE DEF States, HandlerSteps

-----------------------------------------------------------------------------
(* Facts that hold in every state of the invariant. *)

\* The limits are positive naturals.
LEMMA Limits ==
    /\ TotalRequests \in Nat /\ ConcurrentRequests \in Nat /\ UniquePackageNames \in Nat
    /\ ResponseBytes \in Nat /\ AggregateBytes \in Nat /\ ResponseBytes > 0
BY LimitsAssumption

\* There are n numbers from 1 to n.
LEMMA FirstNumbers ==
    ASSUME NEW n \in Nat
    PROVE  IsFiniteSet(1..n) /\ Cardinality(1..n) = n
<1>1. IsFiniteSet(1..n) /\ Cardinality(1..n) = IF 1 > n THEN 0 ELSE n - 1 + 1
  BY ONLY FS_Interval, n \in Nat
<1> QED
  BY <1>1

\* One thing, numbered from 1 to n, makes n pairs.
LEMMA NumberedRow ==
    ASSUME NEW a, NEW n \in Nat
    PROVE  IsFiniteSet({a} \X (1..n)) /\ Cardinality({a} \X (1..n)) = n
<1>1. IsFiniteSet({a}) /\ Cardinality({a}) = 1
  BY FS_Singleton
<1>2. IsFiniteSet(1..n) /\ Cardinality(1..n) = n
  BY FirstNumbers
<1>3. /\ IsFiniteSet({a} \X (1..n))
      /\ Cardinality({a} \X (1..n)) = Cardinality({a}) * Cardinality(1..n)
  BY ONLY <1>1, <1>2, FS_Product, Zenon
<1> QED
  BY <1>1, <1>2, <1>3

\* One response more or less.
LEMMA OneResponse ==
    ASSUME NEW k \in Nat
    PROVE  /\ ResponseBytes * k \in Nat
           /\ ResponseBytes * (k + 1) = ResponseBytes * k + ResponseBytes
BY Limits

\* Fewer responses need no more bytes.
LEMMA FewerResponses ==
    ASSUME NEW k \in Nat, NEW m \in Nat, k <= m
    PROVE  ResponseBytes * k <= ResponseBytes * m
BY Limits

\* A session that was just prepared satisfies the invariant.
LEMMA BrokerInitIInv == Init => BrokerIInv
<1> SUFFICES ASSUME Init PROVE BrokerIInv
  OBVIOUS
<1>1. TypeOK
  BY DEF Init, TypeOK, NoLedger
<1>2. Admitted = {} /\ Accepted = {} /\ Busy = {} /\ ReceivedBytes = {}
  BY DEF Init, Admitted, Accepted, Busy, ReceivedBytes
<1>3. \A r \in Requests : HandlerInv(r)
  BY DEF Init, HandlerInv
<1>4. Ordinals /\ Chain
  BY <1>2 DEF Init, Ordinals, Chain
<1>5. Counters
  BY <1>2, FS_EmptySet, Limits DEF Init, Counters
<1>6. Bytes
  <2>1. ResponseBytes * 0 = 0
    BY Limits
  <2> QED
    BY <1>2, <2>1, FS_EmptySet, Limits DEF Init, Bytes
<1>7. Failure /\ Ledger
  BY <1>2 DEF Init, Failure, Ledger
<1> QED
  BY <1>1, <1>3, <1>4, <1>5, <1>6, <1>7 DEF BrokerIInv

-----------------------------------------------------------------------------
(* Steps of the handlers. *)

\* A handler that goes on without ending leaves the admitted requests, the
\* counters and the bytes as they are.
LEMMA HandlerGoesOn ==
    ASSUME BrokerIInv, NEW r \in Requests, pc[r] # "done",
           NEW s \in HandlerSteps \ {"done"}, pc' = [pc EXCEPT ![r] = s],
           UNCHANGED <<budget, seq, pkg, reply>>,
           \A q \in Requests : q # r => size'[q] = size[q]
    PROVE  /\ Admitted' = Admitted /\ Accepted' = Accepted
           /\ Ordinals' /\ Counters' /\ Bytes'
<1>1. Admitted' = Admitted
  BY DEF Admitted
<1>2. Accepted' = Accepted /\ r \notin Accepted
  BY DEF Accepted, BrokerIInv, HandlerInv
<1>3. Busy' = Busy
  BY <1>1 DEF Busy, Admitted, BrokerIInv, TypeOK
<1>4. \A q \in Accepted : Entry(q)' = Entry(q)
  BY <1>2 DEF Accepted, Entry
<1>5. ReceivedBytes' = ReceivedBytes
  BY DEF ReceivedBytes, budget
<1>6. Ordinals'
  BY <1>1 DEF Ordinals, BrokerIInv, budget
<1>7. Counters'
  BY <1>1, <1>3 DEF Counters, BrokerIInv, budget
<1>8. Bytes'
  <2>1. entries' = {Entry(q)' : q \in Accepted'}
    BY <1>2, <1>4 DEF BrokerIInv, Bytes, budget
  <2> QED
    BY <1>1, <1>2, <1>5, <2>1 DEF Bytes, BrokerIInv, budget
<1> QED
  BY <1>1, <1>2, <1>6, <1>7, <1>8

\* A handler that throws, wherever it is and whatever the session has become: the
\* first failure ends a live session, a later one changes only the handler.
LEMMA ThrowIInv ==
    ASSUME BrokerIInv, NEW r \in Requests, pc[r] # "done", Throw(r),
           UNCHANGED <<arming, leaseUsed, notifying, ledger, budget, seq, pkg, size, next,
                       reply, intents, validated, fetched, server>>,
           observed \subseteq observed', observed' \subseteq intents,
           attached' \in BOOLEAN
    PROVE  BrokerIInv'
<1> DEFINE s == IF FailsFirst THEN "notifying" ELSE "failing"
<1>1. pc' = [pc EXCEPT ![r] = s] /\ s \in {"notifying", "failing"}
  BY DEF Throw
<1>2. /\ Admitted' = Admitted /\ Accepted' = Accepted
      /\ Ordinals' /\ Counters' /\ Bytes'
  BY <1>1, HandlerGoesOn DEF budget
<1>3. \/ /\ FailsFirst /\ state' = "failing" /\ aborted' = TRUE /\ failed' = TRUE
      \/ ~FailsFirst /\ UNCHANGED <<state, aborted, failed>>
  BY DEF Throw, FailSession
<1>4. TypeOK'
  BY <1>1, <1>3 DEF TypeOK, BrokerIInv, Chain, budget
<1>5. ASSUME NEW q \in Requests PROVE HandlerInv(q)'
  <2>1. failed => failed'
    BY <1>3
  <2>2. s = "notifying" => failed'
    BY <1>3
  <2> HIDE DEF s
  <2> QED
    BY <1>1, <2>1, <2>2 DEF HandlerInv, BrokerIInv, TypeOK
<1>6. Chain'
  BY DEF Chain, BrokerIInv, budget
<1>7. Failure'
  <2>1. started' = started
    BY DEF budget
  <2>2. CASE FailsFirst
    BY <1>2, <1>3, <2>1, <2>2 DEF Failure, BrokerIInv, FailsFirst
  <2>3. CASE ~FailsFirst
    <3>1. \A q \in Requests : pc'[q] = "validating" => pc[q] = "validating"
      BY <1>1 DEF BrokerIInv, TypeOK
    <3> QED
      BY <1>2, <1>3, <2>1, <2>3, <3>1 DEF Failure, BrokerIInv, FailsFirst
  <2> QED
    BY <2>2, <2>3
<1>8. Ledger'
  BY <1>2, <1>3 DEF Ledger, BrokerIInv, FailsFirst, budget, NoLedger
<1> QED
  BY <1>2, <1>4, <1>5, <1>6, <1>7, <1>8 DEF BrokerIInv

\* A request without a session, and one that fails before it is admitted.
LEMMA RejectIInv == ASSUME BrokerIInv, NEW r \in Requests, Reject(r) PROVE BrokerIInv'
<1>1. /\ pc[r] = "none" /\ pc' = [pc EXCEPT ![r] = "done"]
      /\ reply' = [reply EXCEPT ![r] = "rejected"]
      /\ UNCHANGED <<session, budget, seq, pkg, size, next, evidence, listener>>
  BY DEF Reject, Arrives, Answer
<1>2. seq[r] = 0 /\ reply[r] = "none"
  BY <1>1 DEF BrokerIInv, HandlerInv
<1>3. Admitted' = Admitted /\ Accepted' = Accepted /\ Busy' = Busy
  BY <1>1, <1>2 DEF Admitted, Accepted, Busy, BrokerIInv, TypeOK
<1>4. TypeOK'
  BY <1>1 DEF TypeOK, BrokerIInv, session, budget, evidence, listener
<1>5. \A q \in Requests : HandlerInv(q)'
  BY <1>1, <1>2 DEF HandlerInv, BrokerIInv, TypeOK, session, evidence
<1>6. Ordinals' /\ Chain' /\ Counters'
  BY <1>1, <1>3 DEF Ordinals, Chain, Counters, BrokerIInv, budget, evidence
<1>7. Bytes'
  <2>1. ReceivedBytes' = ReceivedBytes /\ \A q \in Requests : Entry(q)' = Entry(q)
    BY <1>1 DEF ReceivedBytes, Entry, budget
  <2> QED
    BY <1>1, <1>3, <2>1 DEF Bytes, BrokerIInv, budget, Accepted
<1>8. Failure' /\ Ledger'
  BY <1>1, <1>3 DEF Failure, Ledger, BrokerIInv, TypeOK, session, budget, NoLedger
<1> QED
  BY <1>4, <1>5, <1>6, <1>7, <1>8 DEF BrokerIInv

\* A failed handler ends.
LEMMA FailureAnsweredIInv == ASSUME BrokerIInv, NEW r \in Requests, FailureAnswered(r) PROVE BrokerIInv'
<1>1. /\ pc[r] \in {"notifying", "failing"} /\ pc' = [pc EXCEPT ![r] = "done"]
      /\ reply' = [reply EXCEPT ![r] = "failed"]
      /\ active' = IF seq[r] = 0 THEN active ELSE active - 1
      /\ UNCHANGED <<arming, leaseUsed, aborted, failed, notifying, ledger, started,
                     names, reserved, committed, entries, seq, pkg, size, next, evidence,
                     server>>
      /\ attached' = FALSE
  BY DEF FailureAnswered, Answer, Release
<1>2. \/ pc[r] = "notifying" /\ failed /\ state' = "incomplete"
      \/ UNCHANGED state
  BY DEF FailureAnswered, BrokerIInv, HandlerInv
<1>3. Admitted' = Admitted /\ Accepted' = Accepted
  BY <1>1 DEF Admitted, Accepted, BrokerIInv, TypeOK, HandlerInv
<1>4. Busy' = Busy \ {r} /\ (r \in Busy <=> seq[r] # 0) /\ IsFiniteSet(Busy)
  <2>1. Busy' = Busy \ {r} /\ (r \in Busy <=> seq[r] # 0)
    BY <1>1, <1>3 DEF Busy, Admitted, BrokerIInv, TypeOK
  <2>2. Busy \in SUBSET Admitted
    BY DEF Busy
  <2> QED
    BY <2>1, <2>2, FS_Subset DEF BrokerIInv, Counters
<1>5. active' = Cardinality(Busy') /\ active' <= active /\ active' \in Nat
  <2>1. Cardinality(Busy') = IF r \in Busy THEN Cardinality(Busy) - 1 ELSE Cardinality(Busy)
    BY <1>4, FS_RemoveElement
  <2>2. Cardinality(Busy') \in Nat
    BY <1>4, FS_RemoveElement, FS_CardinalityType
  <2> QED
    BY <1>1, <1>4, <2>1, <2>2 DEF BrokerIInv, Counters, TypeOK
<1>6. TypeOK'
  BY <1>1, <1>2, <1>5 DEF TypeOK, BrokerIInv, evidence
<1>7. \A q \in Requests : HandlerInv(q)'
  BY <1>1 DEF HandlerInv, BrokerIInv, TypeOK, evidence
<1>8. Ordinals' /\ Chain'
  BY <1>1, <1>3 DEF Ordinals, Chain, BrokerIInv, evidence
<1>9. Counters'
  BY <1>1, <1>3, <1>5, Limits DEF Counters, BrokerIInv, TypeOK
<1>10. Bytes'
  <2>1. ReceivedBytes' = ReceivedBytes /\ \A q \in Requests : Entry(q)' = Entry(q)
    BY <1>1 DEF ReceivedBytes, Entry
  <2> QED
    BY <1>1, <1>3, <2>1 DEF Bytes, BrokerIInv, Accepted
<1>11. Failure' /\ Ledger'
  <2>1. \A q \in Requests : pc'[q] = "validating" => pc[q] = "validating"
    BY <1>1 DEF BrokerIInv, TypeOK
  <2> QED
    BY <1>1, <1>2, <1>3, <2>1 DEF Failure, Ledger, BrokerIInv, TypeOK, NoLedger
<1> QED
  BY <1>6, <1>7, <1>8, <1>9, <1>10, <1>11 DEF BrokerIInv

\* reserve(): the request gets the next ordinal, and every limit that is checked
\* holds afterwards.
LEMMA ReserveIInv ==
    ASSUME BrokerIInv, NEW r \in Requests, NEW p \in Packages, Reserve(r, p)
    PROVE  BrokerIInv'
<1>1. /\ pc[r] = "none" /\ pc' = [pc EXCEPT ![r] = "intent"]
      /\ started' = started + 1 /\ active' = active + 1
      /\ reserved' = reserved + ResponseBytes
      /\ names' = names \cup {p}
      /\ seq' = [seq EXCEPT ![r] = started + 1]
      /\ pkg' = [pkg EXCEPT ![r] = p]
      /\ intents' = intents \cup {started + 1} \/ UNCHANGED intents
      /\ UNCHANGED <<session, committed, entries, size, next, reply, observed,
                     validated, fetched, listener>>
  BY DEF Reserve, Arrives
<1>2. /\ state = "armed" /\ started < TotalRequests /\ active < ConcurrentRequests
      /\ p \in names \/ Cardinality(names) < UniquePackageNames
      /\ reserved + ResponseBytes <= AggregateBytes
  BY DEF Reserve, CanReserve
<1>3. seq[r] = 0 /\ reply[r] = "none" /\ r \notin Admitted /\ r \notin Accepted
  BY <1>1 DEF BrokerIInv, HandlerInv, Admitted, Accepted
<1>4. Admitted' = Admitted \cup {r} /\ Accepted' = Accepted /\ Busy' = Busy \cup {r}
  <2>1. Admitted' = Admitted \cup {r}
    BY <1>1 DEF Admitted, BrokerIInv, TypeOK
  <2> QED
    BY <1>1, <2>1 DEF Admitted, Accepted, Busy, BrokerIInv, TypeOK
<1>5. r \notin Busy /\ IsFiniteSet(Admitted) /\ IsFiniteSet(Busy) /\ Accepted \subseteq Admitted
  <2>1. Busy \in SUBSET Admitted
    BY DEF Busy
  <2>2. Accepted \subseteq Admitted
    BY DEF BrokerIInv, HandlerInv, Admitted, Accepted
  <2> QED
    BY <1>3, <2>1, <2>2, FS_Subset DEF BrokerIInv, Counters
<1>6. TypeOK'
  BY <1>1, Limits DEF TypeOK, BrokerIInv, session, listener
<1>7. \A q \in Requests : HandlerInv(q)'
  BY <1>1, <1>3 DEF HandlerInv, BrokerIInv, TypeOK, session
<1>8. Ordinals'
  <2>1. \A q \in Requests : seq'[q] \in 0..started'
    BY <1>1 DEF Ordinals, BrokerIInv, TypeOK
  <2>2. ASSUME NEW q1 \in Admitted', NEW q2 \in Admitted', seq'[q1] = seq'[q2] PROVE q1 = q2
    BY <1>1, <1>4, <2>2 DEF Ordinals, BrokerIInv, TypeOK, Admitted
  <2>3. ASSUME NEW n \in 1..started' PROVE \E q \in Admitted' : seq'[q] = n
    <3>1. CASE n = started + 1
      BY <1>1, <1>4, <3>1 DEF BrokerIInv, TypeOK
    <3>2. CASE n # started + 1
      <4>1. n \in 1..started
        BY <1>1, <3>2 DEF BrokerIInv, TypeOK
      <4>2. PICK q \in Admitted : seq[q] = n
        BY <4>1 DEF BrokerIInv, Ordinals
      <4>3. q # r /\ q \in Requests
        BY <1>3 DEF Admitted
      <4> QED
        BY <1>1, <1>4, <4>2, <4>3 DEF BrokerIInv, TypeOK
    <3> QED
      BY <3>1, <3>2
  <2> QED
    BY <2>1, <2>2, <2>3 DEF Ordinals
<1>9. Chain'
  <2>1. intents \subseteq intents' /\ intents' \subseteq intents \cup {started + 1}
    BY <1>1
  <2>2. intents \subseteq 1..started /\ started \in Nat
    BY DEF Chain, BrokerIInv, TypeOK
  <2>3. intents' \subseteq 1..started'
    BY <1>1, <2>1, <2>2
  <2> QED
    BY <1>1, <2>1, <2>3 DEF Chain, BrokerIInv
<1>10. Counters'
  <2>1. IsFiniteSet(Admitted') /\ Cardinality(Admitted') = started'
    BY <1>1, <1>3, <1>4, <1>5, FS_AddElement DEF BrokerIInv, Counters
  <2>2. active' = Cardinality(Busy')
    BY <1>1, <1>4, <1>5, FS_AddElement DEF BrokerIInv, Counters
  <2>3. names' = {pkg'[q] : q \in Admitted'}
    <3>1. pkg'[r] = p /\ \A q \in Admitted : pkg'[q] = pkg[q]
      BY <1>1, <1>3 DEF BrokerIInv, TypeOK, Admitted
    <3> QED
      BY <1>1, <1>4, <3>1 DEF BrokerIInv, Counters
  <2>4. IsFiniteSet(names') /\ Cardinality(names') <= UniquePackageNames
    <3>1. IsFiniteSet(names) /\ Cardinality(names) <= UniquePackageNames
      BY DEF BrokerIInv, Counters
    <3>2. IsFiniteSet(names \cup {p}) /\ Cardinality(names) \in Nat
      BY <3>1, FS_AddElement, FS_CardinalityType
    <3>3. Cardinality(names \cup {p}) = IF p \in names THEN Cardinality(names)
                                       ELSE Cardinality(names) + 1
      BY <3>1, FS_AddElement
    <3> QED
      BY <1>1, <1>2, <3>1, <3>2, <3>3, Limits
  <2>5. started' <= TotalRequests /\ active' <= ConcurrentRequests
    BY <1>1, <1>2, Limits DEF BrokerIInv, TypeOK
  <2> QED
    BY <2>1, <2>2, <2>3, <2>4, <2>5 DEF Counters
<1>11. Bytes'
  <2>1. ReceivedBytes' = ReceivedBytes /\ \A q \in Accepted : Entry(q)' = Entry(q)
    BY <1>1, <1>3 DEF ReceivedBytes, Entry, BrokerIInv, TypeOK, Accepted
  <2>2. Admitted' \ Accepted' = (Admitted \ Accepted) \cup {r}
    BY <1>3, <1>4
  <2>3. IsFiniteSet(Admitted \ Accepted) /\ Cardinality(Admitted \ Accepted) \in Nat
    BY <1>5, FS_Difference, FS_CardinalityType
  <2>4. Cardinality(Admitted' \ Accepted') = Cardinality(Admitted \ Accepted) + 1
    BY <1>3, <2>2, <2>3, FS_AddElement
  <2>5. Cardinality(ReceivedBytes) \in Nat
    BY FS_CardinalityType DEF BrokerIInv, Bytes
  <2>6. reserved' = Cardinality(ReceivedBytes')
                      + ResponseBytes * Cardinality(Admitted' \ Accepted')
    BY <1>1, <2>1, <2>3, <2>4, <2>5, OneResponse, Limits DEF BrokerIInv, Bytes
  <2>7. entries' = {Entry(q)' : q \in Accepted'}
    BY <1>1, <1>4, <2>1 DEF BrokerIInv, Bytes
  <2> QED
    BY <1>1, <1>2, <2>1, <2>6, <2>7 DEF BrokerIInv, Bytes
<1>12. Failure'
  <2>1. \A q \in Requests : pc'[q] = "validating" => pc[q] = "validating"
    BY <1>1 DEF BrokerIInv, TypeOK
  <2> QED
    BY <1>1, <1>2, <1>4, <2>1 DEF Failure, BrokerIInv, TypeOK, session
<1>13. Ledger'
  BY <1>1, <1>2 DEF Ledger, BrokerIInv, session, NoLedger
<1> QED
  BY <1>6, <1>7, <1>8, <1>9, <1>10, <1>11, <1>12, <1>13 DEF BrokerIInv

\* record() of the intent returns: the read is made, or the handler throws.
LEMMA IntentRecordedIInv == ASSUME BrokerIInv, NEW r \in Requests, IntentRecorded(r) PROVE BrokerIInv'
<1>1. CASE seq[r] \in intents /\ state = "armed"
  <2>1. /\ pc[r] = "intent" /\ pc' = [pc EXCEPT ![r] = "fetching"]
        /\ observed' = observed \cup {seq[r]} /\ fetched' = fetched \cup {seq[r]}
        /\ UNCHANGED <<session, budget, seq, pkg, size, next, reply, intents, validated,
                       listener>>
    BY <1>1 DEF IntentRecorded, session
  <2>2. /\ Admitted' = Admitted /\ Accepted' = Accepted
        /\ Ordinals' /\ Counters' /\ Bytes'
    BY <2>1, HandlerGoesOn
  <2>3. TypeOK'
    BY <2>1 DEF TypeOK, BrokerIInv, session, budget, listener
  <2>4. \A q \in Requests : HandlerInv(q)'
    BY <2>1 DEF HandlerInv, BrokerIInv, TypeOK, session
  <2>5. Chain'
    BY <1>1, <2>1 DEF Chain, BrokerIInv, budget
  <2>6. Failure' /\ Ledger'
    <3>1. \A q \in Requests : pc'[q] = "validating" => pc[q] = "validating"
      BY <2>1 DEF BrokerIInv, TypeOK
    <3> QED
      BY <2>1, <2>2, <3>1 DEF Failure, Ledger, BrokerIInv, TypeOK, session, budget, NoLedger
  <2> QED
    BY <2>2, <2>3, <2>4, <2>5, <2>6 DEF BrokerIInv
<1>2. CASE ~(seq[r] \in intents /\ state = "armed")
  <2>1. observed \subseteq observed' /\ observed' \subseteq intents
    BY DEF IntentRecorded, BrokerIInv, Chain
  <2>2. attached' \in BOOLEAN
    BY DEF IntentRecorded, BrokerIInv, TypeOK, listener
  <2> QED
    BY <1>2, <2>1, <2>2, ThrowIInv DEF IntentRecorded, listener
<1> QED
  BY <1>1, <1>2

\* The other steps on which a handler throws.
LEMMA ThrowingIInv ==
    ASSUME BrokerIInv, NEW r \in Requests,
           Malformed(r) \/ FetchFails(r) \/ \E p \in Packages : OverLimit(r, p)
    PROVE  BrokerIInv'
<1>1. /\ pc[r] # "done" /\ Throw(r)
      /\ UNCHANGED <<arming, leaseUsed, notifying, ledger, budget, seq, pkg, size, next,
                     reply, evidence, server>>
      /\ attached' \in {TRUE, FALSE} \/ UNCHANGED attached
  BY DEF Malformed, FetchFails, OverLimit, Arrives, listener
<1>2. observed \subseteq observed' /\ observed' \subseteq intents
  BY <1>1 DEF evidence, BrokerIInv, Chain
<1>3. attached' \in BOOLEAN
  BY <1>1 DEF BrokerIInv, TypeOK
<1> QED
  BY <1>1, <1>2, <1>3, ThrowIInv DEF evidence

\* A response has arrived; only a session that has not failed looks at it.
LEMMA FetchedIInv ==
    ASSUME BrokerIInv, NEW r \in Requests, NEW n \in 1..ResponseBytes, Fetched(r, n)
    PROVE  BrokerIInv'
<1> DEFINE ok == state = "armed" /\ ~aborted /\ committed + n <= AggregateBytes
<1>0. n \in Nat
  BY Limits
<1>1. CASE ok
  <2>1. /\ pc[r] = "fetching" /\ pc' = [pc EXCEPT ![r] = "validating"]
        /\ state = "armed" /\ ~aborted
        /\ size' = [size EXCEPT ![r] = n] /\ next' = [next EXCEPT ![r] = committed + n]
        /\ validated \subseteq validated' /\ validated' \subseteq validated \cup {seq[r]}
        /\ UNCHANGED <<session, budget, seq, pkg, reply, intents, observed, fetched,
                       listener>>
    BY <1>1 DEF Fetched, session
  <2>2. /\ Admitted' = Admitted /\ Accepted' = Accepted
        /\ Ordinals' /\ Counters' /\ Bytes'
    BY <2>1, HandlerGoesOn DEF BrokerIInv, TypeOK
  <2>3. seq[r] # 0 /\ seq[r] \in fetched /\ reply[r] # "ok"
    BY <2>1 DEF BrokerIInv, HandlerInv
  <2>4. Chain'
    BY <2>1, <2>3 DEF Chain, BrokerIInv, budget
  <2>5. TypeOK'
    BY <1>0, <2>1, <2>4 DEF TypeOK, BrokerIInv, session, budget, listener
  <2>6. \A q \in Requests : HandlerInv(q)'
    BY <2>1, <2>3 DEF HandlerInv, BrokerIInv, TypeOK, session
  <2>7. Failure' /\ Ledger'
    BY <2>1, <2>2 DEF Failure, Ledger, BrokerIInv, TypeOK, session, budget, NoLedger
  <2> QED
    BY <2>2, <2>4, <2>5, <2>6, <2>7 DEF BrokerIInv
<1>2. CASE ~ok
  <2>1. observed \subseteq observed' /\ observed' \subseteq intents
    BY DEF Fetched, BrokerIInv, Chain
  <2>2. attached' \in BOOLEAN
    BY DEF Fetched, BrokerIInv, TypeOK, listener
  <2> QED
    BY <1>2, <2>1, <2>2, ThrowIInv DEF Fetched, listener
<1> QED
  BY <1>1, <1>2

\* The bytes of a response that was not committed before come on top of the others.
LEMMA BytesPushed ==
    ASSUME BrokerIInv, NEW r \in Requests, r \in Admitted, r \notin Accepted,
           size[r] \in 1..ResponseBytes, entries' = entries \cup {Entry(r)}
    PROVE  /\ IsFiniteSet(ReceivedBytes')
           /\ Cardinality(ReceivedBytes') = Cardinality(ReceivedBytes) + size[r]
<1> DEFINE new == {seq[r]} \X (1..size[r])
<1>0. size[r] \in Nat /\ size[r] > 0 /\ seq[r] \in Nat
  BY Limits DEF BrokerIInv, TypeOK
<1>1. ReceivedBytes' = ReceivedBytes \cup new
  <2>1. new = {Entry(r).seq} \X (1..Entry(r).bytes)
    BY DEF Entry
  <2> HIDE DEF new
  <2>2. ReceivedBytes' = UNION {{e.seq} \X (1..e.bytes) : e \in entries \cup {Entry(r)}}
    BY DEF ReceivedBytes
  <2>3. ASSUME NEW x PROVE x \in ReceivedBytes' <=> x \in ReceivedBytes \cup new
    BY <2>1, <2>2 DEF ReceivedBytes
  <2> QED
    BY <2>3
<1>2. ReceivedBytes \cap new = {}
  <2>1. ASSUME NEW x \in ReceivedBytes, x \in new PROVE FALSE
    <3>1. PICK e \in entries : x \in {e.seq} \X (1..e.bytes)
      BY DEF ReceivedBytes
    <3>2. PICK q \in Accepted : e = Entry(q)
      BY DEF BrokerIInv, Bytes
    <3>3. seq[q] = seq[r]
      BY <2>1, <3>1, <3>2 DEF Entry
    <3>4. q \in Admitted
      BY DEF BrokerIInv, HandlerInv, Accepted, Admitted
    <3> QED
      BY <3>3, <3>4 DEF BrokerIInv, Ordinals
  <2> QED
    BY <2>1
<1>3. IsFiniteSet(new) /\ Cardinality(new) = size[r]
  BY <1>0, NumberedRow
<1>4. IsFiniteSet(ReceivedBytes) /\ Cardinality(ReceivedBytes) \in Nat
  BY FS_CardinalityType DEF BrokerIInv, Bytes
<1> HIDE DEF new
<1>5. /\ IsFiniteSet(ReceivedBytes \cup new)
      /\ Cardinality(ReceivedBytes \cup new) = Cardinality(ReceivedBytes) + Cardinality(new) - 0
  BY <1>2, <1>3, <1>4, FS_Union, FS_EmptySet
<1> QED
  BY <1>0, <1>1, <1>3, <1>4, <1>5

\* The validation is durable: the entry is pushed and the reservation is reduced to
\* what was received, or the handler throws.
LEMMA ResponseRecordedIInv ==
    ASSUME BrokerIInv, NEW r \in Requests, ResponseRecorded(r)
    PROVE  BrokerIInv'
<1>1. CASE Commits(r)
  <2>1. /\ pc[r] = "validating" /\ pc' = [pc EXCEPT ![r] = "done"]
        /\ seq[r] \in validated /\ state = "armed"
        /\ reply' = [reply EXCEPT ![r] = "ok"]
        /\ entries' = entries \cup {Entry(r)}
        /\ committed' = next[r]
        /\ reserved' = reserved - ResponseBytes + size[r]
        /\ active' = IF seq[r] = 0 THEN active ELSE active - 1
        /\ UNCHANGED <<session, started, names, seq, pkg, size, next, evidence, listener>>
    BY <1>1 DEF ResponseRecorded, PushEntry, Commits, Answer, Release, Entry, session
  <2>2. seq[r] # 0 /\ size[r] \in 1..ResponseBytes /\ reply[r] # "ok" /\ ~failed
    BY <2>1 DEF BrokerIInv, HandlerInv, Failure
  <2>3. r \in Admitted /\ r \notin Accepted /\ r \in Busy
    BY <2>1, <2>2 DEF Admitted, Accepted, Busy
  <2>4. Admitted' = Admitted /\ Accepted' = Accepted \cup {r} /\ Busy' = Busy \ {r}
    <3>1. Admitted' = Admitted
      BY <2>1 DEF Admitted
    <3> QED
      BY <2>1, <3>1 DEF Admitted, Accepted, Busy, BrokerIInv, TypeOK
  <2>5. IsFiniteSet(Admitted) /\ IsFiniteSet(Busy) /\ Accepted \subseteq Admitted
    <3>1. Busy \in SUBSET Admitted
      BY DEF Busy
    <3>2. Accepted \subseteq Admitted
      BY DEF BrokerIInv, HandlerInv, Admitted, Accepted
    <3> QED
      BY <3>1, <3>2, FS_Subset DEF BrokerIInv, Counters
  <2>6. active' = Cardinality(Busy') /\ active' <= active /\ active' \in Nat
    <3>1. Cardinality(Busy') = Cardinality(Busy) - 1 /\ Cardinality(Busy') \in Nat
      BY <2>3, <2>4, <2>5, FS_RemoveElement, FS_CardinalityType
    <3> QED
      BY <2>1, <2>2, <3>1 DEF BrokerIInv, Counters, TypeOK
  <2>7. Bytes' /\ reserved' \in Nat
    <3>1. \A q \in Requests : Entry(q)' = Entry(q)
      BY <2>1 DEF Entry
    <3>2. entries' = {Entry(q)' : q \in Accepted'}
      BY <2>1, <2>4, <3>1 DEF BrokerIInv, Bytes, Accepted
    <3>3. /\ IsFiniteSet(ReceivedBytes')
          /\ Cardinality(ReceivedBytes') = Cardinality(ReceivedBytes) + size[r]
      BY <2>1, <2>2, <2>3, BytesPushed
    <3>4. IsFiniteSet(Admitted \ Accepted) /\ r \in Admitted \ Accepted
      BY <2>3, <2>5, FS_Difference
    <3>5. Admitted' \ Accepted' = (Admitted \ Accepted) \ {r}
      BY <2>4
    <3> DEFINE k == Cardinality(Admitted' \ Accepted')
    <3>6. k \in Nat /\ Cardinality(Admitted \ Accepted) = k + 1
      <4>1. IsFiniteSet((Admitted \ Accepted) \ {r})
        BY <3>4, FS_RemoveElement
      <4>2. k = Cardinality(Admitted \ Accepted) - 1
        BY <3>4, <3>5, FS_RemoveElement
      <4>3. k \in Nat /\ Cardinality(Admitted \ Accepted) \in Nat
        BY <3>4, <3>5, <4>1, FS_CardinalityType
      <4> QED
        BY <4>2, <4>3
    <3>7. Cardinality(ReceivedBytes) \in Nat
      BY FS_CardinalityType DEF BrokerIInv, Bytes
    <3>8. /\ reserved = Cardinality(ReceivedBytes) + ResponseBytes * (k + 1)
          /\ reserved <= AggregateBytes
      BY <3>6 DEF BrokerIInv, Bytes
    <3>9. size[r] \in Nat /\ size[r] <= ResponseBytes
      BY <2>2, Limits
    <3> HIDE DEF k
    <3>10. /\ ResponseBytes * k \in Nat
           /\ ResponseBytes * (k + 1) = ResponseBytes * k + ResponseBytes
      BY <3>6, OneResponse
    <3>11. /\ reserved' = Cardinality(ReceivedBytes') + ResponseBytes * k
           /\ reserved' <= AggregateBytes /\ reserved' \in Nat
      BY <2>1, <3>3, <3>7, <3>8, <3>9, <3>10, Limits
    <3> QED
      BY <3>2, <3>3, <3>11 DEF Bytes, k
  <2>8. TypeOK'
    <3>1. Entry(r) \in [seq : Nat, bytes : Nat]
      BY DEF BrokerIInv, TypeOK, Entry
    <3> QED
      BY <2>1, <2>6, <2>7, <3>1 DEF TypeOK, BrokerIInv, session, evidence, listener
  <2>9. \A q \in Requests : HandlerInv(q)'
    BY <2>1, <2>2 DEF HandlerInv, BrokerIInv, TypeOK, session, evidence
  <2>10. Ordinals' /\ Chain'
    BY <2>1, <2>4 DEF Ordinals, Chain, BrokerIInv, evidence
  <2>11. Counters'
    BY <2>1, <2>4, <2>6, Limits DEF Counters, BrokerIInv, TypeOK
  <2>12. Failure' /\ Ledger'
    BY <2>1, <2>2 DEF Failure, Ledger, BrokerIInv, session, NoLedger
  <2> QED
    BY <2>7, <2>8, <2>9, <2>10, <2>11, <2>12 DEF BrokerIInv
<1>2. CASE ~Commits(r)
  <2>1. observed \subseteq observed' /\ observed' \subseteq intents
    BY DEF ResponseRecorded, evidence, BrokerIInv, Chain
  <2>2. attached' \in BOOLEAN
    BY DEF ResponseRecorded, BrokerIInv, TypeOK, listener
  <2> QED
    BY <1>2, <2>1, <2>2, ThrowIInv DEF ResponseRecorded, listener, evidence, budget
<1> QED
  BY <1>1, <1>2

-----------------------------------------------------------------------------
(* Steps of the owner and of the listener. *)

\* They touch no counter, no handler and no evidence.
LEMMA OwnerStep ==
    ASSUME BrokerIInv, UNCHANGED <<budget, handlers, evidence>>, failed => failed'
    PROVE  /\ Admitted' = Admitted /\ Accepted' = Accepted
           /\ \A r \in Requests : HandlerInv(r)'
           /\ Ordinals' /\ Chain' /\ Counters' /\ Bytes'
<1> USE DEF budget, handlers, evidence
<1>1. Admitted' = Admitted /\ Accepted' = Accepted /\ ReceivedBytes' = ReceivedBytes
  BY DEF Admitted, Accepted, ReceivedBytes
<1>2. Busy' = Busy /\ \A r \in Requests : Entry(r)' = Entry(r)
  BY <1>1 DEF Busy, Entry
<1>3. \A r \in Requests : HandlerInv(r)'
  BY DEF HandlerInv, BrokerIInv
<1>4. Ordinals' /\ Chain' /\ Counters'
  BY <1>1, <1>2 DEF Ordinals, Chain, Counters, BrokerIInv
<1>5. Bytes'
  BY <1>1, <1>2 DEF Bytes, BrokerIInv, Accepted
<1> QED
  BY <1>1, <1>3, <1>4, <1>5

\* arm(), its record, and attaching the session to the listener.
LEMMA ArmIInv == ASSUME BrokerIInv, Arm \/ Armed \/ Attach PROVE BrokerIInv'
<1>1. UNCHANGED <<aborted, failed, notifying, ledger, budget, handlers, evidence>>
  BY DEF Arm, Armed, Attach, session
<1>2. /\ Admitted' = Admitted /\ Accepted' = Accepted
      /\ \A r \in Requests : HandlerInv(r)'
      /\ Ordinals' /\ Chain' /\ Counters' /\ Bytes'
  BY <1>1, OwnerStep
<1>3. arming => Accepted = {} /\ \A r \in Requests : pc[r] # "validating"
  <2> SUFFICES ASSUME arming PROVE Accepted = {} /\ \A r \in Requests : pc[r] # "validating"
    OBVIOUS
  <2>1. Admitted = {}
    BY FS_EmptySet DEF BrokerIInv, Failure, Counters
  <2> QED
    BY <2>1 DEF BrokerIInv, HandlerInv, Admitted, Accepted
<1>4. TypeOK'
  BY <1>1 DEF Arm, Armed, Attach, session, listener, budget, handlers, evidence, TypeOK, BrokerIInv
<1>5. Failure' /\ Ledger'
  <2> USE DEF budget, handlers
  <2>1. CASE Arm
    <3>1. started = 0
      BY <2>1 DEF Arm, BrokerIInv, Failure, TypeOK
    <3> QED
      BY <1>1, <1>2, <2>1, <3>1 DEF Arm, Failure, Ledger, BrokerIInv, NoLedger
  <2>2. CASE Armed
    BY <1>1, <1>2, <1>3, <2>2 DEF Armed, Failure, Ledger, BrokerIInv, NoLedger
  <2>3. CASE Attach
    BY <1>1, <1>2, <2>3 DEF Attach, session, Failure, Ledger, BrokerIInv, NoLedger
  <2> QED
    BY <2>1, <2>2, <2>3
<1> QED
  BY <1>2, <1>4, <1>5 DEF BrokerIInv

\* A session that may be completed has delivered everything it admitted, and has
\* not failed: a failed one that was armed again has no entry.
LEMMA CompleteIsWhole ==
    ASSUME BrokerIInv, CanComplete
    PROVE  Accepted = Admitted /\ ~failed
<1>1. Accepted \in SUBSET Admitted
  BY DEF BrokerIInv, HandlerInv, Admitted, Accepted
<1>2. /\ IsFiniteSet(Admitted) /\ IsFiniteSet(Accepted)
      /\ Cardinality(Accepted) <= Cardinality(Admitted)
      /\ Cardinality(Admitted) = Cardinality(Accepted) => Admitted = Accepted
  BY <1>1, FS_Subset DEF BrokerIInv, Counters
<1> DEFINE f == [r \in Accepted |-> Entry(r)]
<1>3. f \in Surjection(Accepted, entries)
  BY DEF BrokerIInv, Bytes, Surjection
<1> HIDE DEF f
<1>4. IsFiniteSet(entries) /\ Cardinality(entries) <= Cardinality(Accepted)
  BY <1>2, <1>3, FS_Surjection
<1>5. Cardinality(entries) = Cardinality(Admitted)
  BY DEF CanComplete, BrokerIInv, Counters
<1>6. Cardinality(Admitted) \in Nat /\ Cardinality(Accepted) \in Nat
  BY <1>2, FS_CardinalityType
<1>7. Accepted # {}
  BY DEF CanComplete, BrokerIInv, Bytes
<1> QED
  BY <1>2, <1>4, <1>5, <1>6, <1>7 DEF BrokerIInv, Failure, CanComplete

\* abort(), complete() and the return of onFailure().
LEMMA EndIInv == ASSUME BrokerIInv, Abort \/ Complete \/ OwnerNotified PROVE BrokerIInv'
<1>1. UNCHANGED <<arming, leaseUsed, budget, handlers, evidence, listener>>
  BY DEF Abort, Complete, OwnerNotified
<1>2. \/ /\ FailsFirst /\ state' = "failing" /\ aborted' = TRUE /\ failed' = TRUE
         /\ notifying' = TRUE /\ ledger' = ledger
      \/ /\ notifying /\ state' = "incomplete" /\ notifying' = FALSE
         /\ UNCHANGED <<aborted, failed, ledger>>
      \/ /\ CanComplete /\ leaseUsed /\ state' = "complete"
         /\ ledger' = [count |-> started, bytes |-> committed]
         /\ UNCHANGED <<aborted, failed, notifying>>
  BY DEF Abort, Complete, OwnerNotified, FailSession
<1>3. failed => failed'
  BY <1>2
<1>4. /\ Admitted' = Admitted /\ Accepted' = Accepted
      /\ \A r \in Requests : HandlerInv(r)'
      /\ Ordinals' /\ Chain' /\ Counters' /\ Bytes'
  BY <1>1, <1>3, OwnerStep
<1>5. TypeOK'
  <2>1. ledger' \in [count : Nat, bytes : Nat]
    BY <1>2 DEF BrokerIInv, TypeOK
  <2>2. state' \in States /\ {aborted', failed', notifying'} \subseteq BOOLEAN
    BY <1>2 DEF BrokerIInv, TypeOK
  <2> QED
    BY <1>1, <2>1, <2>2 DEF TypeOK, BrokerIInv, budget, handlers, evidence, listener
<1>6. CanComplete => Accepted = Admitted /\ ~failed
  BY CompleteIsWhole
<1>7. Failure' /\ Ledger'
  <2> USE DEF budget, handlers
  <2>1. CASE FailsFirst /\ state' = "failing" /\ aborted' = TRUE /\ failed' = TRUE
             /\ notifying' = TRUE /\ ledger' = ledger
    BY <1>1, <1>4, <2>1 DEF FailsFirst, Failure, Ledger, BrokerIInv, NoLedger
  <2>2. CASE notifying /\ state' = "incomplete" /\ notifying' = FALSE
             /\ UNCHANGED <<aborted, failed, ledger>>
    BY <1>1, <1>4, <2>2 DEF Failure, Ledger, BrokerIInv, NoLedger
  <2>3. CASE CanComplete /\ leaseUsed /\ state' = "complete"
             /\ ledger' = [count |-> started, bytes |-> committed]
             /\ UNCHANGED <<aborted, failed, notifying>>
    <3>1. state = "armed"
      BY <2>3 DEF CanComplete
    <3> QED
      BY <1>1, <1>4, <1>6, <2>3, <3>1 DEF Failure, Ledger, BrokerIInv, NoLedger
  <2> QED
    BY <1>2, <2>1, <2>2, <2>3
<1> QED
  BY <1>4, <1>5, <1>7 DEF BrokerIInv

\* closeAndDrain().
LEMMA DrainIInv == ASSUME BrokerIInv, CloseAndDrain \/ Drained \/ UNCHANGED vars PROVE BrokerIInv'
<1>1. UNCHANGED <<session, budget, handlers, evidence>>
  BY DEF CloseAndDrain, Drained, vars
<1>2. /\ Admitted' = Admitted /\ Accepted' = Accepted
      /\ \A r \in Requests : HandlerInv(r)'
      /\ Ordinals' /\ Chain' /\ Counters' /\ Bytes'
  BY <1>1, OwnerStep DEF session
<1>3. TypeOK'
  BY <1>1 DEF CloseAndDrain, Drained, vars, listener, TypeOK, BrokerIInv, session, budget,
              handlers, evidence
<1>4. Failure' /\ Ledger'
  BY <1>1, <1>2 DEF Failure, Ledger, BrokerIInv, session, budget, handlers, NoLedger
<1> QED
  BY <1>2, <1>3, <1>4 DEF BrokerIInv

-----------------------------------------------------------------------------
(* The invariant and what follows from it. *)

\* Every step preserves the invariant.
LEMMA BrokerNextIInv == ASSUME BrokerIInv, [Next]_vars PROVE BrokerIInv'
<1>1. ASSUME NEW r \in Requests,
             \/ Reject(r) \/ Malformed(r)
             \/ \E p \in Packages : OverLimit(r, p) \/ Reserve(r, p)
             \/ \E n \in 1..ResponseBytes : Fetched(r, n)
             \/ HandlerStep(r)
      PROVE  BrokerIInv'
  BY <1>1, RejectIInv, ThrowingIInv, ReserveIInv, FetchedIInv, IntentRecordedIInv,
     ResponseRecordedIInv, FailureAnsweredIInv DEF HandlerStep
<1>2. CASE Arm \/ Armed \/ Attach
  BY <1>2, ArmIInv
<1>3. CASE Abort \/ Complete \/ OwnerNotified
  BY <1>3, EndIInv
<1>4. CASE CloseAndDrain \/ Drained \/ UNCHANGED vars
  BY <1>4, DrainIInv
<1> QED
  BY <1>1, <1>2, <1>3, <1>4 DEF Next

\* The inductive invariant holds in every reachable state.
THEOREM BrokerInductive == Spec => []BrokerIInv
<1>1. Init => BrokerIInv
  BY BrokerInitIInv
<1>2. BrokerIInv /\ [Next]_vars => BrokerIInv'
  BY BrokerNextIInv
<1> QED
  BY <1>1, <1>2, PTL DEF Spec

\* Type correctness of the session, its handlers and its evidence.
THEOREM BrokerTypeCorrect == Spec => []TypeOK
<1>1. BrokerIInv => TypeOK
  BY DEF BrokerIInv
<1> QED
  BY <1>1, BrokerInductive, PTL

\* The handlers whose response is or may be on its way are busy, and have not
\* delivered it.
LEMMA OutstandingIsCovered ==
    ASSUME BrokerIInv
    PROVE  /\ Outstanding \subseteq Busy /\ Outstanding \subseteq Admitted \ Accepted
           /\ IsFiniteSet(Outstanding)
           /\ Cardinality(Outstanding) <= active
           /\ Cardinality(Outstanding) <= Cardinality(Admitted \ Accepted)
<1>1. Outstanding \in SUBSET Admitted
  BY DEF Outstanding, Admitted, BrokerIInv, HandlerInv
<1>2. Outstanding \in SUBSET Busy /\ Busy \in SUBSET Admitted
  BY <1>1 DEF Outstanding, Busy
<1>3. Outstanding \in SUBSET (Admitted \ Accepted)
  BY <1>1 DEF Outstanding, Accepted, BrokerIInv, HandlerInv
<1>4. IsFiniteSet(Admitted) /\ IsFiniteSet(Busy) /\ IsFiniteSet(Admitted \ Accepted)
  BY <1>2, FS_Subset, FS_Difference DEF BrokerIInv, Counters
<1>5. IsFiniteSet(Outstanding) /\ Cardinality(Outstanding) <= Cardinality(Busy)
  BY <1>2, <1>4, FS_Subset
<1>6. Cardinality(Outstanding) <= Cardinality(Admitted \ Accepted)
  BY <1>3, <1>4, FS_Subset
<1> QED
  BY <1>2, <1>3, <1>5, <1>6 DEF BrokerIInv, Counters

\* However many requests arrive and however their handlers interleave, the reads that
\* were made, those that are outstanding and the bytes that were or may still be
\* received stay within the limits of the broker.
THEOREM BudgetHolds == Spec => []WithinBudget
<1>1. ASSUME BrokerIInv PROVE WithinBudget
  <2>1. Cardinality(fetched) <= TotalRequests
    <3>1. fetched \in SUBSET (1..started) /\ started \in Nat /\ started <= TotalRequests
      BY <1>1 DEF BrokerIInv, Chain, Counters, TypeOK
    <3>2. IsFiniteSet(1..started) /\ Cardinality(1..started) = started
      BY <3>1, FirstNumbers
    <3>3. IsFiniteSet(fetched) /\ Cardinality(fetched) <= started
      BY <3>1, <3>2, FS_Subset
    <3>4. Cardinality(fetched) \in Nat
      BY <3>3, FS_CardinalityType
    <3> QED
      BY <3>1, <3>3, <3>4, Limits
  <2>2. Cardinality(Outstanding) \in Nat
    BY <1>1, OutstandingIsCovered, FS_CardinalityType
  <2>3. Cardinality(Outstanding) <= ConcurrentRequests
    <3>1. active \in Nat /\ active <= ConcurrentRequests
      BY <1>1 DEF BrokerIInv, Counters, TypeOK
    <3> QED
      BY <1>1, <2>2, <3>1, OutstandingIsCovered, Limits
  <2>4. Cardinality({pkg[r] : r \in Outstanding}) <= UniquePackageNames
    <3>1. {pkg[r] : r \in Outstanding} \in SUBSET names
      BY <1>1, OutstandingIsCovered DEF BrokerIInv, Counters
    <3>2. IsFiniteSet(names) /\ Cardinality(names) <= UniquePackageNames
      BY <1>1 DEF BrokerIInv, Counters
    <3> DEFINE P == {pkg[r] : r \in Outstanding}
    <3> HIDE DEF P
    <3>3. IsFiniteSet(P) /\ Cardinality(P) <= Cardinality(names)
      BY <3>1, <3>2, FS_Subset DEF P
    <3>4. Cardinality(P) \in Nat /\ Cardinality(names) \in Nat
      BY <3>2, <3>3, FS_CardinalityType
    <3>5. Cardinality(P) <= UniquePackageNames
      BY <3>2, <3>3, <3>4, Limits
    <3> QED
      BY <3>5 DEF P
  <2>5. Cardinality(ReceivedBytes) + ResponseBytes * Cardinality(Outstanding)
          <= AggregateBytes
    <3> DEFINE k == Cardinality(Outstanding)
               m == Cardinality(Admitted \ Accepted)
    <3>1. IsFiniteSet(Admitted \ Accepted) /\ IsFiniteSet(ReceivedBytes)
      BY <1>1, FS_Difference DEF BrokerIInv, Counters, Bytes
    <3>2. k \in Nat /\ m \in Nat /\ Cardinality(ReceivedBytes) \in Nat
      BY <2>2, <3>1, FS_CardinalityType
    <3>3. k <= m
      BY <1>1, OutstandingIsCovered
    <3>4. Cardinality(ReceivedBytes) + ResponseBytes * m <= AggregateBytes
      BY <1>1 DEF BrokerIInv, Bytes
    <3> HIDE DEF k, m
    <3>5. /\ ResponseBytes * k <= ResponseBytes * m
          /\ ResponseBytes * k \in Nat /\ ResponseBytes * m \in Nat
      BY <3>2, <3>3, FewerResponses, OneResponse
    <3> QED
      BY <3>2, <3>4, <3>5, Limits DEF k
  <2> QED
    BY <2>1, <2>3, <2>4, <2>5 DEF WithinBudget
<1>2. BrokerIInv => WithinBudget
  BY <1>1
<1> QED
  BY <1>2, BrokerInductive, PTL

\* Every read has its durable intent, npm is given only validated and accounted bytes,
\* and a ledger speaks of a whole, finished and unfailed session.
THEOREM LedgerFaithful == Spec => []LedgerIsFaithful
<1>1. ASSUME BrokerIInv PROVE NothingUnrecorded
  <2>1. ASSUME NEW r \in Requests, reply[r] = "ok"
        PROVE  seq[r] \in validated /\ [seq |-> seq[r], bytes |-> size[r]] \in entries
    BY <1>1, <2>1 DEF BrokerIInv, HandlerInv, Bytes, Accepted, Entry
  <2> QED
    BY <1>1, <2>1 DEF NothingUnrecorded, BrokerIInv, Chain
<1>2. ASSUME BrokerIInv PROVE LedgerIsWhole
  <2> SUFFICES ASSUME ledger # NoLedger
               PROVE  /\ ~failed
                      /\ Outstanding = {}
                      /\ {e.seq : e \in entries} = 1..ledger.count
                      /\ intents = 1..ledger.count
                      /\ validated = intents
    BY DEF LedgerIsWhole
  <2>1. ~failed /\ Accepted = Admitted /\ ledger.count = started
    BY <1>2 DEF BrokerIInv, Ledger
  <2>2. Outstanding = {}
    BY <1>2, <2>1, OutstandingIsCovered
  <2>3. ASSUME NEW n \in 1..started PROVE n \in validated /\ n \in {e.seq : e \in entries}
    <3>1. PICK r \in Admitted : seq[r] = n
      BY <1>2 DEF BrokerIInv, Ordinals
    <3>2. r \in Requests /\ reply[r] = "ok" /\ Entry(r) \in entries /\ Entry(r).seq = n
      BY <1>2, <2>1, <3>1 DEF Accepted, BrokerIInv, Bytes, Entry
    <3> QED
      BY <1>2, <3>1, <3>2 DEF BrokerIInv, HandlerInv
  <2>4. validated \subseteq intents /\ intents \subseteq 1..started
    BY <1>2 DEF BrokerIInv, Chain
  <2>5. ASSUME NEW e \in entries PROVE e.seq \in 1..started
    <3>1. PICK r \in Accepted : e = Entry(r)
      BY <1>2 DEF BrokerIInv, Bytes
    <3>2. r \in Requests /\ seq[r] # 0 /\ seq[r] \in 0..started /\ started \in Nat
      BY <1>2, <2>1 DEF BrokerIInv, Ordinals, TypeOK, Admitted
    <3> QED
      BY <3>1, <3>2 DEF Entry
  <2> QED
    BY <2>1, <2>2, <2>3, <2>4, <2>5
<1>3. BrokerIInv => LedgerIsFaithful
  BY <1>1, <1>2 DEF LedgerIsFaithful
<1> QED
  BY <1>3, BrokerInductive, PTL

\* After the first failure there is neither an entry nor a ledger any more, even when
\* a late arm() has set the state to armed again.
THEOREM FailureIsFinal == Spec => NothingAfterFailure
<1>1. ASSUME BrokerIInv, [Next]_vars, failed PROVE entries' = entries /\ ledger' = ledger
  <2>1. ASSUME NEW r \in Requests, ResponseRecorded(r) PROVE entries' = entries /\ ledger' = ledger
    <3>1. ~Commits(r)
      BY <1>1, <2>1 DEF Commits, ResponseRecorded, BrokerIInv, Failure
    <3> QED
      BY <2>1, <3>1 DEF ResponseRecorded
  <2>2. CASE Complete
    BY <1>1, <2>2, CompleteIsWhole DEF Complete, budget
  <2>3. ASSUME NEW r \in Requests,
               \/ Reject(r) \/ Malformed(r)
               \/ \E p \in Packages : OverLimit(r, p) \/ Reserve(r, p)
               \/ \E n \in 1..ResponseBytes : Fetched(r, n)
               \/ IntentRecorded(r) \/ FetchFails(r) \/ FailureAnswered(r)
        PROVE  entries' = entries /\ ledger' = ledger
    BY <2>3 DEF Reject, Malformed, OverLimit, Reserve, Fetched, IntentRecorded, FetchFails,
                FailureAnswered, session, budget
  <2>4. CASE \/ Arm \/ Armed \/ Attach \/ Abort \/ OwnerNotified \/ CloseAndDrain
             \/ Drained \/ UNCHANGED vars
    BY <2>4 DEF Arm, Armed, Attach, Abort, OwnerNotified, CloseAndDrain, Drained, vars,
                session, budget
  <2> QED
    BY <1>1, <2>1, <2>2, <2>3, <2>4 DEF Next, HandlerStep
<1>2. BrokerIInv /\ [Next]_vars => [failed => entries' = entries /\ ledger' = ledger]_vars
  BY <1>1
<1> QED
  BY <1>2, BrokerInductive, PTL DEF Spec, NothingAfterFailure
==============================================================================
