---------------------------- MODULE AuditRecorder ----------------------------
(***************************************************************************)
(* The audit recorder (audit/recorder.ts, SqliteAuditRecorder.begin and    *)
(* the handle it returns).  A handle keeps closure variables in memory;    *)
(* every mark... method checks them, runs ONE SQLite transaction and only  *)
(* then assigns them.  A crash loses the handle and keeps the rows.        *)
(*                                                                         *)
(* The client is arbitrary: it calls the methods in any order, goes on     *)
(* after a method has thrown, and may crash at any point, within the two   *)
(* conventions every caller keeps (CanBlock and CanAskForApproval).        *)
(*                                                                         *)
(* Data is abstracted to receipts: an Authorization Receipt is its random  *)
(* id, its status and the approval outcome it embeds; an Outcome Receipt   *)
(* is its id, the authorization whose digest it extends and its terminal   *)
(* status.  Other rows of audit_events are only counted.                   *)
(***************************************************************************)
EXTENDS Integers, FiniteSets

CONSTANTS
    Calls,         \* ids of audited calls
    MaxFailures,   \* bound on failing transactions
    MaxEvents      \* bound on the audit_events rows of a call

ASSUME FailuresAssumption == MaxFailures \in Nat
ASSUME EventsAssumption == MaxEvents \in Nat

\* "generic" stands for mcp_proxy_call, install_guard_plan and apg_local_control.
Boundaries == {"generic", "graph_genesis_plan"}
EffectiveDecisions == {"allow", "ask", "deny"}      \* effectiveDecision
Resolutions == {"approved", "denied", "expired", "cancelled"}
ApprovalStates == Resolutions \cup
    {"not_required", "not_requested", "pending", "unavailable"}
BlockedStatuses == {"denied", "approval_unavailable", "approval_denied",
                    "approval_expired", "approval_cancelled"}
GraphTerminal == {"completed", "execution_error", "cancelled", "failed",
                  "audit_failed", "incomplete_external_read",
                  "outcome_unknown_after_interruption"}
\* Error codes markFailed tells apart.
FailureCodes == {"upstream_error", "cancelled", "audit_completion_failed",
                 "incomplete_external_read", "approval_unavailable", "other"}
OutcomeStatuses == GraphTerminal \cup {"upstream_error"}

\* authorization === undefined
NoReceipt == [id |-> 0, status |-> "none", approval |-> "not_required"]
AuthorizationStatuses == {"authorized", "blocked", "failed_pre_dispatch"}
Authorizations == [id : Nat, status : AuthorizationStatuses, approval : ApprovalStates]
OutcomeReceipts == [id : Nat, extends : Nat, status : OutcomeStatuses]
RowStatuses == {"none", "evaluated", "authorized", "forwarding", "approval_pending",
                "approval_approved"} \cup BlockedStatuses \cup OutcomeStatuses

VARIABLES
    \* Closure variables of the handle of each call.
    live,            \* the process still holds the handle
    boundary,        \* receiptContext.boundary
    decision,        \* evaluation.effectiveDecision
    terminal,        \* calls whose terminal flag is set
    dispatched,      \* calls whose dispatched flag is set
    authorization,   \* authorization, or NoReceipt
    required,        \* calls with approval.required
    approval,        \* approval.outcome
    issued,          \* receipts built so far: the source of fresh receipt ids
    \* The database.
    status,          \* tool_calls.status
    completed,       \* rows of tool_calls with completed_at
    approvalRow,     \* approvals.status of the call's only row, or "none"
    authEvents,      \* authorization_receipt_finalized rows
    startEvents,     \* execution_start_recorded rows: the receipt they cite
    outcomeEvents,   \* outcome_receipt_finalized rows
    events,          \* number of audit_events rows of the call
    \* The environment.
    failures         \* transactions that have failed so far

handle == <<live, boundary, decision, terminal, dispatched, authorization,
            required, approval, issued>>
database == <<status, completed, approvalRow, authEvents, startEvents,
              outcomeEvents, events>>
recorderVars == <<handle, database, failures>>

RecorderTypeOK ==
    /\ live \subseteq Calls
    /\ boundary \in [Calls -> Boundaries]
    /\ decision \in [Calls -> EffectiveDecisions]
    /\ terminal \subseteq Calls
    /\ dispatched \subseteq Calls
    /\ authorization \in [Calls -> Authorizations \cup {NoReceipt}]
    /\ required \subseteq Calls
    /\ approval \in [Calls -> ApprovalStates]
    /\ issued \in [Calls -> Nat]
    /\ status \in [Calls -> RowStatuses]
    /\ completed \subseteq Calls
    /\ approvalRow \in [Calls -> Resolutions \cup {"none", "pending"}]
    /\ authEvents \in [Calls -> SUBSET Authorizations]
    /\ startEvents \in [Calls -> SUBSET Nat]
    /\ outcomeEvents \in [Calls -> SUBSET OutcomeReceipts]
    /\ events \in [Calls -> Nat]
    /\ failures \in Nat

RecorderInit ==
    /\ live = {}
    /\ boundary = [c \in Calls |-> "generic"]
    /\ decision = [c \in Calls |-> "deny"]
    /\ terminal = {}
    /\ dispatched = {}
    /\ authorization = [c \in Calls |-> NoReceipt]
    /\ required = {}
    /\ approval = [c \in Calls |-> "not_required"]
    /\ issued = [c \in Calls |-> 0]
    /\ status = [c \in Calls |-> "none"]
    /\ completed = {}
    /\ approvalRow = [c \in Calls |-> "none"]
    /\ authEvents = [c \in Calls |-> {}]
    /\ startEvents = [c \in Calls |-> {}]
    /\ outcomeEvents = [c \in Calls |-> {}]
    /\ events = [c \in Calls |-> 0]
    /\ failures = 0

-----------------------------------------------------------------------------
(* Receipts. *)

\* Mutant of ReceiptIsValid: the decision is not looked at.
ReceiptIgnoresDecision(c, st, outcome, req) ==
    st = "authorized" => (req => outcome = "approved")

\* The part of AuthorizationReceiptSchema that can refuse a receipt the recorder
\* builds: createAuthorizationReceipt throws and no transaction is started.
ReceiptIsValid(c, st, outcome, req) ==
    /\ st = "authorized" =>
         /\ decision[c] # "deny"
         /\ req => outcome = "approved"
    /\ st = "blocked" =>
         \/ decision[c] = "deny"
         \/ outcome \in {"denied", "expired", "cancelled", "unavailable"}

\* buildAuthorization(): a receipt with a fresh id around the current approval.
BuildAuthorization(c, st, outcome) ==
    [id |-> issued[c] + 1, status |-> st, approval |-> outcome]

\* createOutcomeReceipt(): cites the digest of the authorization it extends.
CreateOutcome(c, auth, st) ==
    [id |-> issued[c] + 2, extends |-> auth.id, status |-> st]

\* appendEvent(), n times.
AppendEvents(c, n) ==
    /\ events[c] + n <= MaxEvents      \* bound
    /\ events' = [events EXCEPT ![c] = @ + n]

UpdateStatus(c, st) == status' = [status EXCEPT ![c] = st]

\* finish(): the status and completed_at of the row.
Finish(c, st) ==
    /\ UpdateStatus(c, st)
    /\ completed' = completed \cup {c}

Add(f, c, e) == [f EXCEPT ![c] = @ \cup {e}]

\* Mutant of Usable: the terminal flag is not looked at.
UsableForEver(c) == c \in live

Usable(c) == c \in live /\ c \notin terminal

\* What markForwarding and markAuthorized demand of a required approval.
ApprovalSatisfied(c) == c \in required => approval[c] = "approved"

-----------------------------------------------------------------------------
(* begin() and the methods of the handle. *)

\* begin(): the row and decision_recorded in one transaction, then the handle.
Begin(c, b, d) ==
    /\ status[c] = "none"
    /\ UpdateStatus(c, "evaluated")
    /\ AppendEvents(c, 1)
    /\ live' = live \cup {c}
    /\ boundary' = [boundary EXCEPT ![c] = b]
    /\ decision' = [decision EXCEPT ![c] = d]
    /\ required' = IF d = "ask" THEN required \cup {c} ELSE required
    /\ approval' = [approval EXCEPT ![c] =
                      IF d = "ask" THEN "not_requested" ELSE "not_required"]
    /\ UNCHANGED <<terminal, dispatched, authorization, issued, completed,
                   approvalRow, authEvents, startEvents, outcomeEvents, failures>>

\* The transaction of begin() fails: no row and no handle.
BeginThrows(c) ==
    /\ status[c] = "none"
    /\ failures < MaxFailures
    /\ failures' = failures + 1
    /\ UNCHANGED <<handle, database>>

\* markAuthorized(): Graph Genesis records its authorization ahead of the start.
MarkAuthorized(c) ==
    LET next == BuildAuthorization(c, "authorized", approval[c]) IN
    /\ Usable(c)
    /\ boundary[c] = "graph_genesis_plan"
    /\ authorization[c] = NoReceipt
    /\ ApprovalSatisfied(c)
    /\ ReceiptIsValid(c, "authorized", approval[c], c \in required)
    /\ UpdateStatus(c, "authorized")
    /\ authEvents' = Add(authEvents, c, next)
    /\ AppendEvents(c, 2)
    /\ authorization' = [authorization EXCEPT ![c] = next]
    /\ issued' = [issued EXCEPT ![c] = @ + 1]
    /\ UNCHANGED <<live, boundary, decision, terminal, dispatched, required, approval,
                   completed, approvalRow, startEvents, outcomeEvents, failures>>

\* markExecutionStarted(): Graph Genesis records the start of its only process.
MarkExecutionStarted(c) ==
    /\ Usable(c)
    /\ boundary[c] = "graph_genesis_plan"
    /\ c \notin dispatched
    /\ authorization[c] # NoReceipt
    /\ UpdateStatus(c, "forwarding")
    /\ startEvents' = Add(startEvents, c, authorization[c].id)
    /\ AppendEvents(c, 1)
    /\ dispatched' = dispatched \cup {c}
    /\ UNCHANGED <<live, boundary, decision, terminal, authorization, required,
                   approval, issued, completed, approvalRow, authEvents,
                   outcomeEvents, failures>>

\* markForwarding(): authorization and start in one transaction.
MarkForwarding(c) ==
    LET next == BuildAuthorization(c, "authorized", approval[c]) IN
    /\ Usable(c)
    /\ boundary[c] # "graph_genesis_plan"
    /\ c \notin dispatched
    /\ ApprovalSatisfied(c)
    /\ ReceiptIsValid(c, "authorized", approval[c], c \in required)
    /\ UpdateStatus(c, "forwarding")
    /\ authEvents' = Add(authEvents, c, next)
    /\ startEvents' = Add(startEvents, c, next.id)
    /\ AppendEvents(c, 2)
    /\ authorization' = [authorization EXCEPT ![c] = next]
    /\ issued' = [issued EXCEPT ![c] = @ + 1]
    /\ dispatched' = dispatched \cup {c}
    /\ UNCHANGED <<live, boundary, decision, terminal, required, approval,
                   completed, approvalRow, outcomeEvents, failures>>

\* markApprovalRequested(): the unique index on approvals.tool_call_id allows
\* one row per call.
MarkApprovalRequested(c) ==
    /\ Usable(c)
    /\ approvalRow[c] = "none"
    /\ approvalRow' = [approvalRow EXCEPT ![c] = "pending"]
    /\ UpdateStatus(c, "approval_pending")
    /\ AppendEvents(c, 1)
    /\ required' = required \cup {c}
    /\ approval' = [approval EXCEPT ![c] = "pending"]
    /\ UNCHANGED <<live, boundary, decision, terminal, dispatched, authorization,
                   issued, completed, authEvents, startEvents, outcomeEvents, failures>>

\* markApprovalResolved(): the guarded UPDATE must change one pending row.
ResolvedStatus(outcome) ==
    CASE outcome = "approved"  -> "approval_approved"
      [] outcome = "denied"    -> "approval_denied"
      [] outcome = "expired"   -> "approval_expired"
      [] outcome = "cancelled" -> "approval_cancelled"

MarkApprovalResolved(c, outcome) ==
    /\ Usable(c)
    /\ approvalRow[c] = "pending"
    /\ approvalRow' = [approvalRow EXCEPT ![c] = outcome]
    /\ UpdateStatus(c, ResolvedStatus(outcome))
    /\ AppendEvents(c, 1)
    /\ required' = required \cup {c}
    /\ approval' = [approval EXCEPT ![c] = outcome]
    /\ UNCHANGED <<live, boundary, decision, terminal, dispatched, authorization,
                   issued, completed, authEvents, startEvents, outcomeEvents, failures>>

\* blockedApproval(): every status but "denied" overrides the approval.
BlockedApproval(c, st) ==
    CASE st = "approval_unavailable" -> "unavailable"
      [] st = "approval_denied"      -> "denied"
      [] st = "approval_expired"     -> "expired"
      [] st = "approval_cancelled"   -> "cancelled"
      [] OTHER                       -> approval[c]

\* markBlocked() assigns approval BEFORE it builds the receipt and runs the
\* transaction, so the assignment outlives a refused receipt or a rollback.
OverrideApproval(c, st) ==
    /\ approval' = [approval EXCEPT ![c] = BlockedApproval(c, st)]
    /\ required' = IF st = "denied" THEN required ELSE required \cup {c}

MarkBlocked(c, st) ==
    LET next == BuildAuthorization(c, "blocked", BlockedApproval(c, st)) IN
    /\ Usable(c)
    /\ c \notin dispatched
    /\ OverrideApproval(c, st)
    /\ ReceiptIsValid(c, "blocked", BlockedApproval(c, st), TRUE)
    /\ Finish(c, st)
    /\ authEvents' = Add(authEvents, c, next)
    /\ AppendEvents(c, 2)
    /\ authorization' = [authorization EXCEPT ![c] = next]
    /\ issued' = [issued EXCEPT ![c] = @ + 1]
    /\ terminal' = terminal \cup {c}
    /\ UNCHANGED <<live, boundary, decision, dispatched, approvalRow, startEvents,
                   outcomeEvents, failures>>

MarkBlockedThrows(c, st) ==
    /\ Usable(c)
    /\ c \notin dispatched
    /\ OverrideApproval(c, st)
    /\ \/ /\ ~ReceiptIsValid(c, "blocked", BlockedApproval(c, st), TRUE)
          /\ UNCHANGED failures
       \/ /\ failures < MaxFailures
          /\ failures' = failures + 1
    /\ UNCHANGED <<live, boundary, decision, terminal, dispatched, authorization,
                   issued, database>>

\* The common part of markCompleted, markExecutionResult and
\* finalizeGraphGenesisOutcome: the row, n events, the outcome receipt.
CompleteCall(c, rowStatus, outcomeStatus, n) ==
    /\ Usable(c)
    /\ c \in dispatched
    /\ authorization[c] # NoReceipt
    /\ Finish(c, rowStatus)
    /\ outcomeEvents' = Add(outcomeEvents, c,
                            CreateOutcome(c, authorization[c], outcomeStatus))
    /\ AppendEvents(c, n)
    /\ issued' = [issued EXCEPT ![c] = @ + 2]
    /\ terminal' = terminal \cup {c}
    /\ UNCHANGED <<live, boundary, decision, dispatched, authorization, required,
                   approval, approvalRow, authEvents, startEvents, failures>>

MarkCompleted(c, isError) ==
    LET st == IF isError THEN "upstream_error" ELSE "completed"
    IN  CompleteCall(c, st, st, 2)

MarkExecutionResult(c, isError) ==
    LET st == IF isError THEN "execution_error" ELSE "completed"
    IN  /\ boundary[c] # "graph_genesis_plan"
        /\ CompleteCall(c, st, st, 2)

\* The summary has passed assertGraphGenesisExecutionSummary.
FinalizeGraphGenesisOutcome(c, st) ==
    /\ boundary[c] = "graph_genesis_plan"
    /\ CompleteCall(c, st, st, 3)

\* markFailed(): a call that has an authorization keeps it, one that has none
\* gets a failed_pre_dispatch receipt; only a dispatched call gets an outcome.
TerminalStatusForFailure(code) ==
    CASE code \in {"upstream_error", "cancelled", "incomplete_external_read"} -> code
      [] code = "audit_completion_failed" -> "audit_failed"
      [] OTHER -> "failed"

FailedApproval(c, code) ==
    IF /\ c \in required
       /\ approval[c] \in {"not_requested", "pending"}
       /\ code = "approval_unavailable"
    THEN "unavailable"
    ELSE approval[c]

\* Mutant of FailedAuthorization: a receipt is built although there is one.
FreshAuthorization(c, code) ==
    BuildAuthorization(c, IF c \in dispatched THEN "authorized" ELSE "failed_pre_dispatch",
                       FailedApproval(c, code))

FailedAuthorization(c, code) ==
    IF authorization[c] # NoReceipt
    THEN authorization[c]
    ELSE BuildAuthorization(c, IF c \in dispatched THEN "authorized" ELSE "failed_pre_dispatch",
                            FailedApproval(c, code))

MarkFailed(c, code) ==
    LET next == FailedAuthorization(c, code)
        graph == IF boundary[c] = "graph_genesis_plan" THEN 1 ELSE 0
    IN
    /\ Usable(c)
    /\ ReceiptIsValid(c, next.status, next.approval, c \in required)
    /\ approval' = [approval EXCEPT ![c] = FailedApproval(c, code)]
    /\ Finish(c, "failed")
    /\ authEvents' = IF authorization[c] = NoReceipt
                     THEN Add(authEvents, c, next) ELSE authEvents
    /\ outcomeEvents' = IF c \in dispatched
                        THEN Add(outcomeEvents, c,
                                 CreateOutcome(c, next, TerminalStatusForFailure(code)))
                        ELSE outcomeEvents
    /\ AppendEvents(c, 2 + graph)
    /\ authorization' = [authorization EXCEPT ![c] = next]
    /\ issued' = [issued EXCEPT ![c] = @ + 2]
    /\ terminal' = terminal \cup {c}
    /\ UNCHANGED <<live, boundary, decision, dispatched, required, approvalRow,
                   startEvents, failures>>

\* markFailed assigns approval before its transaction, as markBlocked does.
MarkFailedThrows(c, code) ==
    /\ Usable(c)
    /\ failures < MaxFailures
    /\ failures' = failures + 1
    /\ approval' = [approval EXCEPT ![c] = FailedApproval(c, code)]
    /\ UNCHANGED <<live, boundary, decision, terminal, dispatched, authorization,
                   required, issued, database>>

\* appendEvidence(): one more event of a call that is not terminal.
AppendEvidence(c) ==
    /\ Usable(c)
    /\ AppendEvents(c, 1)
    /\ UNCHANGED <<handle, status, completed, approvalRow, authEvents, startEvents,
                   outcomeEvents, failures>>

\* Mutant of RollBack: the method assigns before its transaction commits.
RollBackKeepsReceipt(c) ==
    /\ Usable(c)
    /\ failures < MaxFailures
    /\ failures' = failures + 1
    /\ issued' = [issued EXCEPT ![c] = @ + 1]
    /\ authorization' = [authorization EXCEPT ![c] =
                           BuildAuthorization(c, "failed_pre_dispatch", approval[c])]
    /\ UNCHANGED <<live, boundary, decision, terminal, dispatched, required, approval,
                   database>>

\* The transaction of any other method fails (disk full, lock timeout): SQLite
\* rolls back, the method throws, and its closure assignments are not reached.
\* A receipt that was built for it is dropped.
RollBack(c) ==
    /\ Usable(c)
    /\ failures < MaxFailures
    /\ failures' = failures + 1
    /\ issued' = [issued EXCEPT ![c] = @ + 1]
    /\ UNCHANGED <<live, boundary, decision, terminal, dispatched, authorization,
                   required, approval, database>>

\* The process dies: every handle is lost, every committed row stays.
Crash ==
    /\ live # {}
    /\ live' = {}
    /\ UNCHANGED <<boundary, decision, terminal, dispatched, authorization, required,
                   approval, issued, database, failures>>

-----------------------------------------------------------------------------
\* Approvals are requested and resolved before the start is recorded, and Graph
\* Genesis blocks only a call it has not authorized.
CanBlock(c) == authorization[c] = NoReceipt
CanAskForApproval(c) == authorization[c] = NoReceipt

RecorderNext ==
    \/ \E c \in Calls, b \in Boundaries, d \in EffectiveDecisions : Begin(c, b, d)
    \/ \E c \in Calls :
         \/ BeginThrows(c)
         \/ MarkAuthorized(c)
         \/ MarkExecutionStarted(c)
         \/ MarkForwarding(c)
         \/ CanAskForApproval(c) /\ MarkApprovalRequested(c)
         \/ \E o \in Resolutions : CanAskForApproval(c) /\ MarkApprovalResolved(c, o)
         \/ \E st \in BlockedStatuses : CanBlock(c) /\ MarkBlocked(c, st)
         \/ \E st \in BlockedStatuses : CanBlock(c) /\ MarkBlockedThrows(c, st)
         \/ \E e \in BOOLEAN : MarkCompleted(c, e)
         \/ \E e \in BOOLEAN : MarkExecutionResult(c, e)
         \/ \E st \in GraphTerminal : FinalizeGraphGenesisOutcome(c, st)
         \/ \E code \in FailureCodes : MarkFailed(c, code)
         \/ \E code \in FailureCodes : MarkFailedThrows(c, code)
         \/ AppendEvidence(c)
         \/ RollBack(c)
    \/ Crash

RecorderSpec == RecorderInit /\ [][RecorderNext]_recorderVars

-----------------------------------------------------------------------------
\* Whatever a caller does, whatever transactions fail and wherever the process
\* dies, `apg receipt export` never meets the evidence it refuses: two
\* authorizations or two outcomes, an outcome without its authorization, one
\* that extends another authorization, or one that extends a block
\* (portable-receipt.ts, exportSnapshot and assertEnvelopeRelationships).
ExportNeverRefused ==
    \A c \in Calls :
        /\ \A a1, a2 \in authEvents[c] : a1 = a2
        /\ \A o1, o2 \in outcomeEvents[c] : o1 = o2
        /\ \A o \in outcomeEvents[c] :
             \E a \in authEvents[c] : a.id = o.extends /\ a.status = "authorized"

\* The fail-closed boundary: a recorded start cites the durable, authorized
\* receipt of the same call; no denied call has one; a call that needs an
\* approval has one only if the approvals row itself says approved.
StartIsAuthorized ==
    \A c \in Calls : startEvents[c] # {} =>
        /\ \A s \in startEvents[c] :
             \E a \in authEvents[c] : a.id = s /\ a.status = "authorized"
        /\ decision[c] # "deny"
        /\ decision[c] = "ask" \/ approvalRow[c] # "none" => approvalRow[c] = "approved"

\* Every finished row is explained: it has its authorization receipt, it has an
\* outcome receipt exactly if a start was recorded, and one that is finished as
\* blocked was never started.
FinishedRowHasReceipts ==
    \A c \in completed :
        /\ authEvents[c] # {}
        /\ outcomeEvents[c] # {} <=> startEvents[c] # {}
        /\ status[c] \in BlockedStatuses => startEvents[c] = {}

\* A finished row and its evidence are final: no method called late, by a
\* handler that outlived its call, changes or extends them.
FinishedIsFinal ==
    [][\A c \in completed :
         /\ status'[c] = status[c]
         /\ events'[c] = events[c]
         /\ authEvents'[c] = authEvents[c]
         /\ outcomeEvents'[c] = outcomeEvents[c]
         /\ approvalRow'[c] = approvalRow[c]]_recorderVars
=============================================================================
