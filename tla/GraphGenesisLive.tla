--------------------------- MODULE GraphGenesisLive ---------------------------
(***************************************************************************)
(* One production run of Graph Genesis: its owner                          *)
(* (stage/graph-genesis-live.ts), the approval session and start lease     *)
(* (stage/graph-genesis-composition.ts), the process supervisor            *)
(* (stage/graph-genesis-supervisor.ts) and the audit gate                  *)
(* (stage/graph-genesis-hardening.ts), with the approval service, the      *)
(* audit recorder, the metadata broker and what the plan binds as          *)
(* instances of their modules.                                             *)
(*                                                                         *)
(* The owner is one async function.  A step in Waits is an await of I/O,   *)
(* of a timer or of the person; every other callback runs there.  The      *)
(* steps between two of them, and those of a request handler that only     *)
(* wait for a synchronous SQLite write or for onFailure(), run before the  *)
(* event loop takes the next callback, but each transaction is a step of   *)
(* its own and may fail.  A step named after an audit event records it.    *)
(***************************************************************************)
EXTENDS Integers, FiniteSets

CONSTANTS
    Run,           \* the id of the run: its audit row and its ticket
    TTLs,          \* APPROVAL_TTL_MS
    MaxTime,       \* bound on time, see ApprovalService
    MaxFailures,   \* bound on failing transactions, see AuditRecorder
    MaxEvents,     \* bound on audit events, see AuditRecorder
    MaxDrift,      \* bound on the changes others make, see GraphGenesisPlan
    \* The limits of the broker, see MetadataBroker.
    Requests, Packages, NoPackage, TotalRequests, ConcurrentRequests,
    UniquePackageNames, ResponseBytes, AggregateBytes

ASSUME GenesisAssumption == TTLs \subseteq Nat \ {0} /\ MaxDrift \in Nat

VARIABLES
    \* The approval service.
    mono, wall, closed, requested, pending, visible, published, expiresAt, due,
    outcome, answers, settledAt,
    \* The audit recorder and its database.
    live, boundary, decision, terminal, dispatched, authorization, required,
    approval, issued, status, completed, approvalRow, authEvents, startEvents,
    outcomeEvents, events, failures,
    \* The metadata broker, its listener and the registry.
    state, arming, leaseUsed, started, active, names, reserved, committed, entries,
    aborted, failed, notifying, ledger, pc, seq, pkg, size, next, reply, intents,
    observed, validated, fetched, server, attached,
    \* What the plan binds.
    snapshot, looked,
    \* The owner.
    step,          \* where it is
    error,         \* what it caught: "none", "audit" (stage_audit_incomplete), "other"
    cancelled,     \* its AbortController is aborted
    log,           \* its audit handle and the audit gate
    npm,           \* the supervised process
    files,         \* the private root, the workspace and the artifact
    verdict        \* what it knows of the end of the run

approvalVars == <<mono, wall, closed, requested, pending, visible, published,
                  expiresAt, due, outcome, answers, settledAt>>
auditVars    == <<live, boundary, decision, terminal, dispatched, authorization,
                  required, approval, issued, status, completed, approvalRow,
                  authEvents, startEvents, outcomeEvents, events, failures>>
brokerVars   == <<state, arming, leaseUsed, started, active, names, reserved,
                  committed, entries, aborted, failed, notifying, ledger, pc, seq,
                  pkg, size, next, reply, intents, observed, validated, fetched,
                  server, attached>>
planVars == <<snapshot, looked>>
flow  == <<step, error>>
facts == <<cancelled, log, npm, files, verdict>>
vars  == <<approvalVars, auditVars, brokerVars, planVars, flow, facts>>

Approvals == INSTANCE ApprovalService WITH Tickets <- {Run}
Audit     == INSTANCE AuditRecorder WITH Calls <- {Run}
Broker    == INSTANCE MetadataBroker
Plan      == INSTANCE GraphGenesisPlan

\* The steps that record an event and go on to the next step unless aborted.
AfterRecord ==
    [ runtime_snapshot_complete  |-> "containment_probe_complete",
      containment_probe_complete |-> "plan_ready",
      plan_ready                 |-> "ask",
      authorization_finalized    |-> "arm",
      npm_spawn_intent_recorded  |-> "spawn",
      listener_drained           |-> "complete",
      lock_validation_started    |-> "inspecting",
      post_state_validated       |-> "compiling",
      candidate_compiled         |-> "assembling",
      candidate_output_intent    |-> "writing",
      candidate_output_written   |-> "cleaning",
      cleanup_complete           |-> "removing" ]

Events == DOMAIN AfterRecord \cup
          {"broker_armed", "npm_spawn_started", "npm_terminal_observed"}
Waits == {"entering", "capturing", "host", "versions", "initializing", "probing",
          "dashboard", "enveloping", "awaiting", "refused", "leaving", "revalidating",
          "starting", "running", "stopping", "draining", "inspecting", "writing",
          "cleaning", "removing", "reconciling", "shutdown", "recovering", "uprooting"}
Segments == Events \cup
    {"session", "session_created", "ask", "request", "resolve", "block", "refusing",
     "decided", "authorize", "authorized", "arm", "attach", "spawn", "started",
     "exited", "complete", "compiling", "assembling", "prepare", "commit", "closing",
     "failing",
     "terminal", "report"}
ReadStatuses == {"not_started", "incomplete", "validated"}
StopReasons == {"timed_out", "output_overflow", "failed", "cancelled"}
Statuses == {"none", "complete", "not_started", "failed", "incomplete", "quarantined",
             "outcome_unknown"}
NoResult == [status |-> "none", read |-> FALSE]

TypeOK ==
    /\ Approvals!TicketTypeOK /\ Audit!RecorderTypeOK /\ Broker!TypeOK /\ Plan!TypeOK
    /\ step \in Waits \cup Segments \cup {"done"}
    /\ error \in {"none", "audit", "other"}
    /\ cancelled \in BOOLEAN
    /\ log \in [bound : BOOLEAN, gate : SUBSET Events, late : BOOLEAN]
    /\ npm \in [requested : BOOLEAN,
                child : {"none", "running", "asked", "killed", "closed"},
                exit : {"none", "zero", "nonzero"},
                stopped : StopReasons \cup {"none"},
                status : StopReasons \cup {"none", "completed"}]
    /\ files \in [root : BOOLEAN, postState : BOOLEAN, cleanup : BOOLEAN, output : BOOLEAN]
    /\ verdict \in [summary : ReadStatuses, cleanupFailed : BOOLEAN, attempted : BOOLEAN,
                    reconciled : BOOLEAN, unknown : BOOLEAN,
                    result : [status : Statuses, read : BOOLEAN]]

Init ==
    /\ Approvals!TicketInit /\ Audit!RecorderInit /\ Broker!Init /\ Plan!Init
    /\ step = "entering"
    /\ error = "none"
    /\ cancelled = FALSE
    \* audit is assigned; events recorded but metadata events; a metadata event
    \* came after npm_terminal_observed
    /\ log = [bound |-> FALSE, gate |-> {}, late |-> FALSE]
    \* the owner's spawned flag; the child; processResult.status
    /\ npm = [requested |-> FALSE, child |-> "none", exit |-> "none",
              stopped |-> "none", status |-> "none"]
    \* the root exists; postState and cleanup are assigned; the artifact exists
    /\ files = [root |-> FALSE, postState |-> FALSE, cleanup |-> FALSE, output |-> FALSE]
    \* externalReadStatus when the error was caught, then the owner's flags
    /\ verdict = [summary |-> "not_started", cleanupFailed |-> FALSE,
                  attempted |-> FALSE, reconciled |-> FALSE, unknown |-> FALSE,
                  result |-> NoResult]

-----------------------------------------------------------------------------
(* Control flow of the owner. *)

Goto(s) == step' = s /\ UNCHANGED error

\* An exception reaches the owner's catch block.
Throw(e) == step' = "failing" /\ error' = e

\* throwIfAborted().
Proceed(s) == IF cancelled THEN Throw("other") ELSE Goto(s)

\* The transaction rolls back and the method throws.
Rejected(e) == Audit!RollBack(Run) /\ Throw(e)

\* metadataSummary().externalReadStatus.
ReadStatus ==
    IF observed = {} THEN "not_started"
    ELSE IF validated = observed THEN "validated" ELSE "incomplete"

\* Mutant of Result: only a validated read is reported.
ResultOfValidated(st) == [status |-> st, read |-> ReadStatus = "validated"]

\* safeResult().
Result(st) == [status |-> st, read |-> ReadStatus # "not_started"]

\* An event enters the gate.
Noted == [log EXCEPT !.gate = @ \cup {step}]

\* Mutant of Record: the run goes on when its evidence cannot be written.
RecordFailsOpen ==
    /\ step \in DOMAIN AfterRecord
    /\ \/ Audit!AppendEvidence(Run) /\ log' = Noted
       \/ Audit!RollBack(Run) /\ UNCHANGED log
    /\ Proceed(AfterRecord[step])
    /\ UNCHANGED <<planVars, approvalVars, brokerVars, cancelled, npm, files, verdict>>

\* executionAudit.record(): a failing write is stage_audit_incomplete.
Record ==
    /\ step \in DOMAIN AfterRecord
    /\ \/ Audit!AppendEvidence(Run) /\ log' = Noted /\ Proceed(AfterRecord[step])
       \/ Rejected("audit") /\ UNCHANGED log
    /\ UNCHANGED <<planVars, approvalVars, brokerVars, cancelled, npm, files, verdict>>

\* What remains of the artifact when writeExclusive() throws: the link is made
\* after its second look at the directory.
OutputMayRemain == step = "writing" /\ looked >= 2

\* An operation the owner calls or awaits throws, also because a look of it fails.
\* A reconciliation that throws is not tried again.
OperationFails ==
    /\ step \in {"entering", "capturing", "host", "versions", "initializing", "probing",
                 "dashboard", "enveloping", "ask", "leaving", "revalidating", "arm",
                 "starting", "inspecting", "compiling", "assembling", "writing",
                 "cleaning", "removing", "reconciling"}
    /\ Throw("other")
    /\ Plan!Abandoned
    /\ \E output \in BOOLEAN :
         /\ output => OutputMayRemain
         /\ files' = [files EXCEPT !.output = @ \/ output]
    /\ verdict' = [verdict EXCEPT !.reconciled = @ \/ step = "reconciling"]
    /\ UNCHANGED <<approvalVars, auditVars, brokerVars, cancelled, log, npm>>

\* An operation of Plan!Looks looks at the next subject it names; a difference
\* makes it throw.
LookAgain ==
    /\ step \in DOMAIN Plan!Looks
    /\ \/ Plan!Look(step) /\ UNCHANGED <<flow, files>>
       \/ /\ Plan!Mismatch(step)
          /\ Throw("other")
          /\ \E output \in BOOLEAN :
               /\ output => OutputMayRemain
               /\ files' = [files EXCEPT !.output = @ \/ output]
    /\ UNCHANGED <<approvalVars, auditVars, brokerVars, cancelled, log, npm, verdict>>

-----------------------------------------------------------------------------
(* Preparation, the audit session and the approval. *)

\* The private root is created.
CreateRoot ==
    /\ step = "entering"
    /\ files' = [files EXCEPT !.root = TRUE]
    /\ Proceed("capturing")
    /\ UNCHANGED <<approvalVars, auditVars, brokerVars, planVars, cancelled, log, npm, verdict>>

\* The runtime is captured; then the host and the versions are probed, the
\* listener listens and the workspace is made.  A probe runs a program that was
\* captured, with a timeout.
Capture ==
    /\ step = "capturing"
    /\ \/ (Plan!CaptureFile \/ Plan!CaptureTree) /\ UNCHANGED flow
       \/ Plan!Captured /\ Proceed("host")
    /\ UNCHANGED <<approvalVars, auditVars, brokerVars, facts>>

ProbeHost ==
    /\ step = "host"
    /\ Goto("versions")
    /\ UNCHANGED <<approvalVars, auditVars, brokerVars, planVars, facts>>

ProbeVersions ==
    /\ step = "versions"
    /\ Plan!Checked(step)
    /\ Proceed("initializing")
    /\ UNCHANGED <<approvalVars, auditVars, brokerVars, facts>>

Initialize ==
    /\ step = "initializing"
    /\ Plan!InitializeWorkspace
    /\ Proceed("probing")
    /\ UNCHANGED <<approvalVars, auditVars, brokerVars, facts>>

\* The containment is probed, and the plan made of what was captured.
ProbeContainment ==
    /\ step = "probing"
    /\ Plan!Checked(step)
    /\ Plan!Prepared
    /\ Proceed("dashboard")
    /\ UNCHANGED <<approvalVars, auditVars, brokerVars, facts>>

\* The database is opened, the dashboard starts, and the envelope binds plan,
\* database and output.  The abort is not looked at after the last await.
Bind ==
    /\ \/ step = "dashboard" /\ Plan!OpenDatabase /\ Proceed("enveloping")
       \/ step = "enveloping" /\ Plan!BindEnvelope /\ Goto("session")
    /\ UNCHANGED <<approvalVars, auditVars, brokerVars, facts>>

\* createBoundAuditSession(): the row, if the database is still the one that was
\* opened, then graph_genesis_session_created.  The owner has no handle if the
\* second write fails.
CreateSession ==
    /\ \/ /\ step = "session"
          /\ \/ /\ Plan!DatabaseIsBound
                /\ \/ Audit!Begin(Run, "graph_genesis_plan", "ask") /\ Goto("session_created")
                   \/ Audit!BeginThrows(Run) /\ Throw("other")
             \/ Plan!DatabaseHasChanged /\ Throw("other") /\ UNCHANGED auditVars
          /\ UNCHANGED log
       \/ /\ step = "session_created"
          /\ \/ /\ Audit!AppendEvidence(Run)
                /\ log' = [log EXCEPT !.bound = TRUE]
                /\ Goto("runtime_snapshot_complete")
             \/ Rejected("other") /\ UNCHANGED log
          /\ UNCHANGED planVars
    /\ UNCHANGED <<approvalVars, brokerVars, cancelled, npm, files, verdict>>

\* authorize(): requestHidden(), markApprovalRequested(), publish().
Ask(ttl) ==
    /\ step = "ask"
    /\ Approvals!RequestHidden(Run, ttl)
    /\ Goto("request")
    /\ UNCHANGED <<planVars, auditVars, brokerVars, facts>>

RecordRequest ==
    /\ step = "request"
    /\ \/ /\ Audit!MarkApprovalRequested(Run)
          /\ Approvals!Publish(Run)
          /\ Goto("awaiting")
       \/ Rejected("other") /\ Approvals!Cancel(Run)
    /\ UNCHANGED <<planVars, brokerVars, facts>>

Resume ==
    /\ step = "awaiting"
    /\ outcome[Run] # Approvals!Unsettled
    /\ Goto("resolve")
    /\ UNCHANGED <<planVars, approvalVars, auditVars, brokerVars, facts>>

Resolve ==
    /\ step = "resolve"
    /\ \/ /\ Audit!MarkApprovalResolved(Run, outcome[Run])
          /\ Goto(IF outcome[Run] = "approved" THEN "decided" ELSE "block")
       \/ Rejected("other")
    /\ UNCHANGED <<planVars, approvalVars, brokerVars, facts>>

Block ==
    /\ step = "block"
    /\ LET st == Audit!ResolvedStatus(outcome[Run]) IN
       \/ Audit!MarkBlocked(Run, st) /\ Goto("refusing")
       \/ Audit!MarkBlockedThrows(Run, st) /\ Throw("other")
    /\ UNCHANGED <<planVars, approvalVars, brokerVars, facts>>

\* markFailed() in front of an exception; it may throw itself.
FailCall ==
    /\ Audit!MarkFailed(Run, "other") \/ Audit!MarkFailedThrows(Run, "other")
    /\ Throw("other")

\* The approval, or the plan, may have expired before the owner goes on.
Decided ==
    /\ step = "decided"
    /\ \/ expiresAt[Run] > wall /\ Goto("revalidating") /\ UNCHANGED auditVars
       \/ FailCall
    /\ UNCHANGED <<planVars, approvalVars, brokerVars, facts>>

\* revalidatePair() has returned; then graph_genesis_approved_revalidation_complete,
\* markAuthorized(), graph_genesis_authorization_finalized, and the lease.
Authorize ==
    /\ \/ /\ step = "revalidating"
          /\ Plan!Checked(step)
          /\ IF cancelled THEN FailCall
             ELSE \/ Audit!AppendEvidence(Run) /\ Goto("authorize")
                  \/ Rejected("other")
       \/ /\ \/ step = "authorize" /\ Audit!MarkAuthorized(Run) /\ Goto("authorized")
             \/ step = "authorized" /\ Audit!AppendEvidence(Run) /\ Goto("authorization_finalized")
             \/ step \in {"authorize", "authorized"} /\ Rejected("other")
          /\ UNCHANGED planVars
    /\ UNCHANGED <<approvalVars, brokerVars, facts>>

\* Not authorized: the listener is drained, the approval service and the
\* dashboard are closed, and the root is removed.
Refuse ==
    /\ \/ /\ step = "refusing"
          /\ Broker!CloseAndDrain
          /\ Goto("refused")
          /\ UNCHANGED <<approvalVars, files, verdict>>
       \/ /\ step = "refused"
          /\ \/ server = "drained" /\ Approvals!Close /\ Goto("leaving")
             \/ server = "failed" /\ Throw("other") /\ UNCHANGED approvalVars
          /\ UNCHANGED <<brokerVars, files, verdict>>
       \/ /\ step = "leaving"
          /\ files' = [files EXCEPT !.root = FALSE]
          /\ verdict' = [verdict EXCEPT !.result = Result("not_started")]
          /\ Goto("done")
          /\ UNCHANGED <<approvalVars, brokerVars>>
    /\ UNCHANGED <<planVars, auditVars, cancelled, log, npm>>

-----------------------------------------------------------------------------
(* The broker is armed and npm started. *)

Arm ==
    /\ step = "arm"
    /\ Broker!Arm
    /\ Goto("broker_armed")
    /\ UNCHANGED <<planVars, approvalVars, auditVars, facts>>

BrokerArmed ==
    /\ step = "broker_armed"
    /\ Broker!Armed
    /\ IF state' = "armed"
       THEN Audit!AppendEvidence(Run) /\ log' = Noted /\ Proceed("attach")
       ELSE Rejected("audit") /\ UNCHANGED log
    /\ UNCHANGED <<planVars, approvalVars, cancelled, npm, files, verdict>>

\* listener.arm(), and supervisor.run() is called.
Attach ==
    /\ step = "attach"
    /\ Broker!Attach
    /\ npm' = [npm EXCEPT !.requested = TRUE]
    /\ Goto("starting")
    /\ UNCHANGED <<planVars, approvalVars, auditVars, cancelled, log, files, verdict>>

\* The plan is revalidated: an aborted run returns a cancelled result.  After the
\* recorded intent the lease is consumed for process_spawn and npm is spawned; a
\* lease that has expired, and spawn() when it throws, abort the run.
Spawn ==
    /\ \/ /\ step = "starting"
          /\ Plan!Checked(step)
          /\ Goto(IF cancelled THEN "exited" ELSE "npm_spawn_intent_recorded")
          /\ npm' = IF cancelled THEN [npm EXCEPT !.status = "cancelled"] ELSE npm
          /\ UNCHANGED cancelled
       \/ /\ step = "spawn"
          /\ \/ /\ npm' = [npm EXCEPT !.child = "running"]
                /\ Goto("started")
                /\ UNCHANGED cancelled
             \/ cancelled' = TRUE /\ Throw("other") /\ UNCHANGED npm
             \/ /\ cancelled' = TRUE
                /\ npm' = [npm EXCEPT !.status = "failed"]
                /\ Goto("exited")
          /\ UNCHANGED planVars
    /\ UNCHANGED <<approvalVars, auditVars, brokerVars, log, files, verdict>>

\* terminate(): only the first reason counts; SIGTERM, and onFailure() aborts
\* the owner's controller.
Terminate(reason) ==
    /\ npm.child = "running"
    /\ npm' = [npm EXCEPT !.stopped = reason, !.child = "asked"]
    /\ cancelled' = TRUE

\* npm_spawn_started is two writes, markExecutionStarted() and the evidence; if
\* one of them fails the child is stopped and the supervisor waits for it.
RecordStart ==
    /\ \/ /\ step = "started"
          /\ Audit!MarkExecutionStarted(Run)
          /\ Goto("npm_spawn_started")
          /\ UNCHANGED <<log, npm, cancelled>>
       \/ /\ step = "npm_spawn_started"
          /\ Audit!AppendEvidence(Run)
          /\ log' = Noted
          /\ Goto("running")
          /\ UNCHANGED <<npm, cancelled>>
       \/ /\ step \in {"started", "npm_spawn_started"}
          /\ Audit!RollBack(Run)
          /\ Terminate("failed")
          /\ Goto("stopping")
          /\ UNCHANGED log
    /\ UNCHANGED <<planVars, approvalVars, brokerVars, files, verdict>>

\* Mutant of WaitExpires: there is no timeout on the close event.
WaitForEver == FALSE /\ UNCHANGED vars

\* waitForClose() gives up on a child that did not close after SIGKILL, two
\* seconds before; it is left alone.
WaitExpires ==
    /\ step \in {"running", "stopping"}
    /\ npm.child = "killed"
    /\ Throw("other")
    /\ UNCHANGED <<planVars, approvalVars, auditVars, brokerVars, facts>>

RecordExit ==
    /\ step = "npm_terminal_observed"
    /\ \/ Audit!AppendEvidence(Run) /\ log' = Noted /\ Goto("exited") /\ UNCHANGED cancelled
       \/ Rejected("audit") /\ cancelled' = TRUE /\ UNCHANGED log
    /\ UNCHANGED <<planVars, approvalVars, brokerVars, npm, files, verdict>>

-----------------------------------------------------------------------------
(* From the exit of npm to the terminal commit. *)

\* A failure of the broker has aborted the controller, and is thrown after
\* listener_drained like an abort: its causeCode is never stage_audit_incomplete.
Drain ==
    /\ \/ step = "exited" /\ Broker!CloseAndDrain /\ Goto("draining")
       \/ /\ step = "draining"
          /\ \/ server = "drained" /\ Goto("listener_drained")
             \/ server = "failed" /\ Throw("other")
          /\ UNCHANGED brokerVars
    /\ UNCHANGED <<planVars, approvalVars, auditVars, facts>>

\* broker.complete(): the ledger, or a failure that aborts the controller.
Complete ==
    /\ step = "complete"
    /\ IF npm.status # "completed"
       THEN Throw("other") /\ UNCHANGED <<brokerVars, cancelled>>
       ELSE /\ Broker!Complete
            /\ IF ledger' # Broker!NoLedger
               THEN Goto("lock_validation_started") /\ UNCHANGED cancelled
               ELSE Throw("other") /\ cancelled' = TRUE
    /\ UNCHANGED <<planVars, approvalVars, auditVars, log, npm, files, verdict>>

\* inspect(): the protected files, the inventory, the documents, and the
\* protected files again.
Inspect ==
    /\ step = "inspecting"
    /\ Plan!Checked(step)
    /\ files' = [files EXCEPT !.postState = TRUE]
    /\ Goto("post_state_validated")
    /\ UNCHANGED <<approvalVars, auditVars, brokerVars, cancelled, log, npm, verdict>>

\* compile(), from the authenticated post-state.
Compile ==
    /\ step = "compiling"
    /\ files.postState
    /\ Goto("candidate_compiled")
    /\ UNCHANGED <<approvalVars, auditVars, brokerVars, planVars, facts>>

\* The artifact is made of candidate, ledger and post-state.
Assemble ==
    /\ step = "assembling"
    /\ ledger # Broker!NoLedger /\ files.postState
    /\ Goto("candidate_output_intent")
    /\ UNCHANGED <<approvalVars, auditVars, brokerVars, planVars, facts>>

\* writeExclusive().
WriteArtifact ==
    /\ step = "writing"
    /\ Plan!Checked(step)
    /\ files' = [files EXCEPT !.output = TRUE]
    /\ Proceed("candidate_output_written")
    /\ UNCHANGED <<approvalVars, auditVars, brokerVars, cancelled, log, npm, verdict>>

\* The cleanup of the workspace, entry by entry of its inventory.
CleanWorkspace ==
    /\ step = "cleaning"
    /\ files' = [files EXCEPT !.cleanup = TRUE]
    /\ Proceed("cleanup_complete")
    /\ UNCHANGED <<approvalVars, auditVars, brokerVars, planVars, cancelled, log, npm, verdict>>

\* root.cleanup().
RemoveRoot ==
    /\ step = "removing"
    /\ files' = [files EXCEPT !.root = FALSE]
    /\ Proceed("prepare")
    /\ UNCHANGED <<approvalVars, auditVars, brokerVars, planVars, cancelled, log, npm, verdict>>

\* Mutant of CompleteAudit: the place of the metadata events is not looked at.
CompleteAuditUnordered == log.gate = Events /\ observed # {} /\ validated = observed

\* assertCompleteAudit(): every event once and in order, every metadata event
\* between the start and the exit of npm, every request validated.
CompleteAudit ==
    log.gate = Events /\ observed # {} /\ validated = observed /\ ~log.late

\* prepareAtomicTerminalSuccess().
PrepareTerminal ==
    /\ step = "prepare"
    /\ IF CompleteAudit
       THEN verdict' = [verdict EXCEPT !.attempted = TRUE] /\ Goto("commit")
       ELSE Throw("audit") /\ UNCHANGED verdict
    /\ UNCHANGED <<planVars, approvalVars, auditVars, brokerVars, cancelled, log, npm, files>>

\* The terminal transaction: acknowledged, rolled back, or durable although its
\* acknowledgement is lost.
Commit ==
    /\ step = "commit"
    /\ \/ /\ Audit!FinalizeGraphGenesisOutcome(Run, "completed")
          /\ Goto("closing") \/ Throw("other")
       \/ Rejected("other")
    /\ UNCHANGED <<planVars, approvalVars, brokerVars, facts>>

\* hasCompleteTerminalProof() reads the database again; it may refuse a proof
\* that is there (permissions, identity), never find one that is not.
ProofFound == status[Run] = "completed" /\ outcomeEvents[Run] # {}

\* The dashboard and the database are closed, then the commit is looked up.
Reconcile ==
    /\ \/ step = "closing" /\ Approvals!Close /\ Goto("reconciling") /\ UNCHANGED verdict
       \/ /\ step = "reconciling"
          /\ \E st \in {"complete", "outcome_unknown"} :
               /\ st = "complete" => ProofFound
               /\ verdict' = [verdict EXCEPT !.reconciled = TRUE, !.result = Result(st)]
          /\ Goto("done")
          /\ UNCHANGED approvalVars
    /\ UNCHANGED <<planVars, auditVars, brokerVars, cancelled, log, npm, files>>

-----------------------------------------------------------------------------
(* The catch block. *)

\* The metadata is summarised, then safeShutdown() closes what is open.
Catch ==
    /\ step = "failing"
    /\ verdict' = [verdict EXCEPT !.summary = ReadStatus]
    /\ IF closed THEN UNCHANGED approvalVars ELSE Approvals!Close
    /\ IF server = "listening" THEN Broker!CloseAndDrain ELSE UNCHANGED brokerVars
    /\ Goto("shutdown")
    /\ UNCHANGED <<planVars, auditVars, cancelled, log, npm, files>>

\* Mutant of CanRecover: a workspace npm may still write to is removed.
CanRecoverUninspected == npm.requested /\ ~files.cleanup

CanRecover == npm.requested /\ ~files.cleanup /\ files.postState

CanUproot == files.root /\ (~npm.requested \/ files.cleanup)

\* The workspace is removed only from an authenticated post-state, the root only
\* if nothing was spawned or the workspace is gone; each of the two may fail.
Recover ==
    /\ \/ /\ step = "shutdown"
          /\ server # "draining"
          /\ Goto("recovering")
          /\ UNCHANGED <<files, verdict>>
       \/ /\ step = "recovering"
          /\ Goto("uprooting")
          /\ files' = [files EXCEPT !.cleanup = @ \/ CanRecover] /\ UNCHANGED verdict
       \/ /\ step = "uprooting"
          /\ Goto("terminal")
          /\ files' = [files EXCEPT !.root = @ /\ ~CanUproot] /\ UNCHANGED verdict
       \/ /\ (step = "recovering" /\ CanRecover) \/ (step = "uprooting" /\ CanUproot)
          /\ Goto(IF step = "recovering" THEN "uprooting" ELSE "terminal")
          /\ verdict' = [verdict EXCEPT !.cleanupFailed = TRUE] /\ UNCHANGED files
    /\ UNCHANGED <<planVars, approvalVars, auditVars, brokerVars, cancelled, log, npm>>

\* selectGraphGenesisFailureTerminalStatus().
FailureTerminalStatus ==
    IF verdict.summary = "incomplete" THEN "incomplete_external_read"
    ELSE IF cancelled THEN "cancelled" ELSE "execution_error"

\* No failure is recorded when the audit itself failed, when a success may have
\* been committed, or without a handle; markFailed() ignores a terminal one.
Unrecorded == error = "audit" \/ verdict.attempted \/ ~log.bound

FailureIsRecorded ==
    IF "npm_spawn_started" \in log.gate
    THEN Audit!FinalizeGraphGenesisOutcome(Run, FailureTerminalStatus)
    ELSE Audit!MarkFailed(Run, "other") \/ (Run \in terminal /\ UNCHANGED auditVars)

FailureIsLost ==
    IF "npm_spawn_started" \in log.gate
    THEN Audit!RollBack(Run)
    ELSE Audit!MarkFailedThrows(Run, "other")

\* Mutant of RecordFailure: a failing terminal write is forgotten.
RecordFailureForgets ==
    /\ step = "terminal"
    /\ IF Unrecorded THEN UNCHANGED auditVars ELSE FailureIsRecorded \/ FailureIsLost
    /\ verdict' = [verdict EXCEPT !.unknown = error = "audit" \/ verdict.attempted]
    /\ Goto("report")
    /\ UNCHANGED <<planVars, approvalVars, brokerVars, cancelled, log, npm, files>>

RecordFailure ==
    /\ step = "terminal"
    /\ \E unknown \in BOOLEAN :
         /\ verdict' = [verdict EXCEPT !.unknown = unknown]
         /\ IF Unrecorded
            THEN unknown = (error = "audit" \/ verdict.attempted) /\ UNCHANGED auditVars
            ELSE IF unknown THEN FailureIsLost ELSE FailureIsRecorded
    /\ Goto("report")
    /\ UNCHANGED <<planVars, approvalVars, brokerVars, cancelled, log, npm, files>>

\* classifyGraphGenesisFailure().
Quarantined ==
    \/ verdict.cleanupFailed
    \/ ~npm.requested /\ files.root
    \/ npm.requested /\ ~files.cleanup

Classify(unknown) ==
    IF Quarantined THEN "quarantined"
    ELSE IF unknown THEN "outcome_unknown"
    ELSE IF verdict.summary # "not_started" THEN "incomplete"
    ELSE IF cancelled /\ ~npm.requested THEN "not_started" ELSE "failed"

\* The database is closed, which may throw, and a commit that was attempted is
\* looked up once.
Report ==
    /\ step = "report"
    /\ \/ /\ verdict.attempted /\ ~verdict.reconciled /\ ProofFound
          /\ verdict' = [verdict EXCEPT !.reconciled = TRUE, !.result = Result("complete")]
       \/ \E closeFails \in BOOLEAN :
            verdict' = [verdict EXCEPT
                          !.reconciled = @ \/ verdict.attempted,
                          !.result = Result(Classify(verdict.unknown \/ closeFails))]
    /\ Goto("done")
    /\ UNCHANGED <<planVars, approvalVars, auditVars, brokerVars, cancelled, log, npm, files>>

-----------------------------------------------------------------------------
(* The other callbacks. *)

\* No handler is between two of its synchronous steps.
Quiet == ~notifying /\ \A r \in Requests : pc[r] \in {"none", "fetching", "done"}

AtAwait == step \in Waits /\ Quiet

\* controller.abort(): the abort listeners of authorize() and of the supervisor.
AbortController ==
    /\ cancelled' = TRUE
    /\ IF step = "awaiting" THEN Approvals!Cancel(Run) ELSE UNCHANGED approvalVars
    /\ IF step = "running" /\ npm.child = "running"
       THEN Terminate("cancelled") ELSE UNCHANGED npm

\* SIGINT, SIGTERM, or a deadline of the owner.
Interrupt ==
    /\ AtAwait
    /\ ~cancelled
    /\ AbortController
    /\ UNCHANGED <<planVars, auditVars, brokerVars, flow, log, files, verdict>>

\* The person, the timer of the ticket, and time while it is pending.
HumanDecides(d) ==
    /\ AtAwait
    /\ Approvals!Decide(Run, d)
    /\ UNCHANGED <<planVars, auditVars, brokerVars, flow, facts>>

TimerFires ==
    /\ AtAwait
    /\ Approvals!TimerFires(Run)
    /\ UNCHANGED <<planVars, auditVars, brokerVars, flow, facts>>

Tick ==
    /\ AtAwait
    /\ Run \in pending
    /\ Approvals!Tick
    /\ UNCHANGED <<planVars, auditVars, brokerVars, flow, facts>>

\* The process timeout, the output limits, and the child's error event.
StopChild(reason) ==
    /\ AtAwait
    /\ step = "running"
    /\ Terminate(reason)
    /\ UNCHANGED <<planVars, approvalVars, auditVars, brokerVars, flow, log, files, verdict>>

\* SIGKILL two seconds later.
ForceKill ==
    /\ AtAwait
    /\ step \in {"running", "stopping"}
    /\ npm.child = "asked"
    /\ npm' = [npm EXCEPT !.child = "killed"]
    /\ UNCHANGED <<planVars, approvalVars, auditVars, brokerVars, flow, cancelled, log,
                   files, verdict>>

\* Mutant of ExitStatus: the exit code alone decides.
ExitStatusOfCode(code) == IF code = "zero" THEN "completed" ELSE "failed"

ExitStatus(code) ==
    IF npm.stopped # "none" THEN npm.stopped
    ELSE IF code = "zero" THEN "completed" ELSE "failed"

\* The close event.  A result other than completed aborts the controller; a
\* child the supervisor has given up closes unobserved.
ChildCloses(code) ==
    /\ AtAwait
    /\ npm.child \in {"running", "asked", "killed"}
    /\ IF step = "running"
       THEN /\ npm' = [npm EXCEPT !.child = "closed", !.exit = code,
                                  !.status = ExitStatus(code)]
            /\ cancelled' = (cancelled \/ ExitStatus(code) # "completed")
            /\ Goto("npm_terminal_observed")
       ELSE /\ npm' = [npm EXCEPT !.child = "closed", !.exit = code]
            /\ IF step = "stopping" THEN Throw("audit") ELSE UNCHANGED flow
            /\ UNCHANGED cancelled
    /\ UNCHANGED <<planVars, approvalVars, auditVars, brokerVars, log, files, verdict>>

\* Another process changes what the plan binds.
Drift(s) ==
    /\ AtAwait
    /\ Plan!Drift(s)
    /\ UNCHANGED <<approvalVars, auditVars, brokerVars, flow, facts>>

\* Listener and handlers go on after the owner has returned.
LoopRuns == step \in Waits \cup {"done"}

\* The broker's first failure calls onFailure(), which aborts the controller.
OnFailure ==
    IF failed' /\ ~failed THEN AbortController
    ELSE UNCHANGED <<cancelled, approvalVars, npm>>

\* A metadata event a handler writes through the gate: into the same audit call,
\* while the database is open.
Written(durable) ==
    IF durable
    THEN /\ step # "done"
         /\ Audit!AppendEvidence(Run)
         /\ log' = [log EXCEPT !.late = @ \/ "npm_terminal_observed" \in log.gate]
    ELSE /\ \/ Audit!RollBack(Run)
            \/ (step = "done" \/ ~Audit!Usable(Run)) /\ UNCHANGED auditVars
         /\ UNCHANGED log

\* A request: of any local process if it is refused; one with the route token is
\* sent by npm or by what npm has started.
Request(r) ==
    /\ LoopRuns /\ Quiet
    /\ \/ /\ Broker!Reject(r) \/ Broker!Malformed(r)
          /\ UNCHANGED <<auditVars, log>>
       \/ /\ npm.child # "none"
          /\ \E p \in Packages : Broker!OverLimit(r, p)
          /\ UNCHANGED <<auditVars, log>>
       \/ /\ npm.child # "none"
          /\ \E p \in Packages : Broker!Reserve(r, p)
          /\ Written(intents' # intents)
    /\ OnFailure
    /\ UNCHANGED <<planVars, flow, files, verdict>>

\* The transport answers or fails.
Respond(r) ==
    /\ LoopRuns /\ Quiet
    /\ \/ Broker!FetchFails(r) /\ UNCHANGED <<auditVars, log>>
       \/ \E n \in 1..ResponseBytes :
            /\ Broker!Fetched(r, n)
            /\ IF pc'[r] = "validating" THEN Written(validated' # validated)
               ELSE UNCHANGED <<auditVars, log>>
    /\ OnFailure
    /\ UNCHANGED <<planVars, flow, files, verdict>>

\* The handler goes on in the same turn of the event loop.
Handle(r) ==
    /\ LoopRuns
    /\ Broker!IntentRecorded(r) \/ Broker!ResponseRecorded(r) \/ Broker!FailureAnswered(r)
    /\ OnFailure
    /\ UNCHANGED <<planVars, auditVars, flow, log, files, verdict>>

\* The drain ends or times out; an onFailure() of complete() returns.
BrokerSettles ==
    /\ Broker!OwnerNotified \/ (LoopRuns /\ Quiet /\ Broker!Drained)
    /\ UNCHANGED <<planVars, approvalVars, auditVars, flow, facts>>

-----------------------------------------------------------------------------
OwnerStep ==
    \/ Record
    \/ OperationFails
    \/ LookAgain
    \/ CreateRoot
    \/ Capture
    \/ ProbeHost
    \/ ProbeVersions
    \/ Initialize
    \/ ProbeContainment
    \/ Bind
    \/ CreateSession
    \/ \E ttl \in TTLs : Ask(ttl)
    \/ RecordRequest
    \/ Resume
    \/ Resolve
    \/ Block
    \/ Decided
    \/ Authorize
    \/ Refuse
    \/ Arm
    \/ BrokerArmed
    \/ Attach
    \/ Spawn
    \/ RecordStart
    \/ WaitExpires
    \/ RecordExit
    \/ Drain
    \/ Complete
    \/ Inspect
    \/ Compile
    \/ Assemble
    \/ WriteArtifact
    \/ CleanWorkspace
    \/ RemoveRoot
    \/ PrepareTerminal
    \/ Commit
    \/ Reconcile
    \/ Catch
    \/ Recover
    \/ RecordFailure
    \/ Report

Owner == Quiet /\ OwnerStep

Next ==
    \/ Owner
    \/ Interrupt
    \/ \E d \in Approvals!Decisions : HumanDecides(d)
    \/ TimerFires
    \/ Tick
    \/ \E reason \in StopReasons \ {"cancelled"} : StopChild(reason)
    \/ ForceKill
    \/ \E code \in {"zero", "nonzero"} : ChildCloses(code)
    \/ \E r \in Requests : Request(r) \/ Respond(r) \/ Handle(r)
    \/ BrokerSettles
    \/ \E s \in Plan!Subjects : Drift(s)

Spec == Init /\ [][Next]_vars

\* The event loop runs the owner and the handlers, time passes, and timers run:
\* the ticket's, the process timeout, SIGKILL, waitForClose() (in Owner), the
\* request timeout (in Respond), the drain timeout.  npm, the person and the operator
\* owe nothing.
FairSpec ==
    /\ Spec
    /\ WF_vars(Owner)
    /\ WF_vars(TimerFires)
    /\ WF_vars(Tick)
    /\ WF_vars(StopChild("timed_out"))
    /\ WF_vars(ForceKill)
    /\ WF_vars(BrokerSettles)
    /\ \A r \in Requests : WF_vars(Handle(r)) /\ WF_vars(Respond(r))

-----------------------------------------------------------------------------
ChildIsLive == npm.child \in {"running", "asked", "killed"}
Returned == verdict.result # NoResult

\* Nothing happens outside the process before it is approved and recorded: npm
\* runs, and the registry is asked, only for a row whose approval a person gave,
\* with a durable authorization receipt, a recorded arming of the broker and a
\* recorded intent to spawn; and it is what was approved: nothing the plan binds
\* had changed when it was looked at for the last time, after the approval.
EffectIsApproved ==
    npm.child # "none" \/ fetched # {} =>
        /\ approvalRow[Run] = "approved"
        /\ answers[Run] = {"approved"}
        /\ \E a \in authEvents[Run] : a.status = "authorized"
        /\ {"plan_ready", "broker_armed", "npm_spawn_intent_recorded"} \subseteq log.gate
        /\ Plan!Intact(Plan!Bound)

\* "If a public transport call began, report externalReadMayHaveOccurred = true":
\* the result says so, and no read begins after it was returned.
ReadIsReported == Returned /\ fetched # {} => verdict.result.read

\* A run is reported, or its row says, complete only if npm exited with zero and
\* was not stopped, every read was validated and is in the ledger, the artifact
\* exists, workspace and root are gone, the receipt is durable, and neither npm nor
\* another has changed what the run relies on before it did.  "If npm exits
\* while a handler remains or a response arrives after terminal latch, the run is
\* incomplete": no metadata was recorded after the exit of npm.
CompleteIsReal ==
    verdict.result.status = "complete" \/ status[Run] = "completed" =>
        /\ npm.exit = "zero" /\ npm.stopped = "none"
        /\ ~failed /\ fetched = validated /\ ~log.late
        /\ ledger.count = Cardinality(fetched)
        /\ files.output /\ files.cleanup /\ ~files.root
        /\ outcomeEvents[Run] # {} /\ Run \in completed
        /\ Plan!Intact(Plan!Subjects)

\* The result and the database agree: a result that claims to be certain is
\* backed by a finished row, and a receipt of success is never contradicted.
ResultIsRecorded ==
    /\ log.bound /\ verdict.result.status \in {"complete", "not_started", "failed", "incomplete"}
         => Run \in completed
    /\ Returned /\ status[Run] = "completed"
         => verdict.result.status \in {"complete", "outcome_unknown"}

\* The result of a run is neither better than what happened nor than its record.
ResultIsReal == CompleteIsReal /\ ResultIsRecorded

\* Files npm may be writing to are never removed, and a process the run could not
\* stop is reported as quarantined.  A run that has returned has no open ticket
\* and no session behind its listener.
NothingLeftBehind ==
    /\ ChildIsLive => files.root /\ ~files.cleanup
    /\ Returned => /\ ChildIsLive => verdict.result.status = "quarantined"
                   /\ pending = {}
                   /\ ~attached /\ server # "listening"

\* Every run ends, whatever the person, npm and the registry do.
EveryRunEnds == <>(step = "done")

\* docs, composition: "The first failure atomically latches a stable state,
\* disarms new requests, aborts transport": no read begins after the supervisor
\* has met a failure.
NoReadAfterFirstFailure ==
    [][npm.stopped \notin {"none", "cancelled"} => fetched' = fetched]_vars
=============================================================================
