----------------------------- MODULE InstallGuard -----------------------------
(***************************************************************************)
(* Install Guard: one `apg install' run (install/service.ts, run) and the  *)
(* controlled process it starts (install/runner.ts), with the approval     *)
(* service, the audit recorder, the policy of installs and the plan as     *)
(* instances of their own modules.                                         *)
(*                                                                         *)
(* The run is one async function.  Signals, timers, the person and child   *)
(* events are other callbacks: they happen only while the run is at an     *)
(* await.  Between two awaits every SQLite transaction is its own step, so *)
(* a transaction may fail, or the process die, after each of them.         *)
(***************************************************************************)
EXTENDS Integers, FiniteSets

CONSTANTS
    Run,           \* the id of the run: its audit row and its ticket
    TTLs,          \* --approval-ttl-seconds, positive by the argument parser
    MaxTime,       \* bound on time, see ApprovalService
    MaxFailures,   \* bound on failing transactions, see AuditRecorder
    MaxEvents,     \* bound on audit events, see AuditRecorder
    RegistryAnswers, \* what the metadata provider may answer, see InstallPolicy
    Lockfiles,     \* what npm may leave in the lockfiles, see InstallPlan
    MaxDrift       \* bound on what others change, see InstallPlan

ASSUME InstallAssumption == TTLs \subseteq Nat \ {0} /\ MaxDrift \in Nat

VARIABLES
    \* The approval service.
    mono, wall, closed, requested, pending, visible, published, expiresAt, due,
    outcome, answers, settledAt,
    \* The audit recorder and its database.
    live, boundary, decision, terminal, dispatched, authorization, required,
    approval, issued, status, completed, approvalRow, authEvents, startEvents,
    outcomeEvents, events, failures,
    \* The run.
    pc,            \* the step the run is at
    aborted,       \* SIGINT or SIGTERM has aborted the signal
    abortedEarly,  \* history: it did so before a process was spawned
    result,        \* the status run() returned, or "none"
    resolution,    \* what the metadata provider answered, or Unknown
    \* The plan.
    disk, plan, looks, drifts, late,
    \* The runner.
    tool,          \* plan.runner, "npm" or "npx"
    spawned,       \* processes started
    child,         \* "none", "running", "asked" (SIGTERM), "killed" or "closed"
    exit,          \* how the child ended: "none", "zero" or "nonzero"
    termination,   \* why the runner asked it to stop, or "none"
    execution,     \* status of the InstallExecutionResult, or "none"
    lock,          \* the lockfiles when the child closed
    verification   \* "none", "verified", "limited" or "failed"

approvalVars == <<mono, wall, closed, requested, pending, visible, published,
                  expiresAt, due, outcome, answers, settledAt>>
auditVars    == <<live, boundary, decision, terminal, dispatched, authorization,
                  required, approval, issued, status, completed, approvalRow,
                  authEvents, startEvents, outcomeEvents, events, failures>>
planVars     == <<disk, plan, looks, drifts, late>>
runVars      == <<pc, aborted, abortedEarly, result, resolution>>
runnerVars   == <<tool, spawned, child, exit, termination, execution, lock,
                  verification>>
vars == <<approvalVars, auditVars, planVars, runVars, runnerVars>>

Approvals == INSTANCE ApprovalService WITH Tickets <- {Run}
Audit     == INSTANCE AuditRecorder WITH Calls <- {Run}
Policy    == INSTANCE InstallPolicy
Plan      == INSTANCE InstallPlan

Unknown == Policy!Without("unknown")
NoLock  == <<>>

Waits    == {"resolving", "planning", "awaiting", "validating", "preparing",
             "executing", "verifying"}
Segments == {"deny", "plan_failed", "ask", "record", "unavailable", "resolve",
             "block", "execute", "runner_failed", "complete", "audit_failed"}
Results  == {"none", "denied", "failed", "approval_denied", "approval_expired",
             "approval_cancelled", "completed", "verification_failed", "timed_out",
             "cancelled", "audit_failed", "error"}

TypeOK ==
    /\ Approvals!TicketTypeOK
    /\ Audit!RecorderTypeOK
    /\ Plan!TypeOK
    /\ resolution \in RegistryAnswers \cup {Unknown}
    /\ lock \in Lockfiles \cup {NoLock}
    /\ pc \in Waits \cup Segments \cup {"done", "dead"}
    /\ {aborted, abortedEarly} \subseteq BOOLEAN
    /\ result \in Results
    /\ tool \in {"npm", "npx"}
    /\ spawned \in Nat
    /\ child \in {"none", "running", "asked", "killed", "closed"}
    /\ exit \in {"none", "zero", "nonzero"}
    /\ termination \in {"none", "timed_out", "cancelled"}
    /\ execution \in {"none", "completed", "failed", "timed_out", "cancelled"}
    /\ verification \in {"none", "verified", "limited", "failed"}

Init ==
    /\ Approvals!TicketInit
    /\ Audit!RecorderInit
    /\ Plan!Init
    /\ pc = "resolving"
    /\ resolution = Unknown
    /\ lock = NoLock
    /\ aborted = FALSE
    /\ abortedEarly = FALSE
    /\ result = "none"
    /\ tool \in {"npm", "npx"}
    /\ spawned = 0
    /\ child = "none"
    /\ exit = "none"
    /\ termination = "none"
    /\ execution = "none"
    /\ verification = "none"

Goto(s) == pc' = s /\ UNCHANGED <<aborted, abortedEarly, result, resolution>>

Return(r) ==
    /\ pc' = "done"
    /\ result' = r
    /\ UNCHANGED <<aborted, abortedEarly, resolution>>

-----------------------------------------------------------------------------
(* InstallGuardService.run(). *)

\* Metadata is resolved, held against the request, which asks for an exact version
\* or not, and the policy evaluated.
Resolved(exact, answer) ==
    /\ pc = "resolving"
    /\ resolution' = answer
    /\ IF Policy!ExecutionEvaluation(Policy!ValidateInstallResolution(exact, answer)) = "deny"
       THEN Audit!Begin(Run, "generic", "deny") /\ pc' = "deny"
       ELSE UNCHANGED auditVars /\ pc' = "planning"
    /\ UNCHANGED <<approvalVars, planVars, runnerVars, aborted, abortedEarly, result>>

ResolveThrows ==
    /\ pc = "resolving"
    /\ Return("error")
    /\ UNCHANGED <<approvalVars, auditVars, planVars, runnerVars>>

\* The planner looks at the next thing the plan will bind.
Plans ==
    /\ pc = "planning"
    /\ Plan!Capture
    /\ UNCHANGED <<approvalVars, auditVars, runVars, runnerVars>>

\* The planner has built the plan, which takes a tarball and its integrity, or
\* has thrown: evidence too old, options, a project .npmrc, no executable.
Planned(ok) ==
    /\ pc = "planning"
    /\ ok => Plan!Complete /\ resolution.installable
    /\ Audit!Begin(Run, "generic", "ask")
    /\ Goto(IF ok THEN "ask" ELSE "plan_failed")
    /\ UNCHANGED <<approvalVars, planVars, runnerVars>>

BeginThrows ==
    /\ pc \in {"resolving", "planning"}
    /\ Audit!BeginThrows(Run)
    /\ Return("error")
    /\ UNCHANGED <<approvalVars, planVars, runnerVars>>

\* markBlocked(st); a throw leaves run() with that error.
Block(step, st) ==
    /\ pc = step
    /\ \/ Audit!MarkBlocked(Run, st) /\ Return(st)
       \/ Audit!MarkBlockedThrows(Run, st) /\ Return("error")
    /\ UNCHANGED <<approvalVars, planVars, runnerVars>>

Deny == Block("deny", "denied")

\* approvals.request(), then markApprovalRequested() and waitForApproval().
Ask(ttl) ==
    /\ pc = "ask"
    /\ Approvals!Request(Run, ttl)
    /\ Goto("record")
    /\ UNCHANGED <<auditVars, planVars, runnerVars>>

RecordRequest ==
    /\ pc = "record"
    /\ Audit!MarkApprovalRequested(Run)
    /\ IF aborted THEN Approvals!Cancel(Run) ELSE UNCHANGED approvalVars
    /\ Goto("awaiting")
    /\ UNCHANGED <<planVars, runnerVars>>

\* Mutant of RecordRequestThrows: the ticket is not cancelled.
RecordRequestThrowsOnly ==
    /\ pc = "record"
    /\ Audit!RollBack(Run)
    /\ Goto("unavailable")
    /\ UNCHANGED <<approvalVars, planVars, runnerVars>>

RecordRequestThrows ==
    /\ pc = "record"
    /\ Audit!RollBack(Run)
    /\ Approvals!Cancel(Run)
    /\ Goto("unavailable")
    /\ UNCHANGED <<planVars, runnerVars>>

\* The ticket's promise has resolved.
Resume ==
    /\ pc = "awaiting"
    /\ outcome[Run] # Approvals!Unsettled
    /\ Goto("resolve")
    /\ UNCHANGED <<approvalVars, auditVars, planVars, runnerVars>>

RecordOutcome ==
    /\ pc = "resolve"
    /\ Audit!MarkApprovalResolved(Run, outcome[Run])
    /\ Goto(IF outcome[Run] = "approved" THEN "execute" ELSE "block")
    /\ UNCHANGED <<approvalVars, planVars, runnerVars>>

BlockUnapproved == Block("block", Audit!ResolvedStatus(outcome[Run]))

\* markExecuting(), which is markForwarding(), then runner.run().
MarkExecuting ==
    /\ pc = "execute"
    /\ Audit!MarkForwarding(Run)
    /\ Goto("validating")
    /\ UNCHANGED <<approvalVars, planVars, runnerVars>>

\* Mutant of Throws: the run goes on without a recorded start.
ThrowsFailsOpen ==
    /\ pc \in {"resolve", "execute"}
    /\ Audit!RollBack(Run)
    /\ Goto("validating")
    /\ UNCHANGED <<approvalVars, planVars, runnerVars>>

\* markApprovalResolved() or markExecuting() throws out of run().
Throws ==
    /\ pc \in {"resolve", "execute"}
    /\ Audit!RollBack(Run)
    /\ Return("error")
    /\ UNCHANGED <<approvalVars, planVars, runnerVars>>

\* markFailed(code) and a result; outside the last catch a throw escapes.
Fail(step, code, r, rIfThrown) ==
    /\ pc = step
    /\ \/ Audit!MarkFailed(Run, code) /\ Return(r)
       \/ Audit!MarkFailedThrows(Run, code) /\ Return(rIfThrown)
    /\ UNCHANGED <<approvalVars, planVars, runnerVars>>

PlanFailed      == Fail("plan_failed", "other", "failed", "error")
Unavailable     == Fail("unavailable", "approval_unavailable", "error", "error")
RunnerFailed    == Fail("runner_failed", "other", "failed", "error")
CompletionFails == Fail("audit_failed", "audit_completion_failed",
                        "audit_failed", "audit_failed")

\* markCompleted(), which is markExecutionResult(): an execution that did not
\* complete, or whose verification failed, is an error.
IsError == execution # "completed" \/ verification = "failed"

RecordResult ==
    /\ pc = "complete"
    /\ \/ /\ Audit!MarkExecutionResult(Run, IsError)
          /\ Return(IF execution = "completed" /\ verification = "failed"
                    THEN "verification_failed" ELSE execution)
       \/ /\ Audit!RollBack(Run)
          /\ Goto("audit_failed")
    /\ UNCHANGED <<approvalVars, planVars, runnerVars>>

-----------------------------------------------------------------------------
(* ControlledLocalInstallRunner.run(). *)

\* validateInstallPlanPreconditions(), one look at a time.
Revalidates ==
    /\ pc = "validating"
    /\ Plan!Look
    /\ UNCHANGED <<approvalVars, auditVars, runVars, runnerVars>>

\* Then the only look at signal.aborted.
Validated ==
    /\ pc = "validating"
    /\ Plan!Holds
    /\ IF aborted
       THEN /\ execution' = "cancelled"
            /\ Goto("verifying")
       ELSE /\ Goto("preparing")
            /\ UNCHANGED execution
    /\ UNCHANGED <<approvalVars, auditVars, planVars, tool, spawned, child, exit,
                   termination, lock, verification>>

\* The preconditions no longer hold, or the private directory cannot be made:
\* runner.run() throws before any process exists.
RunnerThrows ==
    /\ pc \in {"validating", "preparing"}
    /\ Goto("runner_failed")
    /\ UNCHANGED <<approvalVars, auditVars, planVars, runnerVars>>

\* execute(): spawn, arm the timeout and only then listen for the signal.
Spawn ==
    /\ pc = "preparing"
    /\ spawned' = spawned + 1
    /\ child' = "running"
    /\ Goto("executing")
    /\ UNCHANGED <<approvalVars, auditVars, planVars, tool, exit, termination, execution,
                   lock, verification>>

\* spawn() throws, or the child's error event calls finish(): a failed result,
\* without and with verification.
SpawnFails ==
    /\ pc = "preparing"
    /\ execution' = "failed"
    /\ Goto("complete") \/ Goto("verifying")
    /\ UNCHANGED <<approvalVars, auditVars, planVars, tool, spawned, child, exit,
                   termination, lock, verification>>

\* terminate(): only the first reason counts; SIGTERM to the process group.
Terminate(reason) ==
    /\ child = "running"
    /\ termination' = reason
    /\ child' = "asked"
    /\ UNCHANGED <<tool, spawned, exit, execution, lock, verification>>

Timeout ==
    /\ pc = "executing"
    /\ Terminate("timed_out")
    /\ UNCHANGED <<approvalVars, auditVars, planVars, runVars>>

\* Mutant of ForceKill: SIGTERM is not followed by SIGKILL.
NeverKill ==
    /\ pc = "executing"
    /\ child = "asked"
    /\ UNCHANGED vars

\* TERMINATION_GRACE_MS later: SIGKILL.
ForceKill ==
    /\ pc = "executing"
    /\ child = "asked"
    /\ child' = "killed"
    /\ UNCHANGED <<approvalVars, auditVars, planVars, runVars, tool, spawned, exit,
                   termination, execution, lock, verification>>

\* Mutant of ChildCloses: the exit code alone decides.
ChildClosesByCode(code, entries) ==
    /\ pc = "executing"
    /\ child \in {"running", "asked", "killed"}
    /\ child = "killed" => code = "nonzero"
    /\ child' = "closed"
    /\ exit' = code
    /\ lock' = entries
    /\ execution' = IF code = "zero" THEN "completed" ELSE "failed"
    /\ Goto("verifying")
    /\ UNCHANGED <<approvalVars, auditVars, planVars, tool, spawned, termination, verification>>

\* The close event, and finish(): a requested termination decides the status
\* whatever the exit code.
ChildCloses(code, entries) ==
    /\ pc = "executing"
    /\ child \in {"running", "asked", "killed"}
    /\ child = "killed" => code = "nonzero"
    /\ child' = "closed"
    /\ exit' = code
    /\ lock' = entries
    /\ execution' = IF termination # "none" THEN termination
                    ELSE IF code = "zero" THEN "completed" ELSE "failed"
    /\ Goto("verifying")
    /\ UNCHANGED <<approvalVars, auditVars, planVars, tool, spawned, termination, verification>>

\* The execution is the one of resultWithoutProcess().
CancelledUnspawned == execution = "cancelled" /\ spawned = 0

\* verifyInstallExecution(): limited for a process that did not complete and
\* for npx, else the lockfiles decide.
VerifyInstallExecution ==
    IF execution # "completed" \/ tool = "npx" THEN "limited"
    ELSE IF Plan!InspectLockfileIdentity(lock) THEN "verified" ELSE "failed"

\* If it throws, finish() makes the result a failure without verification.
Verified(throws) ==
    /\ pc = "verifying"
    /\ throws => ~CancelledUnspawned
    /\ verification' = IF throws THEN "none" ELSE VerifyInstallExecution
    /\ execution' = IF throws THEN "failed" ELSE execution
    /\ Goto("complete")
    /\ UNCHANGED <<approvalVars, auditVars, planVars, tool, spawned, child, exit,
                   termination, lock>>

\* resultWithoutProcess() does not catch the rejection: runner.run() throws.
VerificationThrows ==
    /\ pc = "verifying"
    /\ CancelledUnspawned
    /\ Goto("runner_failed")
    /\ UNCHANGED <<approvalVars, auditVars, planVars, runnerVars>>

-----------------------------------------------------------------------------
(* The other callbacks. *)

AtAwait == pc \in Waits

\* SIGINT or SIGTERM: the abort listener that is registered at this await runs.
Interrupt ==
    /\ AtAwait
    /\ ~aborted
    /\ aborted' = TRUE
    /\ abortedEarly' = (spawned = 0)
    /\ IF pc = "awaiting" THEN Approvals!Cancel(Run) ELSE UNCHANGED approvalVars
    /\ IF pc = "executing" /\ child = "running"
       THEN Terminate("cancelled") ELSE UNCHANGED runnerVars
    /\ UNCHANGED <<auditVars, planVars, pc, result, resolution>>

\* Another process changes what the plan binds, while it still matters.
Drift(s) ==
    /\ AtAwait
    /\ spawned = 0
    /\ Plan!Drift(s)
    /\ UNCHANGED <<approvalVars, auditVars, runVars, runnerVars>>

HumanDecides(d) ==
    /\ AtAwait
    /\ Approvals!Decide(Run, d)
    /\ UNCHANGED <<auditVars, planVars, runVars, runnerVars>>

TimerFires ==
    /\ AtAwait
    /\ Approvals!TimerFires(Run)
    /\ UNCHANGED <<auditVars, planVars, runVars, runnerVars>>

Tick ==
    /\ AtAwait
    /\ Approvals!Tick
    /\ UNCHANGED <<auditVars, planVars, runVars, runnerVars>>

\* The process dies.  A child in a process group of its own lives on.
Crash ==
    /\ pc \notin {"done", "dead"}
    /\ pc' = "dead"
    /\ Audit!Crash \/ (live = {} /\ UNCHANGED auditVars)
    /\ UNCHANGED <<approvalVars, planVars, aborted, abortedEarly, result, resolution,
                   runnerVars>>

\* run() has returned and the CLI's finally block closes the approval service.
Close ==
    /\ pc = "done"
    /\ Approvals!Close
    /\ UNCHANGED <<auditVars, planVars, runVars, runnerVars>>

Step ==
    \/ \E exact \in BOOLEAN, answer \in RegistryAnswers : Resolved(exact, answer)
    \/ ResolveThrows
    \/ Plans
    \/ \E ok \in BOOLEAN : Planned(ok)
    \/ BeginThrows
    \/ Deny
    \/ \E ttl \in TTLs : Ask(ttl)
    \/ RecordRequest
    \/ RecordRequestThrows
    \/ Resume
    \/ RecordOutcome
    \/ BlockUnapproved
    \/ MarkExecuting
    \/ Throws
    \/ PlanFailed
    \/ Unavailable
    \/ RunnerFailed
    \/ CompletionFails
    \/ RecordResult
    \/ Revalidates
    \/ Validated
    \/ RunnerThrows
    \/ Spawn
    \/ SpawnFails
    \/ \E throws \in BOOLEAN : Verified(throws)
    \/ VerificationThrows

Next ==
    \/ Step
    \/ Timeout
    \/ ForceKill
    \/ \E code \in {"zero", "nonzero"}, entries \in Lockfiles : ChildCloses(code, entries)
    \/ Interrupt
    \/ \E d \in Approvals!Decisions : HumanDecides(d)
    \/ TimerFires
    \/ Tick
    \/ \E s \in Plan!Subjects : Drift(s)
    \/ Crash
    \/ Close

Spec == Init /\ [][Next]_vars

\* The event loop runs the function on, timers run, time passes, and a process
\* group that was sent SIGKILL closes.  A child that was not killed, and the
\* person, owe nothing.
FairSpec ==
    /\ Spec
    /\ WF_vars(Step)
    /\ WF_vars(TimerFires)
    /\ WF_vars(Tick)
    /\ WF_vars(Timeout)
    /\ WF_vars(ForceKill)
    /\ WF_vars(child = "killed" /\ \E entries \in Lockfiles : ChildCloses("nonzero", entries))

-----------------------------------------------------------------------------
\* "Denied, expired, or cancelled approval: no runner call" and "Pre-execution
\* audit failure: fail closed": a process was started only once, after its
\* start was recorded, for a ticket a person approved, from metadata that names
\* the package, has its integrity and tells of no critical advisory, and with the
\* directory, the executables and the manifests that were approved, but for what
\* changed after its last look.
SpawnedOnlyWhenApproved ==
    spawned > 0 => /\ spawned = 1
                   /\ startEvents[Run] # {}
                   /\ approvalRow[Run] = "approved"
                   /\ answers[Run] = {"approved"}
                   /\ resolution.status = "resolved"
                   /\ resolution.named /\ resolution.installable
                   /\ "critical_advisory" \notin resolution.findings
                   /\ Plan!AsApproved

\* What the caller is told agrees with what happened and with what was written.
\* A success is never claimed, to the caller or in the receipt, for a process that
\* failed, was stopped, could not be verified, or never ran; and a result other
\* than "error" and "audit_failed" is backed by a finished row.
ReallySucceeded ==
    /\ exit = "zero"
    /\ termination = "none"
    /\ tool = "npx" \/ (verification = "verified" /\ \E i \in DOMAIN lock : lock[i] = "approved")

ResultIsReal ==
    /\ result = "completed" => ReallySucceeded
    /\ \A o \in outcomeEvents[Run] : o.status = "completed" => ReallySucceeded
    /\ result \notin {"none", "error", "audit_failed"} => Run \in completed

\* The run leaves no process behind when it returns, and no open ticket.
NothingLeftBehind ==
    pc = "done" => child \in {"none", "closed"} /\ pending = {}

\* Every run ends: nobody has to decide, and a child that ignores SIGTERM is
\* killed.
EveryRunEnds == <>(pc \in {"done", "dead"})

\* ARCHITECTURE.md, "Timeout, cancellation, non-zero exit, or verification
\* failure: non-success terminal result": a run that was cancelled before any
\* process was started does not succeed.
CancellationIsNotSuccess ==
    abortedEarly => result # "completed"
=============================================================================
