-------------------------- MODULE InstallGuardProofs --------------------------
(***************************************************************************)
(* Proofs about an install run, for whatever the registry answers, npm     *)
(* leaves in the lockfiles, others change on disk and the person, the      *)
(* signals and the timers do.                                              *)
(*                                                                         *)
(* The step of the run says how far its approval has come and what the     *)
(* runner has done: nothing is spawned before the start is durable and the *)
(* plan was looked at, and the result of an execution is final before the  *)
(* audit recorder hears of it.                                             *)
(***************************************************************************)
EXTENDS InstallGuard, Sequences, TLAPS

\* The ticket, if there is one, is pending only unsettled, and an approval was answered
\* to the person who gave it.
TicketInv ==
    /\ pending \subseteq requested /\ requested \subseteq {Run}
    /\ outcome \in [{Run} -> Approvals!Outcomes \cup {Approvals!Unsettled}]
    /\ DOMAIN answers = {Run}
    /\ Run \in pending \/ Run \notin requested =>
         outcome[Run] = Approvals!Unsettled /\ answers[Run] = {}
    /\ outcome[Run] = "approved" => answers[Run] = {"approved"}

\* What was looked at is as the plan says, or was changed after its look.
PlanInv ==
    /\ DOMAIN disk = Plan!Subjects
    /\ DOMAIN plan = Plan!Subjects
    /\ looks \in 0..5
    /\ \A s \in Plan!Subjects : Plan!LookedAt(s) => disk[s] = plan[s] \/ s \in late

\* What the metadata of a plan says.
Sound ==
    /\ resolution.status = "resolved" /\ resolution.named
    /\ "critical_advisory" \notin resolution.findings

Approved == approvalRow[Run] = "approved" /\ outcome[Run] = "approved"

\* What must be true before a process is started.
Released ==
    startEvents[Run] # {} /\ Approved /\ Sound /\ resolution.installable

Ended     == {"done", "dead"}
Unasked   == {"resolving", "deny", "planning", "plan_failed"}
Asking    == {"ask", "record", "awaiting", "resolve", "block", "execute"}
Unstarted == Unasked \cup Asking \cup {"unavailable"}
Running   == {"validating", "preparing", "executing", "verifying", "runner_failed", "complete",
              "audit_failed"}

\* What the step of the run says.
StepInv ==
    /\ pc \in Unstarted \cup Running \cup Ended
    /\ pc \notin {"resolving", "deny"} \cup Ended => Sound
    /\ pc \in Asking => resolution.installable
    /\ pc \in Unasked \cup {"ask", "record"} => approvalRow[Run] = "none"
    /\ pc \in {"resolve", "block"} => outcome[Run] # Approvals!Unsettled
    /\ pc = "block" => outcome[Run] # "approved"
    /\ pc = "execute" => Approved
    /\ pc \in Running => Released
    /\ pc \in Unstarted => looks = 0
    /\ pc = "preparing" => looks = 5
    /\ Run \in pending => pc \in {"record", "awaiting", "dead"}
    /\ pc \notin Ended => result = "none" /\ outcomeEvents[Run] = {}

\* What the runner has done.
RunnerInv ==
    /\ spawned \in {0, 1} /\ termination \in {"none", "timed_out", "cancelled"}
    /\ pc \in Unstarted \cup {"validating", "preparing"} =>
         spawned = 0 /\ execution = "none"
    /\ pc = "executing" => /\ spawned = 1 /\ execution = "none"
                           /\ child \in {"running", "asked", "killed"}
    /\ pc \notin {"executing", "dead"} => child \in {"none", "closed"}
    /\ spawned = 1 => Released /\ Plan!AsApproved
    /\ execution = "completed" => exit = "zero" /\ termination = "none"
    /\ pc \in {"complete", "audit_failed"} /\ execution = "completed" /\ verification # "failed" =>
         ReallySucceeded

RecordInv ==
    /\ DOMAIN startEvents = {Run} /\ DOMAIN approvalRow = {Run} /\ DOMAIN outcomeEvents = {Run}
    /\ ResultIsReal

IInv == TicketInv /\ PlanInv /\ StepInv /\ RunnerInv /\ RecordInv

USE DEF Approvals!Outcomes, Approvals!Decisions, Approvals!Unsettled,
        Ended, Unasked, Asking, Unstarted, Running

-----------------------------------------------------------------------------
(* The components, as the run sees them. *)

\* Tickets are at most settled.
TicketsKept ==
    /\ TicketInv' /\ pending' \subseteq pending
    /\ outcome[Run] # Approvals!Unsettled => outcome'[Run] = outcome[Run]

\* settle(); an approval comes with its answer.
LEMMA SettleEffect ==
    ASSUME TicketInv, NEW ts, NEW o \in Approvals!Outcomes, Approvals!Settle(ts, o),
           requested' = requested,
           \/ answers' = answers /\ o # "approved"
           \/ Run \in ts \cap pending /\ answers' = [answers EXCEPT ![Run] = @ \cup {o}]
    PROVE  TicketsKept /\ (Run \in ts => Run \notin pending')
<1>1. /\ pending' = pending \ ts /\ DOMAIN answers' = {Run}
      /\ outcome' \in [{Run} -> Approvals!Outcomes \cup {Approvals!Unsettled}]
      /\ outcome'[Run] = IF Run \in ts \cap pending /\ outcome[Run] = Approvals!Unsettled
                         THEN o ELSE outcome[Run]
  BY DEF TicketInv, Approvals!Settle, Approvals!Resolve
<1>2. CASE answers' = answers /\ o # "approved"
  BY <1>1, <1>2 DEF TicketInv, TicketsKept
<1>3. CASE Run \in ts \cap pending /\ answers' = [answers EXCEPT ![Run] = @ \cup {o}]
  <2>1. answers'[Run] = {o} /\ outcome'[Run] = o
    BY <1>1, <1>3 DEF TicketInv
  <2> QED
    BY <1>1, <1>3, <2>1 DEF TicketInv, TicketsKept
<1> QED
  BY <1>2, <1>3

\* ticket.cancel().
LEMMA CancelEffect ==
    ASSUME TicketInv, Approvals!Cancel(Run)
    PROVE  TicketsKept /\ Run \notin pending'
BY SettleEffect DEF Approvals!Cancel

\* A decision, a timer, a cancellation, the end of the service and the clock.
LEMMA TicketStep ==
    ASSUME TicketInv,
           \/ \E d \in Approvals!Decisions : Approvals!Decide(Run, d)
           \/ Approvals!TimerFires(Run) \/ Approvals!Cancel(Run) \/ Approvals!Close
           \/ Approvals!Tick \/ UNCHANGED approvalVars
    PROVE  TicketsKept
<1>1. ASSUME NEW d \in Approvals!Decisions, Approvals!Decide(Run, d)
      PROVE  TicketsKept
  BY <1>1, SettleEffect DEF Approvals!Decide, Approvals!CanDecide, Approvals!EffectiveDecision
<1>2. CASE Approvals!TimerFires(Run) \/ Approvals!Cancel(Run) \/ Approvals!Close
  BY <1>2, SettleEffect DEF Approvals!TimerFires, Approvals!Cancel, Approvals!Close
<1>3. CASE Approvals!Tick \/ UNCHANGED approvalVars
  BY <1>3 DEF Approvals!Tick, approvalVars, TicketInv, TicketsKept
<1> QED
  BY <1>1, <1>2, <1>3

\* A method of the recorder that records neither an approval, a start nor an outcome.
RecordsKept == UNCHANGED <<startEvents, approvalRow, outcomeEvents>> /\ completed \subseteq completed'

\* Such are begin(), markBlocked() and the methods that throw.
LEMMA QuietRecords ==
    ASSUME NEW b, NEW d, NEW st, NEW code,
           \/ Audit!Begin(Run, b, d) \/ Audit!BeginThrows(Run) \/ Audit!RollBack(Run)
           \/ Audit!MarkBlocked(Run, st) \/ Audit!MarkBlockedThrows(Run, st)
           \/ Audit!MarkFailedThrows(Run, code) \/ Audit!Crash \/ UNCHANGED auditVars
    PROVE  RecordsKept
BY DEF RecordsKept, auditVars, Audit!Begin, Audit!BeginThrows, Audit!RollBack, Audit!MarkBlocked,
       Audit!MarkBlockedThrows, Audit!MarkFailedThrows, Audit!Crash, Audit!database, Audit!Finish

\* markFailed(): its outcome is never a success.
LEMMA FailedEffect ==
    ASSUME RecordInv, NEW code \in {"other", "approval_unavailable", "audit_completion_failed"},
           Audit!MarkFailed(Run, code)
    PROVE  /\ UNCHANGED <<startEvents, approvalRow>> /\ completed' = completed \cup {Run}
           /\ DOMAIN outcomeEvents' = {Run}
           /\ \A o \in outcomeEvents'[Run] : o \in outcomeEvents[Run] \/ o.status # "completed"
<1>1. /\ UNCHANGED <<startEvents, approvalRow>> /\ completed' = completed \cup {Run}
  BY DEF Audit!MarkFailed, Audit!Finish
<1> DEFINE o == Audit!CreateOutcome(Run, Audit!FailedAuthorization(Run, code),
                                    Audit!TerminalStatusForFailure(code))
<1>2. \/ outcomeEvents' = outcomeEvents
      \/ outcomeEvents' = [outcomeEvents EXCEPT ![Run] = @ \cup {o}]
  BY DEF Audit!MarkFailed, Audit!Add
<1>3. o.status # "completed"
  BY DEF Audit!CreateOutcome, Audit!TerminalStatusForFailure
<1> HIDE DEF o
<1> QED
  BY <1>1, <1>2, <1>3 DEF RecordInv

\* markExecutionResult(): a success only for what was no error.
LEMMA ResultEffect ==
    ASSUME RecordInv, NEW isError \in BOOLEAN, Audit!MarkExecutionResult(Run, isError)
    PROVE  /\ UNCHANGED <<startEvents, approvalRow>> /\ completed' = completed \cup {Run}
           /\ DOMAIN outcomeEvents' = {Run}
           /\ \A o \in outcomeEvents'[Run] :
                o \in outcomeEvents[Run] \/ (o.status = "completed" => ~isError)
<1> DEFINE st == IF isError THEN "execution_error" ELSE "completed"
           o  == Audit!CreateOutcome(Run, authorization[Run], st)
<1>1. Audit!CompleteCall(Run, st, st, 2)
  BY DEF Audit!MarkExecutionResult
<1>2. /\ UNCHANGED <<startEvents, approvalRow>> /\ completed' = completed \cup {Run}
      /\ outcomeEvents' = [outcomeEvents EXCEPT ![Run] = @ \cup {o}]
  BY <1>1 DEF Audit!CompleteCall, Audit!Finish, Audit!Add
<1>3. o.status = st
  BY DEF Audit!CreateOutcome
<1> HIDE DEF o
<1> QED
  BY <1>2, <1>3 DEF RecordInv

\* The policy lets nothing through but sound metadata.
LEMMA PolicyEffect ==
    ASSUME NEW exact, NEW answer,
           Policy!ExecutionEvaluation(Policy!ValidateInstallResolution(exact, answer)) # "deny"
    PROVE  /\ answer.status = "resolved" /\ answer.named
           /\ "critical_advisory" \notin answer.findings
<1> DEFINE v == Policy!ValidateInstallResolution(exact, answer)
<1>1. v.status = "resolved" /\ Policy!EvaluateInstallPolicy(v) # "deny"
  BY DEF Policy!ExecutionEvaluation
<1>2. v = answer /\ answer.status = "resolved" /\ answer.named
  BY <1>1 DEF Policy!ValidateInstallResolution, Policy!Without
<1>3. "critical_advisory" \notin answer.findings
  BY <1>1, <1>2 DEF Policy!EvaluateInstallPolicy, Policy!StrictestSignalDecision, Policy!Signals,
                    Policy!DenySignals
<1> QED
  BY <1>2, <1>3

-----------------------------------------------------------------------------
(* The steps of the run. *)

\* run() returns, and neither its result nor its receipt claims more than happened.
LEMMA ReturnIInv ==
    ASSUME IInv, pc \notin {"executing", "record", "awaiting"} \cup Ended, NEW r, Return(r),
           UNCHANGED <<approvalVars, planVars, runnerVars, startEvents, approvalRow>>,
           DOMAIN outcomeEvents' = {Run}, completed \subseteq completed',
           r = "completed" => ReallySucceeded,
           \A o \in outcomeEvents'[Run] : o.status = "completed" => ReallySucceeded,
           r \notin {"none", "error", "audit_failed"} => Run \in completed'
    PROVE  IInv'
<1>1. pc' = "done" /\ result' = r /\ UNCHANGED resolution
  BY DEF Return
<1>2. TicketInv' /\ UNCHANGED <<pending, outcome>>
  BY DEF IInv, TicketInv, approvalVars
<1>3. PlanInv' /\ (Plan!AsApproved => Plan!AsApproved')
  BY DEF IInv, PlanInv, planVars, Plan!LookedAt, Plan!AsApproved
<1>4. UNCHANGED <<tool, spawned, child, exit, termination, execution, lock, verification>>
  BY DEF runnerVars
<1>5. StepInv'
  BY <1>1, <1>2 DEF IInv, StepInv
<1>6. RunnerInv'
  BY <1>1, <1>2, <1>3, <1>4 DEF IInv, RunnerInv, Released, Approved, Sound
<1>7. RecordInv'
  BY <1>1, <1>4 DEF IInv, RecordInv, ResultIsReal, ReallySucceeded
<1> QED
  BY <1>2, <1>3, <1>5, <1>6, <1>7 DEF IInv

\* markBlocked() and the end of the run.
LEMMA BlockIInv ==
    ASSUME IInv, Deny \/ BlockUnapproved
    PROVE  IInv'
<1>1. PICK step \in {"deny", "block"}, st \in Results \ {"completed"} : Block(step, st)
  <2>1. CASE Deny
    BY <2>1 DEF Deny, Results
  <2>2. CASE BlockUnapproved
    <3>1. Audit!ResolvedStatus(outcome[Run]) \in Results \ {"completed"}
      <4>1. outcome[Run] \in Approvals!Outcomes \ {"approved"}
        BY <2>2 DEF BlockUnapproved, Block, IInv, StepInv, TicketInv
      <4> QED
        BY <4>1 DEF Audit!ResolvedStatus, Results
    <3> QED
      BY <2>2, <3>1 DEF BlockUnapproved
  <2> QED
    BY <2>1, <2>2
<1>2. PICK r : /\ Return(r) /\ r # "completed"
               /\ Audit!MarkBlocked(Run, st) \/ (Audit!MarkBlockedThrows(Run, st) /\ r = "error")
  BY <1>1 DEF Block
<1>3. RecordsKept /\ (Audit!MarkBlocked(Run, st) => Run \in completed')
  BY <1>2, QuietRecords DEF Audit!MarkBlocked, Audit!Finish
<1>4. pc \in {"deny", "block"} /\ UNCHANGED <<approvalVars, planVars, runnerVars>>
  BY <1>1 DEF Block
<1> QED
  BY <1>2, <1>3, <1>4, ReturnIInv DEF IInv, StepInv, RecordInv, RecordsKept

\* markFailed() and the end of the run.
LEMMA FailIInv ==
    ASSUME IInv, PlanFailed \/ Unavailable \/ RunnerFailed \/ CompletionFails
    PROVE  IInv'
<1>1. PICK step \in {"plan_failed", "unavailable", "runner_failed", "audit_failed"},
           code \in {"other", "approval_unavailable", "audit_completion_failed"},
           r \in {"failed", "error", "audit_failed"}, thrown \in {"error", "audit_failed"} :
             Fail(step, code, r, thrown)
  BY DEF PlanFailed, Unavailable, RunnerFailed, CompletionFails
<1>2. pc = step /\ UNCHANGED <<approvalVars, planVars, runnerVars>>
  BY <1>1 DEF Fail
<1>3. CASE Audit!MarkFailed(Run, code) /\ Return(r)
  <2>1. /\ UNCHANGED <<startEvents, approvalRow>> /\ completed' = completed \cup {Run}
        /\ DOMAIN outcomeEvents' = {Run}
        /\ \A o \in outcomeEvents'[Run] : o \in outcomeEvents[Run] \/ o.status # "completed"
    BY <1>3, FailedEffect DEF IInv
  <2> QED
    BY <1>2, <1>3, <2>1, ReturnIInv DEF IInv, StepInv
<1>4. CASE Audit!MarkFailedThrows(Run, code) /\ Return(thrown)
  <2>1. RecordsKept
    BY <1>4, QuietRecords
  <2> QED
    BY <1>2, <1>4, <2>1, ReturnIInv DEF IInv, StepInv, RecordInv, RecordsKept
<1> QED
  BY <1>1, <1>3, <1>4 DEF Fail

\* run() throws.
LEMMA ThrowsIInv ==
    ASSUME IInv, ResolveThrows \/ BeginThrows \/ Throws
    PROVE  IInv'
<1>1. /\ pc \in {"resolving", "planning", "resolve", "execute"} /\ Return("error")
      /\ UNCHANGED <<approvalVars, planVars, runnerVars>>
  BY DEF ResolveThrows, BeginThrows, Throws
<1>2. RecordsKept
  BY QuietRecords DEF ResolveThrows, BeginThrows, Throws
<1> QED
  BY <1>1, <1>2, ReturnIInv DEF IInv, StepInv, RecordInv, RecordsKept

\* The result of the execution is recorded, or cannot be.
LEMMA RecordResultIInv ==
    ASSUME IInv, RecordResult
    PROVE  IInv'
<1>1. pc = "complete" /\ UNCHANGED <<approvalVars, planVars, runnerVars>>
  BY DEF RecordResult
<1>2. ~IsError => ReallySucceeded
  BY <1>1 DEF IInv, RunnerInv, IsError
<1> DEFINE r == IF execution = "completed" /\ verification = "failed"
                THEN "verification_failed" ELSE execution
<1>3. CASE Audit!MarkExecutionResult(Run, IsError) /\ Return(r)
  <2>0. IsError \in BOOLEAN
    BY DEF IsError
  <2>1. /\ UNCHANGED <<startEvents, approvalRow>> /\ completed' = completed \cup {Run}
        /\ DOMAIN outcomeEvents' = {Run}
        /\ \A o \in outcomeEvents'[Run] :
             o \in outcomeEvents[Run] \/ (o.status = "completed" => ~IsError)
    BY <1>3, <2>0, ResultEffect DEF IInv
  <2>2. r = "completed" => ReallySucceeded
    BY <1>2 DEF IsError
  <2> HIDE DEF r
  <2> QED
    BY <1>1, <1>2, <1>3, <2>1, <2>2, ReturnIInv DEF IInv, StepInv
<1>4. CASE Audit!RollBack(Run) /\ Goto("audit_failed")
  <2>1. RecordsKept
    BY <1>4, QuietRecords
  <2>2. TicketInv' /\ PlanInv' /\ UNCHANGED <<pending, outcome>> /\ (Plan!AsApproved => Plan!AsApproved')
    BY <1>1 DEF IInv, TicketInv, approvalVars, PlanInv, planVars, Plan!LookedAt, Plan!AsApproved
  <2>3. StepInv' /\ RunnerInv' /\ RecordInv'
    BY <1>1, <1>4, <2>1, <2>2 DEF IInv, StepInv, RunnerInv, RecordInv, RecordsKept, Goto, Released,
                                  Approved, Sound, runnerVars, ResultIsReal, ReallySucceeded, planVars
  <2> QED
    BY <2>2, <2>3 DEF IInv
<1> QED
  BY <1>3, <1>4 DEF RecordResult

\* The run goes on to a step from which nothing has been started, or to runner_failed.
LEMMA GoOnIInv ==
    ASSUME IInv, UNCHANGED <<planVars, runnerVars, outcomeEvents, result>>,
           \/ pc \in Unstarted /\ pc' \in Unstarted \cup {"validating"}
           \/ pc \in {"validating", "preparing", "verifying"} /\ pc' = "runner_failed",
           completed \subseteq completed', TicketInv', StepInv',
           DOMAIN startEvents' = {Run}, DOMAIN approvalRow' = {Run}, Released => Released'
    PROVE  IInv'
<1>1. PlanInv' /\ (Plan!AsApproved => Plan!AsApproved')
  BY DEF IInv, PlanInv, planVars, Plan!LookedAt, Plan!AsApproved
<1>2. UNCHANGED <<tool, spawned, child, exit, termination, execution, lock, verification>>
  BY DEF runnerVars
<1>3. RunnerInv'
  BY <1>1, <1>2 DEF IInv, RunnerInv
<1>4. RecordInv'
  BY <1>2 DEF IInv, RecordInv, ResultIsReal, ReallySucceeded
<1> QED
  BY <1>1, <1>3, <1>4 DEF IInv

\* The metadata is resolved and judged.
LEMMA ResolvedIInv ==
    ASSUME IInv, NEW exact, NEW answer, Resolved(exact, answer)
    PROVE  IInv'
<1>1. /\ pc = "resolving" /\ UNCHANGED <<approvalVars, planVars, runnerVars, result>>
      /\ pc' \in {"deny", "planning"} /\ resolution' = answer
  BY DEF Resolved
<1>2. RecordsKept
  BY QuietRecords DEF Resolved
<1>3. pc' = "planning" =>
        /\ answer.status = "resolved" /\ answer.named
        /\ "critical_advisory" \notin answer.findings
  BY PolicyEffect DEF Resolved
<1>4. TicketInv' /\ UNCHANGED <<pending, outcome>>
  BY <1>1 DEF IInv, TicketInv, approvalVars
<1>5. ~Released
  BY <1>1 DEF IInv, StepInv, Released, Approved
<1>6. StepInv'
  BY <1>1, <1>2, <1>3, <1>4 DEF IInv, StepInv, Sound, RecordsKept, planVars
<1> QED
  BY <1>1, <1>2, <1>4, <1>5, <1>6, GoOnIInv DEF RecordsKept, IInv, RecordInv

\* The plan is made, the ticket's promise has resolved, or the runner has thrown.
LEMMA ProceedsIInv ==
    ASSUME IInv, (\E ok \in BOOLEAN : Planned(ok)) \/ Resume \/ RunnerThrows \/ VerificationThrows
    PROVE  IInv'
<1>1. /\ UNCHANGED <<approvalVars, planVars, runnerVars, result, resolution>>
      /\ \/ pc = "planning" /\ pc' \in {"ask", "plan_failed"}
         \/ pc = "awaiting" /\ pc' = "resolve" /\ outcome[Run] # Approvals!Unsettled
         \/ pc \in {"validating", "preparing", "verifying"} /\ pc' = "runner_failed"
      /\ pc' = "ask" => resolution.installable
  BY DEF Planned, Resume, RunnerThrows, VerificationThrows, Goto
<1>2. RecordsKept
  BY QuietRecords DEF Planned, Resume, RunnerThrows, VerificationThrows
<1>3. TicketInv' /\ UNCHANGED <<pending, outcome>>
  BY <1>1 DEF IInv, TicketInv, approvalVars
<1>4. Released => Released'
  BY <1>1, <1>2, <1>3 DEF Released, Approved, Sound, RecordsKept
<1>5. StepInv'
  BY <1>1, <1>2, <1>3 DEF IInv, StepInv, TicketInv, Sound, Released, Approved, RecordsKept, planVars
<1> QED
  BY <1>1, <1>2, <1>3, <1>4, <1>5, GoOnIInv DEF RecordsKept, IInv, RecordInv

\* The approval is requested.
LEMMA AskIInv ==
    ASSUME IInv, \E ttl \in TTLs : Ask(ttl)
    PROVE  IInv'
<1>1. /\ pc = "ask" /\ pc' = "record" /\ UNCHANGED <<auditVars, planVars, runnerVars, result, resolution>>
      /\ requested' = requested \cup {Run} /\ pending' = pending \cup {Run}
      /\ Run \notin requested /\ UNCHANGED <<outcome, answers>>
  BY DEF Ask, Goto, Approvals!Request, Approvals!AddEntry
<1>2. RecordsKept
  BY <1>1 DEF RecordsKept, auditVars
<1>3. TicketInv'
  BY <1>1 DEF IInv, TicketInv
<1>4. StepInv'
  BY <1>1, <1>2 DEF IInv, StepInv, Sound, RecordsKept, planVars
<1>5. Released => Released'
  BY <1>1, <1>2 DEF Released, Approved, Sound, RecordsKept
<1> QED
  BY <1>1, <1>2, <1>3, <1>4, <1>5, GoOnIInv DEF RecordsKept, IInv, RecordInv

\* The request is recorded, or cannot be and the ticket is withdrawn.
LEMMA RecordRequestIInv ==
    ASSUME IInv, RecordRequest \/ RecordRequestThrows
    PROVE  IInv'
<1>1. /\ pc = "record" /\ UNCHANGED <<planVars, runnerVars, result, resolution>>
      /\ \/ pc' = "awaiting" /\ RecordRequest
         \/ pc' = "unavailable" /\ RecordRequestThrows
  BY DEF RecordRequest, RecordRequestThrows, Goto
<1>2. TicketsKept /\ (RecordRequestThrows => Run \notin pending')
  BY TicketStep, CancelEffect DEF IInv, RecordRequest, RecordRequestThrows
<1>3. /\ UNCHANGED <<startEvents, outcomeEvents>> /\ completed \subseteq completed'
      /\ DOMAIN approvalRow' = {Run}
  <2>1. CASE RecordRequest
    BY <2>1 DEF RecordRequest, Audit!MarkApprovalRequested, IInv, RecordInv
  <2>2. CASE RecordRequestThrows
    BY <2>2, QuietRecords DEF RecordRequestThrows, RecordsKept, IInv, RecordInv
  <2> QED
    BY <2>1, <2>2
<1>4. ~Released
  BY <1>1 DEF IInv, StepInv, Released, Approved
<1>5. StepInv'
  BY <1>1, <1>2, <1>3 DEF IInv, StepInv, Sound, TicketsKept, planVars
<1> QED
  BY <1>1, <1>2, <1>3, <1>4, <1>5, GoOnIInv DEF TicketsKept, IInv, RecordInv

\* The ticket's outcome is recorded, and then the start.
LEMMA RecordOutcomeIInv ==
    ASSUME IInv, RecordOutcome \/ MarkExecuting
    PROVE  IInv'
<1>1. /\ UNCHANGED <<approvalVars, planVars, runnerVars, result, resolution>>
      /\ \/ /\ pc = "resolve" /\ pc' = IF outcome[Run] = "approved" THEN "execute" ELSE "block"
            /\ Audit!MarkApprovalResolved(Run, outcome[Run])
         \/ pc = "execute" /\ pc' = "validating" /\ Audit!MarkForwarding(Run)
  BY DEF RecordOutcome, MarkExecuting, Goto
<1>2. TicketInv' /\ UNCHANGED <<pending, outcome>>
  BY <1>1 DEF IInv, TicketInv, approvalVars
<1>3. /\ UNCHANGED <<outcomeEvents, completed>>
      /\ DOMAIN startEvents' = {Run} /\ DOMAIN approvalRow' = {Run}
      /\ pc = "resolve" => UNCHANGED startEvents /\ approvalRow'[Run] = outcome[Run]
      /\ pc = "execute" => startEvents'[Run] # {} /\ UNCHANGED approvalRow
  BY <1>1 DEF IInv, RecordInv, Audit!MarkApprovalResolved, Audit!MarkForwarding, Audit!Add
<1>4. Released => Released'
  BY <1>1, <1>2, <1>3 DEF Released, Approved, Sound
<1>5. StepInv'
  BY <1>1, <1>2, <1>3 DEF IInv, StepInv, Sound, Released, Approved, planVars
<1> QED
  BY <1>1, <1>2, <1>3, <1>4, <1>5, GoOnIInv

-----------------------------------------------------------------------------
(* The plan. *)

\* Nothing was looked at without a look, and after the last one everything was.
LEMMA Looked ==
    /\ looks = 0 => \A s \in Plan!Subjects : ~Plan!LookedAt(s)
    /\ PlanInv /\ looks = 5 => Plan!AsApproved
<1>1. looks = 0 => \A s \in Plan!Subjects : ~Plan!LookedAt(s)
  BY DEF Plan!LookedAt
<1>2. looks = 5 => \A s \in Plan!Subjects : Plan!LookedAt(s)
  BY DEF Plan!LookedAt, Plan!Subjects, Plan!Checks
<1> QED
  BY <1>1, <1>2 DEF PlanInv, Plan!AsApproved

\* The plan is captured, looked at again, or contradicted by others.
LEMMA PlanIInv ==
    ASSUME IInv, Plans \/ Revalidates \/ (\E s \in Plan!Subjects : Drift(s))
    PROVE  IInv'
<1>1. /\ UNCHANGED <<approvalVars, auditVars, runVars, runnerVars>> /\ spawned = 0
      /\ pc = "preparing" => UNCHANGED looks
  <2>1. CASE Plans \/ Revalidates
    BY <2>1 DEF IInv, RunnerInv, Plans, Revalidates
  <2>2. ASSUME NEW s \in Plan!Subjects, Drift(s) PROVE UNCHANGED <<approvalVars, auditVars, runVars, runnerVars, looks>> /\ spawned = 0
    BY <2>2 DEF Drift, Plan!Drift
  <2> QED
    BY <2>1, <2>2
<1>2. PlanInv' /\ (pc \in Unstarted => looks' = looks)
  <2>1. CASE Plans
    <3>1. /\ looks = 0 /\ UNCHANGED <<disk, looks, late>> /\ DOMAIN plan' = Plan!Subjects
      BY <2>1 DEF Plans, Plan!Capture, IInv, StepInv, PlanInv
    <3> QED
      BY <3>1, Looked DEF IInv, PlanInv, Plan!LookedAt
  <2>2. CASE Revalidates
    <3>1. /\ looks \in 0..5 /\ looks < 5 /\ looks' = looks + 1 /\ UNCHANGED <<disk, plan, late>>
          /\ disk[Plan!Checks[looks + 1]] = plan[Plan!Checks[looks + 1]] /\ pc = "validating"
      <4>1. Len(Plan!Checks) = 5
        BY DEF Plan!Checks
      <4> QED
        BY <2>2, <4>1 DEF Revalidates, Plan!Look, IInv, PlanInv
    <3>2. looks' \in 0..5 /\ 1..looks' = 1..looks \cup {looks + 1}
      BY <3>1
    <3>3. ASSUME NEW s \in Plan!Subjects, Plan!LookedAt(s)'
          PROVE  Plan!LookedAt(s) \/ s = Plan!Checks[looks + 1]
      BY <3>2, <3>3 DEF Plan!LookedAt
    <3> QED
      BY <3>1, <3>2, <3>3 DEF IInv, PlanInv
  <2>3. ASSUME NEW s \in Plan!Subjects, Drift(s) PROVE PlanInv' /\ UNCHANGED looks
    <3>1. /\ UNCHANGED <<plan, looks>> /\ late \subseteq late'
          /\ Plan!LookedAt(s) => s \in late'
          /\ DOMAIN disk' = Plan!Subjects
          /\ \A t \in Plan!Subjects \ {s} : disk'[t] = disk[t]
      BY <2>3 DEF Drift, Plan!Drift, IInv, PlanInv
    <3>2. \A t \in Plan!Subjects : Plan!LookedAt(t)' <=> Plan!LookedAt(t)
      BY <3>1 DEF Plan!LookedAt
    <3> QED
      BY <3>1, <3>2 DEF IInv, PlanInv
  <2> QED
    BY <2>1, <2>2, <2>3
<1>3. TicketInv' /\ UNCHANGED <<pending, outcome>>
  BY <1>1 DEF IInv, TicketInv, approvalVars
<1>4. UNCHANGED <<pc, result, resolution, startEvents, approvalRow, outcomeEvents, completed>>
  BY <1>1 DEF runVars, auditVars
<1>5. StepInv'
  BY <1>1, <1>2, <1>3, <1>4 DEF IInv, StepInv, Sound, Released, Approved
<1>6. RunnerInv' /\ RecordInv'
  BY <1>1, <1>4 DEF IInv, RunnerInv, RecordInv, ResultIsReal, ReallySucceeded, runnerVars
<1> QED
  BY <1>2, <1>3, <1>5, <1>6 DEF IInv

-----------------------------------------------------------------------------
(* The runner. *)

\* A step of the runner changes neither the plan, the ticket nor the record, and an
\* execution is complete only as its child was.
LEMMA RunnerStep ==
    ASSUME IInv, UNCHANGED <<approvalVars, auditVars, planVars, result, resolution>>,
           pc \in {"validating", "preparing", "executing", "verifying"},
           pc' \in {"preparing", "executing", "verifying", "complete"},
           pc' = "preparing" => looks = 5, RunnerInv'
    PROVE  IInv'
<1>1. TicketInv' /\ UNCHANGED <<pending, outcome>>
  BY DEF IInv, TicketInv, approvalVars
<1>2. PlanInv'
  BY DEF IInv, PlanInv, planVars, Plan!LookedAt
<1>3. UNCHANGED <<startEvents, approvalRow, outcomeEvents, completed, looks>>
  BY DEF auditVars, planVars
<1>4. StepInv'
  BY <1>1, <1>3 DEF IInv, StepInv, Sound, Released, Approved
<1>5. RecordInv'
  BY <1>3 DEF IInv, StepInv, RecordInv, ResultIsReal
<1> QED
  BY <1>1, <1>2, <1>4, <1>5 DEF IInv

\* Everything up to the verified result.
LEMMA RunnerIInv ==
    ASSUME IInv,
           \/ Validated \/ Spawn \/ SpawnFails \/ Timeout \/ ForceKill
           \/ (\E code \in {"zero", "nonzero"}, entries \in Lockfiles : ChildCloses(code, entries))
           \/ \E throws \in BOOLEAN : Verified(throws)
    PROVE  IInv'
<1>1. /\ UNCHANGED <<approvalVars, auditVars, planVars, result, resolution>>
      /\ pc \in {"validating", "preparing", "executing", "verifying"}
      /\ pc' \in {"preparing", "executing", "verifying", "complete"}
  BY DEF Validated, Spawn, SpawnFails, Timeout, ForceKill, ChildCloses, Verified, Goto, runVars
<1>2. Released /\ Released' /\ (Plan!AsApproved => Plan!AsApproved')
  <2>1. Released
    BY <1>1 DEF IInv, StepInv
  <2> QED
    BY <1>1, <2>1 DEF Released, Approved, Sound, approvalVars, auditVars, planVars, Plan!AsApproved
<1>3. CASE Validated
  <2>1. pc' = "preparing" => looks = 5
    <3>1. Len(Plan!Checks) = 5
      BY DEF Plan!Checks
    <3> QED
      BY <1>3, <3>1 DEF Validated, Plan!Holds
  <2>2. RunnerInv'
    BY <1>2, <1>3 DEF IInv, RunnerInv, Validated, Goto
  <2> QED
    BY <1>1, <2>1, <2>2, RunnerStep
<1>4. CASE Spawn
  <2>1. Plan!AsApproved
    BY <1>4, Looked DEF Spawn, IInv, StepInv
  <2>2. RunnerInv'
    BY <1>2, <1>4, <2>1 DEF IInv, RunnerInv, Spawn, Goto
  <2> QED
    BY <1>1, <1>4, <2>2, RunnerStep DEF Spawn, Goto
<1>5. CASE SpawnFails
  <2>1. RunnerInv'
    BY <1>2, <1>5 DEF IInv, RunnerInv, SpawnFails, Goto
  <2> QED
    BY <1>1, <1>5, <2>1, RunnerStep DEF SpawnFails, Goto
<1>6. CASE Timeout \/ ForceKill
  <2>1. pc = "executing" /\ pc' = "executing"
    BY <1>6 DEF Timeout, ForceKill, runVars
  <2>2. RunnerInv'
    BY <1>2, <1>6, <2>1 DEF IInv, RunnerInv, Timeout, ForceKill, Terminate
  <2> QED
    BY <1>1, <2>1, <2>2, RunnerStep
<1>7. CASE \E code \in {"zero", "nonzero"}, entries \in Lockfiles : ChildCloses(code, entries)
  <2>1. /\ pc = "executing" /\ pc' = "verifying" /\ child' = "closed" /\ UNCHANGED <<spawned, termination>>
        /\ execution' = "completed" => exit' = "zero" /\ termination = "none"
    BY <1>7 DEF IInv, RunnerInv, ChildCloses, Goto
  <2>2. RunnerInv'
    BY <1>2, <2>1 DEF IInv, RunnerInv
  <2> QED
    BY <1>1, <2>1, <2>2, RunnerStep
<1>8. CASE \E throws \in BOOLEAN : Verified(throws)
  <2>1. /\ pc = "verifying" /\ pc' = "complete"
        /\ UNCHANGED <<tool, spawned, child, exit, termination, lock>>
        /\ execution' = "completed" => execution = "completed" /\ verification' = VerifyInstallExecution
    BY <1>8 DEF Verified, Goto
  <2>2. execution' = "completed" /\ verification' # "failed" => ReallySucceeded'
    BY <2>1 DEF IInv, RunnerInv, VerifyInstallExecution, Plan!InspectLockfileIdentity, ReallySucceeded
  <2>3. RunnerInv'
    BY <1>2, <2>1, <2>2 DEF IInv, RunnerInv
  <2> QED
    BY <1>1, <2>1, <2>3, RunnerStep
<1> QED
  BY <1>3, <1>4, <1>5, <1>6, <1>7, <1>8

-----------------------------------------------------------------------------
(* The other callbacks. *)

\* A signal, the person, a timer, the clock, the death of the process and the end of the
\* service: the run stays where it is or is dead, and only a ticket may be settled and a
\* running child be asked to stop.
LEMMA OthersIInv ==
    ASSUME IInv,
           \/ Interrupt \/ (\E d \in Approvals!Decisions : HumanDecides(d)) \/ TimerFires
           \/ Tick \/ Crash \/ Close \/ UNCHANGED vars
    PROVE  IInv'
<1>1. /\ UNCHANGED <<planVars, result, resolution, tool, spawned, exit, execution, lock, verification>>
      /\ pc' = pc \/ pc' = "dead"
  BY DEF Interrupt, HumanDecides, TimerFires, Tick, Crash, Close, vars, runVars, runnerVars, Terminate
<1>2. \/ UNCHANGED <<child, termination>>
      \/ pc = "executing" /\ child' = "asked" /\ termination' = "cancelled" /\ pc' = pc
  BY DEF Interrupt, HumanDecides, TimerFires, Tick, Crash, Close, vars, runVars, runnerVars, Terminate
<1>3. TicketsKept
  <2>1. \/ \E d \in Approvals!Decisions : Approvals!Decide(Run, d)
        \/ Approvals!TimerFires(Run) \/ Approvals!Cancel(Run) \/ Approvals!Close
        \/ Approvals!Tick \/ UNCHANGED approvalVars
    BY DEF Interrupt, HumanDecides, TimerFires, Tick, Crash, Close, vars
  <2> QED
    BY <2>1, TicketStep DEF IInv
<1>4. RecordsKept
  <2>1. Audit!Crash \/ UNCHANGED auditVars
    BY DEF Interrupt, HumanDecides, TimerFires, Tick, Crash, Close, vars
  <2> QED
    BY <2>1, QuietRecords
<1>5. PlanInv' /\ UNCHANGED looks /\ (Plan!AsApproved => Plan!AsApproved')
  BY <1>1 DEF IInv, PlanInv, planVars, Plan!LookedAt, Plan!AsApproved
<1>6. Released => Released'
  BY <1>1, <1>3, <1>4 DEF Released, Approved, Sound, TicketsKept, RecordsKept
<1>7. StepInv'
  <2>1. CASE pc' = "dead"
    BY <2>1 DEF StepInv
  <2>2. CASE pc' = pc
    BY <1>1, <1>3, <1>4, <1>5, <1>6, <2>2 DEF IInv, StepInv, Sound, Approved, TicketsKept, RecordsKept
  <2> QED
    BY <1>1, <2>1, <2>2
<1>8. RunnerInv'
  <2>1. execution = "completed" => pc # "executing"
    BY DEF IInv, RunnerInv
  <2> QED
    BY <1>1, <1>2, <1>5, <1>6, <2>1 DEF IInv, RunnerInv, ReallySucceeded
<1>9. RecordInv'
  <2>1. CASE UNCHANGED <<child, termination>>
    BY <1>1, <1>4, <2>1 DEF IInv, RecordInv, RecordsKept, ResultIsReal, ReallySucceeded
  <2>2. CASE pc = "executing"
    BY <1>1, <1>4, <2>2 DEF IInv, StepInv, RecordInv, RecordsKept, ResultIsReal
  <2> QED
    BY <1>2, <2>1, <2>2
<1> QED
  BY <1>3, <1>5, <1>7, <1>8, <1>9 DEF IInv, TicketsKept

-----------------------------------------------------------------------------
\* The invariant holds initially.
LEMMA InitIInv == Init => IInv
<1> SUFFICES ASSUME Init PROVE IInv
  OBVIOUS
<1>1. TicketInv
  BY DEF Init, Approvals!TicketInit, TicketInv
<1>2. PlanInv /\ looks = 0
  BY Looked DEF Init, Plan!Init, PlanInv
<1>3. RecordInv /\ approvalRow[Run] = "none" /\ outcomeEvents[Run] = {}
  BY DEF Init, Audit!RecorderInit, RecordInv, ResultIsReal
<1>4. StepInv
  BY <1>2, <1>3 DEF Init, Approvals!TicketInit, StepInv
<1>5. RunnerInv
  BY DEF Init, RunnerInv
<1> QED
  BY <1>1, <1>2, <1>3, <1>4, <1>5 DEF IInv

\* Every step keeps it.
LEMMA NextIInv == IInv /\ [Next]_vars => IInv'
<1> SUFFICES ASSUME IInv, [Next]_vars PROVE IInv'
  OBVIOUS
<1>1. CASE Step
  <2>1. CASE \E exact \in BOOLEAN, answer \in RegistryAnswers : Resolved(exact, answer)
    BY <2>1, ResolvedIInv
  <2>2. CASE ResolveThrows \/ BeginThrows \/ Throws
    BY <2>2, ThrowsIInv
  <2>3. CASE Plans \/ Revalidates
    BY <2>3, PlanIInv
  <2>4. CASE (\E ok \in BOOLEAN : Planned(ok)) \/ Resume \/ RunnerThrows \/ VerificationThrows
    BY <2>4, ProceedsIInv
  <2>5. CASE Deny \/ BlockUnapproved
    BY <2>5, BlockIInv
  <2>6. CASE \E ttl \in TTLs : Ask(ttl)
    BY <2>6, AskIInv
  <2>7. CASE RecordRequest \/ RecordRequestThrows
    BY <2>7, RecordRequestIInv
  <2>8. CASE RecordOutcome \/ MarkExecuting
    BY <2>8, RecordOutcomeIInv
  <2>9. CASE PlanFailed \/ Unavailable \/ RunnerFailed \/ CompletionFails
    BY <2>9, FailIInv
  <2>10. CASE RecordResult
    BY <2>10, RecordResultIInv
  <2>11. CASE Validated \/ Spawn \/ SpawnFails \/ \E throws \in BOOLEAN : Verified(throws)
    BY <2>11, RunnerIInv
  <2> QED
    BY <1>1, <2>1, <2>2, <2>3, <2>4, <2>5, <2>6, <2>7, <2>8, <2>9, <2>10, <2>11 DEF Step
<1>2. CASE \/ Timeout \/ ForceKill
           \/ \E code \in {"zero", "nonzero"}, entries \in Lockfiles : ChildCloses(code, entries)
  BY <1>2, RunnerIInv
<1>3. CASE \E s \in Plan!Subjects : Drift(s)
  BY <1>3, PlanIInv
<1>4. CASE \/ Interrupt \/ (\E d \in Approvals!Decisions : HumanDecides(d)) \/ TimerFires
           \/ Tick \/ Crash \/ Close \/ UNCHANGED vars
  BY <1>4, OthersIInv
<1> QED
  BY <1>1, <1>2, <1>3, <1>4 DEF Next

\* The invariant: how far the step says that the approval, the plan and the runner have
\* come.
THEOREM Inductive == Spec => []IInv
BY InitIInv, NextIInv, PTL DEF Spec

\* Whatever the registry, npm, the person, the signals and other processes do, a process
\* is spawned at most once, and only for a recorded start, an approved ticket, sound and
\* installable metadata and the directory, the executables and the manifests that were
\* approved.
THEOREM SpawnsAreApproved == Spec => []SpawnedOnlyWhenApproved
<1>1. IInv => SpawnedOnlyWhenApproved
  <2> SUFFICES ASSUME IInv, spawned > 0 PROVE SpawnedOnlyWhenApproved
    BY DEF SpawnedOnlyWhenApproved
  <2>1. spawned = 1 /\ Released /\ Plan!AsApproved
    BY DEF IInv, RunnerInv
  <2>2. answers[Run] = {"approved"}
    BY <2>1 DEF IInv, TicketInv, Released, Approved
  <2> QED
    BY <2>1, <2>2 DEF SpawnedOnlyWhenApproved, Released, Approved, Sound
<1> QED
  BY <1>1, Inductive, PTL

\* A success told to the caller or written in the receipt is that of a process that
\* ended by itself with exit code zero and was verified, and every other finished result
\* has its finished row.
THEOREM ResultsAreReal == Spec => []ResultIsReal
<1>1. IInv => ResultIsReal
  BY DEF IInv, RecordInv
<1> QED
  BY <1>1, Inductive, PTL

\* A run that has returned has left neither a child process nor an open ticket.
THEOREM NothingIsLeft == Spec => []NothingLeftBehind
<1>1. IInv => NothingLeftBehind
  <2> SUFFICES ASSUME IInv, pc = "done" PROVE child \in {"none", "closed"} /\ pending = {}
    BY DEF NothingLeftBehind
  <2>1. child \in {"none", "closed"}
    BY DEF IInv, RunnerInv
  <2>2. Run \notin pending /\ pending \subseteq {Run}
    BY DEF IInv, StepInv, TicketInv
  <2> QED
    BY <2>1, <2>2
<1> QED
  BY <1>1, Inductive, PTL
=============================================================================
