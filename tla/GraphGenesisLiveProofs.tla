------------------------ MODULE GraphGenesisLiveProofs ------------------------
(***************************************************************************)
(* Proofs about a production run of Graph Genesis, for whatever the        *)
(* person, npm, the registry, the signals, the timers and other processes  *)
(* do, and for any number of requests.                                     *)
(*                                                                         *)
(* The owner's step says how far the run has come, but any step may throw  *)
(* into the catch block, which forgets it.  What the steps after the catch *)
(* block need is therefore said of the state itself: of a child that was   *)
(* started, of a success that was attempted, of a row that is complete.    *)
(***************************************************************************)
EXTENDS GraphGenesisLive, Sequences, FiniteSetTheorems, TLAPS

(* The owner's steps, from the last to the first. *)
Late       == {"failing", "shutdown", "recovering", "uprooting", "terminal", "report", "done"}
Committing == {"commit", "closing", "reconciling"}
Removed    == {"prepare"} \cup Committing
Cleaned    == {"cleanup_complete", "removing"} \cup Removed
Output     == {"candidate_output_written", "cleaning"} \cup Cleaned
Inspected  == {"post_state_validated", "compiling", "candidate_compiled", "assembling",
               "candidate_output_intent", "writing"} \cup Output
Ledgered   == {"lock_validation_started", "inspecting"} \cup Inspected
Drained    == {"listener_drained", "complete"} \cup Ledgered
Exited     == {"exited", "draining"} \cup Drained
Attended   == {"started", "npm_spawn_started", "running", "stopping"}
Ran        == Attended \cup {"npm_terminal_observed"}
Spawning   == {"npm_spawn_intent_recorded", "spawn"}
Starting   == {"starting"} \cup Spawning
Authorized == {"authorized", "authorization_finalized", "arm", "broker_armed", "attach"}
Approved   == {"decided", "revalidating", "authorize"} \cup Authorized
Refused    == {"refusing", "refused", "leaving"}
Deciding   == {"request", "awaiting", "resolve", "block"}
Planned    == {"runtime_snapshot_complete", "containment_probe_complete", "plan_ready", "ask"}
Unbound    == {"entering", "capturing", "host", "versions", "initializing", "probing",
               "dashboard", "enveloping", "session"}
Unattached == Unbound \cup {"session_created"} \cup Planned \cup Deciding \cup Refused \cup Approved

Steps == Unattached \cup Starting \cup Ran \cup Exited \cup Late

Logs     == [bound : BOOLEAN, gate : SUBSET Events, late : BOOLEAN]
Npms     == [requested : BOOLEAN, child : {"none", "running", "asked", "killed", "closed"},
             exit : {"none", "zero", "nonzero"}, stopped : StopReasons \cup {"none"},
             status : StopReasons \cup {"none", "completed"}]
Files    == [root : BOOLEAN, postState : BOOLEAN, cleanup : BOOLEAN, output : BOOLEAN]
Outcomes == [status : Statuses, read : BOOLEAN]
Verdicts == [summary : ReadStatuses, cleanupFailed : BOOLEAN, attempted : BOOLEAN,
             reconciled : BOOLEAN, unknown : BOOLEAN, result : Outcomes]

\* The owner's place, and its records.
RecordsInv ==
    /\ step \in Steps /\ log \in Logs /\ npm \in Npms /\ files \in Files /\ verdict \in Verdicts

\* The ticket: open or settled, an approval with its answer.
TicketInv ==
    /\ pending \subseteq requested /\ requested \subseteq {Run}
    /\ outcome \in [{Run} -> Approvals!Outcomes \cup {Approvals!Unsettled}]
    /\ DOMAIN answers = {Run}
    /\ Run \in pending \/ Run \notin requested =>
         outcome[Run] = Approvals!Unsettled /\ answers[Run] = {}
    /\ outcome[Run] = "approved" => answers[Run] = {"approved"}
    /\ closed => pending = {}

\* The approval service is closed on every way out.
ClosedInv == step \in {"leaving", "reconciling"} \cup (Late \ {"failing"}) => closed

\* What the person has agreed to.
IsApproved   == approvalRow[Run] = "approved" /\ outcome[Run] = "approved"
IsAuthorized == IsApproved /\ \E a \in authEvents[Run] : a.status = "authorized"

\* The row of the run; a handle is terminal only with a finished row.
RowsInv ==
    /\ DOMAIN approvalRow = {Run} /\ DOMAIN authEvents = {Run}
    /\ DOMAIN status = {Run} /\ DOMAIN outcomeEvents = {Run}
    /\ terminal \subseteq completed

\* The approval behind a run that is going on, and behind a child.
ApprovalInv ==
    /\ step \in {"resolve", "block"} => outcome[Run] # Approvals!Unsettled
    /\ step \in Approved => IsApproved
    /\ step \in Authorized \cup Starting \/ npm.child # "none" => IsAuthorized

\* The evidence behind a run that is going on, and behind a child.
GateInv ==
    /\ step \in {"ask"} \cup Deciding \cup Approved \cup Starting \/ npm.child # "none" =>
         "plan_ready" \in log.gate
    /\ step \in {"attach"} \cup Starting \/ npm.child # "none" => "broker_armed" \in log.gate
    /\ step = "spawn" \/ npm.child # "none" => "npm_spawn_intent_recorded" \in log.gate

Used(S) == \A s \in S : snapshot[s] = "used"

\* What has been looked at for the last time: the steps before the catch block say it, and the
\* child keeps it.
PlanInv ==
    /\ DOMAIN snapshot = Plan!Subjects
    /\ looked \in 0..8
    /\ step \notin DOMAIN Plan!Looks \cup {"capturing"} => looked = 0
    /\ step = "starting" => \A i \in 1..looked : snapshot[Plan!Pair[i]] = "used"
    /\ step \in Spawning \cup Ran \cup Exited \/ npm.child # "none" => Used(Plan!Bound)
    /\ step \notin Unbound \cup Late => Used({"database"})
    /\ step \in Inspected \/ (step = "inspecting" /\ looked = 2) => Used({"protected"})
    /\ step \in Output \/ (step = "writing" /\ looked = 3) => Used({"parent"})

\* The supervised process.
NpmInv ==
    /\ step \in Unattached => ~npm.requested
    /\ npm.child # "none" \/ step \in Starting \cup Ran \cup Exited => npm.requested
    /\ step \in Unattached \cup Starting => npm.child = "none" /\ npm.status = "none"
    /\ step \in Ran => npm.child # "none" 
    /\ step \in {"started", "npm_spawn_started"} => npm.child = "running"
    /\ ChildIsLive => step \in Attended \cup Late
    /\ npm.status = "completed" =>
         npm.child = "closed" /\ npm.exit = "zero" /\ npm.stopped = "none"
    /\ step \in Ledgered => npm.status = "completed"

\* The files; a live child keeps root and workspace, a success that was attempted has neither.
FilesInv ==
    /\ step \notin {"entering"} \cup Removed \cup Late => files.root
    /\ step \notin Cleaned \cup Late => ~files.cleanup
    /\ step \notin Inspected \cup Late => ~files.postState
    /\ step \in Removed => ~files.root
    /\ step \in Cleaned => files.cleanup
    /\ step \in Output => files.output
    /\ ChildIsLive => files.root /\ ~files.cleanup /\ ~files.postState /\ ~verdict.attempted
    /\ step \notin Late => ~verdict.cleanupFailed
    /\ verdict.attempted =>
         /\ step \in Committing \cup Late
         /\ npm.requested /\ files.cleanup /\ ~files.root /\ ~verdict.cleanupFailed
    /\ step \in Committing => verdict.attempted

\* A request has an ordinal of its own from its admission on.
HandlersInv ==
    /\ pc \in [Requests -> Broker!HandlerSteps] /\ started \in Nat
    /\ seq \in [Requests -> Nat] /\ size \in [Requests -> Nat]
    /\ \A r \in Requests :
         /\ seq[r] <= started
         /\ pc[r] = "none" => seq[r] = 0
         /\ pc[r] \in {"intent", "fetching", "validating"} => seq[r] # 0
         /\ pc[r] \in {"fetching", "validating"} => seq[r] \in fetched
         /\ pc[r] = "notifying" => failed
    /\ \A r1, r2 \in Requests : seq[r1] # 0 /\ seq[r1] = seq[r2] => r1 = r2

\* Entries are of different requests that were read and have ended.
EntriesInv ==
    /\ validated \subseteq fetched /\ fetched \subseteq observed /\ fetched \subseteq 1..started
    /\ IsFiniteSet(entries)
    /\ \A e \in entries : /\ e.seq \in fetched
                          /\ \E r \in Requests : pc[r] = "done" /\ seq[r] = e.seq
    /\ \A e1, e2 \in entries : e1.seq = e2.seq => e1 = e2

SessionInv ==
    /\ state \in Broker!States
    /\ failed => state \in {"failing", "incomplete"}
    /\ notifying => failed
    /\ ledger # Broker!NoLedger =>
         /\ state = "complete" /\ ledger.count = started
         /\ Cardinality(entries) = started
    /\ server # "listening" => ~attached
    /\ server = "drained" => \A r \in Requests : ~Broker!InService(r)

\* How the session goes with the run.
BrokerInv ==
    /\ HandlersInv /\ EntriesInv /\ SessionInv
    /\ ~npm.requested => /\ ~failed /\ ~attached /\ ledger = Broker!NoLedger
                         /\ \A r \in Requests : ~Broker!InService(r)
    /\ fetched # {} \/ (\E r \in Requests : pc[r] = "intent") => npm.child # "none"
    /\ step \in {"refused", "leaving", "draining"} \cup Drained \cup (Late \ {"failing"}) =>
         server # "listening"
    /\ step \in Drained => server = "drained"
    /\ step \in Ledgered => ledger # Broker!NoLedger
    /\ step = "done" => \A r \in Requests : pc[r] # "intent"

\* What a success means, and what was durable when it was.
Succeeded ==
    /\ verdict.attempted /\ npm.status = "completed"
    /\ server = "drained" /\ ledger # Broker!NoLedger
    /\ observed # {} /\ validated = observed /\ ~log.late
    /\ files.output /\ Used(Plan!Subjects)

\* The row is complete only for a success, and finished where the result will be certain.
RowInv ==
    /\ step = "commit" => Succeeded
    /\ status[Run] = "completed" =>
         /\ step \in {"closing", "reconciling"} \cup Late
         /\ outcomeEvents[Run] # {} /\ Run \in completed
         /\ Succeeded
    /\ step \in Refused => Run \in completed
    /\ step = "report" => (log.bound /\ ~verdict.unknown => Run \in completed)
    /\ step = "report" /\ verdict.attempted => verdict.unknown

\* The result, once it is returned.
VerdictInv ==
    /\ Returned => step = "done"
    /\ step = "done" => /\ fetched # {} => verdict.result.read
                        /\ ChildIsLive => verdict.result.status = "quarantined"
                        /\ verdict.result.status = "complete" => status[Run] = "completed"
                        /\ ResultIsRecorded

IInv ==
    /\ RecordsInv /\ TicketInv /\ ClosedInv /\ RowsInv /\ ApprovalInv /\ GateInv /\ PlanInv
    /\ NpmInv /\ FilesInv /\ BrokerInv /\ RowInv /\ VerdictInv

USE DEF Approvals!Outcomes, Approvals!Decisions, Approvals!Unsettled, Late, Committing, Removed,
        Cleaned, Output, Inspected, Ledgered, Drained, Exited, Attended, Ran, Spawning, Starting,
        Authorized, Approved, Refused, Deciding, Planned, Unbound, Unattached, Steps,
        ChildIsLive

-----------------------------------------------------------------------------
(* The actions, in groups. *)

Prepares == CreateRoot \/ Capture \/ ProbeHost \/ ProbeVersions \/ Initialize
            \/ ProbeContainment \/ Bind
Asks     == (\E ttl \in TTLs : Ask(ttl)) \/ RecordRequest \/ Resume \/ Resolve \/ Block
            \/ Decided \/ Authorize
Starts   == Arm \/ BrokerArmed \/ Attach \/ Spawn \/ RecordStart \/ WaitExpires \/ RecordExit
Finishes == Drain \/ Complete \/ Inspect \/ Compile \/ Assemble \/ WriteArtifact
            \/ CleanWorkspace \/ RemoveRoot \/ PrepareTerminal \/ Commit \/ Reconcile
Catches  == Catch \/ Recover \/ RecordFailure \/ Report
People   == Interrupt \/ (\E d \in Approvals!Decisions : HumanDecides(d)) \/ TimerFires \/ Tick
Child    == (\E reason \in StopReasons \ {"cancelled"} : StopChild(reason)) \/ ForceKill
            \/ \E code \in {"zero", "nonzero"} : ChildCloses(code)
Serves   == (\E r \in Requests : Request(r) \/ Respond(r) \/ Handle(r)) \/ BrokerSettles
Drifts   == \E s \in Plan!Subjects : Drift(s)

\* terminate(): the child is asked to stop.
Asked(reason) ==
    /\ npm.child = "running" /\ npm'.child = "asked" /\ npm'.stopped = reason
    /\ npm'.requested = npm.requested /\ npm'.exit = npm.exit /\ npm'.status = npm.status

\* A child that terminate() reaches has been asked to stop, and why.
LEMMA TerminateEffect ==
    ASSUME RecordsInv, NEW reason, Terminate(reason)
    PROVE  Asked(reason)
BY DEF RecordsInv, Npms, Terminate, Asked

\* controller.abort() reaches the child only while the supervisor waits for it.
LEMMA AbortEffect ==
    ASSUME RecordsInv, AbortController
    PROVE  UNCHANGED npm \/ (step = "running" /\ Asked("cancelled"))
BY TerminateEffect DEF AbortController

\* How the supervised process goes on.
LEMMA ChildEffect ==
    ASSUME RecordsInv
    PROVE  /\ Attach => /\ npm'.requested /\ npm'.child = npm.child /\ npm'.exit = npm.exit
                         /\ npm'.stopped = npm.stopped /\ npm'.status = npm.status
           /\ ForceKill => /\ npm'.child = "killed" /\ npm'.stopped = npm.stopped
                            /\ npm'.requested = npm.requested /\ npm'.exit = npm.exit
                            /\ npm'.status = npm.status
BY DEF RecordsInv, Npms, Attach, ForceKill

\* What the step says of the child stays true: it starts once, and closes before the run
\* goes on to its success.
LEMMA NpmStep ==
    ASSUME IInv, Next
    PROVE  NpmInv'
<1> USE DEF Goto, Throw, Proceed, Rejected, facts, flow
<1>0. NpmInv /\ RecordsInv
  BY DEF IInv
<1>1. CASE Prepares
  BY <1>0, <1>1 DEF NpmInv, Prepares, CreateRoot, Capture, ProbeHost, ProbeVersions, Initialize,
                    ProbeContainment, Bind
<1>2. CASE Record \/ CreateSession
  BY <1>0, <1>2 DEF NpmInv, Record, CreateSession, AfterRecord
<1>3. CASE OperationFails \/ LookAgain
  BY <1>0, <1>3 DEF NpmInv, OperationFails, LookAgain
<1>4. CASE Asks
  BY <1>0, <1>4 DEF NpmInv, Asks, Ask, RecordRequest, Resume, Resolve, Block, Decided, Authorize, FailCall
<1>5. CASE Refuse
  BY <1>0, <1>5 DEF NpmInv, Refuse
<1>6. CASE Starts
  <2>1. CASE Arm \/ BrokerArmed \/ WaitExpires \/ RecordExit
    BY <1>0, <2>1 DEF NpmInv, Arm, BrokerArmed, WaitExpires, RecordExit
  <2>2. CASE Attach
    BY <1>0, <2>2, ChildEffect DEF NpmInv, Attach
  <2>3. CASE Spawn
    <3>1. /\ npm'.requested = npm.requested /\ npm'.exit = npm.exit /\ npm'.stopped = npm.stopped
          /\ \/ npm'.child = npm.child /\ npm'.status = npm.status
             \/ npm'.child = npm.child /\ npm'.status \in {"cancelled", "failed"} /\ step' = "exited"
             \/ npm'.child = "running" /\ npm'.status = npm.status /\ step' = "started"
          /\ step \in Starting /\ step' \in Spawning \cup {"exited", "started", "failing"}
          /\ step' = "started" => npm'.child = "running"
      BY <1>0, <2>3 DEF Spawn, RecordsInv, Npms
    <3> QED
      BY <1>0, <3>1 DEF NpmInv
  <2>4. CASE RecordStart
    <3>1. UNCHANGED npm \/ (Asked("failed") /\ step' = "stopping")
      <4>1. Terminate("failed") => Asked("failed")
        BY <1>0, TerminateEffect
      <4> QED
        BY <2>4, <4>1 DEF RecordStart
    <3> QED
      BY <1>0, <2>4, <3>1 DEF NpmInv, RecordStart, Asked
  <2> QED
    BY <1>6, <2>1, <2>2, <2>3, <2>4 DEF Starts
<1>7. CASE Finishes
  BY <1>0, <1>7 DEF NpmInv, Finishes, Drain, Complete, Inspect, Compile, Assemble, WriteArtifact,
     CleanWorkspace, RemoveRoot, PrepareTerminal, Commit, Reconcile
<1>8. CASE Catches
  BY <1>0, <1>8 DEF NpmInv, Catches, Catch, Recover, RecordFailure, Report
<1>9. CASE People
  <2>1. UNCHANGED step /\ (UNCHANGED npm \/ (step = "running" /\ Asked("cancelled")))
    BY <1>0, <1>9, AbortEffect DEF People, Interrupt, HumanDecides, TimerFires, Tick
  <2> QED
    BY <1>0, <2>1 DEF NpmInv, Asked
<1>10. CASE Child
  <2>1. ASSUME NEW reason, StopChild(reason)
        PROVE  NpmInv'
    <3>1. UNCHANGED step /\ step = "running" /\ Asked(reason)
      BY <1>0, <2>1, TerminateEffect DEF StopChild
    <3> QED
      BY <1>0, <3>1 DEF NpmInv, Asked
  <2>2. CASE ForceKill
    BY <1>0, <2>2, ChildEffect DEF NpmInv, ForceKill
  <2>3. ASSUME NEW code \in {"zero", "nonzero"}, ChildCloses(code)
        PROVE  NpmInv'
    <3>1. /\ npm'.child = "closed" /\ npm'.requested = npm.requested /\ npm'.stopped = npm.stopped
          /\ npm'.exit = code
          /\ npm'.status = IF step = "running" THEN ExitStatus(code) ELSE npm.status
      BY <1>0, <2>3 DEF ChildCloses, RecordsInv, Npms
    <3>2. ExitStatus(code) = "completed" => code = "zero" /\ npm.stopped = "none"
      BY <1>0 DEF ExitStatus, RecordsInv, Npms, StopReasons
    <3>3. /\ ChildIsLive /\ step \notin {"started", "npm_spawn_started"}
          /\ \/ step = "running" /\ step' = "npm_terminal_observed"
             \/ step = "stopping" /\ step' = "failing"
             \/ step \notin {"running", "stopping"} /\ step' = step
      BY <2>3 DEF ChildCloses, AtAwait, Waits
    <3> QED
      BY <1>0, <3>1, <3>2, <3>3 DEF NpmInv
  <2> QED
    BY <1>10, <2>1, <2>2, <2>3 DEF Child
<1>11. CASE Serves
  <2>1. UNCHANGED step /\ (UNCHANGED npm \/ (step = "running" /\ Asked("cancelled")))
    BY <1>0, <1>11, AbortEffect DEF Serves, Request, Respond, Handle, BrokerSettles, OnFailure
  <2> QED
    BY <1>0, <2>1 DEF NpmInv, Asked
<1>12. CASE Drifts
  BY <1>0, <1>12 DEF NpmInv, Drifts, Drift
<1> QED
  BY <1>1, <1>2, <1>3, <1>4, <1>5, <1>6, <1>7, <1>8, <1>9, <1>10, <1>11, <1>12
  DEF Next, Owner, OwnerStep, Prepares, Asks, Starts, Finishes, Catches, People, Child, Serves, Drifts

\* Updates of the records.
LEMMA NpmUpdate ==
    ASSUME npm \in Npms
    PROVE  /\ [npm EXCEPT !.requested = TRUE] \in Npms
           /\ [npm EXCEPT !.child = "running"] \in Npms
           /\ [npm EXCEPT !.child = "killed"] \in Npms
           /\ \A st \in {"cancelled", "failed"} : [npm EXCEPT !.status = st] \in Npms
           /\ \A reason \in StopReasons : [npm EXCEPT !.stopped = reason, !.child = "asked"] \in Npms
           /\ \A code \in {"zero", "nonzero"} : [npm EXCEPT !.child = "closed", !.exit = code] \in Npms
           /\ \A code \in {"zero", "nonzero"}, st \in StopReasons \cup {"completed"} :
                [npm EXCEPT !.child = "closed", !.exit = code, !.status = st] \in Npms
BY DEF Npms, StopReasons

\* Updates of what the owner knows of the end.
LEMMA VerdictUpdate ==
    ASSUME verdict \in Verdicts
    PROVE  /\ \A sum \in ReadStatuses : [verdict EXCEPT !.summary = sum] \in Verdicts
           /\ [verdict EXCEPT !.cleanupFailed = TRUE] \in Verdicts
           /\ [verdict EXCEPT !.attempted = TRUE] \in Verdicts
           /\ \A b \in BOOLEAN : [verdict EXCEPT !.unknown = b] \in Verdicts
           /\ \A b \in BOOLEAN : [verdict EXCEPT !.reconciled = b] \in Verdicts
           /\ \A o \in Outcomes : [verdict EXCEPT !.result = o] \in Verdicts
           /\ \A b \in BOOLEAN, o \in Outcomes :
                [verdict EXCEPT !.reconciled = b, !.result = o] \in Verdicts
BY DEF Verdicts

\* safeResult() makes a result.
LEMMA ResultType ==
    ASSUME NEW st \in Statuses PROVE Result(st) \in Outcomes
BY DEF Result, Outcomes

\* The owner's records keep their types.
LEMMA RecordsStep ==
    ASSUME IInv, Next
    PROVE  RecordsInv'
<1> USE DEF Goto, Throw, Proceed, Rejected, facts, flow
<1>0. /\ RecordsInv
      /\ step \in Steps /\ log \in Logs /\ npm \in Npms /\ files \in Files /\ verdict \in Verdicts
  BY DEF IInv, RecordsInv
<1>1. CASE Prepares
  BY <1>0, <1>1 DEF RecordsInv, Files, Prepares, CreateRoot, Capture, ProbeHost, ProbeVersions,
                    Initialize, ProbeContainment, Bind
<1>2. CASE Record \/ CreateSession
  <2>1. log' \in Logs
    <3>1. CASE Record
      <4>1. step \in Events
        BY <3>1 DEF Record, Events
      <4> QED
        BY <1>0, <3>1, <4>1 DEF Record, Noted, Logs
    <3>2. CASE CreateSession
      BY <1>0, <3>2 DEF CreateSession, Logs
    <3> QED
      BY <1>2, <3>1, <3>2
  <2>2. step' \in Steps
    BY <1>2 DEF Record, CreateSession, AfterRecord
  <2> QED
    BY <1>0, <1>2, <2>1, <2>2 DEF RecordsInv, Record, CreateSession
<1>3. CASE OperationFails \/ LookAgain
  <2>1. files' \in Files
    BY <1>0, <1>3 DEF Files, OperationFails, LookAgain
  <2>2. verdict' \in Verdicts
    <3>1. (verdict.reconciled \/ step = "reconciling") \in BOOLEAN
      BY <1>0 DEF Verdicts
    <3> QED
      BY <1>0, <1>3, <3>1, VerdictUpdate DEF OperationFails, LookAgain
  <2> QED
    BY <1>0, <1>3, <2>1, <2>2 DEF RecordsInv, OperationFails, LookAgain
<1>4. CASE Asks
  BY <1>0, <1>4 DEF RecordsInv, Asks, Ask, RecordRequest, Resume, Resolve, Block, Decided,
                    Authorize, FailCall
<1>5. CASE Refuse
  <2>1. verdict' \in Verdicts
    <3>1. Result("not_started") \in Outcomes
      BY ResultType DEF Statuses
    <3> QED
      BY <1>0, <1>5, <3>1, VerdictUpdate DEF Refuse
  <2> QED
    BY <1>0, <1>5, <2>1 DEF RecordsInv, Files, Refuse
<1>6. CASE Starts
  <2>1. npm' \in Npms
    <3>1. CASE Attach \/ Spawn
      BY <1>0, <3>1, NpmUpdate DEF Attach, Spawn, StopReasons
    <3>2. CASE RecordStart
      BY <1>0, <3>2, NpmUpdate DEF RecordStart, Terminate, StopReasons
    <3> QED
      BY <1>0, <1>6, <3>1, <3>2 DEF Starts, Arm, BrokerArmed, WaitExpires, RecordExit
  <2>2. log' \in Logs
    BY <1>0, <1>6 DEF Starts, Arm, BrokerArmed, Attach, Spawn, RecordStart, WaitExpires, RecordExit,
                      Noted, Logs, Events
  <2> QED
    BY <1>0, <1>6, <2>1, <2>2 DEF RecordsInv, Starts, Arm, BrokerArmed, Attach, Spawn, RecordStart,
                                  WaitExpires, RecordExit
<1>7. CASE Finishes
  <2>1. verdict' \in Verdicts
    <3>1. \A st \in {"complete", "outcome_unknown"} : Result(st) \in Outcomes
      BY ResultType DEF Statuses
    <3>2. CASE PrepareTerminal \/ Reconcile
      BY <1>0, <3>1, <3>2, VerdictUpdate DEF PrepareTerminal, Reconcile
    <3> QED
      BY <1>0, <1>7, <3>2 DEF Finishes, Drain, Complete, Inspect, Compile, Assemble, WriteArtifact,
                              CleanWorkspace, RemoveRoot, Commit
  <2>2. files' \in Files
    BY <1>0, <1>7 DEF Files, Finishes, Drain, Complete, Inspect, Compile, Assemble, WriteArtifact,
                      CleanWorkspace, RemoveRoot, PrepareTerminal, Commit, Reconcile
  <2> QED
    BY <1>0, <1>7, <2>1, <2>2 DEF RecordsInv, Finishes, Drain, Complete, Inspect, Compile, Assemble,
         WriteArtifact, CleanWorkspace, RemoveRoot, PrepareTerminal, Commit, Reconcile
<1>8. CASE Catches
  <2>1. verdict' \in Verdicts
    <3>1. CASE Catch \/ Recover \/ RecordFailure
      BY <1>0, <3>1, VerdictUpdate DEF Catch, Recover, RecordFailure, ReadStatus, ReadStatuses
    <3>2. CASE Report
      <4>1. Result("complete") \in Outcomes
        BY ResultType DEF Statuses
      <4>2. \A u : Result(Classify(u)) \in Outcomes
        BY ResultType DEF Statuses, Classify
      <4>3. (verdict.reconciled \/ verdict.attempted) \in BOOLEAN
        BY <1>0 DEF Verdicts
      <4>4. CASE verdict' = [verdict EXCEPT !.reconciled = TRUE, !.result = Result("complete")]
        BY <1>0, <4>1, <4>4, VerdictUpdate
      <4>5. ASSUME NEW u,
                   verdict' = [verdict EXCEPT !.reconciled = @ \/ verdict.attempted,
                                              !.result = Result(Classify(u))]
            PROVE  verdict' \in Verdicts
        BY <1>0, <4>2, <4>3, <4>5, VerdictUpdate
      <4> QED
        BY <3>2, <4>4, <4>5 DEF Report
    <3> QED
      BY <1>8, <3>1, <3>2 DEF Catches
  <2> QED
    BY <1>0, <1>8, <2>1 DEF RecordsInv, Files, Catches, Catch, Recover, RecordFailure, Report
<1>9. CASE People \/ Serves
  <2>1. npm' \in Npms
    <3>1. AbortController => npm' \in Npms
      BY <1>0, NpmUpdate DEF AbortController, Terminate, StopReasons
    <3> QED
      BY <1>0, <1>9, <3>1 DEF People, Interrupt, HumanDecides, TimerFires, Tick, Serves, Request,
                              Respond, Handle, BrokerSettles, OnFailure
  <2>2. log' \in Logs
    <3>1. ASSUME NEW durable, Written(durable) PROVE log' \in Logs
      BY <1>0, <3>1 DEF Written, Logs
    <3> QED
      BY <1>0, <1>9, <3>1 DEF People, Interrupt, HumanDecides, TimerFires, Tick, Serves, Request,
                              Respond, Handle, BrokerSettles
  <2> QED
    BY <1>0, <1>9, <2>1, <2>2 DEF RecordsInv, People, Interrupt, HumanDecides, TimerFires, Tick,
                                  Serves, Request, Respond, Handle, BrokerSettles
<1>10. CASE Child
  <2>1. npm' \in Npms
    <3>1. CASE ForceKill \/ \E reason \in StopReasons \ {"cancelled"} : StopChild(reason)
      BY <1>0, <3>1, NpmUpdate DEF ForceKill, StopChild, Terminate, StopReasons
    <3>2. ASSUME NEW code \in {"zero", "nonzero"}, ChildCloses(code) PROVE npm' \in Npms
      <4>1. ExitStatus(code) \in StopReasons \cup {"completed"}
        BY <1>0 DEF ExitStatus, Npms, StopReasons
      <4>2. [npm EXCEPT !.child = "closed", !.exit = code, !.status = ExitStatus(code)] \in Npms
        BY <1>0, <4>1, NpmUpdate
      <4>3. [npm EXCEPT !.child = "closed", !.exit = code] \in Npms
        BY <1>0, NpmUpdate
      <4> QED
        BY <3>2, <4>2, <4>3 DEF ChildCloses
    <3> QED
      BY <1>10, <3>1, <3>2 DEF Child
  <2> QED
    BY <1>0, <1>10, <2>1 DEF RecordsInv, Child, StopChild, ForceKill, ChildCloses
<1>12. CASE Drifts
  BY <1>0, <1>12 DEF RecordsInv, Drifts, Drift
<1> QED
  BY <1>1, <1>2, <1>3, <1>4, <1>5, <1>6, <1>7, <1>8, <1>9, <1>10, <1>12
  DEF Next, Owner, OwnerStep, Prepares, Asks, Starts, Finishes, Catches, People, Child, Serves, Drifts

\* The process is asked for once, started once from its recorded intent, and its result is
\* final.
LEMMA NpmMoves ==
    ASSUME IInv, Next
    PROVE  /\ npm.requested => npm'.requested
           /\ npm'.requested => npm.requested \/ (step = "attach" /\ step' = "starting")
           /\ npm.child # "none" => npm'.child # "none"
           /\ npm'.child # "none" => npm.child # "none" \/ (step = "spawn" /\ step' = "started")
           /\ ChildIsLive' => ChildIsLive \/ (step = "spawn" /\ step' = "started")
           /\ npm.status = "completed" => npm'.status = "completed"
<1> USE DEF Goto, facts, flow
<1>0. NpmInv /\ RecordsInv /\ npm \in Npms
  BY DEF IInv, RecordsInv
<1>1. \/ UNCHANGED npm \/ Attach \/ Spawn \/ Child
      \/ \E reason \in StopReasons : Terminate(reason)
  <2>1. CASE Prepares \/ Record \/ CreateSession \/ OperationFails \/ LookAgain \/ Asks \/ Refuse
    BY <2>1 DEF Prepares, CreateRoot, Capture, ProbeHost, ProbeVersions, Initialize,
                ProbeContainment, Bind, Record, CreateSession, OperationFails, LookAgain, Asks, Ask,
                RecordRequest, Resume, Resolve, Block, Decided, Authorize, Refuse
  <2>2. CASE Starts \/ Drifts \/ Catches
    BY <2>2 DEF Starts, Arm, BrokerArmed, RecordStart, WaitExpires, RecordExit, Drifts, Drift,
                Catches, Catch, Recover, RecordFailure, Report, StopReasons
  <2>3. CASE Finishes
    BY <2>3 DEF Finishes, Drain, Complete, Inspect, Compile, Assemble, WriteArtifact,
                CleanWorkspace, RemoveRoot, PrepareTerminal, Commit, Reconcile
  <2>4. CASE People \/ Serves
    BY <2>4 DEF People, Interrupt, HumanDecides, TimerFires, Tick, Serves, Request, Respond, Handle,
                BrokerSettles, OnFailure, AbortController, StopReasons
  <2> QED
    BY <2>1, <2>2, <2>3, <2>4
    DEF Next, Owner, OwnerStep, Prepares, Asks, Starts, Finishes, Catches, People, Child, Serves,
        Drifts
<1>2. CASE UNCHANGED npm
  BY <1>2
<1>3. CASE Attach
  BY <1>0, <1>3, ChildEffect DEF Attach
<1>4. CASE Spawn
  BY <1>0, <1>4 DEF Spawn, NpmInv, Npms
<1>5. ASSUME NEW reason \in StopReasons, Terminate(reason)
      PROVE  /\ ChildIsLive /\ npm'.child = "asked" /\ npm'.requested = npm.requested
             /\ npm'.status = npm.status
  BY <1>0, <1>5 DEF Terminate, Npms
<1>6. CASE Child
  <2>1. CASE ForceKill
    BY <1>0, <2>1, ChildEffect DEF ForceKill
  <2>2. ASSUME NEW code \in {"zero", "nonzero"}, ChildCloses(code)
        PROVE  /\ ChildIsLive /\ npm'.child = "closed" /\ npm'.requested = npm.requested
               /\ npm.status # "completed"
    <3>1. ChildIsLive /\ npm'.child = "closed" /\ npm'.requested = npm.requested
      BY <1>0, <2>2 DEF ChildCloses, Npms
    <3>2. npm.status # "completed"
      BY <1>0, <3>1 DEF NpmInv
    <3> QED
      BY <3>1, <3>2
  <2>3. ASSUME NEW reason \in StopReasons \ {"cancelled"}, StopChild(reason)
        PROVE  Terminate(reason)
    BY <2>3 DEF StopChild
  <2>4. CASE \E reason \in StopReasons \ {"cancelled"} : StopChild(reason)
    BY <1>5, <2>3, <2>4
  <2>5. CASE \E code \in {"zero", "nonzero"} : ChildCloses(code)
    BY <2>2, <2>5
  <2> QED
    BY <1>6, <2>1, <2>4, <2>5 DEF Child
<1> QED
  BY <1>1, <1>2, <1>3, <1>4, <1>5, <1>6

\* Root, workspace and artifact are as the step says, and stay away from a live child.
LEMMA FilesStep ==
    ASSUME IInv, Next
    PROVE  FilesInv'
<1> USE DEF Goto, Throw, Proceed, Rejected, facts, flow
<1>0. NpmInv /\ FilesInv /\ RecordsInv /\ files \in Files /\ verdict \in Verdicts
  BY DEF IInv, RecordsInv
<1>a. /\ npm.requested => npm'.requested
      /\ ChildIsLive' => ChildIsLive \/ (step = "spawn" /\ step' = "started")
      /\ ChildIsLive' => step' \in Attended \cup Late
  BY NpmMoves, NpmStep DEF NpmInv
<1>1. CASE Prepares
  <2>1. UNCHANGED verdict /\ files'.cleanup = files.cleanup /\ files'.postState = files.postState
        /\ (step = "entering" \/ files'.root = files.root) /\ (step = "entering" => files'.root)
    BY <1>0, <1>1 DEF Prepares, CreateRoot, Capture, ProbeHost, ProbeVersions, Initialize,
                      ProbeContainment, Bind, Files
  <2>2. step \in Unbound /\ step' \in (Unbound \ {"entering"}) \cup {"failing"}
    BY <1>1 DEF Prepares, CreateRoot, Capture, ProbeHost, ProbeVersions, Initialize,
                ProbeContainment, Bind
  <2> QED
    BY <1>0, <1>a, <2>1, <2>2 DEF FilesInv
<1>2. CASE Record \/ CreateSession
  BY <1>0, <1>2, <1>a DEF FilesInv, Record, CreateSession, AfterRecord
<1>3. CASE OperationFails \/ LookAgain
  <2>1. /\ files'.cleanup = files.cleanup /\ files'.postState = files.postState
        /\ files'.root = files.root /\ (files.output => files'.output)
    BY <1>0, <1>3 DEF OperationFails, LookAgain, Files
  <2>2. verdict'.attempted = verdict.attempted /\ verdict'.cleanupFailed = verdict.cleanupFailed
    BY <1>0, <1>3 DEF OperationFails, LookAgain, Verdicts
  <2>3. step' = "failing" \/ UNCHANGED step
    BY <1>3 DEF OperationFails, LookAgain
  <2>4. step' = "failing" => step \notin Late
    BY <1>3 DEF OperationFails, LookAgain, Plan!Looks
  <2> QED
    BY <1>0, <1>a, <2>1, <2>2, <2>3, <2>4 DEF FilesInv
<1>4. CASE Asks
  BY <1>0, <1>4, <1>a DEF FilesInv, Asks, Ask, RecordRequest, Resume, Resolve, Block, Decided,
                          Authorize, FailCall
<1>5. CASE Refuse
  <2>1. /\ files'.cleanup = files.cleanup /\ files'.postState = files.postState
        /\ verdict'.attempted = verdict.attempted /\ verdict'.cleanupFailed = verdict.cleanupFailed
        /\ step' # "done" => UNCHANGED files
        /\ step \in Refused /\ step' \in Refused \cup {"failing", "done"}
    BY <1>0, <1>5 DEF Refuse, Files, Verdicts
  <2> QED
    BY <1>0, <1>a, <2>1 DEF FilesInv, NpmInv
<1>6. CASE Starts
  BY <1>0, <1>6, <1>a DEF FilesInv, Starts, Arm, BrokerArmed, Attach, Spawn, RecordStart,
                          WaitExpires, RecordExit
<1>7. CASE Finishes
  <2>1. CASE Drain \/ Complete \/ Compile \/ Assemble \/ Commit
    BY <1>0, <1>a, <2>1 DEF FilesInv, Drain, Complete, Compile, Assemble, Commit
  <2>2. CASE Inspect \/ WriteArtifact \/ CleanWorkspace \/ RemoveRoot
    <3>1. UNCHANGED verdict /\ step \in Ledgered /\ step' \in Ledgered \cup {"failing"}
      BY <2>2 DEF Inspect, WriteArtifact, CleanWorkspace, RemoveRoot
    <3>2. ~ChildIsLive'
      BY <1>0, <1>a, <3>1 DEF NpmInv
    <3>3. /\ files'.root = (files.root /\ ~RemoveRoot)
          /\ files'.cleanup = (files.cleanup \/ CleanWorkspace)
          /\ files'.postState = (files.postState \/ Inspect)
          /\ files'.output = (files.output \/ WriteArtifact)
      BY <1>0, <2>2 DEF Inspect, WriteArtifact, CleanWorkspace, RemoveRoot, Files
    <3> QED
      BY <1>0, <1>a, <2>2, <3>1, <3>2, <3>3 DEF FilesInv, Inspect, WriteArtifact, CleanWorkspace, RemoveRoot
  <2>3. CASE PrepareTerminal \/ Reconcile
    <3>1. /\ UNCHANGED files /\ verdict'.cleanupFailed = verdict.cleanupFailed
          /\ verdict'.attempted = (verdict.attempted \/ step' = "commit")
      BY <1>0, <2>3 DEF PrepareTerminal, Reconcile, Verdicts
    <3> QED
      BY <1>0, <1>a, <2>3, <3>1 DEF FilesInv, NpmInv, PrepareTerminal, Reconcile
  <2> QED
    BY <1>7, <2>1, <2>2, <2>3 DEF Finishes
<1>8. CASE Catches
  <2>1. step \in Late /\ step' \in Late /\ verdict'.attempted = verdict.attempted
    BY <1>0, <1>8 DEF Catches, Catch, Recover, RecordFailure, Report, Verdicts
  <2>2. /\ files'.cleanup => files.cleanup \/ CanRecover
        /\ files.cleanup => files'.cleanup
        /\ files'.postState = files.postState
        /\ files'.root => files.root
        /\ files.root => files'.root \/ CanUproot
        /\ verdict'.cleanupFailed => verdict.cleanupFailed \/ CanRecover \/ CanUproot
    BY <1>0, <1>8 DEF Catches, Catch, Recover, RecordFailure, Report, Verdicts, Files
  <2> QED
    BY <1>0, <1>a, <2>1, <2>2 DEF FilesInv, NpmInv, CanRecover, CanUproot
<1>9. CASE People \/ Serves \/ Child \/ Drifts
  <2>1. UNCHANGED <<files, verdict>>
    BY <1>9 DEF People, Interrupt, HumanDecides, TimerFires, Tick, Serves, Request, Respond, Handle,
                BrokerSettles, Child, StopChild, ForceKill, ChildCloses, Drifts, Drift
  <2>2. \/ UNCHANGED step
        \/ step \in Attended /\ step' \in {"npm_terminal_observed", "failing"}
    BY <1>9 DEF People, Interrupt, HumanDecides, TimerFires, Tick, Serves, Request, Respond, Handle,
                BrokerSettles, Child, StopChild, ForceKill, ChildCloses, Drifts, Drift
  <2> QED
    BY <1>0, <1>a, <2>1, <2>2 DEF FilesInv
<1> QED
  BY <1>1, <1>2, <1>3, <1>4, <1>5, <1>6, <1>7, <1>8, <1>9
  DEF Next, Owner, OwnerStep, Prepares, Asks, Starts, Finishes, Catches, People, Child, Serves, Drifts

-----------------------------------------------------------------------------
(* The ticket and the gate. *)

\* Tickets are at most settled.
TicketsKept ==
    /\ TicketInv' /\ (closed => closed')
    /\ outcome[Run] # Approvals!Unsettled => outcome'[Run] = outcome[Run]

\* settle(); an approval comes with its answer.
LEMMA SettleEffect ==
    ASSUME TicketInv, NEW ts, NEW o \in Approvals!Outcomes, Approvals!Settle(ts, o),
           requested' = requested, closed' = closed \/ pending \subseteq ts, closed => closed',
           \/ answers' = answers /\ o # "approved"
           \/ Run \in ts \cap pending /\ answers' = [answers EXCEPT ![Run] = @ \cup {o}]
    PROVE  TicketsKept
<1>1. /\ pending' = pending \ ts /\ DOMAIN answers' = {Run}
      /\ outcome' \in [{Run} -> Approvals!Outcomes \cup {Approvals!Unsettled}]
      /\ outcome'[Run] = IF Run \in ts \cap pending /\ outcome[Run] = Approvals!Unsettled
                         THEN o ELSE outcome[Run]
  BY DEF TicketInv, Approvals!Settle, Approvals!Resolve
<1>2. CASE answers' = answers /\ o # "approved"
  BY <1>1, <1>2 DEF TicketInv, TicketsKept
<1>3. CASE Run \in ts \cap pending /\ answers' = [answers EXCEPT ![Run] = @ \cup {o}]
  <2>1. answers'[Run] = {o} /\ outcome'[Run] = o
    BY <1>1, <1>3 DEF TicketInv
  <2> QED
    BY <1>1, <1>3, <2>1 DEF TicketInv, TicketsKept
<1> QED
  BY <1>2, <1>3

\* What the owner, the person, the timer, the clock and an abort do with the ticket.
LEMMA TicketEffect ==
    ASSUME TicketInv,
           \/ \E d \in Approvals!Decisions : Approvals!Decide(Run, d)
           \/ \E ttl \in TTLs : Approvals!RequestHidden(Run, ttl)
           \/ Approvals!TimerFires(Run) \/ Approvals!Cancel(Run) \/ Approvals!Close
           \/ Approvals!Publish(Run) \/ Approvals!Tick \/ UNCHANGED approvalVars
    PROVE  TicketsKept
<1>1. ASSUME NEW d \in Approvals!Decisions, Approvals!Decide(Run, d)
      PROVE  TicketsKept
  BY <1>1, SettleEffect DEF Approvals!Decide, Approvals!CanDecide, Approvals!EffectiveDecision
<1>2. CASE Approvals!TimerFires(Run) \/ Approvals!Cancel(Run) \/ Approvals!Close
  BY <1>2, SettleEffect DEF Approvals!TimerFires, Approvals!Cancel, Approvals!Close
<1>3. ASSUME NEW ttl \in TTLs, Approvals!RequestHidden(Run, ttl)
      PROVE  TicketsKept
  BY <1>3 DEF Approvals!RequestHidden, Approvals!AddEntry, Approvals!CanRequest, TicketInv, TicketsKept
<1>4. CASE Approvals!Publish(Run) \/ Approvals!Tick \/ UNCHANGED approvalVars
  BY <1>4 DEF Approvals!Publish, Approvals!Tick, approvalVars, TicketInv, TicketsKept
<1> QED
  BY <1>1, <1>2, <1>3, <1>4

\* No step takes back what the person has settled.
LEMMA TicketStep ==
    ASSUME IInv, Next
    PROVE  TicketsKept
<1>0. TicketInv
  BY DEF IInv
<1>1. CASE \/ Prepares \/ Record \/ CreateSession \/ OperationFails \/ LookAgain \/ Starts
           \/ Finishes \/ Child \/ Drifts
  <2>1. UNCHANGED approvalVars \/ Approvals!Close
    BY <1>1 DEF Prepares, CreateRoot, Capture, ProbeHost, ProbeVersions, Initialize,
                ProbeContainment, Bind, Record, CreateSession, OperationFails, LookAgain, Starts,
                Arm, BrokerArmed, Attach, Spawn, RecordStart, WaitExpires, RecordExit, Finishes,
                Drain, Complete, Inspect, Compile, Assemble, WriteArtifact, CleanWorkspace,
                RemoveRoot, PrepareTerminal, Commit, Reconcile, Child, StopChild, ForceKill,
                ChildCloses, Drifts, Drift
  <2> QED
    BY <1>0, <2>1, TicketEffect
<1>2. CASE Asks \/ Refuse \/ Catches
  <2>1. \/ \E ttl \in TTLs : Approvals!RequestHidden(Run, ttl)
        \/ Approvals!Publish(Run) \/ Approvals!Cancel(Run) \/ Approvals!Close
        \/ UNCHANGED approvalVars
    BY <1>2 DEF Asks, Ask, RecordRequest, Resume, Resolve, Block, Decided, Authorize, Refuse,
                Catches, Catch, Recover, RecordFailure, Report
  <2> QED
    BY <1>0, <2>1, TicketEffect
<1>3. CASE People \/ Serves
  <2>1. \/ \E d \in Approvals!Decisions : Approvals!Decide(Run, d)
        \/ Approvals!TimerFires(Run) \/ Approvals!Cancel(Run) \/ Approvals!Tick
        \/ UNCHANGED approvalVars
    BY <1>3 DEF People, Interrupt, HumanDecides, TimerFires, Tick, Serves, Request, Respond, Handle,
                BrokerSettles, OnFailure, AbortController
  <2> QED
    BY <1>0, <2>1, TicketEffect
<1> QED
  BY <1>1, <1>2, <1>3
  DEF Next, Owner, OwnerStep, Prepares, Asks, Starts, Finishes, Catches, People, Child, Serves, Drifts

\* The approval service is closed on every way out.
LEMMA ClosedStep ==
    ASSUME IInv, Next
    PROVE  ClosedInv'
<1> USE DEF Goto, Throw, Proceed, Rejected, facts, flow
<1>0. ClosedInv /\ (closed => closed')
  BY TicketStep DEF IInv, TicketsKept
<1>1. CASE Refuse \/ Reconcile \/ Catches
  BY <1>0, <1>1 DEF ClosedInv, Refuse, Reconcile, Catches, Catch, Recover, RecordFailure, Report,
                    Approvals!Close
<1>2. CASE Prepares \/ Record \/ CreateSession \/ OperationFails \/ LookAgain \/ Asks
  BY <1>0, <1>2 DEF ClosedInv, Prepares, CreateRoot, Capture, ProbeHost, ProbeVersions, Initialize,
                    ProbeContainment, Bind, Record, AfterRecord, CreateSession, OperationFails,
                    LookAgain, Asks, Ask, RecordRequest, Resume, Resolve, Block, Decided, Authorize,
                    FailCall
<1>3. CASE Starts \/ Finishes
  BY <1>0, <1>1, <1>3 DEF ClosedInv, Starts, Arm, BrokerArmed, Attach, Spawn, RecordStart,
                    WaitExpires, RecordExit, Finishes, Drain, Complete, Inspect, Compile, Assemble,
                    WriteArtifact, CleanWorkspace, RemoveRoot, PrepareTerminal, Commit
<1>4. CASE People \/ Child \/ Serves \/ Drifts
  BY <1>0, <1>4 DEF ClosedInv, People, Interrupt, HumanDecides, TimerFires, Tick, Child, StopChild,
                    ForceKill, ChildCloses, Serves, Request, Respond, Handle, BrokerSettles, Drifts,
                    Drift
<1> QED
  BY <1>1, <1>2, <1>3, <1>4
  DEF Next, Owner, OwnerStep, Prepares, Asks, Starts, Finishes, Catches, People, Child, Serves, Drifts

\* The gate grows, and holds what was recorded on the way to the spawn.
LEMMA GateStep ==
    ASSUME IInv, Next
    PROVE  GateInv' /\ log.gate \subseteq log'.gate
<1> USE DEF Goto, Throw, Proceed, Rejected, facts, flow
<1>0. GateInv /\ log \in Logs
  BY DEF IInv, RecordsInv
<1>1. npm'.child # "none" => npm.child # "none" \/ step = "spawn"
  BY NpmMoves
<1>2. CASE Record \/ BrokerArmed \/ RecordStart \/ RecordExit
  <2>1. UNCHANGED log \/ log'.gate = log.gate \cup {step}
    BY <1>0, <1>2 DEF Record, BrokerArmed, RecordStart, RecordExit, Noted, Logs
  <2>2. step' = "failing" \/ step = "started" \/ log'.gate = log.gate \cup {step} \/ step' = "stopping"
    BY <1>0, <1>2 DEF Record, BrokerArmed, RecordStart, RecordExit, Noted, Logs
  <2> QED
    BY <1>0, <1>1, <1>2, <2>1, <2>2 DEF GateInv, Record, AfterRecord, BrokerArmed, RecordStart, RecordExit
<1>3. CASE CreateSession \/ Serves
  <2>1. log'.gate = log.gate
    <3>1. ASSUME NEW durable, Written(durable) PROVE log'.gate = log.gate
      BY <1>0, <3>1 DEF Written, Logs
    <3> QED
      BY <1>0, <1>3, <3>1 DEF CreateSession, Logs, Serves, Request, Respond, Handle, BrokerSettles
  <2> QED
    BY <1>0, <1>1, <1>3, <2>1 DEF GateInv, CreateSession, Serves, Request, Respond, Handle, BrokerSettles
<1>4. CASE Prepares \/ OperationFails \/ LookAgain \/ Asks \/ Refuse
  BY <1>0, <1>1, <1>4 DEF GateInv, Prepares, CreateRoot, Capture, ProbeHost, ProbeVersions,
        Initialize, ProbeContainment, Bind, OperationFails, LookAgain, Asks, Ask, RecordRequest,
        Resume, Resolve, Block, Decided, Authorize, FailCall, Refuse
<1>5. CASE Starts \/ Finishes \/ Catches
  BY <1>0, <1>1, <1>2, <1>5 DEF GateInv, Starts, Arm, Attach, Spawn, WaitExpires, Finishes,
        Drain, Complete, Inspect, Compile, Assemble, WriteArtifact, CleanWorkspace, RemoveRoot,
        PrepareTerminal, Commit, Reconcile, Catches, Catch, Recover, RecordFailure, Report
<1>6. CASE People \/ Child \/ Drifts
  BY <1>0, <1>1, <1>6 DEF GateInv, People, Interrupt, HumanDecides, TimerFires, Tick, Child,
        StopChild, ForceKill, ChildCloses, Drifts, Drift
<1> QED
  BY <1>2, <1>3, <1>4, <1>5, <1>6
  DEF Next, Owner, OwnerStep, Prepares, Asks, Starts, Finishes, Catches, People, Child, Serves, Drifts

-----------------------------------------------------------------------------
(* What the plan binds. *)

\* The operations that look, and what they look at.
LEMMA LookDomain ==
    /\ DOMAIN Plan!Looks = {"versions", "probing", "revalidating", "starting", "inspecting", "writing"}
    /\ Plan!Looks["starting"] = Plan!Pair /\ Len(Plan!Pair) = 8
    /\ Plan!Looks["inspecting"] = << "protected", "protected" >>
    /\ Plan!Looks["writing"] = << "parent", "parent", "parent" >>
    /\ Len(Plan!Looks["inspecting"]) = 2 /\ Len(Plan!Looks["writing"]) = 3
    /\ Len(Plan!Looks["starting"]) = 8
    /\ Len(Plan!Looks["versions"]) = 3 /\ Len(Plan!Looks["probing"]) = 4
    /\ Len(Plan!Looks["revalidating"]) = 8 /\ Len(Plan!Captures) = 7
BY DEF Plan!Looks, Plan!Pair, Plan!ProtectedLooks, Plan!ParentLooks, Plan!VersionLooks,
       Plan!ProbeLooks, Plan!Captures

\* The pair is everything the plan binds, each once.
LEMMA PairIsBound ==
    /\ \A s \in Plan!Bound : \E i \in 1..8 : Plan!Pair[i] = s
    /\ \A i \in 1..8, j \in 1..8 : Plan!Pair[i] = Plan!Pair[j] => i = j
    /\ \A i \in 1..8 : Plan!Pair[i] \in Plan!Subjects
<1>1. /\ Plan!Pair[1] = "node" /\ Plan!Pair[2] = "npm_cli" /\ Plan!Pair[3] = "sandbox_exec"
      /\ Plan!Pair[4] = "broker_runtime" /\ Plan!Pair[5] = "probe_runtime"
      /\ Plan!Pair[6] = "npm_tree" /\ Plan!Pair[7] = "broker_tree" /\ Plan!Pair[8] = "workspace"
  BY DEF Plan!Pair
<1> QED
  BY <1>1 DEF Plan!Bound, Plan!Subjects, Plan!Files, Plan!Trees

\* Nothing is used any more, and nothing that was used changes.
UsedKept ==
    /\ DOMAIN snapshot' = DOMAIN snapshot
    /\ \A s \in Plan!Subjects : snapshot[s] = "used" => snapshot'[s] = "used"

\* A look leaves its subject used if it is the last one.
LEMMA LookEffect ==
    ASSUME PlanInv, step \in DOMAIN Plan!Looks, Plan!Look(step)
    PROVE  /\ UsedKept /\ looked' = looked + 1 /\ looked < Len(Plan!Looks[step])
           /\ step = "starting" => snapshot'[Plan!Pair[looked + 1]] = "used"
           /\ step = "inspecting" /\ looked = 1 => snapshot'["protected"] = "used"
           /\ step = "writing" /\ looked = 2 => snapshot'["parent"] = "used"
<1> DEFINE subject == Plan!Subject(step)
<1>1. /\ looked' = looked + 1 /\ looked < Len(Plan!Looks[step]) /\ snapshot[subject] = "held"
      /\ snapshot' = [snapshot EXCEPT ![subject] = IF Plan!LastLook(step) THEN "used" ELSE @]
  BY DEF Plan!Look, Plan!Unchanged
<1>2. subject = Plan!Looks[step][looked + 1]
  BY DEF Plan!Subject
<1> HIDE DEF subject
<1>3. UsedKept
  BY <1>1 DEF UsedKept
<1>4. ASSUME step = "starting" PROVE snapshot'[Plan!Pair[looked + 1]] = "used"
  <2>1. looked \in 0..7 /\ looked + 1 \in 1..8
    BY <1>1, <1>4, LookDomain DEF PlanInv
  <2>2. subject = Plan!Pair[looked + 1] /\ subject \in DOMAIN snapshot
    BY <1>2, <1>4, <2>1, LookDomain, PairIsBound DEF PlanInv
  <2>3. Plan!LastLook(step)
    <3>1. \A i \in looked + 2 .. 8 : Plan!Pair[i] # Plan!Pair[looked + 1]
      BY <2>1, PairIsBound
    <3> QED
      BY <1>2, <1>4, <2>2, <3>1, LookDomain DEF Plan!LastLook, Plan!LastLooks, subject
  <2> QED
    BY <1>1, <2>2, <2>3
<1>5. ASSUME \/ step = "inspecting" /\ looked = 1
             \/ step = "writing" /\ looked = 2
      PROVE  snapshot'[IF step = "inspecting" THEN "protected" ELSE "parent"] = "used"
  <2>1. subject = IF step = "inspecting" THEN "protected" ELSE "parent"
    BY <1>2, <1>5, LookDomain
  <2>2. Plan!LastLook(step)
    BY <1>5, LookDomain DEF Plan!LastLook, Plan!LastLooks
  <2>3. subject \in DOMAIN snapshot
    BY <2>1 DEF PlanInv, Plan!Subjects
  <2> QED
    BY <1>1, <2>1, <2>2, <2>3
<1> QED
  BY <1>1, <1>3, <1>4, <1>5

\* Once the row is begun, the plan is only looked at, and changed by others where it was not
\* used.
LEMMA UsedStep ==
    ASSUME IInv, Next, step \notin Unbound
    PROVE  UsedKept
<1>0. PlanInv
  BY DEF IInv
<1>1. CASE UNCHANGED planVars
  BY <1>1 DEF UsedKept, planVars
<1>2. CASE Prepares
  BY <1>2 DEF Prepares, CreateRoot, Capture, ProbeHost, ProbeVersions, Initialize,
              ProbeContainment, Bind
<1>3. CASE Record \/ Asks \/ Refuse
  BY <1>1, <1>3 DEF Record, Asks, Ask, RecordRequest, Resume, Resolve, Block, Decided, Authorize,
              Refuse, UsedKept, Plan!Checked
<1>4. CASE CreateSession \/ OperationFails
  BY <1>1, <1>4 DEF CreateSession, OperationFails, UsedKept, Plan!Abandoned
<1>5. CASE LookAgain
  BY <1>0, <1>5, LookEffect DEF LookAgain, Plan!Mismatch, UsedKept
<1>6. CASE Starts \/ Catches
  BY <1>1, <1>6 DEF Starts, Arm, BrokerArmed, Attach, Spawn, RecordStart, WaitExpires, RecordExit,
              Catches, Catch, Recover, RecordFailure, Report, UsedKept, Plan!Checked
<1>7. CASE Finishes
  BY <1>1, <1>7 DEF Finishes, Drain, Complete, Inspect, Compile, Assemble, WriteArtifact,
              CleanWorkspace, RemoveRoot, PrepareTerminal, Commit, Reconcile, UsedKept, Plan!Checked
<1>8. CASE People \/ Child \/ Serves
  BY <1>1, <1>8 DEF People, Interrupt, HumanDecides, TimerFires, Tick, Child, StopChild, ForceKill,
              ChildCloses, Serves, Request, Respond, Handle, BrokerSettles
<1>9. CASE Drifts
  BY <1>9 DEF Drifts, Drift, Plan!Drift, UsedKept
<1> QED
  BY <1>2, <1>3, <1>4, <1>5, <1>6, <1>7, <1>8, <1>9
  DEF Next, Owner, OwnerStep, Prepares, Asks, Starts, Finishes, Catches, People, Child, Serves, Drifts

\* What the run relies on has been looked at for the last time where the step says so.
LEMMA PlanStep ==
    ASSUME IInv, Next
    PROVE  PlanInv'
<1> USE DEF Goto, Throw, Proceed, Rejected, facts, flow
<1>0. PlanInv /\ NpmInv
  BY DEF IInv
<1>a. npm'.child # "none" => npm.child # "none" \/ (step = "spawn" /\ step' = "started")
  BY NpmMoves
<1>b. Plan!Bound \subseteq Plan!Subjects /\ {"database", "protected", "parent"} \subseteq Plan!Subjects
  BY DEF Plan!Bound, Plan!Subjects, Plan!Files, Plan!Trees
<1>c. step \notin Unbound => /\ DOMAIN snapshot' = Plan!Subjects
                             /\ \A S \in SUBSET Plan!Subjects : Used(S) => Used(S)'
  BY <1>0, UsedStep DEF UsedKept, Used, PlanInv
<1>1. CASE Prepares
  <2>1. /\ step \in Unbound /\ step' \in Unbound \cup {"failing"}
        /\ \/ step \in DOMAIN Plan!Looks \cup {"capturing"} /\ step' = step /\ looked' = looked + 1
              /\ looked < 7 /\ step = "capturing"
           \/ looked' = 0
           \/ step \notin DOMAIN Plan!Looks \cup {"capturing"} /\ looked' = looked
    BY <1>1, LookDomain
    DEF Prepares, CreateRoot, Capture, ProbeHost, ProbeVersions, Initialize, ProbeContainment,
        Bind, Plan!CaptureFile, Plan!CaptureTree, Plan!Captured, Plan!Checked,
        Plan!InitializeWorkspace, Plan!OpenDatabase, Plan!BindEnvelope, planVars
  <2>2. DOMAIN snapshot' = Plan!Subjects
    BY <1>0, <1>1
    DEF Prepares, CreateRoot, Capture, ProbeHost, ProbeVersions, Initialize, ProbeContainment,
        Bind, Plan!CaptureFile, Plan!CaptureTree, Plan!Captured, Plan!Checked, Plan!Hold,
        Plan!InitializeWorkspace, Plan!OpenDatabase, Plan!BindEnvelope, planVars, PlanInv
  <2>3. npm'.child = "none"
    BY <1>0, <1>a, <2>1 DEF NpmInv
  <2> QED
    BY <1>0, <2>1, <2>2, <2>3 DEF PlanInv
<1>2. CASE CreateSession
  <2>1. /\ looked' = looked /\ DOMAIN snapshot' = Plan!Subjects
        /\ \/ step = "session" /\ step' = "session_created" /\ snapshot'["database"] = "used"
           \/ step' = "failing"
           \/ step = "session_created" /\ step' = "runtime_snapshot_complete" /\ UNCHANGED snapshot
    BY <1>0, <1>2, <1>b DEF CreateSession, Plan!DatabaseIsBound, Plan!DatabaseHasChanged,
                            Plan!planVars, planVars, PlanInv
  <2>2. step \in {"session", "session_created"}
    BY <1>2 DEF CreateSession
  <2>3. npm'.child = "none"
    BY <1>0, <1>a, <2>1, <2>2 DEF NpmInv
  <2> QED
    BY <1>0, <2>1, <2>2, <2>3, LookDomain DEF PlanInv, Used
<1>3. CASE OperationFails
  <2>1. step' = "failing" /\ looked' = 0 /\ UNCHANGED snapshot
    BY <1>3 DEF OperationFails, Plan!Abandoned
  <2> QED
    BY <1>0, <1>a, <2>1 DEF PlanInv, Used
<1>4. CASE LookAgain
  <2>1. CASE Plan!Look(step) /\ UNCHANGED flow
    <3>1. /\ UNCHANGED step /\ step \in DOMAIN Plan!Looks /\ UsedKept
          /\ looked' = looked + 1 /\ looked < Len(Plan!Looks[step])
          /\ step = "starting" => snapshot'[Plan!Pair[looked + 1]] = "used"
          /\ step = "inspecting" /\ looked = 1 => snapshot'["protected"] = "used"
          /\ step = "writing" /\ looked = 2 => snapshot'["parent"] = "used"
      BY <1>0, <1>4, <2>1, LookEffect DEF LookAgain
    <3>2. /\ DOMAIN snapshot' = Plan!Subjects
          /\ \A S \in SUBSET Plan!Subjects : Used(S) => Used(S)'
      BY <1>0, <3>1 DEF UsedKept, Used, PlanInv
    <3>3. looked' \in 0..8
      <4>1. Len(Plan!Looks[step]) \in {2, 3, 4, 8}
        BY <3>1, LookDomain
      <4>2. looked \in 0..8
        BY <1>0 DEF PlanInv
      <4>3. ASSUME NEW n \in {2, 3, 4, 8}, looked < n PROVE looked + 1 \in 0..8
        BY <4>2, <4>3
      <4> QED
        BY <3>1, <4>1, <4>3
    <3>4. step = "starting" => \A i \in 1..looked' : snapshot'[Plan!Pair[i]] = "used"
      <4> SUFFICES ASSUME step = "starting", NEW i \in 1..looked'
                   PROVE  snapshot'[Plan!Pair[i]] = "used"
        OBVIOUS
      <4>1. looked \in 0..7 /\ (i \in 1..looked \/ i = looked + 1) /\ i \in 1..8
        BY <1>0, <3>1, <3>3, LookDomain DEF PlanInv
      <4> QED
        BY <1>0, <3>1, <4>1, PairIsBound DEF PlanInv, UsedKept
    <3>5. /\ step \in Inspected \/ (step = "inspecting" /\ looked' = 2) => Used({"protected"})'
          /\ step \in Output \/ (step = "writing" /\ looked' = 3) => Used({"parent"})'
      <4>1. /\ Used({"protected"}) => Used({"protected"})'
            /\ Used({"parent"}) => Used({"parent"})'
        BY <1>b, <3>2
      <4>2. looked' = 2 => looked = 1
        BY <1>0, <3>1 DEF PlanInv
      <4>3. looked' = 3 => looked = 2
        BY <1>0, <3>1 DEF PlanInv
      <4> QED
        BY <1>0, <3>1, <4>1, <4>2, <4>3 DEF PlanInv, Used
    <3> QED
      BY <1>0, <1>a, <1>b, <3>1, <3>2, <3>3, <3>4, <3>5, LookDomain DEF PlanInv
  <2>2. CASE Plan!Mismatch(step) /\ Throw("other")
    <3>1. step' = "failing" /\ looked' = 0 /\ UNCHANGED snapshot
      BY <2>2 DEF Plan!Mismatch
    <3> QED
      BY <1>0, <1>a, <3>1 DEF PlanInv, Used
  <2> QED
    BY <1>4, <2>1, <2>2 DEF LookAgain
<1>5. CASE Record \/ Refuse
  <2>1. UNCHANGED <<snapshot, looked>>
    BY <1>5 DEF Record, Refuse, planVars
  <2> QED
    BY <1>0, <1>a, <1>5, <2>1, LookDomain DEF PlanInv, Used, Record, AfterRecord, Refuse
<1>6. CASE Asks
  <2>1. UNCHANGED snapshot /\ (UNCHANGED looked \/ (looked' = 0 /\ step = "revalidating"))
    BY <1>6 DEF Asks, Ask, RecordRequest, Resume, Resolve, Block, Decided, Authorize, Plan!Checked, planVars
  <2> QED
    BY <1>0, <1>a, <1>6, <2>1, LookDomain
    DEF PlanInv, Used, Asks, Ask, RecordRequest, Resume, Resolve, Block, Decided, Authorize, FailCall,
        Plan!Checked
<1>7. CASE Starts
  <2>1. CASE Spawn /\ step = "starting"
    <3>1. looked = 8 /\ looked' = 0 /\ UNCHANGED snapshot /\ step' \in {"exited", "npm_spawn_intent_recorded"}
      BY <2>1, LookDomain DEF Spawn, Plan!Checked
    <3>2. Used(Plan!Bound)'
      BY <1>0, <2>1, <3>1, PairIsBound DEF PlanInv, Used
    <3> QED
      BY <1>0, <1>a, <2>1, <3>1, <3>2, LookDomain DEF PlanInv, Used
  <2>2. CASE ~(Spawn /\ step = "starting")
    <3>1. UNCHANGED <<snapshot, looked>>
      BY <1>7, <2>2 DEF Starts, Arm, BrokerArmed, Attach, Spawn, RecordStart, WaitExpires, RecordExit, planVars
    <3> QED
      BY <1>0, <1>a, <1>7, <2>2, <3>1, LookDomain
      DEF PlanInv, Used, Starts, Arm, BrokerArmed, Attach, Spawn, RecordStart, WaitExpires, RecordExit
  <2> QED
    BY <2>1, <2>2
<1>8. CASE Finishes
  <2>1. CASE Inspect \/ WriteArtifact
    <3>1. /\ looked' = 0 /\ UNCHANGED snapshot
          /\ \/ step = "inspecting" /\ looked = 2 /\ step' = "post_state_validated"
             \/ step = "writing" /\ looked = 3 /\ step' \in {"candidate_output_written", "failing"}
      BY <2>1, LookDomain DEF Inspect, WriteArtifact, Plan!Checked
    <3> QED
      BY <1>0, <1>a, <3>1 DEF PlanInv, Used
  <2>2. CASE ~(Inspect \/ WriteArtifact)
    <3>1. UNCHANGED <<snapshot, looked>>
      BY <1>8, <2>2 DEF Finishes, Drain, Complete, Compile, Assemble, CleanWorkspace, RemoveRoot,
                        PrepareTerminal, Commit, Reconcile, planVars
    <3> QED
      BY <1>0, <1>a, <1>8, <2>2, <3>1, LookDomain
      DEF PlanInv, Used, Finishes, Drain, Complete, Compile, Assemble, CleanWorkspace, RemoveRoot,
          PrepareTerminal, Commit, Reconcile
  <2> QED
    BY <2>1, <2>2
<1>9. CASE Catches
  <2>1. UNCHANGED <<snapshot, looked>>
    BY <1>9 DEF Catches, Catch, Recover, RecordFailure, Report, planVars
  <2> QED
    BY <1>0, <1>a, <1>9, <2>1, LookDomain DEF PlanInv, Used, Catches, Catch, Recover, RecordFailure, Report
<1>10. CASE People \/ Child \/ Serves
  <2>1. /\ UNCHANGED <<snapshot, looked>>
        /\ \/ UNCHANGED step
           \/ step \in Attended /\ step' \in {"npm_terminal_observed", "failing"}
    BY <1>10 DEF People, Interrupt, HumanDecides, TimerFires, Tick, Child, StopChild, ForceKill,
                 ChildCloses, Serves, Request, Respond, Handle, BrokerSettles, planVars
  <2> QED
    BY <1>0, <1>a, <2>1, LookDomain DEF PlanInv, Used
<1>11. CASE Drifts
  <2>1. UNCHANGED <<step, looked, npm>> /\ UsedKept
    BY <1>11 DEF Drifts, Drift, Plan!Drift, UsedKept
  <2>2. /\ DOMAIN snapshot' = Plan!Subjects
        /\ \A S \in SUBSET Plan!Subjects : Used(S) => Used(S)'
    BY <1>0, <2>1 DEF UsedKept, Used, PlanInv
  <2>3. step = "starting" => \A i \in 1..looked : snapshot'[Plan!Pair[i]] = "used"
    BY <1>0, <2>1, PairIsBound DEF PlanInv, UsedKept
  <2>4. /\ Used({"database"}) => Used({"database"})'
        /\ Used({"protected"}) => Used({"protected"})'
        /\ Used({"parent"}) => Used({"parent"})'
        /\ Used(Plan!Bound) => Used(Plan!Bound)'
    BY <1>b, <2>2
  <2> QED
    BY <1>0, <2>1, <2>2, <2>3, <2>4 DEF PlanInv
<1> QED
  BY <1>1, <1>2, <1>3, <1>4, <1>5, <1>6, <1>7, <1>8, <1>9, <1>10, <1>11
  DEF Next, Owner, OwnerStep, Prepares, Asks, Starts, Finishes, Catches, People, Child, Serves, Drifts

-----------------------------------------------------------------------------
(* The audit recorder, as the run sees it. *)

\* Every method adds.
RowGrows ==
    /\ RowsInv' /\ completed \subseteq completed'
    /\ authEvents[Run] \subseteq authEvents'[Run] /\ outcomeEvents[Run] \subseteq outcomeEvents'[Run]

\* A method that writes at most evidence, or nothing because it throws.
RowKept == UNCHANGED <<status, completed, terminal, approvalRow, authEvents, outcomeEvents>>

\* Evidence, and a method that throws, leave the row alone.
LEMMA QuietAudit ==
    ASSUME NEW st,
           \/ Audit!AppendEvidence(Run) \/ Audit!RollBack(Run) \/ Audit!BeginThrows(Run)
           \/ Audit!MarkBlockedThrows(Run, st) \/ Audit!MarkFailedThrows(Run, "other")
           \/ UNCHANGED auditVars
    PROVE  RowKept
BY DEF RowKept, auditVars, Audit!AppendEvidence, Audit!RollBack, Audit!BeginThrows,
       Audit!MarkBlockedThrows, Audit!MarkFailedThrows, Audit!database, Audit!handle

\* The methods that change the row on its way to the end.
LEMMA OpenAudit ==
    ASSUME RowsInv, NEW o \in Approvals!Outcomes,
           \/ Audit!Begin(Run, "graph_genesis_plan", "ask") \/ Audit!MarkAuthorized(Run)
           \/ Audit!MarkExecutionStarted(Run) \/ Audit!MarkApprovalRequested(Run)
           \/ Audit!MarkApprovalResolved(Run, o)
    PROVE  RowGrows /\ UNCHANGED <<completed, terminal, outcomeEvents>> /\ status'[Run] # "completed"
<1>1. CASE Audit!Begin(Run, "graph_genesis_plan", "ask") \/ Audit!MarkExecutionStarted(Run)
  BY <1>1 DEF RowsInv, RowGrows, Audit!Begin, Audit!MarkExecutionStarted, Audit!UpdateStatus
<1>2. CASE Audit!MarkAuthorized(Run)
  BY <1>2 DEF RowsInv, RowGrows, Audit!MarkAuthorized, Audit!UpdateStatus, Audit!Add
<1>3. CASE Audit!MarkApprovalRequested(Run) \/ Audit!MarkApprovalResolved(Run, o)
  BY <1>3 DEF RowsInv, RowGrows, Audit!MarkApprovalRequested, Audit!MarkApprovalResolved,
              Audit!UpdateStatus, Audit!ResolvedStatus
<1> QED
  BY <1>1, <1>2, <1>3

\* The methods that end it.
LEMMA EndAudit ==
    ASSUME RowsInv, NEW st,
           \/ Audit!MarkBlocked(Run, st) \/ Audit!MarkFailed(Run, "other")
           \/ Audit!FinalizeGraphGenesisOutcome(Run, st)
    PROVE  /\ RowGrows /\ Run \in completed' /\ UNCHANGED approvalRow
           /\ status'[Run] \in {st, "failed"}
           /\ Audit!FinalizeGraphGenesisOutcome(Run, st) => outcomeEvents'[Run] # {}
<1>1. CASE Audit!MarkBlocked(Run, st)
  BY <1>1 DEF RowsInv, RowGrows, Audit!MarkBlocked, Audit!Finish, Audit!UpdateStatus, Audit!Add,
              Audit!FinalizeGraphGenesisOutcome, Audit!CompleteCall
<1>2. CASE Audit!MarkFailed(Run, "other")
  <2>1. /\ UNCHANGED approvalRow /\ completed' = completed \cup {Run}
        /\ terminal' = terminal \cup {Run} /\ status' = [status EXCEPT ![Run] = "failed"]
    BY <1>2 DEF Audit!MarkFailed, Audit!Finish, Audit!UpdateStatus
  <2>2. \/ UNCHANGED authEvents
        \/ \E a : authEvents' = [authEvents EXCEPT ![Run] = @ \cup {a}]
    BY <1>2 DEF Audit!MarkFailed, Audit!Add
  <2>3. \/ UNCHANGED outcomeEvents
        \/ \E a : outcomeEvents' = [outcomeEvents EXCEPT ![Run] = @ \cup {a}]
    BY <1>2 DEF Audit!MarkFailed, Audit!Add
  <2>4. Audit!FinalizeGraphGenesisOutcome(Run, st) => outcomeEvents'[Run] # {}
    BY DEF Audit!FinalizeGraphGenesisOutcome, Audit!CompleteCall, Audit!Add, RowsInv
  <2> QED
    BY <2>1, <2>2, <2>3, <2>4 DEF RowsInv, RowGrows
<1>3. CASE Audit!FinalizeGraphGenesisOutcome(Run, st)
  BY <1>3 DEF RowsInv, RowGrows, Audit!FinalizeGraphGenesisOutcome, Audit!CompleteCall, Audit!Finish,
              Audit!UpdateStatus, Audit!Add
<1> QED
  BY <1>1, <1>2, <1>3

\* The row goes forward; it is approved by what the person has settled, and completed only by
\* the terminal transaction of a success.
LEMMA AuditStep ==
    ASSUME IInv, Next
    PROVE  /\ RowGrows
           /\ step \notin {"session", "request", "resolve"} => UNCHANGED approvalRow
           /\ step = "resolve" /\ step' = "decided" => approvalRow'[Run] = outcome[Run]
           /\ step = "authorize" /\ step' = "authorized" => \E a \in authEvents'[Run] : a.status = "authorized"
           /\ status'[Run] = "completed" /\ status[Run] # "completed" =>
                /\ step = "commit" /\ step' \in {"closing", "failing"} /\ Run \in completed'
                /\ outcomeEvents'[Run] # {}
           /\ step = "done" => RowKept
<1> USE DEF Goto, Throw, Proceed, Rejected, facts, flow
<1> DEFINE Conclusion ==
           /\ RowGrows
           /\ step \notin {"session", "request", "resolve"} => UNCHANGED approvalRow
           /\ step = "resolve" /\ step' = "decided" => approvalRow'[Run] = outcome[Run]
           /\ step = "authorize" /\ step' = "authorized" => \E a \in authEvents'[Run] : a.status = "authorized"
           /\ status'[Run] = "completed" /\ status[Run] # "completed" =>
                /\ step = "commit" /\ step' \in {"closing", "failing"} /\ Run \in completed'
                /\ outcomeEvents'[Run] # {}
           /\ step = "done" => RowKept
<1> SUFFICES Conclusion
  OBVIOUS
<1>0. RowsInv
  BY DEF IInv
<1>a. step \in {"resolve", "block"} => outcome[Run] \in Approvals!Outcomes
  BY DEF IInv, TicketInv, ApprovalInv
<1>1. ASSUME RowKept, step' \notin {"decided", "authorized"} \/ UNCHANGED step PROVE Conclusion
  BY <1>0, <1>1 DEF RowKept, RowGrows, RowsInv
<1> HIDE DEF Conclusion
<1>2. CASE Prepares \/ OperationFails \/ LookAgain \/ Refuse
  <2>1. UNCHANGED auditVars /\ (step' \notin {"decided", "authorized"} \/ UNCHANGED step)
    BY <1>2 DEF Prepares, CreateRoot, Capture, ProbeHost, ProbeVersions, Initialize,
                ProbeContainment, Bind, OperationFails, LookAgain, Refuse, Plan!Looks
  <2> QED
    BY <1>1, <2>1, QuietAudit
<1>3. CASE People \/ Child \/ Drifts
  <2>1. UNCHANGED auditVars /\ (step' \notin {"decided", "authorized"} \/ UNCHANGED step)
    BY <1>3 DEF People, Interrupt, HumanDecides, TimerFires, Tick, Child, StopChild, ForceKill,
                ChildCloses, Drifts, Drift, AtAwait, Waits
  <2> QED
    BY <1>1, <2>1, QuietAudit
<1>4. CASE Record
  <2>1. (Audit!AppendEvidence(Run) \/ Audit!RollBack(Run)) /\ step' \notin {"decided", "authorized"}
    BY <1>4 DEF Record, AfterRecord
  <2> QED
    BY <1>1, <2>1, QuietAudit
<1>5. CASE CreateSession
  <2>1. step' \notin {"decided", "authorized"}
    BY <1>5 DEF CreateSession
  <2>2. \/ Audit!Begin(Run, "graph_genesis_plan", "ask") /\ step = "session"
        \/ Audit!BeginThrows(Run) \/ UNCHANGED auditVars
        \/ Audit!AppendEvidence(Run) \/ Audit!RollBack(Run)
    BY <1>5 DEF CreateSession
  <2>3. CASE Audit!Begin(Run, "graph_genesis_plan", "ask") /\ step = "session"
    BY <1>0, <2>3, OpenAudit DEF Conclusion
  <2> QED
    BY <1>1, <2>1, <2>2, <2>3, QuietAudit
<1>6. CASE Serves
  <2>1. ASSUME NEW durable, Written(durable) PROVE RowKept
    BY <2>1, QuietAudit DEF Written
  <2>2. RowKept /\ UNCHANGED step
    BY <1>6, <2>1, QuietAudit DEF Serves, Request, Respond, Handle, BrokerSettles
  <2> QED
    BY <1>1, <2>2
<1>7. CASE Starts
  <2>1. \/ Audit!AppendEvidence(Run) \/ Audit!RollBack(Run) \/ UNCHANGED auditVars
        \/ Audit!MarkExecutionStarted(Run)
    BY <1>7 DEF Starts, Arm, BrokerArmed, Attach, Spawn, RecordStart, WaitExpires, RecordExit
  <2>2. step' \notin {"decided", "authorized"}
    BY <1>7 DEF Starts, Arm, BrokerArmed, Attach, Spawn, RecordStart, WaitExpires, RecordExit
  <2>3. Audit!MarkExecutionStarted(Run) => UNCHANGED approvalRow
    BY DEF Audit!MarkExecutionStarted, Audit!UpdateStatus
  <2>4. CASE Audit!MarkExecutionStarted(Run)
    <3>1. step # "done"
      BY <1>7 DEF Starts, Arm, BrokerArmed, Attach, Spawn, RecordStart, WaitExpires, RecordExit
    <3> QED
      BY <1>0, <2>2, <2>3, <2>4, <3>1, OpenAudit DEF Conclusion
  <2> QED
    BY <1>1, <2>1, <2>2, <2>4, QuietAudit
<1>8. CASE Finishes
  <2>1. step' \notin {"decided", "authorized"} /\ step # "done"
    BY <1>8 DEF Finishes, Drain, Complete, Inspect, Compile, Assemble, WriteArtifact,
                CleanWorkspace, RemoveRoot, PrepareTerminal, Commit, Reconcile
  <2>2. \/ UNCHANGED auditVars \/ Audit!RollBack(Run)
        \/ /\ Audit!FinalizeGraphGenesisOutcome(Run, "completed")
           /\ step = "commit" /\ step' \in {"closing", "failing"}
    BY <1>8 DEF Finishes, Drain, Complete, Inspect, Compile, Assemble, WriteArtifact,
                CleanWorkspace, RemoveRoot, PrepareTerminal, Commit, Reconcile
  <2>3. CASE /\ Audit!FinalizeGraphGenesisOutcome(Run, "completed")
             /\ step = "commit" /\ step' \in {"closing", "failing"}
    BY <1>0, <2>3, EndAudit DEF Conclusion
  <2> QED
    BY <1>1, <2>1, <2>2, <2>3, QuietAudit
<1>9. CASE Catches
  <2>1. step' \notin {"decided", "authorized"} /\ step \notin {"session", "request", "resolve", "done"}
    BY <1>9 DEF Catches, Catch, Recover, RecordFailure, Report
  <2>2. \/ UNCHANGED auditVars \/ Audit!RollBack(Run) \/ Audit!MarkFailedThrows(Run, "other")
        \/ Audit!FinalizeGraphGenesisOutcome(Run, FailureTerminalStatus)
        \/ Audit!MarkFailed(Run, "other")
    BY <1>9 DEF Catches, Catch, Recover, RecordFailure, Report, FailureIsRecorded, FailureIsLost
  <2>3. FailureTerminalStatus # "completed"
    BY DEF FailureTerminalStatus
  <2>4. CASE \/ Audit!FinalizeGraphGenesisOutcome(Run, FailureTerminalStatus)
             \/ Audit!MarkFailed(Run, "other")
    BY <1>0, <2>1, <2>3, <2>4, EndAudit DEF Conclusion
  <2> QED
    BY <1>1, <2>1, <2>2, <2>4, QuietAudit
<1>10. CASE Asks
  <2>1. CASE (\E ttl \in TTLs : Ask(ttl)) \/ Resume
    <3>1. UNCHANGED auditVars /\ step' \notin {"decided", "authorized"}
      BY <2>1 DEF Ask, Resume
    <3> QED
      BY <1>1, <3>1, QuietAudit
  <2>2. CASE RecordRequest
    <3>1. step = "request" /\ step' \notin {"decided", "authorized"}
      BY <2>2 DEF RecordRequest
    <3>2. Audit!RollBack(Run) \/ Audit!MarkApprovalRequested(Run)
      BY <2>2 DEF RecordRequest
    <3> QED
      BY <1>0, <1>1, <3>1, <3>2, QuietAudit, OpenAudit DEF Conclusion
  <2>3. CASE Resolve
    <3>1. CASE Audit!RollBack(Run) /\ step' = "failing"
      BY <1>1, <3>1, QuietAudit
    <3>2. CASE Audit!MarkApprovalResolved(Run, outcome[Run])
      <4>0. step = "resolve"
        BY <2>3 DEF Resolve
      <4>1. outcome[Run] \in Approvals!Outcomes /\ approvalRow'[Run] = outcome[Run]
        BY <1>0, <1>a, <3>2, <4>0 DEF RowsInv, Audit!MarkApprovalResolved
      <4> QED
        BY <1>0, <3>2, <4>0, <4>1, OpenAudit DEF Conclusion
    <3> QED
      BY <2>3, <3>1, <3>2 DEF Resolve
  <2>4. ASSUME FailCall, step \in {"decided", "revalidating"} PROVE Conclusion
    <3>1. step' = "failing" /\ (Audit!MarkFailed(Run, "other") \/ Audit!MarkFailedThrows(Run, "other"))
      BY <2>4 DEF FailCall
    <3>2. CASE Audit!MarkFailed(Run, "other")
      BY <1>0, <2>4, <3>1, <3>2, EndAudit DEF Conclusion
    <3> QED
      BY <1>1, <3>1, <3>2, QuietAudit
  <2>5. CASE Block
    <3>1. step = "block" /\ step' \notin {"decided", "authorized"}
      BY <2>5 DEF Block
    <3>2. PICK st : /\ st = Audit!ResolvedStatus(outcome[Run])
                    /\ Audit!MarkBlocked(Run, st) \/ Audit!MarkBlockedThrows(Run, st)
      BY <2>5 DEF Block
    <3>3. st # "completed"
      BY <1>a, <3>1, <3>2 DEF Audit!ResolvedStatus
    <3>4. CASE Audit!MarkBlocked(Run, st)
      BY <1>0, <3>1, <3>3, <3>4, EndAudit DEF Conclusion
    <3> QED
      BY <1>1, <3>1, <3>2, <3>4, QuietAudit
  <2>6. CASE Decided
    <3>1. step = "decided" /\ (FailCall \/ (UNCHANGED auditVars /\ step' = "revalidating"))
      BY <2>6 DEF Decided
    <3> QED
      BY <1>1, <2>4, <3>1, QuietAudit
  <2>7. CASE Authorize
    <3>1. \/ FailCall /\ step = "revalidating"
          \/ Audit!AppendEvidence(Run) /\ step' \in {"authorize", "authorization_finalized"}
          \/ Audit!RollBack(Run) /\ step' = "failing"
          \/ Audit!MarkAuthorized(Run) /\ step = "authorize"
      BY <2>7 DEF Authorize
    <3>2. CASE Audit!MarkAuthorized(Run) /\ step = "authorize"
      <4>1. UNCHANGED approvalRow /\ \E a \in authEvents'[Run] : a.status = "authorized"
        <5> DEFINE receipt == Audit!BuildAuthorization(Run, "authorized", approval[Run])
        <5>1. receipt.status = "authorized"
          BY DEF Audit!BuildAuthorization
        <5> HIDE DEF receipt
        <5>2. UNCHANGED approvalRow /\ receipt \in authEvents'[Run]
          BY <1>0, <3>2 DEF RowsInv, Audit!MarkAuthorized, Audit!Add, receipt
        <5> QED
          BY <5>1, <5>2
      <4> QED
        BY <1>0, <3>2, <4>1, OpenAudit DEF Conclusion
    <3> QED
      BY <1>1, <2>4, <3>1, <3>2, QuietAudit
  <2> QED
    BY <1>10, <2>1, <2>2, <2>3, <2>5, <2>6, <2>7 DEF Asks
<1> QED
  BY <1>2, <1>3, <1>4, <1>5, <1>6, <1>7, <1>8, <1>9, <1>10
  DEF Next, Owner, OwnerStep, Prepares, Asks, Starts, Finishes, Catches, People, Child, Serves, Drifts

\* What was approved and authorized stays so.
LEMMA ApprovalStep ==
    ASSUME IInv, Next
    PROVE  ApprovalInv'
<1> USE DEF Goto, Throw, Proceed, Rejected, facts, flow
<1>0. ApprovalInv /\ NpmInv /\ TicketInv
  BY DEF IInv
<1>1. npm'.child # "none" => npm.child # "none" \/ (step = "spawn" /\ step' = "started")
  BY NpmMoves
<1>2. /\ step \notin {"session", "request", "resolve"} => UNCHANGED approvalRow
      /\ step = "resolve" /\ step' = "decided" => approvalRow'[Run] = outcome[Run]
      /\ step = "authorize" /\ step' = "authorized" => \E a \in authEvents'[Run] : a.status = "authorized"
      /\ authEvents[Run] \subseteq authEvents'[Run]
      /\ outcome[Run] # Approvals!Unsettled => outcome'[Run] = outcome[Run]
  BY AuditStep, TicketStep DEF RowGrows, TicketsKept
<1>3. /\ IsApproved /\ step \notin {"session", "request", "resolve"} => IsApproved'
      /\ IsAuthorized /\ step \notin {"session", "request", "resolve"} => IsAuthorized'
  BY <1>2 DEF IsApproved, IsAuthorized
<1>4. step \in {"session", "request", "resolve"} => npm'.child = "none"
  BY <1>0, <1>1 DEF NpmInv
<1>5. CASE UNCHANGED step \/ step' \notin {"resolve", "block", "starting"} \cup Spawning \cup Approved
  BY <1>0, <1>1, <1>2, <1>3, <1>4, <1>5 DEF ApprovalInv
<1>6. CASE Prepares \/ OperationFails \/ LookAgain \/ CreateSession \/ Refuse
  BY <1>5, <1>6 DEF Prepares, CreateRoot, Capture, ProbeHost, ProbeVersions, Initialize,
                    ProbeContainment, Bind, OperationFails, LookAgain, CreateSession, Refuse
<1>7. CASE Record
  BY <1>0, <1>1, <1>3, <1>5, <1>7 DEF ApprovalInv, Record, AfterRecord
<1>8. CASE Asks
  <2>1. CASE Resume \/ Resolve
    <3>1. \/ step = "awaiting" /\ step' = "resolve" /\ outcome[Run] # Approvals!Unsettled
          \/ step = "resolve" /\ step' = "decided" /\ outcome[Run] = "approved"
          \/ step = "resolve" /\ step' = "block"
          \/ step' = "failing"
      BY <2>1 DEF Resume, Resolve
    <3>2. step' = "decided" => IsApproved'
      BY <1>2, <3>1 DEF IsApproved
    <3> QED
      BY <1>0, <1>1, <1>2, <1>3, <1>4, <1>5, <3>1, <3>2 DEF ApprovalInv
  <2>2. CASE (\E ttl \in TTLs : Ask(ttl)) \/ RecordRequest \/ Block
    BY <1>5, <2>2 DEF Ask, RecordRequest, Block
  <2>3. CASE Decided \/ Authorize
    <3>1. \/ step = "decided" /\ step' = "revalidating"
          \/ step = "revalidating" /\ step' = "authorize"
          \/ step = "authorize" /\ step' = "authorized"
          \/ step = "authorized" /\ step' = "authorization_finalized"
          \/ step' = "failing"
      BY <2>3 DEF Decided, Authorize, FailCall
    <3>2. step = "authorize" /\ step' = "authorized" => IsAuthorized'
      BY <1>0, <1>2, <1>3 DEF ApprovalInv, IsAuthorized
    <3> QED
      BY <1>0, <1>1, <1>2, <1>3, <1>5, <3>1, <3>2 DEF ApprovalInv
  <2> QED
    BY <1>8, <2>1, <2>2, <2>3 DEF Asks
<1>9. CASE Starts
  <2>1. \/ step \in {"arm", "broker_armed"} /\ step' \in {"broker_armed", "attach"}
        \/ step \in {"attach", "starting"} /\ step' \in {"starting", "npm_spawn_intent_recorded"}
        \/ step' \notin {"resolve", "block", "starting"} \cup Spawning \cup Approved
    BY <1>9 DEF Starts, Arm, BrokerArmed, Attach, Spawn, RecordStart, WaitExpires, RecordExit
  <2> QED
    BY <1>0, <1>1, <1>3, <1>5, <2>1 DEF ApprovalInv
<1>10. CASE Finishes \/ Catches
  BY <1>5, <1>10 DEF Finishes, Drain, Complete, Inspect, Compile, Assemble, WriteArtifact,
                    CleanWorkspace, RemoveRoot, PrepareTerminal, Commit, Reconcile, Catches, Catch,
                    Recover, RecordFailure, Report
<1>11. CASE People \/ Child \/ Serves \/ Drifts
  BY <1>5, <1>11 DEF People, Interrupt, HumanDecides, TimerFires, Tick, Child, StopChild, ForceKill,
                    ChildCloses, Serves, Request, Respond, Handle, BrokerSettles, Drifts, Drift
<1> QED
  BY <1>6, <1>7, <1>8, <1>9, <1>10, <1>11
  DEF Next, Owner, OwnerStep, Prepares, Asks, Starts, Finishes, Catches, People, Child, Serves, Drifts

-----------------------------------------------------------------------------
(* The broker, as the run sees it. *)

SessionIsSound == HandlersInv /\ EntriesInv /\ SessionInv

\* A handler throws: the first failure is the session's.
LEMMA ThrowEffect ==
    ASSUME SessionIsSound, NEW r \in Requests, pc[r] \notin {"done"}, Broker!Throw(r),
           pc[r] = "none" => server # "drained",
           UNCHANGED <<started, seq, entries, validated, fetched, ledger, notifying, server>>,
           size' \in [Requests -> Nat], observed \subseteq observed', attached' => attached
    PROVE  SessionIsSound'
<1> USE DEF Broker!HandlerSteps, Broker!States, Broker!InService
<1>1. /\ pc' \in [Requests -> Broker!HandlerSteps]
      /\ pc'[r] \in {"notifying", "failing"} /\ \A q \in Requests \ {r} : pc'[q] = pc[q]
      /\ pc'[r] = "notifying" => failed'
      /\ failed => failed'
      /\ failed' => state' \in {"failing", "incomplete"}
      /\ state' \in Broker!States /\ (state = "complete" => state' = "complete")
  BY DEF SessionIsSound, HandlersInv, SessionInv, Broker!Throw, Broker!FailSession, Broker!FailsFirst
<1>2. HandlersInv'
  BY <1>1 DEF SessionIsSound, HandlersInv
<1>3. EntriesInv'
  BY <1>1 DEF SessionIsSound, EntriesInv
<1>4. SessionInv'
  <2>1. server = "drained" => FALSE
    BY DEF SessionIsSound, SessionInv
  <2> QED
    BY <1>1, <2>1 DEF SessionIsSound, SessionInv
<1> QED
  BY <1>2, <1>3, <1>4 DEF SessionIsSound

\* A request arrives.
LEMMA ArrivalEffect ==
    ASSUME SessionIsSound, NEW r \in Requests, NEW p,
           Broker!Reject(r) \/ Broker!Malformed(r) \/ Broker!OverLimit(r, p) \/ Broker!Reserve(r, p)
    PROVE  SessionIsSound'
<1> USE DEF Broker!HandlerSteps, Broker!States, Broker!InService
<1>0. HandlersInv /\ EntriesInv /\ SessionInv
  BY DEF SessionIsSound
<1>1. CASE Broker!Reject(r)
  <2>1. /\ pc[r] = "none" /\ pc' = [pc EXCEPT ![r] = "done"]
        /\ UNCHANGED <<state, failed, notifying, ledger, started, entries, seq, size, observed,
                       validated, fetched, server, attached>>
    BY <1>1 DEF Broker!Reject, Broker!Arrives, Broker!Answer, Broker!session, Broker!budget,
                Broker!evidence, Broker!listener
  <2>2. HandlersInv'
    BY <1>0, <2>1 DEF HandlersInv
  <2>3. EntriesInv'
    BY <1>0, <2>1 DEF HandlersInv, EntriesInv
  <2>4. SessionInv'
    BY <1>0, <2>1 DEF HandlersInv, SessionInv
  <2> QED
    BY <2>2, <2>3, <2>4 DEF SessionIsSound
<1>2. CASE Broker!Malformed(r) \/ Broker!OverLimit(r, p)
  <2>1. /\ pc[r] = "none" /\ server # "drained" /\ Broker!Throw(r) /\ attached
        /\ UNCHANGED <<started, seq, size, entries, observed, validated, fetched, ledger, notifying, server>>
    BY <1>2 DEF Broker!Malformed, Broker!OverLimit, Broker!Arrives, Broker!budget, Broker!evidence,
                Broker!listener
  <2> QED
    BY <1>0, <2>1, ThrowEffect DEF HandlersInv
<1>3. CASE Broker!Reserve(r, p)
  <2>1. /\ pc[r] = "none" /\ server # "drained" /\ state = "armed" /\ started' = started + 1
        /\ pc' = [pc EXCEPT ![r] = "intent"] /\ seq' = [seq EXCEPT ![r] = started + 1]
        /\ UNCHANGED <<state, failed, notifying, ledger, entries, size, observed,
                       validated, fetched, server, attached>>
    BY <1>3 DEF Broker!Reserve, Broker!Arrives, Broker!CanReserve, Broker!session, Broker!listener
  <2>2. HandlersInv'
    BY <1>0, <2>1 DEF HandlersInv
  <2>3. EntriesInv'
    <3>1. fetched' \subseteq 1..started'
      BY <1>0, <2>1 DEF HandlersInv, EntriesInv
    <3> QED
      BY <1>0, <2>1, <3>1 DEF HandlersInv, EntriesInv
  <2>4. SessionInv'
    BY <1>0, <2>1 DEF SessionInv
  <2> QED
    BY <2>2, <2>3, <2>4 DEF SessionIsSound
<1> QED
  BY <1>1, <1>2, <1>3

\* A handler goes on.
LEMMA HandlerEffect ==
    ASSUME SessionIsSound, NEW r \in Requests, NEW n \in Nat,
           \/ Broker!IntentRecorded(r) \/ Broker!FetchFails(r) \/ Broker!Fetched(r, n)
           \/ Broker!ResponseRecorded(r) \/ Broker!FailureAnswered(r)
    PROVE  SessionIsSound'
<1> USE DEF Broker!HandlerSteps, Broker!States, Broker!InService
<1>0. HandlersInv /\ EntriesInv /\ SessionInv
  BY DEF SessionIsSound
<1>1. CASE Broker!IntentRecorded(r)
  <2>1. /\ pc[r] = "intent" /\ observed \subseteq observed'
        /\ UNCHANGED <<started, seq, size, entries, validated, ledger, notifying, server, attached>>
    BY <1>1 DEF Broker!IntentRecorded, Broker!budget, Broker!listener
  <2>2. CASE Broker!Throw(r) /\ UNCHANGED fetched
    BY <1>0, <2>1, <2>2, ThrowEffect DEF HandlersInv
  <2>3. CASE /\ pc' = [pc EXCEPT ![r] = "fetching"] /\ fetched' = fetched \cup {seq[r]}
             /\ seq[r] \in observed' /\ UNCHANGED <<state, failed>>
    <3>1. HandlersInv'
      BY <1>0, <2>1, <2>3 DEF HandlersInv
    <3>2. EntriesInv'
      <4>1. seq[r] \in 1..started
        BY <1>0, <2>1 DEF HandlersInv
      <4>2. \A q \in Requests : pc[q] = "done" => pc'[q] = "done"
        BY <1>0, <2>1, <2>3 DEF HandlersInv
      <4> QED
        BY <1>0, <2>1, <2>3, <4>1, <4>2 DEF EntriesInv
    <3>3. SessionInv'
      BY <1>0, <2>1, <2>3 DEF HandlersInv, SessionInv
    <3> QED
      BY <3>1, <3>2, <3>3 DEF SessionIsSound
  <2> QED
    BY <1>1, <2>2, <2>3 DEF Broker!IntentRecorded
<1>2. CASE Broker!FetchFails(r)
  <2>1. /\ pc[r] = "fetching" /\ Broker!Throw(r)
        /\ UNCHANGED <<started, seq, size, entries, observed, validated, fetched, ledger, notifying,
                       server, attached>>
    BY <1>2 DEF Broker!FetchFails, Broker!budget, Broker!evidence, Broker!listener
  <2> QED
    BY <1>0, <2>1, ThrowEffect DEF HandlersInv
<1>3. CASE Broker!Fetched(r, n)
  <2>1. /\ pc[r] = "fetching"
        /\ UNCHANGED <<started, seq, entries, observed, fetched, ledger, notifying, server, attached>>
    BY <1>3 DEF Broker!Fetched, Broker!budget, Broker!listener
  <2>2. CASE Broker!Throw(r) /\ UNCHANGED <<size, validated>>
    BY <1>0, <2>1, <2>2, ThrowEffect DEF HandlersInv
  <2>3. CASE /\ pc' = [pc EXCEPT ![r] = "validating"] /\ size' = [size EXCEPT ![r] = n]
             /\ validated' \subseteq validated \cup {seq[r]} /\ UNCHANGED <<state, failed>>
    <3>1. HandlersInv'
      BY <1>0, <2>1, <2>3 DEF HandlersInv
    <3>2. EntriesInv'
      BY <1>0, <2>1, <2>3 DEF HandlersInv, EntriesInv
    <3>3. SessionInv'
      BY <1>0, <2>1, <2>3 DEF HandlersInv, SessionInv
    <3> QED
      BY <3>1, <3>2, <3>3 DEF SessionIsSound
  <2> QED
    BY <1>3, <2>2, <2>3 DEF Broker!Fetched
<1>4. CASE Broker!ResponseRecorded(r)
  <2>1. /\ pc[r] = "validating"
        /\ UNCHANGED <<started, seq, size, observed, validated, fetched, ledger, notifying, server, attached>>
    BY <1>4 DEF Broker!ResponseRecorded, Broker!evidence, Broker!listener
  <2>2. CASE Broker!Throw(r) /\ UNCHANGED entries
    BY <1>0, <2>1, <2>2, ThrowEffect DEF HandlersInv
  <2>3. CASE Broker!Commits(r) /\ Broker!PushEntry(r)
    <3> DEFINE e == [seq |-> seq[r], bytes |-> size[r]]
    <3>1. /\ state = "armed" /\ entries' = entries \cup {e} /\ pc' = [pc EXCEPT ![r] = "done"]
          /\ UNCHANGED <<state, failed>>
      BY <2>3 DEF Broker!Commits, Broker!PushEntry, Broker!Answer
    <3>2. e.seq = seq[r] /\ seq[r] \in fetched /\ seq[r] # 0
      BY <1>0, <2>1 DEF HandlersInv
    <3> HIDE DEF e
    <3>3. \A f \in entries : f.seq # e.seq
      BY <1>0, <2>1, <3>2 DEF HandlersInv, EntriesInv
    <3>4. IsFiniteSet(entries')
      BY <1>0, <3>1, FS_AddElement DEF EntriesInv
    <3>5. HandlersInv'
      BY <1>0, <2>1, <3>1 DEF HandlersInv
    <3>6. \A f \in entries' : /\ f.seq \in fetched
                              /\ \E q \in Requests : pc'[q] = "done" /\ seq[q] = f.seq
      <4>1. pc'[r] = "done" /\ \A q \in Requests : pc[q] = "done" => pc'[q] = "done"
        BY <1>0, <3>1 DEF HandlersInv
      <4> QED
        BY <1>0, <3>1, <3>2, <4>1 DEF EntriesInv
    <3>7. EntriesInv'
      BY <1>0, <2>1, <3>1, <3>3, <3>4, <3>6 DEF EntriesInv
    <3>8. SessionInv'
      BY <1>0, <2>1, <3>1 DEF HandlersInv, SessionInv
    <3> QED
      BY <3>5, <3>7, <3>8 DEF SessionIsSound
  <2> QED
    BY <1>4, <2>2, <2>3 DEF Broker!ResponseRecorded
<1>5. CASE Broker!FailureAnswered(r)
  <2>1. /\ pc[r] \in {"notifying", "failing"} /\ pc' = [pc EXCEPT ![r] = "done"]
        /\ \/ pc[r] = "notifying" /\ state' = "incomplete"
           \/ UNCHANGED state
        /\ ~attached'
        /\ UNCHANGED <<failed, started, seq, size, entries, observed, validated, fetched, ledger,
                       notifying, server>>
    BY <1>5 DEF Broker!FailureAnswered, Broker!Answer, Broker!evidence
  <2>2. HandlersInv'
    BY <1>0, <2>1 DEF HandlersInv
  <2>3. EntriesInv'
    BY <1>0, <2>1 DEF HandlersInv, EntriesInv
  <2>4. SessionInv'
    BY <1>0, <2>1 DEF HandlersInv, SessionInv
  <2> QED
    BY <2>2, <2>3, <2>4 DEF SessionIsSound
<1> QED
  BY <1>1, <1>2, <1>3, <1>4, <1>5

\* The owner's calls, and the end of the drain.
LEMMA OwnerEffect ==
    ASSUME SessionIsSound,
           \/ Broker!Arm \/ Broker!Attach \/ Broker!Complete \/ Broker!CloseAndDrain
           \/ Broker!OwnerNotified \/ Broker!Drained
           \/ Broker!Armed /\ ~failed /\ ledger = Broker!NoLedger
    PROVE  SessionIsSound'
<1> USE DEF Broker!States, Broker!InService
<1>0. HandlersInv /\ EntriesInv /\ SessionInv
  BY DEF SessionIsSound
<1>1. UNCHANGED <<pc, seq, size, started, entries, observed, validated, fetched>> /\ (failed => failed')
  BY DEF Broker!Arm, Broker!Attach, Broker!Complete, Broker!CloseAndDrain, Broker!OwnerNotified,
         Broker!Drained, Broker!Armed, Broker!FailSession, Broker!FailsFirst, Broker!handlers,
         Broker!budget, Broker!evidence, Broker!session
<1>2. HandlersInv' /\ EntriesInv'
  BY <1>0, <1>1 DEF HandlersInv, EntriesInv
<1>3. SessionInv'
  <2>1. CASE Broker!Complete
    <3>1. UNCHANGED <<server, attached>>
      BY <2>1 DEF Broker!Complete, Broker!listener
    <3>2. CASE Broker!CanComplete
      <4>1. /\ state = "armed" /\ Cardinality(entries) = started /\ state' = "complete"
            /\ UNCHANGED <<failed, notifying>>
        <5>1. Cardinality(entries) = Broker!Cardinality(entries)
          BY DEF Cardinality, Broker!Cardinality
        <5> QED
          BY <2>1, <3>2, <5>1 DEF Broker!Complete, Broker!CanComplete
      <4>2. ledger' = [count |-> started, bytes |-> committed]
        BY <2>1, <3>2 DEF Broker!Complete
      <4>3. ledger'.count = started
        BY <4>2
      <4> QED
        BY <1>0, <1>1, <3>1, <4>1, <4>3 DEF SessionInv
    <3>3. CASE ~Broker!CanComplete
      <4>1. state' = "failing" /\ failed' /\ state # "complete" /\ UNCHANGED ledger
        BY <2>1, <3>3 DEF Broker!Complete, Broker!FailSession, Broker!FailsFirst
      <4> QED
        BY <1>0, <1>1, <3>1, <4>1 DEF SessionInv
    <3> QED
      BY <3>2, <3>3
  <2>2. CASE \/ Broker!Arm \/ Broker!OwnerNotified
             \/ Broker!Armed /\ ~failed /\ ledger = Broker!NoLedger
    <3>1. /\ UNCHANGED <<server, attached, ledger, failed>>
          /\ UNCHANGED notifying \/ ~notifying'
          /\ \/ UNCHANGED state \/ (state' = "incomplete" /\ notifying)
             \/ state' = "armed" /\ ~failed /\ ledger = Broker!NoLedger
      BY <2>2 DEF Broker!Arm, Broker!OwnerNotified, Broker!Armed, Broker!listener
    <3> QED
      BY <1>0, <1>1, <3>1 DEF SessionInv
  <2>3. CASE Broker!Attach \/ Broker!CloseAndDrain \/ Broker!Drained
    BY <1>0, <1>1, <2>3 DEF SessionInv, Broker!Attach, Broker!CloseAndDrain, Broker!Drained,
                            Broker!session
  <2> QED
    BY <2>1, <2>2, <2>3
<1> QED
  BY <1>2, <1>3 DEF SessionIsSound

\* The calls of the broker are made where the owner is at the step they belong to, between the
\* handlers' turns.
OwnerCalls ==
    /\ Quiet
    /\ \/ UNCHANGED brokerVars
       \/ Broker!Arm /\ step = "arm"
       \/ Broker!Armed /\ step = "broker_armed"
       \/ Broker!Attach /\ step = "attach" /\ step' = "starting"
       \/ Broker!Complete /\ step = "complete"
       \/ Broker!CloseAndDrain /\ step' \in {"refused", "draining", "shutdown"}

HandlerMoves(r) ==
    /\ LoopRuns
    /\ \/ Broker!Reject(r) \/ Broker!Malformed(r)
       \/ npm.child # "none" /\ \E p \in Packages : Broker!OverLimit(r, p) \/ Broker!Reserve(r, p)
       \/ \E n \in Nat : Broker!Fetched(r, n)
       \/ Broker!FetchFails(r) \/ Broker!IntentRecorded(r) \/ Broker!ResponseRecorded(r)
       \/ Broker!FailureAnswered(r)

\* A request, an answer of the registry and a turn of a handler are moves of the broker.
LEMMA RequestMoves ==
    ASSUME NEW r \in Requests, Request(r) \/ Respond(r) \/ Handle(r)
    PROVE  HandlerMoves(r)
<1>1. LoopRuns
  BY DEF Request, Respond, Handle
<1>2. ASSUME NEW n \in 1..ResponseBytes PROVE n \in Nat
  BY <1>2
<1> QED
  BY <1>1, <1>2 DEF HandlerMoves, Request, Respond, Handle

\* Every step of the run is one of the broker, or leaves it alone.
LEMMA BrokerMoves ==
    ASSUME IInv, Next
    PROVE  \/ OwnerCalls
           \/ UNCHANGED step /\ UNCHANGED brokerVars
           \/ step \in Attended /\ step' \in {"npm_terminal_observed", "failing"} /\ UNCHANGED brokerVars
           \/ UNCHANGED step /\ \E r \in Requests : HandlerMoves(r)
           \/ UNCHANGED step /\ (Broker!OwnerNotified \/ Broker!Drained)
<1> USE DEF Goto, Throw, Proceed, Rejected, facts, flow
<1>1. CASE Owner
  <2>1. Quiet /\ OwnerStep
    BY <1>1 DEF Owner
  <2>2. CASE Prepares \/ Record \/ CreateSession \/ OperationFails \/ LookAgain \/ Asks
    <3>1. UNCHANGED brokerVars
      BY <2>2 DEF Prepares, CreateRoot, Capture, ProbeHost, ProbeVersions, Initialize,
                  ProbeContainment, Bind, Record, CreateSession, OperationFails, LookAgain, Asks, Ask,
                  RecordRequest, Resume, Resolve, Block, Decided, Authorize
    <3> QED
      BY <2>1, <3>1 DEF OwnerCalls
  <2>3. CASE Refuse \/ Starts \/ Catches
    <3>1. \/ UNCHANGED brokerVars
          \/ Broker!Arm /\ step = "arm"
          \/ Broker!Armed /\ step = "broker_armed"
          \/ Broker!Attach /\ step = "attach" /\ step' = "starting"
          \/ Broker!CloseAndDrain /\ step' \in {"refused", "shutdown"}
      BY <2>3 DEF Refuse, Starts, Arm, BrokerArmed, Attach, Spawn, RecordStart, WaitExpires,
                  RecordExit, Catches, Catch, Recover, RecordFailure, Report
    <3> QED
      BY <2>1, <3>1 DEF OwnerCalls
  <2>4. CASE Finishes
    <3>1. \/ UNCHANGED brokerVars
          \/ Broker!Complete /\ step = "complete"
          \/ Broker!CloseAndDrain /\ step' = "draining"
      BY <2>4 DEF Finishes, Drain, Complete, Inspect, Compile, Assemble, WriteArtifact,
                  CleanWorkspace, RemoveRoot, PrepareTerminal, Commit, Reconcile
    <3> QED
      BY <2>1, <3>1 DEF OwnerCalls
  <2> QED
    BY <2>1, <2>2, <2>3, <2>4 DEF OwnerStep, Prepares, Asks, Starts, Finishes, Catches
<1>2. CASE People \/ Child \/ Drifts
  BY <1>2 DEF People, Interrupt, HumanDecides, TimerFires, Tick, Child, StopChild, ForceKill,
              ChildCloses, Drifts, Drift
<1>3. CASE BrokerSettles
  BY <1>3 DEF BrokerSettles
<1>4. ASSUME NEW r \in Requests, Request(r) \/ Respond(r) \/ Handle(r)
      PROVE  UNCHANGED step /\ HandlerMoves(r)
  BY <1>4, RequestMoves DEF Request, Respond, Handle
<1> QED
  BY <1>1, <1>2, <1>3, <1>4 DEF Next, People, Child, Serves, Drifts

\* The steps at which the listener no longer listens.
Closing == {"refused", "leaving", "draining"} \cup Drained \cup (Late \ {"failing"})

\* How the owner gets to them.
LEMMA StepMoves ==
    ASSUME IInv, Next
    PROVE  /\ step' \in Closing => step \in Closing \/ server' # "listening"
           /\ step' \in Drained => step \in Drained \/ (step = "draining" /\ server = "drained" /\ UNCHANGED brokerVars)
           /\ step' \in Ledgered => \/ step \in Ledgered
                                    \/ step = "complete" /\ ledger' # Broker!NoLedger
           /\ step' = "done" => step = "done" \/ (Quiet /\ UNCHANGED brokerVars)
<1> USE DEF Goto, Throw, Proceed, Rejected, facts, flow, Closing
<1> DEFINE Conclusion ==
           /\ step' \in Closing => step \in Closing \/ server' # "listening"
           /\ step' \in Drained => step \in Drained \/ (step = "draining" /\ server = "drained" /\ UNCHANGED brokerVars)
           /\ step' \in Ledgered => \/ step \in Ledgered
                                    \/ step = "complete" /\ ledger' # Broker!NoLedger
           /\ step' = "done" => step = "done" \/ (Quiet /\ UNCHANGED brokerVars)
<1> SUFFICES Conclusion
  OBVIOUS
<1>1. CASE UNCHANGED step \/ step' \notin Closing
  BY <1>1
<1> HIDE DEF Conclusion
<1>2. CASE Owner
  <2>1. Quiet /\ OwnerStep
    BY <1>2 DEF Owner
  <2>2. CASE Prepares \/ OperationFails \/ LookAgain \/ CreateSession \/ Asks \/ Starts
    BY <1>1, <2>2 DEF Prepares, CreateRoot, Capture, ProbeHost, ProbeVersions, Initialize,
                ProbeContainment, Bind, CreateSession, OperationFails, LookAgain, Asks, Ask,
                RecordRequest, Resume, Resolve, Block, Decided, Authorize, FailCall, Starts, Arm,
                BrokerArmed, Attach, Spawn, RecordStart, WaitExpires, RecordExit
  <2>3. CASE Record
    BY <1>1, <2>3 DEF Record, AfterRecord, Conclusion
  <2>4. CASE Refuse
    BY <2>1, <2>4 DEF Refuse, Conclusion, Broker!CloseAndDrain
  <2>5. CASE Drain
    BY <2>5 DEF Drain, Conclusion, Broker!CloseAndDrain
  <2>6. CASE Complete
    BY <2>6 DEF Complete, Conclusion
  <2>7. CASE Finishes /\ ~Drain /\ ~Complete
    BY <2>1, <2>7 DEF Finishes, Inspect, Compile, Assemble, WriteArtifact,
                  CleanWorkspace, RemoveRoot, PrepareTerminal, Commit, Reconcile, Conclusion
  <2>8. CASE Catches
    BY <2>1, <2>8 DEF Catches, Catch, Recover, RecordFailure, Report, Conclusion,
                      Broker!CloseAndDrain, brokerVars
  <2> QED
    BY <2>1, <2>2, <2>3, <2>4, <2>5, <2>6, <2>7, <2>8
    DEF OwnerStep, Prepares, Asks, Starts, Finishes, Catches
<1>3. CASE People \/ Child \/ Serves \/ Drifts
  BY <1>1, <1>3 DEF People, Interrupt, HumanDecides, TimerFires, Tick, Child, StopChild, ForceKill,
              ChildCloses, Drifts, Drift, Serves, Request, Respond, Handle, BrokerSettles
<1> QED
  BY <1>2, <1>3 DEF Next, People, Child, Serves, Drifts

\* A drained listener has no handler and takes no request.
LEMMA DrainedIsQuiet ==
    ASSUME HandlersInv, SessionInv, server = "drained", NEW r \in Requests
    PROVE  ~HandlerMoves(r)
BY DEF HandlersInv, SessionInv, Broker!InService, HandlerMoves, Broker!Reject, Broker!Malformed,
       Broker!OverLimit, Broker!Reserve, Broker!Arrives, Broker!Fetched, Broker!FetchFails,
       Broker!IntentRecorded, Broker!ResponseRecorded, Broker!FailureAnswered

\* What a handler may do to the run.
LEMMA HandlerLinks ==
    ASSUME BrokerInv, NEW r \in Requests, HandlerMoves(r)
    PROVE  /\ UNCHANGED <<ledger, server>> /\ (attached' => attached)
           /\ (\E q \in Requests : pc'[q] = "intent") => 
                (\E q \in Requests : pc[q] = "intent") \/ (attached /\ npm.child # "none")
           /\ fetched' # {} => fetched # {} \/ \E q \in Requests : pc[q] = "intent"
           /\ ~npm.requested => /\ ~failed' /\ ~attached'
                                /\ \A q \in Requests : ~(Broker!InService(q))'
<1> USE DEF Broker!InService
<1>0. pc \in [Requests -> Broker!HandlerSteps]
  BY DEF BrokerInv, HandlersInv
<1>1. CASE Broker!Reject(r)
  BY <1>0, <1>1 DEF BrokerInv, Broker!Reject, Broker!Answer, Broker!session, Broker!evidence, Broker!listener
<1>2. CASE Broker!Malformed(r) \/ \E p \in Packages : Broker!OverLimit(r, p)
  <2>1. /\ attached /\ UNCHANGED <<ledger, server, fetched>>
        /\ pc' = [pc EXCEPT ![r] = IF Broker!FailsFirst THEN "notifying" ELSE "failing"]
    BY <1>2 DEF Broker!Malformed, Broker!OverLimit, Broker!Throw, Broker!evidence, Broker!listener
  <2> QED
    BY <1>0, <2>1 DEF BrokerInv
<1>3. CASE npm.child # "none" /\ \E p \in Packages : Broker!Reserve(r, p)
  <2>1. attached /\ UNCHANGED <<ledger, server, fetched, attached>>
    BY <1>3 DEF Broker!Reserve, Broker!session, Broker!listener
  <2> QED
    BY <1>3, <2>1 DEF BrokerInv
<1>4. CASE \/ Broker!FetchFails(r) \/ Broker!IntentRecorded(r) \/ Broker!ResponseRecorded(r)
           \/ \E n \in Nat : Broker!Fetched(r, n)
  <2>1. /\ pc[r] \in {"intent", "fetching", "validating"} /\ UNCHANGED <<ledger, server, attached>>
        /\ UNCHANGED fetched \/ pc[r] = "intent"
        /\ \E x \in {"notifying", "failing", "fetching", "validating", "done"} :
             pc' = [pc EXCEPT ![r] = x]
    BY <1>4 DEF Broker!FetchFails, Broker!IntentRecorded, Broker!ResponseRecorded, Broker!Fetched,
                Broker!Throw, Broker!PushEntry, Broker!Answer, Broker!evidence, Broker!listener
  <2> QED
    BY <1>0, <2>1 DEF BrokerInv
<1>5. CASE Broker!FailureAnswered(r)
  <2>1. /\ pc[r] \in {"notifying", "failing"} /\ UNCHANGED <<ledger, server, fetched>>
        /\ pc' = [pc EXCEPT ![r] = "done"] /\ ~attached'
    BY <1>5 DEF Broker!FailureAnswered, Broker!Answer, Broker!evidence
  <2> QED
    BY <1>0, <2>1 DEF BrokerInv
<1> QED
  BY <1>1, <1>2, <1>3, <1>4, <1>5 DEF HandlerMoves

\* The session stays sound and goes with the run; a drained broker is final.
LEMMA BrokerStep ==
    ASSUME IInv, Next
    PROVE  /\ BrokerInv'
           /\ server = "drained" => UNCHANGED <<server, fetched, observed, validated, entries, started>>
           /\ step # "complete" => UNCHANGED ledger
           /\ step = "done" /\ fetched' # {} => fetched # {}
<1>0. BrokerInv /\ SessionIsSound /\ NpmInv /\ HandlersInv /\ EntriesInv /\ SessionInv
  BY DEF IInv, BrokerInv, SessionIsSound
<1>a. /\ npm.requested => npm'.requested
      /\ npm'.requested => npm.requested \/ (step = "attach" /\ step' = "starting")
      /\ npm.child # "none" => npm'.child # "none"
  BY NpmMoves
<1>b. step \in Closing => server # "listening"
  BY <1>0 DEF BrokerInv, Closing
<1>1. CASE UNCHANGED brokerVars
  <2>1. SessionIsSound'
    BY <1>0, <1>1 DEF SessionIsSound, HandlersInv, EntriesInv, SessionInv, brokerVars, Broker!InService
  <2>2. UNCHANGED <<failed, attached, pc, fetched, server, ledger, observed, validated, entries, started>>
    BY <1>1 DEF brokerVars
  <2> QED
    BY <1>0, <1>a, <1>b, <2>1, <2>2, StepMoves DEF BrokerInv, SessionIsSound, Closing, Quiet, Broker!InService
<1>2. CASE OwnerCalls /\ ~(UNCHANGED brokerVars)
  <2>1. SessionIsSound'
    <3>1. step = "broker_armed" => ~failed /\ ledger = Broker!NoLedger
      BY <1>0 DEF BrokerInv, NpmInv
    <3> QED
      BY <1>0, <1>2, <3>1, OwnerEffect DEF OwnerCalls
  <2>2. /\ UNCHANGED <<pc, fetched, observed, validated, entries, started>>
        /\ server # "listening" => UNCHANGED server
        /\ step # "complete" => UNCHANGED <<ledger, failed>>
        /\ step # "attach" => (attached' => attached)
    BY <1>2 DEF OwnerCalls, Broker!Arm, Broker!Armed, Broker!Attach, Broker!Complete,
                Broker!CloseAndDrain, Broker!handlers, Broker!budget, Broker!evidence,
                Broker!session, Broker!listener
  <2>3. step = "attach" /\ step' = "starting" => npm'.requested
    BY NpmStep DEF NpmInv
  <2>4. step = "complete" => npm.requested
    BY <1>0 DEF NpmInv
  <2>5. step = "attach" => npm'.requested \/ (attached' => attached)
    BY <1>2, <2>3 DEF OwnerCalls, Broker!Arm, Broker!Armed, Broker!Complete, Broker!CloseAndDrain
  <2>6. step \in Ledgered => step # "complete"
    OBVIOUS
  <2> QED
    BY <1>0, <1>a, <1>b, <1>2, <2>1, <2>2, <2>3, <2>4, <2>5, <2>6, StepMoves
    DEF BrokerInv, SessionIsSound, Closing, Broker!InService
<1>3. ASSUME NEW r \in Requests, HandlerMoves(r), UNCHANGED step PROVE
           /\ BrokerInv'
           /\ server = "drained" => UNCHANGED <<server, fetched, observed, validated, entries, started>>
           /\ step # "complete" => UNCHANGED ledger
           /\ step = "done" /\ fetched' # {} => fetched # {}
  <2>1. server # "drained"
    BY <1>0, <1>3, DrainedIsQuiet
  <2>2. SessionIsSound'
    BY <1>0, <1>3, ArrivalEffect, HandlerEffect DEF HandlerMoves
  <2>3. attached => server = "listening"
    BY <1>0 DEF SessionInv
  <2> QED
    BY <1>0, <1>a, <1>b, <1>3, <2>1, <2>2, <2>3, HandlerLinks DEF BrokerInv, SessionIsSound, Closing
<1>4. CASE UNCHANGED step /\ (Broker!OwnerNotified \/ Broker!Drained)
  <2>1. SessionIsSound'
    BY <1>0, <1>4, OwnerEffect
  <2>2. /\ UNCHANGED <<failed, attached, pc, fetched, ledger, observed, validated, entries, started>>
        /\ server # "listening" => server' # "listening"
        /\ server = "drained" => server' = "drained"
    BY <1>4 DEF Broker!OwnerNotified, Broker!Drained, Broker!handlers, Broker!budget, Broker!evidence,
                Broker!session, Broker!listener
  <2> QED
    BY <1>0, <1>a, <1>b, <1>4, <2>1, <2>2 DEF BrokerInv, SessionIsSound, Closing, Broker!InService
<1> QED
  BY <1>1, <1>2, <1>3, <1>4, BrokerMoves

-----------------------------------------------------------------------------
(* Success, the row and the result. *)

\* What the owner knows of the end is written where it comes to know it, and kept.
LEMMA FlagsStep ==
    ASSUME IInv, Next
    PROVE  /\ verdict.attempted => verdict'.attempted
           /\ verdict'.attempted => verdict.attempted \/ step = "prepare"
           /\ files.output => files'.output
           /\ server = "drained" => log'.late = log.late
           /\ step # "session_created" => log'.bound = log.bound
           /\ step # "terminal" => verdict'.unknown = verdict.unknown
           /\ step' # "done" \/ step = "done" => verdict'.result = verdict.result
           /\ step \in {"closing", "reconciling"} \cup Late => step' \in {"closing", "reconciling"} \cup Late
           /\ step = "done" => step' = "done"
           /\ step' = "report" => step \in {"report", "terminal"}
           /\ step' \in Refused => step \in Refused \cup {"block"}
           /\ step' = "commit" => step \in {"commit", "prepare"}
<1> USE DEF Goto, Throw, Proceed, Rejected, facts, flow
<1>0. log \in Logs /\ files \in Files /\ verdict \in Verdicts
  BY DEF IInv, RecordsInv
<1> DEFINE Flags ==
      /\ verdict.attempted => verdict'.attempted
      /\ verdict'.attempted => verdict.attempted \/ step = "prepare"
      /\ files.output => files'.output
      /\ step # "terminal" => verdict'.unknown = verdict.unknown
      /\ step' # "done" \/ step = "done" => verdict'.result = verdict.result
    Logged ==
      /\ server = "drained" => log'.late = log.late
      /\ step # "session_created" => log'.bound = log.bound
    Walked ==
      /\ step \in {"closing", "reconciling"} \cup Late => step' \in {"closing", "reconciling"} \cup Late
      /\ step = "done" => step' = "done"
      /\ step' = "report" => step \in {"report", "terminal"}
      /\ step' \in Refused => step \in Refused \cup {"block"}
      /\ step' = "commit" => step \in {"commit", "prepare"}
<1> SUFFICES Flags /\ Logged /\ Walked
  OBVIOUS
<1>1. CASE Prepares \/ Asks
  BY <1>0, <1>1 DEF Prepares, CreateRoot, Capture, ProbeHost, ProbeVersions, Initialize,
              ProbeContainment, Bind, Asks, Ask, RecordRequest, Resume, Resolve, Block, Decided,
              Authorize, FailCall, Files
<1>2. CASE Record \/ CreateSession
  <2>1. Logged
    BY <1>0, <1>2 DEF Record, CreateSession, Noted, Logs
  <2>2. Walked
    BY <1>2 DEF Record, CreateSession, AfterRecord
  <2>3. Flags
    BY <1>2 DEF Record, CreateSession
  <2> QED
    BY <2>1, <2>2, <2>3
<1>3. CASE OperationFails \/ LookAgain
  <2>1. Flags /\ Logged
    BY <1>0, <1>3 DEF OperationFails, LookAgain, Files, Verdicts
  <2>2. Walked
    BY <1>3 DEF OperationFails, LookAgain, Plan!Looks
  <2> QED
    BY <2>1, <2>2
<1>4. CASE Refuse \/ Catches
  <2>1. Flags
    BY <1>0, <1>4 DEF Refuse, Catches, Catch, Recover, RecordFailure, Report, Files, Verdicts
  <2>2. Logged /\ Walked
    BY <1>4 DEF Refuse, Catches, Catch, Recover, RecordFailure, Report
  <2> QED
    BY <2>1, <2>2
<1>5. CASE Starts
  <2>1. Logged
    BY <1>0, <1>5 DEF Starts, Arm, BrokerArmed, Attach, Spawn, RecordStart, WaitExpires,
                      RecordExit, Noted, Logs
  <2>2. Flags /\ Walked
    BY <1>5 DEF Starts, Arm, BrokerArmed, Attach, Spawn, RecordStart, WaitExpires, RecordExit
  <2> QED
    BY <2>1, <2>2
<1>6. CASE Finishes
  <2>1. Flags
    BY <1>0, <1>6 DEF Finishes, Drain, Complete, Inspect, Compile, Assemble, WriteArtifact,
                  CleanWorkspace, RemoveRoot, PrepareTerminal, Commit, Reconcile, Files, Verdicts
  <2>2. Logged /\ Walked
    BY <1>6 DEF Finishes, Drain, Complete, Inspect, Compile, Assemble, WriteArtifact,
                  CleanWorkspace, RemoveRoot, PrepareTerminal, Commit, Reconcile
  <2> QED
    BY <2>1, <2>2
<1>7. CASE People \/ Child \/ Drifts \/ BrokerSettles
  BY <1>7 DEF People, Interrupt, HumanDecides, TimerFires, Tick, Child, StopChild, ForceKill,
              ChildCloses, Drifts, Drift, BrokerSettles
<1>8. ASSUME NEW r \in Requests, Request(r) \/ Respond(r) \/ Handle(r)
      PROVE  Flags /\ Logged /\ Walked
  <2>1. UNCHANGED <<step, files, verdict>>
    BY <1>8 DEF Request, Respond, Handle
  <2>2. server # "drained"
    <3>1. HandlersInv /\ SessionInv
      BY DEF IInv, BrokerInv
    <3>2. HandlerMoves(r)
      BY <1>8, RequestMoves
    <3> QED
      BY <3>1, <3>2, DrainedIsQuiet
  <2>3. log'.bound = log.bound
    <3>1. ASSUME NEW durable, Written(durable) PROVE log'.bound = log.bound
      BY <1>0, <3>1 DEF Written, Logs
    <3> QED
      BY <1>8, <3>1 DEF Request, Respond, Handle
  <2> QED
    BY <2>1, <2>2, <2>3
<1> QED
  BY <1>1, <1>2, <1>3, <1>4, <1>5, <1>6, <1>7, <1>8
  DEF Next, Owner, OwnerStep, Prepares, Asks, Starts, Finishes, Catches, People, Child, Serves, Drifts

\* The action that leads to a step, where there is one.
LEMMA StepComesFrom ==
    ASSUME Next, step' # step
    PROVE  /\ step' = "commit" => PrepareTerminal
           /\ step' = "refusing" => Block
           /\ step' \in {"refused", "leaving"} => Refuse
           /\ step' = "report" => RecordFailure
           /\ step' = "done" => Refuse \/ Reconcile \/ Report
<1> USE DEF Goto, Throw, Proceed, Rejected, facts, flow
<1> DEFINE Elsewhere == step' \notin {"commit", "refusing", "refused", "leaving", "report", "done"}
<1>1. CASE Prepares \/ Record \/ CreateSession \/ OperationFails \/ LookAgain
  <2>1. Elsewhere
    BY <1>1 DEF Prepares, CreateRoot, Capture, ProbeHost, ProbeVersions, Initialize,
                ProbeContainment, Bind, Record, AfterRecord, CreateSession, OperationFails, LookAgain
  <2> QED
    BY <2>1
<1>2. CASE Asks \/ Starts
  <2>1. Block \/ Elsewhere
    BY <1>2 DEF Asks, Ask, RecordRequest, Resume, Resolve, Decided, Authorize, FailCall, Starts,
                Arm, BrokerArmed, Attach, Spawn, RecordStart, WaitExpires, RecordExit
  <2>2. Block => step' \in {"refusing", "failing"}
    BY DEF Block
  <2> QED
    BY <2>1, <2>2
<1>3. CASE Finishes
  <2>1. \/ Elsewhere \/ (PrepareTerminal /\ step' \in {"commit", "failing"})
        \/ Reconcile /\ step' \in {"reconciling", "done"}
    BY <1>3 DEF Finishes, Drain, Complete, Inspect, Compile, Assemble, WriteArtifact,
                  CleanWorkspace, RemoveRoot, PrepareTerminal, Commit, Reconcile
  <2> QED
    BY <2>1
<1>4. CASE Refuse \/ Catches
  <2>1. \/ Elsewhere \/ (RecordFailure /\ step' = "report") \/ (Report /\ step' = "done")
        \/ Refuse /\ step' \in {"refused", "leaving", "failing", "done"}
    BY <1>4 DEF Refuse, Catches, Catch, Recover, RecordFailure, Report
  <2> QED
    BY <2>1
<1>5. CASE People \/ Child \/ Drifts \/ Serves
  <2>1. Elsewhere
    BY <1>5 DEF People, Interrupt, HumanDecides, TimerFires, Tick, Child, StopChild, ForceKill,
              ChildCloses, Drifts, Drift, Serves, Request, Respond, Handle, BrokerSettles
  <2> QED
    BY <2>1
<1> QED
  BY <1>1, <1>2, <1>3, <1>4, <1>5
  DEF Next, Owner, OwnerStep, Prepares, Asks, Starts, Finishes, Catches, People, Child, Serves, Drifts

\* A success that was reached stays one: the broker is drained, the plan used, the child closed.
LEMMA SuccessStays ==
    ASSUME IInv, Next, Succeeded
    PROVE  Succeeded'
<1>1. step \in Committing \cup Late
  BY DEF IInv, FilesInv, Succeeded
<1>2. verdict'.attempted /\ files'.output /\ log'.late = log.late
  BY FlagsStep DEF Succeeded
<1>3. npm'.status = "completed"
  BY NpmMoves DEF Succeeded
<1>4. UNCHANGED <<server, observed, validated, ledger>>
  BY <1>1, BrokerStep DEF Succeeded
<1>5. Used(Plan!Subjects)'
  BY <1>1, UsedStep DEF UsedKept, Used, Succeeded
<1> QED
  BY <1>2, <1>3, <1>4, <1>5 DEF Succeeded

\* prepareAtomicTerminalSuccess() finds the audit of a success.
LEMMA SuccessIsReached ==
    ASSUME IInv, Next, step = "prepare", step' = "commit"
    PROVE  Succeeded'
<1>1. PrepareTerminal
  BY StepComesFrom
<1>2. /\ RecordsInv /\ FilesInv /\ PlanInv /\ NpmInv /\ BrokerInv
  BY DEF IInv
<1>3. /\ CompleteAudit /\ verdict'.attempted
      /\ UNCHANGED <<planVars, brokerVars, log, npm, files>>
  BY <1>1, <1>2 DEF PrepareTerminal, RecordsInv, Verdicts, Goto, Throw
<1>4. npm'.status = "completed" /\ server' = "drained" /\ ledger' # Broker!NoLedger
  BY <1>2, <1>3 DEF NpmInv, BrokerInv, brokerVars
<1>5. observed' # {} /\ validated' = observed' /\ ~log'.late
  BY <1>3 DEF CompleteAudit, brokerVars
<1>6. files'.output
  BY <1>2, <1>3 DEF FilesInv
<1>7. Used(Plan!Subjects)'
  <2>1. Used(Plan!Bound) /\ Used({"database"}) /\ Used({"protected"}) /\ Used({"parent"})
    BY <1>2 DEF PlanInv
  <2> QED
    BY <1>3, <2>1 DEF Used, Plan!Subjects, Plan!Bound, planVars
<1> QED
  BY <1>3, <1>4, <1>5, <1>6, <1>7 DEF Succeeded

\* A row is complete only as a success, and a certain result has a finished row.
LEMMA RowStep ==
    ASSUME IInv, Next
    PROVE  RowInv'
<1>0. RowInv /\ RowsInv
  BY DEF IInv
<1>a. completed \subseteq completed' /\ outcomeEvents[Run] \subseteq outcomeEvents'[Run]
  BY AuditStep DEF RowGrows
<1>1. step' = "commit" => Succeeded'
  BY <1>0, FlagsStep, SuccessStays, SuccessIsReached DEF RowInv
<1>2. ASSUME status'[Run] = "completed"
      PROVE  /\ step' \in {"closing", "reconciling"} \cup Late
             /\ outcomeEvents'[Run] # {} /\ Run \in completed'
             /\ Succeeded'
  <2>1. CASE status[Run] = "completed"
    BY <1>0, <1>a, <2>1, FlagsStep, SuccessStays DEF RowInv
  <2>2. CASE status[Run] # "completed"
    BY <1>0, <1>2, <2>2, AuditStep, SuccessStays DEF RowInv
  <2> QED
    BY <2>1, <2>2
<1>3. ASSUME step' \in Refused PROVE Run \in completed'
  <2>1. CASE step \in Refused
    BY <1>0, <1>a, <2>1 DEF RowInv
  <2>2. CASE step = "block"
    <3>1. step' = "refusing"
      <4>1. step' \in {"refused", "leaving"} => Refuse
        BY <1>3, <2>2, StepComesFrom
      <4> QED
        BY <1>3, <2>2, <4>1 DEF Refuse
    <3>2. Block
      BY <2>2, <3>1, StepComesFrom
    <3>3. PICK st : Audit!MarkBlocked(Run, st)
      BY <3>1, <3>2 DEF Block, Throw
    <3> QED
      BY <1>0, <3>3, EndAudit
  <2> QED
    BY <1>3, <2>1, <2>2, FlagsStep
<1>4. ASSUME step' = "report"
      PROVE  /\ log'.bound /\ ~verdict'.unknown => Run \in completed'
             /\ verdict'.attempted => verdict'.unknown
  <2>1. CASE step = "report"
    BY <1>0, <1>a, <2>1, FlagsStep DEF RowInv
  <2>2. CASE step = "terminal"
    <3>1. RecordFailure
      BY <1>4, <2>2, StepComesFrom
    <3>2. verdict \in Verdicts
      BY DEF IInv, RecordsInv
    <3>3. PICK unknown \in BOOLEAN :
            /\ verdict' = [verdict EXCEPT !.unknown = unknown]
            /\ IF Unrecorded
               THEN unknown = (error = "audit" \/ verdict.attempted) /\ UNCHANGED auditVars
               ELSE IF unknown THEN FailureIsLost ELSE FailureIsRecorded
      BY <3>1 DEF RecordFailure
    <3>4. verdict'.unknown = unknown /\ verdict'.attempted = verdict.attempted /\ UNCHANGED log
      BY <3>1, <3>2, <3>3 DEF Verdicts, RecordFailure
    <3>5. verdict.attempted => unknown
      BY <3>3 DEF Unrecorded
    <3>6. log.bound /\ ~unknown => FailureIsRecorded
      BY <3>3 DEF Unrecorded
    <3>7. FailureIsRecorded => Run \in completed'
      BY <1>0, <1>a, EndAudit DEF FailureIsRecorded, RowsInv
    <3> QED
      BY <3>4, <3>5, <3>6, <3>7
  <2> QED
    BY <1>4, <2>1, <2>2, FlagsStep
<1> QED
  BY <1>1, <1>2, <1>3, <1>4 DEF RowInv

\* What safeResult() says of a read is not less than what happened.
LEMMA ResultEffect ==
    ASSUME IInv, NEW st
    PROVE  /\ Result(st).status = st
           /\ fetched # {} => Result(st).read
<1>1. fetched \subseteq observed
  BY DEF IInv, BrokerInv, EntriesInv
<1> QED
  BY <1>1 DEF Result, ReadStatus

\* The result is true when it is returned, and stays true.
LEMMA VerdictStep ==
    ASSUME IInv, Next
    PROVE  VerdictInv'
<1>0. /\ VerdictInv /\ RowInv /\ NpmInv /\ FilesInv /\ BrokerInv
      /\ verdict \in Verdicts /\ files \in Files /\ log \in Logs
  BY DEF IInv, RecordsInv
<1>a. ChildIsLive' => ChildIsLive \/ (step = "spawn" /\ step' = "started")
  BY NpmMoves
<1>1. CASE step' # "done"
  <2>1. step # "done" /\ verdict'.result = verdict.result
    BY <1>1, FlagsStep
  <2> QED
    BY <1>0, <1>1, <2>1 DEF VerdictInv, Returned
<1>2. CASE step = "done"
  <2>1. /\ step' = "done" /\ verdict'.result = verdict.result /\ log'.bound = log.bound
        /\ UNCHANGED <<status, completed>>
        /\ fetched' # {} => fetched # {}
    BY <1>2, FlagsStep, AuditStep, BrokerStep DEF RowKept
  <2> QED
    BY <1>0, <1>a, <1>2, <2>1 DEF VerdictInv, Returned, ResultIsRecorded
<1>3. CASE step # "done" /\ step' = "done"
  <2>0. UNCHANGED <<fetched, observed, validated, status, completed, outcomeEvents, npm, log>>
    <3>1. Refuse \/ Reconcile \/ Report
      BY <1>3, StepComesFrom
    <3> QED
      BY <1>3, <3>1 DEF Refuse, Reconcile, Report, Goto, Throw, auditVars, brokerVars
  <2>1. SUFFICES /\ fetched # {} => verdict'.result.read
                 /\ ChildIsLive => verdict'.result.status = "quarantined"
                 /\ verdict'.result.status = "complete" => status[Run] = "completed"
                 /\ log.bound /\ verdict'.result.status \in {"complete", "not_started", "failed", "incomplete"}
                      => Run \in completed
                 /\ status[Run] = "completed" => verdict'.result.status \in {"complete", "outcome_unknown"}
    BY <1>3, <2>0 DEF VerdictInv, ResultIsRecorded
  <2>2. CASE Refuse
    <3>1. step = "leaving" /\ verdict'.result = Result("not_started")
      BY <1>0, <1>3, <2>2 DEF Refuse, Goto, Throw, Verdicts
    <3>2. ~ChildIsLive /\ Run \in completed /\ status[Run] # "completed"
      BY <1>0, <3>1 DEF NpmInv, RowInv
    <3> QED
      BY <3>1, <3>2, ResultEffect
  <2>3. CASE Reconcile
    <3>1. PICK st \in {"complete", "outcome_unknown"} :
            /\ st = "complete" => ProofFound
            /\ verdict'.result = Result(st)
      BY <1>0, <1>3, <2>3 DEF Reconcile, Goto, Verdicts
    <3>2. step = "reconciling" /\ ~ChildIsLive
      BY <1>0, <1>3, <2>3 DEF Reconcile, Goto, FilesInv
    <3> QED
      BY <1>0, <3>1, <3>2, ResultEffect DEF ProofFound, RowInv
  <2>4. CASE Report
    <3>1. step = "report"
      BY <2>4 DEF Report
    <3>2. CASE verdict.attempted /\ ProofFound /\ verdict'.result = Result("complete")
      BY <1>0, <3>2, ResultEffect DEF FilesInv, ProofFound, RowInv
    <3>3. ASSUME NEW closeFails \in BOOLEAN,
                 verdict'.result = Result(Classify(verdict.unknown \/ closeFails))
          PROVE  /\ fetched # {} => verdict'.result.read
                 /\ ChildIsLive => verdict'.result.status = "quarantined"
                 /\ verdict'.result.status = "complete" => status[Run] = "completed"
                 /\ log.bound /\ verdict'.result.status \in {"complete", "not_started", "failed", "incomplete"}
                      => Run \in completed
                 /\ status[Run] = "completed" => verdict'.result.status \in {"complete", "outcome_unknown"}
      <4> DEFINE st == Classify(verdict.unknown \/ closeFails)
      <4>1. verdict'.result.status = st /\ (fetched # {} => verdict'.result.read)
        BY <3>3, ResultEffect
      <4>2. ChildIsLive => st = "quarantined"
        BY <1>0 DEF NpmInv, FilesInv, Classify, Quarantined
      <4>3. st # "complete"
        BY DEF Classify
      <4>4. st \in {"not_started", "failed", "incomplete"} => ~verdict.unknown
        BY DEF Classify
      <4>5. ASSUME status[Run] = "completed" PROVE st = "outcome_unknown"
        <5>1. verdict.attempted /\ verdict.unknown
          BY <1>0, <3>1, <4>5 DEF RowInv, Succeeded
        <5>2. ~Quarantined
          BY <1>0, <5>1 DEF FilesInv, Quarantined
        <5> QED
          BY <5>1, <5>2 DEF Classify
      <4> HIDE DEF st
      <4> QED
        BY <1>0, <3>1, <4>1, <4>2, <4>3, <4>4, <4>5 DEF RowInv
    <3> QED
      BY <1>0, <2>4, <3>2, <3>3 DEF Report, Verdicts
  <2> QED
    BY <1>3, <2>2, <2>3, <2>4, StepComesFrom
<1> QED
  BY <1>1, <1>2, <1>3

-----------------------------------------------------------------------------
(* The invariant, and what it says. *)

\* The ledger counts the reads: its entries are of different reads, and there are as many of
\* them as requests were admitted.
LEMMA LedgerCounts ==
    ASSUME IInv, ledger # Broker!NoLedger
    PROVE  ledger.count = Cardinality(fetched)
<1>1. /\ ledger.count = started /\ Cardinality(entries) = started /\ started \in Nat
      /\ fetched \subseteq 1..started
      /\ \A e \in entries : e.seq \in fetched
      /\ \A e1, e2 \in entries : e1.seq = e2.seq => e1 = e2
  BY DEF IInv, BrokerInv, HandlersInv, EntriesInv, SessionInv
<1>2. IsFiniteSet(fetched) /\ Cardinality(fetched) \in Nat /\ Cardinality(fetched) <= started
  <2>1. IsFiniteSet(1..started) /\ Cardinality(1..started) = started
    BY <1>1, FS_Interval
  <2>2. IsFiniteSet(fetched) /\ Cardinality(fetched) <= Cardinality(1..started)
    BY <1>1, <2>1, FS_Subset
  <2>3. Cardinality(fetched) \in Nat
    BY <2>2, FS_CardinalityType
  <2> QED
    BY <2>1, <2>2, <2>3
<1>3. Cardinality(entries) <= Cardinality(fetched)
  <2> DEFINE f == [e \in entries |-> e.seq]
  <2>1. f \in [entries -> fetched]
    BY <1>1
  <2>2. f \in Injection(entries, fetched)
    BY <1>1, <2>1 DEF Injection, IsInjective
  <2> HIDE DEF f
  <2> QED
    BY <1>2, <2>2, FS_Injection
<1> QED
  BY <1>1, <1>2, <1>3

\* The invariant holds when the owner is entered.
LEMMA InitInv ==
    ASSUME Init PROVE IInv
<1> USE DEF Init
<1>1. RecordsInv
  BY DEF RecordsInv, Logs, Npms, Files, Verdicts, Outcomes, NoResult, ReadStatuses, Statuses, Events
<1>2. TicketInv /\ ClosedInv
  BY DEF TicketInv, ClosedInv, Approvals!TicketInit
<1>3. RowsInv /\ status[Run] # "completed"
  BY DEF RowsInv, Audit!RecorderInit
<1>4. ApprovalInv /\ GateInv /\ NpmInv /\ FilesInv
  BY DEF ApprovalInv, GateInv, NpmInv, FilesInv
<1>5. PlanInv
  BY LookDomain DEF PlanInv, Plan!Init
<1>6. BrokerInv
  <2>1. HandlersInv
    BY DEF HandlersInv, Broker!Init, Broker!HandlerSteps
  <2>2. EntriesInv
    BY FS_EmptySet DEF EntriesInv, Broker!Init
  <2>3. SessionInv
    BY DEF SessionInv, Broker!Init, Broker!States
  <2> QED
    BY <2>1, <2>2, <2>3 DEF BrokerInv, Broker!Init, Broker!InService
<1>7. RowInv
  BY <1>3 DEF RowInv
<1>8. VerdictInv
  BY DEF VerdictInv, Returned
<1> QED
  BY <1>1, <1>2, <1>3, <1>4, <1>5, <1>6, <1>7, <1>8 DEF IInv

\* A stuttering step keeps it.
LEMMA StutterInv ==
    ASSUME IInv, UNCHANGED vars PROVE IInv'
<1> USE DEF vars, flow, facts
<1>1. RecordsInv' /\ TicketInv' /\ ClosedInv' /\ RowsInv'
  BY DEF IInv, RecordsInv, TicketInv, ClosedInv, RowsInv, approvalVars, auditVars
<1>2. ApprovalInv' /\ GateInv' /\ NpmInv' /\ FilesInv'
  BY DEF IInv, ApprovalInv, GateInv, NpmInv, FilesInv, IsApproved, IsAuthorized, approvalVars, auditVars
<1>3. PlanInv'
  BY DEF IInv, PlanInv, Used, planVars
<1>4. BrokerInv'
  BY DEF IInv, BrokerInv, HandlersInv, EntriesInv, SessionInv, Broker!InService, brokerVars
<1>5. RowInv'
  BY DEF IInv, RowInv, Succeeded, Used, planVars, auditVars, brokerVars
<1>6. VerdictInv'
  BY DEF IInv, VerdictInv, Returned, ResultIsRecorded, auditVars, brokerVars
<1> QED
  BY <1>1, <1>2, <1>3, <1>4, <1>5, <1>6 DEF IInv

\* Every reachable state of a run satisfies the invariant.
THEOREM Inductive == Spec => []IInv
<1>1. Init => IInv
  BY InitInv
<1>2. IInv /\ [Next]_vars => IInv'
  <2>1. ASSUME IInv, Next PROVE IInv'
    BY <2>1, RecordsStep, TicketStep, ClosedStep, AuditStep, ApprovalStep, GateStep, PlanStep,
       NpmStep, FilesStep, BrokerStep, RowStep, VerdictStep DEF IInv, TicketsKept, RowGrows
  <2> QED
    BY <2>1, StutterInv
<1> QED
  BY <1>1, <1>2, PTL DEF Spec

\* What is outside the process is touched only for what the person has approved and the audit
\* has recorded, whatever step the owner is at: npm and the registry have not been asked before
\* (stage/graph-genesis-live.ts, stage/graph-genesis-composition.ts).
THEOREM EffectsAreApproved == Spec => []EffectIsApproved
<1>1. ASSUME IInv PROVE EffectIsApproved
  <2> SUFFICES ASSUME npm.child # "none" \/ fetched # {} PROVE
        /\ approvalRow[Run] = "approved"
        /\ answers[Run] = {"approved"}
        /\ \E a \in authEvents[Run] : a.status = "authorized"
        /\ {"plan_ready", "broker_armed", "npm_spawn_intent_recorded"} \subseteq log.gate
        /\ Plan!Intact(Plan!Bound)
    BY DEF EffectIsApproved
  <2>1. npm.child # "none"
    BY <1>1 DEF IInv, BrokerInv
  <2>2. IsAuthorized /\ answers[Run] = {"approved"}
    BY <1>1, <2>1 DEF IInv, ApprovalInv, IsAuthorized, IsApproved, TicketInv
  <2>3. {"plan_ready", "broker_armed", "npm_spawn_intent_recorded"} \subseteq log.gate
    BY <1>1, <2>1 DEF IInv, GateInv
  <2>4. Plan!Intact(Plan!Bound)
    BY <1>1, <2>1 DEF IInv, PlanInv, Used, Plan!Intact
  <2> QED
    BY <2>2, <2>3, <2>4 DEF IsAuthorized, IsApproved
<1> QED
  BY <1>1, Inductive, PTL

\* A result never hides that the registry was read, and no read begins once the result is
\* returned, although listener and handlers outlive the owner.
THEOREM ReadsAreReported == Spec => []ReadIsReported
<1>1. ASSUME IInv PROVE ReadIsReported
  BY <1>1 DEF IInv, VerdictInv, ReadIsReported
<1> QED
  BY <1>1, Inductive, PTL

\* A run is complete, in its result or in its row, only if all of it succeeded, and a result that
\* claims to be certain is what the database says.
THEOREM ResultsAreReal == Spec => []ResultIsReal
<1>1. ASSUME IInv PROVE ResultIsRecorded
  <2>1. ~Returned => ResultIsRecorded
    BY <1>1 DEF Returned, NoResult, ResultIsRecorded
  <2>2. Returned => ResultIsRecorded
    BY <1>1 DEF IInv, VerdictInv
  <2> QED
    BY <2>1, <2>2
<1>2. ASSUME IInv PROVE CompleteIsReal
  <2> SUFFICES ASSUME verdict.result.status = "complete" \/ status[Run] = "completed"
               PROVE  /\ npm.exit = "zero" /\ npm.stopped = "none"
                      /\ ~failed /\ fetched = validated /\ ~log.late
                      /\ ledger.count = Cardinality(fetched)
                      /\ files.output /\ files.cleanup /\ ~files.root
                      /\ outcomeEvents[Run] # {} /\ Run \in completed
                      /\ Plan!Intact(Plan!Subjects)
    BY DEF CompleteIsReal
  <2>1. status[Run] = "completed"
    BY <1>2 DEF IInv, VerdictInv, Returned, NoResult
  <2>2. Succeeded /\ outcomeEvents[Run] # {} /\ Run \in completed
    BY <1>2, <2>1 DEF IInv, RowInv
  <2>3. npm.exit = "zero" /\ npm.stopped = "none"
    BY <1>2, <2>2 DEF IInv, NpmInv, Succeeded
  <2>4. ~failed /\ fetched = validated
    BY <1>2, <2>2 DEF IInv, BrokerInv, EntriesInv, SessionInv, Succeeded
  <2>5. ledger.count = Cardinality(fetched)
    BY <1>2, <2>2, LedgerCounts DEF Succeeded
  <2>6. files.cleanup /\ ~files.root
    BY <1>2, <2>2 DEF IInv, FilesInv, Succeeded
  <2>7. Plan!Intact(Plan!Subjects)
    BY <2>2 DEF Succeeded, Used, Plan!Intact
  <2> QED
    BY <2>2, <2>3, <2>4, <2>5, <2>6, <2>7 DEF Succeeded
<1> QED
  BY <1>1, <1>2, Inductive, PTL DEF ResultIsReal

\* Nothing is removed under a live child, a child that could not be stopped is reported, and a
\* run that has returned has no open ticket and no session.
THEOREM NothingIsLeft == Spec => []NothingLeftBehind
<1>1. ASSUME IInv PROVE NothingLeftBehind
  <2>1. ChildIsLive => files.root /\ ~files.cleanup
    BY <1>1 DEF IInv, FilesInv
  <2>2. ASSUME Returned
        PROVE  /\ ChildIsLive => verdict.result.status = "quarantined"
               /\ pending = {} /\ ~attached /\ server # "listening"
    <3>1. step = "done" /\ (ChildIsLive => verdict.result.status = "quarantined")
      BY <1>1, <2>2 DEF IInv, VerdictInv
    <3>2. pending = {}
      BY <1>1, <3>1 DEF IInv, ClosedInv, TicketInv
    <3>3. ~attached /\ server # "listening"
      BY <1>1, <3>1 DEF IInv, BrokerInv, SessionInv
    <3> QED
      BY <3>1, <3>2, <3>3
  <2> QED
    BY <2>1, <2>2 DEF NothingLeftBehind
<1> QED
  BY <1>1, Inductive, PTL
=============================================================================
