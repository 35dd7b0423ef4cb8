# A TLA+ model of Agent Permission Guard

Agent Permission Guard (APG) stands between an agent and the actions it wants to
take.  It is a proxy in front of an MCP server (`apg proxy`), a guarded
`npm install` (`apg install`) and an experimental, heavily bounded way of
building an exact dependency graph (`apg graph-genesis`).  All three ask a policy,
where needed ask a person in a local dashboard, and write what was decided and
what happened into an SQLite audit database from which receipts are exported.

The models here are written from the TypeScript source.  TLC checks them on small
instances; the theorems are proved with TLAPS for all values of the constants.

## 1. Inventory

Each part with the state it keeps, its operations, who it talks to, and what
makes it correct.

| part | source | state and operations | hard behaviour | correct if |
|---|---|---|---|---|
| Approval service | `approval/service.ts` | a map of pending tickets, one timer each; `request`, `requestHidden`, `publish`, `decide`, `cancel`, `close` | click, timer, cancellation and shutdown race; `Date` and the timer clock disagree | every ticket settles once, in time, and the dashboard is told what the caller got |
| Audit recorder | `audit/recorder.ts`, `audit/receipt.ts` | closure variables of a handle; rows of `tool_calls`, `approvals`, `audit_events`; `begin` and the `mark...` methods, one transaction each | a transaction fails, the process dies between two of them, a caller goes on after a throw | starts are authorized, evidence is exportable, finished rows are final |
| MCP gateway | `gateway/gateway.ts` | active calls and their abort signals; one async handler per `tools/call` | handlers interleave at every await; cancellation; database errors | nothing is released before its durable authorization, no answer is better than the record |
| Proxy process | `cli/main.ts`, `transport/` | closing flag; start-up and a six-step shutdown | shutdown while handlers run | components are closed in order, nothing is released afterwards |
| Live policy | `policy/live-controller.ts` | active policy, source, revision; the file; `update` | several processes, an editor, crash and power failure between system calls | the file is never torn, a save never undoes an edit it could see |
| Policy evaluation, risk | `policy/evaluator.ts`, `policy/matcher.ts`, `risk/scorer.ts` | none (pure) | several rules apply; precedence and ties; thresholds | the verdict depends on the rules and not on their order, ties go to the strictest, and evidence of risk is heeded |
| Dashboard | `dashboard/server.ts`, `dashboard/state-file.ts` | HTTP server, a capability file | requests interleave with handlers; two processes and one state file | decisions go to one ticket; a state file is removed only by its owner |
| Install Guard | `install/service.ts`, `install/runner.ts`, `install/verifier.ts` | one run: ticket, audit call, child process, timers | signal, timeout, exit and audit failure race | a process runs only if approved and recorded; success is real |
| Install resolution and planning | `install/npm-registry.ts`, `install/policy.ts`, `install/execution-plan.ts`, `install/verifier.ts` | a resolution and its verdict; a plan of identities and digests | the registry contradicts the request; files change after the plan and between two looks | only what was resolved exactly and approved is installed, over an unchanged plan |
| Audit database | `db/database.ts`, `db/migrate.ts` | schema version, WAL, pragmas | concurrent open, crash in a migration | migrations run once, in order |
| Receipts | `audit/portable-receipt.ts`, `audit/query-service.ts` | none | evidence left by a crash | export accepts exactly consistent evidence |
| MCP identity, launch | `identity/mcp-identity.ts`, `launch/upstream-launch.ts` | profiles, file identities | files change between check and spawn | what is spawned is what was checked |
| Graph Genesis | `stage/graph-genesis*.ts` | an approval session and its one-use lease, a metadata broker with limits, a supervised npm, a live owner, a plan of captured files | every await can be aborted; broker, child and owner fail independently; files change after their capture | external reads are recorded first and bounded; the result never understates what happened |
| Graph Genesis V2 | `stage/graph-genesis-v2-*.ts` | a session context, output intents with custody of a path, a listener, a seal, a journal, a child; a synthetic completion | two closes, revocation and deadlines meet every await; appends commit and throw | effects follow their evidence; the terminal proof is true; a close leaves nothing in use |
| Archive worker | `stage/bounded-archive-worker.ts`, `stage/archive-worker-entry.ts` | a child that parses an archive, frames and acknowledgements, a transcript, limits, deadlines | the child lies, dies, exits early or answers late; `abort()` gives up waiting | the parent accepts only what it has validated, and always ends |
| Materializer, acceptance | `stage/two-pass-materializer.ts`, `stage/read-only-artifact-acceptance.ts`, `stage/read-only-artifact-file.ts` | two inspections; a pending tree and its seal; downloaded files | a crash around the seal; other processes; clean-up that fails half-way | a seal or an acceptance is earned; what is left is reported |
| Stage foundations | `stage/state-machine.ts`, `stage/exact-production-graph*.ts`, `stage/peer-dependency-semantics.ts`, ... | a transition table; pure compilation | long legal call sequences; a worklist that grows while it is worked off, nearer copies, carets below 1.0.0 | no illegal transition; the graph is exactly the lock's |

How they interact: the gateway and Install Guard call the recorder
synchronously (one SQLite transaction per call) and await tickets of the
approval service; the dashboard decides tickets and saves the policy in the same
process; `close()` of the CLI ends everything in a fixed order.  All of it is
JavaScript: one callback at a time, interleaved at awaits.

## 2. Modules

| module | models |
|---|---|
| `OneShotTickets` | what an approval coordinator promises: open once, settle once, keep the result |
| `ApprovalService` | `LocalApprovalService`, one action per method, with a monotonic and a wall clock |
| `AuditRecorder` | the recorder and its handle, one action per method, every transaction may fail, the process may crash |
| `Gateway` | `tools/call` handlers composed with `ApprovalService` and `AuditRecorder` (`INSTANCE`), the client, the person, the upstream server and shutdown |
| `PolicyController` | the policy file, `update()` system call by system call, the dashboard's save request |
| `InstallGuard` | `InstallGuardService.run` and the controlled runner, composed with the same two modules |
| `MetadataBroker` | the Graph Genesis metadata broker: session, limits, durable intents, listener and drain, with an arbitrary owner |
| `GraphGenesisLive` | one production run of Graph Genesis: its owner with the catch block, session and lease, supervisor and audit gate, composed with `ApprovalService`, `AuditRecorder` and `MetadataBroker` |
| `PolicyEvaluation` | `matchPolicy()`, `scoreRisk()` and `evaluatePolicy()` as operators, with an order-free definition of what they should say; used by `PolicyController` |
| `InstallPolicy` | from the registry's answer to what a run may do: resolution, validation, risk, policy; used by `InstallGuard` |
| `InstallPlan` | what an install plan captures, each later look at it, and the changes others make in between; used by `InstallGuard` |
| `GraphGenesisPlan` | the same for Graph Genesis: runtime, trees, workspace, database, output directory; used by `GraphGenesisLive` |
| `GraphGenesisV2Session` | the V2 session context, its outputs, listener, preparation and authorization up to the seal |
| `GraphGenesisV2Execution` | the owner that consumes the seal, its journal, the child, and both closes; extends the session |
| `GraphGenesisV2Completion` | the synthetic completion: issue, capture, compile, reserve, write, finalize under any calls |
| `ExactGraph` | both compilers of a lock into an exact graph, versions, ranges and peer semantics as operators, with a definition of exactness that has no algorithm in it; used by `GraphGenesisV2Completion` |
| `ArchiveWorker` | the parent session of the bounded archive worker and its child, honest or not |
| `TwoPassMaterializer`, `ArtifactAcceptance` | the two users of the worker, each with its files, failures and whoever else changes them |
| `PackageStage` | either user composed with the worker |
| `ComponentProofs` | the theorems about `ApprovalService`, `AuditRecorder` and `MetadataBroker` |
| `GatewayProofs`, `PolicyControllerProofs`, `InstallGuardProofs`, `GraphGenesisLiveProofs`, `GraphGenesisV2CompletionProofs`, `GraphGenesisV2ExecutionProofs`, `PackageStageProofs` | the theorems about the module each is named after |
| `MC...` | instances for TLC |

Correspondence.  Variables are named after the fields they stand for and the
comment at each declaration says which.  Where the code runs to completion
without an await, one action is one call; in `Gateway` and `InstallGuard` a
handler's synchronous segment is split at every SQLite transaction, because a
transaction may fail and the process may die between two of them, and the
variable `running` (or the set of awaits) keeps other callbacks out of the
segment.  In `GraphGenesisLive` the variable `step` is the place of the owner in its one
async function: a step in `Waits` is a real await, at which signals, timers, npm,
the person and the request handlers run, and a step named after an audit event
records that event (`Record` and the table `AfterRecord`).  Each awaited operation
may throw, and a crash needs no action of its own: the safety properties hold in
every state, so also in the last one before a crash.  Receipts are abstracted to an id, a status and the id they extend;
arguments, risk, redaction and the hash chain are left out.  A policy text stands
for its hash.  Operators whose comment says "Mutant of" are not used by any
specification: they are faulty variants of the definition that follows them and
document which fault each property notices.

In the V2 modules and in `PackageStage` the components are records and each await
is a program-counter value, as in the code.  `GraphGenesisV2Session` lets all
outputs name one path, so that its custody is contended, and a recorder call may
commit, be rolled back, or commit and throw.  In `ArchiveWorker` a body is a length
and whether it hashes to what the transcript names; a dishonest child may send any
frame in any state, and an honest one sends those of the archive.  A plan is a
function from what it binds to `"first"` or `"other"`: a capture, and a look, is
one step per file or tree, because an await lies between two of them.

## 3. Runs

| run | expected | properties | shows |
|---|---|---|---|
| `approval` (`ApprovalService.cfg`) | pass | `AnswerIsOutcome`, `NoLateDecision`, `NoOrphanTicket`, `ImplementsOneShot`, `EveryTicketSettles` | Two tickets, three TTLs and two unsynchronised clocks: however decisions, timers, cancellations, clock changes and close() interleave, every ticket is answered once and in time, the expiry timer alone settles it in the end, and the service implements the one-shot contract. |
| `recorder` (`AuditRecorder.cfg`) | pass | `ExportNeverRefused`, `StartIsAuthorized`, `FinishedRowHasReceipts`, `FinishedIsFinal` | An arbitrary client of an audit handle, with failing transactions and crashes: the stored evidence stays exportable, starts are authorized, finished rows are explained and final. |
| `gateway` (`Gateway.cfg`) | pass | `ReleasedOnlyWhenAuthorized`, `RecordTellsTheStory`, `UsesComponents`, `EveryCallIsAnswered` | Two concurrent tools/call handlers with the person, cancellations, timers, a failing database, shutdown and a crash: nothing reaches the upstream server without its durable authorization, no answer is better than the record, and every request is answered even if nobody decides and the upstream server stays silent. With and without an approval coordinator. |
| `policy` (`PolicyController.cfg`) | pass | `SavedFileSurvives`, `JudgesSoundly`, `SavesOnlyOverKnownText` | Two processes saving one policy file while it is edited, processes die between system calls and the power fails: the file is never torn, an acknowledged save survives, a save replaces only what was loaded or appeared after the check, and no policy ever becomes active that judges a call by the order of its rules or more mildly than its foremost rule. |
| `install` (`InstallGuard.cfg`) | pass | `SpawnedOnlyWhenApproved`, `ResultIsReal`, `NothingLeftBehind`, `EveryRunEnds` | One install run with every answer of the registry, signals, timeouts, a failing database, two changes to what the plan binds and a crash at every await: a process is spawned only for a recorded, approved start of what was resolved and approved, success is never overstated, nothing is left behind, and every run ends. |
| `install_cancellation` (`InstallCancellation.cfg`) | violation | `CancellationIsNotSuccess` | A run cancelled while the private directory is prepared spawns npm all the same and reports success. |
| `broker` (`MetadataBroker.cfg`) | pass | `WithinBudget`, `LedgerIsFaithful`, `NothingAfterFailure`, `EveryRequestAnswered` | Three concurrent requests with failing audit writes, aborts, a late arm() and a drain: the limits hold for what is really read, every read is declared first, and nothing is committed after the first failure; every request is answered. |
| `genesis` (`GraphGenesisLive.cfg`) | pass | `EffectIsApproved`, `ReadIsReported`, `ResultIsReal`, `NothingLeftBehind`, `EveryRunEnds` | A whole production run with its approval, audit rows, broker and npm, every operation and two transactions of which may fail, aborted at any await: nothing happens outside before it is approved and recorded, no read is understated, complete is complete, and every run ends. |
| `genesis_failure` (`GraphGenesisFailure.cfg`) | violation | `NoReadAfterFirstFailure` | After the supervisor has met a failure (timeout, output limit, failed start record) the broker stays armed, and npm still causes reads from the registry until the listener is drained. |
| `v2_execution` (`GraphGenesisV2.cfg`) | pass | `EffectsAreCovered`, `ProofIsReal`, `ClosedMeansIdle`, `EverythingEnds` | The second Graph Genesis session with its authorization, its listener, its child and both closes in every order: effects follow their evidence, the terminal proof is true, a close ends the use first, and everything begun ends. |
| `v2_completion` (`GraphGenesisV2Completion.cfg`) | pass | `EvidenceIsWhole`, `CandidateIsExact`, `ProofHoldsWhenGiven` | The synthetic completion of 277 locks under calls in any order, failing writes, revocation, edits of the lock and interference with the output: one final outcome, an announced file, a candidate that is the exact graph of the lock, and a proof that is true when it is given. |
| `package_stage` (`PackageStage.cfg`) | pass | `SealIsEarned`, `AcceptedIsEarned`, `LeftoversAreReported`, `EveryJobEnds` | A materialization or an acceptance run over the worker protocol, with an honest or a lying child, failing files, another process of the user, cancellation and (for the materialization) a crash: what is sealed or accepted was earned, what is left is reported, and the job ends. |

A run that checks a liveness property checks its safety properties under the same
fair specification (the one with `Fair` in its name where the module has both; the
theorems are about the other, without fairness); fairness adds no reachable state.
Symmetry is used only where no liveness property is checked.

### Bounds

* `ApprovalService`: two tickets are enough for every race of two settlements and
  for `close()` with several pending tickets; TTLs 0 (refused), 1 and 2 give an
  expiry before and after another; the wall clock ranges over `0..MaxTime` and may
  be set at any time, so it is ahead of, behind and equal to every `expiresAt`.
* `AuditRecorder`: handles share no state, so one call suffices; `MaxEvents = 9` is
  above the longest legal sequence of rows, and two failing transactions allow a
  failure and the failure of its recovery.
* `Gateway`: two calls, two failing transactions, a TTL of 1;
  the wall clock is only advanced, since `ApprovalService` covers clock changes.
* `PolicyController`: two processes, two valid policies whose rules overlap and
  one with duplicate ids, two saves and one edit or power failure in any order.
  Every policy that becomes active judges 32 requests: two servers and
  tools covered and not covered by the patterns, with the signals of the scorer
  on both sides of each threshold.
* `InstallGuard`: the code handles one run per process.  The registry may give each
  kind of answer the policy tells apart; two changes of what the plan binds allow a
  change and its undoing, or two different changes; two lockfiles of two forms.
* `MetadataBroker`: three requests for two packages against limits of two at a
  time, one name, and bytes for two and a half responses, so that each limit is
  the one that refuses in some state.
* `GraphGenesisLive`: the code handles one run per process; two requests for two
  packages against a limit of one name, two failing transactions (one failure and
  the failure of its recovery), one change of a captured file and a ticket that may
  expire.  `MaxEvents` is above
  the longest run.
* `GraphGenesisV2Execution`: one output.  Two do not fit the time of a run, so
  two captures that meet on one path are not in it; everything that concerns one output
  and the context is (the theorems hold for any number).  The clock has the three instants the code
  tells apart: before the listener's deadline, after it, after the execution's.
* `GraphGenesisV2Completion`: 277 locks of up to five packages against a limit of
  four, in which a package meets another as a dependency, a required or an optional peer,
  beside it, nearer or not at all, in a version that is allowed or not, with each flag, and in
  a cycle; 31 of them compile (23 in the first version), some with packages that only a
  peer needs.  One edit of the lock, at any moment, so before or after any look at it.
* `PackageStage`: an archive of a directory, a file of two chunks in it and a
  manifest; a well-formed lie and four claims that break a rule each; limits the
  archive just meets; two artifacts; one interference by another process.

Deadlock is not checked where the system really stops: a crashed or finished
process, or a recorder whose calls are all finished.

### Fairness

`ApprovalService` and everything built on it assumes that time passes and that a
due timer is eventually run while the process lives (the event loop guarantees
that unless it is blocked).  `Gateway` assumes that the event loop goes on with a
handler that can go on and that the SDK's request timeout ends an unanswered
upstream call.  `InstallGuard` assumes in addition that a process group that was
sent SIGKILL closes.  `MetadataBroker`
assumes that suspended handlers are resumed and that the request timeout ends a
fetch.  `GraphGenesisLive` assumes
that the event loop goes on with the owner and that its timers run: the process
timeout, SIGKILL after it, the wait for the close event, the request and the drain
timeout.  It does not assume that a killed process closes.
`GraphGenesisV2Execution` assumes that time passes, that timers fire, so that
every wait with a deadline ends (the close of a listener, a revalidation, the wait for
the child, a release), and that the execution and both closes go on; it does not
assume that a read given up by its caller ever settles.  `PackageStage` assumes only that
the owner's event loop goes on (its file operations settle and its timers fire);
nothing of the child or the network.  Nothing is assumed of
the person, the client, the upstream
server, a child that was not killed, or whoever stops the process.

## 4. Disagreements with the documentation

* `install_cancellation`: ARCHITECTURE.md:224 lists cancellation as a non-success
  terminal result.  The runner checks the signal once and starts listening only
  after `spawn`; a signal in between is not seen and the run may complete.
* `genesis_failure`: the composition document (line 268) says that the first
  failure disarms new requests and aborts the transport.  A failure the supervisor
  meets (timeout, output limit, failing start record) only aborts the owner's
  controller, which stops npm; the broker stays armed until the listener is drained
  after the child has closed, so npm can cause further reads while it is stopping.
  They are declared, bounded and reported, and such a run never completes.

Observed while modelling, without a run of their own:

* README.md:237 says that APG refuses to overwrite external edits.  `update()`
  compares the file and replaces it later, so an edit between the two is lost;
  `SavesOnlyOverKnownText` is what does hold.
* The wiring-boundary document (line 118) demands that no durable audit await uses a
  stale `nextCommitted`, and calls it a reuse risk of the V1 broker.  Two responses
  whose validation records are awaited together lose one update of the ledger's
  byte total.  The byte limit does not depend on it (`WithinBudget`), and with the
  synchronous SQLite sink both must be delivered in one turn of the event loop.
* The composition document (line 280) has the supervisor revalidate after the
  durable spawn intent, and the code revalidates before it; line 421 names
  revalidation before authorization, arm and spawn, and the code has none at arm.
* The manifest digest the person approves covers the SQLite, migration and web trees
  and the package manifests; only the others are looked at again before the spawn.
* Between the last look at a plan and the start of the process there is always a window;
  Graph Genesis and Install Guard both have it, and the properties speak of the looks.
* When the second write of `createBoundAuditSession()` fails, the row stays at
  `evaluated`; a response validated after the exit of npm is noticed only by
  `assertCompleteAudit()`, after the artifact was written, and ends as
  `outcome_unknown`.
* `captureOutputIntent()` asks whether a path is taken before its awaits and takes
  it after them, and does not look at the context again: two captures can hold one
  path, and one can finish in a closed context, whose descriptor no close releases.

## 5. Proofs

A theorem is about a specification of the initial states and the steps, without fairness,
for every value of the constants.  The method is the same throughout: an inductive invariant
`IInv` that holds initially, that every action preserves, and that implies the
properties; each `IInv` was also checked with TLC, on a small instance.

`ComponentProofs` is about the three services that the flows are built from and that know
nothing of each other, each with an arbitrary client; their specifications have names of
their own (`TicketSpec`, `RecorderSpec`, and `Spec` for the broker), and no part uses
another.

* Tickets, for every set of tickets, TTLs and clock bound: type correctness, the three
  safety invariants of the run `approval`, and that the service implements
  `OneShotTickets` (`TicketsAreOneShot`).  The invariants are not inductive one by one:
  that an answer is the outcome needs that a settled ticket is no longer pending, and that
  needs that an unrequested ticket has neither an outcome nor an answer.  Assumptions:
  `TTLAssumption` and `MaxTimeAssumption` (naturals).
* Recorder, for every set of calls and any number of failing transactions: type
  correctness, the three invariants and the action property of the run `recorder`.  The
  guards of the methods look at memory while the properties speak of rows, so `CallInv(c)`
  ties the closure variables to the rows: what the handle believes was committed is what
  is stored (`MemoryMatchesRows`), what the one authorization says about decision and
  approval (`ReceiptMeaning`), and that the approval in memory is at most what the
  `approvals` row says (`ApprovalIsBacked`).  One lemma per method shows that it keeps
  `CallInv` of its own call and leaves the others alone.  Assumptions:
  `FailuresAssumption` and `EventsAssumption` (naturals).
* Broker, for any requests, packages and limits: type correctness, both invariants and the
  action property of the run `broker`.  The counters of a session say nothing by
  themselves, so `BrokerIInv` says what they count: the ordinals of the admitted requests
  are `1..started`, one each (`Ordinals`); `active` is the number of admitted handlers
  that have not ended (`Counters`); `reserved` is what was received plus a whole response
  for every admitted request that has not delivered, since a failed one never gives its
  reservation back (`Bytes`).  That a late `arm()` cannot revive a failed session
  (`Failure`) rests on the lease: an `arm()` that is still awaiting its record was called
  before the first request.  Assumption: `LimitsAssumption` (positive limits, one response
  fits).

`GatewayProofs` proves, for any number of calls and failing transactions, that only
authorized calls are released, that answers and records tell one story, and that every
step of the gateway is a step of the recorder and of the approval service or leaves them
alone (`ComponentsAreUsed`), so that what is proved of the two holds of those inside the
gateway (its bounds being naturals, as the components assume).  The guards of the composed module are those of the code, so `IInv` has to say
what the step of a handler implies for its audit handle and its ticket (`StepInv`), and
what is true of a call whatever its step (`CallInv`); a ticket is pending only while the
handler of its call has it.  Assumption: `GatewayAssumption` (a TTL is positive, as the
schema says).

`PolicyControllerProofs` proves type correctness, both invariants and the action
property of the run `policy`, for any processes, texts, saves and edits.  The file
part follows the temporary file through write, sync, rename and directory sync; a
rename only ever installs a synced file.  `JudgesAlwaysSoundly` is about the operators
and holds for every policy the schema accepts, not only for those of the run:
`compareRankedRules()` is a strict order that is total on different ids
(`ComparesFirstOrders`), a finite set has a minimal element in it (`FiniteMinimal`,
from the well-foundedness of finite subsets), so exactly one applicable rule wins
(`OneWinner`), whatever the order of the file.  Assumption: `PolicyAssumption` (texts
that parse are sequences of rules as the schema types them).

`InstallGuardProofs` proves the three invariants of the run `install`, whatever the
registry answers, npm leaves and others change.  `StepInv` and `RunnerInv` are the
same kind of invariant for the one run; `PlanInv` says that what was looked at is as
planned or was changed after its look, which makes `Plan!AsApproved` true at the
spawn.  Assumption: `InstallAssumption` (positive TTLs).

`GraphGenesisLiveProofs` proves the four invariants of the run `genesis`, for any
number of requests and limits.  The owner has more than sixty steps and nearly any may
throw into the catch block, which forgets the step.  What the steps after it need is
therefore said of the state: of a child that was started (`ApprovalInv`, `GateInv`,
`PlanInv`), of a success that was attempted (`FilesInv`), of a row that is complete
(`RowInv`, `Succeeded`).  `BrokerInv` holds what the owner needs of the broker's
session and ties its arming, listening and draining to the owner's step.  Each part of
`IInv` has a lemma that every step preserves it.  Assumption: `GenesisAssumption`
(positive TTLs).

`GraphGenesisV2CompletionProofs` proves `EvidenceIsWhole` and the action property of
the run `v2_completion` for any locks and any number of edits.  Until the terminal
attempt the phase determines the journal and the operation in flight (`Course`);
after it only an operation that was already in flight may come back, and it finds the
fence closed.  Assumption: `MaxEditsAssumption`.

`PackageStageProofs` proves the three invariants of the run `package_stage`, for any
archive, limits, number of artifacts and failures, and for children that send anything.
The parent never believes a child: `TrustedSession` says that the session of a child that
keeps to the protocol can end well only with the archive's own transcript, although the
parent checks frames only for their form.  Both jobs compare what two children said, so
one such child of the two is enough (`HonestInv` for the materializer, `PairInv` for the
acceptance).  `AuditInv`, `TreeInv` and `SealInv` follow the evidence, the tree and the
two names of the seal through failure and crash; `FileInv` and `CountInv` say which
artifact is downloaded, which file of it is left and how often it was counted.
Assumptions: `LimitsAssumption` (positive limits) and `ArchiveAssumption` (the archive is
a package's: it has a manifest file).

`GraphGenesisV2ExecutionProofs` proves the three invariants of the run `v2_execution` for
any number of output intents.  The audit chain has one writer after the other: authorize()
until the seal, the execution from the seal's consumption on (`OwnersInv`).  So the chain
is known exactly where an effect is about to happen, and it only grows afterwards
(`StoryInv`): a write that throws or is torn leaves through the catch block, with more in
the chain than was believed, never less.  `TerminalInv` is what the terminal proof rests on.
The closes never look at what runs; what makes them wait is that an unregistered output
cannot be prepared or executed again (`CustodyInv`), and that the listener of a running
execution is closed by nobody else (`LeavesListener`, an action condition every step of
another part satisfies), so that a close that has come past the stop finds the execution
ended (`ContextInv`).  Most steps belong to other parts than the one an invariant is about:
`OwnersKept`, `CustodyKept` and `ContextKept` say once what such a step may do, and one
lemma per action shows that it does no more.  There is no assumption on the constant.

The type invariant of `ApprovalService`, `AuditRecorder`, `MetadataBroker` and
`PolicyController` is proved and not repeated in the runs; in the others the types the proofs need are
part of the inductive invariant, or `TypeOK` documents the variables.

Only model-checked:

* the liveness properties of all runs: fairness and `ENABLED` are out of the prover's
  reach;
* `CandidateIsExact`: what the compilers of `ExactGraph` compute follows chains of
  dependencies, and a proof needs induction over them, which the prover does not have;
  of `InstallPolicy` it is proved, for every answer of the registry, that a verdict other
  than deny means sound metadata, and the rest is exercised on the answers of the run.

## 6. Not modelled

On purpose: formatting and argument parsing, HTML and static files, authentication
headers of the dashboard (request-local), redaction, hashing (a digest stands for
what it digests), Windows.

Because it is data without control:

* bindings, codecs, profiles, and the syntax of names, URLs, integrity strings and budgets of a
  lock: records compared field by field; the models take the verdict;
* the collection of registry metadata for the first version of the graph: bounded requests one
  after the other, without state that outlives them;
* the tar parser: it runs in the child, and `ArchiveWorker` lets a child send
  anything;
* MCP identity: a projection of the arguments onto a reviewed profile, whose verdict
  `Gateway` takes as an input.

Because nothing runs concurrently with it:

* start-up of the proxy, upstream launch and the dashboard state file: done once, before the
  first call can arrive, or at the end;
* migrations: one exclusive transaction before anything else uses the database;
* the cache of the registry provider: a process resolves once.

Every safety property of a passing run but `CandidateIsExact` is now a theorem.  What would
say more: a definition of exactness that a proof can follow without induction over chains,
and the properties of the components under several processes that share one database,
which the code leaves to SQLite.
