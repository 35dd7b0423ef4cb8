---------------------------- MODULE MetadataBroker ----------------------------
(***************************************************************************)
(* The bounded metadata broker of Graph Genesis                            *)
(* (stage/graph-genesis-network.ts): HardenedMetadataBrokerAuthority, one  *)
(* session of it, and HardenedLoopbackBrokerListener, through which npm    *)
(* reaches it, with the audit gate (stage/graph-genesis-hardening.ts) that *)
(* makes an intent durable before anything is read from the registry.      *)
(*                                                                         *)
(* Every request is served by an async function of its own; an action is   *)
(* what one of them does between two awaits, and several responses may     *)
(* complete in one turn of the event loop.  The owner of the session is    *)
(* arbitrary: it may arm, abort, complete and drain at any time.           *)
(***************************************************************************)
EXTENDS Integers, FiniteSets

CONSTANTS
    Requests,             \* HTTP requests npm sends to the listener
    Packages,             \* package names they ask for
    NoPackage,
    TotalRequests,        \* limits.broker.totalRequests
    ConcurrentRequests,   \* limits.broker.concurrentRequests
    UniquePackageNames,   \* limits.broker.uniquePackageNames
    ResponseBytes,        \* limits.broker.responseBytes
    AggregateBytes        \* limits.broker.aggregateResponseBytes

ASSUME LimitsAssumption ==
    /\ NoPackage \notin Packages
    /\ {TotalRequests, ConcurrentRequests, UniquePackageNames, ResponseBytes,
        AggregateBytes} \subseteq Nat \ {0}
    /\ ResponseBytes <= AggregateBytes

VARIABLES
    \* The session.
    state,        \* session.state
    arming,       \* arm() awaits its audit record
    leaseUsed,    \* the start lease was consumed for broker_arm
    started,      \* session.startedRequests
    active,       \* session.activeRequests
    names,        \* session.names
    reserved,     \* session.reservedBytes
    committed,    \* session.committedBytes
    entries,      \* session.entries
    aborted,      \* session.controller is aborted
    failed,       \* a failure summary was created
    notifying,    \* abort() or complete() of the owner awaits onFailure()
    ledger,       \* what complete() returned, or NoLedger
    \* The request handlers.
    pc,           \* where the handler of each request is
    seq,          \* the ordinal reserve() gave it, 0 for none
    pkg,          \* the package it was admitted for
    size,         \* bytes of the response it holds
    next,         \* its nextCommitted
    reply,        \* what npm was answered
    \* The audit gate and the registry.
    intents,      \* durable metadata_request_started rows, by ordinal
    observed,     \* those of them the gate has in #records
    validated,    \* durable metadata_response_validated rows, by ordinal
    fetched,      \* ordinals the transport was called for
    \* The listener.
    server,       \* "listening", "draining", "drained" or "failed"
    attached      \* the listener holds the session

session  == <<state, arming, leaseUsed, aborted, failed, notifying, ledger>>
budget   == <<started, active, names, reserved, committed, entries>>
handlers == <<pc, seq, pkg, size, next, reply>>
evidence == <<intents, observed, validated, fetched>>
listener == <<server, attached>>
vars == <<session, budget, handlers, evidence, listener>>

NoLedger == [count |-> 0, bytes |-> 0]
States == {"disarmed", "armed", "failing", "incomplete", "complete"}
\* "intent", "fetching" and "validating" are awaits of handle(); "notifying"
\* awaits onFailure() inside #fail(), "failing" a #fail() that returns at once.
HandlerSteps == {"none", "intent", "fetching", "validating", "notifying", "failing", "done"}

TypeOK ==
    /\ state \in States
    /\ {arming, leaseUsed, aborted, failed, notifying, attached} \subseteq BOOLEAN
    /\ ledger \in [count : Nat, bytes : Nat]
    /\ started \in Nat
    /\ active \in Nat
    /\ names \subseteq Packages
    /\ reserved \in Nat
    /\ committed \in Nat
    /\ entries \subseteq [seq : Nat, bytes : Nat]
    /\ pc \in [Requests -> HandlerSteps]
    /\ seq \in [Requests -> Nat]
    /\ pkg \in [Requests -> Packages \cup {NoPackage}]
    /\ size \in [Requests -> Nat]
    /\ next \in [Requests -> Nat]
    /\ reply \in [Requests -> {"none", "ok", "rejected", "failed"}]
    /\ \A rows \in {intents, observed, validated, fetched} : rows \subseteq Nat
    /\ server \in {"listening", "draining", "drained", "failed"}

\* prepareSession() and listen().
Init ==
    /\ state = "disarmed"
    /\ arming = FALSE
    /\ leaseUsed = FALSE
    /\ aborted = FALSE
    /\ failed = FALSE
    /\ notifying = FALSE
    /\ ledger = NoLedger
    /\ started = 0
    /\ active = 0
    /\ names = {}
    /\ reserved = 0
    /\ committed = 0
    /\ entries = {}
    /\ pc = [r \in Requests |-> "none"]
    /\ seq = [r \in Requests |-> 0]
    /\ pkg = [r \in Requests |-> NoPackage]
    /\ size = [r \in Requests |-> 0]
    /\ next = [r \in Requests |-> 0]
    /\ reply = [r \in Requests |-> "none"]
    /\ intents = {}
    /\ observed = {}
    /\ validated = {}
    /\ fetched = {}
    /\ server = "listening"
    /\ attached = FALSE

-----------------------------------------------------------------------------
(* Failing a session. *)

\* #fail(): only the first failure of a live session is recorded; it aborts
\* every outstanding transport and then awaits onFailure().
FailsFirst == state \in {"disarmed", "armed"}

FailSession ==
    IF FailsFirst
    THEN state' = "failing" /\ aborted' = TRUE /\ failed' = TRUE
    ELSE UNCHANGED <<state, aborted, failed>>

\* The handler of r throws into the catch block of handle().
Throw(r) ==
    /\ FailSession
    /\ pc' = [pc EXCEPT ![r] = IF FailsFirst THEN "notifying" ELSE "failing"]

\* The handler of r ends: the finally block of handle() and #respond().
Release(r) == active' = IF seq[r] = 0 THEN active ELSE active - 1

Answer(r, a) ==
    /\ pc' = [pc EXCEPT ![r] = "done"]
    /\ reply' = [reply EXCEPT ![r] = a]

\* Mutant of FailureAnswered: only the failure that came first is answered.
FirstFailureAnswered(r) ==
    /\ pc[r] = "notifying"
    /\ state' = "incomplete"
    /\ Release(r)
    /\ Answer(r, "failed")
    /\ attached' = FALSE
    /\ UNCHANGED <<arming, leaseUsed, aborted, failed, notifying, ledger, started,
                   names, reserved, committed, entries, seq, pkg, size, next, evidence,
                   server>>

\* onFailure() has returned, or #fail() had nothing to do: 502, and the
\* listener lets go of the session.
FailureAnswered(r) ==
    /\ \/ pc[r] = "notifying" /\ state' = "incomplete"
       \/ pc[r] = "failing" /\ UNCHANGED state
    /\ Release(r)
    /\ Answer(r, "failed")
    /\ attached' = FALSE
    /\ UNCHANGED <<arming, leaseUsed, aborted, failed, notifying, ledger, started,
                   names, reserved, committed, entries, seq, pkg, size, next, evidence,
                   server>>

-----------------------------------------------------------------------------
(* Serving a request. *)

Arrives(r) == pc[r] = "none" /\ server \in {"listening", "draining"}

\* #respond() without a session: 404.
Reject(r) ==
    /\ Arrives(r)
    /\ ~attached
    /\ Answer(r, "rejected")
    /\ UNCHANGED <<session, budget, seq, pkg, size, next, evidence, listener>>

\* A malformed request detaches and aborts the session; a wrong route, and a
\* request over a limit, fail it from inside handle().
Malformed(r) ==
    /\ Arrives(r)
    /\ attached
    /\ Throw(r)
    /\ attached' \in {TRUE, FALSE}
    /\ UNCHANGED <<arming, leaseUsed, notifying, ledger, budget, seq, pkg, size, next,
                   reply, evidence, server>>

\* Mutant of CanReserve: the bytes in flight are not counted.
CanReserveCommitted(p) ==
    /\ state = "armed"
    /\ started < TotalRequests
    /\ active < ConcurrentRequests
    /\ p \in names \/ Cardinality(names) < UniquePackageNames
    /\ committed + ResponseBytes <= AggregateBytes

\* reserve(): every limit is checked and taken before the first await.
CanReserve(p) ==
    /\ state = "armed"
    /\ started < TotalRequests
    /\ active < ConcurrentRequests
    /\ p \in names \/ Cardinality(names) < UniquePackageNames
    /\ reserved + ResponseBytes <= AggregateBytes

OverLimit(r, p) ==
    /\ Arrives(r)
    /\ attached
    /\ ~CanReserve(p)
    /\ Throw(r)
    /\ UNCHANGED <<arming, leaseUsed, notifying, ledger, budget, seq, pkg, size, next,
                   reply, evidence, listener>>

\* reserve(), then the durable intent, whose write may fail.
Reserve(r, p) ==
    /\ Arrives(r)
    /\ attached
    /\ CanReserve(p)
    /\ started' = started + 1
    /\ active' = active + 1
    /\ reserved' = reserved + ResponseBytes
    /\ names' = names \cup {p}
    /\ seq' = [seq EXCEPT ![r] = started + 1]
    /\ pkg' = [pkg EXCEPT ![r] = p]
    /\ intents' = intents \cup {started + 1} \/ UNCHANGED intents
    /\ pc' = [pc EXCEPT ![r] = "intent"]
    /\ UNCHANGED <<session, committed, entries, size, next, reply, observed,
                   validated, fetched, listener>>

\* Mutant of IntentRecorded: a failing intent is ignored.
IntentIgnored(r) ==
    /\ pc[r] = "intent"
    /\ observed' = observed \cup {seq[r]}
    /\ IF state = "armed"
       THEN /\ pc' = [pc EXCEPT ![r] = "fetching"]
            /\ fetched' = fetched \cup {seq[r]}
            /\ UNCHANGED <<state, aborted, failed>>
       ELSE Throw(r) /\ UNCHANGED fetched
    /\ UNCHANGED <<arming, leaseUsed, notifying, ledger, budget, seq, pkg, size, next,
                   reply, intents, validated, listener>>

\* record() has returned or thrown; fetchPackage() is called only for a durable
\* intent of a session that is still armed.
IntentRecorded(r) ==
    /\ pc[r] = "intent"
    /\ observed' = observed \cup ({seq[r]} \cap intents)
    /\ IF seq[r] \in intents /\ state = "armed"
       THEN /\ pc' = [pc EXCEPT ![r] = "fetching"]
            /\ fetched' = fetched \cup {seq[r]}
            /\ UNCHANGED <<state, aborted, failed>>
       ELSE Throw(r) /\ UNCHANGED fetched
    /\ UNCHANGED <<arming, leaseUsed, notifying, ledger, budget, seq, pkg, size, next,
                   reply, intents, validated, listener>>

\* The transport fails: DNS, TLS, status, size, content, timeout or abort.
FetchFails(r) ==
    /\ pc[r] = "fetching"
    /\ Throw(r)
    /\ UNCHANGED <<arming, leaseUsed, notifying, ledger, budget, seq, pkg, size, next,
                   reply, evidence, listener>>

\* A valid response of n bytes.  nextCommitted is computed here and used after
\* the next await.
Fetched(r, n) ==
    /\ pc[r] = "fetching"
    /\ IF state = "armed" /\ ~aborted /\ committed + n <= AggregateBytes
       THEN /\ size' = [size EXCEPT ![r] = n]
            /\ next' = [next EXCEPT ![r] = committed + n]
            /\ validated' = validated \cup {seq[r]} \/ UNCHANGED validated
            /\ pc' = [pc EXCEPT ![r] = "validating"]
            /\ UNCHANGED <<state, aborted, failed>>
       ELSE Throw(r) /\ UNCHANGED <<size, next, validated>>
    /\ UNCHANGED <<arming, leaseUsed, notifying, ledger, budget, seq, pkg, reply,
                   intents, observed, fetched, listener>>

Commits(r) == seq[r] \in validated /\ state = "armed"

\* The entry is pushed, the totals are updated and the body goes to npm.
PushEntry(r) ==
    /\ entries' = entries \cup {[seq |-> seq[r], bytes |-> size[r]]}
    /\ committed' = next[r]
    /\ reserved' = reserved - ResponseBytes + size[r]
    /\ Release(r)
    /\ Answer(r, "ok")
    /\ UNCHANGED <<state, aborted, failed>>

\* Mutant of ResponseRecorded: the state is not looked at again.
CommitWithoutState(r) ==
    /\ pc[r] = "validating"
    /\ IF seq[r] \in validated THEN PushEntry(r)
       ELSE Throw(r) /\ UNCHANGED <<active, reserved, committed, entries, reply>>
    /\ UNCHANGED <<arming, leaseUsed, notifying, ledger, started, names, seq, pkg, size,
                   next, evidence, listener>>

\* record() of metadata_response_validated has returned or thrown.
ResponseRecorded(r) ==
    /\ pc[r] = "validating"
    /\ IF Commits(r) THEN PushEntry(r)
       ELSE Throw(r) /\ UNCHANGED <<active, reserved, committed, entries, reply>>
    /\ UNCHANGED <<arming, leaseUsed, notifying, ledger, started, names, seq, pkg, size,
                   next, evidence, listener>>

-----------------------------------------------------------------------------
(* The owner. *)

\* arm(): the lease is consumed once, broker_armed is awaited, and the state is
\* set whatever it has become meanwhile.
Arm ==
    /\ state = "disarmed"
    /\ ~leaseUsed
    /\ leaseUsed' = TRUE
    /\ arming' = TRUE
    /\ UNCHANGED <<state, aborted, failed, notifying, ledger, budget, handlers, evidence,
                   listener>>

Armed ==
    /\ arming
    /\ arming' = FALSE
    /\ state' = "armed" \/ UNCHANGED state
    /\ UNCHANGED <<leaseUsed, aborted, failed, notifying, ledger, budget, handlers,
                   evidence, listener>>

\* listener.arm(), after arm() has returned.
Attach ==
    /\ leaseUsed /\ ~arming
    /\ server = "listening"
    /\ ~attached
    /\ attached' = TRUE
    /\ UNCHANGED <<session, budget, handlers, evidence, server>>

\* abort() by the owner.
Abort ==
    /\ FailsFirst
    /\ FailSession
    /\ notifying' = TRUE
    /\ UNCHANGED <<arming, leaseUsed, ledger, budget, handlers, evidence, listener>>

\* The onFailure() the owner's own call awaits has returned.
OwnerNotified ==
    /\ notifying
    /\ notifying' = FALSE
    /\ state' = "incomplete"
    /\ UNCHANGED <<arming, leaseUsed, aborted, failed, ledger, budget, handlers, evidence,
                   listener>>

\* Mutant of CanComplete: requests in flight are overlooked.
CanCompleteEarly == state = "armed" /\ entries # {}

CanComplete ==
    /\ state = "armed"
    /\ active = 0
    /\ entries # {}
    /\ Cardinality(entries) = started

\* complete(): the ledger, or a failure.
Complete ==
    /\ leaseUsed
    /\ IF CanComplete
       THEN /\ state' = "complete"
            /\ ledger' = [count |-> started, bytes |-> committed]
            /\ UNCHANGED <<aborted, failed, notifying>>
       ELSE /\ FailsFirst
            /\ FailSession
            /\ notifying' = TRUE
            /\ UNCHANGED ledger
    /\ UNCHANGED <<arming, leaseUsed, budget, handlers, evidence, listener>>

\* closeAndDrain(): no new session, then it waits for the handlers and the
\* sockets, or times out.
CloseAndDrain ==
    /\ server = "listening"
    /\ server' = "draining"
    /\ attached' = FALSE
    /\ UNCHANGED <<session, budget, handlers, evidence>>

InService(r) == pc[r] \notin {"none", "done"}

Drained ==
    /\ server = "draining"
    /\ \/ server' = "drained" /\ \A r \in Requests : ~InService(r)
       \/ server' = "failed"
    /\ UNCHANGED <<session, budget, handlers, evidence, attached>>

HandlerStep(r) ==
    \/ IntentRecorded(r)
    \/ FetchFails(r)
    \/ ResponseRecorded(r)
    \/ FailureAnswered(r)

Next ==
    \/ \E r \in Requests :
         \/ Reject(r)
         \/ Malformed(r)
         \/ \E p \in Packages : OverLimit(r, p) \/ Reserve(r, p)
         \/ \E n \in 1..ResponseBytes : Fetched(r, n)
         \/ HandlerStep(r)
    \/ Arm
    \/ Armed
    \/ Attach
    \/ Abort
    \/ OwnerNotified
    \/ Complete
    \/ CloseAndDrain
    \/ Drained

Spec == Init /\ [][Next]_vars

\* The event loop goes on with every handler, and the request timeout ends a
\* fetch.  The registry, npm and the owner owe nothing.
FairSpec == Spec /\ \A r \in Requests : WF_vars(HandlerStep(r))

-----------------------------------------------------------------------------
\* Budgets "cannot be exceeded through concurrent scheduling or replay": at any
\* moment the reads that were really made, the ones that are really outstanding
\* and the bytes that were or may still be received are within the limits.
Outstanding == {r \in Requests : pc[r] \in {"fetching", "validating"}}

\* Every byte that was committed: the read it came with, and its place in it.
ReceivedBytes == UNION {{e.seq} \X (1..e.bytes) : e \in entries}

WithinBudget ==
    /\ Cardinality(fetched) <= TotalRequests
    /\ Cardinality(Outstanding) <= ConcurrentRequests
    /\ Cardinality({pkg[r] : r \in Outstanding}) <= UniquePackageNames
    /\ Cardinality(ReceivedBytes) + ResponseBytes * Cardinality(Outstanding) <= AggregateBytes

\* "Every external read has a durable pre-request event": whatever the transport
\* was called for is in the gate's own records and in the database, so the
\* metadata summary never says that nothing was read; and npm is given only bytes
\* whose validation is durable and which the session has accounted for.
NothingUnrecorded ==
    /\ fetched \subseteq observed /\ observed \subseteq intents
    /\ \A r \in Requests : reply[r] = "ok" =>
         /\ seq[r] \in validated
         /\ [seq |-> seq[r], bytes |-> size[r]] \in entries

\* A ledger is issued only for a session that is over and whole: every declared
\* read was validated and counted, none is outstanding, nothing has failed.
LedgerIsWhole ==
    ledger # NoLedger =>
        /\ ~failed
        /\ Outstanding = {}
        /\ {e.seq : e \in entries} = 1..ledger.count
        /\ intents = 1..ledger.count
        /\ validated = intents

\* Read, record and ledger agree, request by request and in the end.
LedgerIsFaithful == NothingUnrecorded /\ LedgerIsWhole

\* "The first failure prevents further ledger commits": neither an entry nor a
\* ledger after it, although a late arm() may set the state to armed again.
NothingAfterFailure ==
    [][failed => entries' = entries /\ ledger' = ledger]_vars

\* Every request npm sends is answered: no handler waits for another one, nor
\* for the session's owner.
EveryRequestAnswered ==
    \A r \in Requests : pc[r] # "none" ~> pc[r] = "done"

=============================================================================
