--------------------------- MODULE ApprovalService ---------------------------
(***************************************************************************)
(* The local approval service (approval/service.ts, LocalApprovalService): *)
(* one-shot approval tickets that a person decides in the dashboard, that  *)
(* a timer expires, that the requester cancels, and that closing the       *)
(* service cancels in bulk.                                                *)
(*                                                                         *)
(* JavaScript runs each method to completion, so one method call is one    *)
(* action.  Two clocks are kept apart: setTimeout follows the event loop's *)
(* monotonic clock, while expiresAt is compared with Date, which the       *)
(* operator or NTP may set to any value.                                   *)
(***************************************************************************)
EXTENDS Integers

CONSTANTS
    Tickets,   \* the random ids tickets may be given
    TTLs,      \* the values of ttlMs callers pass, the illegal 0 included
    MaxTime    \* bound: past it, time passes only for tickets not yet due

ASSUME TTLAssumption == TTLs \subseteq Nat
ASSUME MaxTimeAssumption == MaxTime \in Nat

\* ApprovalOutcome of approval/types.ts; "none": the promise is unresolved.
Outcomes  == {"approved", "denied", "expired", "cancelled"}
Decisions == {"approved", "denied"}
Unsettled == "none"

VARIABLES
    mono,        \* event-loop clock, which drives setTimeout
    wall,        \* Date, which expiresAt is computed from and compared with
    closed,      \* this.closed
    requested,   \* every ticket id ever handed out (ids are random UUIDs)
    pending,     \* keys of this.pending
    visible,     \* the entries of this.pending whose visible flag is set
    published,   \* history: every ticket that was ever made visible
    expiresAt,   \* request.expiresAt, in wall-clock time
    due,         \* the event-loop time at which the ticket's timer is due
    outcome,     \* what the ticket's promise resolved to
    answers,     \* history: what decide() has reported about each ticket
    settledAt    \* history: wall-clock time at which the promise resolved

ticketVars == <<mono, wall, closed, requested, pending, visible, published,
                expiresAt, due, outcome, answers, settledAt>>

TicketTypeOK ==
    /\ mono \in Nat
    /\ wall \in Nat
    /\ closed \in BOOLEAN
    /\ requested \subseteq Tickets
    /\ pending \subseteq requested
    /\ visible \subseteq pending
    /\ published \subseteq requested
    /\ expiresAt \in [Tickets -> Nat]
    /\ due \in [Tickets -> Nat]
    /\ outcome \in [Tickets -> Outcomes \cup {Unsettled}]
    /\ answers \in [Tickets -> SUBSET Outcomes]
    /\ settledAt \in [Tickets -> Nat]

TicketInit ==
    /\ mono = 0
    /\ wall \in 0..MaxTime
    /\ closed = FALSE
    /\ requested = {}
    /\ pending = {}
    /\ visible = {}
    /\ published = {}
    /\ expiresAt = [t \in Tickets |-> 0]
    /\ due = [t \in Tickets |-> 0]
    /\ outcome = [t \in Tickets |-> Unsettled]
    /\ answers = [t \in Tickets |-> {}]
    /\ settledAt = [t \in Tickets |-> 0]

-----------------------------------------------------------------------------
\* settle(): only a pending entry is settled; its timer is cleared, the entry
\* deleted and the promise resolved.  A JavaScript promise keeps the first
\* value it is resolved with, so a second resolution would be lost.
Resolve(ts, o) ==
    /\ outcome' = [t \in Tickets |->
                     IF t \in ts /\ outcome[t] = Unsettled THEN o ELSE outcome[t]]
    /\ settledAt' = [t \in Tickets |->
                     IF t \in ts /\ outcome[t] = Unsettled THEN wall ELSE settledAt[t]]

\* Mutant of Settle: this.pending.delete() is forgotten.
SettleKeepsEntry(ts, o) ==
    /\ Resolve(ts \cap pending, o)
    /\ UNCHANGED <<pending, visible>>

Settle(ts, o) ==
    /\ Resolve(ts \cap pending, o)
    /\ pending' = pending \ ts
    /\ visible' = visible \ ts

\* Mutant of CanRequest: a closed service accepts requests.
CanRequestWhenClosed(ttl) == ttl > 0

\* requestHidden(): throws when the service is closed or the TTL is not
\* positive, otherwise stores an invisible entry and arms its timer.
CanRequest(ttl) == ~closed /\ ttl > 0

AddEntry(t, ttl) ==
    /\ CanRequest(ttl)
    /\ t \notin requested
    /\ requested' = requested \cup {t}
    /\ pending' = pending \cup {t}
    /\ expiresAt' = [expiresAt EXCEPT ![t] = wall + ttl]
    /\ due' = [due EXCEPT ![t] = mono + ttl]

RequestHidden(t, ttl) ==
    /\ AddEntry(t, ttl)
    /\ UNCHANGED <<mono, wall, closed, visible, published, outcome, answers, settledAt>>

\* request(): requestHidden() and publish() in one synchronous call.
Request(t, ttl) ==
    /\ AddEntry(t, ttl)
    /\ visible' = visible \cup {t}
    /\ published' = published \cup {t}
    /\ UNCHANGED <<mono, wall, closed, outcome, answers, settledAt>>

\* publish(): throws unless the ticket is still pending.
Publish(t) ==
    /\ t \in pending
    /\ visible' = visible \cup {t}
    /\ published' = published \cup {t}
    /\ UNCHANGED <<mono, wall, closed, requested, pending, expiresAt, due,
                   outcome, answers, settledAt>>

\* Mutant of EffectiveDecision: the late decision counts.
LateDecision(t, d) == d

\* decide(): undefined for an absent or invisible entry; an entry whose
\* expiresAt has passed is settled as expired whatever the person chose.
EffectiveDecision(t, d) == IF expiresAt[t] <= wall THEN "expired" ELSE d

CanDecide(t) == t \in pending /\ t \in visible

Decide(t, d) ==
    /\ CanDecide(t)
    /\ Settle({t}, EffectiveDecision(t, d))
    /\ answers' = [answers EXCEPT ![t] = @ \cup {EffectiveDecision(t, d)}]
    /\ UNCHANGED <<mono, wall, closed, requested, published, expiresAt, due>>

\* Mutant of TimerFires: the one-shot callback looks at Date again.
TimerChecksDate(t) ==
    /\ t \in pending
    /\ due[t] <= mono
    /\ expiresAt[t] <= wall
    /\ Settle({t}, "expired")
    /\ UNCHANGED <<mono, wall, closed, requested, published, expiresAt, due, answers>>

\* The setTimeout callback.  It may run late: the event loop may be busy, or
\* the machine asleep.  clearTimeout in settle() keeps it from running for a
\* settled ticket.
TimerFires(t) ==
    /\ t \in pending
    /\ due[t] <= mono
    /\ Settle({t}, "expired")
    /\ UNCHANGED <<mono, wall, closed, requested, published, expiresAt, due, answers>>

\* ticket.cancel(): the requester may call it at any time, after settlement too.
Cancel(t) ==
    /\ t \in requested
    /\ Settle({t}, "cancelled")
    /\ UNCHANGED <<mono, wall, closed, requested, published, expiresAt, due, answers>>

\* close(): idempotent; cancels whatever is pending.
Close ==
    /\ ~closed
    /\ closed' = TRUE
    /\ Settle(pending, "cancelled")
    /\ UNCHANGED <<mono, wall, requested, published, expiresAt, due, answers>>

\* Time passes on both clocks.
Tick ==
    /\ mono < MaxTime \/ \E t \in pending : mono < due[t]      \* bound
    /\ mono' = mono + 1
    /\ wall' = wall + 1
    /\ UNCHANGED <<closed, requested, pending, visible, published, expiresAt,
                   due, outcome, answers, settledAt>>

\* The wall clock is set, forwards or backwards.
SetClock ==
    /\ \E w \in 0..MaxTime : wall' = w      \* bound
    /\ UNCHANGED <<mono, closed, requested, pending, visible, published,
                   expiresAt, due, outcome, answers, settledAt>>

TicketNext ==
    \/ \E t \in Tickets, ttl \in TTLs : RequestHidden(t, ttl)
    \/ \E t \in Tickets, ttl \in TTLs : Request(t, ttl)
    \/ \E t \in Tickets : Publish(t)
    \/ \E t \in Tickets, d \in Decisions : Decide(t, d)
    \/ \E t \in Tickets : TimerFires(t)
    \/ \E t \in Tickets : Cancel(t)
    \/ Close
    \/ Tick
    \/ SetClock

TicketSpec == TicketInit /\ [][TicketNext]_ticketVars

\* Time passes and a due timer is eventually run while the process lives.  The
\* person, the requester and the shutdown owe nothing.
FairTicketSpec ==
    /\ TicketSpec
    /\ WF_ticketVars(Tick)
    /\ \A t \in Tickets : WF_ticketVars(TimerFires(t))

-----------------------------------------------------------------------------
\* What the dashboard is told is what the waiting call gets: whatever decide()
\* answered, once, is the value the ticket's promise resolved to.  A second
\* click, a click racing the timer and a click racing a cancellation included.
AnswerIsOutcome ==
    \A t \in Tickets : answers[t] # {} => answers[t] = {outcome[t]}

\* No approval after the fact: a ticket resolved as approved or denied was
\* resolved strictly before its expiresAt, had been published, and was not a
\* survivor of close().
NoLateDecision ==
    \A t \in Tickets :
        outcome[t] \in Decisions => /\ settledAt[t] < expiresAt[t]
                                    /\ t \in published

\* A ticket is either pending or settled, never both and never neither, so no
\* caller waits on a promise that nothing can resolve any more.
NoOrphanTicket ==
    \A t \in requested : (t \in pending) <=> (outcome[t] = Unsettled)

\* Every ticket settles even if the person, the requester and the shutdown do
\* nothing: the expiry timer alone is enough, whatever the wall clock does.
EveryTicketSettles ==
    \A t \in Tickets : t \in requested ~> outcome[t] # Unsettled

\* The service implements the one-shot contract its callers rely on: however
\* decisions, timers, cancellations and close() interleave, a ticket is opened
\* once, settled once and keeps its result.
OneShot == INSTANCE OneShotTickets WITH
             shut <- closed, open <- pending, result <- outcome

ImplementsOneShot == OneShot!Spec
=============================================================================
