------------------------ MODULE GraphGenesisV2Session ------------------------
(***************************************************************************)
(* The session authority of the second Graph Genesis composition           *)
(* (src/src/stage/graph-genesis-v2-production.ts): one session context, the *)
(* output intents captured in it, the original loopback listener, the       *)
(* concrete preparation, and the authorization that ends in a single-use    *)
(* seal.  GraphGenesisV2Execution adds the owner that consumes the seal and *)
(* the two close operations.                                                *)
(*                                                                         *)
(* A handler runs without interruption up to its next await; every await    *)
(* is a program-counter state.  All outputs are intents for ONE path, so    *)
(* that custody of a path can be contended.  The plan deadline, the         *)
(* listener's lifetime and the approved start window are one instant        *)
(* (clock >= 1); the execution deadline is a later one (clock = 2).         *)
(***************************************************************************)
EXTENDS Naturals, Sequences

CONSTANT Outputs \* the output intents a caller may capture, all for one path

VARIABLES
  ctx,       \* the context: registered ("open"), its closing, and its end
  out,       \* per intent: registration, abort signal, descriptor, custody
  active,    \* TRUE while the path is in #activeOutputPaths
  lis,       \* the original listener
  pr,        \* the OwnedConcretePreparation and the prepareConcrete() call
  au,        \* the authorize() call and its approval ticket
  seal,      \* the sealed authorization: "none", "minted" or "consumed"
  db,        \* the audit database: this action's events, its row, other writers
  caller,    \* TRUE once the caller's signal is aborted
  clock      \* 0: in the start window, 1: past it, 2: past the execution deadline

sessionVars == <<ctx, out, active, lis, pr, au, seal, db, caller, clock>>

AUTHORIZED_V2_EVENTS ==
  << "decision_recorded", "session_created", "approval_requested", "approval_approved",
     "revalidation_complete", "authorization_receipt_finalized", "authorization_ready",
     "authorization_finalized" >>

\* A write of the recorder is one transaction: it commits and returns, it is
\* lost and throws, or it commits and the call still throws ("torn").
\* Writing a list stops at the first write that throws.
Writes(list) ==
  [n : {Len(list)}, how : {"ok"}] \cup [n : 0..(Len(list) - 1), how : {"lost", "torn"}]

Accepted(list, w) == SubSeq(list, 1, w.n)
Committed(list, w) == SubSeq(list, 1, IF w.how = "torn" THEN w.n + 1 ELSE w.n)

----------------------------------------------------------------------------
Init ==
  /\ ctx = "none"
  /\ out = [o \in Outputs |-> [st |-> "idle", registered |-> FALSE, inContext |-> FALSE,
                               aborted |-> FALSE, descriptor |-> "none", closer |-> "no",
                               release |-> "no"]]
  /\ active = FALSE
  /\ lis = [state |-> "none", ready |-> FALSE, claimed |-> FALSE, aborted |-> FALSE,
            executionOwned |-> FALSE, lifetime |-> FALSE, closing |-> "no", clean |-> FALSE]
  /\ pr = [pc |-> "none", output |-> CHOOSE o \in Outputs : TRUE, revoked |-> FALSE, read |-> FALSE]
  /\ au = [pc |-> "idle", ticket |-> "none", recorded |-> FALSE]
  /\ seal = "none"
  /\ db = [events |-> <<>>, row |-> "none", foreign |-> FALSE]
  /\ caller = FALSE
  /\ clock = 0

----------------------------------------------------------------------------
(* Signals.  An abort runs its listeners synchronously, so one step carries  *)
(* it from the context, the output or the listener to everything linked.     *)

\* closeOriginalListener(): the first caller starts the one shared close.
StartClose(l) ==
  IF l.state = "none" \/ l.closing # "no" THEN l
  ELSE [l EXCEPT !.state = "drained", !.lifetime = FALSE, !.closing = "running"]

\* The listener's revoke handler: abort, and close it unless an execution owns it.
RevokeListener(l) ==
  LET a == [l EXCEPT !.aborted = l.state # "none"]
  IN  IF l.executionOwned THEN a ELSE StartClose(a)

RevokePreparation(p) == [p EXCEPT !.revoked = p.pc # "none"]

\* The abort listener of authorize() is there only while the outcome is awaited.
CancelTicket(a) ==
  IF a.pc = "waiting" /\ a.ticket = "pending" THEN [a EXCEPT !.ticket = "cancelled"] ELSE a

AbortOutputs(os) == [o \in Outputs |-> [out[o] EXCEPT !.aborted = @ \/ o \in os]]

\* What a preparation adds to an abort: its output is aborted too.
Linked == IF pr.pc = "none" THEN {} ELSE {pr.output}

----------------------------------------------------------------------------
(* The context and its output intents.                                       *)

CreateContext ==
  /\ ctx = "none" /\ ~db.foreign
  /\ ctx' = "starting"
  /\ UNCHANGED <<out, active, lis, pr, au, seal, db, caller, clock>>

\* startDashboard() settles; the database is authenticated once more.
ContextReady ==
  /\ ctx = "starting"
  /\ ctx' = IF db.foreign THEN "failed" ELSE "open"
  /\ UNCHANGED <<out, active, lis, pr, au, seal, db, caller, clock>>

ContextFails ==
  /\ ctx = "starting"
  /\ ctx' = "failed"
  /\ UNCHANGED <<out, active, lis, pr, au, seal, db, caller, clock>>

\* The path is looked up before the first await and taken after the last one.
CaptureOutputIntent(o) ==
  /\ out[o].st = "idle"
  /\ ctx = "open" /\ ~db.foreign /\ ~active
  /\ out' = [out EXCEPT ![o].st = "capturing"]
  /\ UNCHANGED <<ctx, active, lis, pr, au, seal, db, caller, clock>>

\* Nothing is looked at again once the parent directory is known.
CaptureReady(o) ==
  /\ out[o].st = "capturing"
  /\ out' = [out EXCEPT ![o].st = "held", ![o].registered = TRUE, ![o].inContext = TRUE,
                        ![o].descriptor = "open"]
  /\ active' = TRUE
  /\ UNCHANGED <<ctx, lis, pr, au, seal, db, caller, clock>>

CaptureFails(o) ==
  /\ out[o].st = "capturing"
  /\ out' = [out EXCEPT ![o].st = "failed"]
  /\ UNCHANGED <<ctx, active, lis, pr, au, seal, db, caller, clock>>

----------------------------------------------------------------------------
(* The original listener.                                                    *)

PrepareConcreteRoot ==
  /\ ctx = "open" /\ lis.state = "none"
  /\ lis' = [lis EXCEPT !.state = "disarmed", !.lifetime = TRUE]
  /\ UNCHANGED <<ctx, out, active, pr, au, seal, db, caller, clock>>

\* server.listen() settles, or rejects, or its deadline passes.
RootListening ==
  /\ lis.state # "none" /\ ~lis.ready /\ lis.closing = "no"
  /\ lis' = IF ctx = "open" /\ ~lis.aborted /\ clock = 0
            THEN [lis EXCEPT !.ready = TRUE] ELSE StartClose(lis)
  /\ UNCHANGED <<ctx, out, active, pr, au, seal, db, caller, clock>>

RootFails ==
  /\ lis.state = "disarmed" /\ ~lis.ready
  /\ lis' = StartClose(lis)
  /\ UNCHANGED <<ctx, out, active, pr, au, seal, db, caller, clock>>

\* getConnections() and server.close() settle, or their time is over: the
\* close is clean when no connection was open and the server has closed.
ListenerClosed ==
  /\ lis.closing = "running"
  /\ \E closed, quiet \in BOOLEAN :
       lis' = [lis EXCEPT !.closing = "done", !.state = IF closed THEN "closed" ELSE "drained",
                          !.clean = closed /\ quiet]
  /\ UNCHANGED <<ctx, out, active, pr, au, seal, db, caller, clock>>

----------------------------------------------------------------------------
(* prepareConcrete(): the construction of the snapshot and the binding.      *)

\* OwnedConcretePreparation.checkpoint(); while preparing it also looks at the database.
Checkpoint ==
  /\ ~pr.revoked /\ ctx = "open" /\ ~out[pr.output].aborted
  /\ ~lis.aborted /\ lis.state = "disarmed" /\ clock = 0
  /\ pr.pc = "prepared" \/ (~db.foreign /\ db.events = <<>>)

\* The registered context and intent, still associated with this construction.
AuthenticatesPrepared ==
  /\ pr.pc = "prepared" /\ ctx = "open" /\ out[pr.output].registered
  /\ ~pr.revoked /\ ~out[pr.output].aborted /\ ~lis.aborted

PrepareConcrete(o) ==
  /\ lis.ready /\ ~lis.claimed
  /\ IF /\ lis.state = "disarmed" /\ ~lis.aborted /\ ctx = "open"
        /\ out[o].registered /\ ~out[o].aborted /\ out[o].inContext
        /\ pr.pc = "none" /\ au.pc = "idle"
     THEN /\ pr' = [pr EXCEPT !.pc = "constructing", !.output = o, !.read = TRUE]
          /\ lis' = [lis EXCEPT !.claimed = TRUE]
     ELSE /\ lis' = StartClose([lis EXCEPT !.claimed = TRUE])
          /\ UNCHANGED pr
  /\ UNCHANGED <<ctx, out, active, au, seal, db, caller, clock>>

\* constructConcreteSnapshot(): its steps, each between two checkpoints.
ConstructConcreteSnapshot ==
  /\ pr.pc = "constructing" /\ Checkpoint
  /\ pr' = [pr EXCEPT !.pc = "binding"]
  /\ UNCHANGED <<ctx, out, active, lis, au, seal, db, caller, clock>>

\* #prepare(): revalidation of the snapshot and of the output, then the binding.
Prepared ==
  /\ pr.pc = "binding" /\ Checkpoint
  /\ pr' = [pr EXCEPT !.pc = "prepared", !.read = FALSE]
  /\ UNCHANGED <<ctx, out, active, lis, au, seal, db, caller, clock>>

\* A step rejects, or the preparation is revoked or late while an operation
\* is still under way: the operation itself is not cancelled.
PreparationFails ==
  /\ pr.pc \in {"constructing", "binding"}
  /\ \/ pr' = [RevokePreparation(pr) EXCEPT !.pc = "failed", !.read = FALSE]
     \/ /\ ~Checkpoint
        /\ pr' = [RevokePreparation(pr) EXCEPT !.pc = "failed"]
  /\ out' = AbortOutputs({pr.output})
  /\ lis' = StartClose(RevokeListener(lis))
  /\ UNCHANGED <<ctx, active, au, seal, db, caller, clock>>

\* An abandoned operation of the preparation settles.
PreparationReadSettles ==
  /\ pr.pc = "failed" /\ pr.read
  /\ pr' = [pr EXCEPT !.read = FALSE]
  /\ UNCHANGED <<ctx, out, active, lis, au, seal, db, caller, clock>>

----------------------------------------------------------------------------
(* authorize().                                                              *)

AuthorizationFence ==
  /\ Checkpoint /\ AuthenticatesPrepared /\ ~caller

\* assertAdvancedAuditSource(): the database holds exactly these events after the checkpoint.
AdvancedBy(n) == ~db.foreign /\ db.events = SubSeq(AUTHORIZED_V2_EVENTS, 1, n)

\* What markApprovalResolved() appends for the ticket's outcome.
ResolvedEvent(ticket) == IF ticket = "approved" THEN "approval_approved" ELSE "approval_refused"

\* The catch block: the ticket is cancelled; its outcome is recorded if it was asked
\* for and is still missing; the call is marked failed unless it is blocked already
\* (either write may fail again); the listener is closed.
Fail(events, row) ==
  LET ticket == IF au.ticket = "pending" THEN "cancelled" ELSE au.ticket
      owed   == IF au.recorded /\ row # "blocked"
                   /\ \A i \in 1..Len(events) : events[i] \notin {"approval_approved", "approval_refused"}
                THEN {<<>>, <<ResolvedEvent(ticket)>>} ELSE {<<>>}
  IN  /\ au' = [au EXCEPT !.pc = "ending", !.ticket = ticket]
      /\ lis' = StartClose(lis)
      /\ \E late \in owed :
           \/ db' = [db EXCEPT !.events = events \o late, !.row = row]
           \/ /\ row \notin {"none", "blocked"}
              /\ db' = [db EXCEPT !.events = events \o late \o <<"execution_failed">>,
                                  !.row = "failed"]

\* recorder.begin() and the session event.
Authorize ==
  /\ au.pc = "idle" /\ pr.pc = "prepared" /\ AuthenticatesPrepared
  /\ IF ~(AuthorizationFence /\ AdvancedBy(0))
     THEN Fail(db.events, "none")
     ELSE \E w \in Writes(SubSeq(AUTHORIZED_V2_EVENTS, 1, 2)) :
            LET list == SubSeq(AUTHORIZED_V2_EVENTS, 1, 2)
                ev   == Committed(list, w)
                row  == IF ev = <<>> THEN "none" ELSE "pending"
            IN  IF w.how = "ok"
                THEN /\ db' = [db EXCEPT !.events = ev, !.row = row]
                     /\ au' = [au EXCEPT !.pc = "begun"] /\ UNCHANGED lis
                ELSE Fail(ev, row)
  /\ UNCHANGED <<ctx, out, active, pr, seal, caller, clock>>

\* requestHidden() and markApprovalRequested(); a failed write cancels the ticket.
RequestApproval ==
  /\ au.pc = "begun"
  /\ IF ~(AuthorizationFence /\ AdvancedBy(2))
     THEN Fail(db.events, db.row)
     ELSE \E w \in Writes(<<"approval_requested">>) :
            LET ev == db.events \o Committed(<<"approval_requested">>, w)
            IN  IF w.how = "ok"
                THEN /\ db' = [db EXCEPT !.events = ev]
                     /\ au' = [au EXCEPT !.pc = "asked", !.ticket = "pending", !.recorded = TRUE]
                     /\ UNCHANGED lis
                ELSE Fail(ev, db.row)
  /\ UNCHANGED <<ctx, out, active, pr, seal, caller, clock>>

\* The request is published only after its event is proved durable.
PublishApproval ==
  /\ au.pc = "asked"
  /\ IF ~(AuthorizationFence /\ AdvancedBy(3))
     THEN Fail(db.events, db.row)
     ELSE au' = [au EXCEPT !.pc = "waiting"] /\ UNCHANGED <<lis, db>>
  /\ UNCHANGED <<ctx, out, active, pr, seal, caller, clock>>

\* The person at the dashboard decides.
Decide ==
  /\ au.pc = "waiting" /\ au.ticket = "pending"
  /\ \E d \in {"approved", "denied"} : au' = [au EXCEPT !.ticket = d]
  /\ UNCHANGED <<ctx, out, active, lis, pr, seal, db, caller, clock>>

\* The ticket's own timer.
Expire ==
  /\ au.pc \in {"asked", "waiting"} /\ au.ticket = "pending" /\ clock > 0
  /\ au' = [au EXCEPT !.ticket = "expired"]
  /\ UNCHANGED <<ctx, out, active, lis, pr, seal, db, caller, clock>>

\* The outcome is recorded; an outcome other than approved blocks the call.
ApprovalResolved ==
  /\ au.pc = "waiting" /\ au.ticket # "pending"
  /\ LET list == <<ResolvedEvent(au.ticket)>> \o
                 IF au.ticket = "approved" THEN <<>> ELSE <<"blocked">>
     IN  \E w \in Writes(list) :
           LET ev  == db.events \o Committed(list, w)
               row == IF Len(ev) = Len(db.events) + 2 THEN "blocked" ELSE db.row
           IN  CASE w.how # "ok" -> Fail(ev, row)
                 [] au.ticket = "approved" /\ w.how = "ok" ->
                      IF AuthorizationFence
                      THEN /\ au' = [au EXCEPT !.pc = "approved"]
                           /\ db' = [db EXCEPT !.events = ev] /\ UNCHANGED lis
                      ELSE Fail(ev, row)
                 [] OTHER -> /\ au' = [au EXCEPT !.pc = "ending"]
                             /\ db' = [db EXCEPT !.events = ev, !.row = row]
                             /\ lis' = StartClose(lis)
  /\ UNCHANGED <<ctx, out, active, pr, seal, caller, clock>>

\* The snapshot, the output and the database are looked at again; then the
\* authorization receipt is written.
MarkAuthorized ==
  /\ au.pc = "approved"
  /\ IF ~(AuthorizationFence /\ AdvancedBy(4))
     THEN Fail(db.events, db.row)
     ELSE LET list == SubSeq(AUTHORIZED_V2_EVENTS, 5, 8)
          IN  \E w \in Writes(list) :
                \* markAuthorized() writes the receipt and the ready event in one transaction
                LET n   == Len(Committed(list, w))
                    ev  == db.events \o SubSeq(list, 1, IF n = 2 THEN 1 ELSE n)
                    row == IF n >= 3 THEN "authorized" ELSE db.row
                IN  IF w.how = "ok"
                    THEN /\ db' = [db EXCEPT !.events = ev, !.row = row]
                         /\ au' = [au EXCEPT !.pc = "authorized"] /\ UNCHANGED lis
                    ELSE Fail(ev, row)
  /\ UNCHANGED <<ctx, out, active, pr, seal, caller, clock>>

\* Revalidation after approval fails (a changed runtime file, output or host).
RevalidationFails ==
  /\ au.pc \in {"approved", "authorized"}
  /\ Fail(db.events, db.row)
  /\ UNCHANGED <<ctx, out, active, pr, seal, caller, clock>>

\* The second revalidation, then the seal.
Seal ==
  /\ au.pc = "authorized"
  /\ IF AuthorizationFence /\ AdvancedBy(8)
     THEN /\ seal' = "minted"
          /\ au' = [au EXCEPT !.pc = "sealed"] /\ UNCHANGED <<lis, db>>
     ELSE Fail(db.events, db.row) /\ UNCHANGED seal
  /\ UNCHANGED <<ctx, out, active, pr, caller, clock>>

\* authorize() returns, or rejects, once the listener has closed.
AuthorizeReturns ==
  /\ au.pc = "ending" /\ lis.closing = "done"
  /\ au' = [au EXCEPT !.pc = "ended"]
  /\ UNCHANGED <<ctx, out, active, lis, pr, seal, db, caller, clock>>

----------------------------------------------------------------------------
(* The environment.                                                          *)

Tick ==
  /\ clock < 2
  /\ clock' = clock + 1
  /\ UNCHANGED <<ctx, out, active, lis, pr, au, seal, db, caller>>

\* Another process appends to the same audit chain.
ForeignAppend ==
  /\ ~db.foreign
  /\ db' = [db EXCEPT !.foreign = TRUE]
  /\ UNCHANGED <<ctx, out, active, lis, pr, au, seal, caller, clock>>

SessionStep ==
  \/ CreateContext \/ ContextReady \/ ContextFails
  \/ \E o \in Outputs : CaptureOutputIntent(o) \/ CaptureReady(o) \/ CaptureFails(o)
  \/ PrepareConcreteRoot \/ RootListening \/ RootFails \/ ListenerClosed
  \/ \E o \in Outputs : PrepareConcrete(o)
  \/ ConstructConcreteSnapshot \/ Prepared \/ PreparationFails \/ PreparationReadSettles
  \/ Authorize \/ RequestApproval \/ PublishApproval \/ Decide \/ Expire \/ ApprovalResolved
  \/ MarkAuthorized \/ RevalidationFails \/ Seal \/ AuthorizeReturns
  \/ Tick \/ ForeignAppend
=============================================================================
