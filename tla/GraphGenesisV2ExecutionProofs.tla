---------------------- MODULE GraphGenesisV2ExecutionProofs ----------------------
(***************************************************************************)
(* Proofs about the second Graph Genesis composition, for any number of     *)
(* output intents for its path.                                             *)
(*                                                                         *)
(* One owner after the other writes the audit chain: authorize() until the  *)
(* seal, the execution from the seal's consumption on.  So the chain is     *)
(* known exactly where an effect is about to happen, and only grows         *)
(* afterwards.  The closes never look at what runs; what makes them wait is *)
(* that an unregistered output cannot be prepared or executed any more, and *)
(* that the listener of a running execution is closed by nobody else.       *)
(***************************************************************************)
EXTENDS GraphGenesisV2Execution, TLAPS

Fields(r, F) == DOMAIN r = F /\ r = [x \in F |-> r[x]]

OutFields == {"st", "registered", "inContext", "aborted", "descriptor", "closer", "release"}
LisFields == {"state", "ready", "claimed", "aborted", "executionOwned", "lifetime", "closing", "clean"}
PrFields  == {"pc", "output", "revoked", "read"}
AuFields  == {"pc", "ticket", "recorded"}
DbFields  == {"events", "row", "foreign"}
ExFields  == {"pc", "failure", "startReturned", "expected", "pending", "read", "attempted", "child",
              "created", "closeObserved", "woken", "status", "proven"}

EventNames ==
  {"decision_recorded", "session_created", "approval_requested", "approval_approved",
   "revalidation_complete", "authorization_receipt_finalized", "authorization_ready",
   "authorization_finalized", "approval_refused", "blocked", "execution_failed",
   "execution_start_recorded", "broker_arm_intent", "broker_armed", "spawn_intent",
   "graph_genesis_incomplete", "execution_completed", "outcome_receipt_finalized"}

\* An execution that is not asked to stop.
Active == {"reserved", "first", "second", "running", "after"}

OutTypes ==
  /\ out = [o \in Outputs |-> out[o]]
  /\ \A o \in Outputs :
       /\ Fields(out[o], OutFields)
       /\ out[o].registered \in BOOLEAN /\ out[o].inContext \in BOOLEAN
       /\ out[o].closer \in {"no", "stopping", "listeners", "releasing", "done", "failed"}
       /\ out[o].release \in {"no", "running", "done"}

LisTypes ==
  /\ Fields(lis, LisFields)
  /\ lis.ready \in BOOLEAN /\ lis.claimed \in BOOLEAN
  /\ lis.executionOwned \in BOOLEAN /\ lis.clean \in BOOLEAN
  /\ \/ lis.closing = "no" /\ lis.state \in {"none", "disarmed", "armed"}
     \/ lis.closing = "running" /\ lis.state = "drained"
     \/ lis.closing = "done" /\ lis.state \in {"drained", "closed"}
  /\ lis.clean => lis.state = "closed"

PrTypes ==
  /\ Fields(pr, PrFields) /\ pr.revoked \in BOOLEAN /\ pr.read \in BOOLEAN
  /\ pr.pc \in {"none", "constructing", "binding", "prepared", "failed"}

AuTypes ==
  /\ Fields(au, AuFields)
  /\ au.pc \in {"idle", "begun", "asked", "waiting", "approved", "authorized", "sealed",
                "ending", "ended"}

DbTypes == Fields(db, DbFields) /\ db.events \in Seq(EventNames)

ExTypes ==
  /\ Fields(ex, ExFields)
  /\ ex.read \in BOOLEAN /\ ex.attempted \in BOOLEAN /\ ex.closeObserved \in BOOLEAN
  /\ ex.startReturned \in BOOLEAN /\ ex.proven \in BOOLEAN
  /\ ex.pc \in Active \cup {"none", "stopping", "terminal"}
  /\ ex.status \in {"none", "execution_error", "outcome_unknown"}

ControlTypes ==
  /\ ctx \in {"none", "starting", "open", "failed", "closing", "closed"}
  /\ seal \in {"none", "minted", "consumed"}
  /\ closer \in {"no", "stopping", "listeners", "releasing", "done", "failed"}

Types == OutTypes /\ LisTypes /\ PrTypes /\ AuTypes /\ DbTypes /\ ExTypes /\ ControlTypes

\* The events up to the attempt to start a child.
Story == AUTHORIZED_V2_EVENTS \o <<START>> \o ARM \o <<SPAWN>>

Told(n) == Len(db.events) >= n /\ \A i \in 1..n : db.events[i] = Story[i]

\* Who has come how far: preparation, authorization, seal, execution.
OwnersInv ==
  /\ au.pc # "idle" => pr.pc = "prepared"
  /\ au.pc \in {"approved", "authorized", "sealed"} => au.ticket = "approved"
  /\ seal # "none" <=> au.pc = "sealed"
  /\ ex.pc # "none" => seal = "consumed" /\ lis.executionOwned
  /\ pr.pc # "none" => lis.ready /\ lis.claimed
  /\ pr.pc = "none" => ~pr.read /\ ~pr.revoked
  /\ ex.pc = "none" => ~ex.read /\ ~ex.attempted
  /\ lis.state = "armed" => ex.pc # "none"
  /\ ex.pc \in Active => lis.closing = "no"

\* What is in the audit chain.
StoryInv ==
  /\ seal # "none" => Told(8)
  /\ seal = "minted" \/ ex.pc \in {"reserved", "first"} => Len(db.events) = 8
  /\ ex.pc = "second" => Told(11) /\ Len(db.events) = 11
  /\ lis.state = "armed" => Told(11)
  /\ ex.attempted => Told(12)

\* What the terminal proof rests on.
TerminalInv ==
  /\ ex.closeObserved => ex.child \in {"exited0", "exited1"}
  /\ ex.pc \in {"none", "reserved", "first", "second"} => ex.child = "none"
  /\ ex.status = "execution_error" => ex.pc = "terminal"
  /\ ex.pc = "terminal" /\ ex.proven /\ ex.startReturned => db.row = ex.status
  /\ ex.status = "execution_error" =>
       /\ ex.proven /\ lis.clean
       /\ ex.child \in {"none", "exited0", "exited1"}
       /\ \E i \in 1..Len(db.events) : db.events[i] = "outcome_receipt_finalized"

\* What is being closed cannot be taken into use again.
CustodyInv ==
  /\ \A o \in Outputs :
       /\ out[o].registered \/ out[o].inContext => out[o].st = "held"
       /\ out[o].closer # "no" \/ out[o].release # "no" => ~out[o].registered /\ out[o].st = "held"
       /\ out[o].descriptor = "closed" => out[o].release = "done"
       /\ out[o].closer \notin {"no", "stopping"} \/ out[o].release # "no" =>
            (pr.output = o => ex.pc \in {"none", "terminal"})
       /\ out[o].descriptor = "closed" => (pr.output = o => ~pr.read /\ ~ex.read)
  /\ pr.pc # "none" =>
       /\ pr.output \in Outputs /\ out[pr.output].st = "held"
       /\ ~out[pr.output].registered => pr.revoked

\* How far the close of the context has come.
ContextInv ==
  /\ closer # "no" => ctx \in {"closing", "closed"}
  /\ ctx = "closed" => closer \in {"done", "failed"}
  /\ ctx \in {"closing", "closed"} => au.ticket # "pending"
  /\ closer \notin {"no", "stopping"} =>
       /\ ex.pc \in {"none", "terminal"}
       /\ lis.state = "none" \/ lis.closing # "no"
  /\ closer \in {"releasing", "done", "failed"} => lis.state = "none" \/ lis.closing = "done"

\* The inductive invariant.
IInv == Types /\ OwnersInv /\ StoryInv /\ TerminalInv /\ CustodyInv /\ ContextInv


-----------------------------------------------------------------------------
(* Sequences and writes. *)

\* One event.
LEMMA OneElement == ASSUME NEW S, NEW a \in S PROVE <<a>> \in Seq(S)
OBVIOUS

\* Two histories, one after the other.
LEMMA Concatenation ==
  ASSUME NEW S, NEW s \in Seq(S), NEW t \in Seq(S)
  PROVE  /\ s \o t \in Seq(S) /\ Len(s \o t) = Len(s) + Len(t) /\ Len(s) \in Nat /\ Len(t) \in Nat
         /\ \A i \in 1..Len(s) : (s \o t)[i] = s[i]
         /\ \A i \in 1..Len(t) : (s \o t)[Len(s) + i] = t[i]
OBVIOUS

\* The first n elements.
LEMMA Prefix ==
  ASSUME NEW S, NEW s \in Seq(S), NEW n \in 0..Len(s)
  PROVE  /\ SubSeq(s, 1, n) \in Seq(S) /\ Len(SubSeq(s, 1, n)) = n
         /\ \A i \in 1..n : SubSeq(s, 1, n)[i] = s[i]
OBVIOUS

\* A part of a list.
LEMMA Part ==
  ASSUME NEW S, NEW s \in Seq(S), NEW a \in 1..Len(s), NEW b \in a..Len(s)
  PROVE  SubSeq(s, a, b) \in Seq(S)
OBVIOUS

\* Sequences with the same elements are the same.
LEMMA SameSequence ==
  ASSUME NEW S, NEW s \in Seq(S), NEW t \in Seq(S), Len(s) = Len(t),
         \A i \in 1..Len(s) : s[i] = t[i]
  PROVE  s = t
OBVIOUS

\* Appending lists is associative.
LEMMA Association ==
  ASSUME NEW S, NEW a \in Seq(S), NEW b \in Seq(S), NEW c \in Seq(S)
  PROVE  (a \o b) \o c = a \o (b \o c)
<1>1. (a \o b) \o c \in Seq(S) /\ a \o (b \o c) \in Seq(S)
  OBVIOUS
<1>2. Len((a \o b) \o c) = Len(a \o (b \o c))
  OBVIOUS
<1>3. \A i \in 1..Len((a \o b) \o c) : ((a \o b) \o c)[i] = (a \o (b \o c))[i]
  OBVIOUS
<1> QED
  BY <1>1, <1>2, <1>3, SameSequence

\* A list of three more elements.
LEMMA ThreeMore ==
  ASSUME NEW S, NEW s \in Seq(S), NEW t \in Seq(S), Len(t) = 3
  PROVE  /\ Len(s \o t) = Len(s) + 3 /\ Len(s) \in Nat /\ s \o t # s
         /\ (s \o t)[Len(s) + 3] = t[3]
<1>1. /\ Len(s \o t) = Len(s) + Len(t) /\ Len(s) \in Nat
      /\ \A i \in 1..Len(t) : (s \o t)[Len(s) + i] = t[i]
  BY ONLY s \in Seq(S), t \in Seq(S), Concatenation
<1>2. Len(s \o t) = Len(s) + 3
  BY <1>1
<1>3. s \o t # s
  BY <1>1, <1>2
<1>4. 3 \in 1..Len(t)
  OBVIOUS
<1> QED
  BY <1>1, <1>2, <1>3, <1>4

\* How a list of writes can end, and what is durable then.
LEMMA WritesEffect ==
  ASSUME NEW list \in Seq(EventNames), NEW w \in Writes(list)
  PROVE  /\ w.n \in 0..Len(list) /\ w.how \in {"ok", "lost", "torn"}
         /\ w.how = "ok" => w.n = Len(list)
         /\ Committed(list, w) \in Seq(EventNames) /\ Len(Committed(list, w)) \in 0..Len(list)
         /\ w.how = "ok" => /\ Len(Committed(list, w)) = Len(list)
                            /\ \A i \in 1..Len(list) : Committed(list, w)[i] = list[i]
<1>0. Len(list) \in Nat
  OBVIOUS
<1>1. /\ w.n \in 0..Len(list) /\ w.how \in {"ok", "lost", "torn"}
      /\ w.how = "ok" => w.n = Len(list)
      /\ w.how = "torn" => w.n + 1 \in 0..Len(list)
  BY <1>0 DEF Writes
<1> DEFINE m == IF w.how = "torn" THEN w.n + 1 ELSE w.n
<1>2. m \in 0..Len(list) /\ (w.how = "ok" => m = Len(list))
  BY <1>1
<1>3. Committed(list, w) = SubSeq(list, 1, m)
  BY DEF Committed
<1> HIDE DEF m
<1> QED
  BY <1>1, <1>2, <1>3, Prefix

\* Three lists, one after the other.
LEMMA ThreeLists ==
  ASSUME NEW S, NEW a \in Seq(S), NEW b \in Seq(S), NEW c \in Seq(S), NEW d, d = (a \o b) \o c
  PROVE  /\ d \in Seq(S) /\ Len(d) = Len(a) + Len(b) + Len(c)
         /\ \A i \in 1..Len(a) : d[i] = a[i]
         /\ \A i \in 1..Len(b) : d[Len(a) + i] = b[i]
         /\ \A i \in 1..Len(c) : d[Len(a) + Len(b) + i] = c[i]
OBVIOUS

\* The names of the story, one by one.
LEMMA StoryEvents ==
  /\ AUTHORIZED_V2_EVENTS \in Seq(EventNames) /\ Len(AUTHORIZED_V2_EVENTS) = 8
  /\ <<START>> \o ARM \in Seq(EventNames) /\ Len(<<START>> \o ARM) = 3
  /\ <<SPAWN>> \in Seq(EventNames) /\ Len(<<SPAWN>>) = 1 /\ <<SPAWN>>[1] = SPAWN
  /\ Story \in Seq(EventNames) /\ Len(Story) = 12
  /\ \A i \in 1..8 : Story[i] = AUTHORIZED_V2_EVENTS[i]
  /\ \A i \in 1..3 : Story[8 + i] = (<<START>> \o ARM)[i]
  /\ Story[12] = SPAWN
<1>1. AUTHORIZED_V2_EVENTS \in Seq(EventNames) /\ Len(AUTHORIZED_V2_EVENTS) = 8
  BY DEF AUTHORIZED_V2_EVENTS, EventNames
<1>2. <<START>> \in Seq(EventNames) /\ ARM \in Seq(EventNames) /\ Len(<<START>>) = 1 /\ Len(ARM) = 2
  BY DEF START, ARM, EventNames
<1>3. <<SPAWN>> \in Seq(EventNames) /\ Len(<<SPAWN>>) = 1 /\ <<SPAWN>>[1] = SPAWN
  BY DEF SPAWN, EventNames
<1>4. <<START>> \o ARM \in Seq(EventNames) /\ Len(<<START>> \o ARM) = 3
  BY <1>2, Concatenation
<1>5. Story = (AUTHORIZED_V2_EVENTS \o (<<START>> \o ARM)) \o <<SPAWN>>
  BY <1>1, <1>2, Association DEF Story
<1>6. PICK a, b, c : a = AUTHORIZED_V2_EVENTS /\ b = <<START>> \o ARM /\ c = <<SPAWN>>
  OBVIOUS
<1>7. /\ a \in Seq(EventNames) /\ b \in Seq(EventNames) /\ c \in Seq(EventNames)
      /\ Story = (a \o b) \o c
  BY ONLY <1>1, <1>3, <1>4, <1>5, <1>6, Zenon
<1>8. /\ Story \in Seq(EventNames) /\ Len(Story) = Len(a) + Len(b) + Len(c)
      /\ \A i \in 1..Len(a) : Story[i] = a[i]
      /\ \A i \in 1..Len(b) : Story[Len(a) + i] = b[i]
      /\ \A i \in 1..Len(c) : Story[Len(a) + Len(b) + i] = c[i]
  BY ONLY <1>7, ThreeLists
<1>9. /\ Len(Story) = 8 + 3 + 1
      /\ \A i \in 1..8 : Story[i] = a[i]
      /\ \A i \in 1..3 : Story[8 + i] = b[i]
      /\ \A i \in 1..1 : Story[8 + 3 + i] = c[i]
  BY ONLY <1>1, <1>3, <1>4, <1>6, <1>8, Zenon
<1>10. Len(Story) = 12 /\ Story[12] = SPAWN
  <2>1. c[1] = SPAWN
    BY ONLY <1>3, <1>6, Zenon
  <2> QED
    BY ONLY <1>9, <2>1
<1> QED
  BY ONLY <1>1, <1>3, <1>4, <1>6, <1>8, <1>9, <1>10, Zenon

\* The chain grows: what it has told, it has told.
LEMMA StoryGoesOn ==
  ASSUME DbTypes, NEW t \in Seq(EventNames), db'.events = db.events \o t
  PROVE  /\ db'.events \in Seq(EventNames) /\ Len(db'.events) = Len(db.events) + Len(t)
         /\ \A n \in 1..12 : Told(n) => Told(n)'
         /\ \A i \in 1..Len(db.events) : db'.events[i] = db.events[i]
         /\ \A i \in 1..Len(t) : db'.events[Len(db.events) + i] = t[i]
<1>1. db.events \in Seq(EventNames)
  BY DEF DbTypes
<1>2. /\ db'.events \in Seq(EventNames) /\ Len(db'.events) = Len(db.events) + Len(t)
      /\ Len(db.events) \in Nat /\ Len(t) \in Nat
      /\ \A i \in 1..Len(db.events) : db'.events[i] = db.events[i]
      /\ \A i \in 1..Len(t) : db'.events[Len(db.events) + i] = t[i]
  BY <1>1, Concatenation
<1>3. \A n \in 1..12 : Told(n) => Told(n)'
  BY <1>2 DEF Told
<1> QED
  BY <1>2, <1>3

\* What is told is covered.
LEMMA ToldIsCovered ==
  ASSUME DbTypes, NEW n \in 1..12, Told(n)
  PROVE  Covered(n)
<1>1. db.events \in Seq(EventNames) /\ Len(db.events) \in Nat /\ Len(db.events) >= n
  BY DEF DbTypes, Told
<1>2. Story \in Seq(EventNames) /\ Len(Story) = 12
  BY StoryEvents
<1>3. /\ SubSeq(db.events, 1, n) \in Seq(EventNames) /\ Len(SubSeq(db.events, 1, n)) = n
      /\ \A i \in 1..n : SubSeq(db.events, 1, n)[i] = db.events[i]
  BY <1>1, Prefix
<1>4. /\ SubSeq(Story, 1, n) \in Seq(EventNames) /\ Len(SubSeq(Story, 1, n)) = n
      /\ \A i \in 1..n : SubSeq(Story, 1, n)[i] = Story[i]
  <2>1. n \in 0..Len(Story)
    BY <1>2
  <2> QED
    BY <1>2, <2>1, Prefix
<1>5. \A i \in 1..n : SubSeq(db.events, 1, n)[i] = SubSeq(Story, 1, n)[i]
  BY <1>3, <1>4 DEF Told
<1>6. SubSeq(db.events, 1, n) = SubSeq(Story, 1, n)
  BY <1>3, <1>4, <1>5, SameSequence
<1> QED
  BY <1>1, <1>6 DEF Covered, Story


-----------------------------------------------------------------------------
(* What a step may do to one part of the state without disturbing the others. *)

\* The listener is aborted, becomes ready, is claimed, or its one close goes on.
LisMoved ==
  /\ Fields(lis', LisFields)
  /\ lis'.ready \in BOOLEAN /\ (lis.ready => lis'.ready)
  /\ lis'.claimed \in BOOLEAN /\ (lis.claimed => lis'.claimed)
  /\ lis'.executionOwned = lis.executionOwned
  /\ \/ lis'.state = lis.state /\ lis'.closing = lis.closing /\ lis'.clean = lis.clean
     \/ /\ lis.state # "none" /\ lis.closing = "no" /\ lis'.clean = lis.clean
        /\ lis'.state = "drained" /\ lis'.closing = "running"
     \/ /\ lis.closing = "running" /\ lis'.closing = "done" /\ lis'.state \in {"drained", "closed"}
        /\ lis'.clean \in BOOLEAN /\ (lis'.clean => lis'.state = "closed")

\* The preparation is at most revoked.
PrKept ==
  /\ Fields(pr', PrFields)
  /\ pr'.pc = pr.pc /\ pr'.output = pr.output /\ pr'.read = pr.read
  /\ pr'.revoked \in BOOLEAN /\ (pr.revoked => pr'.revoked)
  /\ pr.pc = "none" => ~pr'.revoked

\* A ticket that is open is at most ended.
AuKept ==
  /\ Fields(au', AuFields)
  /\ au'.pc = au.pc
  /\ au'.ticket = au.ticket \/ (au.ticket = "pending" /\ au'.ticket # "pending")

\* The execution is at most stopped; its child and its reads come to an end.
ExKept ==
  /\ Fields(ex', ExFields)
  /\ ex'.pc = ex.pc \/ (ex.pc \in Active /\ ex'.pc = "stopping")
  /\ ex'.startReturned = ex.startReturned /\ ex'.attempted = ex.attempted
  /\ ex'.status = ex.status /\ ex'.proven = ex.proven
  /\ ex'.read \in BOOLEAN /\ (ex'.read => ex.read)
  /\ ex'.closeObserved \in BOOLEAN
  /\ ex'.closeObserved => ex'.child \in {"exited0", "exited1"}
  /\ ex.child \in {"none", "exited0", "exited1"} => ex'.child = ex.child

\* Outputs are at most aborted.
OutKept ==
  /\ out' = [o \in Outputs |-> out'[o]]
  /\ \A o \in Outputs :
       /\ Fields(out'[o], OutFields)
       /\ out'[o].st = out[o].st /\ out'[o].registered = out[o].registered
       /\ out'[o].inContext = out[o].inContext /\ out'[o].descriptor = out[o].descriptor
       /\ out'[o].closer = out[o].closer /\ out'[o].release = out[o].release

\* Nobody closes the listener of a running execution.
LeavesListener == ex'.pc \in Active => lis'.closing = lis.closing

\* Owners, story and proof are not about outputs and contexts.
LEMMA OwnersKept ==
  ASSUME IInv, LisMoved, PrKept, AuKept, ExKept, LeavesListener, UNCHANGED <<seal, db>>
  PROVE  /\ LisTypes' /\ PrTypes' /\ AuTypes' /\ DbTypes' /\ ExTypes'
         /\ OwnersInv' /\ StoryInv' /\ TerminalInv'
<1>1. LisTypes'
  BY DEF IInv, Types, LisTypes, LisMoved
<1>2. PrTypes' /\ AuTypes' /\ DbTypes'
  BY DEF IInv, Types, PrTypes, AuTypes, DbTypes, PrKept, AuKept
<1>3. ExTypes'
  BY DEF IInv, Types, ExTypes, ExKept
<1>4. OwnersInv'
  BY DEF IInv, Types, LisTypes, ExTypes, OwnersInv, LisMoved, PrKept, AuKept, ExKept, LeavesListener, Active
<1>5. StoryInv'
  BY DEF IInv, StoryInv, Told, LisMoved, ExKept, Active
<1>6. TerminalInv'
  BY DEF IInv, Types, LisTypes, TerminalInv, LisMoved, ExKept, Active
<1> QED
  BY <1>1, <1>2, <1>3, <1>4, <1>5, <1>6

\* No output changes hands.
LEMMA CustodyKept ==
  ASSUME IInv, OutKept, PrKept, ExKept
  PROVE  OutTypes' /\ CustodyInv'
<1>1. OutTypes'
  BY DEF IInv, Types, OutTypes, OutKept
<1>2. ex.pc \in {"none", "terminal"} => ex'.pc \in {"none", "terminal"}
  BY DEF ExKept, Active
<1>3. CustodyInv'
  BY <1>2 DEF IInv, CustodyInv, OutKept, PrKept, ExKept
<1> QED
  BY <1>1, <1>3

\* The context is left alone.
LEMMA ContextKept ==
  ASSUME IInv, LisMoved, AuKept, ExKept, UNCHANGED <<ctx, seal, closer>>
  PROVE  ControlTypes' /\ ContextInv'
<1>1. ControlTypes'
  BY DEF IInv, Types, ControlTypes
<1>2. ContextInv'
  BY DEF IInv, ContextInv, LisMoved, AuKept, ExKept, Active
<1> QED
  BY <1>1, <1>2

\* All of them together.
LEMMA Kept ==
  ASSUME IInv, OutKept, LisMoved, PrKept, AuKept, ExKept, LeavesListener,
         UNCHANGED <<ctx, seal, db, closer>>
  PROVE  IInv'
<1>1. /\ LisTypes' /\ PrTypes' /\ AuTypes' /\ DbTypes' /\ ExTypes'
      /\ OwnersInv' /\ StoryInv' /\ TerminalInv'
  BY OwnersKept
<1> QED
  BY <1>1, CustodyKept, ContextKept DEF IInv, Types

\* What does not change is kept.
LEMMA SameIsKept ==
  ASSUME IInv
  PROVE  /\ UNCHANGED out => OutKept
         /\ UNCHANGED lis => LisMoved
         /\ UNCHANGED pr => PrKept
         /\ UNCHANGED au => AuKept
         /\ UNCHANGED ex => ExKept
<1>1. UNCHANGED out => OutKept
  BY DEF IInv, Types, OutTypes, OutKept
<1>2. UNCHANGED lis => LisMoved
  BY DEF IInv, Types, LisTypes, LisMoved
<1>3. UNCHANGED pr => PrKept
  BY DEF IInv, Types, PrTypes, OwnersInv, PrKept
<1>4. UNCHANGED au => AuKept
  BY DEF IInv, Types, AuTypes, AuKept
<1>5. UNCHANGED ex => ExKept
  BY DEF IInv, Types, ExTypes, TerminalInv, ExKept
<1> QED
  BY <1>1, <1>2, <1>3, <1>4, <1>5

\* An abort of outputs, a revoked preparation, a cancelled ticket.
LEMMA AbortIsKept ==
  ASSUME IInv
  PROVE  /\ \A os : out' = AbortOutputs(os) => OutKept
         /\ pr' = RevokePreparation(pr) => PrKept
         /\ au' = CancelTicket(au) => AuKept
<1>1. ASSUME NEW os, out' = AbortOutputs(os) PROVE OutKept
  BY <1>1 DEF IInv, Types, OutTypes, OutKept, AbortOutputs, Fields, OutFields
<1>2. pr' = RevokePreparation(pr) => PrKept
  BY DEF IInv, Types, PrTypes, OwnersInv, PrKept, RevokePreparation, Fields, PrFields
<1>3. au' = CancelTicket(au) => AuKept
  BY DEF IInv, Types, AuTypes, AuKept, CancelTicket, Fields, AuFields
<1> QED
  BY <1>1, <1>2, <1>3

\* How a listener's close begins.
Closes(l, k) ==
  /\ Fields(k, LisFields)
  /\ k.ready = l.ready /\ k.claimed = l.claimed
  /\ k.executionOwned = l.executionOwned /\ k.clean = l.clean
  /\ \/ k.state = l.state /\ k.closing = l.closing
     \/ l.state # "none" /\ l.closing = "no" /\ k.state = "drained" /\ k.closing = "running"

\* closeOriginalListener() and the revoke handler.
LEMMA CloseEffect ==
  ASSUME NEW l, Fields(l, LisFields)
  PROVE  /\ Closes(l, StartClose(l)) /\ (l.state = "none" \/ StartClose(l).closing # "no")
         /\ Closes(l, RevokeListener(l))
         /\ l.executionOwned => RevokeListener(l).closing = l.closing
         /\ Closes(l, [l EXCEPT !.aborted = TRUE])
<1>1. ASSUME NEW k, Fields(k, LisFields)
      PROVE  Closes(k, StartClose(k)) /\ (k.state = "none" \/ StartClose(k).closing # "no")
  BY <1>1 DEF Closes, StartClose, Fields, LisFields
<1>2. ASSUME NEW b
      PROVE  Closes(l, [l EXCEPT !.aborted = b]) /\ [l EXCEPT !.aborted = b].closing = l.closing
  BY DEF Closes, Fields, LisFields
<1>3. ASSUME NEW k, Closes(l, k) PROVE Closes(l, StartClose(k))
  BY <1>1, <1>3 DEF Closes
<1>4. Closes(l, RevokeListener(l)) /\ (l.executionOwned => RevokeListener(l).closing = l.closing)
  BY <1>2, <1>3 DEF RevokeListener
<1> QED
  BY <1>1, <1>2, <1>4


\* A listener on its way to the close, or the end of the close.
LEMMA ClosesIsMoved ==
  ASSUME IInv, Closes(lis, lis') PROVE LisMoved
BY DEF IInv, Types, LisTypes, Closes, LisMoved

\* A claimed listener that is closed.
LEMMA ClosesTwice ==
  ASSUME NEW l, NEW k, Closes(l, k) PROVE Closes(l, StartClose(k))
<1>1. Closes(k, StartClose(k))
  BY CloseEffect DEF Closes
<1> QED
  BY <1>1 DEF Closes

\* #latch() changes the failure and wakes the run, nothing else.
LEMMA LatchEffect ==
  ASSUME NEW e, NEW code, Fields(e, ExFields)
  PROVE  /\ Fields(Latch(e, code), ExFields)
         /\ \A x \in ExFields \ {"failure", "woken"} : Latch(e, code)[x] = e[x]
BY DEF Latch, Fields, ExFields

\* Running to the stop: the latch and the phase.
LEMMA StoppingEffect ==
  ASSUME NEW e, NEW code, Fields(e, ExFields)
  PROVE  /\ Fields(Stopping(Latch(e, code)), ExFields)
         /\ Stopping(Latch(e, code)).pc = "stopping"
         /\ \A x \in ExFields \ {"failure", "woken", "pc"} : Stopping(Latch(e, code))[x] = e[x]
<1>1. /\ Fields(Latch(e, code), ExFields)
      /\ \A x \in ExFields \ {"failure", "woken"} : Latch(e, code)[x] = e[x]
  BY LatchEffect
<1> HIDE DEF Latch
<1>2. ASSUME NEW f, Fields(f, ExFields)
      PROVE  /\ Fields(Stopping(f), ExFields) /\ Stopping(f).pc = "stopping"
             /\ \A x \in ExFields \ {"pc"} : Stopping(f)[x] = f[x]
  BY <1>2 DEF Stopping, Fields, ExFields
<1> QED
  BY <1>1, <1>2

\* The stop of a run: the execution is stopping, its listener's close has begun, its
\* output is aborted and its preparation revoked.
LEMMA StopEffect ==
  ASSUME IInv, NEW e, NEW code, Fields(e, ExFields), Stop(e, code)
  PROVE  /\ OutKept /\ LisMoved /\ PrKept
         /\ Fields(ex', ExFields) /\ ex'.pc = "stopping"
         /\ \A x \in ExFields \ {"failure", "woken", "pc"} : ex'[x] = e[x]
<1>1. OutKept /\ PrKept
  BY AbortIsKept DEF Stop
<1>2. LisMoved
  <2>1. Fields(lis, LisFields)
    BY DEF IInv, Types, LisTypes
  <2>2. Closes(lis, [lis EXCEPT !.aborted = TRUE])
    BY <2>1, CloseEffect
  <2>3. Closes(lis, lis')
    BY <2>2, ClosesTwice DEF Stop
  <2> QED
    BY <2>3, ClosesIsMoved
<1> QED
  BY <1>1, <1>2, StoppingEffect DEF Stop

\* Events outside #run(): latch and cut, with or without an end of the child.
LEMMA CutEffect ==
  ASSUME IInv, NEW os, Cut(os)
  PROVE  OutKept /\ LisMoved /\ PrKept /\ AuKept /\ (ex.pc # "none" => lis'.closing = lis.closing)
<1>1. OutKept
  BY AbortIsKept DEF Cut
<1>2. PrKept /\ AuKept
  BY AbortIsKept, SameIsKept DEF Cut
<1>3. lis' = lis \/ lis' = RevokeListener(lis)
  BY DEF Cut
<1>4. Fields(lis, LisFields) /\ (ex.pc # "none" => lis.executionOwned)
  BY DEF IInv, Types, LisTypes, OwnersInv
<1>5. Closes(lis, RevokeListener(lis)) /\ (lis.executionOwned => RevokeListener(lis).closing = lis.closing)
  BY <1>4, CloseEffect
<1>6. LisMoved
  BY <1>3, <1>5, ClosesIsMoved, SameIsKept
<1> QED
  BY <1>1, <1>2, <1>3, <1>4, <1>5, <1>6


-----------------------------------------------------------------------------
(* The child, the timers, the caller and the listener's own events. *)

\* A latch, and an event of the child that does not bring back what has ended.
LEMMA LatchIsKept ==
  ASSUME IInv, NEW code, ex' = Latch(ex, code) PROVE ExKept /\ ex'.pc = ex.pc
<1>1. Fields(ex, ExFields)
  BY DEF IInv, Types, ExTypes
<1>2. /\ Fields(ex', ExFields)
      /\ \A x \in ExFields \ {"failure", "woken"} : ex'[x] = ex[x]
  BY <1>1, LatchEffect
<1> QED
  BY <1>2 DEF IInv, Types, ExTypes, TerminalInv, ExKept, ExFields

\* The events of the child.
LEMMA ChildInv ==
  ASSUME IInv, ChildSpawned \/ ChildFails \/ ChildExits \/ ChildCloses \/ ExecutionReadSettles
  PROVE  IInv'
<1>0. Fields(ex, ExFields) /\ ExTypes /\ TerminalInv
  BY DEF IInv, Types, ExTypes
<1>1. CASE ChildSpawned \/ ChildExits \/ ExecutionReadSettles
  <2>1. UNCHANGED <<sessionVars, closer>>
    BY <1>1 DEF ChildSpawned, ChildExits, ExecutionReadSettles
  <2>2. ExKept /\ ex'.pc = ex.pc
    <3>1. CASE ChildSpawned
      BY <1>0, <3>1 DEF ChildSpawned, ExTypes, TerminalInv, ExKept, Fields, ExFields
    <3>2. CASE ChildExits
      BY <1>0, <3>2 DEF ChildExits, ExTypes, TerminalInv, ExKept, Fields, ExFields
    <3>3. CASE ExecutionReadSettles
      BY <1>0, <3>3 DEF ExecutionReadSettles, ExTypes, TerminalInv, ExKept, Fields, ExFields
    <3> QED
      BY <1>1, <3>1, <3>2, <3>3
  <2>3. UNCHANGED <<out, lis, pr, au, ctx, seal, db, closer>>
    BY <2>1 DEF sessionVars
  <2> QED
    BY <2>2, <2>3, Kept, SameIsKept DEF LeavesListener
<1>2. CASE ChildFails
  <2>1. UNCHANGED <<ctx, seal, db, closer>> /\ Cut({pr.output}) /\ ex.pc # "none"
    BY <1>2 DEF ChildFails, LatchAndCut
  <2>2. OutKept /\ LisMoved /\ PrKept /\ AuKept /\ lis'.closing = lis.closing
    BY <2>1, CutEffect
  <2>3. ExKept
    <3>1. CASE ex' = Latch(ex, "output_overflow")
      BY <3>1, LatchIsKept
    <3>2. CASE ex' = [Latch(ex, "process_error") EXCEPT !.child = "exited1"] /\ ex.child = "starting"
      <4>1. /\ Fields(Latch(ex, "process_error"), ExFields)
            /\ \A x \in ExFields \ {"failure", "woken"} : Latch(ex, "process_error")[x] = ex[x]
        BY <1>0, LatchEffect
      <4>2. /\ Fields(ex', ExFields) /\ ex'.child = "exited1"
            /\ \A x \in ExFields \ {"failure", "woken", "child"} : ex'[x] = ex[x]
        <5> HIDE DEF Latch
        <5> QED
          BY <3>2, <4>1 DEF Fields, ExFields
      <4> QED
        BY <1>0, <3>2, <4>2 DEF ExTypes, TerminalInv, ExKept, ExFields
    <3> QED
      BY <1>2, <3>1, <3>2 DEF ChildFails, LatchAndCut
  <2> QED
    BY <2>1, <2>2, <2>3, Kept DEF LeavesListener
<1>3. CASE ChildCloses
  <2>1. /\ UNCHANGED <<ctx, seal, db, closer>> /\ ex.pc # "none"
        /\ ex.child \in {"exited0", "exited1"}
    BY <1>0, <1>3 DEF ChildCloses, TerminalInv
  <2> DEFINE e == [ex EXCEPT !.closeObserved = TRUE, !.woken = TRUE]
  <2>2. /\ Fields(e, ExFields) /\ e.closeObserved = TRUE
        /\ \A x \in ExFields \ {"closeObserved", "woken"} : e[x] = ex[x]
    BY <1>0 DEF Fields, ExFields
  <2>3. \/ ex' = e /\ UNCHANGED <<out, pr, lis, au>>
        \/ ex' = Latch(e, "process_error") /\ Cut({pr.output})
    BY <1>3 DEF ChildCloses
  <2> HIDE DEF e
  <2>4. /\ Fields(ex', ExFields) /\ ex'.closeObserved = TRUE
        /\ \A x \in ExFields \ {"closeObserved", "woken", "failure"} : ex'[x] = ex[x]
    BY <2>2, <2>3, LatchEffect DEF ExFields
  <2>5. ExKept
    BY <1>0, <2>1, <2>4 DEF ExTypes, ExKept, ExFields
  <2>6. OutKept /\ LisMoved /\ PrKept /\ AuKept /\ lis'.closing = lis.closing
    BY <2>1, <2>3, CutEffect, SameIsKept
  <2> QED
    BY <2>1, <2>5, <2>6, Kept DEF LeavesListener
<1> QED
  BY <1>1, <1>2, <1>3

\* The execution's timer, the caller's signal and the listener's events.
LEMMA SignalInv ==
  ASSUME IInv, ExecutionTimer \/ CallerAborts \/ ListenerRevoked
  PROVE  IInv'
<1>1. CASE ExecutionTimer \/ (CallerAborts /\ ex.pc \notin {"none", "terminal"})
  <2>1. /\ UNCHANGED <<ctx, seal, db, closer>> /\ Cut({pr.output}) /\ ex.pc # "none"
        /\ \E code : ex' = Latch(ex, code)
    BY <1>1 DEF ExecutionTimer, CallerAborts, LatchAndCut
  <2>2. OutKept /\ LisMoved /\ PrKept /\ AuKept /\ lis'.closing = lis.closing
    BY <2>1, CutEffect
  <2> QED
    BY <2>1, <2>2, Kept, LatchIsKept DEF LeavesListener
<1>2. CASE CallerAborts /\ ex.pc \in {"none", "terminal"}
  <2>1. au' = CancelTicket(au) /\ UNCHANGED <<ctx, seal, db, closer, ex, out, pr, lis>>
    BY <1>2 DEF CallerAborts
  <2> QED
    BY <2>1, Kept, SameIsKept, AbortIsKept DEF LeavesListener
<1>3. CASE ListenerRevoked
  <2>1. /\ UNCHANGED <<ctx, seal, db, closer>>
        /\ lis' = RevokeListener(lis) /\ out' = AbortOutputs(Linked)
        /\ pr' = RevokePreparation(pr) /\ au' = CancelTicket(au) /\ ex' = Latch(ex, "cancelled")
    BY <1>3 DEF ListenerRevoked
  <2>2. Fields(lis, LisFields) /\ (ex.pc # "none" => lis.executionOwned)
    BY DEF IInv, Types, LisTypes, OwnersInv
  <2>3. LisMoved /\ (ex.pc # "none" => lis'.closing = lis.closing)
    BY <2>1, <2>2, CloseEffect, ClosesIsMoved
  <2>4. OutKept /\ PrKept /\ AuKept
    BY <2>1, AbortIsKept
  <2>5. ExKept /\ ex'.pc = ex.pc
    BY <2>1, LatchIsKept
  <2>6. LeavesListener
    BY <2>3, <2>5 DEF LeavesListener, Active
  <2> QED
    BY <2>1, <2>3, <2>4, <2>5, <2>6, Kept
<1> QED
  BY <1>1, <1>2, <1>3


-----------------------------------------------------------------------------
(* #run(). *)

\* A step of the run: it has the chain to itself, and no close has come past it.
LEMMA RunsOn ==
  ASSUME IInv, ex.pc \in Active, OutKept, PrKept, UNCHANGED <<au, ctx, seal, closer>>,
         LisTypes', DbTypes', ExTypes', StoryInv',
         lis'.executionOwned = lis.executionOwned, lis'.ready = lis.ready, lis'.claimed = lis.claimed,
         ex'.pc \in Active \cup {"stopping"}, ex'.pc \in Active => lis'.closing = "no",
         ex'.pc \in {"reserved", "first", "second"} => ex'.child = "none",
         ex'.closeObserved => ex'.child \in {"exited0", "exited1"},
         ex'.status = ex.status
  PROVE  IInv'
<1>1. OutTypes' /\ PrTypes' /\ AuTypes' /\ ControlTypes'
  BY DEF IInv, Types, OutTypes, PrTypes, AuTypes, ControlTypes, OutKept, PrKept
<1>2. OwnersInv'
  BY DEF IInv, OwnersInv, PrKept, Active
<1>3. TerminalInv'
  BY DEF IInv, TerminalInv, Active
<1>4. CustodyInv'
  BY DEF IInv, CustodyInv, OutKept, PrKept, Active
<1>5. ContextInv'
  BY DEF IInv, ContextInv, Active
<1> QED
  BY <1>1, <1>2, <1>3, <1>4, <1>5 DEF IInv, Types

\* What the run may hand to its stop.
Stoppable(e) ==
  /\ Fields(e, ExFields)
  /\ e.read \in BOOLEAN /\ e.attempted \in BOOLEAN /\ e.startReturned \in BOOLEAN
  /\ e.closeObserved = ex.closeObserved /\ e.child = ex.child
  /\ e.proven = ex.proven /\ e.status = ex.status

\* The run stops, after whatever it has written.
LEMMA StopsInv ==
  ASSUME IInv, ex.pc \in Active, UNCHANGED <<au, ctx, seal, closer>>,
         NEW e, NEW code, Stoppable(e), Stop(e, code),
         DbTypes', NEW t \in Seq(EventNames), db'.events = db.events \o t,
         e.attempted => Told(12)'
  PROVE  IInv'
<1>1. /\ OutKept /\ LisMoved /\ PrKept
      /\ Fields(ex', ExFields) /\ ex'.pc = "stopping"
      /\ \A x \in ExFields \ {"failure", "woken", "pc"} : ex'[x] = e[x]
  BY StopEffect DEF Stoppable
<1>2. /\ ex'.read = e.read /\ ex'.attempted = e.attempted /\ ex'.startReturned = e.startReturned
      /\ ex'.closeObserved = ex.closeObserved /\ ex'.child = ex.child
      /\ ex'.proven = ex.proven /\ ex'.status = ex.status
  BY <1>1 DEF Stoppable, ExFields
<1>3. LisTypes'
  BY <1>1 DEF IInv, Types, LisTypes, LisMoved
<1>4. ExTypes'
  BY <1>1, <1>2 DEF IInv, Types, ExTypes, Stoppable
<1>5. seal = "consumed" /\ lis.closing = "no"
  BY DEF IInv, OwnersInv, Active
<1>6. lis'.state = "armed" => lis.state = "armed"
  BY <1>1 DEF LisMoved
<1>7. StoryInv'
  <2>1. \A n \in 1..12 : Told(n) => Told(n)'
    BY StoryGoesOn DEF IInv, Types
  <2>2. Told(8) /\ (lis.state = "armed" => Told(11))
    BY <1>5 DEF IInv, StoryInv
  <2> QED
    BY <1>1, <1>2, <1>5, <1>6, <2>1, <2>2 DEF StoryInv
<1>8. lis'.executionOwned = lis.executionOwned /\ lis'.ready = lis.ready /\ lis'.claimed = lis.claimed
  <2>1. Fields(lis, LisFields)
    BY DEF IInv, Types, LisTypes
  <2>2. Closes(lis, [lis EXCEPT !.aborted = TRUE])
    BY <2>1, CloseEffect
  <2>3. Closes(lis, lis')
    BY <2>2, ClosesTwice DEF Stop
  <2> QED
    BY <2>3 DEF Closes
<1> QED
  BY <1>1, <1>2, <1>3, <1>4, <1>7, <1>8, RunsOn DEF IInv, TerminalInv, Active

\* The run stops without having written.
LEMMA StopsQuietly ==
  ASSUME IInv, ex.pc \in Active, UNCHANGED <<au, ctx, seal, closer, db>>,
         NEW code, NEW e \in {ex, [ex EXCEPT !.read = FALSE]}, Stop(e, code)
  PROVE  IInv'
<1>1. Stoppable(e) /\ e.attempted = ex.attempted
  BY DEF IInv, Types, ExTypes, Stoppable, Fields, ExFields
<1>2. db.events \in Seq(EventNames) /\ DbTypes'
  BY DEF IInv, Types, DbTypes
<1>3. <<>> \in Seq(EventNames) /\ db.events = db.events \o <<>>
  BY <1>2
<1>4. ex.attempted => Told(12)'
  BY DEF IInv, StoryInv, Told
<1> QED
  BY <1>1, <1>2, <1>3, <1>4, StopsInv


\* A revalidation begins or ends: the run goes on to it, or stops.
LEMMA RevalidationInv ==
  ASSUME IInv, Execute \/ RevalidationEnds \/ Wake \/ AfterChild
  PROVE  IInv'
<1>0. ex.pc \in Active /\ UNCHANGED <<au, ctx, seal, closer, db>>
  BY DEF Execute, RevalidationEnds, Wake, AfterChild, Active
<1>1. CASE \E code : \E e \in {ex, [ex EXCEPT !.read = FALSE]} : Stop(e, code)
  BY <1>0, <1>1, StopsQuietly
<1>2. CASE /\ UNCHANGED <<lis, out, pr>>
           /\ \/ ex.pc = "reserved" /\ ex' = [ex EXCEPT !.pc = "first", !.read = TRUE]
              \/ ex.pc = "running" /\ ex' = [ex EXCEPT !.pc = "after", !.read = TRUE]
  <2>1. /\ Fields(ex', ExFields) /\ ex'.read = TRUE
        /\ \/ ex.pc = "reserved" /\ ex'.pc = "first"
           \/ ex.pc = "running" /\ ex'.pc = "after"
        /\ ex'.attempted = ex.attempted /\ ex'.closeObserved = ex.closeObserved
        /\ ex'.startReturned = ex.startReturned /\ ex'.proven = ex.proven
        /\ ex'.status = ex.status /\ ex'.child = ex.child
    <3>1. Fields(ex, ExFields)
      BY DEF IInv, Types, ExTypes
    <3>2. CASE ex.pc = "reserved" /\ ex' = [ex EXCEPT !.pc = "first", !.read = TRUE]
      BY <3>1, <3>2 DEF Fields, ExFields
    <3>3. CASE ex.pc = "running" /\ ex' = [ex EXCEPT !.pc = "after", !.read = TRUE]
      BY <3>1, <3>3 DEF Fields, ExFields
    <3> QED
      BY <1>2, <3>2, <3>3
  <2>2. LisTypes' /\ DbTypes'
    BY <1>0, <1>2 DEF IInv, Types, LisTypes, DbTypes
  <2>3. ExTypes'
    BY <2>1 DEF IInv, Types, ExTypes, Active
  <2>4. StoryInv'
    BY <1>0, <1>2, <2>1 DEF IInv, StoryInv, Told
  <2>5. lis.closing = "no"
    BY <1>0 DEF IInv, OwnersInv
  <2>6. /\ ex'.closeObserved => ex'.child \in {"exited0", "exited1"}
        /\ ex'.pc \in {"reserved", "first", "second"} => ex'.child = "none"
    BY <2>1 DEF IInv, TerminalInv
  <2>7. OutKept /\ PrKept
    BY <1>2, SameIsKept
  <2> QED
    BY <1>0, <1>2, <2>1, <2>2, <2>3, <2>4, <2>5, <2>6, <2>7, RunsOn DEF Active
<1>3. CASE Execute
  BY <1>1, <1>2, <1>3 DEF Execute
<1>4. CASE RevalidationEnds
  BY <1>1, <1>4 DEF RevalidationEnds
<1>5. CASE Wake
  BY <1>1, <1>2, <1>5 DEF Wake
<1>6. CASE AfterChild
  BY <1>1, <1>6 DEF AfterChild
<1> QED
  BY <1>3, <1>4, <1>5, <1>6

\* The start, the two broker events and the arming: the listener is armed only when all
\* three are durable.
LEMMA StartAndArmInv ==
  ASSUME IInv, StartAndArm
  PROVE  IInv'
<1> DEFINE list == <<START>> \o ARM
<1>0. /\ ex.pc = "first" /\ ex.pc \in Active /\ UNCHANGED <<au, ctx, seal, closer>>
      /\ Told(8) /\ Len(db.events) = 8 /\ db.events \in Seq(EventNames) /\ Fields(db, DbFields)
      /\ lis.closing = "no" /\ ~ex.closeObserved /\ ex.child = "none"
  BY DEF StartAndArm, Active, IInv, OwnersInv, StoryInv, TerminalInv, Types, DbTypes
<1>1. list \in Seq(EventNames) /\ Len(list) = 3 /\ \A i \in 1..3 : Story[8 + i] = list[i]
  BY StoryEvents
<1> HIDE DEF list
<1>2. CASE UNCHANGED db /\ \E code : Stop([ex EXCEPT !.read = FALSE], code)
  BY <1>0, <1>2, StopsQuietly
<1>3. ASSUME NEW w \in Writes(list), NEW e, NEW ev,
             e = [ex EXCEPT !.read = FALSE, !.expected = @ \o Accepted(list, w),
                            !.startReturned = w.n > 0, !.pending = w.how # "ok"],
             ev = db.events \o Committed(list, w),
             db' = [db EXCEPT !.events = ev,
                              !.row = IF Len(ev) > Len(db.events) THEN "forwarding" ELSE @]
      PROVE  /\ w.how \in {"ok", "lost", "torn"}
             /\ Stoppable(e) /\ e.attempted = ex.attempted
             /\ DbTypes' /\ db'.events = db.events \o Committed(list, w)
             /\ Committed(list, w) \in Seq(EventNames)
             /\ w.how = "ok" => Told(11)' /\ Len(db'.events) = 11
  <2>1. /\ w.n \in 0..Len(list) /\ w.how \in {"ok", "lost", "torn"}
        /\ Committed(list, w) \in Seq(EventNames)
        /\ w.how = "ok" => /\ Len(Committed(list, w)) = Len(list)
                           /\ \A i \in 1..Len(list) : Committed(list, w)[i] = list[i]
    BY <1>1, WritesEffect
  <2>2. Stoppable(e) /\ e.attempted = ex.attempted
    <3>1. (w.n > 0) \in BOOLEAN
      OBVIOUS
    <3>2. Fields(ex, ExFields)
      BY DEF IInv, Types, ExTypes
    <3>3. ASSUME NEW b \in BOOLEAN, NEW x, NEW p,
                 e = [ex EXCEPT !.read = FALSE, !.expected = x, !.startReturned = b, !.pending = p]
          PROVE  Stoppable(e) /\ e.attempted = ex.attempted
      BY <3>2, <3>3 DEF IInv, Types, ExTypes, Stoppable, Fields, ExFields
    <3> QED
      BY <1>3, <3>1, <3>3
  <2>3. Fields(db', DbFields) /\ db'.events = db.events \o Committed(list, w)
    BY <1>0, <1>3 DEF Fields, DbFields
  <2>4. /\ db'.events \in Seq(EventNames)
        /\ Len(db'.events) = Len(db.events) + Len(Committed(list, w))
        /\ \A n \in 1..12 : Told(n) => Told(n)'
        /\ \A i \in 1..Len(Committed(list, w)) : db'.events[Len(db.events) + i] = Committed(list, w)[i]
    BY <2>1, <2>3, StoryGoesOn DEF IInv, Types
  <2>5. w.how = "ok" => Told(11)' /\ Len(db'.events) = 11
    <3>1. SUFFICES ASSUME w.how = "ok" PROVE Told(11)' /\ Len(db'.events) = 11
      OBVIOUS
    <3>2. Len(Committed(list, w)) = 3 /\ \A i \in 1..3 : Committed(list, w)[i] = list[i]
      BY <1>1, <2>1, <3>1
    <3>3. \A i \in 1..3 : db'.events[8 + i] = Story[8 + i]
      BY <1>0, <1>1, <2>4, <3>2
    <3>4. Len(db'.events) = 11
      BY <1>0, <2>4, <3>2
    <3>5. \A i \in 1..8 : db'.events[i] = Story[i]
      <4>1. 8 \in 1..12
        OBVIOUS
      <4>2. Told(8)'
        BY ONLY <1>0, <2>4, <4>1, Zenon
      <4> QED
        BY ONLY <4>2, Zenon DEF Told
    <3>6. ASSUME NEW i \in 1..11 PROVE db'.events[i] = Story[i]
      <4>1. CASE i \in 1..8
        BY <3>5, <4>1
      <4>2. CASE i \notin 1..8
        <5>1. i - 8 \in 1..3 /\ 8 + (i - 8) = i
          BY <4>2
        <5> QED
          BY <3>3, <5>1
      <4> QED
        BY <4>1, <4>2
    <3> QED
      BY <3>4, <3>6 DEF Told
  <2> QED
    BY <2>1, <2>2, <2>3, <2>4, <2>5 DEF DbTypes
<1>4. ASSUME NEW w \in Writes(list), NEW e, NEW ev, NEW code,
             e = [ex EXCEPT !.read = FALSE, !.expected = @ \o Accepted(list, w),
                            !.startReturned = w.n > 0, !.pending = w.how # "ok"],
             ev = db.events \o Committed(list, w),
             db' = [db EXCEPT !.events = ev,
                              !.row = IF Len(ev) > Len(db.events) THEN "forwarding" ELSE @],
             Stop(e, code)
      PROVE  IInv'
  <2>1. /\ Stoppable(e) /\ e.attempted = ex.attempted
        /\ DbTypes' /\ db'.events = db.events \o Committed(list, w)
        /\ Committed(list, w) \in Seq(EventNames)
    BY <1>3, <1>4
  <2>2. ex.attempted => Told(12)'
    <3>1. \A n \in 1..12 : Told(n) => Told(n)'
      BY <2>1, StoryGoesOn DEF IInv, Types
    <3> QED
      BY <3>1 DEF IInv, StoryInv
  <2> QED
    BY <1>0, <1>4, <2>1, <2>2, StopsInv
<1>5. ASSUME NEW w \in Writes(list), NEW e, NEW ev, w.how = "ok",
             e = [ex EXCEPT !.read = FALSE, !.expected = @ \o Accepted(list, w),
                            !.startReturned = w.n > 0, !.pending = w.how # "ok"],
             ev = db.events \o Committed(list, w),
             db' = [db EXCEPT !.events = ev,
                              !.row = IF Len(ev) > Len(db.events) THEN "forwarding" ELSE @],
             ex' = [e EXCEPT !.pc = "second", !.read = TRUE],
             lis' = [lis EXCEPT !.state = "armed"], UNCHANGED <<out, pr>>
      PROVE  IInv'
  <2>1. /\ Stoppable(e) /\ e.attempted = ex.attempted /\ DbTypes'
        /\ Committed(list, w) \in Seq(EventNames) /\ db'.events = db.events \o Committed(list, w)
        /\ Told(11)' /\ Len(db'.events) = 11
    BY <1>3, <1>5
  <2>2. /\ Fields(ex', ExFields) /\ ex'.pc = "second" /\ ex'.read = TRUE
        /\ ex'.attempted = ex.attempted /\ ex'.closeObserved = ex.closeObserved
        /\ ex'.startReturned = e.startReturned /\ ex'.proven = ex.proven
        /\ ex'.status = ex.status /\ ex'.child = ex.child
    BY <1>5, <2>1 DEF Stoppable, Fields, ExFields
  <2>3. /\ Fields(lis', LisFields) /\ lis'.state = "armed" /\ lis'.closing = "no"
        /\ lis'.ready = lis.ready /\ lis'.claimed = lis.claimed
        /\ lis'.executionOwned = lis.executionOwned /\ lis'.clean = lis.clean
    BY <1>0, <1>5 DEF IInv, Types, LisTypes, Fields, LisFields
  <2>4. LisTypes'
    BY <1>0, <2>3 DEF IInv, Types, LisTypes
  <2>5. ExTypes'
    BY <2>1, <2>2 DEF IInv, Types, ExTypes, Stoppable, Active
  <2>6. StoryInv'
    <3>1. \A n \in 1..12 : Told(n) => Told(n)'
      BY <2>1, StoryGoesOn DEF IInv, Types
    <3>2. seal = "consumed" /\ Told(8)' /\ (ex.attempted => Told(12)')
      BY <1>0, <3>1 DEF IInv, OwnersInv, StoryInv
    <3> QED
      BY <1>0, <2>1, <2>2, <3>2 DEF StoryInv
  <2>7. OutKept /\ PrKept
    BY <1>5, SameIsKept
  <2> QED
    BY <1>0, <2>1, <2>2, <2>3, <2>4, <2>5, <2>6, <2>7, RunsOn DEF Active
<1>6. ASSUME NEW n \in 1..2, 
             db' = [db EXCEPT !.events = @ \o SubSeq(list, 1, n), !.row = "forwarding"],
             Stop([ex EXCEPT !.read = FALSE, !.expected = @ \o SubSeq(list, 1, n),
                             !.startReturned = TRUE], "deadline")
      PROVE  IInv'
  <2> DEFINE e == [ex EXCEPT !.read = FALSE, !.expected = @ \o SubSeq(list, 1, n), !.startReturned = TRUE]
  <2>1. Stoppable(e) /\ e.attempted = ex.attempted
    BY DEF IInv, Types, ExTypes, Stoppable, Fields, ExFields
  <2>2. SubSeq(list, 1, n) \in Seq(EventNames)
    <3>1. n \in 0..Len(list)
      BY <1>1
    <3> QED
      BY <1>1, <3>1, Prefix
  <2>3. Fields(db', DbFields) /\ db'.events = db.events \o SubSeq(list, 1, n)
    BY <1>0, <1>6 DEF Fields, DbFields
  <2>4. /\ db'.events \in Seq(EventNames) /\ \A k \in 1..12 : Told(k) => Told(k)'
    BY <2>2, <2>3, StoryGoesOn DEF IInv, Types
  <2>5. DbTypes' /\ (ex.attempted => Told(12)')
    BY <2>3, <2>4 DEF IInv, StoryInv, DbTypes
  <2> HIDE DEF e
  <2>6. Stop(e, "deadline")
    BY <1>6 DEF e
  <2> QED
    BY <1>0, <2>1, <2>2, <2>3, <2>5, <2>6, StopsInv
<1>7. CASE Fence(TRUE) # "none"
  <2>1. UNCHANGED db /\ Stop([ex EXCEPT !.read = FALSE], Fence(TRUE))
    BY <1>7 DEF StartAndArm
  <2> QED
    BY <1>2, <2>1
<1>8. CASE Fence(TRUE) = "none" /\ ~Verify
  <2>1. UNCHANGED db /\ Stop([ex EXCEPT !.read = FALSE], "revalidation_failed")
    BY <1>8 DEF StartAndArm
  <2> QED
    BY <1>2, <2>1
<1>9. CASE Fence(TRUE) = "none" /\ Verify
  <2>1. \/ \E w \in Writes(list) :
             LET e == [ex EXCEPT !.read = FALSE, !.expected = @ \o Accepted(list, w),
                                 !.startReturned = w.n > 0, !.pending = w.how # "ok"]
                 ev == db.events \o Committed(list, w)
             IN  /\ db' = [db EXCEPT !.events = ev,
                                     !.row = IF Len(ev) > Len(db.events) THEN "forwarding" ELSE @]
                 /\ IF w.how = "ok"
                    THEN /\ ex' = [e EXCEPT !.pc = "second", !.read = TRUE]
                         /\ lis' = [lis EXCEPT !.state = "armed"]
                         /\ UNCHANGED <<out, pr>>
                    ELSE Stop(e, IF w.n = 0 THEN "audit_invalid" ELSE "revalidation_failed")
        \/ \E n \in 1..2 :
             /\ db' = [db EXCEPT !.events = @ \o SubSeq(list, 1, n), !.row = "forwarding"]
             /\ Stop([ex EXCEPT !.read = FALSE, !.expected = @ \o SubSeq(list, 1, n),
                                !.startReturned = TRUE], "deadline")
    BY <1>9, Zenon DEF StartAndArm, list
  <2> QED
    BY <1>4, <1>5, <1>6, <2>1
<1> QED
  BY <1>7, <1>8, <1>9


\* The spawn intent, then the attempt: a child is tried only when the whole story is told.
LEMMA SpawnInv ==
  ASSUME IInv, Spawn
  PROVE  IInv'
<1> DEFINE list == <<SPAWN>>
<1>0. /\ ex.pc = "second" /\ ex.pc \in Active /\ UNCHANGED <<au, ctx, seal, closer>>
      /\ Told(11) /\ Len(db.events) = 11 /\ db.events \in Seq(EventNames) /\ Fields(db, DbFields)
      /\ lis.closing = "no" /\ ~ex.closeObserved /\ ex.child = "none" /\ ExTypes
      /\ Fields(ex, ExFields)
  BY DEF Spawn, Active, IInv, OwnersInv, StoryInv, TerminalInv, Types, DbTypes, ExTypes
<1>1. list \in Seq(EventNames) /\ Len(list) = 1 /\ list[1] = Story[12]
  BY StoryEvents
<1> HIDE DEF list
<1>2. CASE UNCHANGED db /\ \E code : Stop([ex EXCEPT !.read = FALSE], code)
  BY <1>0, <1>2, StopsQuietly
<1>3. ASSUME NEW w \in Writes(list), db' = [db EXCEPT !.events = @ \o Committed(list, w)]
      PROVE  /\ DbTypes' /\ db'.events = db.events \o Committed(list, w)
             /\ Committed(list, w) \in Seq(EventNames)
             /\ \A n \in 1..12 : Told(n) => Told(n)'
             /\ w.how = "ok" => Told(12)'
  <2>1. /\ Committed(list, w) \in Seq(EventNames)
        /\ w.how = "ok" => /\ Len(Committed(list, w)) = Len(list)
                           /\ \A i \in 1..Len(list) : Committed(list, w)[i] = list[i]
    BY <1>1, WritesEffect
  <2>2. Fields(db', DbFields) /\ db'.events = db.events \o Committed(list, w)
    BY <1>0, <1>3 DEF Fields, DbFields
  <2>3. /\ db'.events \in Seq(EventNames)
        /\ Len(db'.events) = Len(db.events) + Len(Committed(list, w))
        /\ \A n \in 1..12 : Told(n) => Told(n)'
        /\ \A i \in 1..Len(Committed(list, w)) : db'.events[Len(db.events) + i] = Committed(list, w)[i]
    BY <2>1, <2>2, StoryGoesOn DEF IInv, Types
  <2>4. ASSUME w.how = "ok" PROVE Told(12)'
    <3>1. Len(Committed(list, w)) = 1 /\ Committed(list, w)[1] = Story[12]
      BY <1>1, <2>1, <2>4
    <3>2. Len(db'.events) = 12 /\ db'.events[12] = Story[12]
      BY <1>0, <2>3, <3>1
    <3>3. \A i \in 1..11 : db'.events[i] = Story[i]
      <4>1. Told(11)'
        BY <1>0, <2>3
      <4> QED
        BY <4>1 DEF Told
    <3> QED
      BY <3>2, <3>3 DEF Told
  <2> QED
    BY <2>1, <2>2, <2>3, <2>4 DEF DbTypes
<1>4. ASSUME NEW w, NEW e,
             e = [ex EXCEPT !.read = FALSE, !.expected = @ \o Accepted(list, w), !.pending = w.how # "ok"]
      PROVE  /\ Stoppable(e) /\ e.attempted = ex.attempted
             /\ Stoppable([e EXCEPT !.attempted = TRUE])
  <2>1. /\ Fields(e, ExFields) /\ e.read = FALSE
        /\ \A y \in ExFields \ {"read", "expected", "pending"} : e[y] = ex[y]
    BY <1>0, <1>4 DEF Fields, ExFields
  <2>2. Stoppable(e) /\ e.attempted = ex.attempted
    BY <1>0, <2>1 DEF ExTypes, Stoppable, ExFields
  <2>3. ASSUME NEW f, f = [e EXCEPT !.attempted = TRUE] PROVE Stoppable(f)
    <3>1. /\ Fields(f, ExFields) /\ f.attempted = TRUE
          /\ \A y \in ExFields \ {"attempted"} : f[y] = e[y]
      BY <2>1, <2>3 DEF Fields, ExFields
    <3> QED
      BY <2>2, <3>1 DEF Stoppable, ExFields
  <2> QED
    BY <2>2, <2>3
<1>5. ASSUME NEW w \in Writes(list), NEW e,
             e = [ex EXCEPT !.read = FALSE, !.expected = @ \o Accepted(list, w), !.pending = w.how # "ok"],
             db' = [db EXCEPT !.events = @ \o Committed(list, w)],
             \/ \E code : Stop(e, code)
             \/ w.how = "ok" /\ \E code : Stop([e EXCEPT !.attempted = TRUE], code)
      PROVE  IInv'
  <2>1. /\ DbTypes' /\ db'.events = db.events \o Committed(list, w)
        /\ Committed(list, w) \in Seq(EventNames)
        /\ ex.attempted => Told(12)'
        /\ w.how = "ok" => Told(12)'
    BY <1>3, <1>5 DEF IInv, StoryInv
  <2>2. /\ Stoppable(e) /\ e.attempted = ex.attempted
        /\ Stoppable([e EXCEPT !.attempted = TRUE])
    BY <1>4, <1>5
  <2>3. CASE \E code : Stop(e, code)
    BY <1>0, <2>1, <2>2, <2>3, StopsInv
  <2>4. CASE w.how = "ok" /\ \E code : Stop([e EXCEPT !.attempted = TRUE], code)
    BY <1>0, <2>1, <2>2, <2>4, StopsInv
  <2> QED
    BY <1>5, <2>3, <2>4
<1>6. ASSUME NEW w \in Writes(list), NEW e, w.how = "ok",
             e = [ex EXCEPT !.read = FALSE, !.expected = @ \o Accepted(list, w), !.pending = w.how # "ok"],
             db' = [db EXCEPT !.events = @ \o Committed(list, w)],
             ex' = [e EXCEPT !.pc = "running", !.attempted = TRUE, !.child = "starting"],
             UNCHANGED <<lis, out, pr>>
      PROVE  IInv'
  <2>1. /\ DbTypes' /\ \A n \in 1..12 : Told(n) => Told(n)'
        /\ Told(12)'
    BY <1>3, <1>6
  <2>2. Stoppable(e)
    BY <1>4, <1>6
  <2>3. /\ Fields(ex', ExFields) /\ ex'.pc = "running" /\ ex'.attempted = TRUE /\ ex'.child = "starting"
        /\ \A y \in ExFields \ {"pc", "attempted", "child"} : ex'[y] = e[y]
    BY <1>6, <2>2 DEF Stoppable, Fields, ExFields
  <2>4. ExTypes' /\ ex'.status = ex.status /\ ~ex'.closeObserved
    BY <1>0, <2>2, <2>3 DEF ExTypes, Stoppable, ExFields, Active
  <2>5. LisTypes'
    BY <1>6 DEF IInv, Types, LisTypes
  <2>6. StoryInv'
    <3>1. seal = "consumed" /\ Told(8) /\ (lis.state = "armed" => Told(11))
      BY <1>0 DEF IInv, OwnersInv, StoryInv
    <3> QED
      BY <1>0, <1>6, <2>1, <2>3, <3>1 DEF StoryInv
  <2>7. OutKept /\ PrKept
    BY <1>6, SameIsKept
  <2> QED
    BY <1>0, <1>6, <2>1, <2>3, <2>4, <2>5, <2>6, <2>7, RunsOn DEF Active
<1> QED
  BY <1>2, <1>5, <1>6 DEF Spawn, MayStart, list

\* The terminal proof: what it says was written, or read back, in this step.
LEMMA FinishInv ==
  ASSUME IInv, Finish
  PROVE  IInv'
<1>0. /\ ex.pc = "stopping" /\ UNCHANGED <<ctx, out, lis, pr, au, seal, closer>>
      /\ db.events \in Seq(EventNames) /\ Fields(db, DbFields) /\ Fields(ex, ExFields) /\ ExTypes
  BY DEF Finish, IInv, Types, DbTypes, ExTypes
<1>1. PICK w \in {"ok", "lost", "torn"}, readable \in BOOLEAN :
        LET status    == TerminalStatus
            attempts  == ex.startReturned /\ Verify
            events    == IF attempts /\ w # "lost" THEN db.events \o TERMINAL ELSE db.events
            matches   == CASE attempts -> events = ex.expected \o TERMINAL
                           [] ~attempts /\ ex.startReturned -> FALSE
                           [] ~ex.startReturned /\ ex.pending -> events \in {ex.expected, Append(ex.expected, START)}
                           [] OTHER -> events = ex.expected
            proven    == readable /\ ~db.foreign /\ matches /\ ~ex.read
        IN  /\ db' = [db EXCEPT !.events = events,
                                !.row = IF attempts /\ w # "lost" THEN status ELSE @]
            /\ ex' = [ex EXCEPT !.pc = "terminal", !.proven = proven,
                                !.status = IF proven /\ ex.startReturned THEN status ELSE "outcome_unknown"]
  BY DEF Finish
<1> DEFINE attempts == ex.startReturned /\ Verify
           events   == IF attempts /\ w # "lost" THEN db.events \o TERMINAL ELSE db.events
           matches  == CASE attempts -> events = ex.expected \o TERMINAL
                         [] ~attempts /\ ex.startReturned -> FALSE
                         [] ~ex.startReturned /\ ex.pending -> events \in {ex.expected, Append(ex.expected, START)}
                         [] OTHER -> events = ex.expected
           proven   == readable /\ ~db.foreign /\ matches /\ ~ex.read
<1>2. /\ db' = [db EXCEPT !.events = events,
                          !.row = IF attempts /\ w # "lost" THEN TerminalStatus ELSE @]
      /\ ex' = [ex EXCEPT !.pc = "terminal", !.proven = proven,
                          !.status = IF proven /\ ex.startReturned THEN TerminalStatus ELSE "outcome_unknown"]
  BY <1>1
<1>3. TERMINAL \in Seq(EventNames) /\ Len(TERMINAL) = 3 /\ TERMINAL[3] = "outcome_receipt_finalized"
  BY DEF TERMINAL, EventNames
<1>4. proven \in BOOLEAN
  OBVIOUS
<1>5. proven /\ ex.startReturned => attempts /\ w # "lost"
  <2>1. SUFFICES ASSUME proven, ex.startReturned PROVE attempts /\ w # "lost"
    OBVIOUS
  <2>2. attempts
    BY <2>1
  <2>3. events = ex.expected \o TERMINAL /\ db.events = ex.expected
    BY <2>1, <2>2 DEF Verify
  <2>4. db.events \o TERMINAL # db.events
    BY ONLY <1>0, <1>3, ThreeMore, Zenon
  <2> QED
    BY <2>2, <2>3, <2>4
<1>6. /\ Fields(db', DbFields) /\ db'.events = events
      /\ attempts /\ w # "lost" => db'.row = TerminalStatus
  <2> HIDE DEF events, attempts
  <2> QED
    BY <1>0, <1>2 DEF Fields, DbFields
<1> HIDE DEF proven, matches
<1>7. /\ Fields(ex', ExFields) /\ ex'.pc = "terminal" /\ ex'.proven = proven
      /\ ex'.status = IF proven /\ ex.startReturned THEN TerminalStatus ELSE "outcome_unknown"
      /\ \A y \in ExFields \ {"pc", "proven", "status"} : ex'[y] = ex[y]
  BY <1>0, <1>2 DEF Fields, ExFields
<1>8. /\ ex'.read = ex.read /\ ex'.attempted = ex.attempted /\ ex'.startReturned = ex.startReturned
      /\ ex'.closeObserved = ex.closeObserved /\ ex'.child = ex.child
  BY <1>7 DEF ExFields
<1>9. \E t \in Seq(EventNames) : db'.events = db.events \o t
  <2>1. CASE attempts /\ w # "lost"
    BY <1>3, <1>6, <2>1
  <2>2. CASE ~(attempts /\ w # "lost")
    <3>1. <<>> \in Seq(EventNames) /\ db.events \o <<>> = db.events
      BY <1>0
    <3> QED
      BY <1>6, <2>2, <3>1
  <2> QED
    BY <2>1, <2>2
<1>10. db'.events \in Seq(EventNames) /\ \A n \in 1..12 : Told(n) => Told(n)'
  BY <1>9, StoryGoesOn DEF IInv, Types
<1>11. ExTypes' /\ DbTypes'
  BY <1>0, <1>4, <1>6, <1>7, <1>8, <1>10 DEF ExTypes, DbTypes, TerminalStatus
<1>12. OutTypes' /\ LisTypes' /\ PrTypes' /\ AuTypes' /\ ControlTypes'
  BY <1>0 DEF IInv, Types, OutTypes, LisTypes, PrTypes, AuTypes, ControlTypes
<1>13. OwnersInv'
  BY <1>0, <1>7, <1>8 DEF IInv, OwnersInv, Active
<1>14. StoryInv'
  BY <1>0, <1>7, <1>8, <1>10 DEF IInv, OwnersInv, StoryInv, Active
<1>15. TerminalInv'
  <2>1. ex'.proven /\ ex'.startReturned => db'.row = ex'.status
    BY <1>5, <1>6, <1>7, <1>8
  <2>2. ASSUME ex'.status = "execution_error"
        PROVE  /\ ex'.proven /\ lis'.clean
               /\ ex'.child \in {"none", "exited0", "exited1"}
               /\ \E i \in 1..Len(db'.events) : db'.events[i] = "outcome_receipt_finalized"
    <3>1. proven /\ ex.startReturned /\ TerminalStatus = "execution_error"
      BY <1>7, <2>2
    <3>2. (ex.child = "none" \/ ex.closeObserved) /\ lis.clean
      BY <3>1 DEF TerminalStatus
    <3>3. db'.events = db.events \o TERMINAL
      BY <1>5, <1>6, <3>1
    <3>4. Len(db'.events) = Len(db.events) + 3 /\ db'.events[Len(db.events) + 3] = TERMINAL[3]
          /\ Len(db.events) \in Nat
      BY ONLY <1>0, <1>3, <3>3, ThreeMore, Zenon
    <3>5. \E i \in 1..Len(db'.events) : db'.events[i] = "outcome_receipt_finalized"
      BY <1>3, <3>4
    <3> QED
      BY <1>0, <1>7, <1>8, <3>1, <3>2, <3>5 DEF IInv, TerminalInv
  <2> QED
    BY <1>7, <1>8, <2>1, <2>2 DEF IInv, TerminalInv
<1>16. CustodyInv'
  BY <1>0, <1>7, <1>8 DEF IInv, CustodyInv
<1>17. ContextInv'
  BY <1>0, <1>7 DEF IInv, ContextInv
<1> QED
  BY <1>11, <1>12, <1>13, <1>14, <1>15, <1>16, <1>17 DEF IInv, Types


\* The seal is consumed: the chain is the authorization's, and the execution owns the
\* listener from now on.
LEMMA CreateInv ==
  ASSUME IInv, CreateDormantConcreteExecution
  PROVE  IInv'
<1>0. /\ seal = "minted" /\ AuthenticatesPrepared /\ lis.state = "disarmed" /\ seal' = "consumed"
      /\ UNCHANGED <<ctx, au, db, closer>> /\ Fields(ex, ExFields) /\ ExTypes /\ Fields(lis, LisFields)
      /\ ctx = "open" /\ out[pr.output].registered /\ pr.pc = "prepared"
  BY DEF CreateDormantConcreteExecution, AuthenticatesPrepared, IInv, Types, ExTypes, LisTypes
<1>1. OutKept /\ PrKept
  BY AbortIsKept, SameIsKept DEF CreateDormantConcreteExecution
<1>2. ex.pc = "none"
  BY <1>0 DEF IInv, OwnersInv
<1>3. /\ Fields(ex', ExFields) /\ ex'.pc = "reserved"
      /\ \A x \in ExFields \ {"pc", "expected", "failure", "woken"} : ex'[x] = ex[x]
  BY <1>0 DEF CreateDormantConcreteExecution, Fields, ExFields
<1>4. /\ ex'.read = ex.read /\ ex'.attempted = ex.attempted /\ ex'.startReturned = ex.startReturned
      /\ ex'.closeObserved = ex.closeObserved /\ ex'.child = ex.child
      /\ ex'.proven = ex.proven /\ ex'.status = ex.status
  BY <1>3 DEF ExFields
<1>5. /\ Fields(lis', LisFields) /\ lis'.executionOwned = TRUE
      /\ lis'.state = lis.state /\ lis'.closing = lis.closing /\ lis'.clean = lis.clean
      /\ lis'.ready = lis.ready /\ lis'.claimed = lis.claimed
  BY <1>0 DEF CreateDormantConcreteExecution, Fields, LisFields
<1>6. OutTypes' /\ PrTypes' /\ AuTypes' /\ DbTypes' /\ ControlTypes'
  BY <1>0, <1>1
     DEF IInv, Types, OutTypes, PrTypes, AuTypes, DbTypes, ControlTypes, OutKept, PrKept
<1>7. LisTypes' /\ ExTypes'
  BY <1>0, <1>3, <1>4, <1>5 DEF IInv, Types, LisTypes, ExTypes, Active
<1>8. OwnersInv'
  <2>1. lis.closing = "no"
    BY <1>0 DEF IInv, Types, LisTypes
  <2> QED
    BY <1>0, <1>1, <1>2, <1>3, <1>4, <1>5, <2>1 DEF IInv, OwnersInv, PrKept
<1>9. StoryInv'
  BY <1>0, <1>2, <1>3, <1>4, <1>5 DEF IInv, OwnersInv, StoryInv, Told
<1>10. TerminalInv'
  BY <1>0, <1>2, <1>3, <1>4, <1>5 DEF IInv, TerminalInv
<1>11. CustodyInv'
  <2>1. pr.output \in Outputs
    BY <1>0 DEF IInv, CustodyInv
  <2>2. out[pr.output].closer = "no" /\ out[pr.output].release = "no"
    BY <1>0, <2>1 DEF IInv, CustodyInv
  <2> QED
    BY <1>1, <1>4, <2>1, <2>2 DEF IInv, CustodyInv, OutKept, PrKept
<1>12. ContextInv'
  BY <1>0 DEF IInv, ContextInv
<1> QED
  BY <1>6, <1>7, <1>8, <1>9, <1>10, <1>11, <1>12 DEF IInv, Types

-----------------------------------------------------------------------------
(* The closes. *)

\* stopForRevocation(), as it is applied to the execution and to the listener.
LEMMA RevocationEffect ==
  ASSUME IInv, ex' = StoppedForRevocation, lis' = ListenerAfterRevocation
  PROVE  ExKept /\ LisMoved /\ LeavesListener
<1>0. Fields(ex, ExFields) /\ Fields(lis, LisFields) /\ (ex.pc # "none" => lis.executionOwned)
  BY DEF IInv, Types, ExTypes, LisTypes, OwnersInv
<1>1. Closes(lis, RevokeListener(lis)) /\ (lis.executionOwned => RevokeListener(lis).closing = lis.closing)
  BY <1>0, CloseEffect
<1>2. CASE ex.pc = "reserved"
  <2>1. ex' = Stopping(Latch(ex, "cancelled")) /\ lis' = StartClose(RevokeListener(lis))
    BY <1>2 DEF StoppedForRevocation, ListenerAfterRevocation
  <2>2. LisMoved
    BY <1>1, <2>1, ClosesTwice, ClosesIsMoved
  <2>3. /\ Fields(ex', ExFields) /\ ex'.pc = "stopping"
        /\ \A x \in ExFields \ {"failure", "woken", "pc"} : ex'[x] = ex[x]
    BY <1>0, <2>1, StoppingEffect
  <2>4. ExKept
    BY <1>2, <2>3 DEF IInv, Types, ExTypes, TerminalInv, ExKept, ExFields, Active
  <2> QED
    BY <2>2, <2>3, <2>4 DEF LeavesListener, Active
<1>3. CASE ex.pc # "reserved"
  <2>1. ex' = Latch(ex, "cancelled") /\ lis' = RevokeListener(lis)
    BY <1>3 DEF StoppedForRevocation, ListenerAfterRevocation
  <2>2. LisMoved
    BY <1>1, <2>1, ClosesIsMoved
  <2>3. ExKept /\ ex'.pc = ex.pc
    BY <2>1, LatchIsKept
  <2> QED
    BY <1>0, <1>1, <2>1, <2>2, <2>3 DEF LeavesListener, Active
<1> QED
  BY <1>2, <1>3

\* One output changes, in some of its fields.
LEMMA OneOutput ==
  ASSUME IInv, NEW o \in Outputs, NEW r, Fields(r, OutFields), out' = [out EXCEPT ![o] = r]
  PROVE  /\ out' = [p \in Outputs |-> out'[p]] /\ out'[o] = r
         /\ \A p \in Outputs : Fields(out'[p], OutFields)
         /\ \A p \in Outputs \ {o} : out'[p] = out[p]
BY DEF IInv, Types, OutTypes

\* What a close may do to an output: it is given up for good, and nothing else than what
\* has ended or is revoked still counts on it.
OutputMoved(p) ==
  /\ Fields(out'[p], OutFields) /\ out'[p].st = out[p].st
  /\ out'[p].registered \in BOOLEAN /\ (out'[p].registered => out[p].registered)
  /\ out'[p].inContext \in BOOLEAN /\ (out'[p].inContext => out[p].inContext)
  /\ out'[p].closer \in {"no", "stopping", "listeners", "releasing", "done", "failed"}
  /\ out'[p].release \in {"no", "running", "done"}
  /\ \/ out'[p].closer = out[p].closer /\ out'[p].release = out[p].release
     \/ ~out'[p].registered /\ out[p].st = "held"
  /\ \/ out'[p].closer = out[p].closer /\ out'[p].release = out[p].release
     \/ out'[p].closer = "stopping" /\ out'[p].release = out[p].release
     \/ pr.output = p => ex.pc \in {"none", "terminal"}
  /\ out'[p].descriptor = "closed" => out'[p].release = "done"
  /\ \/ out'[p].descriptor = out[p].descriptor
     \/ pr.output = p => ~pr.read /\ ~ex.read
  /\ out[p].registered /\ ~out'[p].registered /\ pr.pc # "none" /\ pr.output = p => pr'.revoked

\* Outputs that are given up.
LEMMA OutputsMoved ==
  ASSUME IInv, PrKept, ExKept, out' = [p \in Outputs |-> out'[p]],
         \A p \in Outputs : OutputMoved(p)
  PROVE  OutTypes' /\ CustodyInv'
<1>1. OutTypes'
  BY DEF OutTypes, OutputMoved
<1>2. ex.pc \in {"none", "terminal"} => ex'.pc \in {"none", "terminal"}
  BY DEF ExKept, Active
<1>3. pr'.output = pr.output /\ pr'.pc = pr.pc /\ pr'.read = pr.read /\ (pr.revoked => pr'.revoked)
      /\ (ex'.read => ex.read)
  BY DEF PrKept, ExKept
<1>4. ASSUME NEW p \in Outputs
      PROVE  /\ out'[p].registered \/ out'[p].inContext => out'[p].st = "held"
             /\ out'[p].closer # "no" \/ out'[p].release # "no" => ~out'[p].registered /\ out'[p].st = "held"
             /\ out'[p].descriptor = "closed" => out'[p].release = "done"
  BY <1>4 DEF IInv, CustodyInv, OutputMoved
<1>5. ASSUME NEW p \in Outputs
      PROVE  out'[p].closer \notin {"no", "stopping"} \/ out'[p].release # "no" =>
               (pr'.output = p => ex'.pc \in {"none", "terminal"})
  BY <1>2, <1>3, <1>5 DEF IInv, CustodyInv, OutputMoved
<1>6. ASSUME NEW p \in Outputs
      PROVE  out'[p].descriptor = "closed" => (pr'.output = p => ~pr'.read /\ ~ex'.read)
  BY <1>3, <1>6 DEF IInv, CustodyInv, OutputMoved
<1>7. pr'.pc # "none" =>
        /\ pr'.output \in Outputs /\ out'[pr'.output].st = "held"
        /\ ~out'[pr'.output].registered => pr'.revoked
  BY <1>3 DEF IInv, CustodyInv, OutputMoved
<1> QED
  BY <1>1, <1>4, <1>5, <1>6, <1>7 DEF CustodyInv

\* An output that does not change.
LEMMA SameOutput ==
  ASSUME IInv, NEW p \in Outputs, out'[p] = out[p]
  PROVE  OutputMoved(p)
BY DEF IInv, Types, OutTypes, CustodyInv, OutputMoved

\* closeOutputIntent(): the output cannot be used again, and what uses it is revoked.
LEMMA CloseOutputIntentInv ==
  ASSUME IInv, NEW o \in Outputs, CloseOutputIntent(o)
  PROVE  IInv'
<1>0. /\ out[o].registered /\ UNCHANGED <<ctx, seal, db, closer>>
      /\ out' = [AbortOutputs({o}) EXCEPT ![o].registered = FALSE, ![o].closer = "stopping"]
  BY DEF CloseOutputIntent
<1>1. /\ PrKept /\ AuKept /\ ExKept /\ LisMoved /\ LeavesListener
      /\ o \in Linked => pr'.revoked
  <2>1. CASE o \in Linked
    <3>1. /\ pr' = RevokePreparation(pr) /\ au' = CancelTicket(au)
          /\ ex' = StoppedForRevocation /\ lis' = ListenerAfterRevocation
      BY <2>1 DEF CloseOutputIntent
    <3>2. pr'.revoked
      BY <2>1, <3>1 DEF Linked, RevokePreparation, IInv, Types, PrTypes, Fields, PrFields
    <3> QED
      BY <3>1, <3>2, AbortIsKept, RevocationEffect
  <2>2. CASE o \notin Linked
    BY <2>2, SameIsKept DEF CloseOutputIntent, LeavesListener
  <2> QED
    BY <2>1, <2>2
<1>2. /\ LisTypes' /\ PrTypes' /\ AuTypes' /\ DbTypes' /\ ExTypes'
      /\ OwnersInv' /\ StoryInv' /\ TerminalInv' /\ ControlTypes' /\ ContextInv'
  BY <1>0, <1>1, OwnersKept, ContextKept
<1>3. PICK f : f = AbortOutputs({o})
  OBVIOUS
<1>4. /\ f = [p \in Outputs |-> f[p]]
      /\ \A p \in Outputs : /\ Fields(f[p], OutFields)
                            /\ \A x \in OutFields \ {"aborted"} : f[p][x] = out[p][x]
  BY <1>3 DEF AbortOutputs, IInv, Types, OutTypes, Fields, OutFields
<1>5. PICK r : r = [f[o] EXCEPT !.registered = FALSE, !.closer = "stopping"]
  OBVIOUS
<1>6. /\ Fields(r, OutFields) /\ r.registered = FALSE /\ r.closer = "stopping"
      /\ \A x \in OutFields \ {"registered", "closer"} : r[x] = f[o][x]
  <2>1. Fields(f[o], OutFields)
    BY <1>4
  <2> QED
    BY <1>5, <2>1 DEF Fields, OutFields
<1>7. out' = [f EXCEPT ![o] = r]
  BY <1>0, <1>3, <1>4, <1>5, <1>6
<1>8. out' = [p \in Outputs |-> out'[p]] /\ out'[o] = r /\ \A p \in Outputs \ {o} : out'[p] = f[p]
  BY <1>4, <1>7
<1>9. ASSUME NEW p \in Outputs PROVE OutputMoved(p)
  <2>1. CASE p = o
    <3>1. /\ out'[p].st = out[p].st /\ out'[p].inContext = out[p].inContext
          /\ out'[p].descriptor = out[p].descriptor /\ out'[p].release = out[p].release
          /\ out'[p].registered = FALSE /\ out'[p].closer = "stopping" /\ Fields(out'[p], OutFields)
      BY <1>4, <1>6, <1>8, <2>1 DEF OutFields
    <3>2. /\ out[p].st = "held" /\ out[p].closer = "no" /\ out[p].release = "no"
          /\ out[p].inContext \in BOOLEAN /\ out[p].descriptor # "closed"
      BY <1>0, <2>1 DEF IInv, Types, OutTypes, CustodyInv
    <3>3. pr.pc # "none" /\ pr.output = p => pr'.revoked
      BY <1>1, <2>1 DEF Linked
    <3> QED
      BY <1>0, <2>1, <3>1, <3>2, <3>3 DEF OutputMoved
  <2>2. CASE p # o
    <3>1. /\ out'[p].st = out[p].st /\ out'[p].inContext = out[p].inContext
          /\ out'[p].descriptor = out[p].descriptor /\ out'[p].release = out[p].release
          /\ out'[p].registered = out[p].registered /\ out'[p].closer = out[p].closer
          /\ Fields(out'[p], OutFields)
      BY <1>4, <1>8, <2>2 DEF OutFields
    <3> QED
      BY <3>1 DEF OutputMoved, IInv, Types, OutTypes, CustodyInv
  <2> QED
    BY <2>1, <2>2
<1> QED
  BY <1>1, <1>2, <1>8, <1>9, OutputsMoved DEF IInv, Types

\* The other steps of closeOutputIntent().
LEMMA OutputCloseInv ==
  ASSUME IInv, NEW o \in Outputs,
         OutputStopped(o) \/ OutputListenersClosed(o) \/ ReleaseOutputCustody(o) \/ OutputClosed(o)
  PROVE  IInv'
<1>0. /\ UNCHANGED <<ctx, pr, au, seal, db, ex, closer>> /\ OutTypes /\ Fields(out[o], OutFields)
      /\ out[o].closer # "no" \/ out[o].release # "no"
  BY DEF OutputStopped, OutputListenersClosed, ReleaseOutputCustody, OutputClosed, IInv, Types, OutTypes
<1>1. PrKept /\ AuKept /\ ExKept
  BY <1>0, SameIsKept
<1>2. LisMoved /\ LeavesListener
  <2>1. CASE OutputStopped(o)
    <3>1. Fields(lis, LisFields) /\ (ex.pc # "none" => lis.executionOwned)
      BY DEF IInv, Types, LisTypes, OwnersInv
    <3>2. lis' = lis \/ (lis' = StartClose(lis) /\ ~lis.executionOwned)
      BY <2>1 DEF OutputStopped
    <3>3. LisMoved
      BY <3>1, <3>2, CloseEffect, ClosesIsMoved, SameIsKept
    <3> QED
      BY <1>0, <3>1, <3>2, <3>3 DEF LeavesListener, Active
  <2>2. CASE OutputListenersClosed(o) \/ ReleaseOutputCustody(o) \/ OutputClosed(o)
    <3>1. UNCHANGED lis
      BY <2>2 DEF OutputListenersClosed, ReleaseOutputCustody, OutputClosed
    <3> QED
      BY <3>1, SameIsKept DEF LeavesListener
  <2> QED
    BY <2>1, <2>2
<1>3. /\ LisTypes' /\ PrTypes' /\ AuTypes' /\ DbTypes' /\ ExTypes'
      /\ OwnersInv' /\ StoryInv' /\ TerminalInv' /\ ControlTypes' /\ ContextInv'
  BY <1>0, <1>1, <1>2, OwnersKept, ContextKept
<1>4. out[o].registered = FALSE /\ out[o].st = "held"
  BY <1>0 DEF IInv, CustodyInv, OutTypes
<1>5. \E r : /\ out' = [out EXCEPT ![o] = r] /\ Fields(r, OutFields)
             /\ r.st = out[o].st /\ r.registered = out[o].registered
             /\ r.inContext \in BOOLEAN /\ (r.inContext => out[o].inContext)
             /\ r.closer \in {"listeners", "releasing", "done", "failed"} \/ r.closer = out[o].closer
             /\ r.release \in {"no", "running", "done"}
             /\ r.release # out[o].release \/ r.closer # out[o].closer =>
                  (pr.output = o => ex.pc \in {"none", "terminal"})
             /\ r.descriptor = "closed" => r.release = "done"
             /\ r.descriptor = out[o].descriptor \/ (pr.output = o => ~pr.read /\ ~ex.read)
  <2>1. CASE OutputStopped(o)
    <3>1. out' = [out EXCEPT ![o] = [out[o] EXCEPT !.closer = "listeners"]]
      BY <2>1 DEF OutputStopped
    <3>2. pr.output = o => ex.pc \in {"none", "terminal"}
      BY <2>1 DEF OutputStopped, Owns
    <3> WITNESS [out[o] EXCEPT !.closer = "listeners"]
    <3> QED
      BY <1>0, <3>1, <3>2 DEF IInv, CustodyInv, OutTypes, Fields, OutFields
  <2>2. CASE OutputListenersClosed(o)
    <3> DEFINE r == [out[o] EXCEPT !.closer = "releasing", !.release = StartRelease(@),
                                   !.inContext = @ /\ ctx # "open"]
    <3>1. out' = [out EXCEPT ![o] = r]
      BY <1>0, <2>2 DEF OutputListenersClosed, OutTypes
    <3>2. pr.output = o => ex.pc \in {"none", "terminal"}
      BY <2>2 DEF OutputListenersClosed, IInv, CustodyInv
    <3>3. /\ Fields(r, OutFields) /\ r.st = out[o].st /\ r.registered = out[o].registered
          /\ r.closer = "releasing" /\ r.release = StartRelease(out[o].release)
          /\ r.inContext = (out[o].inContext /\ ctx # "open") /\ r.descriptor = out[o].descriptor
      BY <1>0 DEF Fields, OutFields
    <3> HIDE DEF r
    <3>4. r.release \in {"no", "running", "done"} /\ (out[o].release = "done" => r.release = "done")
      BY <1>0, <3>3 DEF StartRelease, OutTypes
    <3>5. r.inContext \in BOOLEAN /\ (r.inContext => out[o].inContext)
      BY <3>3
    <3> QED
      BY <3>1, <3>2, <3>3, <3>4, <3>5 DEF IInv, CustodyInv
  <2>3. CASE ReleaseOutputCustody(o)
    <3> DEFINE r == [out[o] EXCEPT !.release = "done", !.descriptor = "closed"]
    <3>1. out' = [out EXCEPT ![o] = r]
      BY <1>0, <2>3 DEF ReleaseOutputCustody, OutTypes
    <3>2. pr.output = o => ex.pc \in {"none", "terminal"} /\ ~pr.read /\ ~ex.read
      BY <2>3 DEF ReleaseOutputCustody, CustodyDrained, IInv, CustodyInv
    <3>3. /\ Fields(r, OutFields) /\ r.st = out[o].st /\ r.registered = out[o].registered
          /\ r.closer = out[o].closer /\ r.release = "done"
          /\ r.inContext = out[o].inContext /\ r.descriptor = "closed"
      BY <1>0 DEF Fields, OutFields
    <3> HIDE DEF r
    <3> QED
      BY <1>0, <3>1, <3>2, <3>3 DEF OutTypes
  <2>4. CASE OutputClosed(o)
    <3>0. PICK c : c = (IF out[o].release = "done" THEN "done" ELSE "failed")
      OBVIOUS
    <3> DEFINE r == [out[o] EXCEPT !.closer = c]
    <3>1. out' = [out EXCEPT ![o] = r]
      BY <1>0, <2>4, <3>0 DEF OutputClosed, OutTypes
    <3>2. pr.output = o => ex.pc \in {"none", "terminal"}
      BY <2>4 DEF OutputClosed, IInv, CustodyInv
    <3>3. /\ Fields(r, OutFields) /\ r.st = out[o].st /\ r.registered = out[o].registered
          /\ r.closer = c /\ r.release = out[o].release
          /\ r.inContext = out[o].inContext /\ r.descriptor = out[o].descriptor
      BY <1>0 DEF Fields, OutFields
    <3>4. c \in {"done", "failed"}
      BY <3>0
    <3> HIDE DEF r
    <3>5. r.release \in {"no", "running", "done"} /\ (r.descriptor = "closed" => r.release = "done")
      BY <3>3 DEF OutTypes, IInv, Types, CustodyInv
    <3>6. r.inContext \in BOOLEAN
      BY <1>0, <3>3 DEF OutTypes
    <3> QED
      BY <3>1, <3>2, <3>3, <3>4, <3>5, <3>6
  <2> QED
    BY <2>1, <2>2, <2>3, <2>4
<1>6. PICK r : /\ out' = [out EXCEPT ![o] = r] /\ Fields(r, OutFields)
               /\ r.st = out[o].st /\ r.registered = out[o].registered
               /\ r.inContext \in BOOLEAN /\ (r.inContext => out[o].inContext)
               /\ r.closer \in {"listeners", "releasing", "done", "failed"} \/ r.closer = out[o].closer
               /\ r.release \in {"no", "running", "done"}
               /\ r.release # out[o].release \/ r.closer # out[o].closer =>
                    (pr.output = o => ex.pc \in {"none", "terminal"})
               /\ r.descriptor = "closed" => r.release = "done"
               /\ r.descriptor = out[o].descriptor \/ (pr.output = o => ~pr.read /\ ~ex.read)
  BY <1>5
<1>7. out' = [p \in Outputs |-> out'[p]] /\ out'[o] = r /\ \A p \in Outputs \ {o} : out'[p] = out[p]
  BY <1>6, OneOutput
<1>8. ASSUME NEW p \in Outputs PROVE OutputMoved(p)
  <2>1. CASE p = o
    BY <1>0, <1>4, <1>6, <1>7, <2>1 DEF OutputMoved, OutTypes
  <2>2. CASE p # o
    BY <1>7, <2>2, SameOutput
  <2> QED
    BY <2>1, <2>2
<1> QED
  BY <1>1, <1>3, <1>7, <1>8, OutputsMoved DEF IInv, Types

\* closeContext(): every output the context knows is given up, and what uses one is revoked.
LEMMA CloseContextInv ==
  ASSUME IInv, CloseContext
  PROVE  IInv'
<1>0. /\ ctx = "open" /\ ctx' = "closing" /\ closer' = "stopping" /\ UNCHANGED <<seal, db>>
      /\ pr' = RevokePreparation(pr) /\ ex' = StoppedForRevocation /\ lis' = ListenerAfterRevocation
  BY DEF CloseContext
<1>1. AuKept /\ au'.ticket # "pending"
  BY DEF CloseContext, IInv, Types, AuTypes, AuKept, Fields, AuFields
<1>2. PrKept /\ ExKept /\ LisMoved /\ LeavesListener
  BY <1>0, AbortIsKept, RevocationEffect
<1>3. pr.pc # "none" => pr'.revoked
  BY <1>0 DEF RevokePreparation, IInv, Types, PrTypes, Fields, PrFields
<1>4. /\ LisTypes' /\ PrTypes' /\ AuTypes' /\ DbTypes' /\ ExTypes'
      /\ OwnersInv' /\ StoryInv' /\ TerminalInv'
  BY <1>0, <1>1, <1>2, OwnersKept
<1>5. ControlTypes' /\ ContextInv'
  BY <1>0, <1>1 DEF IInv, Types, ControlTypes, ContextInv
<1>6. out' = [o \in Outputs |-> out'[o]]
  BY DEF CloseContext
<1>7. ASSUME NEW p \in Outputs PROVE OutputMoved(p)
  <2>1. CASE out'[p] = out[p]
    BY <2>1, SameOutput
  <2>2. CASE out'[p] = [out[p] EXCEPT !.registered = FALSE, !.aborted = TRUE]
    <3>1. Fields(out[p], OutFields)
      BY DEF IInv, Types, OutTypes
    <3>2. /\ Fields(out'[p], OutFields) /\ out'[p].registered = FALSE
          /\ out'[p].st = out[p].st /\ out'[p].inContext = out[p].inContext
          /\ out'[p].descriptor = out[p].descriptor /\ out'[p].release = out[p].release
          /\ out'[p].closer = out[p].closer
      BY <2>2, <3>1 DEF Fields, OutFields
    <3> QED
      BY <1>3, <3>2 DEF OutputMoved, IInv, Types, OutTypes, CustodyInv
  <2> QED
    BY <2>1, <2>2 DEF CloseContext
<1> QED
  BY <1>2, <1>4, <1>5, <1>6, <1>7, OutputsMoved DEF IInv, Types

\* The execution has ended: the context's listener is closed.
LEMMA ContextStoppedInv ==
  ASSUME IInv, ContextStopped
  PROVE  IInv'
<1>0. /\ closer = "stopping" /\ ex.pc \in {"none", "terminal"} /\ closer' = "listeners"
      /\ lis' = StartClose(lis) /\ UNCHANGED <<ctx, out, pr, au, seal, db, ex>>
  BY DEF ContextStopped
<1>1. Closes(lis, lis') /\ (lis.state = "none" \/ lis'.closing # "no")
  BY <1>0, CloseEffect DEF IInv, Types, LisTypes
<1>2. LisMoved /\ PrKept /\ AuKept /\ ExKept /\ OutKept /\ LeavesListener
  BY <1>0, <1>1, ClosesIsMoved, SameIsKept DEF LeavesListener, Active
<1>3. /\ LisTypes' /\ PrTypes' /\ AuTypes' /\ DbTypes' /\ ExTypes'
      /\ OwnersInv' /\ StoryInv' /\ TerminalInv' /\ OutTypes' /\ CustodyInv'
  BY <1>0, <1>2, OwnersKept, CustodyKept
<1>4. ControlTypes' /\ ContextInv'
  BY <1>0, <1>1 DEF IInv, Types, ControlTypes, ContextInv, Closes
<1> QED
  BY <1>3, <1>4 DEF IInv, Types

\* The listener has closed; the outputs of the context are released, and the context ends.
LEMMA ContextCloseInv ==
  ASSUME IInv, ContextListenersClosed \/ ContextClosed
  PROVE  IInv'
<1>0. UNCHANGED <<lis, pr, au, seal, db, ex>>
  BY DEF ContextListenersClosed, ContextClosed
<1>1. LisMoved /\ PrKept /\ AuKept /\ ExKept /\ LeavesListener
  BY <1>0, SameIsKept DEF LeavesListener
<1>2. /\ LisTypes' /\ PrTypes' /\ AuTypes' /\ DbTypes' /\ ExTypes'
      /\ OwnersInv' /\ StoryInv' /\ TerminalInv'
  BY <1>0, <1>1, OwnersKept
<1>3. ControlTypes' /\ ContextInv'
  <2>1. CASE ContextListenersClosed
    BY <1>0, <2>1 DEF ContextListenersClosed, IInv, Types, LisTypes, ControlTypes, ContextInv
  <2>2. CASE ContextClosed
    BY <1>0, <2>2 DEF ContextClosed, IInv, Types, ControlTypes, ContextInv
  <2> QED
    BY <2>1, <2>2
<1>4. closer \in {"listeners", "releasing"} /\ ex.pc \in {"none", "terminal"}
  BY DEF ContextListenersClosed, ContextClosed, IInv, ContextInv
<1>5. out' = [o \in Outputs |-> out'[o]]
  BY DEF ContextListenersClosed, ContextClosed
<1>6. ASSUME NEW p \in Outputs PROVE OutputMoved(p)
  <2>0. Fields(out[p], OutFields)
    BY DEF IInv, Types, OutTypes
  <2>1. CASE out'[p] = out[p]
    BY <2>1, SameOutput
  <2>2. CASE ContextListenersClosed /\ p \in Held /\ out'[p] = [out[p] EXCEPT !.release = StartRelease(@)]
    <3>1. /\ Fields(out'[p], OutFields) /\ out'[p].registered = out[p].registered
          /\ out'[p].st = out[p].st /\ out'[p].inContext = out[p].inContext
          /\ out'[p].descriptor = out[p].descriptor
          /\ out'[p].release = StartRelease(out[p].release) /\ out'[p].closer = out[p].closer
      BY <2>0, <2>2 DEF Fields, OutFields
    <3>2. out[p].inContext /\ ~out[p].registered
      BY <2>2 DEF Held
    <3>3. out'[p].release \in {"running", "done"} /\ (out[p].release = "done" => out'[p].release = "done")
      BY <3>1 DEF StartRelease, IInv, Types, OutTypes
    <3> QED
      BY <1>4, <3>1, <3>2, <3>3 DEF OutputMoved, IInv, Types, OutTypes, CustodyInv
  <2>3. CASE ContextClosed /\ out'[p] = [out[p] EXCEPT !.inContext = FALSE]
    <3>1. /\ Fields(out'[p], OutFields) /\ out'[p].registered = out[p].registered
          /\ out'[p].st = out[p].st /\ out'[p].inContext = FALSE
          /\ out'[p].descriptor = out[p].descriptor
          /\ out'[p].release = out[p].release /\ out'[p].closer = out[p].closer
      BY <2>0, <2>3 DEF Fields, OutFields
    <3> QED
      BY <3>1 DEF OutputMoved, IInv, Types, OutTypes, CustodyInv
  <2> QED
    BY <2>1, <2>2, <2>3 DEF ContextListenersClosed, ContextClosed
<1> QED
  BY <1>1, <1>2, <1>3, <1>5, <1>6, OutputsMoved DEF IInv, Types

-----------------------------------------------------------------------------
(* The session. *)

\* The context and the captures: an output is registered once, when it is captured.
LEMMA SessionOpensInv ==
  ASSUME IInv, UNCHANGED <<ex, closer>>,
         \/ CreateContext \/ ContextReady \/ ContextFails \/ Tick
         \/ \E o \in Outputs : CaptureOutputIntent(o) \/ CaptureReady(o) \/ CaptureFails(o)
  PROVE  IInv'
<1>0. UNCHANGED <<lis, pr, au, seal, db, ex, closer>>
  BY DEF CreateContext, ContextReady, ContextFails, Tick, CaptureOutputIntent, CaptureReady, CaptureFails
<1>1. LisMoved /\ PrKept /\ AuKept /\ ExKept /\ LeavesListener
  BY <1>0, SameIsKept DEF LeavesListener
<1>2. /\ LisTypes' /\ PrTypes' /\ AuTypes' /\ DbTypes' /\ ExTypes'
      /\ OwnersInv' /\ StoryInv' /\ TerminalInv'
  BY <1>0, <1>1, OwnersKept
<1>3. CASE CreateContext \/ ContextReady \/ ContextFails \/ Tick
  <2>1. UNCHANGED out /\ (ctx' = ctx \/ (ctx \in {"none", "starting"} /\ ctx' \in {"starting", "failed", "open"}))
    BY <1>3 DEF CreateContext, ContextReady, ContextFails, Tick
  <2>2. OutTypes' /\ CustodyInv'
    BY <1>1, <2>1, SameIsKept, CustodyKept
  <2>3. ControlTypes' /\ ContextInv'
    BY <1>0, <2>1 DEF IInv, Types, ControlTypes, ContextInv
  <2> QED
    BY <1>2, <2>2, <2>3 DEF IInv, Types
<1>4. ASSUME NEW o \in Outputs, CaptureOutputIntent(o) \/ CaptureReady(o) \/ CaptureFails(o)
      PROVE  IInv'
  <2>0. /\ UNCHANGED ctx /\ out[o].st \in {"idle", "capturing"} /\ Fields(out[o], OutFields) /\ OutTypes
    BY <1>4 DEF CaptureOutputIntent, CaptureReady, CaptureFails, IInv, Types, OutTypes
  <2>1. ControlTypes' /\ ContextInv'
    BY <1>0, <1>1, <2>0, ContextKept
  <2>2. /\ ~out[o].registered /\ ~out[o].inContext /\ out[o].closer = "no" /\ out[o].release = "no"
        /\ out[o].descriptor # "closed" /\ ~(pr.pc # "none" /\ pr.output = o)
    BY <2>0 DEF IInv, CustodyInv
  <2>3. \E r : /\ out' = [out EXCEPT ![o] = r] /\ Fields(r, OutFields)
               /\ r.registered \in BOOLEAN /\ r.inContext \in BOOLEAN
               /\ r.closer = "no" /\ r.release = "no" /\ r.descriptor # "closed"
               /\ r.registered \/ r.inContext => r.st = "held"
    <3>1. CASE CaptureReady(o)
      <4> DEFINE r == [out[o] EXCEPT !.st = "held", !.registered = TRUE, !.inContext = TRUE, !.descriptor = "open"]
      <4>1. out' = [out EXCEPT ![o] = r]
        BY <2>0, <3>1 DEF CaptureReady, OutTypes
      <4>2. /\ Fields(r, OutFields) /\ r.registered = TRUE /\ r.inContext = TRUE /\ r.st = "held"
            /\ r.closer = out[o].closer /\ r.release = out[o].release /\ r.descriptor = "open"
        BY <2>0 DEF Fields, OutFields
      <4> HIDE DEF r
      <4> QED
        BY <2>2, <4>1, <4>2
    <3>2. CASE CaptureOutputIntent(o) \/ CaptureFails(o)
      <4>0. PICK s : out' = [out EXCEPT ![o].st = s]
        BY <3>2 DEF CaptureOutputIntent, CaptureFails
      <4> DEFINE r == [out[o] EXCEPT !.st = s]
      <4>1. out' = [out EXCEPT ![o] = r]
        BY <2>0, <4>0 DEF OutTypes
      <4>2. /\ Fields(r, OutFields) /\ r.registered = out[o].registered /\ r.inContext = out[o].inContext
            /\ r.closer = out[o].closer /\ r.release = out[o].release /\ r.descriptor = out[o].descriptor
        BY <2>0 DEF Fields, OutFields
      <4> HIDE DEF r
      <4> QED
        BY <2>0, <2>2, <4>1, <4>2 DEF OutTypes
    <3> QED
      BY <1>4, <3>1, <3>2
  <2>4. PICK r : /\ out' = [out EXCEPT ![o] = r] /\ Fields(r, OutFields)
                 /\ r.registered \in BOOLEAN /\ r.inContext \in BOOLEAN
                 /\ r.closer = "no" /\ r.release = "no" /\ r.descriptor # "closed"
                 /\ r.registered \/ r.inContext => r.st = "held"
    BY <2>3
  <2>5. /\ out' = [p \in Outputs |-> out'[p]] /\ out'[o] = r
        /\ \A p \in Outputs \ {o} : out'[p] = out[p]
    BY <2>4, OneOutput
  <2>6. OutTypes'
    BY <2>0, <2>4, <2>5 DEF OutTypes
  <2>7. CustodyInv'
    BY <1>0, <2>2, <2>4, <2>5 DEF IInv, CustodyInv
  <2> QED
    BY <1>2, <2>1, <2>6, <2>7 DEF IInv, Types
<1> QED
  BY <1>3, <1>4

\* The listener of the context starts, or does not, and closes.
LEMMA ListenerInv ==
  ASSUME IInv, UNCHANGED <<ex, closer>>,
         PrepareConcreteRoot \/ RootListening \/ RootFails \/ ListenerClosed
  PROVE  IInv'
<1>0. UNCHANGED <<ctx, out, pr, au, seal, db, ex, closer>> /\ Fields(lis, LisFields) /\ LisTypes
  BY DEF PrepareConcreteRoot, RootListening, RootFails, ListenerClosed, IInv, Types, LisTypes
<1>1. OutKept /\ PrKept /\ AuKept /\ ExKept
  BY <1>0, SameIsKept
<1>2. CASE PrepareConcreteRoot
  <2>1. ctx = "open" /\ lis.state = "none" /\ lis.closing = "no"
    BY <1>0, <1>2 DEF PrepareConcreteRoot, LisTypes
  <2>2. /\ Fields(lis', LisFields) /\ lis'.state = "disarmed" /\ lis'.ready = lis.ready
        /\ lis'.claimed = lis.claimed /\ lis'.executionOwned = lis.executionOwned
        /\ lis'.closing = lis.closing /\ lis'.clean = lis.clean
    BY <1>0, <1>2 DEF PrepareConcreteRoot, Fields, LisFields
  <2>3. LisTypes'
    BY <1>0, <2>1, <2>2 DEF LisTypes
  <2>4. OutTypes' /\ PrTypes' /\ AuTypes' /\ DbTypes' /\ ExTypes' /\ ControlTypes'
    BY <1>0 DEF IInv, Types, OutTypes, PrTypes, AuTypes, DbTypes, ExTypes, ControlTypes
  <2>5. OwnersInv'
    BY <1>0, <2>2 DEF IInv, OwnersInv
  <2>6. StoryInv'
    BY <1>0, <2>2 DEF IInv, StoryInv, Told
  <2>7. TerminalInv'
    BY <1>0, <2>2 DEF IInv, TerminalInv
  <2>8. CustodyInv' /\ ContextInv'
    BY <1>0, <2>1 DEF IInv, CustodyInv, ContextInv
  <2> QED
    BY <2>3, <2>4, <2>5, <2>6, <2>7, <2>8 DEF IInv, Types
<1>3. CASE RootListening \/ RootFails \/ ListenerClosed
  <2>1. LisMoved
    <3>1. CASE RootListening
      BY <1>0, <3>1, CloseEffect, ClosesIsMoved DEF RootListening, LisMoved, LisTypes, Fields, LisFields
    <3>2. CASE RootFails
      BY <1>0, <3>2, CloseEffect, ClosesIsMoved DEF RootFails
    <3>3. CASE ListenerClosed
      BY <1>0, <3>3 DEF ListenerClosed, LisMoved, LisTypes, Fields, LisFields
    <3> QED
      BY <1>3, <3>1, <3>2, <3>3
  <2>2. LeavesListener
    <3>1. ex.pc \in Active => lis.ready /\ lis.closing = "no"
      BY DEF IInv, OwnersInv, Active
    <3> QED
      BY <1>0, <1>3, <3>1 DEF RootListening, RootFails, ListenerClosed, LeavesListener
  <2> QED
    BY <1>0, <1>1, <2>1, <2>2, Kept
<1> QED
  BY <1>2, <1>3

\* Before a preparation is prepared, nobody authorizes or executes.
LEMMA PreparationMoves ==
  ASSUME IInv, UNCHANGED <<ctx, au, seal, db, ex, closer>>, OutKept, LisMoved,
         pr.pc \in {"constructing", "binding", "failed"},
         Fields(pr', PrFields), pr'.pc \in {"binding", "prepared", "failed"}, pr'.output = pr.output,
         pr'.revoked \in BOOLEAN, pr.revoked => pr'.revoked,
         pr'.read \in BOOLEAN, pr'.read => pr.read
  PROVE  IInv'
<1>1. ex.pc = "none" /\ au.pc = "idle" /\ seal = "none"
  BY DEF IInv, OwnersInv, Types, ControlTypes
<1>2. OutTypes' /\ PrTypes' /\ AuTypes' /\ DbTypes' /\ ExTypes'
  BY DEF IInv, Types, OutTypes, PrTypes, AuTypes, DbTypes, ExTypes, OutKept
<1>3. LisTypes'
  BY DEF IInv, Types, LisTypes, LisMoved
<1>4. ControlTypes' /\ ContextInv'
  BY ContextKept, SameIsKept
<1>5. OwnersInv'
  BY <1>1 DEF IInv, OwnersInv, LisMoved, Active
<1>6. StoryInv' /\ TerminalInv'
  BY <1>1 DEF IInv, OwnersInv, StoryInv, TerminalInv, Told, LisMoved
<1>7. CustodyInv'
  BY <1>1 DEF IInv, CustodyInv, OutKept
<1> QED
  BY <1>2, <1>3, <1>4, <1>5, <1>6, <1>7 DEF IInv, Types

\* prepareConcrete() claims the listener, and a registered output if it can go on.
LEMMA PrepareConcreteInv ==
  ASSUME IInv, UNCHANGED <<ex, closer>>, NEW o \in Outputs, PrepareConcrete(o)
  PROVE  IInv'
<1>0. /\ UNCHANGED <<ctx, out, au, seal, db, ex, closer>> /\ Fields(lis, LisFields) /\ LisTypes
      /\ Fields(pr, PrFields) /\ PrTypes /\ lis.ready /\ ~lis.claimed
  BY DEF PrepareConcrete, IInv, Types, LisTypes, PrTypes
<1>1. pr.pc = "none" /\ au.pc = "idle" /\ seal = "none" /\ ex.pc = "none"
  BY <1>0 DEF IInv, OwnersInv, Types, ControlTypes
<1> DEFINE l == [lis EXCEPT !.claimed = TRUE]
<1>2. /\ Fields(l, LisFields) /\ l.state = lis.state /\ l.ready = lis.ready /\ l.claimed = TRUE
      /\ l.executionOwned = lis.executionOwned /\ l.closing = lis.closing /\ l.clean = lis.clean
  BY <1>0 DEF Fields, LisFields
<1>3. \/ /\ out[o].registered /\ lis' = l
         /\ pr' = [pr EXCEPT !.pc = "constructing", !.output = o, !.read = TRUE]
      \/ lis' = StartClose(l) /\ UNCHANGED pr
  BY DEF PrepareConcrete
<1> HIDE DEF l
<1>4. LisMoved
  <2>1. Closes(l, lis') \/ lis' = l
    BY <1>2, <1>3, CloseEffect
  <2> QED
    BY <1>0, <1>2, <2>1 DEF Closes, LisMoved, LisTypes
<1>5. CASE UNCHANGED pr
  BY <1>0, <1>1, <1>4, <1>5, Kept, SameIsKept DEF LeavesListener, Active
<1>6. CASE /\ out[o].registered /\ lis' = l
           /\ pr' = [pr EXCEPT !.pc = "constructing", !.output = o, !.read = TRUE]
  <2>1. /\ Fields(pr', PrFields) /\ pr'.pc = "constructing" /\ pr'.output = o /\ pr'.read = TRUE
        /\ pr'.revoked = pr.revoked
    BY <1>0, <1>6 DEF Fields, PrFields
  <2>2. OutTypes' /\ PrTypes' /\ AuTypes' /\ DbTypes' /\ ExTypes'
    BY <1>0, <2>1 DEF IInv, Types, OutTypes, PrTypes, AuTypes, DbTypes, ExTypes
  <2>3. LisTypes'
    BY <1>4 DEF IInv, Types, LisTypes, LisMoved
  <2>4. ControlTypes' /\ ContextInv'
    BY <1>0, <1>4, ContextKept, SameIsKept
  <2>5. OwnersInv'
    BY <1>0, <1>1, <1>2, <1>6, <2>1 DEF IInv, OwnersInv, Active
  <2>6. StoryInv' /\ TerminalInv'
    BY <1>0, <1>1, <1>2, <1>6 DEF IInv, OwnersInv, StoryInv, TerminalInv, Told
  <2>7. out[o].st = "held" /\ out[o].closer = "no" /\ out[o].release = "no" /\ out[o].descriptor # "closed"
    BY <1>6 DEF IInv, CustodyInv
  <2>8. CustodyInv'
    BY <1>0, <1>1, <1>6, <2>1, <2>7 DEF IInv, CustodyInv
  <2> QED
    BY <2>2, <2>3, <2>4, <2>5, <2>6, <2>8 DEF IInv, Types
<1> QED
  BY <1>3, <1>5, <1>6

\* The rest of the preparation.
LEMMA PreparationInv ==
  ASSUME IInv, UNCHANGED <<ex, closer>>,
         ConstructConcreteSnapshot \/ Prepared \/ PreparationFails \/ PreparationReadSettles
  PROVE  IInv'
<1>0. /\ UNCHANGED <<ctx, au, seal, db, ex, closer>> /\ Fields(lis, LisFields)
      /\ Fields(pr, PrFields) /\ PrTypes /\ pr.pc \in {"constructing", "binding", "failed"}
  BY DEF ConstructConcreteSnapshot, Prepared, PreparationFails, PreparationReadSettles,
         IInv, Types, LisTypes, PrTypes
<1>1. OutKept
  BY AbortIsKept, SameIsKept
     DEF ConstructConcreteSnapshot, Prepared, PreparationFails, PreparationReadSettles
<1>2. LisMoved
  <2>1. CASE PreparationFails
    <3>1. lis' = StartClose(RevokeListener(lis))
      BY <2>1 DEF PreparationFails
    <3> QED
      BY <1>0, <3>1, CloseEffect, ClosesTwice, ClosesIsMoved
  <2>2. CASE ConstructConcreteSnapshot \/ Prepared \/ PreparationReadSettles
    BY <2>2, SameIsKept DEF ConstructConcreteSnapshot, Prepared, PreparationReadSettles
  <2> QED
    BY <2>1, <2>2
<1>3. /\ Fields(pr', PrFields) /\ pr'.pc \in {"binding", "prepared", "failed"} /\ pr'.output = pr.output
      /\ pr'.revoked \in BOOLEAN /\ (pr.revoked => pr'.revoked)
      /\ pr'.read \in BOOLEAN /\ (pr'.read => pr.read)
  <2>1. CASE PreparationFails
    <3> DEFINE p == RevokePreparation(pr)
    <3>1. /\ Fields(p, PrFields) /\ p.pc = pr.pc /\ p.output = pr.output /\ p.read = pr.read
          /\ p.revoked = TRUE
      BY <1>0 DEF RevokePreparation, Fields, PrFields
    <3>2. pr' = [p EXCEPT !.pc = "failed", !.read = FALSE] \/ pr' = [p EXCEPT !.pc = "failed"]
      BY <2>1 DEF PreparationFails
    <3> HIDE DEF p
    <3> QED
      BY <1>0, <3>1, <3>2 DEF PrTypes, Fields, PrFields
  <2>2. CASE ConstructConcreteSnapshot \/ Prepared \/ PreparationReadSettles
    BY <1>0, <2>2 DEF ConstructConcreteSnapshot, Prepared, PreparationReadSettles, PrTypes, Fields, PrFields
  <2> QED
    BY <2>1, <2>2
<1> QED
  BY <1>0, <1>1, <1>2, <1>3, PreparationMoves

-----------------------------------------------------------------------------
(* authorize(): until the seal it has the chain to itself. *)

\* A step of authorize() before the seal.
LEMMA AuthorizationMoves ==
  ASSUME IInv, UNCHANGED <<ctx, out, pr, seal, ex, closer>>, LisMoved, DbTypes',
         pr.pc = "prepared", au.pc # "sealed",
         Fields(au', AuFields),
         au'.pc \in {"begun", "asked", "waiting", "approved", "authorized", "ending", "ended"},
         au'.pc \in {"approved", "authorized"} => au'.ticket = "approved",
         au'.ticket = "pending" => au.ticket = "pending" \/ ctx = "open"
  PROVE  IInv'
<1>1. seal = "none" /\ ex.pc = "none"
  BY DEF IInv, OwnersInv, Types, ControlTypes
<1>2. OutTypes' /\ PrTypes' /\ AuTypes' /\ ExTypes' /\ ControlTypes'
  BY DEF IInv, Types, OutTypes, PrTypes, AuTypes, ExTypes, ControlTypes
<1>3. LisTypes'
  BY DEF IInv, Types, LisTypes, LisMoved
<1>4. OwnersInv'
  BY <1>1 DEF IInv, OwnersInv, LisMoved, Active
<1>5. StoryInv'
  BY <1>1 DEF IInv, OwnersInv, StoryInv, LisMoved
<1>6. TerminalInv'
  BY <1>1 DEF IInv, TerminalInv
<1>7. CustodyInv'
  BY DEF IInv, CustodyInv
<1>8. ContextInv'
  BY <1>1 DEF IInv, ContextInv, LisMoved
<1> QED
  BY <1>2, <1>3, <1>4, <1>5, <1>6, <1>7, <1>8 DEF IInv, Types

\* A row of the database with other events.
LEMMA RowTypes ==
  ASSUME DbTypes, NEW events \in Seq(EventNames), NEW row
  PROVE  /\ db' = [db EXCEPT !.events = events, !.row = row] => DbTypes'
         /\ db' = [db EXCEPT !.events = events] => DbTypes'
         /\ UNCHANGED db => DbTypes'
BY DEF DbTypes, Fields, DbFields

\* The catch block of authorize().
LEMMA FailEffect ==
  ASSUME IInv, NEW events \in Seq(EventNames), NEW row, Fail(events, row)
  PROVE  /\ LisMoved /\ DbTypes' /\ Fields(au', AuFields) /\ au'.pc = "ending"
         /\ au'.ticket # "pending"
<1>0. DbTypes /\ Fields(au, AuFields) /\ Fields(lis, LisFields)
  BY DEF IInv, Types, AuTypes, LisTypes
<1>1. LisMoved
  BY <1>0, CloseEffect, ClosesIsMoved DEF Fail
<1>2. Fields(au', AuFields) /\ au'.pc = "ending" /\ au'.ticket # "pending"
  BY <1>0 DEF Fail, Fields, AuFields
<1>3. DbTypes'
  <2>1. PICK late :
          /\ late = <<>> \/ late = <<"approval_approved">> \/ late = <<"approval_refused">>
          /\ \/ db' = [db EXCEPT !.events = events \o late, !.row = row]
             \/ db' = [db EXCEPT !.events = events \o late \o <<"execution_failed">>, !.row = "failed"]
    BY DEF Fail, ResolvedEvent
  <2>2. /\ <<>> \in Seq(EventNames) /\ <<"approval_approved">> \in Seq(EventNames)
        /\ <<"approval_refused">> \in Seq(EventNames) /\ <<"execution_failed">> \in Seq(EventNames)
    BY DEF EventNames
  <2>3. late \in Seq(EventNames)
    BY <2>1, <2>2
  <2>4. events \o late \in Seq(EventNames)
    BY <2>3, Concatenation
  <2>5. (events \o late) \o <<"execution_failed">> \in Seq(EventNames)
    BY <2>2, <2>4, Concatenation
  <2> QED
    BY <1>0, <2>1, <2>4, <2>5, RowTypes
<1> QED
  BY <1>1, <1>2, <1>3

\* authorize() fails.
LEMMA FailInv ==
  ASSUME IInv, UNCHANGED <<ctx, out, pr, seal, ex, closer>>, pr.pc = "prepared", au.pc # "sealed",
         NEW events \in Seq(EventNames), NEW row, Fail(events, row)
  PROVE  IInv'
<1>1. /\ LisMoved /\ DbTypes' /\ Fields(au', AuFields) /\ au'.pc = "ending"
      /\ au'.ticket # "pending"
  BY FailEffect
<1> QED
  BY <1>1, AuthorizationMoves

\* authorize() goes on.
LEMMA GoesOnInv ==
  ASSUME IInv, UNCHANGED <<ctx, out, pr, seal, ex, closer, lis>>, pr.pc = "prepared", au.pc # "sealed",
         DbTypes', NEW q \in {"begun", "waiting", "approved", "authorized", "ending", "ended"},
         au' = [au EXCEPT !.pc = q], q \in {"approved", "authorized"} => au.ticket = "approved"
  PROVE  IInv'
<1>1. Fields(au', AuFields) /\ au'.pc = q /\ au'.ticket = au.ticket
  BY DEF IInv, Types, AuTypes, Fields, AuFields
<1> QED
  BY <1>1, AuthorizationMoves, SameIsKept

\* The first events, and the request.
LEMMA AsksInv ==
  ASSUME IInv, UNCHANGED <<ex, closer>>, Authorize \/ RequestApproval \/ PublishApproval
  PROVE  IInv'
<1>0. /\ UNCHANGED <<ctx, out, pr, seal, ex, closer>> /\ DbTypes /\ db.events \in Seq(EventNames)
      /\ pr.pc = "prepared" /\ au.pc # "sealed" /\ Fields(au, AuFields)
  BY DEF Authorize, RequestApproval, PublishApproval, IInv, Types, DbTypes, AuTypes, OwnersInv
<1>1. CASE Authorize
  <2> DEFINE list == SubSeq(AUTHORIZED_V2_EVENTS, 1, 2)
  <2>1. list \in Seq(EventNames)
    BY StoryEvents, Prefix
  <2>2. \/ Fail(db.events, "none")
        \/ \E w \in Writes(list) : \E row :
             \/ /\ db' = [db EXCEPT !.events = Committed(list, w), !.row = row]
                /\ au' = [au EXCEPT !.pc = "begun"] /\ UNCHANGED lis
             \/ Fail(Committed(list, w), row)
    BY <1>1 DEF Authorize
  <2> HIDE DEF list
  <2>3. CASE Fail(db.events, "none")
    BY <1>0, <2>3, FailInv
  <2>4. ASSUME NEW w \in Writes(list), NEW row,
               \/ /\ db' = [db EXCEPT !.events = Committed(list, w), !.row = row]
                  /\ au' = [au EXCEPT !.pc = "begun"] /\ UNCHANGED lis
               \/ Fail(Committed(list, w), row)
        PROVE  IInv'
    <3>1. Committed(list, w) \in Seq(EventNames)
      BY <2>1, WritesEffect
    <3>2. CASE Fail(Committed(list, w), row)
      BY <1>0, <3>1, <3>2, FailInv
    <3>3. CASE /\ db' = [db EXCEPT !.events = Committed(list, w), !.row = row]
               /\ au' = [au EXCEPT !.pc = "begun"] /\ UNCHANGED lis
      <4>1. DbTypes'
        BY <1>0, <3>1, <3>3, RowTypes
      <4> QED
        BY <1>0, <3>3, <4>1, GoesOnInv
    <3> QED
      BY <2>4, <3>2, <3>3
  <2> QED
    BY <2>2, <2>3, <2>4
<1>2. CASE RequestApproval
  <2>1. PICK list : list = <<"approval_requested">>
    OBVIOUS
  <2>2. list \in Seq(EventNames)
    BY <2>1 DEF EventNames
  <2>3. \/ Fail(db.events, db.row)
        \/ \E w \in Writes(list) :
             \/ /\ db' = [db EXCEPT !.events = db.events \o Committed(list, w)] /\ ctx = "open"
                /\ au' = [au EXCEPT !.pc = "asked", !.ticket = "pending", !.recorded = TRUE]
                /\ UNCHANGED lis
             \/ Fail(db.events \o Committed(list, w), db.row)
    BY <1>2, <2>1 DEF RequestApproval, AuthorizationFence, AuthenticatesPrepared
  <2>4. CASE Fail(db.events, db.row)
    BY <1>0, <2>4, FailInv
  <2>5. ASSUME NEW w \in Writes(list),
               \/ /\ db' = [db EXCEPT !.events = db.events \o Committed(list, w)] /\ ctx = "open"
                  /\ au' = [au EXCEPT !.pc = "asked", !.ticket = "pending", !.recorded = TRUE]
                  /\ UNCHANGED lis
               \/ Fail(db.events \o Committed(list, w), db.row)
        PROVE  IInv'
    <3>1. db.events \o Committed(list, w) \in Seq(EventNames)
      BY <1>0, <2>2, WritesEffect, Concatenation
    <3>2. CASE Fail(db.events \o Committed(list, w), db.row)
      BY <1>0, <3>1, <3>2, FailInv
    <3>3. CASE /\ db' = [db EXCEPT !.events = db.events \o Committed(list, w)] /\ ctx = "open"
               /\ au' = [au EXCEPT !.pc = "asked", !.ticket = "pending", !.recorded = TRUE]
               /\ UNCHANGED lis
      <4>1. DbTypes'
        BY <1>0, <3>1, <3>3, RowTypes
      <4>2. Fields(au', AuFields) /\ au'.pc = "asked"
        BY <1>0, <3>3 DEF Fields, AuFields
      <4> QED
        BY <1>0, <3>3, <4>1, <4>2, AuthorizationMoves, SameIsKept
    <3> QED
      BY <2>5, <3>2, <3>3
  <2> QED
    BY <2>3, <2>4, <2>5
<1>3. CASE PublishApproval
  <2>1. \/ Fail(db.events, db.row)
        \/ au' = [au EXCEPT !.pc = "waiting"] /\ UNCHANGED <<lis, db>>
    BY <1>3 DEF PublishApproval
  <2>2. CASE Fail(db.events, db.row)
    BY <1>0, <2>2, FailInv
  <2>3. CASE au' = [au EXCEPT !.pc = "waiting"] /\ UNCHANGED <<lis, db>>
    <3>1. DbTypes'
      BY <1>0, <2>3, RowTypes
    <3> QED
      BY <1>0, <2>3, <3>1, GoesOnInv
  <2> QED
    BY <2>1, <2>2, <2>3
<1> QED
  BY <1>1, <1>2, <1>3

\* The outcome of the request.
LEMMA OutcomeInv ==
  ASSUME IInv, UNCHANGED <<ex, closer>>, Decide \/ Expire \/ ApprovalResolved
  PROVE  IInv'
<1>0. /\ UNCHANGED <<ctx, out, pr, seal, ex, closer>> /\ DbTypes /\ db.events \in Seq(EventNames)
      /\ pr.pc = "prepared" /\ au.pc \in {"asked", "waiting"} /\ Fields(au, AuFields)
      /\ Fields(lis, LisFields)
  BY DEF Decide, Expire, ApprovalResolved, IInv, Types, DbTypes, AuTypes, LisTypes, OwnersInv
<1>1. CASE Decide \/ Expire
  <2>1. /\ UNCHANGED <<lis, db>> /\ \E d \in {"approved", "denied", "expired"} : au' = [au EXCEPT !.ticket = d]
    BY <1>1 DEF Decide, Expire
  <2>2. Fields(au', AuFields) /\ au'.pc = au.pc /\ au'.ticket # "pending"
    BY <1>0, <2>1 DEF Fields, AuFields
  <2>3. DbTypes' /\ LisMoved
    BY <1>0, <2>1, RowTypes, SameIsKept
  <2> QED
    BY <1>0, <2>2, <2>3, AuthorizationMoves
<1>2. CASE ApprovalResolved
  <2>1. PICK list : list = <<ResolvedEvent(au.ticket)>> \o
                           IF au.ticket = "approved" THEN <<>> ELSE <<"blocked">>
    OBVIOUS
  <2>2. list \in Seq(EventNames)
    <3>1. PICK a, b : /\ a = <<ResolvedEvent(au.ticket)>>
                      /\ b = IF au.ticket = "approved" THEN <<>> ELSE <<"blocked">>
      OBVIOUS
    <3>2. a \in Seq(EventNames)
      BY <3>1 DEF ResolvedEvent, EventNames
    <3>3. b \in Seq(EventNames)
      <4>1. <<>> \in Seq(EventNames) /\ <<"blocked">> \in Seq(EventNames)
        BY DEF EventNames
      <4>2. b = <<>> \/ b = <<"blocked">>
        BY <3>1
      <4> QED
        BY <4>1, <4>2
    <3> QED
      BY <2>1, <3>1, <3>2, <3>3, Concatenation
  <2>3. PICK w \in Writes(list) : \E row :
          \/ Fail(db.events \o Committed(list, w), row)
          \/ /\ au.ticket = "approved" /\ au' = [au EXCEPT !.pc = "approved"]
             /\ db' = [db EXCEPT !.events = db.events \o Committed(list, w)] /\ UNCHANGED lis
          \/ /\ au' = [au EXCEPT !.pc = "ending"]
             /\ db' = [db EXCEPT !.events = db.events \o Committed(list, w), !.row = row]
             /\ lis' = StartClose(lis)
    BY <1>2, <2>1 DEF ApprovalResolved
  <2>4. PICK row :
          \/ Fail(db.events \o Committed(list, w), row)
          \/ /\ au.ticket = "approved" /\ au' = [au EXCEPT !.pc = "approved"]
             /\ db' = [db EXCEPT !.events = db.events \o Committed(list, w)] /\ UNCHANGED lis
          \/ /\ au' = [au EXCEPT !.pc = "ending"]
             /\ db' = [db EXCEPT !.events = db.events \o Committed(list, w), !.row = row]
             /\ lis' = StartClose(lis)
    BY <2>3
  <2>5. db.events \o Committed(list, w) \in Seq(EventNames)
    BY <1>0, <2>2, WritesEffect, Concatenation
  <2>6. CASE Fail(db.events \o Committed(list, w), row)
    BY <1>0, <2>5, <2>6, FailInv
  <2>7. CASE /\ au.ticket = "approved" /\ au' = [au EXCEPT !.pc = "approved"]
             /\ db' = [db EXCEPT !.events = db.events \o Committed(list, w)] /\ UNCHANGED lis
    <3>1. DbTypes'
      BY <1>0, <2>5, <2>7, RowTypes
    <3> QED
      BY <1>0, <2>7, <3>1, GoesOnInv
  <2>8. CASE /\ au' = [au EXCEPT !.pc = "ending"]
             /\ db' = [db EXCEPT !.events = db.events \o Committed(list, w), !.row = row]
             /\ lis' = StartClose(lis)
    <3>1. DbTypes'
      BY <1>0, <2>5, <2>8, RowTypes
    <3>2. LisMoved
      BY <1>0, <2>8, CloseEffect, ClosesIsMoved
    <3>3. Fields(au', AuFields) /\ au'.pc = "ending" /\ au'.ticket = au.ticket
      BY <1>0, <2>8 DEF Fields, AuFields
    <3> QED
      BY <1>0, <3>1, <3>2, <3>3, AuthorizationMoves
  <2> QED
    BY <2>4, <2>6, <2>7, <2>8
<1> QED
  BY <1>1, <1>2

\* The authorization receipt, a failed revalidation, and the return of authorize().
LEMMA AuthorizedInv ==
  ASSUME IInv, UNCHANGED <<ex, closer>>, MarkAuthorized \/ RevalidationFails \/ AuthorizeReturns
  PROVE  IInv'
<1>0. /\ UNCHANGED <<ctx, out, pr, seal, ex, closer>> /\ DbTypes /\ db.events \in Seq(EventNames)
      /\ pr.pc = "prepared" /\ au.pc # "sealed"
  BY DEF MarkAuthorized, RevalidationFails, AuthorizeReturns, IInv, Types, DbTypes, OwnersInv
<1>1. CASE RevalidationFails
  BY <1>0, <1>1, FailInv DEF RevalidationFails
<1>2. CASE AuthorizeReturns
  <2>1. au' = [au EXCEPT !.pc = "ended"] /\ UNCHANGED <<lis, db>>
    BY <1>2 DEF AuthorizeReturns
  <2>2. DbTypes'
    BY <1>0, <2>1, RowTypes
  <2> QED
    BY <1>0, <2>1, <2>2, GoesOnInv
<1>3. CASE MarkAuthorized
  <2>1. PICK list : list = SubSeq(AUTHORIZED_V2_EVENTS, 5, 8)
    OBVIOUS
  <2>2. list \in Seq(EventNames)
    <3>1. PICK s : s = AUTHORIZED_V2_EVENTS
      OBVIOUS
    <3>2. s \in Seq(EventNames) /\ Len(s) = 8
      BY ONLY <3>1, StoryEvents, Zenon
    <3>3. SubSeq(s, 5, 8) \in Seq(EventNames)
      <4>1. 5 \in 1..Len(s) /\ 8 \in 5..Len(s)
        BY <3>2
      <4> QED
        BY ONLY <3>2, <4>1, Part
    <3> QED
      BY ONLY <2>1, <3>1, <3>3, Zenon
  <2>3. \/ Fail(db.events, db.row)
        \/ \E w \in Writes(list), n \in 0..Len(list) : \E row :
             \/ /\ db' = [db EXCEPT !.events = db.events \o SubSeq(list, 1, n), !.row = row]
                /\ au' = [au EXCEPT !.pc = "authorized"] /\ UNCHANGED lis
             \/ Fail(db.events \o SubSeq(list, 1, n), row)
    <3>1. CASE ~(AuthorizationFence /\ AdvancedBy(4))
      BY <1>3, <3>1 DEF MarkAuthorized
    <3>2. CASE AuthorizationFence /\ AdvancedBy(4)
      <4>0. PICK w \in Writes(list) :
              LET n   == Len(Committed(list, w))
                  ev  == db.events \o SubSeq(list, 1, IF n = 2 THEN 1 ELSE n)
                  row == IF n >= 3 THEN "authorized" ELSE db.row
              IN  IF w.how = "ok"
                  THEN /\ db' = [db EXCEPT !.events = ev, !.row = row]
                       /\ au' = [au EXCEPT !.pc = "authorized"] /\ UNCHANGED lis
                  ELSE Fail(ev, row)
        BY ONLY <1>3, <2>1, <3>2, Zenon DEF MarkAuthorized
      <4>1. PICK row, n :
              /\ n = IF Len(Committed(list, w)) = 2 THEN 1 ELSE Len(Committed(list, w))
              /\ \/ /\ db' = [db EXCEPT !.events = db.events \o SubSeq(list, 1, n), !.row = row]
                    /\ au' = [au EXCEPT !.pc = "authorized"] /\ UNCHANGED lis
                 \/ Fail(db.events \o SubSeq(list, 1, n), row)
        BY ONLY <4>0, Zenon
      <4>2. Len(Committed(list, w)) \in 0..Len(list)
        BY <2>2, WritesEffect
      <4>3. n \in 0..Len(list)
        BY <2>2, <4>1, <4>2
      <4> QED
        BY <4>1, <4>3
    <3> QED
      BY <3>1, <3>2
  <2>4. CASE Fail(db.events, db.row)
    BY <1>0, <2>4, FailInv
  <2>5. ASSUME NEW n \in 0..Len(list), NEW row,
               \/ /\ db' = [db EXCEPT !.events = db.events \o SubSeq(list, 1, n), !.row = row]
                  /\ au' = [au EXCEPT !.pc = "authorized"] /\ UNCHANGED lis
               \/ Fail(db.events \o SubSeq(list, 1, n), row)
        PROVE  IInv'
    <3>1. db.events \o SubSeq(list, 1, n) \in Seq(EventNames)
      BY <1>0, <2>2, Prefix, Concatenation
    <3>2. CASE Fail(db.events \o SubSeq(list, 1, n), row)
      BY <1>0, <3>1, <3>2, FailInv
    <3>3. CASE /\ db' = [db EXCEPT !.events = db.events \o SubSeq(list, 1, n), !.row = row]
               /\ au' = [au EXCEPT !.pc = "authorized"] /\ UNCHANGED lis
      <4>1. DbTypes'
        BY <1>0, <3>1, <3>3, RowTypes
      <4>2. au.ticket = "approved"
        BY <1>3 DEF MarkAuthorized, IInv, OwnersInv
      <4> QED
        BY <1>0, <3>3, <4>1, <4>2, GoesOnInv
    <3> QED
      BY <2>5, <3>2, <3>3
  <2> QED
    BY <2>3, <2>4, <2>5
<1> QED
  BY <1>1, <1>2, <1>3

\* The seal is minted over a chain that holds the eight events of the authorization,
\* and nothing else.
LEMMA SealInv ==
  ASSUME IInv, UNCHANGED <<ex, closer>>, Seal
  PROVE  IInv'
<1>0. /\ UNCHANGED <<ctx, out, pr, ex, closer>> /\ DbTypes /\ db.events \in Seq(EventNames)
      /\ au.pc = "authorized" /\ Fields(au, AuFields)
  BY DEF Seal, IInv, Types, DbTypes, AuTypes
<1>1. pr.pc = "prepared" /\ au.ticket = "approved" /\ seal = "none" /\ ex.pc = "none"
  BY <1>0 DEF IInv, OwnersInv, Types, ControlTypes
<1>2. CASE Fail(db.events, db.row) /\ UNCHANGED seal
  BY <1>0, <1>1, <1>2, FailInv
<1>3. CASE /\ AdvancedBy(8) /\ seal' = "minted"
           /\ au' = [au EXCEPT !.pc = "sealed"] /\ UNCHANGED <<lis, db>>
  <2>1. Fields(au', AuFields) /\ au'.pc = "sealed" /\ au'.ticket = au.ticket
    BY <1>0, <1>3 DEF Fields, AuFields
  <2>2. Told(8) /\ Len(db.events) = 8
    <3>1. db.events = SubSeq(AUTHORIZED_V2_EVENTS, 1, 8)
      BY <1>3 DEF AdvancedBy
    <3>2. PICK s : s = AUTHORIZED_V2_EVENTS
      OBVIOUS
    <3>3. s \in Seq(EventNames) /\ Len(s) = 8 /\ \A i \in 1..8 : Story[i] = s[i]
      BY ONLY <3>2, StoryEvents, Zenon
    <3>4. 8 \in 0..Len(s)
      BY <3>3
    <3>5. Len(SubSeq(s, 1, 8)) = 8 /\ \A i \in 1..8 : SubSeq(s, 1, 8)[i] = s[i]
      BY ONLY <3>3, <3>4, Prefix
    <3>6. db.events = SubSeq(s, 1, 8)
      BY <3>1, <3>2
    <3>7. Len(db.events) = 8 /\ \A i \in 1..8 : db.events[i] = Story[i]
      BY ONLY <3>3, <3>5, <3>6, Zenon
    <3>8. Len(db.events) >= 8
      BY ONLY <3>7
    <3> QED
      BY ONLY <3>7, <3>8, Zenon DEF Told
  <2>3. OutTypes' /\ PrTypes' /\ LisTypes' /\ DbTypes' /\ ExTypes' /\ AuTypes' /\ ControlTypes'
    BY <1>0, <1>3, <2>1
       DEF IInv, Types, OutTypes, PrTypes, LisTypes, DbTypes, ExTypes, AuTypes, ControlTypes
  <2>4. OwnersInv'
    BY <1>0, <1>1, <1>3, <2>1 DEF IInv, OwnersInv
  <2>5. StoryInv'
    <3>1. Told(8)' /\ (Len(db.events) = 8)'
      BY <1>3, <2>2 DEF Told
    <3> QED
      BY <1>0, <1>1, <1>3, <3>1 DEF IInv, StoryInv, OwnersInv
  <2>6. TerminalInv' /\ CustodyInv'
    BY <1>0, <1>1, <1>3 DEF IInv, TerminalInv, CustodyInv
  <2>7. ContextInv'
    BY <1>0, <1>1, <1>3, <2>1 DEF IInv, ContextInv
  <2> QED
    BY <2>3, <2>4, <2>5, <2>6, <2>7 DEF IInv, Types
<1> QED
  BY <1>2, <1>3 DEF Seal

\* Another process appends: this action's events and its row are not touched.
LEMMA ForeignAppendInv ==
  ASSUME IInv, UNCHANGED <<ex, closer>>, ForeignAppend
  PROVE  IInv'
<1>0. /\ UNCHANGED <<ctx, out, lis, pr, au, seal, ex, closer>>
      /\ Fields(db', DbFields) /\ db'.events = db.events /\ db'.row = db.row
  BY DEF ForeignAppend, IInv, Types, DbTypes, Fields, DbFields
<1>1. OutTypes' /\ PrTypes' /\ LisTypes' /\ DbTypes' /\ ExTypes' /\ AuTypes' /\ ControlTypes'
  BY <1>0 DEF IInv, Types, OutTypes, PrTypes, LisTypes, DbTypes, ExTypes, AuTypes, ControlTypes
<1>2. OwnersInv' /\ CustodyInv' /\ ContextInv'
  BY <1>0 DEF IInv, OwnersInv, CustodyInv, ContextInv
<1>3. StoryInv' /\ TerminalInv'
  BY <1>0 DEF IInv, StoryInv, TerminalInv, Told
<1> QED
  BY <1>1, <1>2, <1>3 DEF IInv, Types

-----------------------------------------------------------------------------
(* The theorems. *)

\* Nothing has begun.
LEMMA InitIInv == ExecutionInit => IInv
<1> SUFFICES ASSUME ExecutionInit PROVE IInv
  OBVIOUS
<1> USE DEF ExecutionInit, Init
<1>1. OutTypes
  BY DEF OutTypes, Fields, OutFields
<1>2. LisTypes /\ PrTypes /\ AuTypes
  BY DEF LisTypes, PrTypes, AuTypes, Fields, LisFields, PrFields, AuFields
<1>3. DbTypes
  BY DEF DbTypes, Fields, DbFields
<1>4. ExTypes /\ ControlTypes
  BY DEF ExTypes, ControlTypes, Fields, ExFields, Active
<1>5. OwnersInv
  BY DEF OwnersInv, Active
<1>6. StoryInv /\ TerminalInv
  BY DEF StoryInv, TerminalInv
<1>7. CustodyInv
  BY DEF CustodyInv
<1>8. ContextInv
  BY DEF ContextInv
<1> QED
  BY <1>1, <1>2, <1>3, <1>4, <1>5, <1>6, <1>7, <1>8 DEF IInv, Types

\* Every step keeps it.
LEMMA NextIInv == IInv /\ [Next]_vars => IInv'
<1> SUFFICES ASSUME IInv, [Next]_vars PROVE IInv'
  OBVIOUS
<1>1. CASE UNCHANGED vars
  <2>1. UNCHANGED <<out, lis, pr, au, ex, ctx, seal, db, closer>>
    BY <1>1 DEF vars, sessionVars
  <2> QED
    BY <2>1, Kept, SameIsKept DEF LeavesListener
<1>2. CASE SessionStep /\ UNCHANGED <<ex, closer>>
  BY <1>2, SessionOpensInv, ListenerInv, PrepareConcreteInv, PreparationInv, AsksInv, OutcomeInv,
     AuthorizedInv, SealInv, ForeignAppendInv DEF SessionStep
<1>3. CASE ExecutionStep
  BY <1>3, CreateInv, RevalidationInv, StartAndArmInv, SpawnInv, FinishInv, ChildInv, SignalInv,
     CloseOutputIntentInv, OutputCloseInv, CloseContextInv, ContextStoppedInv, ContextCloseInv
     DEF ExecutionStep
<1> QED
  BY <1>1, <1>2, <1>3 DEF Next

\* The invariant all the results below rest on: who owns the chain, the listener and the
\* outputs at which point of preparation, authorization, execution and close.
THEOREM Inductive == Spec => []IInv
<1>1. ExecutionInit => IInv
  BY InitIInv
<1>2. IInv /\ [Next]_vars => IInv'
  BY NextIInv
<1> QED
  BY <1>1, <1>2, PTL DEF Spec

\* Every effect has its evidence first: however authorize(), the execution, the closes, the
\* caller and other writers interleave, and whichever write throws or is torn, a seal is
\* minted only over the eight events of an approved authorization, the listener is armed
\* only after the durable start and arm events, and a child is attempted only after the
\* durable spawn intent.
THEOREM EffectsAreAlwaysCovered == Spec => []EffectsAreCovered
<1>1. IInv => EffectsAreCovered
  <2> SUFFICES ASSUME IInv PROVE EffectsAreCovered
    OBVIOUS
  <2>1. DbTypes
    BY DEF IInv, Types
  <2>2. seal # "none" => Covered(8) /\ au.ticket = "approved"
    BY <2>1, ToldIsCovered DEF IInv, StoryInv, OwnersInv
  <2>3. lis.state = "armed" => Covered(11)
    BY <2>1, ToldIsCovered DEF IInv, StoryInv
  <2>4. ex.attempted => Covered(12)
    BY <2>1, ToldIsCovered DEF IInv, StoryInv
  <2> QED
    BY <2>2, <2>3, <2>4 DEF EffectsAreCovered
<1> QED
  BY <1>1, Inductive, PTL

\* What the terminal proof says is what the database and the world hold: a proven result
\* names the status of the durable row, and execution_error is reported only with the
\* outcome receipt in the chain, the listener closed and no child left.
THEOREM ProofsAreReal == Spec => []ProofIsReal
<1>1. IInv => ProofIsReal
  BY DEF IInv, Types, LisTypes, TerminalInv, ProofIsReal
<1> QED
  BY <1>1, Inductive, PTL

\* Both closes end the use of what they close first: the descriptor of an output is closed
\* only when no read, execution or preparation can use it, and a closed context has no
\* listener open, no approval pending and no execution at work.
THEOREM ClosedIsIdle == Spec => []ClosedMeansIdle
<1>1. IInv => ClosedMeansIdle
  <2> SUFFICES ASSUME IInv PROVE ClosedMeansIdle
    OBVIOUS
  <2>1. CustodyOutlivesUse
    <3> SUFFICES ASSUME NEW o \in Outputs, out[o].descriptor = "closed", pr.output = o
                 PROVE  /\ ~pr.read /\ ~ex.read /\ ex.pc \in {"none", "terminal"}
                        /\ pr.pc \in {"constructing", "binding", "prepared"} => pr.revoked
      BY DEF CustodyOutlivesUse
    <3>1. out[o].release = "done" /\ ~out[o].registered
      BY DEF IInv, CustodyInv
    <3> QED
      BY <3>1 DEF IInv, CustodyInv
  <2>2. ClosedContextIsQuiet
    BY DEF IInv, ContextInv, ClosedContextIsQuiet, AuthenticatesPrepared
  <2> QED
    BY <2>1, <2>2 DEF ClosedMeansIdle
<1> QED
  BY <1>1, Inductive, PTL
=============================================================================
