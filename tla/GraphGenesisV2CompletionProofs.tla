-------------------- MODULE GraphGenesisV2CompletionProofs --------------------
(***************************************************************************)
(* Proofs about the synthetic completion, for any locks and any number of  *)
(* edits.                                                                  *)
(*                                                                         *)
(* Until the terminal attempt the phase says what has been journalled and  *)
(* which operation may be in flight; after it nothing but an operation     *)
(* that was already in flight may still come back, and it finds the fence  *)
(* closed.  An operation on the file is in flight only once the intent to  *)
(* write it is durable, and events are never taken away.                   *)
(***************************************************************************)
EXTENDS GraphGenesisV2Completion, SequenceTheorems, TLAPS

EventTypes ==
  {START, "quiesced", "post_state_validated", "candidate_compiled", "output_intent",
   "output_written", "graph_genesis_incomplete", "execution_completed",
   "outcome_receipt_finalized"}

Completions ==
  [ phase : {"new", "issued", "captured", "compiled", "reserved", "writing", "written", "terminal"},
    busy : {"no", "capture", "reserve", "revalidate", "open", "fill", "recheck"},
    started : BOOLEAN, journal : Seq(EventTypes), post : Nat, artifact : Nat, seen : Nat,
    written : BOOLEAN, attempted : BOOLEAN, proof : {"unattempted", "proven", "unknown"},
    result : {"none", "failed", "incomplete"} ]

TypeInv ==
  /\ cp \in Completions
  /\ events \in Seq(EventTypes)
  /\ row \in {"none", "failed", "incomplete"}
  /\ lock \in Nat
  /\ file \in {"absent", "partial", "whole", "changed", "foreign"}
  /\ revoked \in BOOLEAN
  /\ clock \in 0..2

\* A sequence of events without an outcome, one that ends with its outcome if it has
\* one, and one that announces the output.
Open(ev)      == \A i \in 1..Len(ev) : ev[i] # "outcome_receipt_finalized"
Ended(ev)     == \A i \in 1..Len(ev) : ev[i] = "outcome_receipt_finalized" => i = Len(ev)
Announced(ev) == \E i \in 1..Len(ev) : ev[i] = "output_intent"

\* The operations on the output file.
FileOps == {"revalidate", "open", "fill", "recheck"}

\* What the phase implies until the terminal attempt.
Course ==
  ~cp.attempted =>
    /\ cp.phase # "terminal" /\ cp.result = "none"
    /\ Open(events)
    /\ cp.phase = "new" =>
         ~cp.started /\ cp.busy = "no" /\ cp.journal = <<>> /\ events = <<>>
    /\ cp.phase # "new" => cp.started
    /\ cp.phase = "issued" => cp.journal = <<"quiesced">>
    /\ cp.phase = "captured" => cp.journal = <<"quiesced", "post_state_validated">>
    /\ cp.phase = "compiled" =>
         cp.journal = <<"quiesced", "post_state_validated", "candidate_compiled">>
    /\ cp.phase \in {"reserved", "writing"} =>
         cp.journal = <<"quiesced", "post_state_validated", "candidate_compiled", "output_intent">>
    /\ cp.phase = "written" =>
         cp.journal = <<"quiesced", "post_state_validated", "candidate_compiled", "output_intent",
                        "output_written">>
    /\ cp.phase \in {"compiled", "reserved", "writing", "written"} => cp.artifact = cp.post
    /\ cp.phase \in {"reserved", "writing", "written"} => Announced(events)
    /\ cp.busy = "capture" => cp.phase = "issued"
    /\ cp.busy = "reserve" => cp.phase = "compiled"
    /\ cp.busy \in FileOps => cp.phase = "writing"

IInv ==
  /\ TypeInv
  /\ Course
  /\ cp.attempted => cp.phase = "terminal" /\ cp.started /\ Ended(events)
  /\ revoked /\ cp.started => cp.attempted
  /\ file \in {"partial", "whole"} \/ cp.busy \in FileOps => Announced(events)

-----------------------------------------------------------------------------
(* Sequences of events. *)

\* A sequence of a few known elements, one element longer.
LEMMA Append2 ==
  ASSUME NEW E, NEW a \in E, NEW b \in E
  PROVE  Append(<<a>>, b) = <<a, b>>
<1>1. <<a>> \in Seq(E) /\ <<a, b>> \in Seq(E) /\ Len(<<a, b>>) = 2
  OBVIOUS
<1>2. Append(<<a>>, b) \in Seq(E) /\ Len(Append(<<a>>, b)) = 2
  BY <1>1
<1>3. \A i \in 1..2 : Append(<<a>>, b)[i] = <<a, b>>[i]
  BY <1>1
<1> QED
  BY <1>1, <1>2, <1>3, SeqEqual

\* The same for two elements,
LEMMA Append3 ==
  ASSUME NEW E, NEW a \in E, NEW b \in E, NEW c \in E
  PROVE  Append(<<a, b>>, c) = <<a, b, c>>
<1>1. <<a, b>> \in Seq(E) /\ <<a, b, c>> \in Seq(E) /\ Len(<<a, b, c>>) = 3
  OBVIOUS
<1>2. Append(<<a, b>>, c) \in Seq(E) /\ Len(Append(<<a, b>>, c)) = 3
  BY <1>1
<1>3. \A i \in 1..3 : Append(<<a, b>>, c)[i] = <<a, b, c>>[i]
  BY <1>1
<1> QED
  BY <1>1, <1>2, <1>3, SeqEqual

\* for three,
LEMMA Append4 ==
  ASSUME NEW E, NEW a \in E, NEW b \in E, NEW c \in E, NEW d \in E
  PROVE  Append(<<a, b, c>>, d) = <<a, b, c, d>>
<1>1. <<a, b, c>> \in Seq(E) /\ <<a, b, c, d>> \in Seq(E) /\ Len(<<a, b, c, d>>) = 4
  OBVIOUS
<1>2. Append(<<a, b, c>>, d) \in Seq(E) /\ Len(Append(<<a, b, c>>, d)) = 4
  BY <1>1
<1>3. \A i \in 1..4 : Append(<<a, b, c>>, d)[i] = <<a, b, c, d>>[i]
  BY <1>1
<1> QED
  BY <1>1, <1>2, <1>3, SeqEqual

\* and for four.
LEMMA Append5 ==
  ASSUME NEW E, NEW a \in E, NEW b \in E, NEW c \in E, NEW d \in E, NEW e \in E
  PROVE  Append(<<a, b, c, d>>, e) = <<a, b, c, d, e>>
<1>1. <<a, b, c, d>> \in Seq(E) /\ <<a, b, c, d, e>> \in Seq(E) /\ Len(<<a, b, c, d, e>>) = 5
  OBVIOUS
<1>2. Append(<<a, b, c, d>>, e) \in Seq(E) /\ Len(Append(<<a, b, c, d>>, e)) = 5
  BY <1>1
<1>3. \A i \in 1..5 : Append(<<a, b, c, d>>, e)[i] = <<a, b, c, d, e>>[i]
  BY <1>1
<1> QED
  BY <1>1, <1>2, <1>3, SeqEqual

\* The journal of a run that has written its output, event by event.
LEMMA History ==
  <<START>> \o <<"quiesced", "post_state_validated", "candidate_compiled", "output_intent",
               "output_written">>
    = <<START, "quiesced", "post_state_validated", "candidate_compiled", "output_intent",
        "output_written">>
<1> DEFINE s == <<"quiesced", "post_state_validated", "candidate_compiled", "output_intent",
                  "output_written">>
           t == <<START, "quiesced", "post_state_validated", "candidate_compiled",
                  "output_intent", "output_written">>
<1>1. /\ <<START>> \in Seq(EventTypes) /\ s \in Seq(EventTypes) /\ t \in Seq(EventTypes)
      /\ Len(s) = 5 /\ Len(t) = 6
  BY DEF EventTypes
<1>2. <<START>> \o s \in Seq(EventTypes) /\ Len(<<START>> \o s) = 6
  BY <1>1
<1>3. \A i \in 1..6 : (<<START>> \o s)[i] = t[i]
  BY <1>1
<1> QED
  BY <1>1, <1>2, <1>3, SeqEqual

\* One more event.
LEMMA OneMore ==
  ASSUME NEW ev \in Seq(EventTypes), Open(ev), NEW type \in EventTypes,
         type # "outcome_receipt_finalized"
  PROVE  /\ Append(ev, type) \in Seq(EventTypes) /\ Open(Append(ev, type))
         /\ Announced(ev) \/ type = "output_intent" => Announced(Append(ev, type))
<1> DEFINE s == Append(ev, type)
           n == Len(ev)
<1>1. /\ n \in Nat /\ s \in Seq(EventTypes) /\ Len(s) = n + 1
      /\ s[n + 1] = type /\ \A i \in 1..n : s[i] = ev[i]
  OBVIOUS
<1> HIDE DEF s, n
<1>2. \A i \in 1..Len(s) : i \in 1..n \/ i = n + 1
  BY <1>1
<1>3. Open(s)
  BY <1>1, <1>2 DEF Open, n
<1>4. Announced(ev) \/ type = "output_intent" => Announced(s)
  BY <1>1 DEF Announced, n
<1> QED
  BY <1>1, <1>3, <1>4 DEF s

\* The outcome.
LEMMA Outcome ==
  ASSUME NEW ev \in Seq(EventTypes), Open(ev)
  PROVE  /\ ev \o TERMINAL \in Seq(EventTypes) /\ Ended(ev \o TERMINAL) /\ Ended(ev)
         /\ Announced(ev) => Announced(ev \o TERMINAL)
<1> DEFINE s == ev \o TERMINAL
           n == Len(ev)
<1>1. TERMINAL \in Seq(EventTypes) /\ Len(TERMINAL) = 3
  BY DEF TERMINAL, EventTypes
<1>2. /\ TERMINAL[1] # "outcome_receipt_finalized"
      /\ TERMINAL[2] # "outcome_receipt_finalized"
  BY DEF TERMINAL
<1>3. /\ n \in Nat /\ s \in Seq(EventTypes) /\ Len(s) = n + 3
      /\ \A i \in 1..n : s[i] = ev[i]
      /\ s[n + 1] = TERMINAL[1] /\ s[n + 2] = TERMINAL[2]
  <2>0. TERMINAL \in Seq(EventTypes)
    BY <1>1
  <2>1. n \in Nat /\ s \in Seq(EventTypes) /\ Len(s) = n + Len(TERMINAL)
    BY <2>0
  <2>2. \A i \in 1..(n + Len(TERMINAL)) : s[i] = IF i <= n THEN ev[i] ELSE TERMINAL[i - n]
    BY <1>1, ConcatProperties
  <2> HIDE DEF s, n
  <2>3. n + Len(TERMINAL) = n + 3 /\ (n + 1) - n = 1 /\ (n + 2) - n = 2
    BY <1>1, <2>1
  <2> QED
    BY <2>1, <2>2, <2>3
<1> HIDE DEF s, n
<1>4. \A i \in 1..Len(s) : i \in 1..n \/ i = n + 1 \/ i = n + 2 \/ i = Len(s)
  BY <1>3
<1>5. Ended(s)
  BY <1>2, <1>3, <1>4 DEF Open, Ended, n
<1>6. Ended(ev)
  BY DEF Open, Ended
<1>7. Announced(ev) => Announced(s)
  BY <1>3 DEF Announced, n
<1> QED
  BY <1>3, <1>5, <1>6, <1>7 DEF s

\* The terminal attempt: it leaves the operation in flight alone, and its result is a
\* proof only of the history and the row that are durable then.
LEMMA TerminalStep ==
  ASSUME NEW c \in Completions, NEW ev \in Seq(EventTypes), Open(ev),
         NEW status \in {"failed", "incomplete"}, row \in {"none", "failed", "incomplete"},
         Terminal(c, ev, status)
  PROVE  /\ cp' \in Completions /\ cp'.attempted /\ cp'.phase = "terminal"
         /\ cp'.busy = c.busy /\ cp'.started = c.started
         /\ events' \in Seq(EventTypes) /\ Ended(events') /\ (Announced(ev) => Announced(events'))
         /\ row' \in {"none", "failed", "incomplete"}
         /\ cp'.result \in {"none", status}
         /\ cp'.result = status =>
              /\ row' = status /\ events' = <<START>> \o c.journal \o TERMINAL
              /\ status = "incomplete" => OutputVerified
<1>1. PICK w \in {"ok", "lost", "torn"}, readable \in BOOLEAN :
        LET writes == w # "lost" /\ Len(ev) > 0
            ev2    == IF writes THEN ev \o TERMINAL ELSE ev
            row2   == IF writes THEN status ELSE row
            proven == /\ readable /\ Proves(c, ev2) /\ row2 = status
                      /\ status = "incomplete" => OutputVerified
        IN  /\ events' = ev2 /\ row' = row2
            /\ cp' = [c EXCEPT !.phase = "terminal", !.attempted = TRUE,
                               !.proof = IF proven THEN "proven" ELSE "unknown",
                               !.result = IF proven THEN status ELSE "none"]
  BY DEF Terminal
<1> DEFINE proven == /\ readable /\ Proves(c, events') /\ row' = status
                     /\ status = "incomplete" => OutputVerified
<1>2. /\ events' \in {ev, ev \o TERMINAL} /\ row' \in {row, status}
      /\ cp' = [c EXCEPT !.phase = "terminal", !.attempted = TRUE,
                         !.proof = IF proven THEN "proven" ELSE "unknown",
                         !.result = IF proven THEN status ELSE "none"]
  BY <1>1
<1>3. /\ cp' \in Completions /\ cp'.attempted /\ cp'.phase = "terminal"
      /\ cp'.busy = c.busy /\ cp'.started = c.started
      /\ cp'.result = IF proven THEN status ELSE "none"
  <2> HIDE DEF proven
  <2> QED
    BY <1>2 DEF Completions
<1>4. events' \in Seq(EventTypes) /\ Ended(events') /\ (Announced(ev) => Announced(events'))
  BY <1>2, Outcome
<1>5. row' \in {"none", "failed", "incomplete"}
  BY <1>2
<1>6. proven => /\ row' = status /\ events' = <<START>> \o c.journal \o TERMINAL
                /\ status = "incomplete" => OutputVerified
  BY DEF Proves
<1> HIDE DEF proven
<1> QED
  BY <1>3, <1>4, <1>5, <1>6

\* #failure(), from a completion that is c but for its events.
LEMMA FailureStep ==
  ASSUME NEW c \in Completions, NEW ev \in Seq(EventTypes), Open(ev),
         row \in {"none", "failed", "incomplete"},
         c.started, ~c.attempted, Failure(c, ev)
  PROVE  /\ cp' \in Completions /\ cp'.attempted /\ cp'.phase = "terminal"
         /\ cp'.busy = c.busy /\ cp'.started
         /\ events' \in Seq(EventTypes) /\ Ended(events') /\ (Announced(ev) => Announced(events'))
         /\ row' \in {"none", "failed", "incomplete"}
         /\ cp'.result # "incomplete"
<1>1. Terminal(c, ev, "failed")
  BY DEF Failure
<1> QED
  BY <1>1, TerminalStep

\* A step that ends the run with a terminal attempt.
LEMMA EndIInv ==
  ASSUME IInv, UNCHANGED <<document, lock, clock>>, revoked' \in BOOLEAN,
         cp' \in Completions, cp'.attempted, cp'.phase = "terminal", cp'.started,
         events' \in Seq(EventTypes), Ended(events'), Announced(events) => Announced(events'),
         row' \in {"none", "failed", "incomplete"},
         cp'.busy \in {"no", cp.busy},
         file' = file \/ (cp.busy = "open" /\ file = "absent" /\ file' = "partial")
  PROVE  IInv'
<1>1. TypeInv'
  BY DEF IInv, TypeInv
<1>2. Course'
  BY DEF Course
<1>3. file' \in {"partial", "whole"} \/ cp'.busy \in FileOps => Announced(events')
  BY DEF IInv, FileOps
<1> QED
  BY <1>1, <1>2, <1>3 DEF IInv

\* A failing step of a run that has not ended, and one that finds nothing to end.
LEMMA FailureIInv ==
  ASSUME IInv, NEW c \in {cp, Idle(cp)}, Failure(c, events),
         revoked' \in BOOLEAN, revoked' = revoked \/ (c = cp /\ revoked' = TRUE),
         UNCHANGED <<document, lock, clock>>,
         file' = file \/ (cp.busy = "open" /\ file = "absent" /\ file' = "partial")
  PROVE  IInv' /\ (cp'.result = "incomplete" => cp.result = "incomplete")
<1>1. /\ c \in Completions /\ c.started = cp.started /\ c.attempted = cp.attempted
      /\ c.busy \in {"no", cp.busy} /\ c.phase = cp.phase /\ c.journal = cp.journal
      /\ c.artifact = cp.artifact /\ c.post = cp.post /\ c.result = cp.result
  BY DEF Idle, IInv, TypeInv, Completions
<1>2. row \in {"none", "failed", "incomplete"} /\ events \in Seq(EventTypes)
  BY DEF IInv, TypeInv
<1>3. CASE cp.started /\ ~cp.attempted
  <2>1. Open(events)
    BY <1>3 DEF IInv, Course
  <2>2. /\ cp' \in Completions /\ cp'.attempted /\ cp'.phase = "terminal"
        /\ cp'.busy = c.busy /\ cp'.started
        /\ events' \in Seq(EventTypes) /\ Ended(events')
        /\ (Announced(events) => Announced(events'))
        /\ row' \in {"none", "failed", "incomplete"}
        /\ cp'.result # "incomplete"
    BY <1>1, <1>2, <1>3, <2>1, FailureStep
  <2> QED
    BY <1>1, <2>2, EndIInv
<1>4. CASE ~cp.started \/ cp.attempted
  <2>1. cp' = c /\ events' = events /\ row' = row
    BY <1>1, <1>4 DEF Failure
  <2>2. CASE cp.attempted
    BY <1>1, <1>2, <2>1, <2>2, EndIInv DEF IInv
  <2>3. CASE ~cp.attempted /\ ~cp.started
    <3>1. cp.phase = "new" /\ cp.busy = "no" /\ c = cp /\ file' = file
      BY <2>3 DEF IInv, Course, Idle, TypeInv, Completions
    <3>2. TypeInv' /\ Course'
      BY <2>1, <3>1 DEF IInv, TypeInv, Course
    <3> QED
      BY <2>1, <2>3, <3>1, <3>2 DEF IInv
  <2> QED
    BY <1>4, <2>2, <2>3
<1> QED
  BY <1>3, <1>4

-----------------------------------------------------------------------------
(* The methods of the completion. *)

\* #append() of an event that is not the outcome: it is journalled, or the run ends.
LEMMA AppendStep ==
  ASSUME IInv, NEW c \in {cp, Idle(cp)}, NEW done, cp.started, ~cp.attempted,
         NEW type \in EventTypes \ {"outcome_receipt_finalized"}, AppendThen(c, type, done),
         UNCHANGED <<document, lock, file, revoked, clock>>
  PROVE  \/ IInv' /\ cp'.result # "incomplete"
         \/ /\ cp' = [done EXCEPT !.journal = Append(@, type)]
            /\ events' = Append(events, type) /\ row' = row
            /\ events' \in Seq(EventTypes) /\ Open(events')
            /\ Announced(events) \/ type = "output_intent" => Announced(events')
<1>1. /\ c \in Completions /\ c.started /\ ~c.attempted /\ c.busy \in {"no", cp.busy}
  BY DEF Idle, IInv, TypeInv, Completions
<1>2. /\ events \in Seq(EventTypes) /\ Open(events) /\ row \in {"none", "failed", "incomplete"}
      /\ revoked \in BOOLEAN
  BY DEF IInv, TypeInv, Course
<1>3. /\ Append(events, type) \in Seq(EventTypes) /\ Open(Append(events, type))
      /\ Announced(events) \/ type = "output_intent" => Announced(Append(events, type))
  BY <1>2, OneMore
<1>4. ASSUME NEW ev \in {events, Append(events, type)}, Failure(c, ev)
      PROVE  IInv' /\ cp'.result # "incomplete"
  <2>1. ev \in Seq(EventTypes) /\ Open(ev) /\ (Announced(events) => Announced(ev))
    BY <1>2, <1>3
  <2>2. /\ cp' \in Completions /\ cp'.attempted /\ cp'.phase = "terminal"
        /\ cp'.busy = c.busy /\ cp'.started
        /\ events' \in Seq(EventTypes) /\ Ended(events')
        /\ (Announced(ev) => Announced(events'))
        /\ row' \in {"none", "failed", "incomplete"}
        /\ cp'.result # "incomplete"
    BY <1>1, <1>2, <1>4, <2>1, FailureStep
  <2> QED
    BY <1>1, <1>2, <2>1, <2>2, EndIInv
<1> QED
  BY <1>3, <1>4 DEF AppendThen

\* issueSyntheticQuiescedRun().
LEMMA IssueIInv == ASSUME IInv, Issue PROVE IInv' /\ cp'.result # "incomplete"
<1> DEFINE c == [cp EXCEPT !.started = TRUE]
           list == <<START, "quiesced">>
<1>1. /\ ~cp.attempted /\ cp.phase = "new" /\ cp.busy = "no" /\ ~revoked
      /\ UNCHANGED <<document, lock, file, revoked, clock>>
  BY DEF Issue, Free, Fence
<1>2. c \in Completions /\ c.started /\ ~c.attempted /\ c.busy = "no" /\ c.result = cp.result
  BY <1>1 DEF IInv, TypeInv, Completions
<1>3. /\ row \in {"none", "failed", "incomplete"} /\ revoked \in BOOLEAN
      /\ file \notin {"partial", "whole"} \/ Announced(events)
  BY DEF IInv, TypeInv
<1>4. ~Announced(events) /\ cp.result = "none"
  BY <1>1 DEF IInv, Course, Announced
<1>5. list \in Seq(EventTypes) /\ Len(list) = 2 /\ Open(list)
  BY DEF EventTypes, Open, START
<1>6. CASE /\ cp' = [c EXCEPT !.phase = "issued", !.journal = <<"quiesced">>]
           /\ events' = list /\ UNCHANGED row
  <2>1. <<"quiesced">> \in Seq(EventTypes)
    BY DEF EventTypes
  <2>2. /\ cp' \in Completions /\ cp'.phase = "issued" /\ cp'.journal = <<"quiesced">>
        /\ cp'.busy = "no" /\ cp'.started /\ ~cp'.attempted /\ cp'.result = "none"
    BY <1>2, <1>4, <1>6, <2>1 DEF Completions
  <2>3. Course'
    BY <1>5, <1>6, <2>2 DEF Course, FileOps
  <2>4. TypeInv'
    BY <1>1, <1>5, <1>6, <2>2 DEF IInv, TypeInv
  <2> QED
    BY <1>1, <1>3, <1>4, <2>2, <2>3, <2>4 DEF IInv, FileOps
<1>7. ASSUME NEW n \in 0..2, Failure(c, SubSeq(list, 1, n))
      PROVE  IInv' /\ cp'.result # "incomplete"
  <2> DEFINE ev == SubSeq(list, 1, n)
  <2>1. ev \in Seq(EventTypes) /\ Open(ev)
    <3> HIDE DEF list
    <3>1. ev \in Seq(EventTypes) /\ Len(ev) = n /\ \A i \in 1..n : ev[i] = list[i]
      BY ONLY <1>5, n \in 0..2, SMTT(20)
    <3> QED
      BY <1>5, <3>1 DEF Open
  <2> HIDE DEF ev, c
  <2>2. /\ cp' \in Completions /\ cp'.attempted /\ cp'.phase = "terminal"
        /\ cp'.busy = c.busy /\ cp'.started
        /\ events' \in Seq(EventTypes) /\ Ended(events')
        /\ row' \in {"none", "failed", "incomplete"}
        /\ cp'.result # "incomplete"
    BY <1>2, <1>3, <1>7, <2>1, FailureStep DEF ev
  <2> QED
    BY <1>1, <1>2, <1>3, <1>4, <2>2, EndIInv
<1> QED
  BY <1>6, <1>7 DEF Issue

\* A step of the run that journals nothing.
LEMMA QuietIInv ==
  ASSUME IInv, Capture \/ Reserve \/ Write \/ Revalidated \/ Opened \/ Filled
  PROVE  IInv' /\ cp'.result = cp.result
<1>1. /\ ~cp.attempted /\ ~revoked /\ UNCHANGED <<events, row, document, lock, revoked, clock>>
  BY DEF Capture, Reserve, Write, Revalidated, Opened, Filled, Free, Fence
<1>2. /\ cp' \in Completions /\ ~cp'.attempted
      /\ cp'.started = cp.started /\ cp'.journal = cp.journal /\ cp'.artifact = cp.artifact
      /\ cp'.post = cp.post /\ cp'.result = cp.result
  BY <1>1 DEF IInv, TypeInv, Completions, Capture, Reserve, Write, Revalidated, Opened, Filled
<1>3. \/ cp.phase = "issued" /\ cp'.phase = "issued" /\ cp'.busy = "capture" /\ file' = file
      \/ cp.phase = "compiled" /\ cp'.phase = "compiled" /\ cp'.busy = "reserve" /\ file' = file
      \/ cp.phase = "reserved" /\ cp'.phase = "writing" /\ cp'.busy = "revalidate" /\ file' = file
      \/ cp.busy \in FileOps /\ cp.phase = "writing" /\ cp'.phase = "writing"
         /\ cp'.busy \in FileOps /\ file' \in {file, "partial", "whole"}
  BY <1>1 DEF IInv, TypeInv, Completions, Course, FileOps, Capture, Reserve, Write, Revalidated,
              Opened, Filled, Resumed
<1>4. TypeInv'
  BY <1>1, <1>2, <1>3 DEF IInv, TypeInv
<1>5. Course'
  BY <1>1, <1>2, <1>3 DEF IInv, Course, FileOps
<1>6. file' \in {"partial", "whole"} \/ cp'.busy \in FileOps => Announced(events')
  BY <1>1, <1>3 DEF IInv, Course, FileOps
<1> QED
  BY <1>1, <1>2, <1>4, <1>5, <1>6 DEF IInv

\* A step that ends with an event of the run.
LEMMA EventIInv ==
  ASSUME IInv, Captured \/ Compile \/ Reserved \/ WriteDone
  PROVE  IInv' /\ cp'.result # "incomplete"
<1>1. /\ ~cp.attempted /\ ~revoked /\ UNCHANGED <<document, lock, file, revoked, clock>>
  BY DEF Captured, Compile, Reserved, WriteDone, Fence
<1>2. cp \in Completions /\ cp.result = "none" /\ (cp.phase # "new" => cp.started)
  BY <1>1 DEF IInv, TypeInv, Course
<1>3. /\ Idle(cp) \in Completions /\ Idle(cp).busy = "no" /\ Idle(cp).phase = cp.phase
      /\ Idle(cp).started = cp.started /\ Idle(cp).attempted = cp.attempted
      /\ Idle(cp).journal = cp.journal /\ Idle(cp).post = cp.post
      /\ Idle(cp).artifact = cp.artifact /\ Idle(cp).result = cp.result
  BY <1>2 DEF Completions, Idle
<1>4. ASSUME NEW done \in Completions, NEW phase, NEW type \in EventTypes,
             done.phase = phase, done.busy = "no", done.started, ~done.attempted,
             done.journal = cp.journal, done.result = "none", type # "outcome_receipt_finalized",
             cp' = [done EXCEPT !.journal = Append(@, type)]
      PROVE  /\ cp' \in Completions /\ cp'.phase = phase /\ cp'.busy = "no" /\ cp'.started
             /\ ~cp'.attempted /\ cp'.journal = Append(cp.journal, type) /\ cp'.result = "none"
             /\ cp'.post = done.post /\ cp'.artifact = done.artifact
  <2>1. Append(cp.journal, type) \in Seq(EventTypes)
    BY <1>2 DEF Completions
  <2> QED
    BY <1>4, <2>1 DEF Completions
<1>5. ASSUME events' \in Seq(EventTypes), row' = row, cp' \in Completions,
             ~cp'.attempted, cp'.busy = "no", Course', Announced(events) => Announced(events')
      PROVE  IInv'
  <2>1. TypeInv'
    BY <1>1, <1>5 DEF IInv, TypeInv
  <2> QED
    BY <1>1, <1>5, <2>1 DEF IInv, FileOps
<1>6. /\ {"quiesced", "post_state_validated", "candidate_compiled", "output_intent",
          "output_written"} \subseteq EventTypes \ {"outcome_receipt_finalized"}
  BY DEF EventTypes
<1>7. CASE Captured
  <2> DEFINE done == [Idle(cp) EXCEPT !.phase = "captured", !.post = cp.seen]
  <2>1. cp.phase = "issued" /\ cp.started /\ cp.journal = <<"quiesced">>
    BY <1>1, <1>7 DEF IInv, Course, Captured, Resumed
  <2>2. /\ done \in Completions /\ done.phase = "captured" /\ done.busy = "no" /\ done.started
        /\ ~done.attempted /\ done.journal = cp.journal /\ done.result = "none"
    BY <1>1, <1>2, <1>3, <2>1 DEF Completions
  <2> HIDE DEF done
  <2>3. AppendThen(Idle(cp), "post_state_validated", done)
    BY <1>7 DEF Captured, done
  <2>4. Append(<<"quiesced">>, "post_state_validated") = <<"quiesced", "post_state_validated">>
    BY <1>6, Append2
  <2> QED
    BY <1>1, <1>4, <1>5, <1>6, <2>1, <2>2, <2>3, <2>4, AppendStep DEF Course, FileOps
<1>8. CASE Compile
  <2>0. /\ cp.phase = "captured" /\ cp.busy = "no" /\ cp.started
        /\ cp.journal = <<"quiesced", "post_state_validated">>
    BY <1>1, <1>2, <1>8 DEF IInv, Course, Compile, Free
  <2>1. CASE Failure(cp, events)
    <3>1. revoked' \in BOOLEAN /\ revoked' = revoked
      BY <1>1 DEF IInv, TypeInv
    <3> QED
      BY <1>1, <1>2, <2>1, <3>1, FailureIInv
  <2> DEFINE done == [cp EXCEPT !.phase = "compiled", !.artifact = cp.post]
  <2>2. CASE AppendThen(cp, "candidate_compiled", done)
    <3>1. /\ done \in Completions /\ done.phase = "compiled" /\ done.busy = "no" /\ done.started
          /\ ~done.attempted /\ done.journal = cp.journal /\ done.result = "none"
          /\ done.artifact = done.post
      BY <1>1, <1>2, <2>0 DEF Completions
    <3> HIDE DEF done
    <3>2. Append(<<"quiesced", "post_state_validated">>, "candidate_compiled")
            = <<"quiesced", "post_state_validated", "candidate_compiled">>
      BY <1>6, Append3
    <3> QED
      BY <1>1, <1>4, <1>5, <1>6, <2>0, <2>2, <3>1, <3>2, AppendStep DEF Course, FileOps
  <2> QED
    BY <1>8, <2>1, <2>2 DEF Compile
<1>9. CASE Reserved
  <2> DEFINE done == [Idle(cp) EXCEPT !.phase = "reserved"]
  <2>1. /\ cp.phase = "compiled" /\ cp.started /\ cp.artifact = cp.post
        /\ cp.journal = <<"quiesced", "post_state_validated", "candidate_compiled">>
    BY <1>1, <1>9 DEF IInv, Course, Reserved, Resumed
  <2>2. /\ done \in Completions /\ done.phase = "reserved" /\ done.busy = "no" /\ done.started
        /\ ~done.attempted /\ done.journal = cp.journal /\ done.result = "none"
        /\ done.artifact = done.post
    BY <1>1, <1>2, <1>3, <2>1 DEF Completions
  <2> HIDE DEF done
  <2>3. AppendThen(Idle(cp), "output_intent", done)
    BY <1>9 DEF Reserved, done
  <2>4. Append(<<"quiesced", "post_state_validated", "candidate_compiled">>, "output_intent")
          = <<"quiesced", "post_state_validated", "candidate_compiled", "output_intent">>
    BY <1>6, Append4
  <2> QED
    BY <1>1, <1>4, <1>5, <1>6, <2>1, <2>2, <2>3, <2>4, AppendStep, SMTT(20) DEF Course, FileOps
<1>10. CASE WriteDone
  <2> DEFINE done == [Idle(cp) EXCEPT !.phase = "written"]
  <2>1. /\ cp.phase = "writing" /\ cp.started /\ cp.artifact = cp.post /\ Announced(events)
        /\ cp.journal = <<"quiesced", "post_state_validated", "candidate_compiled",
                          "output_intent">>
    BY <1>1, <1>10 DEF IInv, Course, WriteDone, Resumed, FileOps
  <2>2. /\ done \in Completions /\ done.phase = "written" /\ done.busy = "no" /\ done.started
        /\ ~done.attempted /\ done.journal = cp.journal /\ done.result = "none"
        /\ done.artifact = done.post
    BY <1>1, <1>2, <1>3, <2>1 DEF Completions
  <2> HIDE DEF done
  <2>3. AppendThen(Idle(cp), "output_written", done)
    BY <1>10 DEF WriteDone, done
  <2>4. Append(<<"quiesced", "post_state_validated", "candidate_compiled", "output_intent">>,
               "output_written")
          = <<"quiesced", "post_state_validated", "candidate_compiled", "output_intent",
              "output_written">>
    BY <1>6, Append5
  <2>5. \/ IInv' /\ cp'.result # "incomplete"
        \/ /\ cp' = [done EXCEPT !.journal = Append(@, "output_written")] /\ row' = row
           /\ events' \in Seq(EventTypes) /\ Open(events') /\ Announced(events')
    BY <1>1, <1>6, <2>1, <2>3, AppendStep
  <2>6. CASE /\ cp' = [done EXCEPT !.journal = Append(@, "output_written")] /\ row' = row
             /\ events' \in Seq(EventTypes) /\ Open(events') /\ Announced(events')
    <3>1. /\ cp' \in Completions /\ cp'.phase = "written" /\ cp'.busy = "no" /\ cp'.started
          /\ ~cp'.attempted /\ cp'.journal = Append(cp.journal, "output_written")
          /\ cp'.result = "none" /\ cp'.post = done.post /\ cp'.artifact = done.artifact
      BY <1>4, <1>6, <2>2, <2>6
    <3>2. Course'
      BY <2>1, <2>2, <2>4, <2>6, <3>1 DEF Course, FileOps
    <3> QED
      BY <1>5, <2>6, <3>1, <3>2
  <2> QED
    BY <2>5, <2>6
<1> QED
  BY <1>7, <1>8, <1>9, <1>10

\* What finalizeSyntheticIncomplete() may claim.
Claim ==
  /\ row' = "incomplete" /\ file = "whole" /\ ~revoked /\ cp.artifact = cp.post
  /\ events' = <<START, "quiesced", "post_state_validated", "candidate_compiled",
                  "output_intent", "output_written">> \o TERMINAL

\* finalizeSyntheticIncomplete().
LEMMA FinalizeIInv ==
  ASSUME IInv, Finalize
  PROVE  IInv' /\ (cp'.result = "incomplete" => Claim)
<1>1. /\ ~cp.attempted /\ cp.phase = "written" /\ cp.busy = "no" /\ ~revoked
      /\ UNCHANGED <<document, lock, file, revoked, clock>>
  BY DEF Finalize, Free, Fence
<1>2. /\ cp \in Completions /\ events \in Seq(EventTypes) /\ Open(events) /\ cp.started
      /\ row \in {"none", "failed", "incomplete"} /\ revoked \in BOOLEAN
      /\ cp.artifact = cp.post /\ cp.result = "none"
      /\ cp.journal = <<"quiesced", "post_state_validated", "candidate_compiled", "output_intent",
                        "output_written">>
  BY <1>1 DEF IInv, TypeInv, Course
<1>3. CASE Failure(cp, events)
  <2>1. IInv' /\ (cp'.result = "incomplete" => cp.result = "incomplete")
    BY <1>1, <1>2, <1>3, FailureIInv
  <2> QED
    BY <1>2, <2>1
<1>4. CASE Terminal(cp, events, "incomplete")
  <2>1. /\ cp' \in Completions /\ cp'.attempted /\ cp'.phase = "terminal"
        /\ cp'.busy = cp.busy /\ cp'.started = cp.started
        /\ events' \in Seq(EventTypes) /\ Ended(events')
        /\ (Announced(events) => Announced(events'))
        /\ row' \in {"none", "failed", "incomplete"}
        /\ cp'.result = "incomplete" =>
             /\ row' = "incomplete" /\ events' = <<START>> \o cp.journal \o TERMINAL
             /\ OutputVerified
    BY <1>2, <1>4, TerminalStep
  <2>2. IInv'
    BY <1>1, <1>2, <2>1, EndIInv
  <2>3. <<START>> \o cp.journal
          = <<START, "quiesced", "post_state_validated", "candidate_compiled",
              "output_intent", "output_written">>
    BY <1>2, History
  <2> QED
    BY <1>1, <1>2, <2>1, <2>2, <2>3 DEF Claim, OutputVerified
<1> QED
  BY <1>3, <1>4 DEF Finalize

\* The calls that fail, the operations that reject and the revocation.
LEMMA EndsIInv ==
  ASSUME IInv, Reentered \/ (\E p \in {"new", "issued", "captured", "compiled", "reserved", "written"} : CallFails(p))
               \/ OperationFails \/ Revoke
  PROVE  IInv' /\ (cp'.result = "incomplete" => cp.result = "incomplete")
<1>1. revoked \in BOOLEAN
  BY DEF IInv, TypeInv
<1>2. CASE Reentered \/ \E p \in {"new", "issued", "captured", "compiled", "reserved", "written"} : CallFails(p)
  BY <1>1, <1>2, FailureIInv DEF Reentered, CallFails
<1>3. CASE OperationFails
  <2>1. file' = file \/ (cp.busy = "open" /\ file = "absent" /\ file' = "partial")
    BY <1>3 DEF OperationFails
  <2> QED
    BY <1>1, <1>3, <2>1, FailureIInv DEF OperationFails
<1>4. CASE Revoke
  BY <1>4, FailureIInv DEF Revoke
<1> QED
  BY <1>2, <1>3, <1>4

-----------------------------------------------------------------------------
(* The environment. *)

\* Time, and what others do to the lock and the file, leave the completion alone.
LEMMA OutsideIInv ==
  ASSUME IInv, Tick \/ EditLock \/ Interfere \/ UNCHANGED vars
  PROVE  IInv' /\ cp' = cp
<1>1. UNCHANGED <<cp, events, row, document, revoked>>
  BY DEF Tick, EditLock, Interfere, vars
<1>2. lock' \in Nat /\ clock' \in 0..2
  BY DEF Tick, EditLock, Interfere, vars, IInv, TypeInv
<1>3. file' = file \/ file' \in {"foreign", "changed"}
  BY DEF Tick, EditLock, Interfere, vars
<1>4. TypeInv' /\ Course'
  BY <1>1, <1>2, <1>3 DEF IInv, TypeInv, Course
<1> QED
  BY <1>1, <1>3, <1>4 DEF IInv

-----------------------------------------------------------------------------
(* The invariant and what follows from it. *)

\* A new completion satisfies the invariant.
LEMMA InitIInv == Init => IInv
<1> SUFFICES ASSUME Init PROVE IInv
  OBVIOUS
<1>1. /\ cp \in Completions /\ cp.phase = "new" /\ cp.busy = "no" /\ ~cp.started
      /\ ~cp.attempted /\ cp.journal = <<>> /\ cp.result = "none"
  BY DEF Init, Completions
<1>2. TypeInv
  <2>1. <<>> \in Seq(EventTypes) /\ 1 \in Nat /\ 0 \in 0..2
    OBVIOUS
  <2> QED
    BY <1>1, <2>1 DEF Init, TypeInv
<1>3. Course
  BY <1>1 DEF Init, Course, Open, FileOps
<1> QED
  BY <1>1, <1>2, <1>3 DEF Init, IInv, FileOps

\* Every step preserves it, and only finalize() gives a proof.
LEMMA NextIInv ==
  ASSUME IInv, [Next]_vars
  PROVE  IInv' /\ (cp'.result = "incomplete" /\ cp.result # "incomplete" => Claim)
BY IssueIInv, QuietIInv, EventIInv, FinalizeIInv, EndsIInv, OutsideIInv DEF Next

\* The inductive invariant holds in every reachable state.
THEOREM Inductive == Spec => []IInv
<1>1. Init => IInv
  BY InitIInv
<1>2. IInv /\ [Next]_vars => IInv'
  BY NextIInv
<1> QED
  BY <1>1, <1>2, PTL DEF Spec

\* Nothing follows a durable outcome, a started run ends with its session, and no file
\* of the run exists without its announcement.
THEOREM EvidenceWhole == Spec => []EvidenceIsWhole
<1>1. ASSUME IInv PROVE EvidenceIsWhole
  <2>1. Open(events) => Ended(events)
    BY DEF Open, Ended
  <2>2. NothingAfterTerminal
    BY <1>1, <2>1 DEF IInv, Course, Ended, NothingAfterTerminal
  <2>3. RevokedMeansTerminal
    BY <1>1 DEF IInv, RevokedMeansTerminal
  <2>4. OutputIsAnnounced
    BY <1>1 DEF IInv, Announced, OutputIsAnnounced
  <2> QED
    BY <2>2, <2>3, <2>4 DEF EvidenceIsWhole
<1>2. IInv => EvidenceIsWhole
  BY <1>1
<1> QED
  BY <1>2, Inductive, PTL

\* A completion proof is given only for a run whose whole history is durable and whose
\* file holds the artifact of the captured lock.
THEOREM ProofHolds == Spec => ProofHoldsWhenGiven
<1>1. IInv /\ [Next]_vars =>
        [cp'.result = "incomplete" /\ cp.result # "incomplete" =>
           /\ row' = "incomplete" /\ file = "whole" /\ ~revoked /\ cp.artifact = cp.post
           /\ events' = <<START, "quiesced", "post_state_validated", "candidate_compiled",
                           "output_intent", "output_written">> \o TERMINAL]_vars
  BY NextIInv DEF Claim
<1> QED
  BY <1>1, Inductive, PTL DEF Spec, ProofHoldsWhenGiven
=============================================================================
