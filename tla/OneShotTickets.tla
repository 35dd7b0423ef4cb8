--------------------------- MODULE OneShotTickets ---------------------------
(***************************************************************************)
(* What an approval coordinator promises its callers, without timers,      *)
(* clocks, visibility or decisions: a ticket is opened once, settled once, *)
(* and keeps its result for ever.                                          *)
(***************************************************************************)
CONSTANTS Tickets, Outcomes, Unsettled

VARIABLES
    shut,     \* no ticket may be opened any more
    open,     \* tickets somebody waits for
    result    \* the result of every ticket

vars == <<shut, open, result>>

Init ==
    /\ shut = FALSE
    /\ open = {}
    /\ result = [t \in Tickets |-> Unsettled]

Open(t) ==
    /\ ~shut
    /\ t \notin open
    /\ result[t] = Unsettled
    /\ open' = open \cup {t}
    /\ UNCHANGED <<shut, result>>

Settle(t) ==
    /\ t \in open
    /\ open' = open \ {t}
    /\ \E o \in Outcomes : result' = [result EXCEPT ![t] = o]
    /\ UNCHANGED shut

Shut ==
    /\ ~shut
    /\ shut' = TRUE
    /\ open' = {}
    /\ \E o \in Outcomes :
         result' = [t \in Tickets |-> IF t \in open THEN o ELSE result[t]]

Next ==
    \/ \E t \in Tickets : Open(t) \/ Settle(t)
    \/ Shut

Spec == Init /\ [][Next]_vars
=============================================================================
