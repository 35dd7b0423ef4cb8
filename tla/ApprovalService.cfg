CONSTANTS
    Tickets = {t1, t2}
    TTLs = {0, 1, 2}
    MaxTime = 1
SPECIFICATION FairTicketSpec
INVARIANTS
    AnswerIsOutcome
    NoLateDecision
    NoOrphanTicket
PROPERTIES
    ImplementsOneShot
    EveryTicketSettles
