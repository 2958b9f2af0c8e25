SPECIFICATION SpecGates
CONSTANTS
    Threads = {t1, t2, t3, t4}
    Workers = {w1, w2, w3}
    Revisions = {0, 1}
INVARIANTS NoLostWakeup NoOutboundWhenLocalOnly AnswersAreWhole
PROPERTIES ImplementsBarrier WaitingEnds
CHECK_DEADLOCK FALSE
