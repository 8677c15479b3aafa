SPECIFICATION FairSpec

CONSTANTS
    w1 = w1
    w2 = w2
    c1 = c1
    c2 = c2
    c3 = c3
    c4 = c4
    acceptor = acceptor
    None = None
    Workers <- MCWorkers
    Conns <- MCConns
    Silent <- MCSilent
    Cap = 2
    MaxSpurious = 1

INVARIANTS
    TypeOK
    OnePlace
    RingBounds
    NoLostWakeup
    AcceptorAwake

PROPERTIES
    UseBeforeClose
    ImplementsConnQueue
    EventuallyClosed

\* The clients connect finitely often: with none left, all threads sleep.
CHECK_DEADLOCK FALSE
