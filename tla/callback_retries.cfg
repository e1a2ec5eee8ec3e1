SPECIFICATION FairSpec
CONSTANTS
    s1 = s1  s2 = s2  p1 = p1  p2 = p2
    t1 = t1  t2 = t2  t3 = t3  t4 = t4
    Subs = {s1}
    Param <- OneCallback
    MaxFrequency = 1
    Procs = {p1, p2}
    Txs = {t1, t2, t3, t4}
    None = None
    Blocked = Blocked
    MaxClock = 1
    MaxQueue = 1
    MaxRelays = 1
    MaxRestarts = 1
INVARIANTS LifeInv AtMostOneLiveTx AttemptsAreFailures RetryBound NoStuckCallback
PROPERTIES CallbackSettles ImplementsDeliveryCycle
