SPECIFICATION FairSpec
CONSTANTS
    StartingId = 1
    BatchSize = 2
    Trail = 1
    Window = 1
    MaxReorg = 1
    MaxBlock = 4
    MaxSubs = 5
CHECK_DEADLOCK FALSE
INVARIANTS TypeOK ListenerInv NoGap SyncedIsFinal AheadOnlyWhenLagging
PROPERTIES NeverBack EventuallyRelayed
