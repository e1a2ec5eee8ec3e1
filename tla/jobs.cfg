SPECIFICATION FairSpec
CONSTANTS
    piped = piped  streamed = streamed  onchain = onchain
    OffJobs = {piped, streamed}
    StreamJobs = {streamed}
    ChainJobs = {onchain}
    Length <- Lengths
    None = None
    V4 = {v4}
    V6 = {v6}
    JobIds = {id}
    Piece = piece
    MaxKills = 1
    MaxRestarts = 1
CHECK_DEADLOCK FALSE
INVARIANTS TypeOK Accounting GetNeverContradicts RunningIsRun StoreInv
PROPERTIES ResultIsFinal ListingMissesNone ImplementsJobRecord JobsEnd
