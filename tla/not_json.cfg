SPECIFICATION FairSpec
CONSTANTS
    piped = piped  streamed = streamed  onchain = onchain
    OffJobs = {}
    StreamJobs = {}
    ChainJobs = {onchain}
    Length <- OneOnchain
    None = None
    V4 = {}
    V6 = {}
    JobIds = {}
    Piece = piece
    MaxKills = 0
    MaxRestarts = 0
CHECK_DEADLOCK FALSE
PROPERTY NonJsonFailsJob
