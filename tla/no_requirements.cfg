SPECIFICATION Spec
CONSTANTS
    front = front  prover = prover  alice = alice  bob = bob  eth = eth  usd = usd
    Containers = {front}
    Unknown = unknown
    Config <- Defaults
    Addresses <- Clients
    Owners = {alice}
    Tokens = {eth}
    Amounts = {0, 1}
    CacheSize = 2
    MaxPipeline = 2
    None = None
INVARIANT NoRequirementsAccept
