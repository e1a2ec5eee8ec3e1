SPECIFICATION Spec
CONSTANTS
    front = front  prover = prover  alice = alice  bob = bob  eth = eth  usd = usd
    Containers = {front, prover}
    Unknown = unknown
    Config <- TwoContainers
    Addresses <- Clients
    Owners = {alice, bob}
    Tokens = {eth, usd}
    Amounts = {0, 1, 2, 3}
    CacheSize = 2
    MaxPipeline = 2
    None = None
INVARIANTS TypeOK CacheFaithful FreshVerdict AcceptedIsRunnable AcceptedPays
