-------------------------------- MODULE Guardian -------------------------------
(***************************************************************************)
(* The guardian (src/orchestration/guardian.ts) decides which messages the *)
(* node takes on: off-chain jobs, delegated subscriptions and              *)
(* subscriptions created on chain, the last ones with the payment          *)
(* requirements of src/chain/walletChecker.ts.  It is one synchronous      *)
(* filter, and its state is a cache per container of the addresses it has  *)
(* looked up.  The containers of a subscription come from the hash table   *)
(* of src/chain/containerLookup.ts.                                        *)
(*                                                                         *)
(* An IP address is [v4 |-> BOOLEAN, number |-> Nat], a network            *)
(* [v4, first, last] with both ends in it.                                 *)
(***************************************************************************)
EXTENDS Integers, FiniteSetsExt, SequencesExt

CONSTANTS
    Containers,  \* the containers of the configuration
    Unknown,     \* the name of a container that is not configured
    Config,      \* Config[c]: its external, generates_proofs, allowed_ips,
                 \* allowed_addresses, allowed_delegate_addresses and
                 \* accepted_payments, a function from tokens to prices
    Addresses,   \* IP addresses of clients
    Owners, Tokens, Amounts,  \* of subscriptions
    CacheSize,   \* addresses remembered per container: 100
    MaxPipeline, \* bound: containers of an off-chain job
    None

VARIABLES
    chain_enabled, has_payment_address,  \* configuration of the node
    caches,   \* caches[c]: addresses of known standing, the latest used last
    message, verdict

settings == <<chain_enabled, has_payment_address>>
vars == <<settings, caches, message, verdict>>

Verdicts == {"accepted", "rejected", "throws"}

ASSUME GuardianAssumption ==
    /\ None \notin Verdicts /\ MaxPipeline \in Nat
    /\ IsFiniteSet(Containers) /\ Unknown \notin Containers
    /\ CacheSize \in Nat \ {0} /\ Amounts \subseteq Nat
    /\ \A a \in Addresses : a.number \in Nat
    /\ \A c \in Containers :
         /\ Config[c].allowed_ips \in Seq([v4 : BOOLEAN, first : Nat, last : Nat])
         /\ Range(Config[c].accepted_payments) \subseteq Nat

Entry == [number : {a.number : a \in Addresses}, allowed : BOOLEAN]

\* The type invariant: a container remembers at most CacheSize addresses, each once.
TypeOK ==
    /\ settings \in BOOLEAN \X BOOLEAN
    /\ DOMAIN caches = Containers
    /\ \A c \in Containers :
         /\ caches[c] \in Seq(Entry)
         /\ Len(caches[c]) \leq CacheSize
         /\ \A i, j \in DOMAIN caches[c] :
              caches[c][i].number = caches[c][j].number => i = j
    /\ verdict \in Verdicts \cup {None}
    /\ message = None => verdict = None
-------------------------------------------------------------------------------
(* The address of a client *)

\* Mutant: the last address of a network is left out.
CoversExclusive(network, address) ==
    network.first \leq address.number /\ address.number < network.last

Covers(network, address) ==
    network.first \leq address.number /\ address.number \leq network.last

\* find() over the networks ends at the first that covers the address, or
\* throws at the first of the other IP version.
Scan(c, address) ==
    LET networks == Config[c].allowed_ips
        Mismatch(i) == networks[i].v4 # address.v4
        decisive == {i \in DOMAIN networks : Mismatch(i) \/ Covers(networks[i], address)}
    IN  CASE decisive = {} -> "no"
          [] decisive # {} /\ Mismatch(Min(decisive)) -> "throws"
          [] OTHER -> "yes"

\* Entries are found by the number alone: an address of either version finds it.
IsCached(cache, address) == \E i \in DOMAIN cache : cache[i].number = address.number

EntryOf(cache, address) == CHOOSE i \in DOMAIN cache : cache[i].number = address.number

\* Mutant: that an address is remembered is taken for its being allowed.
RecalledAsAllowed(cache, address) == "yes"

Recalled(cache, address) ==
    IF cache[EntryOf(cache, address)].allowed THEN "yes" ELSE "no"

\* What the guardian answers for a container, given what it remembers.
IsAllowedIp(c, cache, address) ==
    CASE Config[c].allowed_ips = <<>> -> "yes"
      [] Config[c].allowed_ips # <<>> /\ IsCached(cache, address) -> Recalled(cache, address)
      [] OTHER -> Scan(c, address)

\* Mutant: one entry too many.
CappedLate(cache) == IF Len(cache) > CacheSize + 1 THEN Tail(cache) ELSE cache

\* The least recently used entry makes room.
Capped(cache) == IF Len(cache) > CacheSize THEN Tail(cache) ELSE cache

Without(cache, address) ==
    IF IsCached(cache, address) THEN RemoveAt(cache, EntryOf(cache, address)) ELSE cache

\* The cache afterwards: reading moves an entry to the end as storing does.
Remembered(c, cache, address) ==
    LET answer == IsAllowedIp(c, cache, address)
    IN  IF Config[c].allowed_ips = <<>> \/ answer = "throws"
        THEN cache
        ELSE Capped(Append(Without(cache, address),
                           [number |-> address.number, allowed |-> answer = "yes"]))
-------------------------------------------------------------------------------
(* The filters *)

Supported(c) == c \in Containers

IsAllowedAddress(allowed, owner) == allowed = {} \/ owner \in allowed

\* Mutant: the last container is asked whether it takes requests.
WellFormedLast(containers, requires_proof) ==
    /\ Config[Last(containers)].external
    /\ requires_proof => Config[Last(containers)].generates_proofs

\* What is asked of a pipeline after its containers were checked one by one.
WellFormed(containers, requires_proof) ==
    /\ Config[containers[1]].external
    /\ requires_proof => Config[Last(containers)].generates_proofs

Verdict(ok) == IF ok THEN "accepted" ELSE "rejected"

\* Positions at which the check of the containers of an off-chain job ends.
Refused(m, known) ==
    {i \in DOMAIN m.containers :
        Supported(m.containers[i]) =>
            IsAllowedIp(m.containers[i], known[m.containers[i]], m.ip) # "yes"}

\* A container that is not supported throws too: GuardianError takes an object of
\* parameters, and is given the name of the container.
OffchainVerdict(m, known) ==
    LET refused == Refused(m, known)
        last == m.containers[Min(refused)]
    IN  CASE m.containers = <<>> -> "rejected"
          [] refused # {} ->
               IF Supported(last) /\ IsAllowedIp(last, known[last], m.ip) = "no"
               THEN "rejected" ELSE "throws"
          [] OTHER -> Verdict(WellFormed(m.containers, m.requires_proof))

\* The containers whose caches are consulted, up to the one that is refused.
Consulted(m, known) ==
    {m.containers[i] : i \in
        {i \in DOMAIN m.containers : \A r \in Refused(m, known) : i \leq r}} \cap Containers

DelegatedVerdict(m) ==
    CASE ~chain_enabled \/ m.expired -> "rejected"
      [] chain_enabled /\ ~m.expired /\ m.containers = <<>> -> "throws"
      [] OTHER ->
           Verdict(/\ \A c \in ToSet(m.containers) :
                        /\ Supported(c)
                        /\ IsAllowedAddress(Config[c].allowed_delegate_addresses, m.owner)
                   /\ WellFormed(m.containers, m.requires_proof))

Price(c, token) == Config[c].accepted_payments[token]

Sells(c, token) == token \in DOMAIN Config[c].accepted_payments

\* Mutant: the price of the last container alone.
MinPaymentOfLast(containers, token) == Price(Last(containers), token)

\* The prices of the containers of a pipeline, each of them in it once.
MinPayment(containers, token) ==
    MapThenSumSet(LAMBDA c : Price(c, token), ToSet(containers))

MatchesPaymentRequirements(m) ==
    /\ m.payment_amount > 0 => has_payment_address
    /\ \A c \in ToSet(m.containers) : Sells(c, m.payment_token)
    /\ m.payment_amount \geq MinPayment(m.containers, m.payment_token)

CreatedVerdict(m) ==
    Verdict(/\ ~m.completed
            /\ m.containers # <<>>
            /\ WellFormed(m.containers, m.requires_proof)
            /\ \A c \in ToSet(m.containers) :
                 IsAllowedAddress(Config[c].allowed_addresses, m.owner)
            /\ MatchesPaymentRequirements(m))
-------------------------------------------------------------------------------
(* Messages *)

\* Every selection of containers in every order has a hash; an unknown hash
\* stands for no containers.
LookupResults ==
    {p \in UNION {[1 .. n -> Containers] : n \in 0 .. Cardinality(Containers)} : IsInjective(p)}

\* A client writes down the pipeline of an off-chain job itself.
Pipelines == UNION {[1 .. n -> Containers \cup {Unknown}] : n \in 0 .. MaxPipeline}

OffchainJobs ==
    [type : {"OffchainJob"}, containers : Pipelines, ip : Addresses, requires_proof : BOOLEAN]

DelegatedSubscriptions ==
    [type : {"DelegatedSubscription"}, containers : LookupResults, owner : Owners,
     requires_proof : BOOLEAN, expired : BOOLEAN]

CreatedSubscriptions ==
    [type : {"SubscriptionCreated"}, containers : LookupResults, owner : Owners,
     requires_proof : BOOLEAN, completed : BOOLEAN,
     payment_token : Tokens, payment_amount : Amounts]

Messages == OffchainJobs \cup DelegatedSubscriptions \cup CreatedSubscriptions

Init ==
    /\ chain_enabled \in BOOLEAN
    /\ has_payment_address \in IF chain_enabled THEN BOOLEAN ELSE {FALSE}
    /\ caches = [c \in Containers |-> <<>>]
    /\ message = None /\ verdict = None

\* The REST server, or the chain listener if there is one, has a message.
Receive ==
    /\ message = None
    /\ message' \in Messages
    /\ message'.type = "SubscriptionCreated" => chain_enabled
    /\ UNCHANGED <<settings, caches, verdict>>

Pending(type) == message # None /\ verdict = None /\ message.type = type

ProcessOffchain ==
    /\ Pending("OffchainJob")
    /\ verdict' = OffchainVerdict(message, caches)
    /\ caches' = [c \in Containers |->
                    IF c \in Consulted(message, caches)
                    THEN Remembered(c, caches[c], message.ip) ELSE caches[c]]
    /\ UNCHANGED <<settings, message>>

ProcessDelegated ==
    /\ Pending("DelegatedSubscription")
    /\ verdict' = DelegatedVerdict(message)
    /\ UNCHANGED <<settings, caches, message>>

ProcessCreated ==
    /\ Pending("SubscriptionCreated")
    /\ verdict' = CreatedVerdict(message)
    /\ UNCHANGED <<settings, caches, message>>

\* The caller goes on with the verdict.
Return ==
    /\ verdict # None
    /\ message' = None /\ verdict' = None
    /\ UNCHANGED <<settings, caches>>

Next == Receive \/ ProcessOffchain \/ ProcessDelegated \/ ProcessCreated \/ Return

Spec == Init /\ [][Next]_vars
-------------------------------------------------------------------------------
(* Properties *)

\* What is remembered of an address is whether a network of the container has
\* it, through every refill and eviction of the cache (#is_allowed_ip).
CacheFaithful ==
    \A c \in Containers : \A i \in DOMAIN caches[c] :
        caches[c][i].allowed <=>
            \E a \in Addresses, n \in DOMAIN Config[c].allowed_ips :
                /\ a.number = caches[c][i].number
                /\ LET network == Config[c].allowed_ips[n]
                   IN  a.v4 = network.v4 /\ a.number \in network.first .. network.last

\* A job is judged as by a guardian that has judged nothing before: neither what
\* was asked earlier nor what was forgotten or refused half-way changes a verdict.
\* The one exception is where that guardian throws at a network of the other IP
\* version: the entry left by an address of the same number is taken instead.
FreshVerdict ==
    verdict # None /\ message.type = "OffchainJob" =>
        LET fresh == OffchainVerdict(message, [c \in Containers |-> <<>>]) IN
        \/ verdict = fresh
        \/ /\ fresh = "throws"
           /\ \E other \in Addresses :
                other.number = message.ip.number /\ other.v4 # message.ip.v4

\* Whatever way a message came, the orchestrator can run what was accepted:
\* there is a container, all are configured, the first takes requests from
\* outside and a proof that is required is generated by the last.  That the list
\* is not empty is what lets run_job call the first of them, and it is why
\* process_subscription always finds a result.
AcceptedIsRunnable ==
    verdict = "accepted" =>
        LET n == Len(message.containers) IN
        /\ n > 0
        /\ Range(message.containers) \subseteq Containers
        /\ Config[message.containers[1]].external
        /\ message.requires_proof => Config[message.containers[n]].generates_proofs

\* The payment of a subscription that is taken from the chain can be shared out
\* so that every container of its pipeline has its price, in a token each of
\* them takes, and the node has an address to be paid at.
AcceptedPays ==
    verdict = "accepted" /\ message.type = "SubscriptionCreated" =>
        /\ message.payment_amount = 0 \/ has_payment_address
        /\ \E share \in [ToSet(message.containers) -> 0 .. message.payment_amount] :
             /\ \A c \in DOMAIN share :
                  /\ message.payment_token \in DOMAIN Config[c].accepted_payments
                  /\ share[c] \geq Config[c].accepted_payments[message.payment_token]
             /\ MapThenSumSet(LAMBDA c : share[c], DOMAIN share) \leq message.payment_amount

\* "No payment requirements for this container, it allows everything."
\* (walletChecker.ts:125): containers that ask for no payment are open to every
\* subscription that passes the other filters and gives no payment.
NoRequirementsAccept ==
    verdict # None /\ message.type = "SubscriptionCreated" =>
        \/ message.completed \/ message.containers = <<>>
        \/ ~WellFormed(message.containers, message.requires_proof)
        \/ \E c \in ToSet(message.containers) :
             \/ ~IsAllowedAddress(Config[c].allowed_addresses, message.owner)
             \/ DOMAIN Config[c].accepted_payments # {}
        \/ message.payment_amount > 0
        \/ verdict = "accepted"
===============================================================================
