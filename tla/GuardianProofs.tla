----------------------------- MODULE GuardianProofs ----------------------------
(***************************************************************************)
(* Proofs about the guardian, for any containers, networks, clients and    *)
(* size of the caches.                                                     *)
(***************************************************************************)
EXTENDS Guardian, SequenceTheorems, FiniteSetTheorems, WellFoundedInduction, TLAPS

-------------------------------------------------------------------------------
(* Sums over finite sets.                                                 *)

\* A set of natural numbers that is not empty has a least element.
LEMMA Least ==
    ASSUME NEW T \in SUBSET Nat, T # {}
    PROVE  Min(T) \in T /\ \A n \in T : Min(T) \leq n
<1> DEFINE R == OpToRel(<, Nat)
<1>1. R = {ss \in Nat \X Nat : ss[1] < ss[2]}
  BY DEF OpToRel
<1>2. IsWellFoundedOn(R, Nat)
  BY NatLessThanWellFounded
<1> HIDE DEF R
<1>3. PICK m \in T : \A n \in T : <<n, m>> \notin R
  BY <1>2, WFMin
<1>4. ASSUME NEW n \in T PROVE m \leq n
  <2>1. <<n, m>> \in Nat \X Nat /\ ~(n < m)
    BY <1>1, <1>3
  <2> QED BY <2>1
<1> QED BY <1>4 DEF Min

\* Induction over the subsets of a finite set: the smallest one outside a collection
\* that has every set all of whose parts it has.
LEMMA SubsetInduction ==
    ASSUME NEW D, IsFiniteSet(D), NEW G,
           \A s \in SUBSET D : (\A x \in s : s \ {x} \in G) => s \in G
    PROVE  \A s \in SUBSET D : s \in G
<1> SUFFICES ASSUME NEW r \in SUBSET D, r \notin G PROVE FALSE
  OBVIOUS
<1> DEFINE B == {s \in SUBSET D : s \notin G}
           sizes == {Cardinality(s) : s \in B}
<1>1. \A s \in B : IsFiniteSet(s) /\ Cardinality(s) \in Nat
  BY FS_Subset, FS_CardinalityType
<1>2. sizes \in SUBSET Nat /\ sizes # {}
  BY <1>1
<1>3. PICK s \in B : \A t \in B : Cardinality(s) \leq Cardinality(t)
  <2>1. PICK m \in sizes : \A n \in sizes : m \leq n
    <3> HIDE DEF sizes
    <3> QED BY <1>2, Least
  <2> QED BY <2>1
<1>4. ASSUME NEW x \in s PROVE s \ {x} \in G
  <2>1. Cardinality(s \ {x}) = Cardinality(s) - 1
    BY <1>1, FS_RemoveElement
  <2>2. ~(Cardinality(s) \leq Cardinality(s \ {x}))
    BY <1>1, <2>1
  <2> QED BY <1>3, <2>2
<1> QED BY <1>4

Pick(s) == CHOOSE x \in s : TRUE

\* g is the function on the subsets of D by which a fold adds up f.
IsSum(g, f, D) ==
    g = [s \in SUBSET D |-> IF s = {} THEN 0 ELSE f[Pick(s)] + g[s \ {Pick(s)}]]

LEMMA PickIn ==
    ASSUME NEW s, s # {}
    PROVE  Pick(s) \in s
BY DEF Pick

\* There is such a function: what fits the sets of up to n elements is made to fit
\* those of one more.
LEMMA SumExists ==
    ASSUME NEW D, IsFiniteSet(D), NEW f
    PROVE  \E g : IsSum(g, f, D)
<1> DEFINE Value(g, s) == IF s = {} THEN 0 ELSE f[Pick(s)] + g[s \ {Pick(s)}]
           Upto(n) == \E g : \A s \in SUBSET D : Cardinality(s) \leq n => g[s] = Value(g, s)
           B == {n \in Nat : ~Upto(n)}
<1>1. \A s \in SUBSET D : IsFiniteSet(s) /\ Cardinality(s) \in Nat
  BY FS_Subset, FS_CardinalityType
<1>2. Upto(0)
  <2>1. \A s \in SUBSET D : Cardinality(s) \leq 0 => s = {}
    BY <1>1, FS_EmptySet
  <2>2. \A s \in SUBSET D : Cardinality(s) \leq 0 => [t \in SUBSET D |-> 0][s] = 0
    BY <2>1
  <2> DEFINE z == [t \in SUBSET D |-> 0]
  <2>3. \A s \in SUBSET D : Cardinality(s) \leq 0 => z[s] = Value(z, s)
    BY <2>1
  <2> HIDE DEF z
  <2> QED BY <2>3
<1>3. ASSUME NEW n \in Nat, Upto(n) PROVE Upto(n + 1)
  <2>1. PICK g : \A s \in SUBSET D : Cardinality(s) \leq n => g[s] = Value(g, s)
    BY <1>3
  <2> DEFINE h == [s \in SUBSET D |-> Value(g, s)]
  <2>2. ASSUME NEW s \in SUBSET D, Cardinality(s) \leq n + 1
        PROVE  h[s] = Value(h, s)
    <3>1. CASE s = {}
      BY <3>1
    <3>2. CASE s # {}
      <4> DEFINE t == s \ {Pick(s)}
      <4>1. t \in SUBSET D /\ Cardinality(t) = Cardinality(s) - 1
        BY <1>1, <3>2, PickIn, FS_RemoveElement
      <4>2. Cardinality(t) \leq n
        BY <1>1, <2>2, <4>1
      <4> HIDE DEF t
      <4>3. g[t] = Value(g, t)
        BY <2>1, <4>1, <4>2
      <4>4. h[t] = g[t]
        BY <4>1, <4>3
      <4>5. h[s] = f[Pick(s)] + g[t]
        BY <3>2 DEF t
      <4> HIDE DEF h
      <4> QED BY <3>2, <4>4, <4>5 DEF t
    <3> QED BY <3>1, <3>2
  <2> HIDE DEF h
  <2> QED BY <2>2
<1> HIDE DEF Upto
<1>4. \A n \in Nat : Upto(n)
  <2> SUFFICES ASSUME B # {} PROVE FALSE
    OBVIOUS
  <2>1. B \in SUBSET Nat
    OBVIOUS
  <2>2. PICK m \in B : \A n \in B : m \leq n
    BY <2>1, Least
  <2>3. m # 0 /\ m \in Nat
    BY <1>2, <2>2
  <2>4. m - 1 \in Nat /\ ~(m \leq m - 1)
    BY <2>3
  <2>5. Upto(m - 1)
    BY <2>2, <2>4
  <2>6. Upto((m - 1) + 1)
    BY <1>3, <2>4, <2>5
  <2>7. (m - 1) + 1 = m
    BY <2>3
  <2> QED BY <2>6, <2>7
<1>5. PICK g : \A s \in SUBSET D : Cardinality(s) \leq Cardinality(D) => g[s] = Value(g, s)
  <2>1. Upto(Cardinality(D))
    BY <1>4, FS_CardinalityType
  <2> QED BY <2>1 DEF Upto
<1>6. \A s \in SUBSET D : g[s] = Value(g, s)
  BY <1>5, FS_Subset
<1> DEFINE h == [s \in SUBSET D |-> g[s]]
<1>7. ASSUME NEW s \in SUBSET D PROVE h[s] = Value(h, s)
  <2>1. CASE s = {}
    BY <1>6, <2>1
  <2>2. CASE s # {}
    <3>1. s \ {Pick(s)} \in SUBSET D
      OBVIOUS
    <3>2. h[s] = g[s] /\ h[s \ {Pick(s)}] = g[s \ {Pick(s)}]
      BY <3>1
    <3> HIDE DEF h
    <3> QED BY <1>6, <2>2, <3>2
  <2> QED BY <2>1, <2>2
<1>8. h = [s \in SUBSET D |-> h[s]]
  OBVIOUS
<1> HIDE DEF h
<1>9. IsSum(h, f, D)
  BY <1>7, <1>8 DEF IsSum
<1> QED BY <1>9

\* A sum of natural numbers is one, and no summand exceeds it.
LEMMA SumFacts ==
    ASSUME NEW D, IsFiniteSet(D), NEW f \in [D -> Nat], NEW g, IsSum(g, f, D)
    PROVE  \A s \in SUBSET D : g[s] \in Nat /\ \A x \in s : f[x] \leq g[s]
<1> DEFINE G == {s \in SUBSET D : g[s] \in Nat /\ \A x \in s : f[x] \leq g[s]}
<1>1. ASSUME NEW s \in SUBSET D, \A x \in s : s \ {x} \in G
      PROVE  s \in G
  <2>1. CASE s = {}
    BY <2>1 DEF IsSum
  <2>2. CASE s # {}
    <3>1. Pick(s) \in s
      BY <2>2, PickIn
    <3>2. PICK t \in G : t = s \ {Pick(s)}
      BY <1>1, <3>1
    <3>3. g[s] = f[Pick(s)] + g[t]
      BY <2>2, <3>2 DEF IsSum
    <3>4. f[Pick(s)] \in Nat /\ g[t] \in Nat
      BY <3>1, <3>2
    <3>5. \A x \in s : f[x] \in Nat /\ (f[x] \leq g[t] \/ x = Pick(s))
      BY <3>2
    <3>6. g[s] \in Nat /\ \A x \in s : f[x] \leq g[s]
      BY <3>3, <3>4, <3>5
    <3> QED BY <3>6
  <2> QED BY <2>1, <2>2
<1> HIDE DEF G
<1>2. \A s \in SUBSET D : s \in G
  BY <1>1, SubsetInduction
<1> QED BY <1>2 DEF G

\* There is no other.
LEMMA SumUnique ==
    ASSUME NEW D, IsFiniteSet(D), NEW f, NEW g, IsSum(g, f, D), NEW h, IsSum(h, f, D)
    PROVE  g = h
<1> DEFINE G == {s \in SUBSET D : g[s] = h[s]}
<1>1. ASSUME NEW s \in SUBSET D, \A x \in s : s \ {x} \in G
      PROVE  s \in G
  <2>1. CASE s = {}
    BY <2>1 DEF IsSum
  <2>2. CASE s # {}
    <3>1. Pick(s) \in s
      BY <2>2, PickIn
    <3>2. PICK t \in G : t = s \ {Pick(s)}
      BY <1>1, <3>1
    <3>3. g[s] = f[Pick(s)] + g[t] /\ h[s] = f[Pick(s)] + h[t]
      BY <2>2, <3>2 DEF IsSum
    <3> QED BY <3>2, <3>3
  <2> QED BY <2>1, <2>2
<1> HIDE DEF G
<1>2. \A s \in SUBSET D : s \in G
  BY <1>1, SubsetInduction
<1>3. /\ g = [s \in SUBSET D |-> g[s]] /\ h = [s \in SUBSET D |-> h[s]]
  BY DEF IsSum
<1>4. \A s \in SUBSET D : g[s] = h[s]
  BY <1>2 DEF G
<1> HIDE DEF G
<1> QED BY <1>3, <1>4

\* What MapThenSumSet adds up, of a function and of the prices in a token.
LEMMA MapSum ==
    ASSUME NEW D, IsFiniteSet(D), NEW f \in [D -> Nat], NEW g, IsSum(g, f, D)
    PROVE  MapThenSumSet(LAMBDA c : f[c], D) = g[D]
<1> DEFINE Is(i) == i = [s \in SUBSET D |->
                          IF s = {} THEN 0
                          ELSE f[CHOOSE x \in s : TRUE] + i[s \ {CHOOSE x \in s : TRUE}]]
           iter == CHOOSE i : Is(i)
<1>1. \A i : Is(i) <=> IsSum(i, f, D)
  BY DEF IsSum, Pick
<1> HIDE DEF Is
<1>2. Is(iter)
  BY <1>1
<1>3. iter = g
  BY <1>1, <1>2, SumUnique
<1>4. MapThenSumSet(LAMBDA c : f[c], D) = iter[D]
  BY DEF MapThenSumSet, MapThenFoldSet, Is
<1> QED BY <1>3, <1>4

LEMMA PriceSum ==
    ASSUME NEW D, IsFiniteSet(D), NEW t, NEW f \in [D -> Nat],
           \A c \in D : Price(c, t) = f[c], NEW g, IsSum(g, f, D)
    PROVE  MapThenSumSet(LAMBDA c : Price(c, t), D) = g[D]
<1> DEFINE Is(i) == i = [s \in SUBSET D |->
                          IF s = {} THEN 0
                          ELSE Price(CHOOSE x \in s : TRUE, t) + i[s \ {CHOOSE x \in s : TRUE}]]
           iter == CHOOSE i : Is(i)
<1>1. \A i : Is(i) <=> IsSum(i, f, D)
  <2>1. \A s \in SUBSET D : s # {} => Price(Pick(s), t) = f[Pick(s)]
    BY PickIn
  <2>2. ASSUME NEW i
        PROVE  [s \in SUBSET D |->
                  IF s = {} THEN 0 ELSE Price(Pick(s), t) + i[s \ {Pick(s)}]]
               = [s \in SUBSET D |->
                    IF s = {} THEN 0 ELSE f[Pick(s)] + i[s \ {Pick(s)}]]
    BY <2>1
  <2>3. \A i : Is(i) <=>
          i = [s \in SUBSET D |->
                 IF s = {} THEN 0 ELSE Price(Pick(s), t) + i[s \ {Pick(s)}]]
    BY DEF Pick
  <2> HIDE DEF Is
  <2> QED BY <2>2, <2>3 DEF IsSum
<1> HIDE DEF Is
<1>2. Is(iter)
  BY <1>1
<1>3. iter = g
  BY <1>1, <1>2, SumUnique
<1>4. MapThenSumSet(LAMBDA c : Price(c, t), D) = iter[D]
  BY DEF MapThenSumSet, MapThenFoldSet, Is
<1> QED BY <1>3, <1>4
-------------------------------------------------------------------------------
(* The scan of the networks.                                               *)

\* A scan that ends says whether one of the networks has the address.
LEMMA ScanFinds ==
    ASSUME NEW c \in Containers, NEW a \in Addresses, Scan(c, a) # "throws"
    PROVE  /\ Scan(c, a) \in {"yes", "no"}
           /\ Scan(c, a) = "yes" <=>
                \E n \in DOMAIN Config[c].allowed_ips :
                    LET network == Config[c].allowed_ips[n]
                    IN  a.v4 = network.v4 /\ a.number \in network.first .. network.last
<1> DEFINE networks == Config[c].allowed_ips
           Mismatch(i) == networks[i].v4 # a.v4
           decisive == {i \in DOMAIN networks : Mismatch(i) \/ Covers(networks[i], a)}
<1>1. Scan(c, a) = CASE decisive = {} -> "no"
                     [] decisive # {} /\ Mismatch(Min(decisive)) -> "throws"
                     [] OTHER -> "yes"
  BY DEF Scan
<1>2. networks \in Seq([v4 : BOOLEAN, first : Nat, last : Nat]) /\ a.number \in Nat
  BY GuardianAssumption
<1>3. \A n \in DOMAIN networks :
        /\ n \in Nat
        /\ Covers(networks[n], a) <=> a.number \in networks[n].first .. networks[n].last
  BY <1>2 DEF Covers
<1>4. CASE decisive = {}
  BY <1>1, <1>3, <1>4
<1>5. CASE decisive # {}
  <2>1. Min(decisive) \in decisive
    BY <1>3, <1>5, Least
  <2>2. PICK n \in DOMAIN networks : n = Min(decisive)
    BY <2>1
  <2>3. ~Mismatch(n) /\ Covers(networks[n], a) /\ Scan(c, a) = "yes"
    BY <1>1, <1>5, <2>1, <2>2
  <2> QED BY <1>3, <2>3
<1> QED BY <1>4, <1>5

\* A scan that goes through all networks has met none of the other version.
LEMMA NoVersionPassed ==
    ASSUME NEW c \in Containers, NEW a \in Addresses, Scan(c, a) = "no",
           NEW n \in DOMAIN Config[c].allowed_ips
    PROVE  Config[c].allowed_ips[n].v4 = a.v4
BY DEF Scan
-------------------------------------------------------------------------------
(* The cache of a container.                                               *)

\* Each address is remembered once, as what a scan of the networks says of it.
CacheGood(c, cache) ==
    /\ cache \in Seq(Entry)
    /\ Len(cache) \leq CacheSize
    /\ \A i, j \in DOMAIN cache : cache[i].number = cache[j].number => i = j
    /\ \A i \in DOMAIN cache : \E a \in Addresses :
         /\ a.number = cache[i].number
         /\ Scan(c, a) = IF cache[i].allowed THEN "yes" ELSE "no"

\* What is remembered of an address was found out about it, or about another one
\* with its number.
LEMMA RecalledScan ==
    ASSUME NEW c \in Containers, NEW cache, CacheGood(c, cache), NEW a \in Addresses,
           IsCached(cache, a)
    PROVE  \E b \in Addresses : b.number = a.number /\ Recalled(cache, a) = Scan(c, b)
<1>1. PICK i \in DOMAIN cache : i = EntryOf(cache, a) /\ cache[i].number = a.number
  BY DEF IsCached, EntryOf
<1>2. PICK b \in Addresses : /\ b.number = cache[i].number
                             /\ Scan(c, b) = IF cache[i].allowed THEN "yes" ELSE "no"
  BY DEF CacheGood
<1>3. Recalled(cache, a) = Scan(c, b)
  BY <1>1, <1>2 DEF Recalled
<1> QED BY <1>1, <1>2, <1>3

\* The first network throws at every address of the other version.
LEMMA ScansOneVersion ==
    ASSUME NEW c \in Containers, Config[c].allowed_ips # <<>>,
           NEW a \in Addresses, Scan(c, a) # "throws",
           NEW b \in Addresses, Scan(c, b) # "throws"
    PROVE  a.v4 = b.v4
<1> DEFINE networks == Config[c].allowed_ips
           Mismatch(x, i) == networks[i].v4 # x.v4
           decisive(x) == {i \in DOMAIN networks : Mismatch(x, i) \/ Covers(networks[i], x)}
<1>1. networks \in Seq([v4 : BOOLEAN, first : Nat, last : Nat]) /\ networks # <<>>
  BY GuardianAssumption
<1>2. 1 \in DOMAIN networks /\ DOMAIN networks \subseteq Nat /\ \A i \in DOMAIN networks : 1 \leq i
  BY <1>1
<1> HIDE DEF networks
<1>3. ASSUME NEW x \in Addresses, Mismatch(x, 1) PROVE Scan(c, x) = "throws"
  <2>1. decisive(x) \in SUBSET Nat /\ 1 \in decisive(x) /\ \A i \in decisive(x) : 1 \leq i
    BY <1>2, <1>3
  <2>2. Min(decisive(x)) = 1
    <3>1. Min(decisive(x)) \in decisive(x) /\ Min(decisive(x)) \leq 1
      BY <2>1, Least
    <3> QED BY <2>1, <3>1
  <2>3. Scan(c, x) = CASE decisive(x) = {} -> "no"
                       [] decisive(x) # {} /\ Mismatch(x, Min(decisive(x))) -> "throws"
                       [] OTHER -> "yes"
    BY DEF Scan, networks
  <2> QED BY <1>3, <2>1, <2>2, <2>3
<1> QED BY <1>3

\* What a scan finds out is answered, whatever is remembered.
LEMMA AnswerFromScratch ==
    ASSUME NEW c \in Containers, NEW cache, CacheGood(c, cache), NEW a \in Addresses,
           IsAllowedIp(c, <<>>, a) # "throws"
    PROVE  IsAllowedIp(c, cache, a) = IsAllowedIp(c, <<>>, a)
<1>1. ~IsCached(<<>>, a)
  BY DEF IsCached
<1>2. CASE Config[c].allowed_ips # <<>> /\ IsCached(cache, a)
  <2>1. PICK b \in Addresses : b.number = a.number /\ Recalled(cache, a) = Scan(c, b)
    BY <1>2, RecalledScan
  <2>2. Scan(c, a) # "throws" /\ IsAllowedIp(c, <<>>, a) = Scan(c, a)
    BY <1>1, <1>2 DEF IsAllowedIp
  <2>3. Scan(c, b) # "throws"
    BY <2>1 DEF Recalled
  <2>4. a.v4 = b.v4
    BY <1>2, <2>2, <2>3, ScansOneVersion
  <2>5. Scan(c, a) = Scan(c, b)
    <3>1. \A network : Covers(network, a) <=> Covers(network, b)
      BY <2>1 DEF Covers
    <3> QED BY <2>2, <2>3, <2>4, <2>1, <3>1, ScanFinds
  <2> QED BY <1>2, <2>1, <2>2, <2>5 DEF IsAllowedIp
<1>3. CASE ~(Config[c].allowed_ips # <<>> /\ IsCached(cache, a))
  BY <1>1, <1>3 DEF IsAllowedIp
<1> QED BY <1>2, <1>3

\* Where memory answers and a scan throws, an address of the same number and the
\* other version was looked up.
LEMMA AnswerForOther ==
    ASSUME NEW c \in Containers, NEW cache, CacheGood(c, cache), NEW a \in Addresses,
           IsAllowedIp(c, cache, a) # IsAllowedIp(c, <<>>, a)
    PROVE  \E b \in Addresses : b.number = a.number /\ b.v4 # a.v4
<1>1. ~IsCached(<<>>, a) /\ Config[c].allowed_ips # <<>> /\ IsCached(cache, a)
  BY DEF IsCached, IsAllowedIp
<1>2. PICK b \in Addresses : b.number = a.number /\ Recalled(cache, a) = Scan(c, b)
  BY <1>1, RecalledScan
<1>3. Scan(c, a) # Scan(c, b)
  BY <1>1, <1>2 DEF IsAllowedIp
<1>4. b.v4 # a.v4
  <2>1. SUFFICES ASSUME b.v4 = a.v4 PROVE Scan(c, a) = Scan(c, b)
    BY <1>3
  <2>2. \A network : Covers(network, a) <=> Covers(network, b)
    BY <1>2 DEF Covers
  <2> QED BY <2>1, <2>2 DEF Scan
<1> QED BY <1>2, <1>4

\* The entry of an address is taken out and no other.
LEMMA WithoutKeeps ==
    ASSUME NEW c \in Containers, NEW cache, CacheGood(c, cache), NEW a \in Addresses
    PROVE  /\ CacheGood(c, Without(cache, a))
           /\ ~IsCached(Without(cache, a), a)
<1>1. CASE ~IsCached(cache, a)
  BY <1>1 DEF Without
<1>2. CASE IsCached(cache, a)
  <2>1. PICK i \in DOMAIN cache : i = EntryOf(cache, a) /\ cache[i].number = a.number
    BY <1>2 DEF IsCached, EntryOf
  <2> DEFINE s == SubSeq(cache, 1, i - 1)
             t == SubSeq(cache, i + 1, Len(cache))
             rest == s \o t
  <2>2. /\ cache \in Seq(Entry) /\ Len(cache) \in Nat /\ DOMAIN cache = 1 .. Len(cache)
        /\ \A j \in 1 .. Len(cache) : cache[j] \in Entry
    BY DEF CacheGood
  <2>3. i \in 1 .. Len(cache)
    BY <2>1, <2>2
  <2>4. /\ s \in Seq(Entry) /\ Len(s) = i - 1
        /\ \A j \in 1 .. i - 1 : s[j] = cache[j]
    BY <2>2, <2>3
  <2>5. /\ t \in Seq(Entry) /\ Len(t) = Len(cache) - i
        /\ \A j \in 1 .. Len(cache) - i : t[j] = cache[i + j]
    <3>1. /\ i + 1 \in Int /\ Len(cache) \in Int
          /\ \A j \in i + 1 .. Len(cache) : cache[j] \in Entry
      BY <2>2, <2>3
    <3>2. /\ t \in Seq(Entry)
          /\ Len(t) = IF i + 1 \leq Len(cache) THEN Len(cache) - (i + 1) + 1 ELSE 0
          /\ \A j \in 1 .. Len(cache) - (i + 1) + 1 : t[j] = cache[(i + 1) + j - 1]
      BY <3>1, SubSeqProperties
    <3> HIDE DEF t
    <3>3. Len(t) = Len(cache) - i
      BY <2>2, <2>3, <3>2
    <3>4. ASSUME NEW j \in 1 .. Len(cache) - i PROVE t[j] = cache[i + j]
      <4>1. j \in 1 .. Len(cache) - (i + 1) + 1 /\ (i + 1) + j - 1 = i + j
        BY <2>2, <2>3
      <4> QED BY <3>2, <4>1
    <3> QED BY <3>2, <3>3, <3>4
  <2> HIDE DEF s, t
  <2>6. /\ rest \in Seq(Entry) /\ Len(rest) = Len(cache) - 1
        /\ \A j \in 1 .. Len(s) + Len(t) :
             rest[j] = IF j \leq Len(s) THEN s[j] ELSE t[j - Len(s)]
    <3>1. /\ s \o t \in Seq(Entry) /\ Len(s \o t) = Len(s) + Len(t)
          /\ \A j \in 1 .. Len(s) + Len(t) :
               (s \o t)[j] = IF j \leq Len(s) THEN s[j] ELSE t[j - Len(s)]
      BY <2>4, <2>5, ConcatProperties
    <3> QED BY <2>2, <2>3, <2>4, <2>5, <3>1
  <2>7. /\ DOMAIN rest = 1 .. Len(cache) - 1
        /\ \A j \in 1 .. Len(cache) - 1 :
             rest[j] = IF j < i THEN cache[j] ELSE cache[j + 1]
    <3> HIDE DEF rest
    <3>1. DOMAIN rest = 1 .. Len(cache) - 1
      BY <2>6
    <3>2. ASSUME NEW j \in 1 .. Len(cache) - 1, j < i PROVE rest[j] = cache[j]
      <4>1. j \in 1 .. (i - 1) + (Len(cache) - i) /\ j \in 1 .. i - 1 /\ j \leq i - 1
        BY <2>2, <2>3, <3>2
      <4> QED BY <2>4, <2>5, <2>6, <4>1
    <3>3. ASSUME NEW j \in 1 .. Len(cache) - 1, ~(j < i) PROVE rest[j] = cache[j + 1]
      <4>1. rest[j] = t[j - (i - 1)] /\ j - (i - 1) \in 1 .. Len(cache) - i
        <5>1. j \in Int /\ i \in Int /\ Len(cache) \in Int /\ ~(j \leq i - 1)
              /\ 1 \leq j /\ j \leq Len(cache) - 1 /\ i \leq Len(cache)
          BY <2>2, <2>3, <3>3
        <5>2. j \in 1 .. (i - 1) + (Len(cache) - i) /\ j - (i - 1) \in 1 .. Len(cache) - i
          BY <5>1
        <5> QED BY <2>4, <2>5, <2>6, <5>1, <5>2
      <4> QED BY <2>2, <2>3, <2>5, <4>1
    <3> QED BY <3>1, <3>2, <3>3
  <2> HIDE DEF rest
  <2>8. \A j \in DOMAIN rest : \E k \in DOMAIN cache \ {i} :
          rest[j] = cache[k] /\ k = IF j < i THEN j ELSE j + 1
    BY <2>2, <2>3, <2>7
  <2>9. Without(cache, a) = rest
    BY <1>2, <2>1 DEF Without, RemoveAt, rest, s, t
  <2>10. \A j, k \in DOMAIN rest : rest[j].number = rest[k].number => j = k
    BY <2>2, <2>3, <2>7, <2>8 DEF CacheGood
  <2>11. \A j \in DOMAIN rest : rest[j].number # a.number
    BY <2>1, <2>8 DEF CacheGood
  <2>12. \A j \in DOMAIN rest : \E b \in Addresses :
           /\ b.number = rest[j].number
           /\ Scan(c, b) = IF rest[j].allowed THEN "yes" ELSE "no"
    BY <2>8 DEF CacheGood
  <2>13. Len(rest) \leq CacheSize
    BY <2>2, <2>6, GuardianAssumption DEF CacheGood
  <2> QED BY <2>6, <2>9, <2>10, <2>11, <2>12, <2>13 DEF CacheGood, IsCached
<1> QED BY <1>1, <1>2

\* Filling up, and making room, a cache stays good.
LEMMA RememberedKeeps ==
    ASSUME NEW c \in Containers, NEW cache, CacheGood(c, cache), NEW a \in Addresses
    PROVE  CacheGood(c, Remembered(c, cache, a))
<1> DEFINE answer == IsAllowedIp(c, cache, a)
           rest == Without(cache, a)
           entry == [number |-> a.number, allowed |-> answer = "yes"]
           full == Append(rest, entry)
<1>1. CASE Config[c].allowed_ips = <<>> \/ answer = "throws"
  BY <1>1 DEF Remembered
<1>2. CASE ~(Config[c].allowed_ips = <<>> \/ answer = "throws")
  <2>1. CacheGood(c, rest) /\ ~IsCached(rest, a)
    BY WithoutKeeps
  <2>2. PICK other \in Addresses : other.number = a.number /\ answer = Scan(c, other)
    <3>1. CASE IsCached(cache, a)
      BY <1>2, <3>1, RecalledScan DEF IsAllowedIp
    <3>2. CASE ~IsCached(cache, a)
      BY <1>2, <3>2 DEF IsAllowedIp
    <3> QED BY <3>1, <3>2
  <2>3. entry \in Entry /\ Scan(c, other) = IF entry.allowed THEN "yes" ELSE "no"
    BY <1>2, <2>2, ScanFinds DEF Entry
  <2>4. entry.number = a.number
    OBVIOUS
  <2>5. Remembered(c, cache, a) = Capped(full)
    BY <1>2 DEF Remembered
  <2> HIDE DEF rest, entry, answer
  <2>6. /\ rest \in Seq(Entry) /\ Len(rest) \in Nat /\ DOMAIN rest = 1 .. Len(rest)
        /\ Len(rest) \leq CacheSize
    BY <2>1 DEF CacheGood
  <2>7. /\ full \in Seq(Entry) /\ Len(full) = Len(rest) + 1
        /\ DOMAIN full = 1 .. Len(rest) + 1
        /\ full[Len(rest) + 1] = entry /\ \A i \in DOMAIN rest : full[i] = rest[i]
    BY <2>3, <2>6
  <2> HIDE DEF full
  <2>8. \A i \in DOMAIN full : i \in DOMAIN rest \/ i = Len(rest) + 1
    BY <2>6, <2>7
  <2>9. \A i, j \in DOMAIN full : full[i].number = full[j].number => i = j
    BY <2>1, <2>4, <2>7, <2>8 DEF CacheGood, IsCached
  <2>10. \A i \in DOMAIN full : \E b \in Addresses :
           /\ b.number = full[i].number
           /\ Scan(c, b) = IF full[i].allowed THEN "yes" ELSE "no"
    BY <2>1, <2>2, <2>3, <2>4, <2>7, <2>8 DEF CacheGood
  <2>11. CASE Len(full) \leq CacheSize
    <3>1. Capped(full) = full
      BY <2>6, <2>7, <2>11, GuardianAssumption DEF Capped
    <3> QED BY <2>5, <2>7, <2>9, <2>10, <2>11, <3>1 DEF CacheGood
  <2>12. CASE ~(Len(full) \leq CacheSize)
    <3> DEFINE capped == Tail(full)
    <3>1. Capped(full) = capped
      BY <2>6, <2>7, <2>12, GuardianAssumption DEF Capped
    <3>2. /\ capped \in Seq(Entry) /\ Len(capped) = Len(rest)
          /\ \A i \in 1 .. Len(capped) : capped[i] = full[i + 1]
      <4>1. full # <<>>
        BY <2>6, <2>7
      <4> QED BY <2>6, <2>7, <4>1, HeadTailProperties
    <3> HIDE DEF capped
    <3>3. /\ DOMAIN capped = 1 .. Len(rest)
          /\ \A i \in DOMAIN capped : i + 1 \in DOMAIN full /\ capped[i] = full[i + 1]
      BY <2>6, <2>7, <3>2
    <3>4. \A i, j \in DOMAIN capped : capped[i].number = capped[j].number => i = j
      <4>1. SUFFICES ASSUME NEW i \in DOMAIN capped, NEW j \in DOMAIN capped,
                            capped[i].number = capped[j].number
                     PROVE  i = j
        OBVIOUS
      <4>2. i + 1 = j + 1
        BY <2>9, <3>3, <4>1
      <4> QED BY <2>6, <3>3, <4>2
    <3>5. \A i \in DOMAIN capped : \E b \in Addresses :
            /\ b.number = capped[i].number
            /\ Scan(c, b) = IF capped[i].allowed THEN "yes" ELSE "no"
      BY <2>10, <3>3
    <3> QED BY <2>5, <2>6, <3>1, <3>2, <3>4, <3>5 DEF CacheGood
  <2> QED BY <2>11, <2>12
<1> QED BY <1>1, <1>2
-------------------------------------------------------------------------------
(* The verdicts.                                                           *)

Runnable(m) ==
    /\ Len(m.containers) > 0
    /\ Range(m.containers) \subseteq Containers
    /\ Config[m.containers[1]].external
    /\ m.requires_proof => Config[m.containers[Len(m.containers)]].generates_proofs

LEMMA OffchainRuns ==
    ASSUME NEW m \in OffchainJobs, NEW known, OffchainVerdict(m, known) = "accepted"
    PROVE  Runnable(m)
<1>1. PICK n \in 0 .. MaxPipeline : m.containers \in [1 .. n -> Containers \cup {Unknown}]
  BY DEF OffchainJobs, Pipelines
<1>2. /\ m.containers # <<>> /\ Refused(m, known) = {}
      /\ WellFormed(m.containers, m.requires_proof)
  BY DEF OffchainVerdict, Verdict
<1>3. n > 0 /\ Len(m.containers) = n
  BY <1>1, <1>2, GuardianAssumption
<1>4. \A i \in DOMAIN m.containers : m.containers[i] \in Containers
  BY <1>2 DEF Refused, Supported
<1> QED BY <1>1, <1>2, <1>3, <1>4 DEF Runnable, WellFormed, Last, Range

\* What the lookup answers with is a sequence of configured containers.
LEMMA LookupRuns ==
    ASSUME NEW m, m.containers \in LookupResults, m.containers # <<>>,
           WellFormed(m.containers, m.requires_proof)
    PROVE  Runnable(m)
<1>1. PICK n \in 0 .. Cardinality(Containers) : m.containers \in [1 .. n -> Containers]
  BY DEF LookupResults
<1>2. n > 0 /\ Len(m.containers) = n
  <2>1. n \in Int /\ n \geq 0
    BY <1>1
  <2>2. n # 0
    BY <1>1
  <2> QED BY <1>1, <2>1, <2>2
<1> QED BY <1>1, <1>2 DEF Runnable, WellFormed, Last, Range

LEMMA DelegatedRuns ==
    ASSUME NEW m \in DelegatedSubscriptions, DelegatedVerdict(m) = "accepted"
    PROVE  Runnable(m)
<1>1. m.containers # <<>> /\ WellFormed(m.containers, m.requires_proof)
  BY DEF DelegatedVerdict, Verdict
<1> QED BY <1>1, LookupRuns DEF DelegatedSubscriptions

LEMMA CreatedRuns ==
    ASSUME NEW m \in CreatedSubscriptions, CreatedVerdict(m) = "accepted"
    PROVE  Runnable(m)
<1>1. m.containers # <<>> /\ WellFormed(m.containers, m.requires_proof)
  BY DEF CreatedVerdict, Verdict
<1> QED BY <1>1, LookupRuns DEF CreatedSubscriptions

\* A payment that covers the prices can be shared out: each container gets its price.
LEMMA PaymentShared ==
    ASSUME NEW m \in CreatedSubscriptions, MatchesPaymentRequirements(m)
    PROVE  \E share \in [ToSet(m.containers) -> 0 .. m.payment_amount] :
             /\ \A c \in DOMAIN share :
                  /\ m.payment_token \in DOMAIN Config[c].accepted_payments
                  /\ share[c] \geq Config[c].accepted_payments[m.payment_token]
             /\ MapThenSumSet(LAMBDA c : share[c], DOMAIN share) \leq m.payment_amount
<1> DEFINE D == ToSet(m.containers)
           token == m.payment_token
           share == [c \in D |-> Price(c, token)]
<1>1. IsFiniteSet(D) /\ D \subseteq Containers
  <2>1. D \subseteq Containers
    BY DEF CreatedSubscriptions, LookupResults, ToSet
  <2> QED BY <2>1, FS_Subset, GuardianAssumption
<1>2. \A c \in D : token \in DOMAIN Config[c].accepted_payments /\ Price(c, token) \in Nat
  BY <1>1, GuardianAssumption DEF MatchesPaymentRequirements, Sells, Price, Range
<1>3. m.payment_amount \in Nat
  BY GuardianAssumption DEF CreatedSubscriptions
<1>4. share \in [D -> Nat] /\ \A c \in D : share[c] = Price(c, token)
  BY <1>2
<1> HIDE DEF D, share, token
<1>5. PICK g : IsSum(g, share, D)
  BY <1>1, SumExists
<1>6. /\ MapThenSumSet(LAMBDA c : share[c], D) = g[D]
      /\ MapThenSumSet(LAMBDA c : Price(c, token), D) = g[D]
  BY <1>1, <1>4, <1>5, MapSum, PriceSum
<1>7. MapThenSumSet(LAMBDA c : Price(c, token), D) \leq m.payment_amount
  BY DEF MatchesPaymentRequirements, MinPayment, D, token
<1>8. g[D] \in Nat /\ g[D] \leq m.payment_amount /\ \A c \in D : share[c] \leq g[D]
  BY <1>1, <1>3, <1>4, <1>5, <1>6, <1>7, SumFacts
<1>9. share \in [D -> 0 .. m.payment_amount] /\ DOMAIN share = D
  BY <1>3, <1>4, <1>8
<1>10. \A c \in D : /\ token \in DOMAIN Config[c].accepted_payments
                     /\ share[c] \geq Config[c].accepted_payments[token]
  BY <1>2, <1>4 DEF Price
<1> QED BY <1>6, <1>8, <1>9, <1>10 DEF D, token

\* A job is judged as from scratch, or a scan would throw at its address while
\* another one of its number is remembered.
LEMMA VerdictFromScratch ==
    ASSUME NEW m \in OffchainJobs, NEW known,
           \A c \in Containers : CacheGood(c, known[c])
    PROVE  LET fresh == OffchainVerdict(m, [c \in Containers |-> <<>>]) IN
           \/ OffchainVerdict(m, known) = fresh
           \/ /\ fresh = "throws"
              /\ \E b \in Addresses : b.number = m.ip.number /\ b.v4 # m.ip.v4
<1> DEFINE empty == [c \in Containers |-> <<>>]
           Answer(c) == IsAllowedIp(c, known[c], m.ip)
           Scratch(c) == IsAllowedIp(c, empty[c], m.ip)
           refused == Refused(m, known)
           all == Refused(m, empty)
<1>1. m.ip \in Addresses /\ \A c \in Containers : empty[c] = <<>>
  BY DEF OffchainJobs
<1>2. \A c \in Containers : Scratch(c) # "throws" => Answer(c) = Scratch(c)
  BY <1>1, AnswerFromScratch
<1>3. ASSUME \A c \in Containers : Answer(c) = Scratch(c)
      PROVE  OffchainVerdict(m, known) = OffchainVerdict(m, empty)
  <2>1. refused = all
    BY <1>3 DEF Refused, Supported
  <2> DEFINE last == m.containers[Min(refused)]
  <2>2. Supported(last) => Answer(last) = Scratch(last)
    BY <1>3 DEF Supported
  <2> HIDE DEF empty
  <2> QED BY <2>1, <2>2 DEF OffchainVerdict
<1>4. ASSUME NEW c \in Containers, Answer(c) # Scratch(c)
      PROVE  \E b \in Addresses : b.number = m.ip.number /\ b.v4 # m.ip.v4
  BY <1>1, <1>4, AnswerForOther
<1>5. OffchainVerdict(m, empty) # "throws" => OffchainVerdict(m, known) = OffchainVerdict(m, empty)
  <2> SUFFICES ASSUME OffchainVerdict(m, empty) # "throws"
               PROVE  OffchainVerdict(m, known) = OffchainVerdict(m, empty)
    OBVIOUS
  <2> HIDE DEF empty
  <2>1. refused \subseteq all /\ all \in SUBSET Nat
    <3>1. DOMAIN m.containers \subseteq Nat
      BY DEF OffchainJobs, Pipelines
    <3> QED BY <1>2, <3>1 DEF Refused, Supported
  <2>2. CASE m.containers = <<>>
    BY <2>2 DEF OffchainVerdict
  <2>3. CASE m.containers # <<>> /\ all = {}
    BY <2>1, <2>3 DEF OffchainVerdict
  <2>4. CASE m.containers # <<>> /\ all # {}
    <3> DEFINE last == m.containers[Min(all)]
    <3>1. Supported(last) /\ Scratch(last) = "no" /\ OffchainVerdict(m, empty) = "rejected"
      BY <2>4 DEF OffchainVerdict
    <3>2. Answer(last) = "no"
      BY <1>2, <3>1 DEF Supported
    <3>3. Min(all) \in all /\ \A i \in all : Min(all) \leq i
      BY <2>1, <2>4, Least
    <3>4. Min(all) \in refused
      BY <3>2, <3>3 DEF Refused
    <3>5. Min(refused) = Min(all)
      <4>1. refused \in SUBSET Nat
        BY <2>1
      <4> HIDE DEF refused, all
      <4>2. Min(refused) \in refused /\ Min(refused) \leq Min(all)
        BY <3>4, <4>1, Least
      <4>3. Min(refused) \in Nat /\ Min(all) \in Nat /\ Min(all) \leq Min(refused)
        BY <2>1, <3>3, <4>2
      <4> QED BY <4>2, <4>3
    <3> QED BY <2>4, <3>1, <3>2, <3>4, <3>5 DEF OffchainVerdict
  <2> QED BY <2>2, <2>3, <2>4
<1>6. CASE \A c \in Containers : Answer(c) = Scratch(c)
  BY <1>3, <1>6
<1>7. CASE \E c \in Containers : Answer(c) # Scratch(c)
  <2>1. \E b \in Addresses : b.number = m.ip.number /\ b.v4 # m.ip.v4
    BY <1>4, <1>7
  <2> HIDE DEF Answer, Scratch
  <2> QED BY <1>5, <2>1 DEF empty
<1> QED BY <1>6, <1>7
-------------------------------------------------------------------------------
(* The specification.                                                      *)

GuardianInv ==
    /\ settings \in BOOLEAN \X BOOLEAN
    /\ DOMAIN caches = Containers
    /\ \A c \in Containers : CacheGood(c, caches[c])
    /\ message = None \/ message \in Messages
    /\ verdict \in Verdicts \cup {None}
    /\ message = None => verdict = None
    /\ FreshVerdict
    /\ verdict = "accepted" => Runnable(message)
    /\ verdict = "accepted" /\ message.type = "SubscriptionCreated" =>
         MatchesPaymentRequirements(message)

LEMMA MessageTypes ==
    ASSUME NEW m \in Messages
    PROVE  /\ m.type = "OffchainJob" => m \in OffchainJobs
           /\ m.type = "DelegatedSubscription" => m \in DelegatedSubscriptions
           /\ m.type = "SubscriptionCreated" => m \in CreatedSubscriptions
BY DEF Messages, OffchainJobs, DelegatedSubscriptions, CreatedSubscriptions

LEMMA OffchainKeeps ==
    ASSUME GuardianInv, ProcessOffchain
    PROVE  GuardianInv'
<1>1. message \in OffchainJobs /\ message.type = "OffchainJob" /\ message # None
  BY MessageTypes DEF GuardianInv, ProcessOffchain, Pending
<1>2. message.ip \in Addresses
  BY <1>1 DEF OffchainJobs
<1>3. DOMAIN caches' = Containers /\ \A c \in Containers : CacheGood(c, caches'[c])
  BY <1>2, RememberedKeeps DEF GuardianInv, ProcessOffchain
<1>4. verdict' = OffchainVerdict(message, caches) /\ message' = message
      /\ UNCHANGED settings
  BY DEF ProcessOffchain
<1>5. verdict' \in Verdicts
  BY <1>4 DEF OffchainVerdict, Verdict, Verdicts
<1>6. LET fresh == OffchainVerdict(message, [c \in Containers |-> <<>>]) IN
        \/ verdict' = fresh
        \/ /\ fresh = "throws"
           /\ \E b \in Addresses : b.number = message.ip.number /\ b.v4 # message.ip.v4
  BY <1>1, <1>4, VerdictFromScratch DEF GuardianInv
<1>7. FreshVerdict'
  BY <1>4, <1>6 DEF FreshVerdict
<1>8. verdict' = "accepted" => Runnable(message)'
  BY <1>1, <1>4, OffchainRuns DEF Runnable
<1> QED BY <1>1, <1>3, <1>4, <1>5, <1>7, <1>8 DEF GuardianInv, settings

LEMMA FilterKeeps ==
    ASSUME GuardianInv, ProcessDelegated \/ ProcessCreated
    PROVE  GuardianInv'
<1>1. /\ message \in Messages /\ message # None /\ message.type # "OffchainJob"
      /\ UNCHANGED <<settings, caches, message>>
      /\ \/ /\ message.type = "DelegatedSubscription" /\ verdict' = DelegatedVerdict(message)
         \/ /\ message.type = "SubscriptionCreated" /\ verdict' = CreatedVerdict(message)
  BY DEF GuardianInv, ProcessDelegated, ProcessCreated, Pending
<1>2. verdict' \in Verdicts
  BY <1>1 DEF DelegatedVerdict, CreatedVerdict, Verdict, Verdicts
<1>3. verdict' = "accepted" => Runnable(message)
  BY <1>1, MessageTypes, DelegatedRuns, CreatedRuns
<1>4. FreshVerdict' /\ (verdict' = "accepted" => Runnable(message)')
  BY <1>1, <1>3 DEF FreshVerdict, Runnable
<1>5. verdict' = "accepted" /\ message.type = "SubscriptionCreated" =>
        MatchesPaymentRequirements(message)'
  BY <1>1 DEF CreatedVerdict, Verdict, MatchesPaymentRequirements, settings
<1> QED BY <1>1, <1>2, <1>4, <1>5 DEF GuardianInv, settings

\* Whatever is configured and whatever is asked in whichever order: the caches hold
\* what a scan would find, a verdict depends on them only where a scan would throw and another
\* address of the same number was asked about, what is accepted can be run, and
\* what is taken from the chain pays every container.
THEOREM GuardianSafe ==
    Spec => [](/\ TypeOK /\ CacheFaithful /\ FreshVerdict
               /\ AcceptedIsRunnable /\ AcceptedPays)
<1>1. Init => GuardianInv
  <2>1. SUFFICES ASSUME Init PROVE GuardianInv
    OBVIOUS
  <2>2. \A c \in Containers : CacheGood(c, <<>>)
    BY GuardianAssumption DEF CacheGood
  <2> QED BY <2>1, <2>2, GuardianAssumption
          DEF Init, GuardianInv, settings, FreshVerdict, Verdicts
<1>2. GuardianInv /\ [Next]_vars => GuardianInv'
  <2>1. SUFFICES ASSUME GuardianInv, [Next]_vars PROVE GuardianInv'
    OBVIOUS
  <2>2. CASE Receive
    BY <2>1, <2>2, GuardianAssumption
       DEF Receive, GuardianInv, settings, FreshVerdict, Verdicts
  <2>3. CASE ProcessOffchain
    BY <2>1, <2>3, OffchainKeeps
  <2>4. CASE ProcessDelegated \/ ProcessCreated
    BY <2>1, <2>4, FilterKeeps
  <2>5. CASE Return
    BY <2>1, <2>5, GuardianAssumption
       DEF Return, GuardianInv, settings, FreshVerdict, Verdicts
  <2>6. CASE UNCHANGED vars
    BY <2>1, <2>6 DEF vars, GuardianInv, settings, FreshVerdict, Runnable,
                      MatchesPaymentRequirements
  <2> QED BY <2>1, <2>2, <2>3, <2>4, <2>5, <2>6 DEF Next
<1>3. GuardianInv => /\ TypeOK /\ CacheFaithful /\ FreshVerdict
                     /\ AcceptedIsRunnable /\ AcceptedPays
  <2>1. SUFFICES ASSUME GuardianInv
                 PROVE  /\ TypeOK /\ CacheFaithful /\ FreshVerdict
                        /\ AcceptedIsRunnable /\ AcceptedPays
    OBVIOUS
  <2>2. TypeOK
    BY <2>1 DEF GuardianInv, CacheGood, TypeOK
  <2>3. ASSUME NEW c \in Containers, NEW i \in DOMAIN caches[c]
        PROVE  caches[c][i].allowed <=>
                 \E a \in Addresses, n \in DOMAIN Config[c].allowed_ips :
                   /\ a.number = caches[c][i].number
                   /\ LET network == Config[c].allowed_ips[n]
                      IN  a.v4 = network.v4 /\ a.number \in network.first .. network.last
    <3>1. PICK a \in Addresses :
            /\ a.number = caches[c][i].number
            /\ Scan(c, a) = IF caches[c][i].allowed THEN "yes" ELSE "no"
      BY <2>1 DEF GuardianInv, CacheGood
    <3>2. caches[c][i].allowed \in BOOLEAN
      <4>1. caches[c] \in Seq(Entry) /\ i \in 1 .. Len(caches[c])
        BY <2>1 DEF GuardianInv, CacheGood
      <4>2. caches[c][i] \in Entry
        BY <4>1, ElementOfSeq
      <4> QED BY <4>2 DEF Entry
    <3> DEFINE networks == Config[c].allowed_ips
               Has(n, b) == /\ b.v4 = networks[n].v4
                            /\ b.number \in networks[n].first .. networks[n].last
    <3>3. Scan(c, a) = "yes" <=> \E n \in DOMAIN networks : Has(n, a)
      BY <3>1, ScanFinds
    <3>4. ASSUME NEW b \in Addresses, b.number = a.number, NEW n \in DOMAIN networks,
                 Has(n, b), Scan(c, a) # "yes"
          PROVE  FALSE
      <4>1. Scan(c, a) # "throws"
        BY <3>1
      <4>2. networks[n].v4 = a.v4
        BY <3>1, <3>4, NoVersionPassed
      <4>3. Has(n, a)
        BY <3>4, <4>2
      <4> QED BY <3>3, <3>4, <4>3
    <3> QED BY <3>1, <3>2, <3>3, <3>4
  <2>4. AcceptedIsRunnable
    BY <2>1 DEF GuardianInv, Runnable, AcceptedIsRunnable
  <2>5. AcceptedPays
    <3>1. SUFFICES ASSUME verdict = "accepted", message.type = "SubscriptionCreated"
                   PROVE  /\ message.payment_amount = 0 \/ has_payment_address
                          /\ \E share \in [ToSet(message.containers)
                                             -> 0 .. message.payment_amount] :
                               /\ \A c \in DOMAIN share :
                                    /\ message.payment_token \in
                                         DOMAIN Config[c].accepted_payments
                                    /\ share[c] \geq
                                         Config[c].accepted_payments[message.payment_token]
                               /\ MapThenSumSet(LAMBDA c : share[c], DOMAIN share)
                                    \leq message.payment_amount
      BY DEF AcceptedPays
    <3>2. /\ message \in CreatedSubscriptions
          /\ MatchesPaymentRequirements(message)
      <4>1. message # None
        BY <2>1, <3>1, GuardianAssumption DEF GuardianInv, Verdicts
      <4> QED BY <2>1, <3>1, <4>1, MessageTypes DEF GuardianInv
    <3>3. message.payment_amount = 0 \/ has_payment_address
      <4>1. message.payment_amount \in Nat
        BY <3>2, GuardianAssumption DEF CreatedSubscriptions
      <4>2. message.payment_amount > 0 => has_payment_address
        BY <3>2 DEF MatchesPaymentRequirements
      <4>3. message.payment_amount = 0 \/ message.payment_amount > 0
        BY <4>1
      <4> QED BY <4>2, <4>3
    <3> QED BY <3>2, <3>3, PaymentShared
  <2> QED BY <2>1, <2>2, <2>3, <2>4, <2>5 DEF GuardianInv, CacheFaithful
<1> QED BY <1>1, <1>2, <1>3, PTL DEF Spec
===============================================================================
