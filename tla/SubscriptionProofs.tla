-------------------------- MODULE SubscriptionProofs --------------------------
(* What the interval arithmetic guarantees, for every subscription. *)
EXTENDS Subscription, TLAPS

\* Division by a positive period is a natural number and monotone.
LEMMA DivNat ==
    ASSUME NEW a \in Nat, NEW p \in Nat, p > 0
    PROVE  a \div p \in Nat
BY SMTT(30)

LEMMA DivMonotone ==
    ASSUME NEW a \in Nat, NEW b \in Nat, NEW p \in Nat, p > 0, a \leq b
    PROVE  a \div p \leq b \div p
<1>1. a = p * (a \div p) + (a % p) /\ a % p \in 0 .. p - 1
  BY SMTT(30)
<1>2. b = p * (b \div p) + (b % p) /\ b % p \in 0 .. p - 1
  BY SMTT(30)
<1> DEFINE x == a \div p
           y == b \div p
<1>3. x \in Int /\ y \in Int
  BY DivNat
<1>4. SUFFICES ASSUME x \geq y + 1 PROVE FALSE
  BY <1>3
<1> HIDE DEF x, y
<1>5. p * x \geq p * y + p
  BY <1>3, <1>4, SMTT(30)
<1>. QED
  BY <1>1, <1>2, <1>3, <1>5, SMTT(30) DEF x, y

\* An active subscription is in an interval numbered from 1.
LEMMA IntervalPositive ==
    ASSUME NEW sub \in SubscriptionRecord, NEW now \in Nat, Active(sub, now)
    PROVE  Interval(sub, now) \in Nat \ {0}
<1>1. CASE IsCallback(sub)
  BY <1>1 DEF Interval
<1>2. CASE ~IsCallback(sub)
  <2>1. sub.period \in Nat /\ sub.period > 0 /\ now - sub.active_at \in Nat
    BY <1>2 DEF IsCallback, SubscriptionRecord, Active
  <2>. QED
    BY <1>2, <2>1, DivNat DEF Interval
<1>. QED
  BY <1>1, <1>2

\* Time never takes a subscription back to an earlier interval.
LEMMA IntervalMonotone ==
    ASSUME NEW sub \in SubscriptionRecord, NEW now \in Nat, NEW later \in Nat,
           now \leq later
    PROVE  IntervalOrZero(sub, now) \leq IntervalOrZero(sub, later)
<1>1. CASE ~Active(sub, now)
  BY <1>1, IntervalPositive DEF IntervalOrZero
<1>2. CASE Active(sub, now)
  <2>1. Active(sub, later)
    BY <1>2 DEF Active, SubscriptionRecord
  <2>2. CASE IsCallback(sub)
    BY <1>2, <2>1, <2>2 DEF IntervalOrZero, Interval
  <2>3. CASE ~IsCallback(sub)
    <3>1. /\ sub.period \in Nat /\ sub.period > 0
          /\ now - sub.active_at \in Nat /\ later - sub.active_at \in Nat
          /\ now - sub.active_at \leq later - sub.active_at
      BY <1>2, <2>1, <2>3 DEF IsCallback, SubscriptionRecord, Active
    <3>2. /\ (now - sub.active_at) \div sub.period \in Nat
          /\ (later - sub.active_at) \div sub.period \in Nat
      BY <3>1, DivNat
    <3>3. (now - sub.active_at) \div sub.period
            \leq (later - sub.active_at) \div sub.period
      BY <3>1, DivMonotone
    <3>. QED
      BY <1>2, <2>1, <2>3, <3>2, <3>3 DEF IntervalOrZero, Interval
  <2>. QED
    BY <2>2, <2>3
<1>. QED
  BY <1>1, <1>2
===============================================================================
