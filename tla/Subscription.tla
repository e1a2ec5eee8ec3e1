----------------------------- MODULE Subscription -----------------------------
(***************************************************************************)
(* The time arithmetic of a subscription (src/shared/subscription.ts).     *)
(*                                                                         *)
(* A subscription is a record of the fields the node's decisions read:     *)
(*   active_at  the second after which the subscription is active          *)
(*   period     seconds per interval, 0 for a one-shot callback            *)
(*   frequency  the number of intervals                                    *)
(*   paid       payment_amount > 0                                         *)
(*   proof      verifier is not the zero address                           *)
(* The getters of the class read the clock; here it is a parameter.        *)
(***************************************************************************)
EXTENDS Integers

SubscriptionRecord ==
    [active_at : Nat, period : Nat, frequency : Nat \ {0},
     paid : BOOLEAN, proof : BOOLEAN]

Active(sub, now) == now > sub.active_at

IsCallback(sub) == sub.period = 0

\* Only ever evaluated for an active subscription: the getter throws otherwise.
Interval(sub, now) ==
    IF IsCallback(sub) THEN 1 ELSE ((now - sub.active_at) \div sub.period) + 1

PastLastInterval(sub, now) ==
    Active(sub, now) /\ Interval(sub, now) > sub.frequency

ProvidesPayment(sub) == sub.paid

RequiresProof(sub) == sub.proof

\* The interval of an active subscription, 0 of one whose getter would throw.
IntervalOrZero(sub, now) ==
    IF Active(sub, now) THEN Interval(sub, now) ELSE 0
===============================================================================
