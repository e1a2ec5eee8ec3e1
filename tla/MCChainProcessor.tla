--------------------------- MODULE MCChainProcessor ---------------------------
(* Small instances of ChainProcessor for TLC. *)
EXTENDS ChainProcessorInv, TLC

CONSTANTS s1, s2, p1, p2, t1, t2, t3, t4

\* Two intervals of two seconds each; the first second is interval 1.
Recurring == [active_at |-> 0, period |-> 2, frequency |-> 2, paid |-> FALSE, proof |-> FALSE]
PaidCallback == [active_at |-> 0, period |-> 0, frequency |-> 1, paid |-> TRUE, proof |-> FALSE]

\* One interval, with a proof.
ProvedRecurring == [Recurring EXCEPT !.frequency = 1, !.proof = TRUE]

OneRecurring == s1 :> Recurring
OneProvedRecurring == s1 :> ProvedRecurring
OneCallback == s1 :> PaidCallback

Symmetry == Permutations(Txs) \cup Permutations(Procs)
===============================================================================
