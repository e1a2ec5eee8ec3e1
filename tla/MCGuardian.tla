------------------------------- MODULE MCGuardian ------------------------------
(* Small instances of Guardian for TLC. *)
EXTENDS Guardian

CONSTANTS front, prover, alice, bob, eth, usd

V4(n) == [v4 |-> TRUE, number |-> n]
V6(n) == [v4 |-> FALSE, number |-> n]
V4Net(first, last) == [v4 |-> TRUE, first |-> first, last |-> last]
V6Net(first, last) == [v4 |-> FALSE, first |-> first, last |-> last]

\* One address of each standing: with the front alone, with both, with the
\* prover alone, one of the other version that both meet, and one of the other
\* version with the number of an address that both have.
Clients == {V4(1), V4(2), V4(3), V6(5), V6(2)}

\* A front that takes requests and a prover behind it with a second network.
TwoContainers ==
    front :> [external |-> TRUE, generates_proofs |-> FALSE,
              allowed_ips |-> <<V4Net(1, 2)>>,
              allowed_addresses |-> {alice}, allowed_delegate_addresses |-> {},
              accepted_payments |-> eth :> 1 @@ usd :> 1] @@
    prover :> [external |-> FALSE, generates_proofs |-> TRUE,
               allowed_ips |-> <<V4Net(2, 3), V6Net(5, 6)>>,
               allowed_addresses |-> {}, allowed_delegate_addresses |-> {bob},
               accepted_payments |-> eth :> 2]

\* A container with nothing but the defaults of its schema.
Defaults ==
    front :> [external |-> TRUE, generates_proofs |-> FALSE, allowed_ips |-> <<>>,
              allowed_addresses |-> {}, allowed_delegate_addresses |-> {},
              accepted_payments |-> <<>>]
===============================================================================
