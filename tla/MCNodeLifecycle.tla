---------------------------- MODULE MCNodeLifecycle ----------------------------
(* Small instances of NodeLifecycle for TLC. *)
EXTENDS NodeLifecycle, TLC

CONSTANTS r1, alice

\* The second container asks for the port the first one asks for, or is given.
TwoPorts == {<<0, 3>>, <<3, 3>>}

\* A new container beside one that runs, or was left behind.
NewAndOld == {<<"absent", "running">>, <<"absent", "exited">>}

\* Alice registers her key in block 2; block 3 creates the subscription.
OneCall == r1 :> alice
Creations == alice :> 3
Registrations == alice :> 2
===============================================================================
