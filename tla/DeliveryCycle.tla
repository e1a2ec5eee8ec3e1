----------------------------- MODULE DeliveryCycle -----------------------------
(***************************************************************************)
(* What each life of the node promises about the subscriptions relayed to  *)
(* it and about their runs.  A subscription is opened once and closed once.*)
(* A run is begun only while its subscription is open and while nothing of *)
(* it is under way; it is answered at most once, and an answered run is    *)
(* never begun again.  A run is                                            *)
(*   idle       not under way: never tried, given up, or its response      *)
(*              reverted                                                   *)
(*   working    a response is being computed and submitted                 *)
(*   sent       a response waits to be mined                               *)
(*   answered   a response was accepted                                    *)
(***************************************************************************)
CONSTANTS
    Subs,  \* subscription ids
    Keys   \* runs: pairs of a subscription and an interval

VARIABLES
    window,  \* per subscription: "new", "open" or "closed"
    phase    \* per run

vars == <<window, phase>>

Init ==
    /\ window = [s \in Subs |-> "new"]
    /\ phase = [k \in Keys |-> "idle"]

Open(s) ==
    /\ window[s] = "new"
    /\ window' = [window EXCEPT ![s] = "open"]
    /\ UNCHANGED phase

Close(s) ==
    /\ window[s] = "open"
    /\ window' = [window EXCEPT ![s] = "closed"]

Move(k, from, to) ==
    /\ phase[k] = from
    /\ phase' = [phase EXCEPT ![k] = to]

Begin(k) ==
    /\ window[k[1]] = "open"
    /\ Move(k, "idle", "working")
    /\ UNCHANGED window

\* The work ends without a response, or with one sent; either may close the
\* subscription.
End(k) ==
    /\ Move(k, "working", "idle") \/ Move(k, "working", "sent")
    /\ UNCHANGED window \/ Close(k[1])

Mined(k) ==
    /\ Move(k, "sent", "idle") \/ Move(k, "sent", "answered")
    /\ UNCHANGED window

\* The process ends and starts again; what it knew is lost.
Restart ==
    /\ window' = [s \in Subs |-> "new"]
    /\ phase' = [k \in Keys |-> "idle"]

Next ==
    \/ Restart
    \/ \E s \in Subs : Open(s) \/ (Close(s) /\ UNCHANGED phase)
    \/ \E k \in Keys : Begin(k) \/ End(k) \/ Mined(k)

Spec == Init /\ [][Next]_vars
===============================================================================
