------------------------------- MODULE JobRecord -------------------------------
(***************************************************************************)
(* What the node promises about an off-chain job to the client that owns   *)
(* it: one record per key, which moves forward only, and answers that tell *)
(* the record or nothing.  A record is                                     *)
(*   unknown   before the job is stored                                    *)
(*   running   stored as running                                           *)
(*   hidden    worked on, but for a while in neither database              *)
(*   success, failed   the result, for good                                *)
(*   lost      no longer worked on, and without a result, for good         *)
(*   shared    the client has used the key again: nothing is promised      *)
(***************************************************************************)
CONSTANTS
    Keys,  \* of off-chain jobs
    None   \* no key

VARIABLES
    record,  \* per key
    asked,   \* the key a client asked for last
    answer   \* what it was told

vars == <<record, asked, answer>>

Results == {"success", "failed"}
Told == Results \cup {"running"}
Records == Told \cup {"unknown", "hidden", "lost", "shared"}

Init == record = [k \in Keys |-> "unknown"] /\ asked = None /\ answer = {}

Start(k) ==
    /\ record[k] = "unknown"
    /\ record' = [record EXCEPT ![k] = "running"]
    /\ UNCHANGED <<asked, answer>>

Hide(k) ==
    /\ record[k] = "running"
    /\ record' = [record EXCEPT ![k] = "hidden"]
    /\ UNCHANGED <<asked, answer>>

Finish(k) ==
    /\ record[k] = "hidden"
    /\ \E result \in Results : record' = [record EXCEPT ![k] = result]
    /\ UNCHANGED <<asked, answer>>

\* The node lets go of a job, or of many when its process ends or starts anew.
Lose(S) ==
    /\ \A k \in S : record[k] \in {"unknown", "running", "hidden"}
    /\ record' = [k \in Keys |-> IF k \in S THEN "lost" ELSE record[k]]
    /\ UNCHANGED <<asked, answer>>

\* Clients use keys again: what one was told of such a key means nothing now.
Share(S) ==
    /\ record' = [k \in Keys |-> IF k \in S THEN "shared" ELSE record[k]]
    /\ answer' \in {answer, {}}
    /\ UNCHANGED asked

\* A client asks for a key, or for something else than a record.
Ask ==
    /\ asked' \in Keys \cup {None}
    /\ answer' = {}
    /\ UNCHANGED record

\* It is told the record of the key it asked for, or nothing.
Tell ==
    /\ asked \in Keys
    /\ answer' \in {{}, {record[asked]} \cap Told}
    /\ UNCHANGED <<record, asked>>

Next ==
    \/ \E k \in Keys : Start(k) \/ Hide(k) \/ Finish(k)
    \/ Ask \/ Tell
    \/ \E S \in SUBSET Keys : Lose(S) \/ Share(S)

Spec == Init /\ [][Next]_vars
===============================================================================
