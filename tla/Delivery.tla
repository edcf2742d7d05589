------------------------------ MODULE Delivery ------------------------------
(***************************************************************************)
(* What a notification channel promises about an event, without queue,     *)
(* workers, list or clock: an event is open from its acceptance until it   *)
(* has a final state, is sent only while it is open and at most MaxTries   *)
(* times, and counts as exhausted only after all of them.  An event with a *)
(* final state may be forgotten; only then is it accepted again.           *)
(***************************************************************************)
EXTENDS Naturals

CONSTANTS
    Events,     \* event IDs
    MaxTries    \* sends an accepted event may have

VARIABLES
    status,     \* "none", "open" or the final state of each event
    tries       \* sends of each event since it was accepted

dvars == <<status, tries>>

FinalStates == {"delivered", "rejected", "exhausted"}

Init ==
    /\ status = [e \in Events |-> "none"]
    /\ tries = [e \in Events |-> 0]

\* The status after some events with a final state were forgotten.
Forgetting(F) == [e \in Events |-> IF e \in F THEN "none" ELSE status[e]]
Forgettable == {e \in Events : status[e] \in FinalStates}

Forget ==
    /\ \E F \in SUBSET Forgettable : status' = Forgetting(F)
    /\ UNCHANGED tries

Accept(e) ==
    /\ \E F \in SUBSET Forgettable :
        /\ Forgetting(F)[e] = "none"
        /\ status' = [Forgetting(F) EXCEPT ![e] = "open"]
    /\ tries' = [tries EXCEPT ![e] = 0]

Try(e) ==
    /\ status[e] = "open" /\ tries[e] < MaxTries
    /\ tries' = [tries EXCEPT ![e] = @ + 1]
    /\ UNCHANGED status

Finish(e, final) ==
    /\ status[e] = "open"
    /\ final = "exhausted" => tries[e] = MaxTries
    /\ final = "delivered" => tries[e] > 0
    /\ \E F \in SUBSET Forgettable : status' = [Forgetting(F) EXCEPT ![e] = final]
    /\ UNCHANGED tries

Next ==
    \/ Forget
    \/ \E e \in Events : \/ Accept(e) \/ Try(e)
                         \/ \E final \in FinalStates : Finish(e, final)

Spec == Init /\ [][Next]_dvars
=============================================================================
