------------------------------ MODULE PlanRun ------------------------------
(***************************************************************************)
(* What one run of a Workflow promises, without status, caches or          *)
(* reconciles: each node of the plan runs at most once and only after what *)
(* it waits for, or is passed over when that cannot happen any more; the   *)
(* verdict comes once, when every node has come to its end, and is right.  *)
(***************************************************************************)
EXTENDS FiniteSets

CONSTANT Nodes

VARIABLES
    needs,     \* the nodes each node of the plan depends on
    rescues,   \* nodes that run only if something they depend on went wrong
    life,      \* what has become of each node
    verdict    \* "none" or the outcome of the whole run

pvars == <<needs, rescues, life, verdict>>

Ended == {"Succeeded", "Failed", "skipped"}

Init ==
    /\ needs \in [Nodes -> SUBSET Nodes] /\ rescues \subseteq Nodes
    /\ life = [n \in Nodes |-> "waiting"]
    /\ verdict = "none"

\* Given the lives l: n may run, or will never have a reason to.
AllEnded(l, n) == \A d \in needs[n] : l[d] \in Ended
AllWell(l, n) == \A d \in needs[n] : l[d] = "Succeeded"
Ready(l, n) == IF n \in rescues THEN AllEnded(l, n) /\ ~AllWell(l, n) ELSE AllWell(l, n)
Hopeless(l, n) == IF n \in rescues THEN AllWell(l, n)
                  ELSE \E d \in needs[n] : l[d] \in {"Failed", "skipped"}

\* The lives once the nodes in S are passed over, and whether S may be: each of
\* them is waiting and will never have a reason to run.
Skipping(S) == [n \in Nodes |-> IF n \in S THEN "skipped" ELSE life[n]]
Doomed(S) == \A n \in S : life[n] = "waiting" /\ Hopeless(Skipping(S), n)

\* A node starts, possibly ahead of the report that what it waits for is doomed.
Start(n) ==
    /\ verdict = "none"
    /\ life[n] = "waiting"
    /\ \E S \in SUBSET Nodes : Doomed(S) /\ Ready(Skipping(S), n)
    /\ life' = [life EXCEPT ![n] = "running"]
    /\ UNCHANGED <<needs, rescues, verdict>>

Finish(n, outcome) ==
    /\ life[n] = "running"
    /\ life' = [life EXCEPT ![n] = outcome]
    /\ UNCHANGED <<needs, rescues, verdict>>

\* The verdict the lives l allow.
Verdict(l) == IF \E n \in Nodes : l[n] = "Failed" THEN "Failed" ELSE "Succeeded"

\* Some nodes are passed over, and possibly the run is over.
Report ==
    /\ verdict = "none"
    /\ \E S \in SUBSET Nodes : Doomed(S) /\ life' = Skipping(S)
    /\ \/ UNCHANGED verdict
       \/ /\ \A n \in Nodes : life'[n] \in Ended
          /\ verdict' = Verdict(life')
    /\ UNCHANGED <<needs, rescues>>

Next ==
    \/ \E n \in Nodes : Start(n) \/ \E outcome \in {"Succeeded", "Failed"} : Finish(n, outcome)
    \/ Report

Spec == Init /\ [][Next]_pvars
=============================================================================
