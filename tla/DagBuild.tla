------------------------------ MODULE DagBuild ------------------------------
(***************************************************************************)
(* Build of internal/workflow/dag.go, run on one list of declarations: the *)
(* checks, the rounds of computeOrder and the scan of computeLevels.       *)
(***************************************************************************)
EXTENDS Dag

CONSTANT Inputs     \* the lists of declarations Build is called with

Declarations == [name: Nat, deps: Seq(Nat), source: Sources, long: BOOLEAN]

ASSUME InputsAssumption == Inputs \subseteq Seq(Declarations)

VARIABLES
    tasks,      \* the list
    pc,         \* the part of Build that is running
    kahn,       \* computeOrder: indegree, order and the current round
    levels,     \* computeLevels: the level of each name scanned so far
    reason      \* the reason of the error Build returns, NoFault if none

vars == <<tasks, pc, kahn, levels, reason>>
deps == Dependencies(tasks)

Init ==
    /\ tasks \in Inputs
    /\ pc = "check"
    /\ kahn = [indegree |-> <<>>, order |-> <<>>, current |-> <<>>]
    /\ levels = <<>>
    /\ reason = NoFault

Reject(why) == pc' = "done" /\ reason' = why

\* The two loops that check names, specs and dependencies.
Check ==
    /\ pc = "check"
    /\ IF FirstFault(tasks) # NoFault
       THEN Reject(FirstFault(tasks)) /\ UNCHANGED kahn
       ELSE pc' = "order" /\ kahn' = KahnStart(deps) /\ UNCHANGED reason
    /\ UNCHANGED <<tasks, levels>>

\* One round of computeOrder.
Round ==
    /\ pc = "order" /\ kahn.current # <<>>
    /\ kahn' = KahnStep(deps, kahn)
    /\ UNCHANGED <<tasks, pc, levels, reason>>

\* The end of computeOrder.
EndOrder ==
    /\ pc = "order" /\ kahn.current = <<>>
    /\ IF AllOrdered(deps, kahn)
       THEN pc' = "levels" /\ UNCHANGED reason
       ELSE Reject("CyclicDependency")
    /\ UNCHANGED <<tasks, kahn, levels>>

\* computeLevels: the next name of the order.
Level ==
    LET n == kahn.order[Cardinality(DOMAIN levels) + 1]
    IN  /\ pc = "levels" /\ Cardinality(DOMAIN levels) < Len(kahn.order)
        /\ levels' = [m \in DOMAIN levels \cup {n} |->
                        IF m = n THEN LevelOf(deps, levels, n) ELSE levels[m]]
        /\ UNCHANGED <<tasks, pc, kahn, reason>>

EndLevels ==
    /\ pc = "levels" /\ Cardinality(DOMAIN levels) = Len(kahn.order)
    /\ pc' = "done"
    /\ UNCHANGED <<tasks, kahn, levels, reason>>

Next == Check \/ Round \/ EndOrder \/ Level \/ EndLevels

Spec == Init /\ [][Next]_vars

-----------------------------------------------------------------------------
(* Reference definitions.                                                  *)

\* Every set of names has one that depends on none of the others.
Acyclic(d) ==
    \A S \in SUBSET DOMAIN d : S # {} => \E n \in S : d[n] \cap S = {}

\* What a list needs to be schedulable, in whatever order it is checked.
WellFormed(ts) ==
    /\ ts # <<>>
    /\ \A i \in DOMAIN ts :
        /\ ts[i].name # EmptyName /\ ts[i].source \in {"template", "inline"}
        /\ ts[i].name \notin ToSet(ts[i].deps)
        /\ ToSet(ts[i].deps) \subseteq Names(ts) \ {EmptyName}
        /\ Cardinality(ToSet(ts[i].deps)) = Len(ts[i].deps)
    /\ Cardinality(Names(ts)) = Len(ts)

Built == pc = "done" /\ reason = NoFault

(* Properties.                                                             *)

\* Build accepts exactly the well-formed lists without a dependency cycle, and
\* blames a cycle only for lists that are well formed.
AcceptsExactly ==
    pc = "done" => /\ reason = NoFault <=> (WellFormed(tasks) /\ Acyclic(deps))
                   /\ reason = "CyclicDependency" <=> (WellFormed(tasks) /\ ~Acyclic(deps))

\* computeOrder: at every moment the order lists names once and each after all
\* its dependencies; in the end it lists every name, and is the order that the
\* recursive definition Order gives.
Topological ==
    LET order == kahn.order
    IN  /\ \A a, b \in DOMAIN order : order[a] = order[b] => a = b
        /\ \A b \in DOMAIN order : \A d \in deps[order[b]] :
             \E a \in 1..(b - 1) : order[a] = d
        /\ Built => ToSet(order) = Names(tasks) /\ order = Order(tasks)

\* computeLevels: the levels read off the order are the rounds that made it.
\* The order runs level by level, by name within a level, a name depends on
\* lower levels only, and on the level just below unless it is a root.
LevelsFollowOrder ==
    Built =>
        /\ \A a, b \in DOMAIN kahn.order :
             LET m == kahn.order[a]
                 n == kahn.order[b]
             IN  a < b => levels[m] < levels[n] \/ (levels[m] = levels[n] /\ m < n)
        /\ \A n \in Names(tasks) :
             /\ \A d \in deps[n] : levels[d] < levels[n]
             /\ levels[n] > 0 => \E d \in deps[n] : levels[d] = levels[n] - 1
=============================================================================
