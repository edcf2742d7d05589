-------------------------------- MODULE Dag ---------------------------------
(***************************************************************************)
(* The pure part of internal/workflow/dag.go: the checks of Build and the  *)
(* steps of Kahn's algorithm.  Names are numbers, ordered as sort.Strings  *)
(* orders the names; a task declaration is a record                        *)
(*     [name, deps, source, long]                                          *)
(* with its dependencies as listed, where its spec comes from, and whether *)
(* <workflow>-<name> exceeds naming.MaxTaskNameLength.                     *)
(***************************************************************************)
EXTENDS Integers, Sequences, FiniteSets, SequencesExt

EmptyName == 0
NoFault == "none"

\* How a declaration gives its TaskSpec: "unknown" is a template that is not there.
Sources == {"template", "inline", "unknown", "both", "neither"}

Names(tasks) == {tasks[i].name : i \in DOMAIN tasks}

\* The first loop of Build, for the i-th declaration.
TaskFault(tasks, i) ==
    IF tasks[i].name = EmptyName THEN "InvalidTask"
    ELSE IF \E j \in 1..(i - 1) : tasks[j].name = tasks[i].name THEN "DuplicateTaskName"
    ELSE IF tasks[i].source \in {"both", "neither"} THEN "InvalidTask"
    ELSE IF tasks[i].source = "unknown" THEN "MissingTemplate"
    ELSE NoFault

\* Mutant: a repeated dependency is let through.
DependencyFaultOnce(tasks, i, k) ==
    LET dep == tasks[i].deps[k]
    IN  IF dep = EmptyName THEN "EmptyDependency"
        ELSE IF dep = tasks[i].name THEN "SelfDependency"
        ELSE IF dep \notin Names(tasks) THEN "UnknownDependency"
        ELSE NoFault

\* The second loop of Build, for the k-th dependency of the i-th declaration.
DependencyFault(tasks, i, k) ==
    LET dep == tasks[i].deps[k]
    IN  IF dep = EmptyName THEN "EmptyDependency"
        ELSE IF dep = tasks[i].name THEN "SelfDependency"
        ELSE IF dep \notin Names(tasks) THEN "UnknownDependency"
        ELSE IF \E m \in 1..(k - 1) : tasks[i].deps[m] = dep THEN "DuplicateDependency"
        ELSE NoFault

\* The reason of the first error in the order in which Build looks.
FirstFault(tasks) ==
    LET badTasks == {i \in DOMAIN tasks : TaskFault(tasks, i) # NoFault}
        badDeps(i) == {k \in DOMAIN tasks[i].deps : DependencyFault(tasks, i, k) # NoFault}
        badLists == {i \in DOMAIN tasks : badDeps(i) # {}}
    IN  IF tasks = <<>> THEN "NoTasks"
        ELSE IF badTasks # {} THEN TaskFault(tasks, Min(badTasks))
        ELSE IF badLists # {}
             THEN DependencyFault(tasks, Min(badLists), Min(badDeps(Min(badLists))))
        ELSE NoFault

-----------------------------------------------------------------------------
(* computeOrder, on the direct dependencies of each name.                  *)

Dependencies(tasks) ==
    [n \in Names(tasks) |->
        LET i == CHOOSE i \in DOMAIN tasks : tasks[i].name = n IN ToSet(tasks[i].deps)]

\* sort.Strings: the increasing sequence of the elements of S.
Sorted(S) ==
    CHOOSE s \in [1..Cardinality(S) -> S] : \A i, j \in DOMAIN s : i < j => s[i] < s[j]

\* The state of the loop before its first round.
KahnStart(deps) ==
    [indegree |-> [n \in DOMAIN deps |-> Cardinality(deps[n])],
     order |-> <<>>,
     current |-> Sorted({n \in DOMAIN deps : deps[n] = {}})]

\* Mutant: a name joins the next round as soon as one dependency is done.
KahnStepEager(deps, s) ==
    LET done == ToSet(s.current)
        left == [n \in DOMAIN deps |-> s.indegree[n] - Cardinality(deps[n] \cap done)]
    IN  [indegree |-> left,
         order |-> s.order \o s.current,
         current |-> Sorted({n \in DOMAIN deps : left[n] < s.indegree[n]} \ ToSet(s.order))]

\* One round: the names without open dependencies are ordered, and those that
\* lose their last one come next.
KahnStep(deps, s) ==
    LET done == ToSet(s.current)
        left == [n \in DOMAIN deps |-> s.indegree[n] - Cardinality(deps[n] \cap done)]
    IN  [indegree |-> left,
         order |-> s.order \o s.current,
         current |-> Sorted({n \in DOMAIN deps : s.indegree[n] > 0 /\ left[n] = 0})]

\* No name was left in a cycle.
AllOrdered(deps, s) == Len(s.order) = Cardinality(DOMAIN deps)

\* The names ordered after each number of rounds, as a recursive function.
Rounds(deps) ==
    LET done[k \in 0..Cardinality(DOMAIN deps)] ==
            IF k = 0 THEN {} ELSE {n \in DOMAIN deps : deps[n] \subseteq done[k - 1]}
    IN  done

\* The round in which each name is ordered, for the names that are.
RoundOf(deps) ==
    LET done == Rounds(deps)
    IN  [n \in done[Cardinality(DOMAIN deps)] |-> Min({k \in DOMAIN done : n \in done[k]})]

\* Of two names, m comes first: in an earlier round, or by name in the same one.
Before(round, m, n) == round[m] < round[n] \/ (round[m] = round[n] /\ m < n)

\* Graph.Order: round by round, by name within a round.
Order(tasks) ==
    LET round == RoundOf(Dependencies(tasks))
    IN  CHOOSE o \in [1..Cardinality(DOMAIN round) -> DOMAIN round] :
            \A i, j \in DOMAIN o : i < j => Before(round, o[i], o[j])

-----------------------------------------------------------------------------
(* computeLevels.                                                          *)

\* Mutant: the shallowest dependency decides.
LevelOfShallowest(deps, levels, n) ==
    IF deps[n] = {} THEN 0 ELSE 1 + Min({levels[d] : d \in deps[n]})

\* The level of a name whose dependencies have theirs.
LevelOf(deps, levels, n) ==
    IF deps[n] = {} THEN 0 ELSE 1 + Max({levels[d] : d \in deps[n]})

\* Build and ValidateChildTaskNames accept the list.
Accepted(tasks) ==
    /\ FirstFault(tasks) = NoFault
    /\ Len(Order(tasks)) = Cardinality(Names(tasks))
    /\ \A i \in DOMAIN tasks : ~tasks[i].long
=============================================================================
