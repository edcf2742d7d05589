----------------------------- MODULE DagProofs ------------------------------
(***************************************************************************)
(* Proofs about Build, for lists of declarations of any length: it accepts *)
(* exactly the lists that can be scheduled, and the order and the levels   *)
(* it computes are right.                                                  *)
(***************************************************************************)
EXTENDS DagBuild, DagLemmas

-----------------------------------------------------------------------------
(* The checks.                                                             *)

\* What a list of task declarations is made of.
LEMMA ListShape ==
    ASSUME NEW ts \in Seq(Declarations)
    PROVE  /\ Len(ts) \in Nat /\ DOMAIN ts = 1..Len(ts)
           /\ Names(ts) \subseteq Nat /\ IsFiniteSet(Names(ts))
           /\ \A i \in DOMAIN ts :
                /\ ts[i].name \in Nat /\ ts[i].source \in Sources /\ ts[i].deps \in Seq(Nat)
                /\ ts[i].name \in Names(ts)
                /\ DOMAIN ts[i].deps = 1..Len(ts[i].deps) /\ Len(ts[i].deps) \in Nat
<1>1. Len(ts) \in Nat /\ DOMAIN ts = 1..Len(ts) /\ \A i \in DOMAIN ts : ts[i] \in Declarations
  OBVIOUS
<1>2. \A i \in DOMAIN ts : ts[i].name \in Nat /\ ts[i].source \in Sources /\ ts[i].deps \in Seq(Nat)
  BY <1>1 DEF Declarations
<1>3. Names(ts) \subseteq Nat /\ \A i \in DOMAIN ts : ts[i].name \in Names(ts)
  BY <1>2 DEF Names
<1> DEFINE f == [i \in 1..Len(ts) |-> ts[i].name]
<1>4. f \in Surjection(1..Len(ts), Names(ts))
  BY <1>1, <1>3 DEF Names, Surjection
<1>5. IsFiniteSet(1..Len(ts))
  BY <1>1, FS_Interval
<1>6. IsFiniteSet(Names(ts))
  BY <1>4, <1>5, FS_Surjection
<1> QED
  BY <1>1, <1>2, <1>3, <1>6

\* The i-th declaration passes the first loop, its k-th dependency the second.
LEMMA TaskFaultIs ==
    ASSUME NEW ts \in Seq(Declarations), NEW i \in DOMAIN ts
    PROVE  /\ TaskFault(ts, i) = NoFault <=>
                /\ ts[i].name # EmptyName
                /\ \A j \in 1..(i - 1) : ts[j].name # ts[i].name
                /\ ts[i].source \in {"template", "inline"}
           /\ TaskFault(ts, i) # "CyclicDependency"
<1>1. ts[i].source \in Sources
  BY ListShape
<1> QED
  BY <1>1 DEF TaskFault, NoFault, Sources

\* A dependency passes the checks of Build exactly if it is named, not the task itself,
\* declared, and not repeated.
LEMMA DependencyFaultIs ==
    ASSUME NEW ts, NEW i, NEW k
    PROVE  /\ DependencyFault(ts, i, k) = NoFault <=>
                /\ ts[i].deps[k] # EmptyName
                /\ ts[i].deps[k] # ts[i].name
                /\ ts[i].deps[k] \in Names(ts)
                /\ \A m \in 1..(k - 1) : ts[i].deps[m] # ts[i].deps[k]
           /\ DependencyFault(ts, i, k) # "CyclicDependency"
BY DEF DependencyFault, NoFault

\* No declaration and no dependency is at fault.
Faultless(ts) ==
    /\ ts # <<>>
    /\ \A i \in DOMAIN ts : TaskFault(ts, i) = NoFault
    /\ \A i \in DOMAIN ts : \A k \in DOMAIN ts[i].deps : DependencyFault(ts, i, k) = NoFault

\* Build finds no fault before the sort exactly in faultless lists, and never calls such
\* a fault a cycle.
LEMMA FirstFaultIs ==
    ASSUME NEW ts \in Seq(Declarations)
    PROVE  (FirstFault(ts) = NoFault <=> Faultless(ts)) /\ FirstFault(ts) # "CyclicDependency"
<1> DEFINE badTasks == {i \in DOMAIN ts : TaskFault(ts, i) # NoFault}
           badDeps(i) == {k \in DOMAIN ts[i].deps : DependencyFault(ts, i, k) # NoFault}
           badLists == {i \in DOMAIN ts : badDeps(i) # {}}
<1>1. DOMAIN ts \subseteq Nat /\ \A i \in DOMAIN ts : DOMAIN ts[i].deps \subseteq Nat
  <2>1. \A a \in Nat : 1..a \subseteq Nat
    OBVIOUS
  <2> QED
    BY <2>1, ListShape
<1>2. CASE ts = <<>>
  BY <1>2 DEF FirstFault, NoFault, Faultless
<1>3. CASE ts # <<>> /\ badTasks # {}
  <2>1. Min(badTasks) \in badTasks
    <3>1. badTasks \in SUBSET Nat
      BY <1>1
    <3> HIDE DEF badTasks
    <3> QED
      BY <1>3, <3>1, MinIs
  <2>2. FirstFault(ts) = TaskFault(ts, Min(badTasks))
    BY <1>3 DEF FirstFault
  <2>3. PICK i \in DOMAIN ts : FirstFault(ts) = TaskFault(ts, i) /\ TaskFault(ts, i) # NoFault
    BY <2>1, <2>2
  <2> QED
    BY <2>3, TaskFaultIs DEF Faultless
<1>4. CASE ts # <<>> /\ badTasks = {} /\ badLists # {}
  <2>1. Min(badLists) \in badLists
    <3>1. badLists \in SUBSET Nat
      BY <1>1
    <3> HIDE DEF badLists
    <3> QED
      BY <1>4, <3>1, MinIs
  <2>2. PICK i : i = Min(badLists)
    OBVIOUS
  <2>3. i \in DOMAIN ts /\ badDeps(i) # {}
    BY <2>1, <2>2
  <2>4. Min(badDeps(i)) \in badDeps(i)
    <3>1. badDeps(i) \in SUBSET Nat
      BY <1>1, <2>3
    <3> HIDE DEF badDeps
    <3> QED
      BY <2>3, <3>1, MinIs
  <2>5. FirstFault(ts) = DependencyFault(ts, i, Min(badDeps(i)))
    BY <1>4, <2>2 DEF FirstFault
  <2>6. PICK k \in DOMAIN ts[i].deps : /\ FirstFault(ts) = DependencyFault(ts, i, k)
                                       /\ DependencyFault(ts, i, k) # NoFault
    BY <2>4, <2>5
  <2> QED
    BY <2>3, <2>6, DependencyFaultIs DEF Faultless
<1>5. CASE ts # <<>> /\ badTasks = {} /\ badLists = {}
  <2>1. FirstFault(ts) = NoFault
    BY <1>5 DEF FirstFault
  <2>2. Faultless(ts)
    BY <1>5 DEF Faultless
  <2> QED
    BY <2>1, <2>2 DEF NoFault
<1> QED
  BY <1>2, <1>3, <1>4, <1>5

\* The two loops of Build accept exactly the well-formed lists.
LEMMA ChecksExact ==
    ASSUME NEW ts \in Seq(Declarations)
    PROVE  FirstFault(ts) = NoFault <=> WellFormed(ts)
<1> DEFINE names == [i \in 1..Len(ts) |-> ts[i].name]
<1>0. /\ Len(ts) \in Nat /\ DOMAIN ts = 1..Len(ts)
      /\ \A i \in DOMAIN ts : /\ ts[i].name \in Nat /\ ts[i].source \in Sources
                              /\ ts[i].deps \in Seq(Nat)
                              /\ DOMAIN ts[i].deps = 1..Len(ts[i].deps) /\ Len(ts[i].deps) \in Nat
  BY ListShape
<1>1. names \in Seq(Nat) /\ Len(names) = Len(ts) /\ ToSet(names) = Names(ts)
  BY <1>0 DEF ToSet, Names
<1>2. (Cardinality(Names(ts)) = Len(ts)) <=> \A i, j \in DOMAIN ts : ts[i].name = ts[j].name => i = j
  <2>1. (Cardinality(ToSet(names)) = Len(names))
          <=> (\A i, j \in DOMAIN names : names[i] = names[j] => i = j)
    <3> HIDE DEF names
    <3> QED
      BY <1>1, DistinctCount
  <2> QED
    BY <1>0, <1>1, <2>1
<1>3. \A i \in DOMAIN ts : (Cardinality(ToSet(ts[i].deps)) = Len(ts[i].deps))
        <=> \A k, m \in DOMAIN ts[i].deps : ts[i].deps[k] = ts[i].deps[m] => k = m
  BY <1>0, DistinctCount
<1>4. \A i \in DOMAIN ts : i \in Nat /\ \A j \in 1..(i - 1) : j \in DOMAIN ts /\ j # i
  BY <1>0
<1>5. \A i, j \in DOMAIN ts : i # j => i \in 1..(j - 1) \/ j \in 1..(i - 1)
  BY <1>0
<1>6. \A i \in DOMAIN ts : \A k \in DOMAIN ts[i].deps : \A m \in 1..(k - 1) :
        m \in DOMAIN ts[i].deps /\ m # k
  BY <1>0
<1>7. \A i \in DOMAIN ts : \A k, m \in DOMAIN ts[i].deps :
        k # m => k \in 1..(m - 1) \/ m \in 1..(k - 1)
  BY <1>0
<1>8. (\A i \in DOMAIN ts : \A j \in 1..(i - 1) : ts[j].name # ts[i].name)
        <=> (\A i, j \in DOMAIN ts : ts[i].name = ts[j].name => i = j)
  BY <1>4, <1>5
<1>9. \A i \in DOMAIN ts :
        (\A k \in DOMAIN ts[i].deps : \A m \in 1..(k - 1) : ts[i].deps[m] # ts[i].deps[k])
        <=> (\A k, m \in DOMAIN ts[i].deps : ts[i].deps[k] = ts[i].deps[m] => k = m)
  BY <1>6, <1>7
<1>10. ASSUME Faultless(ts) PROVE WellFormed(ts)
  <2>1. \A i \in DOMAIN ts : /\ ts[i].name # EmptyName /\ ts[i].source \in {"template", "inline"}
                             /\ \A j \in 1..(i - 1) : ts[j].name # ts[i].name
    BY <1>10, TaskFaultIs DEF Faultless
  <2>2. \A i \in DOMAIN ts : \A k \in DOMAIN ts[i].deps :
          /\ ts[i].deps[k] # EmptyName /\ ts[i].deps[k] # ts[i].name
          /\ ts[i].deps[k] \in Names(ts)
          /\ \A m \in 1..(k - 1) : ts[i].deps[m] # ts[i].deps[k]
    BY <1>10, DependencyFaultIs DEF Faultless
  <2>3. \A i \in DOMAIN ts : /\ ts[i].name \notin ToSet(ts[i].deps)
                             /\ ToSet(ts[i].deps) \subseteq Names(ts) \ {EmptyName}
    BY <2>2 DEF ToSet
  <2>4. \A i \in DOMAIN ts : Cardinality(ToSet(ts[i].deps)) = Len(ts[i].deps)
    BY <1>3, <1>9, <2>2
  <2>5. Cardinality(Names(ts)) = Len(ts)
    BY <1>2, <1>8, <2>1
  <2> QED
    BY <1>10, <2>1, <2>3, <2>4, <2>5 DEF WellFormed, Faultless
<1>11. ASSUME WellFormed(ts) PROVE Faultless(ts)
  <2>1. \A i \in DOMAIN ts : TaskFault(ts, i) = NoFault
    <3>1. \A i \in DOMAIN ts : \A j \in 1..(i - 1) : ts[j].name # ts[i].name
      BY <1>2, <1>8, <1>11 DEF WellFormed
    <3> QED
      BY <1>11, <3>1, TaskFaultIs DEF WellFormed
  <2>2. \A i \in DOMAIN ts : \A k \in DOMAIN ts[i].deps : DependencyFault(ts, i, k) = NoFault
    <3>1. \A i \in DOMAIN ts : \A k \in DOMAIN ts[i].deps : ts[i].deps[k] \in ToSet(ts[i].deps)
      BY DEF ToSet
    <3>2. \A i \in DOMAIN ts : \A k \in DOMAIN ts[i].deps : \A m \in 1..(k - 1) :
            ts[i].deps[m] # ts[i].deps[k]
      BY <1>3, <1>9, <1>11 DEF WellFormed
    <3>3. \A i \in DOMAIN ts : \A k \in DOMAIN ts[i].deps :
            /\ ts[i].deps[k] # EmptyName /\ ts[i].deps[k] # ts[i].name
            /\ ts[i].deps[k] \in Names(ts)
      BY <1>11, <3>1 DEF WellFormed
    <3> QED
      BY <3>2, <3>3, DependencyFaultIs
  <2> QED
    BY <1>11, <2>1, <2>2 DEF WellFormed, Faultless
<1> QED
  BY <1>10, <1>11, FirstFaultIs

-----------------------------------------------------------------------------
(* computeOrder.                                                           *)

\* A graph as Build makes it.
Graph(d) ==
    /\ IsFiniteSet(DOMAIN d) /\ DOMAIN d \subseteq Nat
    /\ \A n \in DOMAIN d : IsFiniteSet(d[n]) /\ d[n] \subseteq DOMAIN d

\* The names that become free once the names of S are ordered.
Free(d, S) == {n \in DOMAIN d \ S : d[n] \subseteq S}

\* The state of the loop after r rounds: the order lists the names of the first
\* r rounds, the in-degrees count the dependencies that are still open, and the
\* names that are free now come next.
KahnAt(d, s, r) ==
    LET done == Rounds(d)[r]
    IN  /\ r \in 0..Cardinality(DOMAIN d) /\ r <= Cardinality(done)
        /\ Lists(s.order, done, Precedes(d))
        /\ s.indegree = [n \in DOMAIN d |-> Cardinality(d[n] \ done)]
        /\ s.current = Sorted(Free(d, done))

\* A round is a finite, ordered set of names of the graph.
LEMMA RoundFacts ==
    ASSUME NEW d, Graph(d), NEW r \in 0..Cardinality(DOMAIN d)
    PROVE  /\ Rounds(d)[r] \subseteq DOMAIN RoundOf(d)
           /\ Rounds(d)[r] \subseteq DOMAIN d
           /\ IsFiniteSet(Rounds(d)[r]) /\ Cardinality(Rounds(d)[r]) \in Nat
           /\ Orders(Precedes(d), Rounds(d)[r])
           /\ IsFiniteSet(Free(d, Rounds(d)[r])) /\ Free(d, Rounds(d)[r]) \subseteq Nat
<1> DEFINE N == Cardinality(DOMAIN d)
           done == Rounds(d)[r]
<1>1. N \in Nat /\ N \in 0..N /\ r <= N
  BY FS_CardinalityType DEF Graph
<1>2. done \subseteq Rounds(d)[N] /\ done \subseteq DOMAIN d
  BY <1>1, RoundsGrow DEF Graph
<1>3. DOMAIN RoundOf(d) = Rounds(d)[N]
  BY RoundOfIs DEF Graph
<1>4. IsFiniteSet(done) /\ Cardinality(done) \in Nat
  BY <1>2, FS_Subset, FS_CardinalityType DEF Graph
<1>5. Orders(Precedes(d), DOMAIN RoundOf(d))
  BY PrecedesOrders DEF Graph
<1>6. Orders(Precedes(d), done)
  <2> HIDE DEF done
  <2> QED
    BY <1>2, <1>3, <1>5 DEF Orders
<1>7. Free(d, done) \subseteq DOMAIN d
  BY DEF Free
<1>8. IsFiniteSet(Free(d, done)) /\ Free(d, done) \subseteq Nat
  BY <1>7, FS_Subset DEF Graph
<1> QED
  BY <1>2, <1>3, <1>4, <1>6, <1>8

\* Before the first round Kahn's loop has listed nothing and its in-degrees are those of
\* the graph.
LEMMA KahnStarts ==
    ASSUME NEW d, Graph(d)
    PROVE  KahnAt(d, KahnStart(d), 0)
<1>1. Rounds(d)[0] = {} /\ 0 \in 0..Cardinality(DOMAIN d)
  BY RoundsAre, FS_CardinalityType DEF Graph
<1>2. Cardinality({}) = 0 /\ 1..0 = {}
  BY FS_EmptySet
<1>3. Lists(<<>>, {}, Precedes(d))
  <2>1. <<>> \in [{} -> {}]
    OBVIOUS
  <2> QED
    BY <1>2, <2>1 DEF Lists
<1>4. [n \in DOMAIN d |-> Cardinality(d[n])] = [n \in DOMAIN d |-> Cardinality(d[n] \ {})]
  <2>1. \A n \in DOMAIN d : d[n] \ {} = d[n]
    OBVIOUS
  <2> QED
    BY <2>1
<1>5. {n \in DOMAIN d : d[n] = {}} = Free(d, {})
  BY DEF Free
<1>6. KahnStart(d) = [indegree |-> [n \in DOMAIN d |-> Cardinality(d[n] \ {})],
                       order |-> <<>>,
                       current |-> Sorted(Free(d, {}))]
  BY <1>4, <1>5, Zenon DEF KahnStart
<1>7. /\ KahnStart(d).indegree = [n \in DOMAIN d |-> Cardinality(d[n] \ {})]
      /\ KahnStart(d).order = <<>>
      /\ KahnStart(d).current = Sorted(Free(d, {}))
  BY <1>6
<1>8. 0 <= Cardinality(Rounds(d)[0])
  BY <1>1, <1>2
<1> QED
  BY <1>1, <1>3, <1>7, <1>8, Zenon DEF KahnAt

\* The names that are free after r rounds are those of round r + 1.
LEMMA NextRound ==
    ASSUME NEW d, Graph(d), NEW r \in 0..Cardinality(DOMAIN d), r < Cardinality(DOMAIN d)
    PROVE  /\ r + 1 \in 0..Cardinality(DOMAIN d)
           /\ Rounds(d)[r + 1] = Rounds(d)[r] \cup Free(d, Rounds(d)[r])
           /\ \A n \in Free(d, Rounds(d)[r]) :
                n \in DOMAIN RoundOf(d) /\ RoundOf(d)[n] = r + 1
           /\ \A n \in Rounds(d)[r] : RoundOf(d)[n] <= r
<1> DEFINE N == Cardinality(DOMAIN d)
<1>1. N \in Nat /\ r + 1 \in 1..N /\ r + 1 \in 0..N /\ (r + 1) - 1 = r
  BY FS_CardinalityType DEF Graph
<1>2. Rounds(d)[r + 1] = {n \in DOMAIN d : d[n] \subseteq Rounds(d)[r]}
  BY <1>1, RoundsAre DEF Graph
<1>3. Rounds(d)[r] \subseteq Rounds(d)[r + 1]
  BY <1>1, RoundsGrow DEF Graph
<1>4. Rounds(d)[r + 1] = Rounds(d)[r] \cup Free(d, Rounds(d)[r])
  BY <1>2, <1>3 DEF Free
<1>5. /\ Rounds(d)[r + 1] \subseteq DOMAIN RoundOf(d)
      /\ Rounds(d)[r] \subseteq DOMAIN RoundOf(d)
  BY <1>1, RoundFacts
<1>6. \A n \in DOMAIN RoundOf(d) :
        /\ RoundOf(d)[n] \in 1..N
        /\ \A k \in 0..N : n \in Rounds(d)[k] <=> RoundOf(d)[n] <= k
  BY RoundOfIs DEF Graph
<1>7. ASSUME NEW n \in Free(d, Rounds(d)[r])
      PROVE  n \in DOMAIN RoundOf(d) /\ RoundOf(d)[n] = r + 1
  <2>1. n \in Rounds(d)[r + 1] /\ n \notin Rounds(d)[r] /\ n \in DOMAIN RoundOf(d)
    BY <1>4, <1>5, <1>7 DEF Free
  <2>2. RoundOf(d)[n] \in Nat /\ RoundOf(d)[n] <= r + 1 /\ ~(RoundOf(d)[n] <= r)
    BY <1>1, <1>6, <2>1
  <2> QED
    BY <1>1, <2>1, <2>2
<1> QED
  BY <1>1, <1>4, <1>5, <1>6, <1>7

\* Appending the sorted names of the next round keeps the order.
LEMMA RoundAppends ==
    ASSUME NEW d, Graph(d), NEW r \in 0..Cardinality(DOMAIN d), r < Cardinality(DOMAIN d),
           NEW q, Lists(q, Rounds(d)[r], Precedes(d))
    PROVE  /\ Lists(q \o Sorted(Free(d, Rounds(d)[r])), Rounds(d)[r + 1], Precedes(d))
           /\ Cardinality(Rounds(d)[r + 1]) =
                Cardinality(Rounds(d)[r]) + Cardinality(Free(d, Rounds(d)[r]))
<1> DEFINE A == Rounds(d)[r]
           C == Free(d, A)
           B == Rounds(d)[r + 1]
           p == Sorted(C)
           g == RoundOf(d)
<1>1. /\ B = A \cup C /\ A \cap C = {}
      /\ \A n \in C : n \in DOMAIN g /\ g[n] = r + 1
      /\ \A n \in A : g[n] <= r
  BY NextRound DEF Free
<1>2. IsFiniteSet(A) /\ IsFiniteSet(C) /\ C \subseteq Nat /\ A \subseteq DOMAIN g
      /\ Orders(Precedes(d), A)
  BY RoundFacts
<1>3. Cardinality(A) \in Nat /\ Cardinality(C) \in Nat
  BY <1>2, FS_CardinalityType
<1>4. Cardinality(B) = Cardinality(A) + Cardinality(C)
  <2>1. Cardinality(A \cup C) = Cardinality(A) + Cardinality(C) - Cardinality({})
    BY <1>1, <1>2, FS_Union
  <2> QED
    BY <1>1, <1>3, <2>1, FS_EmptySet
<1>5. q \in Seq(A) /\ Len(q) = Cardinality(A)
  BY <1>2, ListIs
<1>6. /\ p \in Seq(C) /\ Len(p) = Cardinality(C)
      /\ \A i, j \in DOMAIN p : i < j => p[i] < p[j]
  BY <1>2, SortedIs
<1>7. /\ \A n \in A : n \in DOMAIN g /\ g[n] \in Nat
      /\ r \in Nat
  <2>1. Cardinality(DOMAIN d) \in Nat
    BY FS_CardinalityType DEF Graph
  <2>2. \A n \in DOMAIN g : g[n] \in 1..Cardinality(DOMAIN d)
    BY RoundOfIs DEF Graph
  <2> QED
    BY <1>2, <2>1, <2>2
<1>8. \A x, y \in DOMAIN g : <<x, y>> \in Precedes(d) <=> Before(g, x, y)
  BY DEF Precedes
<1>9. \A i, j \in 1..Cardinality(A) : i < j => <<q[i], q[j]>> \in Precedes(d)
  BY DEF Lists
<1> HIDE DEF A, B, C, p, g
<1> DEFINE s == q \o p
<1>10. s \in Seq(B) /\ Len(s) = Cardinality(B)
  <2>1. q \in Seq(B) /\ p \in Seq(B)
    BY <1>1, <1>5, <1>6
  <2> QED
    BY <1>4, <1>5, <1>6, <2>1
<1>11. /\ \A i \in 1..Len(q) : s[i] = q[i] /\ q[i] \in A
       /\ \A i \in 1..Len(s) : i \notin 1..Len(q) =>
            i - Len(q) \in 1..Len(p) /\ s[i] = p[i - Len(q)] /\ p[i - Len(q)] \in C
  BY <1>5, <1>6
<1>12. Len(q) \in Nat /\ Len(p) \in Nat /\ DOMAIN p = 1..Len(p)
  BY <1>5, <1>6
<1> HIDE DEF s
<1>13. ASSUME NEW i \in 1..Len(s), NEW j \in 1..Len(s), i < j
       PROVE  <<s[i], s[j]>> \in Precedes(d)
  <2>1. CASE j \in 1..Len(q)
    <3>1. i \in 1..Len(q)
      BY <1>12, <1>13, <2>1
    <3> QED
      BY <1>5, <1>9, <1>11, <1>13, <2>1, <3>1
  <2>2. CASE i \in 1..Len(q) /\ j \notin 1..Len(q)
    <3>1. s[i] \in A /\ s[j] \in C
      BY <1>11, <2>2
    <3>2. g[s[i]] <= r /\ g[s[i]] \in Nat /\ g[s[j]] = r + 1
      BY <1>1, <1>7, <3>1
    <3>3. g[s[i]] < g[s[j]] /\ s[i] \in DOMAIN g /\ s[j] \in DOMAIN g
      BY <1>1, <1>7, <3>1, <3>2
    <3> QED
      BY <1>8, <3>3 DEF Before
  <2>3. CASE i \notin 1..Len(q) /\ j \notin 1..Len(q)
    <3>1. i - Len(q) < j - Len(q)
      BY <1>12, <1>13
    <3>2. s[i] < s[j] /\ s[i] \in C /\ s[j] \in C
      BY <1>6, <1>11, <1>12, <2>3, <3>1
    <3>3. s[i] \in DOMAIN g /\ s[j] \in DOMAIN g /\ g[s[i]] = g[s[j]]
      BY <1>1, <3>2
    <3> QED
      BY <1>8, <3>2, <3>3 DEF Before
  <2> QED
    BY <2>1, <2>2, <2>3
<1>14. Lists(s, B, Precedes(d))
  <2>1. s \in [1..Cardinality(B) -> B]
    BY <1>10
  <2> QED
    BY <1>10, <1>13, <2>1 DEF Lists
<1> QED
  BY <1>4, <1>14 DEF A, B, C, p, s

\* One round of the loop is one round.
LEMMA KahnAdvances ==
    ASSUME NEW d, Graph(d), NEW s, NEW r, KahnAt(d, s, r), s.current # <<>>
    PROVE  KahnAt(d, KahnStep(d, s), r + 1)
<1> DEFINE N == Cardinality(DOMAIN d)
           A == Rounds(d)[r]
           C == Free(d, A)
           B == Rounds(d)[r + 1]
           left == [n \in DOMAIN d |-> s.indegree[n] - Cardinality(d[n] \cap ToSet(s.current))]
<1>1. r \in 0..N /\ N \in Nat
  BY FS_CardinalityType DEF KahnAt, Graph
<1>2. /\ IsFiniteSet(A) /\ IsFiniteSet(C) /\ C \subseteq Nat /\ A \subseteq DOMAIN d
      /\ Cardinality(A) \in Nat /\ Cardinality(C) \in Nat
  BY <1>1, RoundFacts, FS_CardinalityType
<1>3. s.current = Sorted(C) /\ Lists(s.order, A, Precedes(d)) /\ r <= Cardinality(A)
      /\ s.indegree = [n \in DOMAIN d |-> Cardinality(d[n] \ A)]
  BY DEF KahnAt
<1>4. ToSet(s.current) = C /\ Len(s.current) = Cardinality(C) /\ s.current \in Seq(C)
  BY <1>2, <1>3, SortedIs
<1>5. C # {} /\ Cardinality(C) >= 1
  <2>1. Len(s.current) # 0
    BY <1>4
  <2> QED
    BY <1>2, <1>4, <2>1, FS_EmptySet
<1>6. r < N
  <2>1. C \subseteq DOMAIN d /\ A \cap C = {}
    BY DEF Free
  <2>2. A # DOMAIN d
    BY <1>5, <2>1
  <2>3. Cardinality(A) <= N /\ Cardinality(A) # N
    BY <1>2, <2>2, FS_Subset DEF Graph
  <2> QED
    BY <1>1, <1>2, <1>3, <2>3
<1>7. /\ r + 1 \in 0..N /\ B = A \cup C
  BY <1>1, <1>6, NextRound
<1>8. /\ Lists(s.order \o s.current, B, Precedes(d))
      /\ Cardinality(B) = Cardinality(A) + Cardinality(C)
  BY <1>1, <1>3, <1>6, RoundAppends
<1>9. r + 1 <= Cardinality(B)
  BY <1>1, <1>2, <1>3, <1>5, <1>8
<1>10. ASSUME NEW n \in DOMAIN d PROVE left[n] = Cardinality(d[n] \ B)
  <2>1. s.indegree[n] = Cardinality(d[n] \ A)
    BY <1>3
  <2>2. IsFiniteSet(d[n] \ A)
    BY FS_Difference DEF Graph
  <2>3. Cardinality((d[n] \ A) \ C) = Cardinality(d[n] \ A) - Cardinality((d[n] \ A) \cap C)
    BY <2>2, FS_Difference
  <2>4. (d[n] \ A) \ C = d[n] \ B /\ (d[n] \ A) \cap C = d[n] \cap C
    BY <1>7 DEF Free
  <2> QED
    BY <1>4, <2>1, <2>3, <2>4
<1>11. left = [n \in DOMAIN d |-> Cardinality(d[n] \ B)]
  BY <1>10
<1>12. {n \in DOMAIN d : s.indegree[n] > 0 /\ left[n] = 0} = Free(d, B)
  <2>1. ASSUME NEW n \in DOMAIN d
        PROVE  /\ s.indegree[n] > 0 <=> ~(d[n] \subseteq A)
               /\ left[n] = 0 <=> d[n] \subseteq B
    <3>1. s.indegree[n] = Cardinality(d[n] \ A) /\ left[n] = Cardinality(d[n] \ B)
      BY <1>3, <1>10
    <3>2. IsFiniteSet(d[n] \ A) /\ IsFiniteSet(d[n] \ B)
      BY FS_Difference DEF Graph
    <3>3. Cardinality(d[n] \ A) \in Nat /\ Cardinality(d[n] \ B) \in Nat
      BY <3>2, FS_CardinalityType
    <3>4. /\ Cardinality(d[n] \ A) = 0 <=> d[n] \ A = {}
          /\ Cardinality(d[n] \ B) = 0 <=> d[n] \ B = {}
      BY <3>2, FS_EmptySet
    <3> HIDE DEF left, A, B
    <3> QED
      BY <3>1, <3>3, <3>4
  <2>2. \A n \in DOMAIN d : n \in B <=> d[n] \subseteq A
    <3>1. r + 1 \in 1..N /\ (r + 1) - 1 = r
      BY <1>1, <1>6
    <3> QED
      BY <3>1, RoundsAre DEF Graph
  <2> HIDE DEF left, A, B, C
  <2> QED
    BY <2>1, <2>2 DEF Free
<1>13. KahnStep(d, s) = [indegree |-> left, order |-> s.order \o s.current,
                         current |-> Sorted(Free(d, B))]
  BY <1>12 DEF KahnStep
<1> HIDE DEF left, A, C
<1> QED
  BY <1>7, <1>8, <1>9, <1>11, <1>13 DEF KahnAt

\* Once no name is free, further rounds add nothing.
LEMMA NoMoreRounds ==
    ASSUME NEW d, Graph(d), NEW r \in 0..Cardinality(DOMAIN d), Free(d, Rounds(d)[r]) = {}
    PROVE  DOMAIN RoundOf(d) = Rounds(d)[r]
<1> DEFINE N == Cardinality(DOMAIN d)
           S == {k \in Nat : r + k <= N => Rounds(d)[r + k] = Rounds(d)[r]}
<1>1. N \in Nat /\ r \in Nat /\ r <= N
  BY FS_CardinalityType DEF Graph
<1>2. 0 \in S
  BY <1>1
<1>3. ASSUME NEW k \in Nat, k \in S PROVE k + 1 \in S
  <2> SUFFICES ASSUME r + (k + 1) <= N PROVE Rounds(d)[r + (k + 1)] = Rounds(d)[r]
    OBVIOUS
  <2>1. r + k \in 0..N /\ r + k < N /\ (r + k) + 1 = r + (k + 1) /\ r + k <= N
    BY <1>1
  <2>2. Rounds(d)[r + k] = Rounds(d)[r]
    BY <1>3, <2>1
  <2>3. Rounds(d)[(r + k) + 1] = Rounds(d)[r + k] \cup Free(d, Rounds(d)[r + k])
    BY <2>1, NextRound
  <2> QED
    BY <2>1, <2>2, <2>3
<1>4. N - r \in S
  <2>1. N - r \in Nat
    BY <1>1
  <2> HIDE DEF S
  <2> QED
    BY <1>2, <1>3, <2>1, Induction
<1>5. r + (N - r) = N
  BY <1>1
<1>6. Rounds(d)[N] = Rounds(d)[r]
  BY <1>1, <1>4, <1>5
<1> QED
  BY <1>6, RoundOfIs DEF Graph

\* When the loop ends, the order lists the names that some round orders, and
\* these are all of them exactly if there is no cycle.
LEMMA LoopEnds ==
    ASSUME NEW d, Graph(d), NEW s, NEW r, KahnAt(d, s, r), s.current = <<>>
    PROVE  /\ Lists(s.order, DOMAIN RoundOf(d), Precedes(d))
           /\ Len(s.order) = Cardinality(DOMAIN RoundOf(d))
           /\ AllOrdered(d, s) <=> DOMAIN RoundOf(d) = DOMAIN d
           /\ AllOrdered(d, s) <=> Acyclic(d)
<1> DEFINE A == Rounds(d)[r]
           g == RoundOf(d)
<1>1. r \in 0..Cardinality(DOMAIN d)
  BY DEF KahnAt
<1>2. /\ IsFiniteSet(A) /\ A \subseteq DOMAIN d /\ Orders(Precedes(d), A)
      /\ IsFiniteSet(Free(d, A)) /\ Free(d, A) \subseteq Nat
  BY <1>1, RoundFacts
<1>3. Free(d, A) = {}
  <2>1. s.current = Sorted(Free(d, A))
    BY DEF KahnAt
  <2>2. Len(Sorted(Free(d, A))) = Cardinality(Free(d, A))
    BY <1>2, SortedIs
  <2>3. Len(s.current) = 0
    OBVIOUS
  <2>4. Cardinality(Free(d, A)) = 0
    BY <2>1, <2>2, <2>3
  <2> QED
    BY <1>2, <2>4, FS_EmptySet
<1>4. DOMAIN g = A
  BY <1>1, <1>3, NoMoreRounds
<1>5. Lists(s.order, A, Precedes(d))
  BY DEF KahnAt
<1>6. Len(s.order) = Cardinality(A)
  BY <1>2, <1>5, ListIs
<1>7. AllOrdered(d, s) <=> A = DOMAIN d
  <2>1. Cardinality(A) = Cardinality(DOMAIN d) <=> A = DOMAIN d
    BY <1>2, FS_Subset DEF Graph
  <2> QED
    BY <1>6, <2>1 DEF AllOrdered
<1>8. ASSUME Acyclic(d) PROVE A = DOMAIN d
  <2> SUFFICES ASSUME DOMAIN d \ A # {} PROVE FALSE
    BY <1>2
  <2>1. PICK n \in DOMAIN d \ A : d[n] \cap (DOMAIN d \ A) = {}
    BY <1>8 DEF Acyclic
  <2>2. n \in Free(d, A)
    BY <2>1 DEF Free, Graph
  <2> QED
    BY <1>3, <2>2
<1>9. ASSUME A = DOMAIN d PROVE Acyclic(d)
  <2> SUFFICES ASSUME NEW S \in SUBSET DOMAIN d, S # {}
               PROVE  \E n \in S : d[n] \cap S = {}
    BY DEF Acyclic
  <2> DEFINE T == {g[n] : n \in S}
  <2>1. \A n \in S : n \in DOMAIN g /\ g[n] \in Nat
    <3>1. Cardinality(DOMAIN d) \in Nat
      BY FS_CardinalityType DEF Graph
    <3> QED
      BY <1>4, <1>9, <3>1, RoundOfIs DEF Graph
  <2>2. T \in SUBSET Nat /\ T # {}
    BY <2>1
  <2>3. PICK t \in T : \A k \in T : t <= k
    <3> HIDE DEF T
    <3> QED
      BY <2>2, LeastNumber
  <2>4. PICK n \in S : \A m \in S : g[n] <= g[m]
    BY <2>3
  <2>5. \A x \in d[n] : g[x] < g[n]
    BY <2>1, RoundStep DEF Graph
  <2>6. \A x \in d[n] : x \notin S
    BY <2>1, <2>4, <2>5
  <2> QED
    BY <2>6
<1> QED
  BY <1>4, <1>5, <1>6, <1>7, <1>8, <1>9

\* A well-formed list makes a graph.
LEMMA ListMakesGraph ==
    ASSUME NEW ts \in Seq(Declarations), WellFormed(ts)
    PROVE  Graph(Dependencies(ts)) /\ DOMAIN Dependencies(ts) = Names(ts)
<1> DEFINE d == Dependencies(ts)
<1>1. DOMAIN d = Names(ts)
  BY DEF Dependencies
<1>2. ASSUME NEW n \in Names(ts) PROVE IsFiniteSet(d[n]) /\ d[n] \subseteq Names(ts)
  <2> DEFINE i == CHOOSE i \in DOMAIN ts : ts[i].name = n
  <2>1. i \in DOMAIN ts
    BY DEF Names
  <2>2. d[n] = ToSet(ts[i].deps)
    BY DEF Dependencies
  <2> HIDE DEF i
  <2>3. ts[i].deps \in Seq(Nat)
    BY <2>1, ListShape
  <2>4. IsFiniteSet(ToSet(ts[i].deps))
    BY <2>3, DistinctCount
  <2>5. ToSet(ts[i].deps) \subseteq Names(ts)
    BY <2>1 DEF WellFormed
  <2> QED
    BY <2>2, <2>4, <2>5
<1> QED
  BY <1>1, <1>2, ListShape DEF Graph

-----------------------------------------------------------------------------
(* The inductive invariant.                                                *)

\* computeOrder has done some number of rounds.
InRounds == \E r \in 0..Cardinality(DOMAIN deps) : KahnAt(deps, kahn, r)

\* computeOrder is through.
Ordered == FirstFault(tasks) = NoFault /\ InRounds /\ kahn.current = <<>>

\* computeLevels has given the first m names of the order the numbers of the
\* rounds that ordered them, counted from zero.
LevelsAt(m) ==
    /\ m \in 0..Len(kahn.order)
    /\ DOMAIN levels = {kahn.order[i] : i \in 1..m} /\ Cardinality(DOMAIN levels) = m
    /\ \A n \in DOMAIN levels : levels[n] = RoundOf(deps)[n] - 1

\* What Build knows when it returns.
Outcome ==
    \/ reason = FirstFault(tasks) /\ reason # NoFault /\ kahn.order = <<>>
    \/ reason = "CyclicDependency" /\ Ordered /\ ~AllOrdered(deps, kahn)
    \/ reason = NoFault /\ Ordered /\ AllOrdered(deps, kahn) /\ LevelsAt(Len(kahn.order))

\* What each part of Build has established when the next one starts.
BuildInv ==
    /\ tasks \in Inputs
    /\ pc \in {"check", "order", "levels", "done"}
    /\ pc = "check" => kahn.order = <<>> /\ levels = <<>> /\ reason = NoFault
    /\ pc = "order" =>
         FirstFault(tasks) = NoFault /\ InRounds /\ levels = <<>> /\ reason = NoFault
    /\ pc = "levels" =>
         /\ Ordered /\ AllOrdered(deps, kahn) /\ reason = NoFault
         /\ LevelsAt(Cardinality(DOMAIN levels))
    /\ pc = "done" => Outcome

\* The graph that Build works on once the checks have passed.
LEMMA BuildsGraph ==
    ASSUME tasks \in Inputs, FirstFault(tasks) = NoFault
    PROVE  WellFormed(tasks) /\ Graph(deps) /\ DOMAIN deps = Names(tasks)
<1>1. tasks \in Seq(Declarations)
  BY InputsAssumption
<1>2. WellFormed(tasks)
  BY <1>1, ChecksExact
<1> QED
  BY <1>1, <1>2, ListMakesGraph DEF deps

\* The order that computeOrder returns when it has ordered every name.
LEMMA OrderedIs ==
    ASSUME tasks \in Inputs, Ordered
    PROVE  /\ Lists(kahn.order, DOMAIN RoundOf(deps), Precedes(deps))
           /\ IsFiniteSet(DOMAIN RoundOf(deps)) /\ Orders(Precedes(deps), DOMAIN RoundOf(deps))
           /\ kahn.order \in Seq(DOMAIN RoundOf(deps)) /\ Len(kahn.order) \in Nat
           /\ ToSet(kahn.order) = DOMAIN RoundOf(deps)
           /\ \A i, j \in DOMAIN kahn.order : kahn.order[i] = kahn.order[j] => i = j
           /\ AllOrdered(deps, kahn) <=> DOMAIN RoundOf(deps) = DOMAIN deps
           /\ AllOrdered(deps, kahn) <=> Acyclic(deps)
<1>1. Graph(deps)
  BY BuildsGraph DEF Ordered
<1>2. PICK r : KahnAt(deps, kahn, r)
  BY DEF Ordered, InRounds
<1>3. kahn.current = <<>>
  BY DEF Ordered
<1>4. /\ Lists(kahn.order, DOMAIN RoundOf(deps), Precedes(deps))
      /\ AllOrdered(deps, kahn) <=> DOMAIN RoundOf(deps) = DOMAIN deps
      /\ AllOrdered(deps, kahn) <=> Acyclic(deps)
  BY <1>1, <1>2, <1>3, LoopEnds
<1>5. IsFiniteSet(DOMAIN RoundOf(deps)) /\ Orders(Precedes(deps), DOMAIN RoundOf(deps))
  BY <1>1, RoundOfIs, PrecedesOrders, FS_Subset DEF Graph
<1>6. /\ kahn.order \in Seq(DOMAIN RoundOf(deps)) /\ ToSet(kahn.order) = DOMAIN RoundOf(deps)
      /\ \A i, j \in DOMAIN kahn.order : kahn.order[i] = kahn.order[j] => i = j
  BY <1>4, <1>5, ListIs
<1>7. Len(kahn.order) \in Nat
  BY <1>6
<1> QED
  BY <1>4, <1>5, <1>6, <1>7

\* In the order, a name comes after its dependencies.
LEMMA OrderFollows ==
    ASSUME NEW d, Graph(d), NEW r \in 0..Cardinality(DOMAIN d), NEW q,
           Lists(q, Rounds(d)[r], Precedes(d))
    PROVE  /\ \A a, b \in DOMAIN q : q[a] = q[b] => a = b
           /\ \A b \in DOMAIN q : \A x \in d[q[b]] : \E a \in 1..(b - 1) : q[a] = x
<1> DEFINE A == Rounds(d)[r]
           g == RoundOf(d)
<1>1. /\ IsFiniteSet(A) /\ Orders(Precedes(d), A) /\ A \subseteq DOMAIN g
      /\ Cardinality(DOMAIN d) \in Nat
  BY RoundFacts, FS_CardinalityType DEF Graph
<1>2. /\ q \in Seq(A) /\ ToSet(q) = A /\ Len(q) = Cardinality(A)
      /\ \A a, b \in DOMAIN q : q[a] = q[b] => a = b
  BY <1>1, ListIs
<1>3. ASSUME NEW b \in DOMAIN q, NEW x \in d[q[b]] PROVE \E a \in 1..(b - 1) : q[a] = x
  <2>1. q[b] \in A /\ q[b] \in DOMAIN g
    BY <1>1, <1>2
  <2>2. x \in DOMAIN g /\ g[x] < g[q[b]]
    BY <2>1, RoundStep DEF Graph
  <2>3. g[x] \in Nat /\ g[q[b]] \in Nat /\ r \in Nat
    BY <1>1, <2>1, <2>2, RoundOfIs DEF Graph
  <2>4. g[q[b]] <= r
    BY <2>1, RoundOfIs DEF Graph
  <2>5. g[x] <= r
    BY <2>2, <2>3, <2>4
  <2>6. x \in A
    BY <2>2, <2>5, RoundOfIs DEF Graph
  <2>7. PICK a \in DOMAIN q : q[a] = x
    BY <1>2, <2>6 DEF ToSet
  <2>8. a \in 1..Len(q) /\ b \in 1..Len(q) /\ Len(q) \in Nat
    BY <1>2
  <2>9. a # b
    BY <2>2, <2>3, <2>7
  <2>10. ~(b < a)
    <3> SUFFICES ASSUME b < a PROVE FALSE
      OBVIOUS
    <3>1. <<q[b], x>> \in Precedes(d)
      BY <1>2, <2>7, <2>8 DEF Lists
    <3>2. Before(g, q[b], x)
      BY <3>1 DEF Precedes
    <3> QED
      BY <2>2, <2>3, <3>2 DEF Before
  <2> QED
    BY <2>7, <2>8, <2>9, <2>10
<1> QED
  BY <1>2, <1>3

\* computeLevels gives the next name the number of its round.
LEMMA LevelIsRound ==
    ASSUME NEW d, Graph(d), NEW n \in DOMAIN RoundOf(d), NEW f,
           \A x \in d[n] : f[x] = RoundOf(d)[x] - 1
    PROVE  LevelOf(d, f, n) = RoundOf(d)[n] - 1
<1> DEFINE g == RoundOf(d)
           T == {f[x] : x \in d[n]}
<1>0. Cardinality(DOMAIN d) \in Nat
  BY FS_CardinalityType DEF Graph
<1>1. \A x \in DOMAIN g : g[x] \in Nat /\ g[x] >= 1
  BY <1>0, RoundOfIs DEF Graph
<1>2. /\ \A x \in d[n] : x \in DOMAIN g /\ g[x] < g[n]
      /\ g[n] > 1 => \E x \in d[n] : g[x] = g[n] - 1
  BY RoundStep DEF Graph
<1>3. CASE d[n] = {}
  <2>1. g[n] = 1
    BY <1>1, <1>2, <1>3
  <2> QED
    BY <1>3, <2>1 DEF LevelOf
<1>4. CASE d[n] # {}
  <2>1. T \in SUBSET Nat /\ T # {}
    BY <1>1, <1>2, <1>4
  <2>2. IsFiniteSet(T)
    <3>1. n \in DOMAIN d
      BY RoundOfIs DEF Graph
    <3>2. IsFiniteSet(d[n])
      BY <3>1 DEF Graph
    <3> DEFINE h == [x \in d[n] |-> f[x]]
    <3>3. h \in Surjection(d[n], T)
      BY DEF Surjection
    <3> HIDE DEF h, T
    <3> QED
      BY <3>2, <3>3, FS_Surjection
  <2>3. Max(T) \in T /\ \A k \in T : k <= Max(T)
    <3> HIDE DEF T
    <3> QED
      BY <2>1, <2>2, MaxIs
  <2>4. PICK x \in d[n] : Max(T) = g[x] - 1
    BY <2>3
  <2>5. g[n] > 1
    BY <1>1, <1>2, <2>4
  <2>6. PICK y \in d[n] : g[y] = g[n] - 1
    BY <1>2, <2>5
  <2>7. f[y] \in T /\ f[y] = g[n] - 2
    BY <1>1, <2>6
  <2>8. g[n] - 2 <= Max(T)
    BY <2>3, <2>7
  <2>9. Max(T) = g[n] - 2
    <3>1. g[x] \in Nat /\ g[n] \in Nat /\ g[x] < g[n]
      BY <1>1, <1>2
    <3> QED
      BY <2>4, <2>8, <3>1
  <2>10. LevelOf(d, f, n) = 1 + Max(T)
    BY <1>4 DEF LevelOf
  <2>11. g[n] \in Nat
    BY <1>1
  <2> HIDE DEF T, g
  <2> QED
    BY <2>9, <2>10, <2>11 DEF g
<1> QED
  BY <1>3, <1>4

\* Level scans one more name.
LEMMA LevelAdvances ==
    ASSUME BuildInv, Level
    PROVE  LevelsAt(Cardinality(DOMAIN levels))'
<1> DEFINE q == kahn.order
           m == Cardinality(DOMAIN levels)
           n == q[m + 1]
           g == RoundOf(deps)
<1>1. /\ Ordered /\ LevelsAt(m) /\ tasks \in Inputs
      /\ m < Len(q) /\ kahn' = kahn /\ tasks' = tasks /\ deps' = deps
      /\ levels' = [x \in DOMAIN levels \cup {n} |->
                        IF x = n THEN LevelOf(deps, levels, n) ELSE levels[x]]
  BY DEF BuildInv, Level, deps
<1>2. /\ q \in Seq(DOMAIN g) /\ Len(q) \in Nat
      /\ \A i, j \in DOMAIN q : q[i] = q[j] => i = j
  BY <1>1, OrderedIs
<1>3. /\ m \in 0..Len(q) /\ DOMAIN levels = {q[i] : i \in 1..m}
      /\ \A x \in DOMAIN levels : levels[x] = g[x] - 1
  BY <1>1 DEF LevelsAt
<1>4. m \in Nat /\ m + 1 \in 1..Len(q) /\ DOMAIN q = 1..Len(q) /\ n \in DOMAIN g
  BY <1>1, <1>2, <1>3
<1>5. n \notin DOMAIN levels
  <2> SUFFICES ASSUME NEW i \in 1..m, q[i] = n PROVE FALSE
    BY <1>3
  <2>1. i \in 1..Len(q) /\ i # m + 1
    BY <1>4
  <2> QED
    BY <1>2, <1>4, <2>1
<1>6. DOMAIN levels' = DOMAIN levels \cup {n}
  BY <1>1
<1>7. DOMAIN levels' = {q[i] : i \in 1..(m + 1)}
  <2>1. 1..(m + 1) = 1..m \cup {m + 1}
    BY <1>4
  <2> HIDE DEF m, q
  <2> QED
    BY <1>3, <1>6, <2>1 DEF m, q
<1>8. Cardinality(DOMAIN levels') = m + 1
  <2>1. IsFiniteSet(DOMAIN levels)
    <3>1. DOMAIN levels \subseteq DOMAIN g
      <4>1. \A i \in 1..m : q[i] \in DOMAIN g
        BY <1>2, <1>4
      <4> QED
        BY <1>3, <4>1
    <3> QED
      BY <1>1, <3>1, OrderedIs, FS_Subset
  <2> QED
    BY <1>5, <1>6, <2>1, FS_AddElement
<1>9. LevelOf(deps, levels, n) = g[n] - 1
  <2>1. Graph(deps)
    BY <1>1, BuildsGraph DEF Ordered
  <2>2. PICK r \in 0..Cardinality(DOMAIN deps) : KahnAt(deps, kahn, r)
    BY <1>1 DEF Ordered, InRounds
  <2>3. \A b \in DOMAIN q : \A x \in deps[q[b]] : \E a \in 1..(b - 1) : q[a] = x
    <3>1. Lists(q, Rounds(deps)[r], Precedes(deps))
      BY <2>2 DEF KahnAt
    <3> QED
      BY <2>1, <3>1, OrderFollows
  <2>4. \A x \in deps[n] : \E a \in 1..((m + 1) - 1) : q[a] = x
    BY <1>4, <2>3
  <2>5. (m + 1) - 1 = m
    BY <1>4
  <2>6. \A x \in deps[n] : x \in DOMAIN levels
    BY <1>3, <2>4, <2>5
  <2> QED
    BY <1>3, <1>4, <2>1, <2>6, LevelIsRound
<1>10. \A x \in DOMAIN levels' : levels'[x] = g[x] - 1
  BY <1>1, <1>3, <1>5, <1>6, <1>9
<1>11. m + 1 \in 0..Len(q)
  BY <1>4
<1>12. PICK c : c = m + 1
  OBVIOUS
<1>13. /\ Cardinality(DOMAIN levels') = c
       /\ c \in 0..Len(kahn'.order)
       /\ DOMAIN levels' = {kahn'.order[i] : i \in 1..c}
       /\ \A x \in DOMAIN levels' : levels'[x] = RoundOf(deps')[x] - 1
  <2>1. Cardinality(DOMAIN levels') = c /\ c \in 0..Len(kahn'.order)
    BY <1>1, <1>8, <1>11, <1>12
  <2>2. DOMAIN levels' = {kahn'.order[i] : i \in 1..c}
    BY <1>1, <1>7, <1>12, Zenon
  <2>3. \A x \in DOMAIN levels' : levels'[x] = RoundOf(deps')[x] - 1
    BY <1>1, <1>10, Zenon
  <2> QED
    BY <2>1, <2>2, <2>3
<1> QED
  BY <1>13 DEF LevelsAt

\* BuildInv holds at every moment of Build.
THEOREM BuildInductive == Spec => []BuildInv
<1>1. Init => BuildInv
  BY DEF Init, BuildInv, NoFault
<1>2. ASSUME BuildInv, [Next]_vars PROVE BuildInv'
  <2>0. tasks \in Inputs /\ tasks' = tasks /\ deps' = deps
    <3>1. tasks' = tasks
      BY <1>2 DEF Next, vars, Check, Round, EndOrder, Level, EndLevels
    <3> QED
      BY <1>2, <3>1 DEF BuildInv, deps
  <2>1. CASE Check /\ FirstFault(tasks) # NoFault
    BY <1>2, <2>0, <2>1 DEF BuildInv, Check, Reject, Outcome
  <2>2. CASE Check /\ FirstFault(tasks) = NoFault
    <3>1. KahnAt(deps, KahnStart(deps), 0)
      BY <2>0, <2>2, BuildsGraph, KahnStarts
    <3>2. 0 \in 0..Cardinality(DOMAIN deps)
      BY <3>1 DEF KahnAt
    <3>3. pc' = "order" /\ kahn' = KahnStart(deps) /\ reason' = reason /\ levels' = levels /\ pc = "check"
      BY <2>2 DEF Check
    <3>4. InRounds'
      BY <2>0, <3>1, <3>2, <3>3 DEF InRounds
    <3> QED
      BY <1>2, <2>0, <2>2, <3>3, <3>4 DEF BuildInv
  <2>3. CASE Round
    <3>1. pc = "order" /\ pc' = pc /\ levels' = levels /\ reason' = reason
          /\ kahn' = KahnStep(deps, kahn) /\ kahn.current # <<>>
      BY <2>3 DEF Round
    <3>2. FirstFault(tasks) = NoFault /\ InRounds
      BY <1>2, <3>1 DEF BuildInv
    <3>3. PICK r : KahnAt(deps, kahn, r)
      BY <3>2 DEF InRounds
    <3>4. KahnAt(deps, kahn', r + 1)
      BY <2>0, <3>1, <3>2, <3>3, BuildsGraph, KahnAdvances
    <3>5. r + 1 \in 0..Cardinality(DOMAIN deps)
      BY <3>4 DEF KahnAt
    <3>6. InRounds'
      BY <2>0, <3>4, <3>5 DEF InRounds
    <3> QED
      BY <1>2, <2>0, <3>1, <3>2, <3>6 DEF BuildInv
  <2>4. CASE EndOrder
    <3>1. pc = "order" /\ kahn' = kahn /\ levels' = levels /\ kahn.current = <<>>
      BY <2>4 DEF EndOrder
    <3>2. Ordered /\ reason = NoFault /\ levels = <<>>
      BY <1>2, <3>1 DEF BuildInv, Ordered
    <3>3. Ordered' /\ (AllOrdered(deps, kahn))' = AllOrdered(deps, kahn)
      BY <2>0, <3>1, <3>2 DEF Ordered, InRounds
    <3>4. CASE AllOrdered(deps, kahn)
      <4>1. pc' = "levels" /\ reason' = reason
        BY <2>4, <3>4 DEF EndOrder
      <4>2. Cardinality(DOMAIN levels) = 0 /\ DOMAIN levels = {}
        BY <3>2, FS_EmptySet
      <4>3. Len(kahn.order) \in Nat
        BY <2>0, <3>2, OrderedIs
      <4>4. LevelsAt(0)
        <5>1. 0 \in 0..Len(kahn.order) /\ 1..0 = {}
          BY <4>3
        <5> QED
          BY <4>2, <5>1 DEF LevelsAt
      <4>5. LevelsAt(Cardinality(DOMAIN levels))'
        BY <2>0, <3>1, <4>2, <4>4 DEF LevelsAt
      <4> QED
        BY <2>0, <3>2, <3>3, <3>4, <4>1, <4>5 DEF BuildInv
    <3>5. CASE ~AllOrdered(deps, kahn)
      <4>1. pc' = "done" /\ reason' = "CyclicDependency"
        BY <2>4, <3>5 DEF EndOrder, Reject
      <4> QED
        BY <2>0, <3>3, <3>5, <4>1 DEF BuildInv, Outcome
    <3> QED
      BY <3>4, <3>5
  <2>5. CASE Level
    <3>1. pc = "levels" /\ pc' = pc /\ kahn' = kahn /\ reason' = reason
      BY <2>5 DEF Level
    <3>2. Ordered /\ AllOrdered(deps, kahn) /\ reason = NoFault
      BY <1>2, <3>1 DEF BuildInv
    <3>3. Ordered' /\ AllOrdered(deps, kahn)'
      BY <2>0, <3>1, <3>2 DEF Ordered, InRounds
    <3>4. LevelsAt(Cardinality(DOMAIN levels))'
      BY <1>2, <2>5, LevelAdvances
    <3> QED
      BY <2>0, <3>1, <3>2, <3>3, <3>4 DEF BuildInv
  <2>6. CASE EndLevels
    <3>1. pc = "levels" /\ pc' = "done" /\ kahn' = kahn /\ reason' = reason /\ levels' = levels
          /\ Cardinality(DOMAIN levels) = Len(kahn.order)
      BY <2>6 DEF EndLevels
    <3>2. /\ Ordered /\ AllOrdered(deps, kahn) /\ reason = NoFault
          /\ LevelsAt(Len(kahn.order))
      BY <1>2, <3>1 DEF BuildInv
    <3>3. Ordered' /\ AllOrdered(deps, kahn)'
      BY <2>0, <3>1, <3>2 DEF Ordered, InRounds
    <3>4. LevelsAt(Len(kahn.order))'
      BY <2>0, <3>1, <3>2 DEF LevelsAt
    <3> QED
      BY <2>0, <3>1, <3>2, <3>3, <3>4 DEF BuildInv, Outcome
  <2>7. CASE UNCHANGED vars
    <3>1. pc' = pc /\ kahn' = kahn /\ reason' = reason /\ levels' = levels
      BY <2>7 DEF vars
    <3>2. /\ InRounds' = InRounds /\ Ordered' = Ordered
          /\ AllOrdered(deps, kahn)' = AllOrdered(deps, kahn)
          /\ LevelsAt(Cardinality(DOMAIN levels))' = LevelsAt(Cardinality(DOMAIN levels))
          /\ LevelsAt(Len(kahn.order))' = LevelsAt(Len(kahn.order))
      BY <2>0, <3>1 DEF InRounds, Ordered, LevelsAt
    <3>3. Outcome' = Outcome
      BY <2>0, <3>1, <3>2 DEF Outcome
    <3> QED
      BY <1>2, <2>0, <3>1, <3>2, <3>3 DEF BuildInv
  <2> QED
    BY <1>2, <2>1, <2>2, <2>3, <2>4, <2>5, <2>6, <2>7 DEF Next
<1> QED
  BY <1>1, <1>2, PTL DEF Spec

-----------------------------------------------------------------------------
(* The properties.                                                         *)

\* Build accepts exactly the lists that are well formed and have no dependency
\* cycle, and reports a cycle only where there is one: for every list.
THEOREM AcceptsExactlyTheRunnable == Spec => []AcceptsExactly
<1>1. ASSUME BuildInv PROVE AcceptsExactly
  <2> SUFFICES ASSUME pc = "done"
               PROVE  /\ reason = NoFault <=> (WellFormed(tasks) /\ Acyclic(deps))
                      /\ reason = "CyclicDependency" <=> (WellFormed(tasks) /\ ~Acyclic(deps))
    BY DEF AcceptsExactly
  <2>1. tasks \in Inputs /\ tasks \in Seq(Declarations) /\ Outcome
    BY <1>1, InputsAssumption DEF BuildInv
  <2>2. /\ FirstFault(tasks) = NoFault <=> WellFormed(tasks)
        /\ FirstFault(tasks) # "CyclicDependency"
    BY <2>1, ChecksExact, FirstFaultIs
  <2>3. Ordered => WellFormed(tasks) /\ (AllOrdered(deps, kahn) <=> Acyclic(deps))
    BY <2>1, <2>2, OrderedIs DEF Ordered
  <2> QED
    BY <2>1, <2>2, <2>3 DEF Outcome, NoFault
<1> QED
  BY <1>1, BuildInductive, PTL

\* At every moment the order lists each name once and after its dependencies;
\* in the end it is complete and is the order that Order defines.
THEOREM OrderIsTopological == Spec => []Topological
<1>1. ASSUME BuildInv PROVE Topological
  <2>1. tasks \in Inputs
    BY <1>1 DEF BuildInv
  <2>2. kahn.order = <<>> \/ (FirstFault(tasks) = NoFault /\ InRounds)
    BY <1>1 DEF BuildInv, Outcome, Ordered
  <2>3. /\ \A a, b \in DOMAIN kahn.order : kahn.order[a] = kahn.order[b] => a = b
        /\ \A b \in DOMAIN kahn.order : \A d \in deps[kahn.order[b]] :
             \E a \in 1..(b - 1) : kahn.order[a] = d
    <3>1. CASE kahn.order = <<>>
      <4>1. DOMAIN kahn.order = {}
        BY <3>1
      <4> QED
        BY <4>1
    <3>2. CASE FirstFault(tasks) = NoFault /\ InRounds
      <4>1. PICK r \in 0..Cardinality(DOMAIN deps) : KahnAt(deps, kahn, r)
        BY <3>2 DEF InRounds
      <4>2. Lists(kahn.order, Rounds(deps)[r], Precedes(deps))
        BY <4>1 DEF KahnAt
      <4> QED
        BY <2>1, <3>2, <4>2, BuildsGraph, OrderFollows
    <3> QED
      BY <2>2, <3>1, <3>2
  <2>4. ASSUME Built PROVE ToSet(kahn.order) = Names(tasks) /\ kahn.order = Order(tasks)
    <3>1. Ordered /\ AllOrdered(deps, kahn)
      BY <1>1, <2>4 DEF Built, BuildInv, Outcome, NoFault
    <3>2. tasks \in Seq(Declarations) /\ DOMAIN deps = Names(tasks)
      BY <2>1, <3>1, InputsAssumption, BuildsGraph DEF Ordered
    <3>3. Names(tasks) \subseteq Nat /\ IsFiniteSet(Names(tasks))
      BY <3>2, ListShape
    <3>4. Lists(Order(tasks), DOMAIN RoundOf(deps), Precedes(deps))
      BY <3>3, OrderIs DEF deps
    <3> QED
      BY <2>1, <3>1, <3>2, <3>4, OrderedIs, ListUnique
  <2> QED
    BY <2>3, <2>4 DEF Topological
<1> QED
  BY <1>1, BuildInductive, PTL

\* The levels are the rounds of the order: it runs level by level and by name
\* within a level, and each name is one level above its deepest dependency.
THEOREM LevelsAreRounds == Spec => []LevelsFollowOrder
<1>1. ASSUME BuildInv, Built PROVE LevelsFollowOrder
  <2> DEFINE q == kahn.order
             g == RoundOf(deps)
  <2>1. tasks \in Inputs /\ Ordered /\ AllOrdered(deps, kahn) /\ LevelsAt(Len(q))
    BY <1>1 DEF Built, BuildInv, Outcome, NoFault
  <2>2. /\ Lists(q, DOMAIN g, Precedes(deps)) /\ q \in Seq(DOMAIN g) /\ ToSet(q) = DOMAIN g
        /\ DOMAIN g = DOMAIN deps /\ IsFiniteSet(DOMAIN g) /\ Orders(Precedes(deps), DOMAIN g)
    BY <2>1, OrderedIs
  <2>3. Graph(deps) /\ DOMAIN deps = Names(tasks)
    BY <2>1, BuildsGraph DEF Ordered
  <2>4. DOMAIN levels = DOMAIN g /\ \A n \in DOMAIN g : levels[n] = g[n] - 1
    <3>1. DOMAIN q = 1..Len(q)
      BY <2>2
    <3>2. {q[i] : i \in 1..Len(q)} = DOMAIN g
      BY <2>2, <3>1 DEF ToSet
    <3> QED
      BY <2>1, <3>2 DEF LevelsAt
  <2>5. \A n \in DOMAIN g : g[n] \in Nat /\ g[n] >= 1
    <3>1. Cardinality(DOMAIN deps) \in Nat
      BY <2>3, FS_CardinalityType DEF Graph
    <3> QED
      BY <2>3, <3>1, RoundOfIs DEF Graph
  <2>6. ASSUME NEW a \in DOMAIN q, NEW b \in DOMAIN q, a < b
        PROVE  levels[q[a]] < levels[q[b]] \/ (levels[q[a]] = levels[q[b]] /\ q[a] < q[b])
    <3>1. a \in 1..Cardinality(DOMAIN g) /\ b \in 1..Cardinality(DOMAIN g)
      BY <2>2 DEF Lists
    <3>2. <<q[a], q[b]>> \in Precedes(deps)
      BY <2>2, <2>6, <3>1 DEF Lists
    <3>3. Before(g, q[a], q[b]) /\ q[a] \in DOMAIN g /\ q[b] \in DOMAIN g
      BY <3>2 DEF Precedes
    <3> QED
      BY <2>4, <2>5, <3>3 DEF Before
  <2>7. ASSUME NEW n \in Names(tasks)
        PROVE  /\ \A d \in deps[n] : levels[d] < levels[n]
               /\ levels[n] > 0 => \E d \in deps[n] : levels[d] = levels[n] - 1
    <3>1. n \in DOMAIN g
      BY <2>2, <2>3
    <3>2. /\ \A x \in deps[n] : x \in DOMAIN g /\ g[x] < g[n]
          /\ g[n] > 1 => \E x \in deps[n] : g[x] = g[n] - 1
      BY <2>3, <3>1, RoundStep DEF Graph
    <3> QED
      BY <2>4, <2>5, <3>1, <3>2
  <2> QED
    BY <2>6, <2>7 DEF LevelsFollowOrder
<1>2. BuildInv => LevelsFollowOrder
  BY <1>1 DEF LevelsFollowOrder
<1> QED
  BY <1>2, BuildInductive, PTL
=============================================================================
