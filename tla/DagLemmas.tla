----------------------------- MODULE DagLemmas ------------------------------
(***************************************************************************)
(* Facts about the operators of Dag, for lists and graphs of any size:     *)
(* what sorting returns, the rounds of Kahn's algorithm, and the order     *)
(* they make.  Induction is over sets of numbers, since the provers do not *)
(* instantiate theorems that have an operator as a parameter.              *)
(***************************************************************************)
EXTENDS Dag, FiniteSetTheorems, FunctionTheorems, TLAPS

-----------------------------------------------------------------------------
(* Numbers.                                                                *)

\* Every nonempty set of natural numbers has a least element.
LEMMA LeastNumber ==
    ASSUME NEW T \in SUBSET Nat, T # {}
    PROVE  \E m \in T : \A k \in T : m <= k
<1> DEFINE Below(m) == 0..(m - 1)
           F == {Below(m) : m \in T}
<1>1. \A m \in Nat : IsFiniteSet(Below(m)) /\ Below(m) \subseteq Nat
  BY FS_Interval
<1>2. F \subseteq FiniteSubsetsOf(Nat)
  <2> SUFFICES ASSUME NEW m \in T PROVE Below(m) \in FiniteSubsetsOf(Nat)
    OBVIOUS
  <2>1. Below(m) \in SUBSET Nat /\ IsFiniteSet(Below(m))
    BY <1>1
  <2> HIDE DEF Below
  <2> QED
    BY <2>1 DEF FiniteSubsetsOf
<1>3. F # {}
  OBVIOUS
<1>4. PICK x \in F : \A y \in F : ~ (<<y, x>> \in StrictSubsetOrdering(Nat))
  <2> HIDE DEF F
  <2> QED
    BY <1>2, <1>3, FS_StrictSubsetOrderingWellFounded, WFMin
<1>5. PICK m \in T : x = Below(m)
  OBVIOUS
<1>6. ASSUME NEW k \in T, k < m PROVE FALSE
  <2>1. Below(k) \subseteq Below(m) /\ k \in Below(m) /\ k \notin Below(k) /\ Below(m) \subseteq Nat
    BY <1>6
  <2>2. <<Below(k), Below(m)>> \in StrictSubsetOrdering(Nat)
    <3> HIDE DEF Below
    <3> QED
      BY <2>1 DEF StrictSubsetOrdering
  <2> QED
    BY <1>4, <1>5, <2>2
<1> QED
  BY <1>5, <1>6

\* Induction over the natural numbers, on a set.
LEMMA Induction ==
    ASSUME NEW S, 0 \in S, \A n \in Nat : n \in S => n + 1 \in S
    PROVE  Nat \subseteq S
<1> SUFFICES ASSUME ~(Nat \subseteq S) PROVE FALSE
  OBVIOUS
<1>1. PICK m \in Nat \ S : \A k \in Nat \ S : m <= k
  BY LeastNumber
<1>2. m # 0 /\ m - 1 \in Nat
  BY <1>1
<1>3. m - 1 \in S
  BY <1>1, <1>2
<1> QED
  BY <1>1, <1>2, <1>3

\* Min of the library, where it is used on numbers.
LEMMA MinIs ==
    ASSUME NEW T \in SUBSET Nat, T # {}
    PROVE  Min(T) \in T /\ \A k \in T : Min(T) <= k
BY LeastNumber DEF Min

\* A nonempty finite set of natural numbers has a greatest element.
LEMMA MaxIs ==
    ASSUME NEW T \in SUBSET Nat, T # {}, IsFiniteSet(T)
    PROVE  Max(T) \in T /\ \A k \in T : k <= Max(T)
<1> DEFINE S == {n \in Nat : \A U \in SUBSET Nat :
                    IsFiniteSet(U) /\ Cardinality(U) = n /\ U # {} =>
                        \E m \in U : \A k \in U : k <= m}
<1>1. 0 \in S
  BY FS_EmptySet
<1>2. ASSUME NEW n \in Nat, n \in S PROVE n + 1 \in S
  <2> SUFFICES ASSUME NEW U \in SUBSET Nat, IsFiniteSet(U), Cardinality(U) = n + 1, U # {}
               PROVE  \E m \in U : \A k \in U : k <= m
    OBVIOUS
  <2>1. PICK x \in U : TRUE
    OBVIOUS
  <2>2. IsFiniteSet(U \ {x}) /\ Cardinality(U \ {x}) = n /\ U \ {x} \in SUBSET Nat
    <3>1. IsFiniteSet(U \ {x}) /\ Cardinality(U \ {x}) = Cardinality(U) - 1
      BY <2>1, FS_RemoveElement
    <3> QED
      BY <3>1
  <2>3. CASE U \ {x} = {}
    BY <2>3
  <2>4. CASE U \ {x} # {}
    <3>1. PICK m \in U \ {x} : \A k \in U \ {x} : k <= m
      BY <1>2, <2>2, <2>4
    <3>2. CASE x <= m
      BY <3>1, <3>2
    <3>3. CASE ~(x <= m)
      BY <3>1, <3>3
    <3> QED
      BY <3>2, <3>3
  <2> QED
    BY <2>3, <2>4
<1>3. Nat \subseteq S
  <2> HIDE DEF S
  <2> QED
    BY <1>1, <1>2, Induction
<1>4. Cardinality(T) \in S
  BY <1>3, FS_CardinalityType
<1>5. \E m \in T : \A k \in T : k <= m
  BY <1>4
<1> QED
  BY <1>5 DEF Max

-----------------------------------------------------------------------------
(* Enumerations.                                                           *)

\* A sequence without repetition that is as long as a finite set it is drawn
\* from lists the whole set.
LEMMA Exhausts ==
    ASSUME NEW T, IsFiniteSet(T), NEW q \in [1..Cardinality(T) -> T],
           \A i, j \in DOMAIN q : q[i] = q[j] => i = j
    PROVE  ToSet(q) = T /\ q \in Seq(T) /\ Len(q) = Cardinality(T)
<1>1. Cardinality(T) \in Nat
  BY FS_CardinalityType
<1>2. q \in Injection(1..Cardinality(T), T)
  BY Fun_IsInj
<1>3. IsFiniteSet(1..Cardinality(T)) /\ Cardinality(1..Cardinality(T)) = Cardinality(T)
  BY <1>1, FS_Interval
<1>4. q \in Surjection(1..Cardinality(T), T)
  BY <1>2, <1>3, FS_Injection
<1>5. \A t \in T : \E i \in 1..Cardinality(T) : q[i] = t
  BY <1>4 DEF Surjection
<1>6. ToSet(q) = T
  BY <1>5 DEF ToSet
<1> QED
  BY <1>1, <1>6

\* SetToSeq of the library lists a finite set.
LEMMA SetToSeqIs ==
    ASSUME NEW T, IsFiniteSet(T)
    PROVE  /\ SetToSeq(T) \in Seq(T) /\ ToSet(SetToSeq(T)) = T
           /\ \A i, j \in DOMAIN SetToSeq(T) : SetToSeq(T)[i] = SetToSeq(T)[j] => i = j
<1>1. PICK f : f \in Bijection(1..Cardinality(T), T)
  BY FS_CardinalityType, Fun_ExistsBij
<1>2. f \in [1..Cardinality(T) -> T] /\ \A a, b \in 1..Cardinality(T) : f[a] = f[b] => a = b
  BY <1>1, Fun_BijectionProperties
<1>3. f \in [1..Cardinality(T) -> T] /\ IsInjective(f)
  BY <1>2 DEF IsInjective
<1>4. SetToSeq(T) \in [1..Cardinality(T) -> T] /\ IsInjective(SetToSeq(T))
  BY <1>3 DEF SetToSeq
<1>5. \A i, j \in DOMAIN SetToSeq(T) : SetToSeq(T)[i] = SetToSeq(T)[j] => i = j
  BY <1>4 DEF IsInjective
<1> QED
  BY <1>4, <1>5, Exhausts

\* A sequence without repetition is as long as the set of its elements is large.
LEMMA DistinctCount ==
    ASSUME NEW R, NEW q \in Seq(R)
    PROVE  /\ IsFiniteSet(ToSet(q)) /\ Cardinality(ToSet(q)) <= Len(q)
           /\ (Cardinality(ToSet(q)) = Len(q)) <=> (\A i, j \in DOMAIN q : q[i] = q[j] => i = j)
<1>1. Len(q) \in Nat /\ DOMAIN q = 1..Len(q)
  OBVIOUS
<1>2. IsFiniteSet(1..Len(q)) /\ Cardinality(1..Len(q)) = Len(q)
  BY <1>1, FS_Interval
<1>3. q \in [1..Len(q) -> ToSet(q)]
  BY <1>1 DEF ToSet
<1>4. q \in Surjection(1..Len(q), ToSet(q))
  BY <1>1, <1>3, Fun_IsSurj DEF ToSet
<1>5. /\ IsFiniteSet(ToSet(q)) /\ Cardinality(ToSet(q)) <= Len(q)
      /\ (Cardinality(ToSet(q)) = Len(q)) <=> (q \in Injection(1..Len(q), ToSet(q)))
  BY <1>2, <1>4, FS_Surjection
<1>6. (q \in Injection(1..Len(q), ToSet(q))) <=> (\A i, j \in DOMAIN q : q[i] = q[j] => i = j)
  BY <1>1, <1>3, Fun_IsInj, Fun_InjectionProperties
<1> QED
  BY <1>5, <1>6

\* R is a strict total order on T.
Orders(R, T) ==
    /\ \A x \in T : <<x, x>> \notin R
    /\ \A x, y \in T : x # y => <<x, y>> \in R \/ <<y, x>> \in R
    /\ \A x, y, z \in T : <<x, y>> \in R /\ <<y, z>> \in R => <<x, z>> \in R

\* A finite set has a last element in every order.
LEMMA LastExists ==
    ASSUME NEW T, IsFiniteSet(T), T # {}, NEW R, Orders(R, T)
    PROVE  \E m \in T : \A k \in T \ {m} : <<k, m>> \in R
<1> DEFINE S == {n \in Nat : \A U \in SUBSET T :
                    IsFiniteSet(U) /\ Cardinality(U) = n /\ U # {} =>
                        \E m \in U : \A k \in U \ {m} : <<k, m>> \in R}
<1>1. 0 \in S
  BY FS_EmptySet
<1>2. ASSUME NEW n \in Nat, n \in S PROVE n + 1 \in S
  <2> SUFFICES ASSUME NEW U \in SUBSET T, IsFiniteSet(U), Cardinality(U) = n + 1, U # {}
               PROVE  \E m \in U : \A k \in U \ {m} : <<k, m>> \in R
    OBVIOUS
  <2>1. PICK x \in U : TRUE
    OBVIOUS
  <2>2. IsFiniteSet(U \ {x}) /\ Cardinality(U \ {x}) = n /\ U \ {x} \in SUBSET T
    <3>1. IsFiniteSet(U \ {x}) /\ Cardinality(U \ {x}) = Cardinality(U) - 1
      BY <2>1, FS_RemoveElement
    <3> QED
      BY <3>1
  <2>3. CASE U \ {x} = {}
    BY <2>3
  <2>4. CASE U \ {x} # {}
    <3>1. PICK m \in U \ {x} : \A k \in (U \ {x}) \ {m} : <<k, m>> \in R
      BY <1>2, <2>2, <2>4
    <3>2. CASE <<x, m>> \in R
      BY <3>1, <3>2
    <3>3. CASE <<x, m>> \notin R
      <4>1. <<m, x>> \in R
        BY <3>1, <3>3 DEF Orders
      <4>2. \A k \in U \ {x} : <<k, x>> \in R
        BY <3>1, <4>1 DEF Orders
      <4> QED
        BY <4>2
    <3> QED
      BY <3>2, <3>3
  <2> QED
    BY <2>3, <2>4
<1>3. Nat \subseteq S
  <2> HIDE DEF S
  <2> QED
    BY <1>1, <1>2, Induction
<1>4. Cardinality(T) \in S
  BY <1>3, FS_CardinalityType
<1> QED
  BY <1>4

\* A sequence of the elements of T in the order R.
Lists(s, T, R) ==
    /\ s \in [1..Cardinality(T) -> T]
    /\ \A i, j \in 1..Cardinality(T) : i < j => <<s[i], s[j]>> \in R

\* Every finite set can be listed in every order.
LEMMA ListExists ==
    ASSUME NEW T, IsFiniteSet(T), NEW R, Orders(R, T)
    PROVE  \E s : Lists(s, T, R)
<1> DEFINE S == {n \in Nat : \A U \in SUBSET T :
                    IsFiniteSet(U) /\ Cardinality(U) = n =>
                        \E s \in [1..n -> U] : \A i, j \in 1..n : i < j => <<s[i], s[j]>> \in R}
<1>1. 0 \in S
  <2> SUFFICES ASSUME NEW U \in SUBSET T
               PROVE  \E s \in [1..0 -> U] : \A i, j \in 1..0 : i < j => <<s[i], s[j]>> \in R
    OBVIOUS
  <2>1. 1..0 = {}
    OBVIOUS
  <2>2. <<>> \in [{} -> U]
    OBVIOUS
  <2> QED
    BY <2>1, <2>2
<1>2. ASSUME NEW n \in Nat, n \in S PROVE n + 1 \in S
  <2> SUFFICES ASSUME NEW U \in SUBSET T, IsFiniteSet(U), Cardinality(U) = n + 1
               PROVE  \E s \in [1..(n + 1) -> U] :
                        \A i, j \in 1..(n + 1) : i < j => <<s[i], s[j]>> \in R
    OBVIOUS
  <2>1. U # {} /\ Orders(R, U)
    BY FS_EmptySet DEF Orders
  <2>2. PICK m \in U : \A k \in U \ {m} : <<k, m>> \in R
    BY <2>1, LastExists
  <2>3. IsFiniteSet(U \ {m}) /\ Cardinality(U \ {m}) = n
    <3>1. IsFiniteSet(U \ {m}) /\ Cardinality(U \ {m}) = Cardinality(U) - 1
      BY FS_RemoveElement
    <3> QED
      BY <3>1
  <2>4. PICK s \in [1..n -> U \ {m}] : \A i, j \in 1..n : i < j => <<s[i], s[j]>> \in R
    <3>1. U \ {m} \in SUBSET T
      OBVIOUS
    <3> QED
      BY <1>2, <2>3, <3>1
  <2> DEFINE t == [i \in 1..(n + 1) |-> IF i = n + 1 THEN m ELSE s[i]]
  <2>5. t \in [1..(n + 1) -> U]
    BY <2>4
  <2>6. ASSUME NEW i \in 1..(n + 1), NEW j \in 1..(n + 1), i < j PROVE <<t[i], t[j]>> \in R
    <3>1. i \in 1..n /\ t[i] = s[i]
      BY <2>6
    <3>2. CASE j = n + 1
      <4>1. s[i] \in U \ {m} /\ t[j] = m
        BY <2>4, <3>1, <3>2
      <4> QED
        BY <2>2, <3>1, <4>1
    <3>3. CASE j # n + 1
      <4>1. j \in 1..n /\ t[j] = s[j]
        BY <3>3
      <4> QED
        BY <2>4, <2>6, <3>1, <4>1
    <3> QED
      BY <3>2, <3>3
  <2> HIDE DEF t
  <2> QED
    BY <2>5, <2>6
<1>3. Nat \subseteq S
  <2> HIDE DEF S
  <2> QED
    BY <1>1, <1>2, Induction
<1>4. Cardinality(T) \in S
  BY <1>3, FS_CardinalityType
<1> QED
  BY <1>4 DEF Lists

\* Such a list has every element once.
LEMMA ListIs ==
    ASSUME NEW T, IsFiniteSet(T), NEW R, Orders(R, T), NEW s, Lists(s, T, R)
    PROVE  /\ s \in Seq(T) /\ ToSet(s) = T /\ Len(s) = Cardinality(T)
           /\ \A i, j \in DOMAIN s : s[i] = s[j] => i = j
<1>1. Cardinality(T) \in Nat /\ s \in [1..Cardinality(T) -> T]
  BY FS_CardinalityType DEF Lists
<1>2. ASSUME NEW i \in DOMAIN s, NEW j \in DOMAIN s, s[i] = s[j] PROVE i = j
  <2>1. i \in 1..Cardinality(T) /\ j \in 1..Cardinality(T) /\ i \in Nat /\ j \in Nat
    BY <1>1
  <2>2. s[i] \in T
    BY <1>1, <2>1
  <2>3. ~(i < j) /\ ~(j < i)
    BY <1>2, <2>1, <2>2 DEF Lists, Orders
  <2> QED
    BY <2>1, <2>3
<1> QED
  BY <1>1, <1>2, Exhausts

\* There is only one.
LEMMA ListUnique ==
    ASSUME NEW T, IsFiniteSet(T), NEW R, Orders(R, T),
           NEW s, Lists(s, T, R), NEW t, Lists(t, T, R)
    PROVE  s = t
<1> DEFINE N == Cardinality(T)
<1>1. N \in Nat /\ s \in [1..N -> T] /\ t \in [1..N -> T]
  BY FS_CardinalityType DEF Lists
<1>2. /\ \A x \in T : (\E i \in 1..N : s[i] = x) /\ (\E i \in 1..N : t[i] = x)
      /\ \A i, j \in 1..N : s[i] = s[j] => i = j
      /\ \A i, j \in 1..N : t[i] = t[j] => i = j
  <2>1. ToSet(s) = T /\ ToSet(t) = T
    BY ListIs
  <2>2. DOMAIN s = 1..N /\ DOMAIN t = 1..N
    BY <1>1
  <2>3. \A x \in T : (\E i \in 1..N : s[i] = x) /\ (\E i \in 1..N : t[i] = x)
    BY <2>1, <2>2 DEF ToSet
  <2>4. \A i, j \in DOMAIN s : s[i] = s[j] => i = j
    BY ListIs
  <2>5. \A i, j \in DOMAIN t : t[i] = t[j] => i = j
    BY ListIs
  <2> QED
    BY <2>2, <2>3, <2>4, <2>5
<1>3. /\ \A i, j \in 1..N : i < j => <<s[i], s[j]>> \in R
      /\ \A i, j \in 1..N : i < j => <<t[i], t[j]>> \in R
  BY DEF Lists
<1> HIDE DEF N
<1> SUFFICES ASSUME s # t PROVE FALSE
  OBVIOUS
<1> DEFINE D == {i \in 1..N : s[i] # t[i]}
<1>4. D \in SUBSET Nat /\ D # {}
  BY <1>1
<1>5. PICK i \in D : \A k \in D : i <= k
  BY <1>4, LeastNumber
<1>6. i \in 1..N /\ s[i] # t[i] /\ \A k \in 1..N : k < i => s[k] = t[k]
  BY <1>1, <1>5
<1>7. s[i] \in T /\ t[i] \in T
  BY <1>1, <1>6
<1>8. PICK j \in 1..N : t[j] = s[i]
  BY <1>2, <1>7
<1>9. i < j
  <2>1. j # i
    BY <1>6, <1>8
  <2>2. CASE j < i
    <3>1. s[j] = s[i]
      BY <1>6, <1>8, <2>2
    <3> QED
      BY <1>2, <1>6, <2>1, <3>1
  <2> QED
    BY <1>1, <1>6, <2>1, <2>2
<1>10. PICK k \in 1..N : s[k] = t[i]
  BY <1>2, <1>7
<1>11. i < k
  <2>1. k # i
    BY <1>6, <1>10
  <2>2. CASE k < i
    <3>1. t[k] = t[i]
      BY <1>6, <1>10, <2>2
    <3> QED
      BY <1>2, <1>6, <2>1, <3>1
  <2> QED
    BY <1>1, <1>6, <2>1, <2>2
<1>12. <<t[i], s[i]>> \in R /\ <<s[i], t[i]>> \in R
  BY <1>3, <1>6, <1>8, <1>9, <1>10, <1>11
<1> QED
  BY <1>7, <1>12 DEF Orders

-----------------------------------------------------------------------------
(* Sorting.                                                                *)

Increasing(T) == {p \in T \X T : p[1] < p[2]}

\* Task names, as numbers, are totally ordered, as sort.Strings assumes of the ready
\* list.
LEMMA NumbersOrdered ==
    ASSUME NEW T \in SUBSET Nat
    PROVE  Orders(Increasing(T), T)
<1>1. \A x, y \in T : <<x, y>> \in Increasing(T) <=> x < y
  BY DEF Increasing
<1>2. \A x, y \in T : x \in Nat /\ y \in Nat
  OBVIOUS
<1> QED
  BY <1>1, <1>2 DEF Orders

\* What Sorted returns.
LEMMA SortedIs ==
    ASSUME NEW T \in SUBSET Nat, IsFiniteSet(T)
    PROVE  /\ Sorted(T) \in Seq(T) /\ ToSet(Sorted(T)) = T
           /\ Len(Sorted(T)) = Cardinality(T)
           /\ \A i, j \in DOMAIN Sorted(T) : i < j => Sorted(T)[i] < Sorted(T)[j]
           /\ \A i, j \in DOMAIN Sorted(T) : Sorted(T)[i] = Sorted(T)[j] => i = j
<1> DEFINE q == Sorted(T)
<1>1. PICK s : Lists(s, T, Increasing(T))
  BY NumbersOrdered, ListExists
<1>2. s \in [1..Cardinality(T) -> T] /\ \A i, j \in DOMAIN s : i < j => s[i] < s[j]
  BY <1>1 DEF Lists, Increasing
<1>3. /\ q \in [1..Cardinality(T) -> T]
      /\ \A i, j \in DOMAIN q : i < j => q[i] < q[j]
  BY <1>2 DEF Sorted
<1> HIDE DEF q
<1>4. Lists(q, T, Increasing(T))
  BY <1>3 DEF Lists, Increasing
<1> QED
  BY <1>3, <1>4, NumbersOrdered, ListIs DEF q

-----------------------------------------------------------------------------
(* The rounds.                                                             *)

\* The equation that defines Rounds.
Solves(f, d, N) ==
    f = [k \in 0..N |-> IF k = 0 THEN {} ELSE {n \in DOMAIN d : d[n] \subseteq f[k - 1]}]

\* It has a solution.
LEMMA RoundsExist ==
    ASSUME NEW d, NEW N \in Nat
    PROVE  \E f : Solves(f, d, N)
<1> DEFINE S == {m \in Nat : \E f : Solves(f, d, m)}
<1>1. 0 \in S
  <2> DEFINE f == [k \in 0..0 |-> {}]
  <2>1. Solves(f, d, 0)
    BY DEF Solves
  <2> HIDE DEF f
  <2> QED
    BY <2>1
<1>2. ASSUME NEW m \in Nat, m \in S PROVE m + 1 \in S
  <2>1. PICK f : Solves(f, d, m)
    BY <1>2
  <2> DEFINE g == [k \in 0..(m + 1) |->
                    IF k = m + 1 THEN {n \in DOMAIN d : d[n] \subseteq f[m]} ELSE f[k]]
             h == [k \in 0..(m + 1) |->
                    IF k = 0 THEN {} ELSE {n \in DOMAIN d : d[n] \subseteq g[k - 1]}]
  <2>2. ASSUME NEW k \in 0..(m + 1) PROVE g[k] = h[k]
    <3>1. CASE k = m + 1
      <4>1. g[m] = f[m] /\ k # 0 /\ k - 1 = m
        BY <3>1
      <4> QED
        BY <3>1, <4>1
    <3>2. CASE k # m + 1 /\ k # 0
      <4>1. k \in 0..m /\ k - 1 \in 0..m /\ k - 1 # m + 1
        BY <3>2
      <4>2. g[k] = f[k] /\ g[k - 1] = f[k - 1]
        BY <4>1, <3>2
      <4>3. f[k] = {n \in DOMAIN d : d[n] \subseteq f[k - 1]}
        BY <2>1, <4>1, <3>2 DEF Solves
      <4> QED
        BY <3>2, <4>2, <4>3
    <3>3. CASE k = 0
      <4>1. 0 \in 0..m /\ g[0] = f[0]
        OBVIOUS
      <4>2. f[0] = {}
        BY <2>1, <4>1 DEF Solves
      <4> QED
        BY <3>3, <4>1, <4>2
    <3> QED
      BY <3>1, <3>2, <3>3
  <2>3. g = h
    BY <2>2
  <2>4. Solves(g, d, m + 1)
    BY <2>3 DEF Solves
  <2> HIDE DEF g
  <2> QED
    BY <2>4
<1>3. Nat \subseteq S
  <2> HIDE DEF S
  <2> QED
    BY <1>1, <1>2, Induction
<1> QED
  BY <1>3

\* What Rounds computes.
LEMMA RoundsAre ==
    ASSUME NEW d, IsFiniteSet(DOMAIN d)
    PROVE  /\ DOMAIN Rounds(d) = 0..Cardinality(DOMAIN d)
           /\ Rounds(d)[0] = {}
           /\ \A k \in 1..Cardinality(DOMAIN d) :
                Rounds(d)[k] = {n \in DOMAIN d : d[n] \subseteq Rounds(d)[k - 1]}
<1> DEFINE N == Cardinality(DOMAIN d)
           f == Rounds(d)
<1>1. N \in Nat
  BY FS_CardinalityType
<1>2. Solves(f, d, N)
  <2>1. f = (CHOOSE g : Solves(g, d, N))
    BY DEF Rounds, Solves
  <2>2. \E g : Solves(g, d, N)
    BY <1>1, RoundsExist
  <2> HIDE DEF f, N
  <2> QED
    BY <2>1, <2>2
<1> HIDE DEF N, f
<1>3. DOMAIN f = 0..N /\ f[0] = {}
  BY <1>1, <1>2 DEF Solves
<1>4. \A k \in 1..N : k \in 0..N /\ k # 0
  BY <1>1
<1>5. \A k \in 1..N : f[k] = {n \in DOMAIN d : d[n] \subseteq f[k - 1]}
  BY <1>2, <1>4 DEF Solves
<1> QED
  BY <1>3, <1>5 DEF N, f

\* The rounds grow.
LEMMA RoundsGrow ==
    ASSUME NEW d, IsFiniteSet(DOMAIN d)
    PROVE  /\ \A k \in 0..Cardinality(DOMAIN d) : Rounds(d)[k] \subseteq DOMAIN d
           /\ \A k \in 1..Cardinality(DOMAIN d) : Rounds(d)[k - 1] \subseteq Rounds(d)[k]
           /\ \A j, k \in 0..Cardinality(DOMAIN d) :
                j <= k => Rounds(d)[j] \subseteq Rounds(d)[k]
<1> DEFINE N == Cardinality(DOMAIN d)
           f == Rounds(d)
<1>0. N \in Nat
  BY FS_CardinalityType
<1>1. f[0] = {} /\ \A k \in 1..N : f[k] = {n \in DOMAIN d : d[n] \subseteq f[k - 1]}
  BY RoundsAre
<1> HIDE DEF N, f
<1>2. \A k \in 0..N : k = 0 \/ k \in 1..N
  BY <1>0
<1>3. \A k \in 0..N : f[k] \subseteq DOMAIN d
  BY <1>1, <1>2
<1>4. \A k \in 1..N : f[k - 1] \subseteq f[k]
  <2> DEFINE S == {k \in Nat : k + 1 \in 1..N => f[k] \subseteq f[k + 1]}
  <2>1. 0 \in S
    BY <1>1
  <2>2. ASSUME NEW k \in Nat, k \in S PROVE k + 1 \in S
    <3> SUFFICES ASSUME k + 2 \in 1..N PROVE f[k + 1] \subseteq f[k + 2]
      OBVIOUS
    <3>1. k + 1 \in 1..N /\ (k + 2) - 1 = k + 1 /\ (k + 1) - 1 = k
      BY <1>0
    <3>2. f[k] \subseteq f[k + 1]
      BY <2>2, <3>1
    <3>3. /\ f[k + 1] = {n \in DOMAIN d : d[n] \subseteq f[k]}
          /\ f[k + 2] = {n \in DOMAIN d : d[n] \subseteq f[k + 1]}
      BY <1>1, <3>1
    <3> QED
      BY <3>2, <3>3
  <2>3. Nat \subseteq S
    <3> HIDE DEF S
    <3> QED
      BY <2>1, <2>2, Induction
  <2> SUFFICES ASSUME NEW k \in 1..N PROVE f[k - 1] \subseteq f[k]
    OBVIOUS
  <2>4. k - 1 \in Nat /\ (k - 1) + 1 = k
    BY <1>0
  <2>5. k - 1 \in S
    BY <2>3, <2>4
  <2> QED
    BY <2>4, <2>5
<1>5. \A j, k \in 0..N : j <= k => f[j] \subseteq f[k]
  <2> DEFINE S == {k \in Nat : k \in 0..N => \A j \in 0..k : f[j] \subseteq f[k]}
  <2>1. 0 \in S
    OBVIOUS
  <2>2. ASSUME NEW k \in Nat, k \in S PROVE k + 1 \in S
    <3> SUFFICES ASSUME k + 1 \in 0..N, NEW j \in 0..(k + 1) PROVE f[j] \subseteq f[k + 1]
      OBVIOUS
    <3>1. CASE j = k + 1
      BY <3>1
    <3>2. CASE j # k + 1
      <4>1. j \in 0..k /\ k \in 0..N /\ k + 1 \in 1..N /\ (k + 1) - 1 = k
        BY <1>0, <3>2
      <4>2. f[j] \subseteq f[k]
        BY <2>2, <4>1
      <4>3. f[k] \subseteq f[k + 1]
        BY <1>4, <4>1
      <4> QED
        BY <4>2, <4>3
    <3> QED
      BY <3>1, <3>2
  <2>3. Nat \subseteq S
    <3> HIDE DEF S
    <3> QED
      BY <2>1, <2>2, Induction
  <2> SUFFICES ASSUME NEW j \in 0..N, NEW k \in 0..N, j <= k PROVE f[j] \subseteq f[k]
    OBVIOUS
  <2>4. k \in Nat /\ j \in 0..k
    BY <1>0
  <2> QED
    BY <2>3, <2>4
<1> QED
  BY <1>3, <1>4, <1>5 DEF N, f

\* The round of a name, and of what it depends on.
LEMMA RoundOfIs ==
    ASSUME NEW d, IsFiniteSet(DOMAIN d)
    PROVE  /\ DOMAIN RoundOf(d) = Rounds(d)[Cardinality(DOMAIN d)]
           /\ DOMAIN RoundOf(d) \subseteq DOMAIN d
           /\ \A n \in DOMAIN RoundOf(d) :
                /\ RoundOf(d)[n] \in 1..Cardinality(DOMAIN d)
                /\ \A k \in 0..Cardinality(DOMAIN d) : n \in Rounds(d)[k] <=> RoundOf(d)[n] <= k
<1> DEFINE N == Cardinality(DOMAIN d)
           f == Rounds(d)
           T == f[N]
           At(n) == {k \in DOMAIN f : n \in f[k]}
<1>0. N \in Nat
  BY FS_CardinalityType
<1>1. DOMAIN f = 0..N /\ f[0] = {}
  BY RoundsAre
<1>2. T \subseteq DOMAIN d
  <2>1. N \in 0..N
    BY <1>0
  <2> QED
    BY <2>1, RoundsGrow
<1>3. RoundOf(d) = [n \in T |-> Min(At(n))]
  BY DEF RoundOf
<1>4. \A j, k \in 0..N : j <= k => f[j] \subseteq f[k]
  BY RoundsGrow
<1> HIDE DEF N, f
<1>5. ASSUME NEW n \in T
      PROVE  /\ Min(At(n)) \in 1..N
             /\ \A k \in 0..N : n \in f[k] <=> Min(At(n)) <= k
  <2>1. At(n) \in SUBSET Nat /\ At(n) # {}
    <3>1. N \in At(n)
      BY <1>0, <1>1
    <3> QED
      BY <1>0, <1>1, <3>1
  <2>2. Min(At(n)) \in At(n) /\ \A k \in At(n) : Min(At(n)) <= k
    BY <2>1, MinIs
  <2>3. PICK r : r = Min(At(n))
    OBVIOUS
  <2>4. r \in 0..N /\ n \in f[r] /\ r # 0
    BY <1>1, <2>2, <2>3
  <2>5. \A k \in 0..N : n \in f[k] => r <= k
    BY <1>1, <2>2, <2>3
  <2>6. \A k \in 0..N : r <= k => n \in f[k]
    BY <1>4, <2>4
  <2> QED
    BY <1>0, <2>3, <2>4, <2>5, <2>6
<1>6. /\ DOMAIN RoundOf(d) = T
      /\ \A n \in T : RoundOf(d)[n] = Min(At(n))
  BY <1>3
<1>7. \A n \in T : /\ RoundOf(d)[n] \in 1..N
                   /\ \A k \in 0..N : n \in f[k] <=> RoundOf(d)[n] <= k
  <2> HIDE DEF T, At
  <2> QED
    BY <1>5, <1>6
<1> QED
  BY <1>2, <1>6, <1>7 DEF N, f

\* A name comes in the round after the last of its dependencies.
LEMMA RoundStep ==
    ASSUME NEW d, IsFiniteSet(DOMAIN d), NEW n \in DOMAIN RoundOf(d)
    PROVE  /\ \A x \in d[n] : x \in DOMAIN RoundOf(d) /\ RoundOf(d)[x] < RoundOf(d)[n]
           /\ RoundOf(d)[n] > 1 => \E x \in d[n] : RoundOf(d)[x] = RoundOf(d)[n] - 1
<1> DEFINE N == Cardinality(DOMAIN d)
           f == Rounds(d)
           g == RoundOf(d)
<1>0. N \in Nat
  BY FS_CardinalityType
<1>1. /\ DOMAIN g = f[N] /\ DOMAIN g \subseteq DOMAIN d
      /\ \A m \in DOMAIN g : g[m] \in 1..N /\ \A k \in 0..N : m \in f[k] <=> g[m] <= k
  BY RoundOfIs
<1>2. \A k \in 1..N : f[k] = {m \in DOMAIN d : d[m] \subseteq f[k - 1]}
  BY RoundsAre
<1>3. \A j, k \in 0..N : j <= k => f[j] \subseteq f[k]
  BY RoundsGrow
<1> HIDE DEF N, f, g
<1> SUFFICES /\ \A x \in d[n] : x \in DOMAIN g /\ g[x] < g[n]
             /\ g[n] > 1 => \E x \in d[n] : g[x] = g[n] - 1
  BY DEF g
<1>4. n \in DOMAIN g
  BY DEF g
<1>5. PICK r \in 1..N : r = g[n]
  BY <1>1, <1>4
<1>6. r \in 0..N /\ r - 1 \in 0..N /\ r \in Nat
  BY <1>0
<1>7. n \in f[r]
  BY <1>1, <1>4, <1>5, <1>6
<1>8. d[n] \subseteq f[r - 1]
  BY <1>2, <1>7
<1>9. ASSUME NEW x \in d[n] PROVE x \in DOMAIN g /\ g[x] <= r - 1
  <2>1. x \in f[N]
    <3>1. N \in 0..N /\ r - 1 <= N
      BY <1>0, <1>6
    <3> QED
      BY <1>3, <1>6, <1>8, <3>1
  <2>2. x \in DOMAIN g
    BY <1>1, <2>1
  <2> QED
    BY <1>1, <1>6, <1>8, <2>2
<1>10. \A x \in d[n] : x \in DOMAIN g /\ g[x] \in 1..N
  BY <1>1, <1>9
<1>11. \A x \in d[n] : x \in DOMAIN g /\ g[x] < g[n]
  BY <1>0, <1>5, <1>6, <1>9, <1>10
<1>12. ASSUME r > 1 PROVE \E x \in d[n] : g[x] = r - 1
  <2>1. r - 1 \in 1..N /\ (r - 1) - 1 \in 0..N /\ ~(r <= r - 1)
    BY <1>0, <1>6, <1>12
  <2>2. n \notin f[r - 1]
    BY <1>1, <1>4, <1>5, <1>6, <2>1
  <2>3. n \in DOMAIN d
    BY <1>1, <1>4
  <2>4. PICK x \in d[n] : x \notin f[(r - 1) - 1]
    BY <1>2, <2>1, <2>2, <2>3
  <2>5. ~(g[x] <= (r - 1) - 1) /\ g[x] \in Nat
    BY <1>0, <1>1, <1>10, <2>1, <2>4
  <2>6. g[x] <= r - 1
    BY <1>9
  <2> QED
    BY <1>6, <2>5, <2>6
<1> QED
  BY <1>5, <1>11, <1>12

\* The pairs of names in the order of Order.
Precedes(d) ==
    LET T == DOMAIN RoundOf(d) IN {p \in T \X T : Before(RoundOf(d), p[1], p[2])}

\* By round, and by name within a round, is a total order of the names that some round
\* removes.
LEMMA PrecedesOrders ==
    ASSUME NEW d, IsFiniteSet(DOMAIN d), DOMAIN d \subseteq Nat
    PROVE  Orders(Precedes(d), DOMAIN RoundOf(d))
<1> DEFINE g == RoundOf(d)
           T == DOMAIN g
<1>0. Cardinality(DOMAIN d) \in Nat
  BY FS_CardinalityType
<1>1. \A x \in T : x \in Nat /\ g[x] \in Nat
  BY <1>0, RoundOfIs
<1>2. \A x, y \in T : <<x, y>> \in Precedes(d) <=> Before(g, x, y)
  BY DEF Precedes
<1> HIDE DEF g
<1>3. \A x \in T : ~Before(g, x, x)
  BY <1>1 DEF Before
<1>4. \A x, y \in T : x # y => Before(g, x, y) \/ Before(g, y, x)
  BY <1>1 DEF Before
<1>5. \A x, y, z \in T : Before(g, x, y) /\ Before(g, y, z) => Before(g, x, z)
  BY <1>1 DEF Before
<1> HIDE DEF T
<1> SUFFICES Orders(Precedes(d), T)
  BY DEF T, g
<1> QED
  BY <1>2, <1>3, <1>4, <1>5 DEF Orders

\* What Order returns: the names that can be ordered, each once, each after
\* what it depends on.
LEMMA OrderIs ==
    ASSUME NEW ts, IsFiniteSet(Names(ts)), Names(ts) \subseteq Nat
    PROVE  LET d == Dependencies(ts)
           IN  /\ DOMAIN d = Names(ts)
               /\ IsFiniteSet(DOMAIN RoundOf(d))
               /\ Lists(Order(ts), DOMAIN RoundOf(d), Precedes(d))
               /\ Order(ts) \in Seq(Names(ts))
               /\ Len(Order(ts)) = Cardinality(DOMAIN RoundOf(d))
<1> DEFINE d == Dependencies(ts)
           T == DOMAIN RoundOf(d)
           o == Order(ts)
<1>1. DOMAIN d = Names(ts)
  BY DEF Dependencies
<1>2. IsFiniteSet(T) /\ T \subseteq Names(ts)
  <2>1. T \subseteq DOMAIN d
    BY <1>1, RoundOfIs
  <2> QED
    BY <1>1, <2>1, FS_Subset
<1>3. Orders(Precedes(d), T)
  BY <1>1, PrecedesOrders
<1>4. PICK s : Lists(s, T, Precedes(d))
  BY <1>2, <1>3, ListExists
<1>5. \A x, y \in T : <<x, y>> \in Precedes(d) <=> Before(RoundOf(d), x, y)
  BY DEF Precedes
<1>6. o = CHOOSE q \in [1..Cardinality(T) -> T] :
            \A i, j \in DOMAIN q : i < j => Before(RoundOf(d), q[i], q[j])
  BY DEF Order
<1> HIDE DEF T, o
<1>7. s \in [1..Cardinality(T) -> T]
      /\ \A i, j \in DOMAIN s : i < j => Before(RoundOf(d), s[i], s[j])
  BY <1>4, <1>5 DEF Lists
<1>8. o \in [1..Cardinality(T) -> T]
      /\ \A i, j \in DOMAIN o : i < j => Before(RoundOf(d), o[i], o[j])
  BY <1>6, <1>7
<1>9. Lists(o, T, Precedes(d))
  BY <1>5, <1>8 DEF Lists
<1>10. o \in Seq(T) /\ Len(o) = Cardinality(T)
  BY <1>2, <1>3, <1>9, ListIs
<1>11. o \in Seq(Names(ts))
  BY <1>2, <1>10
<1> QED
  BY <1>1, <1>2, <1>9, <1>10, <1>11 DEF T, o
=============================================================================
