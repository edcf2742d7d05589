------------------------------- MODULE MCDag --------------------------------
(***************************************************************************)
(* Lists of declarations for TLC: every graph on four names with at most   *)
(* two dependencies per name, and lists of up to two declarations with all *)
(* the faults Build looks for.                                             *)
(***************************************************************************)
EXTENDS DagBuild

Declaration(name, ds, source) ==
    [name |-> name, deps |-> ds, source |-> source, long |-> FALSE]

\* A list of dependencies in descending order, as a user may well write it.
Listed(S) == SetToSortSeq(S, >)

Graphs4 ==
    {[i \in 1..4 |-> Declaration(i, Listed(d[i]), "inline")] :
        d \in {f \in [1..4 -> SUBSET (1..4)] : \A i \in 1..4 : i \notin f[i] /\ Cardinality(f[i]) <= 2}}

FaultyLists ==
    LET one == {Declaration(n, ds, s) : n \in 0..2, ds \in BoundedSeq(0..3, 2), s \in {"inline", "unknown", "both"}}
        two == {Declaration(n, ds, "template") : n \in 0..2, ds \in BoundedSeq(0..3, 2)}
    IN  {<<>>} \cup {<<a>> : a \in one} \cup {<<a, b>> : a \in one, b \in two}

AllLists == Graphs4 \cup FaultyLists
=============================================================================
