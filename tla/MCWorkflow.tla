----------------------------- MODULE MCWorkflow -----------------------------
(***************************************************************************)
(* Instances of WorkflowController for TLC.                                *)
(***************************************************************************)
EXTENDS WorkflowController

Node(name, ds) ==
    [name |-> name, deps |-> ds, source |-> "inline", long |-> FALSE, runOnFailure |-> FALSE]
Rescue(name, ds) == [Node(name, ds) EXCEPT !.runOnFailure = TRUE]
Plan(list, limit) == [tasks |-> list, maxParallel |-> limit]

\* Two roots, a node that needs both, and one that runs if that one fails or is
\* skipped.
Branches == {Plan(<<Node(1, <<>>), Node(2, <<>>), Node(3, <<1, 2>>), Rescue(4, <<3>>)>>, limit) : limit \in {1, 2}}

\* A chain, its nodes side by side, the first alone, and a version with a cycle.
Edited == {Plan(<<Node(1, <<>>), Node(2, <<1>>)>>, 1),
           Plan(<<Node(1, <<>>), Node(2, <<>>)>>, 0),
           Plan(<<Node(1, <<>>)>>, 0),
           Plan(<<Node(1, <<2>>), Node(2, <<1>>)>>, 0)}

\* One root finished early lets 5 start while 3 and 4 wait for the other root.
Wide == {Plan(<<Node(1, <<>>), Node(2, <<>>), Node(3, <<2>>), Node(4, <<2>>), Node(5, <<1>>)>>, 2)}
=============================================================================
