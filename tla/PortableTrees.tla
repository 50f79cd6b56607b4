----------------------------- MODULE PortableTrees -----------------------------
(******************************************************************************)
(* The decision trees of modeling/model.py. A tree is three arrays over the   *)
(* nodes 0 .. n-1; a feature vector is the set of features above their        *)
(* threshold, since a node compares one feature with one threshold.           *)
(******************************************************************************)
EXTENDS Integers, FiniteSets, Sequences

CONSTANT Features  \* FEATURE_COUNT

Nil == -1        \* no child
LeafMarker == -2 \* the feature of a leaf

Nodes(tree) == DOMAIN tree.left

IsLeaf(tree, node) == tree.left[node] = Nil /\ tree.right[node] = Nil

\* Mutant: the feature may be one past the last.
SplitOkLoose(tree, node) ==
    /\ tree.left[node] # Nil /\ tree.right[node] # Nil /\ tree.left[node] # tree.right[node]
    /\ tree.feature[node] \in 0 .. Features

SplitOk(tree, node) ==
    /\ tree.left[node] # Nil /\ tree.right[node] # Nil /\ tree.left[node] # tree.right[node]
    /\ tree.feature[node] \in 0 .. Features - 1

\* validate_tree: a depth-first search with an explicit stack of nodes to enter
\* and nodes to leave.
Entering(node) == [node |-> node, exiting |-> FALSE]

Exiting(node) == [node |-> node, exiting |-> TRUE]

Enterable(tree, search, node) ==
    /\ node \in Nodes(tree) /\ node \notin search.active  \* portable tree topology invalid
    /\ node \notin search.visited                         \* portable tree node reused
    /\ IF IsLeaf(tree, node) THEN tree.feature[node] = LeafMarker ELSE SplitOk(tree, node)

\* One round of the loop. A search that is over or has raised an error stays as it is.
Round(tree, search) ==
    LET node     == Head(search.stack).node
        rest     == Tail(search.stack)
        children == IF IsLeaf(tree, node) THEN <<>>
                    ELSE <<Entering(tree.left[node]), Entering(tree.right[node])>>
    IN  IF search.stack = <<>> THEN search
        ELSE IF Head(search.stack).exiting
        THEN [stack   |-> rest,
              active  |-> search.active \ {node},
              visited |-> search.visited \cup {node}]
        ELSE IF Enterable(tree, search, node)
        THEN [stack   |-> children \o <<Exiting(node)>> \o rest,
              active  |-> search.active \cup {node},
              visited |-> search.visited]
        ELSE search

Search(tree) ==
    LET search[k \in Nat] ==
          IF k = 0 THEN [stack |-> <<Entering(0)>>, active |-> {}, visited |-> {}]
          ELSE Round(tree, search[k - 1])
    IN  search

\* A search that visits every node enters each once and leaves it once.
Accepts(tree) ==
    LET last == Search(tree)[2 * Cardinality(Nodes(tree))]
    IN  last.stack = <<>> /\ last.visited = Nodes(tree)

\* portable_raw_scores: the walk of one row. It looks for a left child only, as the
\* code's loop does. A walk of more steps than there are nodes never ends.
Descend(tree, above, node) ==
    IF node \notin Nodes(tree) \/ tree.left[node] = Nil THEN node
    ELSE IF tree.feature[node] \in above THEN tree.right[node] ELSE tree.left[node]

Walk(tree, above) ==
    LET walk[k \in Nat] == IF k = 0 THEN 0 ELSE Descend(tree, above, walk[k - 1])
    IN  walk

LeafOf(tree, above) == Walk(tree, above)[Cardinality(Nodes(tree))]
================================================================================
