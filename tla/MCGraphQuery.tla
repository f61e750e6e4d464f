---------------------------- MODULE MCGraphQuery ----------------------------
(* The simple graphs of three nodes and three edges, graphs of two nodes   *)
(* with parallel edges and loops, a diamond, a shortcut and a cycle of     *)
(* four nodes, and two ways of different length to a fifth.                *)
EXTENDS GraphQuery, FiniteSets

E(a, t, b) == [from |-> a, type |-> t, to |-> b]

Simple == {E(a, "CALLS", b) : <<a, b>> \in {x \in (1..3) \X (1..3) : x[1] # x[2]}}
Typed  == {E(a, t, b) : a \in 1..2, t \in {"CALLS", "READS"}, b \in 1..2}

Diamond  == {E(1, "CALLS", 2), E(1, "CALLS", 3), E(2, "CALLS", 4), E(3, "CALLS", 4)}
Shortcut == {E(1, "CALLS", 2), E(2, "CALLS", 3), E(3, "CALLS", 4), E(1, "READS", 4)}
Ladder   == {E(1, "CALLS", 2), E(1, "CALLS", 3), E(2, "CALLS", 5), E(3, "CALLS", 4), E(4, "CALLS", 5)}
Cycle    == {E(1, "CALLS", 2), E(2, "CALLS", 3), E(3, "CALLS", 1), E(3, "READS", 4), E(4, "CALLS", 4)}

MCGraphs ==
  {g \in SUBSET Simple : Cardinality(g) = 3}
  \cup {g \in SUBSET Typed : Cardinality(g) = 3 /\ E(1, "CALLS", 2) \in g /\ E(1, "READS", 2) \in g}
  \cup {{}, Diamond, Shortcut, Cycle, Ladder}

PathRequests ==
  {[op |-> "path", seeds |-> s, targets |-> t, dir |-> d, types |-> y, kinds |-> k,
    depth |-> 1, limit |-> l] :
      s \in {<<>>, <<1>>, <<2, 1>>}, t \in {{}, {1, 4}, {2}, {3}, {2, 3}, {5}},
      d \in {"outgoing", "both"}, y \in {{"CALLS", "READS"}},
      k \in {1..5, {1, 3}}, l \in 1..2}

NeighborRequests ==
  {[op |-> "neighbors", seeds |-> s, targets |-> {}, dir |-> d, types |-> y, kinds |-> k,
    depth |-> e, limit |-> l] :
      s \in {<<1>>, <<2, 1>>}, d \in {"incoming", "both"},
      y \in {{"CALLS"}, {"CALLS", "READS"}}, k \in {1..5, {1, 3}}, e \in {0, 2}, l \in {2, 3}}

MCRequests == PathRequests \cup NeighborRequests
=============================================================================
