------------------------------- MODULE MCKit -------------------------------
(* Plans of three units with every edge table of at most two edges, and of *)
(* four units with a hub of three wires.                                   *)
EXTENDS KitProps

Pairs == {e \in [a : Units, b : Units] : e.a # e.b}
SmallTables == UNION {[1..l -> Pairs] : l \in 0..2}
HubTables == {<<[a |-> 0, b |-> 1], [a |-> 2, b |-> 0], [a |-> 0, b |-> 3]>>}

(* Stdio or part of it, and processes started with strays above it. *)
Births == SUBSET (0..2) \union {0..k : k \in {5, 7, 10, 11, 12, 13, 14}} \union {{1, 4, 6}, {0, 3, 5}}
=============================================================================
