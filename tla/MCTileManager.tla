---------------------------- MODULE MCTileManager ----------------------------
(* The pipeline on two tiles: `a' and `b' share the screen.                *)
EXTENDS TileManager, TLC

CONSTANTS a, b

NoFallback == [k \in Keys |-> {}]
(* `b' is a child of `a': while `a' is on the screen `b' is drawn for it.  *)
ChildFallback == [k \in Keys |-> IF k = a THEN {b} ELSE {}]

Symmetry == Permutations(Keys)
=============================================================================
