---------------------------- MODULE MCTileCaches ----------------------------
EXTENDS TileCaches

CONSTANTS a1, a2, b1, small, large, spoiled

(* Two styles, the first with two tiles.                                   *)
MCStyle(k) == IF k = b1 THEN "b" ELSE "a"

MCSize(p) == IF p = large THEN 2 ELSE 1

(* The card refuses nothing, or one file and one temporary file.           *)
MCRefusals == {{}, {[key |-> a1, part |-> FALSE], [key |-> a2, part |-> TRUE]}}

(* Nothing; a style over its budget; a file that does not decode.          *)
MCEarlier ==
    {[s \in Styles |-> <<>>],
     [s \in Styles |-> IF s = "a" THEN <<[key |-> a1, data |-> large],
                                         [key |-> a2, data |-> large]>>
                       ELSE <<[key |-> b1, data |-> spoiled]>>]}
=============================================================================
