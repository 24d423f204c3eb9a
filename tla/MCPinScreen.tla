---------------------------- MODULE MCPinScreen ----------------------------
EXTENDS PinScreen

CONSTANTS n, p, q, plain, flagged

(* A closed list with two pins, one with an elevation, or two lists,       *)
(* the first without pins, the second hidden with one.                     *)
TwoPins ==
    <<[id |-> 1, place |-> p, name |-> n, elevation |-> p],
      [id |-> 2, place |-> q, name |-> n, elevation |-> Unmeasured]>>

MCEarlier ==
    {[lists |-> <<[NewList(1, n, plain) EXCEPT !.pins = TwoPins,
                                               !.closed = TRUE]>>,
      active |-> 1, nextList |-> 2, nextPin |-> 3],
     [lists |-> <<NewList(1, n, plain),
                  [NewList(2, n, plain) EXCEPT !.visible = FALSE,
                                               !.pins = <<TwoPins[1]>>]>>,
      active |-> 1, nextList |-> 3, nextPin |-> 2]}

(* One file, with a route of one point, or a track of three, more than fit.*)
MCListings == {<<n>>}
MCFiles ==
    LET measured == [place |-> p, measured |-> TRUE]
        other == [place |-> q, measured |-> FALSE]
    IN  {[route |-> <<measured>>, track |-> <<other>>, waypoints |-> <<>>],
         [route |-> <<>>, track |-> <<other, other, measured>>,
          waypoints |-> <<>>]}
=============================================================================
