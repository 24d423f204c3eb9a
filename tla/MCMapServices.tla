---------------------------- MODULE MCMapServices ----------------------------
EXTENDS MapServices

(* Pauses of different lengths, which can be cut short in the middle.      *)
MCGap == [geocoder |-> 2, overpass |-> 3]

Stored(s, z, x, y) == [style |-> s, zoom |-> z, x |-> x, y |-> y]

(* Two tiles far apart on zoom 2, at both ends of a row, one below; another*)
(* style with one tile; fewer of them after a while; or nothing at all.    *)
MCContents ==
    {{},
     {Stored(0, 0, 0, 0), Stored(0, 2, 0, 0), Stored(0, 2, 3, 0),
      Stored(0, 2, 1, 3), Stored(1, 1, 1, 1)},
     {Stored(0, 1, 0, 0), Stored(0, 2, 1, 3)}}

MCCamera == [zoom |-> 2, at |-> [x |-> 1, y |-> 1]]
MCPans == {[x |-> 7, y |-> 0], [x |-> 3, y |-> 8]}

(* Services with a clear of the cache, map styles, the atlas.             *)
MCHabits == {{"search", "poi", "clear"}, {"style"}, {"atlas", "target"},
             {"clear", "atlas"}}
=============================================================================
