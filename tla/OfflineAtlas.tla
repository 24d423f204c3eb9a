----------------------------- MODULE OfflineAtlas -----------------------------
(***************************************************************************)
(* The offline atlas as operators: the snapshot DiskCache::atlas takes of  *)
(* the stored tiles, and how map_screen.cpp selects layers and tiles in it *)
(* and builds the requests of a frame.                                     *)
(*                                                                         *)
(* A snapshot is a set of layers, one for every style and zoom that has    *)
(* tiles; the code keeps them sorted, so that of two layers at the same    *)
(* distance the one of the lower zoom is met first.  World coordinates are *)
(* integers in which the centre of every tile down to Deepest is exact.    *)
(***************************************************************************)
EXTENDS Integers, SequencesExt

CONSTANTS
    Deepest,    (* the deepest zoom with a stored tile                     *)
    LongMax     (* the greatest long, 2^31 - 1 on the Vita                 *)

ASSUME DeepestAssumption == Deepest \in Nat
ASSUME LongAssumption == LongMax \in Nat

(* exp2, and the shifts of 1, as far as they are used.                     *)
Exp2[n \in 0..Deepest + 1] == IF n = 0 THEN 1 ELSE 2 * Exp2[n - 1]

Columns(zoom) == Exp2[zoom]
World == Exp2[Deepest + 1]

(* The index of a layer is sorted by row, then column.                     *)
Before(s, t) == s.y < t.y \/ (s.y = t.y /\ s.x < t.x)

InOrder(places) ==
    CHOOSE index \in [1..Cardinality(places) -> places] :
        /\ ToSet(index) = places
        /\ \A i, j \in DOMAIN index : i < j => Before(index[i], index[j])

(* The layer of the stored tiles of a style and zoom.                      *)
LayerAt(stored, style, zoom) ==
    [style |-> style, zoom |-> zoom,
     index |-> InOrder({[x |-> t.x, y |-> t.y] :
                   t \in {u \in stored : u.style = style /\ u.zoom = zoom}})]

Snapshot(stored) == {LayerAt(stored, t.style, t.zoom) : t \in stored}

-----------------------------------------------------------------------------
Abs(n) == IF n < 0 THEN -n ELSE n

HasTile(layer, tile) == tile \in ToSet(layer.index)

(* atlas_tile_center, with its clamp of the index.                         *)
TileAt(layer, i) == layer.index[Min({i, Len(layer.index)})]
Center(layer, i) ==
    LET scale == Exp2[Deepest - layer.zoom]
    IN  [x |-> (2 * TileAt(layer, i).x + 1) * scale,
         y |-> (2 * TileAt(layer, i).y + 1) * scale]

(* Columns are a circle.                                                   *)
Distance(p, q) ==
    LET dx == Min({Abs(p.x - q.x), World - Abs(p.x - q.x)})
    IN  dx * dx + (p.y - q.y) * (p.y - q.y)

(* nearest_atlas_tile: the first of the nearest.                           *)
NearestTile(layer, p) ==
    LET far(i) == Distance(Center(layer, i), p)
    IN  CHOOSE i \in 1..Len(layer.index) :
            \A j \in 1..Len(layer.index) :
                far(i) < far(j) \/ (far(i) = far(j) /\ i <= j)

-----------------------------------------------------------------------------
LayersOf(layers, style) == {l \in layers : l.style = style}

(* selected_offline_atlas_layer and the loop of sync_offline_atlas_selection. *)
NearestLayer(shown, zoom) ==
    CHOOSE l \in shown : \A m \in shown :
        LET dl == Abs(l.zoom - zoom)
            dm == Abs(m.zoom - zoom)
        IN  dl < dm \/ (dl = dm /\ l.zoom <= m.zoom)

(* move_offline_atlas_layer: the next layer in a direction, or the first   *)
(* from the other end.                                                     *)
NextLayer(shown, layer, down) ==
    LET beyond == {l \in shown : IF down THEN l.zoom > layer.zoom
                                 ELSE l.zoom < layer.zoom}
        from == IF beyond = {} THEN shown ELSE beyond
    IN  CHOOSE l \in from : \A m \in from :
            IF down THEN l.zoom <= m.zoom ELSE l.zoom >= m.zoom

(* From one tile of a layer to another; the way round the world counts if  *)
(* it is shorter.                                                          *)
Way(layer, s, t) ==
    LET d == t.x - s.x
        half == Columns(layer.zoom) \div 2
        round == IF d > half THEN -1 ELSE IF d < -half THEN 1 ELSE 0
    IN  [x |-> d + round * Columns(layer.zoom), y |-> t.y - s.y]

Forward(way, dir) == way.x * dir.x + way.y * dir.y

(* What does not fit a long wraps round: with 32 bits, 100000 times a      *)
(* distance of more than 21474 rows or columns.                            *)
Long(n) ==
    IF n \in -LongMax - 1..LongMax THEN n
    ELSE ((n + LongMax + 1) % (2 * (LongMax + 1))) - LongMax - 1

Score(way, dir) ==
    Long(Long(Abs(way.x * dir.y - way.y * dir.x) * 100000) + Forward(way, dir))

(* move_offline_atlas_tile: the neighbour if it is stored, else the tile   *)
(* that is least off the axis, and of these the nearest, of all that lie   *)
(* in the direction.                                                       *)
NextTile(layer, i, dir) ==
    LET here == TileAt(layer, i)
        exact == [x |-> (here.x + dir.x) % Columns(layer.zoom),
                  y |-> here.y + dir.y]
        all == 1..Len(layer.index)
        way(j) == Way(layer, here, layer.index[j])
        score(j) == Score(way(j), dir)
        ahead == {j \in all : Forward(way(j), dir) > 0}
    IN  IF HasTile(layer, exact) THEN CHOOSE j \in all : layer.index[j] = exact
        ELSE IF ahead = {} THEN Min({i, Len(layer.index)})
        ELSE CHOOSE j \in ahead : \A k \in ahead :
                 score(j) < score(k) \/ (score(j) = score(k) /\ j <= k)

-----------------------------------------------------------------------------
(* Mutant: the index is not asked.                                         *)
StoredAll(layer, tiles) == tiles

StoredOf(layer, tiles) == {t \in tiles : HasTile(layer, t)}

Around(layer, c, radius) ==
    StoredOf(layer,
        {[x |-> (c.x + dx) % Columns(layer.zoom), y |-> c.y + dy] :
            dx \in -radius..radius,
            dy \in {d \in -radius..radius : c.y + d \in 0..Columns(layer.zoom) - 1}})

(* Where the window of a layer is: on the selected layer at the selected   *)
(* tile, else at the cell of the anchor.                                   *)
Window(layer, focus, anchor) ==
    LET cell == Exp2[Deepest + 1 - layer.zoom]
    IN  IF focus # 0 THEN TileAt(layer, focus)
        ELSE [x |-> anchor.x \div cell, y |-> anchor.y \div cell]

(* The requests for a layer; the nearest tile if the window is empty.      *)
RequestsIn(layer, focus, anchor) ==
    LET near == Around(layer, Window(layer, focus, anchor),
                       IF focus # 0 THEN 2 ELSE 1)
        tiles == IF near # {} THEN near
                 ELSE {layer.index[NearestTile(layer, anchor)]}
    IN  {[style |-> layer.style, zoom |-> layer.zoom, x |-> t.x, y |-> t.y,
          visible |-> focus # 0] : t \in tiles}

(* Mutant: the loop starts one layer late.                                 *)
AdjacentLate(shown, layer) ==
    {l \in shown : /\ l.zoom > layer.zoom
                   /\ \A m \in shown : m.zoom > layer.zoom => m.zoom >= l.zoom}

(* The layer and those directly above and below it among the stored ones.  *)
Adjacent(shown, layer) ==
    {l \in shown : {m \in shown : \/ m.zoom > layer.zoom /\ m.zoom < l.zoom
                                  \/ m.zoom < layer.zoom /\ m.zoom > l.zoom} = {}}

(* build_offline_atlas_requests.                                           *)
Requests(shown, layer, focus, anchor) ==
    UNION {RequestsIn(l, IF l = layer THEN focus ELSE 0, anchor) :
              l \in Adjacent(shown, layer)}
=============================================================================
