-------------------------- MODULE OfflineAtlasProofs --------------------------
(***************************************************************************)
(* What the operators of the offline atlas give for every layer that a     *)
(* scan can make: which tile, which layer and which requests.              *)
(***************************************************************************)
EXTENDS MapServices, SequenceFacts, FiniteSetTheorems

(* The lesser of two numbers.                                              *)
LEMMA MinOfTwo ==
    ASSUME NEW a \in Int, NEW b \in Int
    PROVE  Min({a, b}) = IF a <= b THEN a ELSE b
<1>1. \E m \in {a, b} : \A n \in {a, b} : m <= n
  OBVIOUS
<1> QED
  BY <1>1 DEF Min

-----------------------------------------------------------------------------
Doubles(g, n) == g = [k \in 0..n |-> IF k = 0 THEN 1 ELSE 2 * g[k - 1]]

(* The recursion of the powers of 2 has a solution.                        *)
LEMMA DoublesExist == \A n \in Nat : \E g : Doubles(g, n)
<1> DEFINE P == {n \in Nat : \E g : Doubles(g, n)}
<1>1. 0 \in P
  <2>1. \A k \in 0..0 : k = 0
    OBVIOUS
  <2>2. Doubles([k \in 0..0 |-> 1], 0)
    BY <2>1 DEF Doubles
  <2> QED
    BY <2>2
<1>2. ASSUME NEW n \in P PROVE n + 1 \in P
  <2>1. PICK g : Doubles(g, n)
    OBVIOUS
  <2> DEFINE h == [k \in 0..n + 1 |-> IF k = n + 1 THEN 2 * g[n] ELSE g[k]]
  <2>2. n \in Nat
    OBVIOUS
  <2>3. ASSUME NEW k \in 0..n + 1
        PROVE  h[k] = IF k = 0 THEN 1 ELSE 2 * h[k - 1]
    <3>1. CASE k = n + 1
      <4>1. k # 0 /\ k - 1 = n /\ n \in 0..n + 1 /\ n # n + 1 /\ n + 1 \in 0..n + 1
        BY <2>2, <3>1
      <4> QED
        BY <3>1, <4>1
    <3>2. CASE k # n + 1
      <4>1. k \in 0..n /\ (k # 0 => k - 1 \in 0..n + 1 /\ k - 1 # n + 1)
        BY <2>2, <3>2
      <4>2. h[k] = g[k] /\ (k # 0 => h[k - 1] = g[k - 1])
        BY <3>2, <4>1
      <4>3. g[k] = IF k = 0 THEN 1 ELSE 2 * g[k - 1]
        BY <2>1, <4>1 DEF Doubles
      <4> QED
        BY <4>2, <4>3
    <3> QED
      BY <3>1, <3>2
  <2>4. h = [k \in 0..n + 1 |-> h[k]]
    OBVIOUS
  <2> HIDE DEF h
  <2>5. Doubles(h, n + 1)
    BY <2>3, <2>4 DEF Doubles
  <2> QED
    BY <2>2, <2>5
<1>3. P = Nat
  <2> HIDE DEF P
  <2>1. P \subseteq Nat
    BY DEF P
  <2> QED
    BY <1>1, <1>2, <2>1, Induction
<1> QED
  BY <1>3

(* As far as they are used, the powers of 2 are positive numbers.          *)
LEMMA PowersPositive == \A n \in 0..Deepest + 1 : Exp2[n] \in Nat \ {0}
<1>0. Deepest \in Nat
  BY DeepestAssumption
<1>1. Doubles(Exp2, Deepest + 1)
  <2>1. \E g : Doubles(g, Deepest + 1)
    BY <1>0, DoublesExist
  <2> QED
    BY <2>1 DEF Exp2, Doubles
<1> DEFINE P == {n \in Nat : n \in 0..Deepest + 1 => Exp2[n] \in Nat \ {0}}
<1>2. 0 \in P
  BY <1>0, <1>1 DEF Doubles
<1>3. ASSUME NEW n \in P PROVE n + 1 \in P
  <2> SUFFICES ASSUME n + 1 \in 0..Deepest + 1
               PROVE  Exp2[n + 1] \in Nat \ {0}
    OBVIOUS
  <2>1. n \in 0..Deepest + 1 /\ n + 1 # 0 /\ n + 1 - 1 = n
    BY <1>0
  <2>2. Exp2[n + 1] = 2 * Exp2[n]
    BY <1>1, <2>1 DEF Doubles
  <2> QED
    BY <2>1, <2>2
<1>4. P = Nat
  <2> HIDE DEF P
  <2>1. P \subseteq Nat
    BY DEF P
  <2> QED
    BY <1>2, <1>3, <2>1, Induction
<1> QED
  BY <1>0, <1>4

-----------------------------------------------------------------------------
(* Of the tiles of a layer there is a first one with the least value, the  *)
(* one that a loop keeps which replaces its candidate by a lesser only.    *)
LEMMA FirstOfLeast ==
    ASSUME NEW n \in Nat, NEW f \in [1..n -> Int],
           NEW T, T \subseteq 1..n, T # {}
    PROVE  \E i \in T : \A j \in T : f[i] < f[j] \/ (f[i] = f[j] /\ i <= j)
<1> DEFINE First(i, U) == \A j \in U : f[i] < f[j] \/ (f[i] = f[j] /\ i <= j)
           P == {m \in Nat : \A U \in SUBSET (1..n) :
                    U # {} /\ U \subseteq 1..m => \E i \in U : First(i, U)}
<1>1. 0 \in P
  <2>1. 1..0 = {}
    OBVIOUS
  <2> QED
    BY <2>1
<1>2. ASSUME NEW m \in P PROVE m + 1 \in P
  <2> SUFFICES ASSUME NEW U \in SUBSET (1..n), U # {}, U \subseteq 1..m + 1
               PROVE  \E i \in U : First(i, U)
    OBVIOUS
  <2>1. CASE m + 1 \notin U
    <3>1. U \subseteq 1..m
      BY <2>1
    <3> QED
      BY <3>1
  <2>2. CASE U = {m + 1}
    <3>1. m + 1 <= m + 1
      OBVIOUS
    <3> QED
      BY <2>2, <3>1
  <2>3. CASE m + 1 \in U /\ U # {m + 1}
    <3> DEFINE V == U \ {m + 1}
    <3>1. V \in SUBSET (1..n) /\ V # {} /\ V \subseteq 1..m
      BY <2>3
    <3>2. PICK i \in V : First(i, V)
      BY <3>1
    <3>3. i \in 1..n /\ i <= m /\ f[i] \in Int /\ f[m + 1] \in Int
      BY <2>3, <3>1
    <3>4. CASE f[i] <= f[m + 1]
      <4>1. First(i, U)
        BY <3>2, <3>3, <3>4
      <4> QED
        BY <4>1
    <3>5. CASE f[m + 1] < f[i]
      <4>1. ASSUME NEW j \in U
            PROVE  f[m + 1] < f[j] \/ (f[m + 1] = f[j] /\ m + 1 <= j)
        <5>1. CASE j = m + 1
          BY <5>1
        <5>2. CASE j \in V
          <6>1. f[j] \in Int /\ f[i] <= f[j]
            BY <3>1, <3>2, <3>3, <5>2
          <6> QED
            BY <3>3, <3>5, <6>1
        <5> QED
          BY <5>1, <5>2
      <4> QED
        BY <2>3, <4>1
    <3> QED
      BY <3>3, <3>4, <3>5, SMTT(30)
  <2> QED
    BY <2>1, <2>2, <2>3
<1>3. P = Nat
  <2> HIDE DEF P
  <2>1. P \subseteq Nat
    BY DEF P
  <2> QED
    BY <1>1, <1>2, <2>1, Induction
<1> QED
  BY <1>3

-----------------------------------------------------------------------------
(* Points of the world and places of tiles.                                *)
Points == [x : Int, y : Int]
Places == [x : Nat, y : Nat]

(* Among finitely many places there is a last one.                         *)
LEMMA LastPlace ==
    \A n \in Nat : \A S \in SUBSET Places :
        IsFiniteSet(S) /\ Cardinality(S) = n /\ S # {} =>
            \E p \in S : \A q \in S \ {p} : Before(q, p)
<1> DEFINE P == {n \in Nat : \A S \in SUBSET Places :
                    IsFiniteSet(S) /\ Cardinality(S) = n /\ S # {} =>
                        \E p \in S : \A q \in S \ {p} : Before(q, p)}
<1>1. 0 \in P
  BY FS_EmptySet
<1>2. ASSUME NEW n \in P PROVE n + 1 \in P
  <2> SUFFICES ASSUME NEW S \in SUBSET Places, IsFiniteSet(S),
                      Cardinality(S) = n + 1, S # {}
               PROVE  \E p \in S : \A q \in S \ {p} : Before(q, p)
    OBVIOUS
  <2>1. PICK e \in S : TRUE
    OBVIOUS
  <2> DEFINE V == S \ {e}
  <2>2. IsFiniteSet(V) /\ Cardinality(V) = n /\ V \in SUBSET Places
    <3>1. IsFiniteSet(V) /\ Cardinality(V) = Cardinality(S) - 1
      BY <2>1, FS_RemoveElement
    <3> QED
      BY <3>1
  <2>3. CASE V = {}
    BY <2>1, <2>3
  <2>4. CASE V # {}
    <3>1. PICK p \in V : \A q \in V \ {p} : Before(q, p)
      BY <2>2, <2>4
    <3>2. p \in S /\ p # e /\ e \in Places /\ p \in Places
      BY <2>1, <3>1
    <3>3. CASE Before(e, p)
      <4>1. \A q \in S \ {p} : Before(q, p)
        BY <3>1, <3>3
      <4> QED
        BY <3>2, <4>1
    <3>4. CASE ~Before(e, p)
      <4>1. Before(p, e)
        <5>1. p.x # e.x \/ p.y # e.y
          BY <3>2 DEF Places
        <5>2. p.x \in Int /\ p.y \in Int /\ e.x \in Int /\ e.y \in Int
          BY <3>2 DEF Places
        <5> QED
          BY <3>4, <5>1, <5>2 DEF Before
      <4>2. ASSUME NEW q \in S \ {e} PROVE Before(q, e)
        <5>1. CASE q = p
          BY <4>1, <5>1
        <5>2. CASE q # p
          <6>1. Before(q, p) /\ q \in Places
            BY <3>1, <5>2
          <6>2. q.x \in Int /\ q.y \in Int /\ p.x \in Int /\ p.y \in Int
                /\ e.x \in Int /\ e.y \in Int
            BY <3>2, <6>1 DEF Places
          <6> QED
            BY <4>1, <6>1, <6>2 DEF Before
        <5> QED
          BY <5>1, <5>2
      <4> QED
        BY <2>1, <4>2
    <3> QED
      BY <3>3, <3>4
  <2> QED
    BY <2>3, <2>4
<1>3. P = Nat
  <2> HIDE DEF P
  <2>1. P \subseteq Nat
    BY DEF P
  <2> QED
    BY <1>1, <1>2, <2>1, Induction
<1> QED
  BY <1>3

Sorts(index, S) ==
    /\ ToSet(index) = S
    /\ \A i, j \in DOMAIN index : i < j => Before(index[i], index[j])

(* Finitely many places can be sorted.                                     *)
LEMMA CanBeSorted ==
    \A n \in Nat : \A S \in SUBSET Places :
        IsFiniteSet(S) /\ Cardinality(S) = n =>
            \E index \in [1..n -> S] : Sorts(index, S)
<1> DEFINE P == {n \in Nat : \A S \in SUBSET Places :
                    IsFiniteSet(S) /\ Cardinality(S) = n =>
                        \E index \in [1..n -> S] : Sorts(index, S)}
<1>1. 0 \in P
  <2> SUFFICES ASSUME NEW S \in SUBSET Places, IsFiniteSet(S), Cardinality(S) = 0
               PROVE  \E index \in [1..0 -> S] : Sorts(index, S)
    OBVIOUS
  <2>1. S = {} /\ 1..0 = {}
    BY FS_EmptySet
  <2> DEFINE none == [i \in 1..0 |-> 0]
  <2>2. none \in [1..0 -> S] /\ DOMAIN none = {} /\ ToSet(none) = {}
    BY <2>1 DEF ToSet
  <2> HIDE DEF none
  <2> QED
    BY <2>1, <2>2 DEF Sorts
<1>2. ASSUME NEW n \in P PROVE n + 1 \in P
  <2> SUFFICES ASSUME NEW S \in SUBSET Places, IsFiniteSet(S),
                      Cardinality(S) = n + 1
               PROVE  \E index \in [1..n + 1 -> S] : Sorts(index, S)
    OBVIOUS
  <2>0. n \in Nat
    OBVIOUS
  <2>1. S # {}
    BY <2>0, FS_EmptySet
  <2>2. PICK p \in S : \A q \in S \ {p} : Before(q, p)
    <3>1. n + 1 \in Nat
      BY <2>0
    <3> QED
      BY <2>1, <3>1, LastPlace
  <2> DEFINE V == S \ {p}
  <2>3. IsFiniteSet(V) /\ Cardinality(V) = n /\ V \in SUBSET Places
    <3>1. IsFiniteSet(V) /\ Cardinality(V) = Cardinality(S) - 1
      BY <2>2, FS_RemoveElement
    <3> QED
      BY <2>0, <3>1
  <2>4. PICK short \in [1..n -> V] : Sorts(short, V)
    BY <2>3
  <2> DEFINE index == [i \in 1..n + 1 |-> IF i = n + 1 THEN p ELSE short[i]]
  <2>5. /\ \A i \in 1..n : i \in 1..n + 1 /\ index[i] = short[i] /\ index[i] \in V
        /\ n + 1 \in 1..n + 1 /\ index[n + 1] = p
        /\ \A i \in 1..n + 1 : i = n + 1 \/ i \in 1..n
        /\ DOMAIN index = 1..n + 1 /\ index \in [1..n + 1 -> S]
    BY <2>0
  <2>6. \A q \in V : \E i \in 1..n : short[i] = q
    BY <2>4 DEF Sorts, ToSet
  <2> HIDE DEF index
  <2>7. ToSet(index) = S
    <3>1. ToSet(index) \subseteq S
      BY <2>5 DEF ToSet
    <3>2. ASSUME NEW q \in S PROVE q \in ToSet(index)
      <4>1. \E i \in 1..n + 1 : index[i] = q
        BY <2>5, <2>6
      <4> QED
        BY <2>5, <4>1 DEF ToSet
    <3> QED
      BY <3>1, <3>2
  <2>8. ASSUME NEW i \in 1..n + 1, NEW j \in 1..n + 1, i < j
        PROVE  Before(index[i], index[j])
    <3>1. i \in 1..n
      BY <2>0, <2>8
    <3>2. CASE j = n + 1
      BY <2>2, <2>5, <3>1, <3>2
    <3>3. CASE j \in 1..n
      BY <2>4, <2>5, <2>8, <3>1, <3>3 DEF Sorts
    <3> QED
      BY <2>5, <3>2, <3>3
  <2>9. Sorts(index, S)
    BY <2>5, <2>7, <2>8 DEF Sorts
  <2> QED
    BY <2>5, <2>9
<1>3. P = Nat
  <2> HIDE DEF P
  <2>1. P \subseteq Nat
    BY DEF P
  <2> QED
    BY <1>1, <1>2, <2>1, Induction
<1> QED
  BY <1>3

(* However many tiles are stored on a layer, its index lists each of them  *)
(* once, by row and column (disk_cache.cpp:297-306).                       *)
LEMMA IndexListsPlaces ==
    ASSUME NEW S \in SUBSET Places, IsFiniteSet(S)
    PROVE  /\ InOrder(S) \in [1..Cardinality(S) -> S]
           /\ Cardinality(S) \in Nat
           /\ ToSet(InOrder(S)) = S
           /\ \A i, j \in 1..Cardinality(S) :
                  i < j => Before(InOrder(S)[i], InOrder(S)[j])
<1>1. Cardinality(S) \in Nat
  BY FS_CardinalityType
<1>2. \E index \in [1..Cardinality(S) -> S] : Sorts(index, S)
  BY <1>1, CanBeSorted
<1>3. InOrder(S) = CHOOSE index \in [1..Cardinality(S) -> S] : Sorts(index, S)
  BY DEF InOrder, Sorts
<1>4. InOrder(S) \in [1..Cardinality(S) -> S] /\ Sorts(InOrder(S), S)
  BY <1>2, <1>3, Zenon
<1>5. DOMAIN InOrder(S) = 1..Cardinality(S)
  BY <1>4
<1> HIDE DEF InOrder
<1> QED
  BY <1>1, <1>4, <1>5 DEF Sorts

-----------------------------------------------------------------------------
(* The layers a scan can make.                                             *)
Layers ==
    {l \in [style : Styles, zoom : 0..Deepest, index : Seq(Places)] :
        /\ Len(l.index) >= 1
        /\ \A i \in 1..Len(l.index) :
               {l.index[i].x, l.index[i].y} \subseteq 0..Columns(l.zoom) - 1}

(* The columns of a layer and the size of the world.                       *)
LEMMA SizesPositive ==
    /\ World \in Nat \ {0}
    /\ \A zoom \in 0..Deepest : /\ Columns(zoom) \in Nat \ {0}
                                /\ Exp2[Deepest - zoom] \in Nat \ {0}
                                /\ Exp2[Deepest + 1 - zoom] \in Nat \ {0}
<1>1. Deepest \in Nat
  BY DeepestAssumption
<1>2. Deepest + 1 \in 0..Deepest + 1
  BY <1>1
<1>3. ASSUME NEW zoom \in 0..Deepest
      PROVE  {zoom, Deepest - zoom, Deepest + 1 - zoom} \subseteq 0..Deepest + 1
  BY <1>1
<1> QED
  BY <1>2, <1>3, PowersPositive DEF World, Columns

(* What is in a layer.                                                     *)
LEMMA LayerParts ==
    ASSUME NEW l \in Layers
    PROVE  /\ l.style \in Styles /\ l.zoom \in 0..Deepest
           /\ l.index \in Seq(Places) /\ Len(l.index) \in Nat \ {0}
           /\ DOMAIN l.index = 1..Len(l.index)
           /\ \A i \in 1..Len(l.index) :
                  /\ l.index[i] \in Places /\ l.index[i] \in ToSet(l.index)
                  /\ {l.index[i].x, l.index[i].y} \subseteq 0..Columns(l.zoom) - 1
<1>1. /\ l.style \in Styles /\ l.zoom \in 0..Deepest /\ l.index \in Seq(Places)
      /\ Len(l.index) >= 1
      /\ \A i \in 1..Len(l.index) :
             {l.index[i].x, l.index[i].y} \subseteq 0..Columns(l.zoom) - 1
  BY DEF Layers
<1>2. Len(l.index) \in Nat /\ DOMAIN l.index = 1..Len(l.index)
  BY <1>1, LenProperties
<1>3. \A i \in 1..Len(l.index) : l.index[i] \in Places
  BY <1>1, ElementOfSeq
<1>4. \A i \in 1..Len(l.index) : l.index[i] \in ToSet(l.index)
  BY <1>2 DEF ToSet
<1> QED
  BY <1>1, <1>2, <1>3, <1>4

(* The layers of a snapshot are such layers.                               *)
LEMMA SnapshotMakesLayers ==
    ASSUME NEW stored \in Contents
    PROVE  Snapshot(stored) \subseteq Layers
<1> SUFFICES ASSUME NEW t \in stored PROVE LayerAt(stored, t.style, t.zoom) \in Layers
  BY DEF Snapshot
<1> DEFINE U == {u \in stored : u.style = t.style /\ u.zoom = t.zoom}
           place == [u \in U |-> [x |-> u.x, y |-> u.y]]
           S == {[x |-> u.x, y |-> u.y] : u \in U}
           l == LayerAt(stored, t.style, t.zoom)
<1>1. IsFiniteSet(stored) /\ t.style \in Styles /\ t.zoom \in 0..Deepest
  BY ContentsAssumption
<1>2. \A u \in U : {u.x, u.y} \subseteq 0..Columns(t.zoom) - 1
  BY ContentsAssumption
<1>3. Columns(t.zoom) \in Nat
  BY <1>1, SizesPositive
<1>4. IsFiniteSet(U) /\ t \in U
  BY <1>1, FS_Subset
<1>5. place \in Surjection(U, S)
  BY DEF Surjection
<1>6. IsFiniteSet(S) /\ S # {}
  BY <1>4, <1>5, FS_Surjection
<1>7. \A p \in S : p \in Places /\ {p.x, p.y} \subseteq 0..Columns(t.zoom) - 1
  BY <1>2, <1>3 DEF Places
<1>8. l = [style |-> t.style, zoom |-> t.zoom, index |-> InOrder(S)]
  BY DEF LayerAt
<1> HIDE DEF U, place, S, l
<1>9. /\ InOrder(S) \in [1..Cardinality(S) -> S] /\ Cardinality(S) \in Nat
      /\ Cardinality(S) # 0
  BY <1>6, <1>7, IndexListsPlaces, FS_EmptySet
<1>10. InOrder(S) \in Seq(Places) /\ Len(InOrder(S)) = Cardinality(S)
  <2>1. InOrder(S) \in [1..Cardinality(S) -> Places]
    BY <1>7, <1>9
  <2> QED
    BY <1>9, <2>1, IsASeq
<1>11. \A i \in 1..Len(InOrder(S)) : InOrder(S)[i] \in S
  BY <1>9, <1>10
<1>12. Len(InOrder(S)) >= 1
  BY <1>9, <1>10
<1> QED
  BY <1>1, <1>7, <1>8, <1>10, <1>11, <1>12 DEF Layers, l

(* The tile of a clamped index is one of the layer, with its centre.       *)
LEMMA TileOfLayer ==
    ASSUME NEW l \in Layers, NEW i \in Nat \ {0}
    PROVE  /\ Min({i, Len(l.index)}) \in 1..Len(l.index)
           /\ TileAt(l, i) = l.index[Min({i, Len(l.index)})]
           /\ TileAt(l, i) \in ToSet(l.index) /\ TileAt(l, i) \in Places
           /\ {TileAt(l, i).x, TileAt(l, i).y} \subseteq 0..Columns(l.zoom) - 1
           /\ Center(l, i) \in Points
<1>1. Len(l.index) \in Nat \ {0}
  BY LayerParts
<1>2. Min({i, Len(l.index)}) \in 1..Len(l.index)
  BY <1>1, MinOfTwo
<1>3. TileAt(l, i) = l.index[Min({i, Len(l.index)})]
  BY DEF TileAt
<1>4. TileAt(l, i) \in ToSet(l.index) /\ TileAt(l, i) \in Places
      /\ {TileAt(l, i).x, TileAt(l, i).y} \subseteq 0..Columns(l.zoom) - 1
  BY <1>2, <1>3, LayerParts
<1>5. Center(l, i) \in Points
  <2> DEFINE scale == Exp2[Deepest - l.zoom]
             t == TileAt(l, i)
  <2>1. scale \in Int /\ t.x \in Int /\ t.y \in Int
    BY <1>4, LayerParts, SizesPositive DEF Places
  <2>2. Center(l, i) = [x |-> (2 * t.x + 1) * scale, y |-> (2 * t.y + 1) * scale]
    BY DEF Center
  <2> HIDE DEF scale, t
  <2>3. (2 * t.x + 1) * scale \in Int /\ (2 * t.y + 1) * scale \in Int
    BY <2>1
  <2> QED
    BY <2>2, <2>3 DEF Points
<1> QED
  BY <1>2, <1>3, <1>4, <1>5

(* Distances are whole.                                                    *)
LEMMA DistanceIsWhole ==
    ASSUME NEW p \in Points, NEW q \in Points
    PROVE  Distance(p, q) \in Int
<1> DEFINE a == Abs(p.x - q.x)
           b == World - a
           dx == Min({a, b})
           dy == p.y - q.y
<1>1. a \in Int /\ b \in Int /\ dy \in Int
  BY SizesPositive DEF Points, Abs
<1>2. Distance(p, q) = dx * dx + dy * dy
  BY DEF Distance
<1> HIDE DEF a, b, dy
<1>3. dx \in Int
  BY <1>1, MinOfTwo
<1> HIDE DEF dx
<1> QED
  BY <1>1, <1>2, <1>3

-----------------------------------------------------------------------------
(* The tile the view is at is a tile of the layer, none is nearer the way  *)
(* round the world included, and none before it is as near                 *)
(* (map_screen.cpp:180-200).                                               *)
LEMMA NearestTileFound ==
    ASSUME NEW l \in Layers, NEW p \in Points
    PROVE  /\ NearestTile(l, p) \in 1..Len(l.index)
           /\ \A j \in 1..Len(l.index) :
                  LET d == Distance(Center(l, NearestTile(l, p)), p)
                      e == Distance(Center(l, j), p)
                  IN  d < e \/ (d = e /\ NearestTile(l, p) <= j)
<1> DEFINE n == Len(l.index)
           f == [i \in 1..n |-> Distance(Center(l, i), p)]
<1>1. n \in Nat \ {0}
  BY LayerParts
<1>2. ASSUME NEW i \in 1..n PROVE Distance(Center(l, i), p) \in Int
  <2>1. i \in Nat \ {0}
    BY <1>1
  <2> QED
    BY <2>1, TileOfLayer, DistanceIsWhole
<1>3. f \in [1..n -> Int]
  BY <1>2
<1>4. \A i \in 1..n : f[i] = Distance(Center(l, i), p)
  OBVIOUS
<1>5. NearestTile(l, p) = CHOOSE i \in 1..n : \A j \in 1..n :
          \/ Distance(Center(l, i), p) < Distance(Center(l, j), p)
          \/ Distance(Center(l, i), p) = Distance(Center(l, j), p) /\ i <= j
  BY Zenon DEF NearestTile
<1> HIDE DEF f, n
<1>6. \E i \in 1..n : \A j \in 1..n : f[i] < f[j] \/ (f[i] = f[j] /\ i <= j)
  <2>1. 1 \in 1..n
    BY <1>1
  <2> QED
    BY <1>1, <1>3, <2>1, FirstOfLeast
<1>7. \E i \in 1..n : \A j \in 1..n :
          \/ Distance(Center(l, i), p) < Distance(Center(l, j), p)
          \/ Distance(Center(l, i), p) = Distance(Center(l, j), p) /\ i <= j
  BY <1>4, <1>6, Zenon
<1>8. /\ NearestTile(l, p) \in 1..n
      /\ \A j \in 1..n :
          \/ Distance(Center(l, NearestTile(l, p)), p) < Distance(Center(l, j), p)
          \/ /\ Distance(Center(l, NearestTile(l, p)), p) = Distance(Center(l, j), p)
             /\ NearestTile(l, p) <= j
  BY <1>5, <1>7, Zenon
<1> QED
  BY <1>8 DEF n

(* Of the layers that are shown one is the first with the least value.     *)
LEMMA FirstLayer ==
    ASSUME NEW among \in SUBSET Layers, among # {}, NEW f \in [Int -> Int]
    PROVE  \E l \in among : \A m \in among :
               f[l.zoom] < f[m.zoom] \/ (f[l.zoom] = f[m.zoom] /\ l.zoom <= m.zoom)
<1> DEFINE T == {l.zoom + 1 : l \in among}
           g == [i \in 1..Deepest + 1 |-> f[i - 1]]
<1>1. /\ Deepest \in Nat /\ Deepest + 1 \in Nat
      /\ \A l \in among : l.zoom \in 0..Deepest
  BY DeepestAssumption, LayerParts
<1>2. T \subseteq 1..Deepest + 1 /\ T # {}
  BY <1>1
<1>3. g \in [1..Deepest + 1 -> Int]
  BY <1>1
<1>4. \A l \in among : l.zoom + 1 \in T /\ g[l.zoom + 1] = f[l.zoom]
  <2>1. \A i \in 1..Deepest + 1 : g[i] = f[i - 1]
    OBVIOUS
  <2>2. \A l \in among : l.zoom + 1 \in T
    OBVIOUS
  <2> HIDE DEF g, T
  <2>3. ASSUME NEW l \in among PROVE g[l.zoom + 1] = f[l.zoom]
    <3> DEFINE z == l.zoom
    <3>1. z \in 0..Deepest
      BY <1>1
    <3> HIDE DEF z
    <3>2. z + 1 \in 1..Deepest + 1 /\ z + 1 - 1 = z
      BY <1>1, <3>1
    <3>3. g[z + 1] = f[z]
      BY <1>1, <2>1, <3>1, <3>2
    <3> QED
      BY <3>3 DEF z
  <2> QED
    BY <2>2, <2>3
<1>5. \A i \in T : \E l \in among : i = l.zoom + 1
  OBVIOUS
<1> HIDE DEF T, g
<1>6. PICK i \in T : \A j \in T : g[i] < g[j] \/ (g[i] = g[j] /\ i <= j)
  BY <1>1, <1>2, <1>3, FirstOfLeast
<1>7. PICK l \in among : i = l.zoom + 1
  BY <1>5
<1>8. ASSUME NEW m \in among
      PROVE  f[l.zoom] < f[m.zoom] \/ (f[l.zoom] = f[m.zoom] /\ l.zoom <= m.zoom)
  <2>1. g[i] < g[m.zoom + 1] \/ (g[i] = g[m.zoom + 1] /\ i <= m.zoom + 1)
    BY <1>4, <1>6
  <2>2. l.zoom \in Int /\ m.zoom \in Int
    BY <1>1
  <2> QED
    BY <1>4, <1>7, <2>1, <2>2
<1> QED
  BY <1>8

(* The selected layer is one of those that are shown.                      *)
LEMMA NearestLayerFound ==
    ASSUME NEW among \in SUBSET Layers, among # {}, NEW zoom \in Int
    PROVE  NearestLayer(among, zoom) \in among
<1> DEFINE f == [z \in Int |-> Abs(z - zoom)]
<1>1. f \in [Int -> Int]
  BY DEF Abs
<1>2. \A l \in among : f[l.zoom] = Abs(l.zoom - zoom)
  BY LayerParts
<1> HIDE DEF f
<1>3. \E l \in among : \A m \in among :
          f[l.zoom] < f[m.zoom] \/ (f[l.zoom] = f[m.zoom] /\ l.zoom <= m.zoom)
  BY <1>1, FirstLayer
<1>4. \E l \in among : \A m \in among :
          \/ Abs(l.zoom - zoom) < Abs(m.zoom - zoom)
          \/ Abs(l.zoom - zoom) = Abs(m.zoom - zoom) /\ l.zoom <= m.zoom
  BY <1>2, <1>3, Zenon
<1> QED
  BY <1>4, Zenon DEF NearestLayer

(* So is the one above or below, or the one from the other end.            *)
LEMMA NextLayerFound ==
    ASSUME NEW among \in SUBSET Layers, among # {}, NEW layer, NEW down \in BOOLEAN
    PROVE  NextLayer(among, layer, down) \in among
<1> DEFINE beyond == {l \in among : IF down THEN l.zoom > layer.zoom
                                    ELSE l.zoom < layer.zoom}
           from == IF beyond = {} THEN among ELSE beyond
           f == [z \in Int |-> IF down THEN z ELSE -z]
<1>1. from \in SUBSET Layers /\ from # {} /\ from \subseteq among
  OBVIOUS
<1>2. f \in [Int -> Int]
  OBVIOUS
<1>3. \A l \in from : l.zoom \in Int /\ f[l.zoom] = IF down THEN l.zoom ELSE -l.zoom
  BY <1>1, LayerParts
<1>4. NextLayer(among, layer, down) = CHOOSE l \in from : \A m \in from :
          IF down THEN l.zoom <= m.zoom ELSE l.zoom >= m.zoom
  BY Zenon DEF NextLayer
<1> HIDE DEF from, f
<1>5. PICK l \in from : \A m \in from :
          f[l.zoom] < f[m.zoom] \/ (f[l.zoom] = f[m.zoom] /\ l.zoom <= m.zoom)
  BY <1>1, <1>2, FirstLayer
<1>6. \A m \in from : IF down THEN l.zoom <= m.zoom ELSE l.zoom >= m.zoom
  BY <1>3, <1>5
<1>7. NextLayer(among, layer, down) \in from
  BY <1>4, <1>6, Zenon
<1> QED
  BY <1>1, <1>7

(* A long is a whole number.                                               *)
LEMMA LongIsWhole ==
    ASSUME NEW n \in Int
    PROVE  Long(n) \in Int
BY LongAssumption DEF Long

(* Ways are whole, and so are their scores.                                *)
LEMMA ScoreIsWhole ==
    ASSUME NEW l \in Layers, NEW s \in Places, NEW t \in Places, NEW dir \in Points
    PROVE  Score(Way(l, s, t), dir) \in Int
<1> DEFINE count == Columns(l.zoom)
           d == t.x - s.x
           half == count \div 2
           round == IF d > half THEN -1 ELSE IF d < -half THEN 1 ELSE 0
           way == Way(l, s, t)
<1>1. count \in Nat \ {0} /\ d \in Int /\ t.y - s.y \in Int
  BY LayerParts, SizesPositive DEF Places
<1>2. way = [x |-> d + round * count, y |-> t.y - s.y]
  BY DEF Way
<1>3. round \in Int
  <2>1. -1 \in Int /\ 0 \in Int /\ 1 \in Int
    OBVIOUS
  <2> QED
    BY <2>1, Zenon
<1> HIDE DEF way, round, d, count
<1>4. way.x \in Int /\ way.y \in Int
  BY <1>1, <1>2, <1>3
<1>5. dir.x \in Int /\ dir.y \in Int
  BY DEF Points
<1>6. /\ way.x * dir.y - way.y * dir.x \in Int
      /\ Forward(way, dir) \in Int
  BY <1>4, <1>5 DEF Forward
<1>7. Score(way, dir) \in Int
  <2>1. Abs(way.x * dir.y - way.y * dir.x) * 100000 \in Int
    BY <1>6 DEF Abs
  <2> QED
    BY <1>6, <2>1, LongIsWhole DEF Score
<1> QED
  BY <1>7 DEF way

(* The next tile in a direction is a tile of the layer.                    *)
LEMMA NextTileFound ==
    ASSUME NEW l \in Layers, NEW i \in Nat \ {0}, NEW dir \in Points
    PROVE  NextTile(l, i, dir) \in 1..Len(l.index)
<1> DEFINE n == Len(l.index)
           here == TileAt(l, i)
           exact == [x |-> (here.x + dir.x) % Columns(l.zoom), y |-> here.y + dir.y]
           all == 1..Len(l.index)
           score(j) == Score(Way(l, here, l.index[j]), dir)
           ahead == {j \in all : Forward(Way(l, here, l.index[j]), dir) > 0}
           f == [j \in all |-> score(j)]
           Best(j) == \A k \in ahead : score(j) < score(k) \/ (score(j) = score(k) /\ j <= k)
<1>1. n \in Nat \ {0} /\ here \in Places /\ Min({i, n}) \in 1..n
  BY LayerParts, TileOfLayer
<1>2. HasTile(l, exact) => \E j \in all : l.index[j] = exact
  <2> HIDE DEF exact
  <2>1. DOMAIN l.index = all
    BY LayerParts
  <2> QED
    BY <2>1 DEF HasTile, ToSet
<1>3. \A j \in all : score(j) \in Int
  BY <1>1, LayerParts, ScoreIsWhole
<1>4. NextTile(l, i, dir) =
          IF HasTile(l, exact) THEN CHOOSE j \in all : l.index[j] = exact
          ELSE IF ahead = {} THEN Min({i, n})
          ELSE CHOOSE j \in ahead : Best(j)
  BY DEF NextTile
<1>5. f \in [all -> Int] /\ \A j \in all : f[j] = score(j)
  <2> HIDE DEF score
  <2> QED
    BY <1>3
<1>6. ahead \subseteq all
  OBVIOUS
<1>7. all = 1..n
  OBVIOUS
<1> HIDE DEF score, ahead, f, n, all, exact
<1>8. ahead # {} => \E j \in ahead : Best(j)
  <2> SUFFICES ASSUME ahead # {} PROVE \E j \in ahead : Best(j)
    OBVIOUS
  <2>1. n \in Nat /\ f \in [1..n -> Int] /\ ahead \subseteq 1..n
    BY <1>1, <1>5, <1>6, <1>7
  <2>2. PICK j \in ahead :
            \A k \in ahead : f[j] < f[k] \/ (f[j] = f[k] /\ j <= k)
    BY ONLY ahead # {}, <2>1, FirstOfLeast
  <2>3. \A k \in ahead : f[k] = score(k)
    BY <1>5, <1>6, Zenon
  <2>4. Best(j)
    BY <2>2, <2>3, Zenon
  <2> QED
    BY <2>4
<1> HIDE DEF Best
<1>9. CASE HasTile(l, exact)
  <2>1. NextTile(l, i, dir) \in all
    BY <1>2, <1>4, <1>9
  <2> QED
    BY <2>1 DEF all
<1>10. CASE ~HasTile(l, exact) /\ ahead = {}
  <2>1. NextTile(l, i, dir) = Min({i, n})
    BY <1>4, <1>10
  <2> QED
    BY <1>1, <2>1 DEF n
<1>11. CASE ~HasTile(l, exact) /\ ahead # {}
  <2>1. NextTile(l, i, dir) \in ahead
    BY <1>4, <1>8, <1>11
  <2> QED
    BY <1>6, <2>1 DEF all
<1> QED
  BY <1>9, <1>10, <1>11

-----------------------------------------------------------------------------
(* What the selection of the atlas can be.                                 *)
Atlases ==
    [valid : BOOLEAN, layers : SUBSET Layers, style : Styles, zoom : -1..Deepest,
     tile : Nat \ {0}, browse : BOOLEAN, anchor : Points]

(* The layers that are shown are of the style that is shown.               *)
LEMMA ShownFound ==
    ASSUME NEW a \in Atlases
    PROVE  /\ ShownLayers(a) \in SUBSET Layers
           /\ \A l \in ShownLayers(a) : l.style = a.style
           /\ HasLayer(a) => Layer(a) \in ShownLayers(a) /\ Layer(a) \in Layers
<1>1. a.layers \in SUBSET Layers /\ a.zoom \in Int
  <2>1. a.layers \in SUBSET Layers /\ a.zoom \in -1..Deepest
    BY DEF Atlases
  <2> QED
    BY <2>1, DeepestAssumption
<1>2. /\ ShownLayers(a) \in SUBSET Layers
      /\ \A l \in ShownLayers(a) : l.style = a.style
  BY <1>1 DEF ShownLayers, LayersOf
<1>3. HasLayer(a) => Layer(a) \in ShownLayers(a)
  BY <1>1, <1>2, NearestLayerFound DEF HasLayer, Layer
<1> QED
  BY <1>2, <1>3

(* Where a selection can move.                                             *)
LEMMA SelectionMoves ==
    ASSUME NEW a \in Atlases, NEW l \in Layers, NEW i \in 1..Len(l.index)
    PROVE  /\ i \in Nat \ {0} /\ Center(l, i) \in Points
           /\ [a EXCEPT !.zoom = l.zoom, !.tile = i, !.anchor = Center(l, i)] \in Atlases
           /\ [a EXCEPT !.tile = i, !.anchor = Center(l, i)] \in Atlases
           /\ [a EXCEPT !.tile = i] \in Atlases
<1>1. i \in Nat \ {0} /\ l.zoom \in -1..Deepest
  BY LayerParts, DeepestAssumption
<1>2. Center(l, i) \in Points
  BY <1>1, TileOfLayer
<1> QED
  BY <1>1, <1>2 DEF Atlases

(* Synchronizing finds a layer and a tile, or selects nothing.             *)
LEMMA SyncedFound ==
    ASSUME NEW a \in Atlases
    PROVE  Synced(a) \in Atlases
<1>1. CASE ShownLayers(a) = {}
  <2>1. Synced(a) = [a EXCEPT !.zoom = -1, !.tile = 1]
    BY <1>1 DEF Synced
  <2>2. -1 \in -1..Deepest /\ 1 \in Nat \ {0}
    BY DeepestAssumption
  <2> QED
    BY <2>1, <2>2 DEF Atlases
<1>2. CASE ShownLayers(a) # {}
  <2> DEFINE l == NearestLayer(ShownLayers(a), Camera.zoom)
             i == NearestTile(l, Camera.at)
  <2>1. l \in Layers
    BY <1>2, ShownFound, NearestLayerFound, CameraAssumption
  <2>2. i \in 1..Len(l.index)
    BY <2>1, NearestTileFound, CameraAssumption DEF Points
  <2>3. Synced(a) = [a EXCEPT !.zoom = l.zoom, !.tile = i, !.anchor = Center(l, i)]
    BY <1>2 DEF Synced
  <2> HIDE DEF l, i
  <2>4. [a EXCEPT !.zoom = l.zoom, !.tile = i, !.anchor = Center(l, i)] \in Atlases
    BY <2>1, <2>2, SelectionMoves, Zenon
  <2> QED
    BY <2>3, <2>4, Zenon
<1> QED
  BY <1>1, <1>2

(* So do the other moves of the selection.                                 *)
LEMMA MovesFound ==
    ASSUME NEW a \in Atlases
    PROVE  /\ Centered(a) \in Atlases /\ Followed(a) \in Atlases
           /\ \A down \in BOOLEAN : MoveLayer(a, down) \in Atlases
           /\ HasLayer(a) => \A dir \in Directions : MoveTile(a, dir) \in Atlases
<1> DEFINE l == Layer(a)
<1>1. a.anchor \in Points /\ a.tile \in Nat \ {0}
  BY DEF Atlases
<1>2. HasLayer(a) => l \in Layers /\ l \in ShownLayers(a) /\ Focused(a) \in Points
  BY <1>1, ShownFound, TileOfLayer DEF Focused
<1>3. Centered(a) \in Atlases
  <2>1. CASE HasLayer(a)
    <3>1. [a EXCEPT !.anchor = Focused(a)] \in Atlases
      BY <1>2, <2>1 DEF Atlases
    <3> QED
      BY <2>1, <3>1 DEF Centered
  <2> QED
    BY <2>1 DEF Centered
<1>4. Followed(a) \in Atlases
  <2>1. CASE HasLayer(a) /\ a.browse
    <3>1. NearestTile(l, a.anchor) \in 1..Len(l.index)
      BY <1>1, <1>2, <2>1, NearestTileFound
    <3>2. [a EXCEPT !.tile = NearestTile(l, a.anchor)] \in Atlases
      BY <1>2, <2>1, <3>1, SelectionMoves
    <3> QED
      BY <2>1, <3>2 DEF Followed
  <2> QED
    BY <2>1 DEF Followed
<1>5. ASSUME NEW down \in BOOLEAN PROVE MoveLayer(a, down) \in Atlases
  <2>1. CASE ~HasLayer(a)
    BY <2>1, SyncedFound DEF MoveLayer
  <2>2. CASE HasLayer(a)
    <3> DEFINE m == NextLayer(ShownLayers(a), Layer(a), down)
               i == NearestTile(m, Focused(a))
    <3>1. m \in Layers
      BY <1>2, <2>2, ShownFound, NextLayerFound
    <3>2. i \in 1..Len(m.index)
      BY <1>2, <2>2, <3>1, NearestTileFound
    <3>3. MoveLayer(a, down) =
              [a EXCEPT !.zoom = m.zoom, !.tile = i, !.anchor = Center(m, i)]
      BY <2>2 DEF MoveLayer
    <3> HIDE DEF m, i
    <3>4. [a EXCEPT !.zoom = m.zoom, !.tile = i, !.anchor = Center(m, i)] \in Atlases
      BY <3>1, <3>2, SelectionMoves, Zenon
    <3> QED
      BY <3>3, <3>4, Zenon
  <2> QED
    BY <2>1, <2>2
<1>6. ASSUME HasLayer(a), NEW dir \in Directions PROVE MoveTile(a, dir) \in Atlases
  <2> DEFINE i == NextTile(l, a.tile, dir)
  <2>1. dir \in Points
    BY DEF Directions, Points
  <2>2. i \in 1..Len(l.index)
    BY <1>1, <1>2, <1>6, <2>1, NextTileFound
  <2>3. MoveTile(a, dir) = [a EXCEPT !.tile = i, !.anchor = Center(l, i)]
    BY DEF MoveTile
  <2>4. l \in Layers
    BY <1>2, <1>6
  <2> HIDE DEF l, i
  <2>5. [a EXCEPT !.tile = i, !.anchor = Center(l, i)] \in Atlases
    BY <2>2, <2>4, SelectionMoves, Zenon
  <2> QED
    BY <2>3, <2>5, Zenon
<1> QED
  BY <1>3, <1>4, <1>5, <1>6

(* Following the view once more changes nothing.                           *)
LEMMA FollowedTwice ==
    ASSUME NEW a \in Atlases
    PROVE  Followed(Followed(a)) = Followed(a)
<1> DEFINE b == Followed(a)
<1>1. CASE HasLayer(a) /\ a.browse
  <2>1. b = [a EXCEPT !.tile = NearestTile(Layer(a), a.anchor)]
    BY <1>1 DEF Followed
  <2>2. /\ b.valid = a.valid /\ b.layers = a.layers /\ b.style = a.style
        /\ b.zoom = a.zoom /\ b.browse = a.browse /\ b.anchor = a.anchor
        /\ b.tile = NearestTile(Layer(a), a.anchor) /\ b = [b EXCEPT !.tile = @]
    BY <2>1 DEF Atlases
  <2> HIDE DEF b
  <2>3. Layer(b) = Layer(a) /\ HasLayer(b)
    BY <1>1, <2>2 DEF Layer, HasLayer, ShownLayers
  <2>4. Followed(b) = [b EXCEPT !.tile = NearestTile(Layer(b), b.anchor)]
    BY <1>1, <2>2, <2>3 DEF Followed
  <2>5. NearestTile(Layer(b), b.anchor) = b.tile
    BY <2>2, <2>3
  <2>6. Followed(b) = b
    BY <2>2, <2>4, <2>5
  <2> QED
    BY <2>6 DEF b
<1>2. CASE ~(HasLayer(a) /\ a.browse)
  BY <1>2 DEF Followed
<1> QED
  BY <1>1, <1>2

-----------------------------------------------------------------------------
(* The requests of the atlas for one layer are for tiles of the layer, and *)
(* only those for the selected layer are visible.                          *)
LEMMA LayerRequests ==
    ASSUME NEW l \in Layers, NEW focus \in Nat, NEW anchor \in Points
    PROVE  \A r \in RequestsIn(l, focus, anchor) :
               /\ r.style = l.style /\ r.zoom = l.zoom
               /\ [x |-> r.x, y |-> r.y] \in ToSet(l.index)
               /\ r.visible = (focus # 0)
<1> DEFINE near == Around(l, Window(l, focus, anchor), IF focus # 0 THEN 2 ELSE 1)
           nearest == l.index[NearestTile(l, anchor)]
           tiles == IF near # {} THEN near ELSE {nearest}
<1>1. near \subseteq ToSet(l.index)
  BY DEF Around, StoredOf, HasTile
<1>2. nearest \in ToSet(l.index)
  <2>1. NearestTile(l, anchor) \in 1..Len(l.index)
    BY NearestTileFound
  <2> QED
    BY <2>1, LayerParts
<1>3. ASSUME NEW t \in ToSet(l.index) PROVE [x |-> t.x, y |-> t.y] = t
  <2>1. t \in Places
    <3>1. \A i \in 1..Len(l.index) : l.index[i] \in Places
      BY LayerParts
    <3>2. DOMAIN l.index = 1..Len(l.index)
      BY LayerParts
    <3> QED
      BY <3>1, <3>2 DEF ToSet
  <2> QED
    BY <2>1 DEF Places
<1>4. RequestsIn(l, focus, anchor) =
          {[style |-> l.style, zoom |-> l.zoom, x |-> t.x, y |-> t.y,
            visible |-> focus # 0] : t \in tiles}
  BY DEF RequestsIn
<1>5. tiles \subseteq ToSet(l.index)
  BY <1>1, <1>2
<1> HIDE DEF tiles
<1> QED
  BY <1>3, <1>4, <1>5

(* Where the view of the atlas is.                                         *)
Anchor(a) == IF a.browse THEN a.anchor ELSE Focused(a)

(* What a selection asks for, layer by layer.                              *)
LEMMA AtlasRequestsOf ==
    ASSUME NEW a \in Atlases, NEW r \in AtlasRequests(a)
    PROVE  /\ HasLayer(a)
           /\ \E l \in Adjacent(ShownLayers(a), Layer(a)) :
                 /\ l \in ShownLayers(a) /\ l \in Layers
                 /\ r.style = l.style /\ r.zoom = l.zoom
                 /\ [x |-> r.x, y |-> r.y] \in ToSet(l.index)
                 /\ r.visible = (l = Layer(a))
                 /\ l = Layer(a) => r \in RequestsIn(l, Followed(a).tile, Anchor(a))
<1> DEFINE p == Anchor(a)
           focus(l) == IF l = Layer(a) THEN Followed(a).tile ELSE 0
<1>1. HasLayer(a)
  BY DEF AtlasRequests
<1>2. Layer(a) \in Layers /\ a.anchor \in Points /\ a.tile \in Nat \ {0}
  BY <1>1, ShownFound DEF Atlases
<1>3. p \in Points
  BY <1>2, TileOfLayer DEF Anchor, Focused
<1>4. Followed(a).tile \in Nat \ {0}
  <2>1. Followed(a) \in Atlases
    BY MovesFound
  <2> QED
    BY <2>1 DEF Atlases
<1>5. AtlasRequests(a) = UNION {RequestsIn(l, focus(l), p) :
                                   l \in Adjacent(ShownLayers(a), Layer(a))}
  BY <1>1 DEF AtlasRequests, Requests, Anchor
<1> HIDE DEF p
<1>6. PICK l \in Adjacent(ShownLayers(a), Layer(a)) : r \in RequestsIn(l, focus(l), p)
  BY <1>5
<1>7. l \in ShownLayers(a) /\ l \in Layers
  BY ShownFound DEF Adjacent
<1>8. focus(l) \in Nat /\ (focus(l) # 0) = (l = Layer(a))
  BY <1>4
<1>9. /\ r.style = l.style /\ r.zoom = l.zoom
      /\ [x |-> r.x, y |-> r.y] \in ToSet(l.index)
      /\ r.visible = (focus(l) # 0)
  <2> HIDE DEF focus
  <2> QED
    BY <1>3, <1>6, <1>7, <1>8, LayerRequests
<1>10. l = Layer(a) => r \in RequestsIn(l, Followed(a).tile, p)
  BY <1>6
<1> HIDE DEF focus
<1> QED
  BY <1>1, <1>6, <1>7, <1>8, <1>9, <1>10 DEF p

(* They are tiles that the scan found.                                     *)
LEMMA OnlyStored ==
    ASSUME NEW a \in Atlases, NEW r \in AtlasRequests(a)
    PROVE  [style |-> r.style, zoom |-> r.zoom, x |-> r.x, y |-> r.y] \in TilesOf(a)
<1>1. PICK l \in ShownLayers(a) :
          /\ r.style = l.style /\ r.zoom = l.zoom
          /\ [x |-> r.x, y |-> r.y] \in ToSet(l.index)
  BY AtlasRequestsOf
<1> DEFINE t == [x |-> r.x, y |-> r.y]
           tile == [style |-> l.style, zoom |-> l.zoom, x |-> t.x, y |-> t.y]
           of == {[style |-> l.style, zoom |-> l.zoom, x |-> u.x, y |-> u.y] :
                     u \in ToSet(l.index)}
<1>2. tile \in of
  BY <1>1, Zenon
<1>3. of \subseteq TilesOf(a)
  BY DEF TilesOf
<1>4. tile = [style |-> r.style, zoom |-> r.zoom, x |-> r.x, y |-> r.y]
  BY <1>1
<1> QED
  BY <1>2, <1>3, <1>4

(* They are on the selected layer and on one above and one below it.       *)
LEMMA ThreeZooms ==
    ASSUME NEW a \in Atlases
    PROVE  Cardinality({r.zoom : r \in AtlasRequests(a)}) <= 3
<1> DEFINE zooms == {r.zoom : r \in AtlasRequests(a)}
           z == Layer(a).zoom
           adjacent == Adjacent(ShownLayers(a), Layer(a))
<1>1. CASE ~HasLayer(a)
  <2>1. zooms = {}
    BY <1>1 DEF AtlasRequests
  <2> QED
    BY <2>1, FS_EmptySet, SMTT(30)
<1>2. CASE HasLayer(a)
  <2>1. \A y \in zooms : \E l \in adjacent : y = l.zoom
    BY AtlasRequestsOf
  <2>2. \A l \in adjacent : l \in ShownLayers(a) /\ l.zoom \in Int
    <3>1. \A l \in adjacent : l \in ShownLayers(a)
      BY DEF Adjacent
    <3>2. \A l \in adjacent : l.zoom \in 0..Deepest
      BY <3>1, ShownFound, LayerParts
    <3> QED
      BY <3>1, <3>2
  <2>3. z \in Int
    <3>1. z \in 0..Deepest
      BY <1>2, ShownFound, LayerParts
    <3> QED
      BY <3>1
  <2>4. ASSUME NEW l \in adjacent, NEW m \in adjacent,
               \/ l.zoom > z /\ m.zoom > z
               \/ l.zoom < z /\ m.zoom < z
        PROVE  l.zoom = m.zoom
    <3>1. /\ ~(m.zoom > z /\ m.zoom < l.zoom) /\ ~(m.zoom < z /\ m.zoom > l.zoom)
          /\ ~(l.zoom > z /\ l.zoom < m.zoom) /\ ~(l.zoom < z /\ l.zoom > m.zoom)
      BY <2>2 DEF Adjacent
    <3> HIDE DEF z
    <3> QED
      BY <2>2, <2>3, <2>4, <3>1
  <2> DEFINE above == CHOOSE y \in zooms : y > z
             below == CHOOSE y \in zooms : y < z
             three == ({z} \cup {above}) \cup {below}
  <2>5. ASSUME NEW y \in zooms PROVE y \in three
    <3>1. PICK l \in adjacent : y = l.zoom
      BY <2>1
    <3>2. y \in Int
      BY <2>2, <3>1
    <3> HIDE DEF zooms, z, adjacent
    <3>3. CASE y > z
      <4>1. above \in zooms /\ above > z
        BY <3>3
      <4>2. PICK m \in adjacent : above = m.zoom
        BY <2>1, <4>1
      <4>3. y = above
        BY <2>4, <3>1, <3>3, <4>1, <4>2
      <4> QED
        BY <4>3
    <3>4. CASE y < z
      <4>1. below \in zooms /\ below < z
        BY <3>4
      <4>2. PICK m \in adjacent : below = m.zoom
        BY <2>1, <4>1
      <4>3. y = below
        BY <2>4, <3>1, <3>4, <4>1, <4>2
      <4> QED
        BY <4>3
    <3>5. CASE y = z
      BY <3>5
    <3> QED
      BY <2>3, <3>2, <3>3, <3>4, <3>5
  <2> HIDE DEF zooms, z, above, below
  <2>6. IsFiniteSet(three) /\ Cardinality(three) <= 3
    <3>1. IsFiniteSet({z}) /\ Cardinality({z}) = 1
      BY FS_Singleton
    <3>2. IsFiniteSet({z} \cup {above}) /\ Cardinality({z} \cup {above}) \in 1..2
      BY <3>1, FS_AddElement
    <3> QED
      BY <3>2, FS_AddElement
  <2> HIDE DEF three
  <2>7. zooms \in SUBSET three
    BY <2>5
  <2>8. IsFiniteSet(zooms) /\ Cardinality(zooms) <= Cardinality(three)
    BY <2>6, <2>7, FS_Subset
  <2>9. Cardinality(zooms) \in Nat /\ Cardinality(three) \in Nat
    BY <2>6, <2>8, FS_CardinalityType
  <2>10. Cardinality(zooms) <= 3
    BY <2>6, <2>8, <2>9
  <2> QED
    BY <2>10 DEF zooms
<1> QED
  BY <1>1, <1>2

(* On the selected layer they are in a window of five by five tiles.       *)
LEMMA WindowOfFive ==
    ASSUME NEW a \in Atlases
    PROVE  Cardinality({r \in AtlasRequests(a) : r.visible}) <= 25
<1> DEFINE seen == {r \in AtlasRequests(a) : r.visible}
           l == Layer(a)
           i == Followed(a).tile
           c == TileAt(l, i)
           p == Anchor(a)
           D == (-2..2) \X (-2..2)
           at(d) == [x |-> (c.x + d[1]) % Columns(l.zoom), y |-> c.y + d[2]]
           asked(t) == [style |-> l.style, zoom |-> l.zoom, x |-> t.x, y |-> t.y,
                        visible |-> TRUE]
           f == [d \in D |-> asked(at(d))]
           I == {f[d] : d \in D}
<1>1. i \in Nat \ {0}
  <2>1. Followed(a) \in Atlases
    BY MovesFound
  <2> QED
    BY <2>1 DEF Atlases
<1>2. \A r \in seen : r \in RequestsIn(l, i, p)
  <2>1. ASSUME NEW r \in seen PROVE r \in RequestsIn(l, i, p)
    <3>1. r \in AtlasRequests(a) /\ r.visible
      OBVIOUS
    <3> QED
      BY <3>1, AtlasRequestsOf
  <2> QED
    BY <2>1
<1> DEFINE near == Around(l, c, 2)
<1>3. ASSUME NEW r \in RequestsIn(l, i, p)
      PROVE  IF near # {} THEN \E t \in near : r = asked(t)
             ELSE r = asked(l.index[NearestTile(l, p)])
  <2>1. Window(l, i, p) = c
    BY <1>1 DEF Window
  <2>2. (i # 0) = TRUE /\ (IF i # 0 THEN 2 ELSE 1) = 2
    BY <1>1
  <2>3. RequestsIn(l, i, p) =
            {[style |-> l.style, zoom |-> l.zoom, x |-> t.x, y |-> t.y,
              visible |-> i # 0] :
                t \in IF near # {} THEN near ELSE {l.index[NearestTile(l, p)]}}
    BY <2>1, <2>2 DEF RequestsIn
  <2> HIDE DEF i, c, l, near
  <2> QED
    BY <2>2, <2>3
<1>4. \A t \in near : \E d \in D : t = at(d)
  <2>1. ASSUME NEW t \in near PROVE \E d \in D : t = at(d)
    <3>1. PICK dx \in -2..2, dy \in -2..2 :
              t = [x |-> (c.x + dx) % Columns(l.zoom), y |-> c.y + dy]
      BY DEF Around, StoredOf
    <3>2. t = at(<<dx, dy>>) /\ <<dx, dy>> \in D
      BY <3>1
    <3> QED
      BY <3>2
  <2> QED
    BY <2>1
<1>5. IsFiniteSet(D) /\ Cardinality(D) = 25
  <2>1. -2 \in Int /\ 2 \in Int /\ ~(-2 > 2) /\ 2 - (-2) + 1 = 5
    OBVIOUS
  <2>2. IsFiniteSet(-2..2) /\ Cardinality(-2..2) = 5
    <3> DEFINE low == -2
    <3>1. low \in Int /\ 2 \in Int /\ ~(low > 2) /\ 2 - low + 1 = 5
      BY <2>1
    <3> HIDE DEF low
    <3>2. IsFiniteSet(low..2) /\ Cardinality(low..2) = 2 - low + 1
      BY <3>1, FS_Interval
    <3> QED
      BY <3>1, <3>2 DEF low
  <2>3. IsFiniteSet(D) /\ Cardinality(D) = Cardinality(-2..2) * Cardinality(-2..2)
    BY <2>2, FS_Product
  <2> QED
    BY <2>2, <2>3
<1>6. f \in Surjection(D, I)
  <2> HIDE DEF asked, at, D
  <2> QED
    BY DEF Surjection
<1>7. IsFiniteSet(I) /\ Cardinality(I) <= 25
  BY <1>5, <1>6, FS_Surjection
<1>8. \A d \in D : f[d] = asked(at(d)) /\ f[d] \in I
  <2> HIDE DEF asked, at, D
  <2> QED
    OBVIOUS
<1> HIDE DEF seen, l, i, c, p, D, f, I, at, asked, near
<1>9. CASE near # {}
  <2>1. ASSUME NEW r \in seen PROVE r \in I
    <3>1. PICK t \in near : r = asked(t)
      BY <1>2, <1>3, <1>9
    <3>2. PICK d \in D : t = at(d)
      BY <1>4, <3>1
    <3> QED
      BY <1>8, <3>1, <3>2
  <2>2. IsFiniteSet(seen) /\ Cardinality(seen) <= Cardinality(I)
    BY <1>7, <2>1, FS_Subset
  <2>3. Cardinality(seen) \in Nat /\ Cardinality(I) \in Nat
    BY <1>7, <2>2, FS_CardinalityType
  <2>4. Cardinality(seen) <= 25
    BY <1>7, <2>2, <2>3
  <2> QED
    BY <2>4 DEF seen
<1>10. CASE near = {}
  <2> DEFINE one == {asked(l.index[NearestTile(l, p)])}
  <2>1. ASSUME NEW r \in seen PROVE r \in one
    <3>1. r \in RequestsIn(l, i, p)
      BY <1>2
    <3> QED
      BY <1>3, <1>10, <3>1
  <2>2. IsFiniteSet(one) /\ Cardinality(one) = 1
    BY FS_Singleton
  <2> HIDE DEF one
  <2>3. IsFiniteSet(seen) /\ Cardinality(seen) <= Cardinality(one)
    BY <2>1, <2>2, FS_Subset
  <2>4. Cardinality(seen) \in Nat
    BY <2>3, FS_CardinalityType
  <2>5. Cardinality(seen) <= 25
    BY <2>2, <2>3, <2>4
  <2> QED
    BY <2>5 DEF seen
<1> QED
  BY <1>9, <1>10

(* The tile that is shown as selected is among them.                       *)
LEMMA SelectedAsked ==
    ASSUME NEW a \in Atlases, HasLayer(a), Followed(a) = a
    PROVE  LET t == TileAt(Layer(a), a.tile)
           IN  [style |-> a.style, zoom |-> Layer(a).zoom,
                x |-> t.x, y |-> t.y, visible |-> TRUE] \in AtlasRequests(a)
<1> DEFINE l == Layer(a)
           t == TileAt(l, a.tile)
           p == Anchor(a)
           near == Around(l, t, 2)
           asked(u) == [style |-> l.style, zoom |-> l.zoom, x |-> u.x, y |-> u.y,
                        visible |-> TRUE]
           adjacent == Adjacent(ShownLayers(a), l)
<1>1. l \in Layers /\ l \in ShownLayers(a) /\ l.style = a.style
  BY ShownFound
<1>2. a.tile \in Nat \ {0}
  BY DEF Atlases
<1>3. /\ t \in ToSet(l.index) /\ t \in Places
      /\ {t.x, t.y} \subseteq 0..Columns(l.zoom) - 1
      /\ Columns(l.zoom) \in Nat \ {0}
  BY <1>1, <1>2, TileOfLayer, LayerParts, SizesPositive
<1>4. t \in near
  <2> DEFINE count == Columns(l.zoom)
  <2>1. t.x \in Int /\ t.y \in Int /\ t = [x |-> t.x, y |-> t.y]
    BY <1>3 DEF Places
  <2> HIDE DEF t, count
  <2>2. t = [x |-> (t.x + 0) % count, y |-> t.y + 0]
    <3>1. (t.x + 0) % count = t.x /\ t.y + 0 = t.y
      BY <1>3, <2>1 DEF count
    <3> QED
      BY <2>1, <3>1
  <2>3. 0 \in -2..2 /\ t.y + 0 \in 0..count - 1
    BY <1>3, <2>1 DEF count
  <2>4. t \in {[x |-> (t.x + dx) % count, y |-> t.y + dy] :
                  dx \in -2..2, dy \in {d \in -2..2 : t.y + d \in 0..count - 1}}
    BY <2>2, <2>3
  <2> QED
    BY <1>3, <2>4 DEF Around, StoredOf, HasTile, count
<1>5. asked(t) \in RequestsIn(l, a.tile, p)
  <2>1. Window(l, a.tile, p) = t
    BY <1>2 DEF Window
  <2>2. (a.tile # 0) = TRUE /\ (IF a.tile # 0 THEN 2 ELSE 1) = 2
    BY <1>2
  <2>3. RequestsIn(l, a.tile, p) =
            {[style |-> l.style, zoom |-> l.zoom, x |-> u.x, y |-> u.y,
              visible |-> a.tile # 0] :
                u \in IF near # {} THEN near ELSE {l.index[NearestTile(l, p)]}}
    BY <2>1, <2>2 DEF RequestsIn
  <2> HIDE DEF l, t, p, near
  <2> QED
    BY <1>4, <2>2, <2>3
<1>6. l \in adjacent
  <2>1. l.zoom \in Int
    <3>1. l.zoom \in 0..Deepest
      BY <1>1, LayerParts
    <3> QED
      BY <3>1
  <2>2. {m \in ShownLayers(a) : \/ m.zoom > l.zoom /\ m.zoom < l.zoom
                                \/ m.zoom < l.zoom /\ m.zoom > l.zoom} = {}
    <3>1. \A m \in ShownLayers(a) : m.zoom \in 0..Deepest
      BY ShownFound, LayerParts
    <3>2. \A m \in ShownLayers(a) : m.zoom \in Int
      BY <3>1
    <3> HIDE DEF l
    <3> QED
      BY <2>1, <3>2
  <2> QED
    BY <1>1, <2>2 DEF Adjacent
<1>7. AtlasRequests(a) =
          UNION {RequestsIn(m, IF m = l THEN a.tile ELSE 0, p) : m \in adjacent}
  BY DEF AtlasRequests, Requests, Anchor
<1> HIDE DEF l, t, p, adjacent, near, asked
<1>8. asked(t) \in AtlasRequests(a)
  BY <1>5, <1>6, <1>7
<1> QED
  BY <1>1, <1>8 DEF l, t, asked
=============================================================================
