---------------------------- MODULE PinScreenProofs ----------------------------
(***************************************************************************)
(* Theorems about PinRepository and PinScreen, for any names, places,      *)
(* files and limits.                                                       *)
(***************************************************************************)
EXTENDS PinScreen, SequenceFacts

Good(r) == r \in Repositories /\ Bounded(r)

(* The parts of Good as the lemmas below use them.                         *)
LEMMA GoodParts ==
    ASSUME NEW r, Good(r)
    PROVE  /\ r = [lists |-> r.lists, active |-> r.active,
                   nextList |-> r.nextList, nextPin |-> r.nextPin]
           /\ r.lists \in Seq(PinLists) /\ Len(r.lists) \in 1..MaxLists
           /\ Len(r.lists) \in Nat
           /\ r.active \in 1..Len(r.lists)
           /\ r.nextList \in Nat \ {0} /\ r.nextPin \in Nat \ {0}
           /\ \A i \in 1..Len(r.lists) :
                  /\ r.lists[i] \in PinLists
                  /\ r.lists[i].pins \in Seq(Pins)
                  /\ r.lists[i].id \in Nat \ {0}
                  /\ Len(r.lists[i].pins) \in Nat /\ Len(r.lists[i].pins) <= MaxPins
                  /\ r.lists[i].closed => Len(r.lists[i].pins) >= ClosingPins
                  /\ r.lists[i].id < r.nextList
           /\ \A i, k \in 1..Len(r.lists) : r.lists[i].id = r.lists[k].id => i = k
<1>1. /\ r = [lists |-> r.lists, active |-> r.active,
              nextList |-> r.nextList, nextPin |-> r.nextPin]
      /\ r.lists \in Seq(PinLists)
      /\ r.nextList \in Nat \ {0} /\ r.nextPin \in Nat \ {0}
  BY DEF Good, Repositories
<1>2. Len(r.lists) \in 1..MaxLists /\ r.active \in 1..Len(r.lists)
  BY DEF Good, Bounded, Decodes
<1>3. Len(r.lists) \in Nat
  BY <1>1, LenProperties
<1>4. ASSUME NEW i \in 1..Len(r.lists)
      PROVE  /\ r.lists[i] \in PinLists
             /\ r.lists[i].pins \in Seq(Pins)
             /\ r.lists[i].id \in Nat \ {0}
             /\ Len(r.lists[i].pins) \in Nat /\ Len(r.lists[i].pins) <= MaxPins
             /\ r.lists[i].closed => Len(r.lists[i].pins) >= ClosingPins
             /\ r.lists[i].id < r.nextList
             /\ \A k \in 1..Len(r.lists) : r.lists[i].id = r.lists[k].id => i = k
  <2>1. r.lists[i] \in PinLists
    BY <1>1, ElementOfSeq
  <2>2. r.lists[i].pins \in Seq(Pins) /\ r.lists[i].id \in Nat \ {0}
    BY <2>1 DEF PinLists
  <2>3. Len(r.lists[i].pins) \in Nat
    BY <2>2, LenProperties
  <2> QED
    BY <2>1, <2>2, <2>3 DEF Good, Bounded, Decodes
<1> QED
  BY <1>1, <1>2, <1>3, <1>4

-----------------------------------------------------------------------------
(* A repository with one list in place of another, or with one more.       *)
With(r, i, list, nextPin) ==
    [lists |-> [r.lists EXCEPT ![i] = list], active |-> r.active,
     nextList |-> r.nextList, nextPin |-> nextPin]

Grown(r, list, nextPin) ==
    [lists |-> Append(r.lists, list), active |-> Len(r.lists) + 1,
     nextList |-> r.nextList + 1, nextPin |-> nextPin]

(* A repository in which one list changed within its limits.               *)
LEMMA ListReplaced ==
    ASSUME NEW r, Good(r), NEW i \in 1..Len(r.lists), NEW list \in PinLists,
           list.id = r.lists[i].id, Len(list.pins) <= MaxPins,
           list.closed => Len(list.pins) >= ClosingPins, NEW nextPin \in Nat \ {0}
    PROVE  /\ Good(With(r, i, list, nextPin))
           /\ Len(With(r, i, list, nextPin).lists) = Len(r.lists)
           /\ With(r, i, list, nextPin).active = r.active
           /\ With(r, i, list, nextPin).lists[i] = list
           /\ \A k \in 1..Len(r.lists) \ {i} :
                  With(r, i, list, nextPin).lists[k] = r.lists[k]
<1> DEFINE lists == [r.lists EXCEPT ![i] = list]
           active == r.active
           r2 == With(r, i, list, nextPin)
<1>1. /\ lists \in Seq(PinLists) /\ Len(lists) = Len(r.lists)
      /\ \A k \in 1..Len(r.lists) : lists[k] = IF k = i THEN list ELSE r.lists[k]
  BY GoodParts, ExceptSeq
<1>2. r2.lists = lists /\ r2.active = active /\ r2.nextList = r.nextList
  BY DEF With
<1>3. r2 = [lists |-> lists, active |-> active, nextList |-> r.nextList,
            nextPin |-> nextPin]
  BY DEF With
<1> HIDE DEF lists, r2
<1>4. Len(r.lists) \in Nat /\ r.nextList \in Nat \ {0}
  BY GoodParts
<1>5. r2 \in Repositories
  <2>1. active \in Nat
    BY <1>4, GoodParts
  <2> QED
    BY ONLY <1>1, <1>3, <1>4, <2>1, nextPin \in Nat \ {0} DEF Repositories
<1>6. Bounded(r2)
  <2>1. Decodes(r2)
    <3>1. \A k \in 1..Len(lists) : lists[k].id # 0 /\ Len(lists[k].pins) <= MaxPins
      <4>1. list.id # 0 /\ Len(list.pins) <= MaxPins
        BY DEF PinLists
      <4>2. \A k \in 1..Len(r.lists) :
                r.lists[k].id # 0 /\ Len(r.lists[k].pins) <= MaxPins
        BY GoodParts
      <4> QED
        BY <1>1, <4>1, <4>2
    <3> QED
      BY <1>1, <1>2, <3>1, GoodParts DEF Decodes
  <2>2. \A k \in 1..Len(lists) :
            /\ lists[k].closed => Len(lists[k].pins) >= ClosingPins
            /\ lists[k].id < r.nextList
            /\ lists[k].id = r.lists[k].id
    BY <1>1, GoodParts
  <2> QED
    BY <1>1, <1>2, <2>1, <2>2, GoodParts, SMTT(30) DEF Bounded
<1>7. /\ Good(r2) /\ Len(r2.lists) = Len(r.lists) /\ r2.active = r.active
      /\ r2.lists[i] = list
      /\ \A k \in 1..Len(r.lists) \ {i} : r2.lists[k] = r.lists[k]
  BY <1>1, <1>2, <1>5, <1>6 DEF Good
<1> QED
  BY <1>7 DEF r2

(* A repository with one list more, which is the active one.               *)
LEMMA ListAppended ==
    ASSUME NEW r, Good(r), CanAddList(r), NEW list \in PinLists,
           list.id = r.nextList, Len(list.pins) <= MaxPins, ~list.closed,
           NEW nextPin \in Nat \ {0}
    PROVE  /\ Good(Grown(r, list, nextPin))
           /\ Len(Grown(r, list, nextPin).lists) = Len(r.lists) + 1
           /\ Grown(r, list, nextPin).active = Len(r.lists) + 1
           /\ Grown(r, list, nextPin).lists[Len(r.lists) + 1] = list
<1> DEFINE lists == Append(r.lists, list)
           r2 == Grown(r, list, nextPin)
<1>1. /\ lists \in Seq(PinLists) /\ Len(lists) = Len(r.lists) + 1
      /\ \A k \in 1..Len(r.lists) : lists[k] = r.lists[k]
      /\ lists[Len(r.lists) + 1] = list
  BY GoodParts, AppendProperties
<1>2. r2.lists = lists /\ r2.active = Len(r.lists) + 1 /\ r2.nextList = r.nextList + 1
  BY DEF Grown
<1>3. r2 = [lists |-> lists, active |-> Len(r.lists) + 1,
            nextList |-> r.nextList + 1, nextPin |-> nextPin]
  BY DEF Grown
<1> HIDE DEF lists, r2
<1>4. Len(r.lists) \in Nat /\ r.nextList \in Nat \ {0} /\ r.nextList + 1 \in Nat \ {0}
  BY GoodParts
<1>5. r2 \in Repositories
  <2>1. Len(r.lists) + 1 \in Nat
    BY <1>4
  <2> QED
    BY ONLY <1>1, <1>3, <1>4, <2>1, nextPin \in Nat \ {0} DEF Repositories
<1>6. \A k \in 1..Len(lists) : k \in 1..Len(r.lists) \/ k = Len(r.lists) + 1
  BY <1>1, <1>4
<1>7. Bounded(r2)
  <2>1. Decodes(r2)
    <3>1. Len(lists) \in 1..MaxLists
      BY <1>1, <1>4, LimitsAssumption DEF CanAddList
    <3>2. \A k \in 1..Len(lists) : lists[k].id # 0 /\ Len(lists[k].pins) <= MaxPins
      <4>1. \A k \in 1..Len(r.lists) : lists[k].id # 0 /\ Len(lists[k].pins) <= MaxPins
        BY <1>1, GoodParts
      <4>2. lists[Len(r.lists) + 1].id # 0 /\ Len(lists[Len(r.lists) + 1].pins) <= MaxPins
        BY <1>1, <1>4
      <4> QED
        BY <1>6, <4>1, <4>2
    <3> QED
      BY <1>1, <1>2, <1>4, <3>1, <3>2 DEF Decodes
  <2>2. \A k \in 1..Len(lists) :
            /\ lists[k].closed => Len(lists[k].pins) >= ClosingPins
            /\ lists[k].id < r.nextList + 1
    <3>1. \A k \in 1..Len(r.lists) :
              /\ lists[k].closed => Len(lists[k].pins) >= ClosingPins
              /\ lists[k].id < r.nextList + 1
      BY <1>1, <1>4, GoodParts
    <3>2. lists[Len(r.lists) + 1].id < r.nextList + 1 /\ ~lists[Len(r.lists) + 1].closed
      BY <1>1, <1>4
    <3> QED
      BY <1>6, <3>1, <3>2
  <2>3. \A j, k \in 1..Len(lists) : lists[j].id = lists[k].id => j = k
    <3>1. \A k \in 1..Len(r.lists) :
              lists[k].id \in Nat /\ lists[k].id < lists[Len(r.lists) + 1].id
      BY <1>1, GoodParts
    <3>2. \A j, k \in 1..Len(r.lists) : lists[j].id = lists[k].id => j = k
      BY <1>1, GoodParts
    <3>3. \A j, k \in 1..Len(lists) :
              \/ j \in 1..Len(r.lists) /\ k \in 1..Len(r.lists)
              \/ j = Len(r.lists) + 1 /\ k = Len(r.lists) + 1
              \/ j \in 1..Len(r.lists) /\ k = Len(r.lists) + 1
              \/ j = Len(r.lists) + 1 /\ k \in 1..Len(r.lists)
      BY <1>6
    <3>4. lists[Len(r.lists) + 1].id \in Nat
      BY <1>1, <1>4
    <3> QED
      BY <3>1, <3>2, <3>3, <3>4
  <2> QED
    BY <1>2, <2>1, <2>2, <2>3 DEF Bounded
<1>8. /\ Good(r2) /\ Len(r2.lists) = Len(r.lists) + 1
      /\ r2.active = Len(r.lists) + 1 /\ r2.lists[Len(r.lists) + 1] = list
  BY <1>1, <1>2, <1>5, <1>7 DEF Good
<1> QED
  BY <1>8 DEF r2

-----------------------------------------------------------------------------
(* An edit of the contents of one list, which leaves its id alone.         *)
Edits(r, r2) ==
    /\ Good(r2)
    /\ Len(r2.lists) = Len(r.lists) /\ r2.active = r.active
    /\ \A k \in 1..Len(r.lists) : r2.lists[k].visible = r.lists[k].visible

(* The fields of a list.                                                   *)
LEMMA PinListParts ==
    ASSUME NEW list \in PinLists
    PROVE  /\ list.id \in Nat \ {0} /\ list.name \in Names /\ list.style \in Styles
           /\ list.visible \in BOOLEAN /\ list.closed \in BOOLEAN
           /\ list.pins \in Seq(Pins) /\ Len(list.pins) \in Nat
BY LenProperties DEF PinLists

(* Other lists in the same repository.                                     *)
LEMMA ListsInPlace ==
    ASSUME NEW r, Good(r), NEW i, NEW list
    PROVE  /\ [r EXCEPT !.lists = [r.lists EXCEPT ![i] = list]]
                  = With(r, i, list, r.nextPin)
           /\ \A nextPin : [r EXCEPT !.lists = [r.lists EXCEPT ![i] = list],
                                     !.nextPin = nextPin]
                               = With(r, i, list, nextPin)
<1> DEFINE lists == [r.lists EXCEPT ![i] = list]
<1>1. r = [lists |-> r.lists, active |-> r.active,
           nextList |-> r.nextList, nextPin |-> r.nextPin]
  BY GoodParts
<1> HIDE DEF lists
<1>2. [r EXCEPT !.lists = lists] = [lists |-> lists, active |-> r.active,
          nextList |-> r.nextList, nextPin |-> r.nextPin]
  BY <1>1
<1>3. ASSUME NEW nextPin
      PROVE  [r EXCEPT !.lists = lists, !.nextPin = nextPin]
                 = [lists |-> lists, active |-> r.active,
                    nextList |-> r.nextList, nextPin |-> nextPin]
  <2> DEFINE r2 == [r EXCEPT !.lists = lists]
  <2>1. [r EXCEPT !.lists = lists, !.nextPin = nextPin] = [r2 EXCEPT !.nextPin = nextPin]
    OBVIOUS
  <2>2. r2 = [lists |-> lists, active |-> r.active,
              nextList |-> r.nextList, nextPin |-> r.nextPin]
    BY <1>2
  <2> HIDE DEF r2
  <2> QED
    BY <2>1, <2>2
<1> QED
  BY <1>2, <1>3 DEF With, lists

(* A list with the same id, visible as before, within its limits.          *)
LEMMA ContentReplaced ==
    ASSUME NEW r, Good(r), NEW i \in 1..Len(r.lists), NEW list \in PinLists,
           list.id = r.lists[i].id, list.visible = r.lists[i].visible,
           Len(list.pins) <= MaxPins, list.closed => Len(list.pins) >= ClosingPins,
           NEW nextPin \in Nat \ {0}
    PROVE  Edits(r, With(r, i, list, nextPin))
BY ListReplaced DEF Edits

(* A list with other pins, closed or not.                                  *)
LEMMA PinsReplaced ==
    ASSUME NEW r, Good(r), NEW i \in 1..Len(r.lists), NEW pinSeq \in Seq(Pins),
           Len(pinSeq) <= MaxPins, NEW closed \in BOOLEAN,
           closed => Len(pinSeq) >= ClosingPins, NEW nextPin \in Nat \ {0}
    PROVE  Edits(r, With(r, i, [r.lists[i] EXCEPT !.closed = closed, !.pins = pinSeq],
                         nextPin))
<1> DEFINE list == [r.lists[i] EXCEPT !.closed = closed, !.pins = pinSeq]
<1>1. r.lists[i] \in PinLists
  BY GoodParts
<1>2. /\ list \in PinLists
      /\ list.id = r.lists[i].id /\ list.visible = r.lists[i].visible
      /\ list.pins = pinSeq /\ list.closed = closed
  BY <1>1 DEF PinLists
<1> HIDE DEF list
<1>3. Edits(r, With(r, i, list, nextPin))
  BY <1>2, ContentReplaced
<1> QED
  BY <1>3 DEF list

(* Colour, icon and name of a list.                                        *)
LEMMA ListChanged ==
    ASSUME NEW r, Good(r), NEW i \in 1..Len(r.lists), NEW name \in Names,
           NEW style \in Styles
    PROVE  Edits(r, RenameList(r, i, name)) /\ Edits(r, SetStyle(r, i, style))
<1> DEFINE old == r.lists[i]
<1>1. /\ old \in PinLists /\ r.nextPin \in Nat \ {0}
      /\ Len(old.pins) <= MaxPins /\ (old.closed => Len(old.pins) >= ClosingPins)
  BY GoodParts
<1>2. ASSUME NEW list \in PinLists, list.id = old.id, list.pins = old.pins,
             list.closed = old.closed, list.visible = old.visible
      PROVE  Edits(r, [r EXCEPT !.lists = [r.lists EXCEPT ![i] = list]])
  <2>1. Len(list.pins) <= MaxPins /\ (list.closed => Len(list.pins) >= ClosingPins)
    BY <1>1, <1>2
  <2>2. Edits(r, With(r, i, list, r.nextPin))
    BY <1>1, <1>2, <2>1, ContentReplaced
  <2> QED
    BY <2>2, ListsInPlace
<1>3. Edits(r, RenameList(r, i, name))
  <2> DEFINE list == [old EXCEPT !.name = name]
  <2>1. /\ list \in PinLists /\ list.id = old.id /\ list.pins = old.pins
        /\ list.closed = old.closed /\ list.visible = old.visible
    BY <1>1 DEF PinLists
  <2>2. RenameList(r, i, name) = [r EXCEPT !.lists = [r.lists EXCEPT ![i] = list]]
    BY DEF RenameList
  <2> HIDE DEF list
  <2> QED
    BY <1>2, <2>1, <2>2
<1>4. Edits(r, SetStyle(r, i, style))
  <2> DEFINE list == [old EXCEPT !.style = style]
  <2>1. /\ list \in PinLists /\ list.id = old.id /\ list.pins = old.pins
        /\ list.closed = old.closed /\ list.visible = old.visible
    BY <1>1 DEF PinLists
  <2>2. SetStyle(r, i, style) = [r EXCEPT !.lists = [r.lists EXCEPT ![i] = list]]
    BY DEF SetStyle
  <2> HIDE DEF list
  <2> QED
    BY <1>2, <2>1, <2>2
<1> QED
  BY <1>3, <1>4

(* A list that is shown or hidden.                                         *)
LEMMA VisibleChanged ==
    ASSUME NEW r, Good(r), NEW i \in 1..Len(r.lists), NEW visible \in BOOLEAN
    PROVE  /\ Good(SetVisible(r, i, visible))
           /\ Len(SetVisible(r, i, visible).lists) = Len(r.lists)
           /\ SetVisible(r, i, visible).active = r.active
           /\ SetVisible(r, i, visible).lists[i].visible = visible
<1> DEFINE old == r.lists[i]
           list == [old EXCEPT !.visible = visible]
<1>1. /\ old \in PinLists /\ r.nextPin \in Nat \ {0}
      /\ Len(old.pins) <= MaxPins /\ (old.closed => Len(old.pins) >= ClosingPins)
  BY GoodParts
<1>2. /\ list \in PinLists /\ list.id = old.id /\ list.pins = old.pins
      /\ list.closed = old.closed /\ list.visible = visible
  BY <1>1 DEF PinLists
<1>3. SetVisible(r, i, visible) = [r EXCEPT !.lists = [r.lists EXCEPT ![i] = list]]
  BY DEF SetVisible
<1> HIDE DEF list
<1>4. SetVisible(r, i, visible) = With(r, i, list, r.nextPin)
  BY <1>3, ListsInPlace
<1>5. Len(list.pins) <= MaxPins /\ (list.closed => Len(list.pins) >= ClosingPins)
  BY <1>1, <1>2
<1> QED
  BY <1>1, <1>2, <1>4, <1>5, ListReplaced

(* Another active list.                                                    *)
LEMMA ActiveChanged ==
    ASSUME NEW r, Good(r), NEW i \in 1..Len(r.lists)
    PROVE  /\ Good(SetActive(r, i)) /\ SetActive(r, i).lists = r.lists
           /\ SetActive(r, i).active = i
<1>1. SetActive(r, i) = [lists |-> r.lists, active |-> i,
                         nextList |-> r.nextList, nextPin |-> r.nextPin]
  BY GoodParts DEF SetActive
<1>2. SetActive(r, i) \in Repositories
  BY <1>1, GoodParts DEF Repositories
<1>3. Bounded(SetActive(r, i))
  BY <1>1, GoodParts DEF Bounded, Decodes, Good
<1> QED
  BY <1>1, <1>2, <1>3 DEF Good

(* A closed path has its pins.                                             *)
LEMMA ClosedChanged ==
    ASSUME NEW r, Good(r), NEW i \in 1..Len(r.lists), NEW closed \in BOOLEAN,
           closed => Len(r.lists[i].pins) >= ClosingPins
    PROVE  Edits(r, SetClosed(r, i, closed))
<1> DEFINE old == r.lists[i]
           list == [old EXCEPT !.closed = closed]
<1>1. /\ old \in PinLists /\ Len(old.pins) <= MaxPins /\ r.nextPin \in Nat \ {0}
  BY GoodParts
<1>2. /\ list \in PinLists /\ list.id = old.id /\ list.pins = old.pins
      /\ list.closed = closed /\ list.visible = old.visible
  BY <1>1 DEF PinLists
<1>3. SetClosed(r, i, closed) = [r EXCEPT !.lists = [r.lists EXCEPT ![i] = list]]
  BY DEF SetClosed
<1> HIDE DEF list
<1>4. Len(list.pins) <= MaxPins /\ (list.closed => Len(list.pins) >= ClosingPins)
  BY <1>1, <1>2
<1>5. Edits(r, With(r, i, list, r.nextPin))
  BY <1>1, <1>2, <1>4, ContentReplaced
<1> QED
  BY <1>3, <1>5, ListsInPlace

(* Two changes of one list are a change of the repository.                 *)
Repinned(r, i, closed, pinSeq) ==
    [r EXCEPT !.lists[i].closed = closed, !.lists[i].pins = pinSeq]

(* A list that was closed or opened and has other pins.                    *)
LEMMA TwoFields ==
    ASSUME NEW r, Good(r), NEW i \in 1..Len(r.lists), NEW closed, NEW pinSeq
    PROVE  Repinned(r, i, closed, pinSeq)
               = With(r, i, [r.lists[i] EXCEPT !.closed = closed, !.pins = pinSeq],
                      r.nextPin)
<1> DEFINE open == [r.lists[i] EXCEPT !.closed = closed]
           list == [open EXCEPT !.pins = pinSeq]
           first == [r.lists EXCEPT ![i] = open]
           r1 == [r EXCEPT !.lists = first]
<1>1. /\ r = [lists |-> r.lists, active |-> r.active,
              nextList |-> r.nextList, nextPin |-> r.nextPin]
      /\ r.lists \in Seq(PinLists) /\ DOMAIN r.lists = 1..Len(r.lists)
  BY GoodParts, LenProperties
<1>2. first[i] = open
  BY <1>1
<1>3. r1.lists = first
  BY <1>1
<1>4. [first EXCEPT ![i] = list] = [r.lists EXCEPT ![i] = list]
  BY <1>1
<1>5. [r EXCEPT !.lists[i].closed = closed, !.lists[i].pins = pinSeq]
          = [r1 EXCEPT !.lists = [r1.lists EXCEPT ![i] = [r1.lists[i] EXCEPT !.pins = pinSeq]]]
  OBVIOUS
<1>6. [r1.lists EXCEPT ![i] = [r1.lists[i] EXCEPT !.pins = pinSeq]]
          = [r.lists EXCEPT ![i] = list]
  BY <1>2, <1>3, <1>4
<1>7. \A l : [r1 EXCEPT !.lists = l] = [r EXCEPT !.lists = l]
  BY <1>1
<1>8. [r EXCEPT !.lists[i].closed = closed, !.lists[i].pins = pinSeq]
          = [r EXCEPT !.lists = [r.lists EXCEPT ![i] = list]]
  BY <1>5, <1>6, <1>7
<1>9. Repinned(r, i, closed, pinSeq) = [r EXCEPT !.lists = [r.lists EXCEPT ![i] = list]]
  BY <1>8 DEF Repinned
<1> HIDE DEF list
<1>10. Repinned(r, i, closed, pinSeq) = With(r, i, list, r.nextPin)
  BY <1>9, ListsInPlace
<1> QED
  BY <1>10 DEF list

(* A pin more in the active list, which is open then.                      *)
NewPin(r, place, name) ==
    [id |-> r.nextPin, place |-> place, name |-> name, elevation |-> Unmeasured]

LongerList(r, place, name) ==
    [r.lists[r.active] EXCEPT !.closed = FALSE,
        !.pins = Append(r.lists[r.active].pins, NewPin(r, place, name))]

(* add_pin changes one list, and the next id of a pin.                     *)
LEMMA AddPinAs ==
    ASSUME NEW r, Good(r), NEW place, NEW name
    PROVE  AddPin(r, place, name)
               = With(r, r.active, LongerList(r, place, name), r.nextPin + 1)
<1> DEFINE i == r.active
           old == r.lists[i]
           pin == NewPin(r, place, name)
           more == Append(old.pins, pin)
           closed == FALSE
           list == [old EXCEPT !.closed = closed, !.pins = more]
           r1 == Repinned(r, i, closed, more)
<1>1. /\ i \in 1..Len(r.lists)
      /\ r.lists \in Seq(PinLists) /\ DOMAIN r.lists = 1..Len(r.lists)
      /\ r = [lists |-> r.lists, active |-> r.active,
              nextList |-> r.nextList, nextPin |-> r.nextPin]
      /\ old \in PinLists
  BY GoodParts, LenProperties
<1>2. AddPin(r, place, name) = [r1 EXCEPT !.nextPin = r.nextPin + 1]
  <2> DEFINE open == [r EXCEPT !.lists[i].closed = FALSE]
  <2>1. open.lists[i].pins = old.pins
    BY <1>1 DEF PinLists
  <2> DEFINE longer == [open EXCEPT !.lists[i].pins = Append(open.lists[i].pins, pin)]
  <2>2. AddPin(r, place, name) = [longer EXCEPT !.nextPin = r.nextPin + 1]
    BY <1>1 DEF AddPin, NewPin
  <2> HIDE DEF open
  <2>3. longer = r1
    BY <2>1 DEF open, Repinned
  <2> QED
    BY <2>2, <2>3
<1> HIDE DEF more, closed
<1>3. r.active \in 1..Len(r.lists)
  BY <1>1
<1>4. r1 = With(r, i, list, r.nextPin)
  BY ONLY <1>3, Good(r), TwoFields
<1> HIDE DEF list, r1
<1>5. AddPin(r, place, name) = With(r, i, list, r.nextPin + 1)
  BY <1>2, <1>4 DEF With
<1> QED
  BY <1>5 DEF list, more, closed, LongerList

(* The active list keeps its limits when it gets a pin.                    *)
LEMMA PinAdded ==
    ASSUME NEW r, Good(r), CanAddPin(r), NEW place \in Places, NEW name \in Names
    PROVE  Edits(r, AddPin(r, place, name))
<1> DEFINE i == r.active
           old == r.lists[i]
           pin == NewPin(r, place, name)
           more == Append(old.pins, pin)
           closed == FALSE
           nextPin == r.nextPin + 1
<1>1. /\ i \in 1..Len(r.lists) /\ old.pins \in Seq(Pins) /\ Len(old.pins) \in Nat
      /\ r.nextPin \in Nat \ {0} /\ nextPin \in Nat \ {0}
  BY GoodParts
<1>2. pin \in Pins
  BY <1>1 DEF Pins, NewPin
<1> HIDE DEF pin
<1>3. /\ more \in Seq(Pins) /\ Len(more) = Len(old.pins) + 1
  BY <1>1, <1>2, AppendProperties
<1>4. Len(more) <= MaxPins
  BY <1>1, <1>3, LimitsAssumption DEF CanAddPin
<1> HIDE DEF more, closed, nextPin
<1>5. Edits(r, With(r, i, [old EXCEPT !.closed = closed, !.pins = more], nextPin))
  BY <1>1, <1>3, <1>4, PinsReplaced DEF closed
<1> QED
  BY <1>5, AddPinAs DEF LongerList, more, closed, nextPin, pin

(* A pin less; the path is opened if too few are left.                     *)
ShorterList(list, j) ==
    [list EXCEPT !.closed = list.closed /\ Len(list.pins) > ClosingPins,
                 !.pins = RemoveAt(list.pins, j)]

(* remove_pin changes one list.                                            *)
LEMMA RemovePinAs ==
    ASSUME NEW r, Good(r), NEW i \in 1..Len(r.lists), NEW j
    PROVE  RemovePin(r, i, j) = With(r, i, ShorterList(r.lists[i], j), r.nextPin)
<1> DEFINE old == r.lists[i]
           fewer == RemoveAt(old.pins, j)
           closed == old.closed /\ Len(old.pins) > ClosingPins
           r1 == Repinned(r, i, closed, fewer)
<1>1. /\ r.lists \in Seq(PinLists) /\ DOMAIN r.lists = 1..Len(r.lists)
      /\ r = [lists |-> r.lists, active |-> r.active,
              nextList |-> r.nextList, nextPin |-> r.nextPin]
      /\ old \in PinLists
  BY GoodParts, LenProperties
<1>2. RemovePin(r, i, j) = r1
  <2> DEFINE open == [r EXCEPT !.lists[i].closed = closed]
  <2>1. open.lists[i].pins = old.pins
    BY <1>1 DEF PinLists
  <2>2. RemovePin(r, i, j) =
            [open EXCEPT !.lists[i].pins = RemoveAt(open.lists[i].pins, j)]
    BY DEF RemovePin
  <2> HIDE DEF open
  <2>3. [open EXCEPT !.lists[i].pins = RemoveAt(open.lists[i].pins, j)] = r1
    BY <2>1 DEF open, Repinned
  <2> QED
    BY <2>2, <2>3
<1> HIDE DEF fewer, closed
<1>3. r1 = With(r, i, [old EXCEPT !.closed = closed, !.pins = fewer], r.nextPin)
  BY TwoFields
<1> QED
  BY <1>2, <1>3 DEF ShorterList, fewer, closed

(* A list keeps its limits when it loses a pin.                            *)
LEMMA PinRemoved ==
    ASSUME NEW r, Good(r), NEW i, NEW j, HasPin(r, i, j)
    PROVE  Edits(r, RemovePin(r, i, j))
<1> DEFINE old == r.lists[i]
           fewer == RemoveAt(old.pins, j)
           closed == old.closed /\ Len(old.pins) > ClosingPins
<1>1. i \in 1..Len(r.lists) /\ j \in 1..Len(old.pins)
  BY DEF HasPin, HasList
<1>2. /\ old.pins \in Seq(Pins) /\ Len(old.pins) \in Nat /\ Len(old.pins) <= MaxPins
      /\ r.nextPin \in Nat \ {0}
  BY <1>1, GoodParts
<1>3. fewer \in Seq(Pins) /\ Len(fewer) = Len(old.pins) - 1
  BY <1>1, <1>2, RemovedAt
<1>4. /\ Len(fewer) <= MaxPins /\ closed \in BOOLEAN
      /\ closed => Len(fewer) >= ClosingPins
  <2>1. Len(old.pins) > ClosingPins => Len(fewer) >= ClosingPins
    BY <1>2, <1>3, ClosingAssumption
  <2>2. Len(fewer) <= MaxPins
    BY <1>2, <1>3, LimitsAssumption
  <2> QED
    BY <2>1, <2>2
<1> HIDE DEF fewer, closed
<1>5. Edits(r, With(r, i, [old EXCEPT !.closed = closed, !.pins = fewer], r.nextPin))
  BY <1>1, <1>2, <1>3, <1>4, PinsReplaced
<1> QED
  BY <1>1, <1>5, RemovePinAs DEF ShorterList, fewer, closed

(* Other pins, as many as before.                                          *)
SetPins(r, i, pinSeq) == [r EXCEPT !.lists[i].pins = pinSeq]

(* A list keeps its limits if the number of its pins stays.                *)
LEMMA PinsChanged ==
    ASSUME NEW r, Good(r), NEW i \in 1..Len(r.lists), NEW pinSeq \in Seq(Pins),
           Len(pinSeq) = Len(r.lists[i].pins)
    PROVE  Edits(r, SetPins(r, i, pinSeq))
<1> DEFINE old == r.lists[i]
           list == [old EXCEPT !.pins = pinSeq]
<1>1. /\ old \in PinLists /\ Len(old.pins) <= MaxPins /\ r.nextPin \in Nat \ {0}
      /\ old.closed => Len(old.pins) >= ClosingPins
  BY GoodParts
<1>2. /\ list \in PinLists /\ list.id = old.id /\ list.pins = pinSeq
      /\ list.closed = old.closed /\ list.visible = old.visible
  BY <1>1 DEF PinLists
<1> HIDE DEF list
<1>3. Len(list.pins) <= MaxPins /\ (list.closed => Len(list.pins) >= ClosingPins)
  BY <1>1, <1>2
<1>4. Edits(r, With(r, i, list, r.nextPin))
  BY <1>1, <1>2, <1>3, ContentReplaced
<1>5. Edits(r, [r EXCEPT !.lists = [r.lists EXCEPT ![i] = list]])
  BY <1>4, ListsInPlace
<1> QED
  BY <1>5 DEF list, SetPins

(* Another name for a pin.                                                 *)
LEMMA PinRenamed ==
    ASSUME NEW r, Good(r), NEW i, NEW j, HasPin(r, i, j), NEW name \in Names
    PROVE  Edits(r, RenamePin(r, i, j, name))
<1> DEFINE old == r.lists[i].pins
           pin == [old[j] EXCEPT !.name = name]
           new == [old EXCEPT ![j] = pin]
<1>1. i \in 1..Len(r.lists) /\ j \in 1..Len(old)
  BY DEF HasPin, HasList
<1>2. old \in Seq(Pins) /\ old[j] \in Pins
  BY <1>1, GoodParts, ElementOfSeq
<1>3. pin \in Pins
  BY <1>2 DEF Pins
<1>4. RenamePin(r, i, j, name) = SetPins(r, i, new)
  BY DEF RenamePin, SetPins
<1> HIDE DEF pin
<1>5. new \in Seq(Pins) /\ Len(new) = Len(old)
  BY <1>1, <1>2, <1>3, ExceptSeq
<1> QED
  BY <1>1, <1>4, <1>5, PinsChanged

(* Two pins change places.                                                 *)
LEMMA PinMoved ==
    ASSUME NEW r, Good(r), NEW i, NEW j, NEW t, CanMovePin(r, i, j, t)
    PROVE  Edits(r, MovePin(r, i, j, t))
<1> DEFINE old == r.lists[i].pins
           first == [old EXCEPT ![j] = old[t]]
           new == [first EXCEPT ![t] = old[j]]
<1>1. i \in 1..Len(r.lists) /\ j \in 1..Len(old) /\ t \in 1..Len(old)
  BY DEF CanMovePin, HasPin, HasList
<1>2. old \in Seq(Pins) /\ old[j] \in Pins /\ old[t] \in Pins
  BY <1>1, GoodParts, ElementOfSeq
<1>3. MovePin(r, i, j, t) = SetPins(r, i, new)
  BY DEF MovePin, SetPins
<1>4. first \in Seq(Pins) /\ Len(first) = Len(old)
  BY <1>1, <1>2, ExceptSeq
<1> HIDE DEF first
<1>5. new \in Seq(Pins) /\ Len(new) = Len(old)
  BY <1>1, <1>2, <1>4, ExceptSeq
<1> QED
  BY <1>1, <1>3, <1>5, PinsChanged

(* Elevations change no pin but in this field.                             *)
LEMMA ElevationsSet ==
    ASSUME NEW r, Good(r), NEW i \in 1..Len(r.lists), NEW heights \in Seq(Places)
    PROVE  Edits(r, SetElevations(r, i, heights))
<1> DEFINE old == r.lists[i].pins
           new == [k \in 1..Len(old) |-> IF k \in 1..Len(heights)
                                         THEN [old[k] EXCEPT !.elevation = heights[k]]
                                         ELSE old[k]]
<1>1. old \in Seq(Pins) /\ Len(old) \in Nat
  BY GoodParts
<1>2. ASSUME NEW k \in 1..Len(old) PROVE new[k] \in Pins
  <2>1. old[k] \in Pins
    BY <1>1, <1>2, ElementOfSeq
  <2>2. CASE k \in 1..Len(heights)
    <3>1. heights[k] \in Places
      BY <2>2, ElementOfSeq
    <3>2. [old[k] EXCEPT !.elevation = heights[k]] \in Pins
      BY <2>1, <3>1 DEF Pins
    <3> QED
      BY <1>2, <2>2, <3>2
  <2>3. CASE k \notin 1..Len(heights)
    BY <1>2, <2>1, <2>3
  <2> QED
    BY <2>2, <2>3
<1>3. SetElevations(r, i, heights) = SetPins(r, i, new)
  BY DEF SetElevations, SetPins
<1>4. DOMAIN new = 1..Len(old) /\ new \in [1..Len(old) -> Pins]
  BY <1>2
<1> HIDE DEF new
<1>5. new \in Seq(Pins)
  BY <1>1, <1>4, SeqDef
<1>6. Len(new) = Len(old)
  BY <1>1, <1>4, <1>5, LenProperties
<1> QED
  BY <1>3, <1>5, <1>6, PinsChanged

-----------------------------------------------------------------------------
(* A list more, the active one.                                            *)
Extends(r, r2) ==
    /\ Good(r2)
    /\ Len(r2.lists) = Len(r.lists) + 1 /\ r2.active = Len(r.lists) + 1
    /\ r2.lists[r2.active].visible

(* add_list appends an empty one.                                          *)
LEMMA AddListAs ==
    ASSUME NEW r, Good(r), NEW name, NEW style
    PROVE  AddList(r, name, style) = Grown(r, NewList(r.nextList, name, style), r.nextPin)
<1> DEFINE lists == Append(r.lists, NewList(r.nextList, name, style))
<1>1. r = [lists |-> r.lists, active |-> r.active,
           nextList |-> r.nextList, nextPin |-> r.nextPin]
  BY GoodParts
<1>2. AddList(r, name, style) =
          [r EXCEPT !.lists = lists, !.active = Len(r.lists) + 1,
                    !.nextList = r.nextList + 1]
  BY <1>1 DEF AddList
<1> HIDE DEF lists
<1>3. AddList(r, name, style) =
          [lists |-> lists, active |-> Len(r.lists) + 1,
           nextList |-> r.nextList + 1, nextPin |-> r.nextPin]
  BY <1>1, <1>2
<1> QED
  BY <1>3 DEF Grown, lists

(* An empty list is within the limits.                                     *)
LEMMA ListAdded ==
    ASSUME NEW r, Good(r), CanAddList(r), NEW name \in Names, NEW style \in Styles
    PROVE  Extends(r, AddList(r, name, style))
<1> DEFINE list == NewList(r.nextList, name, style)
<1>1. r.nextList \in Nat \ {0} /\ r.nextPin \in Nat \ {0}
  BY GoodParts
<1>2. list \in PinLists
  BY <1>1, EmptySeq DEF NewList, PinLists
<1>3. list.id = r.nextList /\ list.pins = <<>> /\ ~list.closed /\ list.visible
  BY DEF NewList
<1>4. Len(list.pins) <= MaxPins
  BY <1>3, LimitsAssumption
<1>5. AddList(r, name, style) = Grown(r, list, r.nextPin)
  BY AddListAs
<1> HIDE DEF list
<1>6. /\ Good(Grown(r, list, r.nextPin))
      /\ Len(Grown(r, list, r.nextPin).lists) = Len(r.lists) + 1
      /\ Grown(r, list, r.nextPin).active = Len(r.lists) + 1
      /\ Grown(r, list, r.nextPin).lists[Len(r.lists) + 1] = list
  BY <1>1, <1>2, <1>3, <1>4, ListAppended
<1> QED
  BY <1>3, <1>5, <1>6 DEF Extends

(* The pins of a track, and the list an import makes of them.              *)
TrackPins(r, name, track) ==
    [k \in 1..Len(track) |->
        [id |-> r.nextPin + k - 1, place |-> track[k].place, name |-> name,
         elevation |-> IF track[k].measured THEN track[k].place ELSE Unmeasured]]

TrackList(r, name, style, track) ==
    [NewList(r.nextList, name, style) EXCEPT !.pins = TrackPins(r, name, track)]

(* The loop of import_file appends that list.                              *)
LEMMA ImportTrackAs ==
    ASSUME NEW r, Good(r), NEW name, NEW style, NEW track
    PROVE  ImportTrack(r, name, style, track)
               = Grown(r, TrackList(r, name, style, track), r.nextPin + Len(track))
<1> DEFINE added == AddList(r, name, style)
           some == Append(r.lists, NewList(r.nextList, name, style))
           lists == Append(r.lists, TrackList(r, name, style, track))
           nextPin == r.nextPin + Len(track)
           half == [added EXCEPT !.lists = lists]
<1>1. added = [lists |-> some, active |-> Len(r.lists) + 1,
               nextList |-> r.nextList + 1, nextPin |-> r.nextPin]
  BY AddListAs DEF Grown
<1>2. ImportTrack(r, name, style, track)
          = [added EXCEPT !.lists = lists, !.nextPin = nextPin]
  <2>1. added.nextPin = r.nextPin
    BY <1>1
  <2> QED
    BY <2>1 DEF ImportTrack, TrackList, TrackPins
<1> HIDE DEF added, some, lists, nextPin
<1>3. half = [lists |-> lists, active |-> Len(r.lists) + 1,
              nextList |-> r.nextList + 1, nextPin |-> r.nextPin]
  BY <1>1
<1>4. [added EXCEPT !.lists = lists, !.nextPin = nextPin]
          = [half EXCEPT !.nextPin = nextPin]
  OBVIOUS
<1> HIDE DEF half
<1>5. ImportTrack(r, name, style, track)
          = [lists |-> lists, active |-> Len(r.lists) + 1,
             nextList |-> r.nextList + 1, nextPin |-> nextPin]
  BY <1>2, <1>3, <1>4
<1> QED
  BY <1>5 DEF Grown, lists, nextPin

(* What an import makes of a track that is not longer than a list.         *)
LEMMA TrackImported ==
    ASSUME NEW r, Good(r), CanAddList(r), NEW name \in Names, NEW style \in Styles,
           NEW track \in Seq(Points), Len(track) <= MaxPins
    PROVE  Extends(r, ImportTrack(r, name, style, track))
<1> DEFINE pinSeq == TrackPins(r, name, track)
           empty == NewList(r.nextList, name, style)
           list == TrackList(r, name, style, track)
           nextPin == r.nextPin + Len(track)
<1>1. r.nextList \in Nat \ {0} /\ r.nextPin \in Nat \ {0}
  BY GoodParts
<1>2. Len(track) \in Nat
  BY LenProperties
<1>3. pinSeq \in [1..Len(track) -> Pins]
  <2>1. ASSUME NEW k \in 1..Len(track) PROVE pinSeq[k] \in Pins
    <3>1. track[k] \in Points
      BY <2>1, ElementOfSeq
    <3>2. track[k].place \in Places
      BY <3>1 DEF Points
    <3>3. r.nextPin + k - 1 \in Nat \ {0}
      BY <1>1, <1>2
    <3> QED
      BY <2>1, <3>2, <3>3 DEF Pins, TrackPins
  <2>2. DOMAIN pinSeq = 1..Len(track) /\ pinSeq = [k \in 1..Len(track) |-> pinSeq[k]]
    BY DEF TrackPins
  <2> HIDE DEF pinSeq
  <2> QED
    BY <2>1, <2>2
<1> HIDE DEF pinSeq
<1>4. pinSeq \in Seq(Pins)
  BY <1>2, <1>3, SeqDef
<1>5. Len(pinSeq) = Len(track)
  BY <1>2, <1>3, <1>4, LenProperties
<1>6. /\ empty \in PinLists /\ empty.id = r.nextList
      /\ ~empty.closed /\ empty.visible
  BY <1>1, EmptySeq DEF NewList, PinLists
<1>7. list = [empty EXCEPT !.pins = pinSeq]
  BY DEF TrackList, pinSeq
<1> HIDE DEF empty, list
<1>8. /\ list \in PinLists /\ list.id = r.nextList /\ Len(list.pins) <= MaxPins
      /\ ~list.closed /\ list.visible
  <2>1. list \in PinLists /\ list.pins = pinSeq
    BY <1>4, <1>6, <1>7 DEF PinLists
  <2>2. list.id = empty.id /\ list.closed = empty.closed /\ list.visible = empty.visible
    BY <1>6, <1>7 DEF PinLists
  <2> QED
    BY <1>5, <1>6, <2>1, <2>2
<1>9. nextPin \in Nat \ {0}
  BY <1>1, <1>2
<1>10. ImportTrack(r, name, style, track) = Grown(r, list, nextPin)
  BY ImportTrackAs DEF list
<1> HIDE DEF nextPin
<1>11. /\ Good(Grown(r, list, nextPin))
       /\ Len(Grown(r, list, nextPin).lists) = Len(r.lists) + 1
       /\ Grown(r, list, nextPin).active = Len(r.lists) + 1
       /\ Grown(r, list, nextPin).lists[Len(r.lists) + 1] = list
  BY <1>8, <1>9, ListAppended
<1> QED
  BY <1>8, <1>10, <1>11 DEF Extends

(* The sample of a track is no longer than a list may be, and made of      *)
(* points of the track.                                                    *)
LEMMA SampleFits ==
    ASSUME NEW track \in Seq(Points)
    PROVE  BoundedPoints(track) \in Seq(Points) /\ Len(BoundedPoints(track)) <= MaxPins
<1>1. Len(track) \in Nat /\ MaxPins \in Nat \ {0, 1}
  BY LenProperties, LimitsAssumption
<1>2. CASE Len(track) <= MaxPins
  BY <1>2 DEF BoundedPoints
<1>3. CASE ~(Len(track) <= MaxPins)
  <2> DEFINE n == Len(track)
             points == [k \in 1..MaxPins |-> track[Sampled(k - 1, n) + 1]]
  <2>1. ASSUME NEW k \in 1..MaxPins PROVE Sampled(k - 1, n) + 1 \in 1..n
    <3> DEFINE a == (k - 1) * (n - 1)
               b == MaxPins - 1
               q == a \div b
    <3>1. k - 1 \in Nat /\ n - 1 \in Nat /\ b \in Nat \ {0} /\ k - 1 <= b
      BY <1>1, <1>3
    <3>2. a \in Nat /\ a <= b * (n - 1)
      <4> DEFINE m == n - 1
                 l == k - 1
      <4>1. \A x, y, z \in Nat : x <= y => x * z \in Nat /\ x * z <= y * z
        OBVIOUS
      <4> QED
        BY <3>1, <4>1
    <3> HIDE DEF a
    <3>3. q \in Nat /\ b * q <= a
      <4>1. \A x \in Nat, y \in Nat \ {0} : x \div y \in Nat /\ y * (x \div y) <= x
        OBVIOUS
      <4> HIDE DEF b
      <4> QED
        BY <3>1, <3>2, <4>1
    <3>4. q <= n - 1
      <4>1. b * q <= b * (n - 1)
        BY <1>1, <3>1, <3>2, <3>3
      <4>2. \A x, y \in Nat, z \in Nat \ {0} : z * x <= z * y => x <= y
        OBVIOUS
      <4> HIDE DEF b, q
      <4> QED
        BY <3>1, <3>3, <4>1, <4>2
    <3> QED
      BY <1>1, <3>1, <3>3, <3>4 DEF Sampled, a
  <2>2. \A k \in 1..MaxPins : track[Sampled(k - 1, n) + 1] \in Points
    BY <2>1, ElementOfSeq
  <2>3. points \in [1..MaxPins -> Points]
    BY <2>2
  <2>4. BoundedPoints(track) = points
    BY <1>3 DEF BoundedPoints
  <2> HIDE DEF points
  <2>5. points \in Seq(Points)
    BY <1>1, <2>3, SeqDef
  <2>6. Len(points) = MaxPins
    BY <1>1, <2>3, <2>5, LenProperties
  <2> QED
    BY <1>1, <2>4, <2>5, <2>6
<1> QED
  BY <1>2, <1>3

(* A list less; the active one stays, or the first takes its place.        *)
LEMMA ListRemoved ==
    ASSUME NEW r, Good(r), NEW i, CanRemoveList(r, i)
    PROVE  /\ Good(RemoveList(r, i))
           /\ Len(RemoveList(r, i).lists) = Len(r.lists) - 1
<1> DEFINE lists == RemoveAt(r.lists, i)
           active == CASE r.active = i -> 1
                       [] r.active > i -> r.active - 1
                       [] OTHER -> r.active
           r2 == RemoveList(r, i)
<1>1. /\ r = [lists |-> r.lists, active |-> r.active,
              nextList |-> r.nextList, nextPin |-> r.nextPin]
      /\ r.nextList \in Nat \ {0} /\ r.nextPin \in Nat \ {0}
      /\ r.lists \in Seq(PinLists) /\ Len(r.lists) \in Nat
      /\ r.active \in 1..Len(r.lists) /\ Len(r.lists) <= MaxLists
  BY GoodParts
<1>2. i \in 1..Len(r.lists) /\ Len(r.lists) > 1
  BY DEF CanRemoveList, HasList
<1>3. /\ lists \in Seq(PinLists) /\ Len(lists) = Len(r.lists) - 1
      /\ \A k \in 1..Len(r.lists) - 1 :
             lists[k] = IF k < i THEN r.lists[k] ELSE r.lists[k + 1]
  BY <1>1, <1>2, RemovedAt
<1>4. active \in 1..Len(r.lists) - 1 /\ active \in Nat
  <2>1. CASE r.active = i
    BY <1>1, <1>2, <2>1
  <2>2. CASE r.active > i
    BY <1>1, <1>2, <2>2
  <2>3. CASE r.active < i
    BY <1>1, <1>2, <2>3
  <2> QED
    BY <1>1, <1>2, <2>1, <2>2, <2>3
<1>5. r2 = [r EXCEPT !.lists = lists, !.active = active]
  BY <1>1 DEF RemoveList
<1> HIDE DEF lists, active, r2
<1>6. r2 = [lists |-> lists, active |-> active, nextList |-> r.nextList,
            nextPin |-> r.nextPin]
  BY <1>1, <1>5
<1>7. r2 \in Repositories
  BY <1>1, <1>3, <1>4, <1>6 DEF Repositories
<1>8. \A k \in 1..Len(lists) : \E m \in 1..Len(r.lists) :
          /\ m = IF k < i THEN k ELSE k + 1
          /\ lists[k] = r.lists[m]
  BY <1>1, <1>2, <1>3
<1>9. Bounded(r2)
  <2>1. Decodes(r2)
    <3>1. Len(lists) \in 1..MaxLists /\ active \in 1..Len(lists)
      BY <1>1, <1>2, <1>3, <1>4, LimitsAssumption
    <3>2. \A k \in 1..Len(lists) : lists[k].id # 0 /\ Len(lists[k].pins) <= MaxPins
      BY <1>8, GoodParts
    <3> QED
      BY <1>6, <3>1, <3>2 DEF Decodes
  <2>2. \A k \in 1..Len(lists) :
            /\ lists[k].closed => Len(lists[k].pins) >= ClosingPins
            /\ lists[k].id < r.nextList
    BY <1>8, GoodParts
  <2>3. ASSUME NEW j \in 1..Len(lists), NEW k \in 1..Len(lists),
               lists[j].id = lists[k].id
        PROVE  j = k
    <3> DEFINE a == IF j < i THEN j ELSE j + 1
               b == IF k < i THEN k ELSE k + 1
    <3>1. /\ a \in 1..Len(r.lists) /\ b \in 1..Len(r.lists)
          /\ lists[j] = r.lists[a] /\ lists[k] = r.lists[b]
      BY <1>8
    <3>2. a = b
      BY <2>3, <3>1, GoodParts
    <3>3. j \in Int /\ k \in Int /\ i \in Int
      BY <1>1, <1>2, <1>3
    <3> QED
      BY <3>2, <3>3
  <2> QED
    BY <1>6, <2>1, <2>2, <2>3 DEF Bounded
<1> QED
  BY <1>1, <1>3, <1>6, <1>7, <1>9 DEF Good, r2

(* The collections of a first start.                                       *)
LEMMA DefaultIsGood ==
    ASSUME NEW name \in Names, NEW style \in Styles
    PROVE  /\ Good(DefaultRepository(name, style))
           /\ HasList(DefaultRepository(name, style), 1)
<1> DEFINE list == NewList(1, name, style)
           r == DefaultRepository(name, style)
<1>1. list \in PinLists /\ list.id = 1 /\ list.pins = <<>> /\ ~list.closed
  BY EmptySeq DEF NewList, PinLists
<1> HIDE DEF list
<1>2. r = [lists |-> <<list>>, active |-> 1, nextList |-> 2, nextPin |-> 1]
  BY DEF DefaultRepository, list
<1> HIDE DEF r
<1>3. r.lists \in Seq(PinLists) /\ Len(r.lists) = 1 /\ r.lists[1] = list
  BY <1>1, <1>2
<1>4. r \in Repositories
  BY <1>2, <1>3 DEF Repositories
<1>5. Bounded(r)
  <2>1. \A k \in 1..Len(r.lists) : k = 1
    BY <1>3
  <2>2. Len(list.pins) <= MaxPins
    BY <1>1, LimitsAssumption
  <2> QED
    BY <1>1, <1>2, <1>3, <2>1, <2>2, LimitsAssumption DEF Bounded, Decodes
<1> QED
  BY <1>2, <1>3, <1>4, <1>5 DEF Good, HasList, r

(* What was saved is loaded as it is.                                      *)
LEMMA GoodLoads ==
    ASSUME NEW r, Good(r)
    PROVE  Decodes(r) /\ Decoded(r) = r
<1> DEFINE new == [i \in 1..Len(r.lists) |->
                     [r.lists[i] EXCEPT !.closed =
                         @ /\ Len(r.lists[i].pins) >= ClosingPins]]
<1>1. ASSUME NEW i \in 1..Len(r.lists)
      PROVE  new[i] = r.lists[i]
  <2> DEFINE old == r.lists[i]
             closed == old.closed /\ Len(old.pins) >= ClosingPins
  <2>1. old \in PinLists /\ (old.closed => Len(old.pins) >= ClosingPins)
    BY <1>1, GoodParts
  <2>2. old.closed \in BOOLEAN
    BY <2>1 DEF PinLists
  <2>3. closed = old.closed
    BY <2>1, <2>2
  <2>4. [old EXCEPT !.closed = closed] = old
    BY <2>1, <2>3 DEF PinLists
  <2> QED
    BY <1>1, <2>4
<1>2. r.lists \in Seq(PinLists) /\ DOMAIN r.lists = 1..Len(r.lists)
      /\ r.lists \in [1..Len(r.lists) -> PinLists]
  BY GoodParts, LenProperties
<1>3. DOMAIN new = 1..Len(r.lists)
  OBVIOUS
<1>4. Decoded(r) = [r EXCEPT !.lists = new]
  BY DEF Decoded
<1>5. new = [i \in 1..Len(r.lists) |-> r.lists[i]]
  BY <1>1
<1> HIDE DEF new
<1>6. new = r.lists
  BY <1>2, <1>5
<1>7. [r EXCEPT !.lists = r.lists] = r
  BY GoodParts
<1> QED
  BY <1>4, <1>6, <1>7 DEF Good, Bounded

-----------------------------------------------------------------------------
(* The parts of the inductive invariant: the collections, the screen, and  *)
(* the requests to the worker.                                             *)
CollectionsOK ==
    /\ Good(pins) /\ Good(saved)
    /\ unsaved \in BOOLEAN /\ edits \in 0..MaxEdits
    /\ SelectedListExists
    /\ going = "list" => selList = pins.active

ScreenOK ==
    /\ pinning \in BOOLEAN /\ {mode, going} \subseteq Modes /\ back \in {"map", "menu"}
    /\ selPin \in Nat \ {0} /\ selFile \in Nat \ {0}
    /\ armed \in [list : Nat, pin : Nat] \cup {Nothing}
    /\ step \in {"begin", "gpx", "elevation", "input"}

RequestsOK ==
    /\ {inbox, listing} \subseteq Listings \cup {<<>>}
    /\ worker \in {"idle", "elevation", "gpx"}
    /\ gpx \in [state : Slots, kind : {"refresh", "import", "export"},
                file : Nat, repository : Repositories \cup {Nothing},
                inbox : Listings \cup {<<>>}, failed : BOOLEAN]
    /\ gpx.repository # Nothing => Good(gpx.repository)
    /\ gpx.kind = "import" /\ Pending(gpx) => Good(gpx.repository)
    /\ elevation \in [state : Slots, list : Nat, places : Seq(Places),
                      failed : BOOLEAN]
    /\ worker = "gpx" => gpx.state = "running"

PinInv == CollectionsOK /\ ScreenOK /\ RequestsOK

(* The last change is on the card, or the user was told that it is not.    *)
Told == saved = pins \/ unsaved

-----------------------------------------------------------------------------
(* A selection that is moved stays among the rows.                         *)
LEMMA MovesAmongRows ==
    ASSUME NEW i \in Nat \ {0}, NEW n \in Nat \ {0}
    PROVE  /\ \A k \in Around(i, n) : k \in Nat \ {0}
           /\ i <= n => \A k \in Around(i, n) : k \in 1..n
           /\ Clamped(i, n) \in 1..n
<1>1. \E m \in {i, n} : \A k \in {i, n} : m <= k
  OBVIOUS
<1>2. Clamped(i, n) \in {i, n} /\ Clamped(i, n) <= n
  BY <1>1 DEF Clamped, Min
<1> QED
  BY <1>2 DEF Around

(* What a save leaves behind.                                              *)
LEMMA PersistResult ==
    ASSUME NEW r, Persist(r)
    PROVE  \/ saved' = r /\ unsaved' = FALSE
           \/ saved' = saved /\ unsaved' = TRUE
<1>1. PICK s \in Saves(saved, r) : saved' = s.record /\ unsaved' = ~s.done
  BY DEF Persist
<1>2. \/ s.record = r /\ s.done = TRUE
      \/ s.record = saved /\ s.done = FALSE
  BY DEF Saves
<1> QED
  BY <1>1, <1>2

(* What an edit leaves behind.                                             *)
LEMMA EditResult ==
    ASSUME CollectionsOK, NEW r, Good(r), Edit(r)
    PROVE  /\ pins' = r /\ Good(pins') /\ Good(saved')
           /\ unsaved' \in BOOLEAN /\ edits' \in 0..MaxEdits /\ Told' /\ MayTouch
<1>1. pins' = r /\ edits < MaxEdits /\ edits' = edits + 1 /\ Persist(r) /\ MayTouch
  BY DEF Edit
<1>2. \/ saved' = r /\ unsaved' = FALSE
      \/ saved' = saved /\ unsaved' = TRUE
  BY <1>1, PersistResult
<1>3. edits' \in 0..MaxEdits
  BY <1>1, MaxEditsAssumption DEF CollectionsOK
<1> QED
  BY <1>1, <1>2, <1>3 DEF CollectionsOK, Told

(* What stays when nothing is edited.                                      *)
LEMMA KeepResult ==
    ASSUME CollectionsOK, Keep
    PROVE  /\ pins' = pins /\ saved' = saved
           /\ Good(pins') /\ Good(saved') /\ unsaved' \in BOOLEAN
           /\ edits' \in 0..MaxEdits /\ (Told => Told')
BY DEF CollectionsOK, Keep, Told

(* Placing pins shows the active list.                                     *)
LEMMA BeginPinningResult ==
    ASSUME CollectionsOK, BeginPinning
    PROVE  /\ Good(pins') /\ Good(saved') /\ unsaved' \in BOOLEAN
           /\ edits' \in 0..MaxEdits /\ (Told => Told')
           /\ Len(pins'.lists) = Len(pins.lists) /\ pins'.active = pins.active
           /\ pins'.lists[pins'.active].visible /\ pinning' = TRUE
<1>1. Good(pins) /\ pins.active \in 1..Len(pins.lists)
  BY GoodParts DEF CollectionsOK
<1>2. CASE pins.lists[pins.active].visible
  BY <1>2, KeepResult DEF BeginPinning
<1>3. CASE ~pins.lists[pins.active].visible
  <2> DEFINE r == SetVisible(pins, pins.active, TRUE)
  <2>1. Edit(r) /\ pinning' = TRUE
    BY <1>3 DEF BeginPinning
  <2>2. /\ Good(r) /\ Len(r.lists) = Len(pins.lists) /\ r.active = pins.active
        /\ r.lists[pins.active].visible
    <3>1. /\ Good(SetVisible(pins, pins.active, TRUE))
          /\ Len(SetVisible(pins, pins.active, TRUE).lists) = Len(pins.lists)
          /\ SetVisible(pins, pins.active, TRUE).active = pins.active
          /\ SetVisible(pins, pins.active, TRUE).lists[pins.active].visible = TRUE
      BY ONLY <1>1, TRUE \in BOOLEAN, VisibleChanged, Zenon
    <3> QED
      BY <3>1
  <2> HIDE DEF r
  <2> QED
    BY <2>1, <2>2, EditResult
<1> QED
  BY <1>2, <1>3

(* An edit that leaves the number of lists and the active one.             *)
LEMMA EditsKeep ==
    ASSUME CollectionsOK, NEW r, Edits(pins, r), Edit(r), UNCHANGED <<selList, going>>
    PROVE  CollectionsOK' /\ Told' /\ Len(pins'.lists) = Len(pins.lists)
<1>1. Good(r) /\ Len(r.lists) = Len(pins.lists) /\ r.active = pins.active
  BY DEF Edits
<1> QED
  BY <1>1, EditResult DEF CollectionsOK, SelectedListExists, HasList

-----------------------------------------------------------------------------
(* The inputs that change no collection.                                   *)
LEMMA LookingKeeps ==
    ASSUME PinInv,
           \/ Idle
           \/ /\ going = mode
              /\ \/ MapToMenu \/ MenuToMap \/ OpenLists \/ EndPinning \/ LeaveLists
                 \/ SelectList \/ ArmListDeletion \/ LeaveList \/ SelectPin
                 \/ ArmPinDeletion \/ OpenGpx \/ LeaveGpx \/ SelectFile
    PROVE  CollectionsOK' /\ (Told => Told')
<1>1. Keep
  BY DEF Idle, MapToMenu, MenuToMap, OpenLists, EndPinning, LeaveLists, SelectList,
         ArmListDeletion, LeaveList, SelectPin, ArmPinDeletion, OpenGpx, LeaveGpx,
         SelectFile
<1>2. CollectionsOK /\ Len(pins.lists) \in Nat \ {0}
      /\ pins.active \in 1..Len(pins.lists) /\ selList \in 1..Len(pins.lists)
  BY GoodParts DEF PinInv, CollectionsOK, SelectedListExists, HasList
<1>3. pins' = pins /\ Good(pins') /\ Good(saved') /\ unsaved' \in BOOLEAN
      /\ edits' \in 0..MaxEdits /\ (Told => Told')
  BY <1>1, <1>2, KeepResult
<1>4. selList' \in 1..Len(pins.lists) /\ (going' = "list" => selList' = pins.active)
  <2>1. CASE OpenLists
    BY <1>2, <2>1 DEF OpenLists, Go
  <2>2. CASE SelectList /\ going = mode
    <3>1. selList' \in 1..Len(pins.lists)
      <4>1. /\ selList \in Nat \ {0} /\ selList <= Len(pins.lists)
            /\ selList' \in Around(selList, Len(pins.lists))
        BY <1>2, <2>2 DEF SelectList
      <4> QED
        BY <1>2, <4>1, MovesAmongRows
    <3>2. going' # "list"
      BY <2>2 DEF SelectList, Stay
    <3> QED
      BY <3>1, <3>2
  <2>3. CASE LeaveLists
    BY <1>2, <2>3 DEF LeaveLists, Go, PinInv, ScreenOK
  <2>4. CASE Idle \/ EndPinning \/ ArmListDeletion \/ SelectPin \/ ArmPinDeletion
             \/ SelectFile
    BY <1>2, <2>4 DEF Idle, EndPinning, ArmListDeletion, SelectPin, ArmPinDeletion,
                      SelectFile, Stay, CollectionsOK
  <2>5. CASE MapToMenu \/ MenuToMap \/ LeaveList \/ OpenGpx \/ LeaveGpx
    BY <1>2, <2>5 DEF MapToMenu, MenuToMap, LeaveList, OpenGpx, LeaveGpx, Go
  <2> QED
    BY <2>1, <2>2, <2>3, <2>4, <2>5
<1> QED
  BY <1>3, <1>4 DEF CollectionsOK, SelectedListExists, HasList

(* The inputs that edit one list.                                          *)
LEMMA EditingKeeps ==
    ASSUME PinInv, CapturePin \/ ChangeList \/ NamePin \/ DeletePin \/ ToggleClosed
                   \/ ShiftPin
    PROVE  CollectionsOK' /\ Told'
<1>1. CollectionsOK /\ Good(pins) /\ selList \in 1..Len(pins.lists)
      /\ pins.active \in 1..Len(pins.lists)
  BY GoodParts DEF PinInv, CollectionsOK, SelectedListExists, HasList
<1>2. UNCHANGED <<selList, going>>
  BY DEF CapturePin, ChangeList, NamePin, DeletePin, ToggleClosed, ShiftPin, Stay
<1>3. CASE CapturePin
  <2>1. CASE Edit(SetClosed(pins, pins.active, TRUE))
             /\ CanSetClosed(pins, pins.active, TRUE)
    <3>1. Edits(pins, SetClosed(pins, pins.active, TRUE))
      BY <1>1, <2>1, ClosedChanged DEF CanSetClosed
    <3> QED
      BY <1>1, <1>2, <2>1, <3>1, EditsKeep
  <2>2. ASSUME CanAddPin(pins), NEW place \in Places, NEW name \in Names,
               Edit(AddPin(pins, place, name))
        PROVE  CollectionsOK' /\ Told'
    BY <1>1, <1>2, <2>2, PinAdded, EditsKeep
  <2> QED
    BY <1>3, <2>1, <2>2 DEF CapturePin
<1>4. CASE ChangeList
  <2>1. ASSUME NEW style \in Styles, Edit(SetStyle(pins, selList, style))
        PROVE  CollectionsOK' /\ Told'
    <3>1. \E name \in Names : TRUE
      BY <1>1, GoodParts, PinListParts
    <3> QED
      BY <1>1, <1>2, <2>1, <3>1, ListChanged, EditsKeep
  <2>2. CASE Edit(SetVisible(pins, selList, ~pins.lists[selList].visible))
    <3> DEFINE visible == ~pins.lists[selList].visible
               r == SetVisible(pins, selList, visible)
    <3>1. visible \in BOOLEAN
      OBVIOUS
    <3> HIDE DEF visible
    <3>2. Good(r) /\ Len(r.lists) = Len(pins.lists) /\ r.active = pins.active
      BY <1>1, <3>1, VisibleChanged
    <3>3. Edit(r)
      BY <2>2 DEF visible
    <3> HIDE DEF r
    <3> QED
      BY <1>1, <1>2, <3>2, <3>3, EditResult DEF CollectionsOK, SelectedListExists, HasList
  <2>3. ASSUME NEW name \in Names, Edit(RenameList(pins, selList, name))
        PROVE  CollectionsOK' /\ Told'
    <3>1. \E style \in Styles : TRUE
      BY <1>1, GoodParts, PinListParts
    <3> QED
      BY <1>1, <1>2, <2>3, <3>1, ListChanged, EditsKeep
  <2> QED
    BY <1>4, <2>1, <2>2, <2>3 DEF ChangeList
<1>5. CASE NamePin
  BY <1>1, <1>2, <1>5, PinRenamed, EditsKeep DEF NamePin, PinSelected
<1>6. CASE DeletePin
  BY <1>1, <1>2, <1>6, PinRemoved, EditsKeep DEF DeletePin, PinSelected
<1>7. CASE ToggleClosed
  <2> DEFINE closed == ~pins.lists[selList].closed
  <2>1. /\ closed \in BOOLEAN /\ Edit(SetClosed(pins, selList, closed))
        /\ closed => Len(pins.lists[selList].pins) >= ClosingPins
    BY <1>7 DEF ToggleClosed, SelectedPins
  <2> HIDE DEF closed
  <2>2. Edits(pins, SetClosed(pins, selList, closed))
    BY <1>1, <2>1, ClosedChanged
  <2> QED
    BY <1>1, <1>2, <2>1, <2>2, EditsKeep
<1>8. CASE ShiftPin
  <2>1. PICK t : CanMovePin(pins, selList, selPin, t)
                 /\ Edit(MovePin(pins, selList, selPin, t))
    BY <1>8 DEF ShiftPin
  <2> QED
    BY <1>1, <1>2, <2>1, PinMoved, EditsKeep
<1> QED
  BY <1>3, <1>4, <1>5, <1>6, <1>7, <1>8

(* The inputs that change the number of lists or the active one.           *)
LEMMA ListingKeeps ==
    ASSUME PinInv, going = mode,
           CreateList \/ OpenList \/ DeleteList \/ CenterPin \/ StartPinning \/ AskGpx
    PROVE  CollectionsOK' /\ (Told => Told')
<1>1. CollectionsOK /\ Good(pins) /\ selList \in 1..Len(pins.lists)
      /\ pins.active \in 1..Len(pins.lists) /\ Len(pins.lists) \in Nat \ {0}
  BY GoodParts DEF PinInv, CollectionsOK, SelectedListExists, HasList
<1>2. CASE CreateList
  <2>1. PICK name \in Names : Edit(AddList(pins, name, Plain))
    BY <1>2 DEF CreateList
  <2> DEFINE r == AddList(pins, name, Plain)
  <2>2. Good(r) /\ Len(r.lists) = Len(pins.lists) + 1
    BY <1>1, <1>2, ListAdded, StylesAssumption DEF CreateList, Extends
  <2>3. selList' = Len(pins.lists) + 1 /\ going' = "lists"
    BY <1>2 DEF CreateList, Stay
  <2> HIDE DEF r
  <2>4. pins' = r /\ Good(pins') /\ Good(saved') /\ unsaved' \in BOOLEAN
        /\ edits' \in 0..MaxEdits /\ Told'
    BY <1>1, <2>1, <2>2, EditResult DEF r
  <2> QED
    BY <1>1, <2>2, <2>3, <2>4 DEF CollectionsOK, SelectedListExists, HasList
<1>3. CASE OpenList
  <2> DEFINE r == SetActive(pins, selList)
  <2>1. Good(r) /\ r.lists = pins.lists /\ r.active = selList
    BY <1>1, ActiveChanged
  <2>2. Edit(r) /\ selList' = selList
    BY <1>3 DEF OpenList
  <2> HIDE DEF r
  <2>3. pins' = r /\ Good(pins') /\ Good(saved') /\ unsaved' \in BOOLEAN
        /\ edits' \in 0..MaxEdits /\ Told'
    BY <1>1, <2>1, <2>2, EditResult
  <2> QED
    BY <1>1, <2>1, <2>2, <2>3 DEF CollectionsOK, SelectedListExists, HasList
<1>4. CASE DeleteList
  <2> DEFINE r == RemoveList(pins, selList)
  <2>1. Good(r) /\ Len(r.lists) = Len(pins.lists) - 1 /\ Len(pins.lists) > 1
    BY <1>1, <1>4, ListRemoved DEF DeleteList, CanRemoveList
  <2>2. Edit(r) /\ selList' = Clamped(selList, Len(pins.lists) - 1) /\ going' = "lists"
    BY <1>4 DEF DeleteList, Stay
  <2>3. selList' \in 1..Len(pins.lists) - 1
    <3>1. selList \in Nat \ {0} /\ Len(pins.lists) - 1 \in Nat \ {0}
      <4> DEFINE n == Len(pins.lists)
      <4>1. n > 1 /\ n \in Nat /\ selList \in 1..n
        BY <1>1, <2>1
      <4> HIDE DEF n
      <4>2. selList \in Nat \ {0} /\ n - 1 \in Nat \ {0}
        BY <4>1
      <4> QED
        BY <4>2 DEF n
    <3> QED
      BY <2>2, <3>1, MovesAmongRows
  <2> HIDE DEF r
  <2>4. pins' = r /\ Good(pins') /\ Good(saved') /\ unsaved' \in BOOLEAN
        /\ edits' \in 0..MaxEdits /\ Told'
    BY <1>1, <2>1, <2>2, EditResult
  <2> QED
    BY <2>1, <2>2, <2>3, <2>4 DEF CollectionsOK, SelectedListExists, HasList
<1>5. CASE CenterPin
  <2> DEFINE r == SetActive(pins, selList)
  <2>1. Good(r) /\ r.lists = pins.lists /\ r.active = selList
    BY <1>1, ActiveChanged
  <2>2. r = pins
    BY <1>1, <1>5, GoodParts DEF CenterPin, CollectionsOK, SetActive
  <2>3. UNCHANGED selList /\ going' = "map"
    BY <1>5 DEF CenterPin, Go
  <2> HIDE DEF r
  <2>4. CASE pins' = r /\ UNCHANGED <<saved, unsaved, edits>>
    BY <1>1, <2>2, <2>3, <2>4 DEF CollectionsOK, SelectedListExists, HasList, Told
  <2>5. CASE Edit(SetVisible(r, selList, TRUE))
    <3> DEFINE r2 == SetVisible(r, selList, TRUE)
    <3>1. Good(r2) /\ Len(r2.lists) = Len(pins.lists)
      <4>1. selList \in 1..Len(r.lists) /\ TRUE \in BOOLEAN /\ Good(r)
        BY <1>1, <2>1
      <4>2. Good(r2) /\ Len(r2.lists) = Len(r.lists)
        BY <4>1, VisibleChanged
      <4> QED
        BY <2>1, <4>2
    <3> HIDE DEF r2
    <3>2. pins' = r2 /\ Good(pins') /\ Good(saved') /\ unsaved' \in BOOLEAN
          /\ edits' \in 0..MaxEdits /\ Told'
      BY <1>1, <2>5, <3>1, EditResult DEF r2
    <3> QED
      BY <1>1, <2>3, <3>1, <3>2 DEF CollectionsOK, SelectedListExists, HasList
  <2> QED
    BY <1>5, <2>4, <2>5 DEF CenterPin, r
<1>6. CASE StartPinning
  <2>1. UNCHANGED selList /\ going' = "map" /\ BeginPinning
    BY <1>6 DEF StartPinning, Stay
  <2> QED
    BY <1>1, <2>1, BeginPinningResult DEF CollectionsOK, SelectedListExists, HasList
<1>7. CASE AskGpx
  <2>1. UNCHANGED <<pins, saved, unsaved, selList>> /\ going' = "gpx"
    BY <1>7 DEF AskGpx, Stay
  <2>2. edits' \in 0..MaxEdits
    BY <1>1, <1>7, MaxEditsAssumption DEF AskGpx, CollectionsOK
  <2> QED
    BY <1>1, <2>1, <2>2 DEF CollectionsOK, SelectedListExists, HasList, Told
<1> QED
  BY <1>2, <1>3, <1>4, <1>5, <1>6, <1>7

(* No input takes the collections out of their limits.                     *)
LEMMA InputKeeps ==
    ASSUME PinInv, Input
    PROVE  CollectionsOK' /\ (Told => Told')
BY LookingKeeps, EditingKeeps, ListingKeeps DEF Input

(* The polls: an import that comes in selects its list.                    *)
LEMMA PollGpxKeeps ==
    ASSUME PinInv, PollGpx
    PROVE  CollectionsOK'
<1>1. CASE gpx.state # "answered" \/ gpx.repository = Nothing
  <2>1. UNCHANGED <<pins, saved, unsaved, edits, selList, going>>
    BY <1>1 DEF PollGpx
  <2> QED
    BY <2>1 DEF PinInv, CollectionsOK, SelectedListExists, HasList
<1>2. CASE gpx.state = "answered" /\ gpx.repository # Nothing
  <2>1. /\ pins' = gpx.repository /\ selList' = gpx.repository.active
        /\ unsaved' = gpx.failed /\ UNCHANGED <<saved, edits, going>>
    BY <1>2 DEF PollGpx
  <2>2. Good(gpx.repository) /\ gpx.failed \in BOOLEAN
    BY <1>2 DEF PinInv, RequestsOK
  <2>3. gpx.repository.active \in 1..Len(gpx.repository.lists)
    BY <2>2, GoodParts
  <2> QED
    BY <2>1, <2>2, <2>3 DEF PinInv, CollectionsOK, SelectedListExists, HasList
<1> QED
  BY <1>1, <1>2

(* Elevations go to the list they were asked for.                          *)
LEMMA AskedList ==
    ASSUME Good(pins), Asked # {}
    PROVE  Min(Asked) \in Asked
<1>1. \A j, k \in Asked : j = k
  BY GoodParts DEF Asked
<1>2. \A j \in Asked : j \in Nat
  BY GoodParts DEF Asked
<1>3. \E j \in Asked : \A k \in Asked : j <= k
  BY <1>1, <1>2
<1> QED
  BY <1>3 DEF Min

(* Elevations go to a list that still exists.                              *)
LEMMA PollElevationKeeps ==
    ASSUME PinInv, PollElevation
    PROVE  CollectionsOK' /\ (Told => Told')
<1>1. CollectionsOK /\ Good(pins) /\ UNCHANGED <<selList, going>>
  BY DEF PinInv, CollectionsOK, PollElevation, screenVars
<1>2. CASE Keep
  BY <1>1, <1>2, KeepResult DEF CollectionsOK, SelectedListExists, HasList
<1>3. CASE ~Keep
  <2> DEFINE i == Min(Asked)
             r == SetElevations(pins, i, elevation.places)
  <2>1. Asked # {} /\ pins' = r /\ Persist(r) /\ UNCHANGED edits
    BY <1>3 DEF PollElevation
  <2>2. i \in Asked
    BY <1>1, <2>1, AskedList
  <2>3. i \in 1..Len(pins.lists)
    BY <2>2 DEF Asked
  <2>4. elevation.places \in Seq(Places)
    BY DEF PinInv, RequestsOK
  <2> HIDE DEF i
  <2>5. Edits(pins, r)
    BY <1>1, <2>3, <2>4, ElevationsSet
  <2> HIDE DEF r
  <2>6. \/ saved' = r /\ unsaved' = FALSE
        \/ saved' = saved /\ unsaved' = TRUE
    BY <2>1, PersistResult
  <2> QED
    BY <1>1, <2>1, <2>5, <2>6 DEF Edits, CollectionsOK, SelectedListExists, HasList, Told
<1> QED
  BY <1>2, <1>3

(* The start of a frame may show the active list.                          *)
LEMMA BeginFrameKeeps ==
    ASSUME PinInv, BeginFrame
    PROVE  CollectionsOK' /\ (Told => Told')
<1>1. CollectionsOK /\ UNCHANGED <<selList, going>>
  BY DEF PinInv, BeginFrame, Transition
<1>2. CASE Keep
  BY <1>1, <1>2, KeepResult DEF CollectionsOK, SelectedListExists, HasList
<1>3. CASE BeginPinning
  BY <1>1, <1>3, BeginPinningResult DEF CollectionsOK, SelectedListExists, HasList
<1> QED
  BY <1>2, <1>3 DEF BeginFrame

(* The worker saves collections within their limits, and hands them back.  *)
LEMMA ImportResult ==
    ASSUME PinInv, worker = "gpx", Import
    PROVE  \/ saved' = saved /\ Answer(Nothing, listing, TRUE)
           \/ \E r, failed : /\ Good(r) /\ failed \in BOOLEAN
                             /\ r.lists[r.active].visible
                             /\ Answer(r, listing, failed)
                             /\ saved' = r \/ (saved' = saved /\ failed)
<1>1. gpx.kind = "import" /\ Pending(gpx) /\ Good(gpx.repository)
  BY DEF Import, Pending, PinInv, RequestsOK
<1>2. ASSUME gpx.file \in 1..Len(listing), CanAddList(gpx.repository),
             NEW f \in Files, NEW noted \in BOOLEAN,
             NEW s \in Saves(saved, ImportTrack(gpx.repository, listing[gpx.file],
                                                Flagged, BoundedPoints(Parsed(f)))),
             saved' = s.record,
             Answer(ImportTrack(gpx.repository, listing[gpx.file],
                                Flagged, BoundedPoints(Parsed(f))),
                    listing, ~(s.done /\ noted))
      PROVE  \E r, failed : /\ Good(r) /\ failed \in BOOLEAN
                            /\ r.lists[r.active].visible
                            /\ Answer(r, listing, failed)
                            /\ saved' = r \/ (saved' = saved /\ failed)
  <2> DEFINE track == BoundedPoints(Parsed(f))
             name == listing[gpx.file]
             r == ImportTrack(gpx.repository, name, Flagged, track)
             failed == ~(s.done /\ noted)
  <2>1. Parsed(f) \in Seq(Points)
    BY FilesAssumption DEF Parsed
  <2>2. track \in Seq(Points) /\ Len(track) <= MaxPins
    BY <2>1, SampleFits
  <2>3. name \in Names
    <3>1. listing \in Seq(Names)
      BY ListingsAssumption, EmptySeq DEF PinInv, RequestsOK
    <3> QED
      BY <1>2, <3>1, ElementOfSeq
  <2> HIDE DEF track, name
  <2>4. Good(r) /\ r.lists[r.active].visible
    BY <1>1, <1>2, <2>2, <2>3, TrackImported, StylesAssumption DEF Extends
  <2>5. saved' = s.record /\ Answer(r, listing, failed) /\ s \in Saves(saved, r)
    BY <1>2 DEF track, name
  <2> HIDE DEF r
  <2>6. \/ saved' = r
        \/ saved' = saved /\ failed
    BY <2>5 DEF Saves
  <2> HIDE DEF failed
  <2>7. failed \in BOOLEAN
    BY DEF failed
  <2>8. /\ Good(r) /\ failed \in BOOLEAN
        /\ r.lists[r.active].visible
        /\ Answer(r, listing, failed)
        /\ saved' = r \/ (saved' = saved /\ failed)
    BY <2>4, <2>5, <2>6, <2>7
  <2> WITNESS r, failed
  <2> QED
    BY <2>8
<1>3. CASE Answer(Nothing, listing, TRUE) /\ UNCHANGED saved
  BY <1>3
<1> QED
  BY <1>2, <1>3 DEF Import

-----------------------------------------------------------------------------
(* What the program starts from, at first and after a restart.             *)
LEMMA StartKeeps ==
    ASSUME PinInv, Restart
    PROVE  CollectionsOK' /\ Told' /\ pins' = saved
<1>1. Good(saved) /\ Decodes(saved) /\ Decoded(saved) = saved
  BY GoodLoads DEF PinInv, CollectionsOK
<1>2. pins' = saved /\ saved' = saved /\ unsaved' = FALSE /\ edits' = edits
      /\ selList' = 1 /\ going' = "map"
  BY <1>1 DEF Restart, Loads
<1>3. 1 \in 1..Len(saved.lists)
  BY <1>1, GoodParts
<1> QED
  BY <1>1, <1>2, <1>3 DEF PinInv, CollectionsOK, SelectedListExists, HasList, Told

(* Every step keeps the collections.                                       *)
LEMMA CollectionsStep ==
    ASSUME PinInv, [Next]_vars
    PROVE  CollectionsOK'
<1>1. CASE Frame
  BY <1>1, BeginFrameKeeps, PollGpxKeeps, PollElevationKeeps, InputKeeps DEF Frame
<1>2. CASE TakeElevation \/ FinishElevation \/ TakeGpx \/ UNCHANGED vars
  <2>1. UNCHANGED <<pins, saved, unsaved, edits, selList, going>>
    BY <1>2 DEF TakeElevation, FinishElevation, TakeGpx, screenVars, vars
  <2> QED
    BY <2>1 DEF PinInv, CollectionsOK, SelectedListExists, HasList
<1>3. CASE FinishGpx
  <2>1. UNCHANGED <<pins, unsaved, edits, selList, going>>
    BY <1>3 DEF FinishGpx, screenVars
  <2>2. Good(saved')
    <3>1. CASE Refresh \/ Export
      BY <3>1 DEF Refresh, Export, PinInv, CollectionsOK
    <3>2. CASE Import
      BY <1>3, <3>2, ImportResult DEF FinishGpx, PinInv, CollectionsOK
    <3> QED
      BY <1>3, <3>1, <3>2 DEF FinishGpx
  <2> QED
    BY <2>1, <2>2 DEF PinInv, CollectionsOK, SelectedListExists, HasList
<1>4. CASE Restart
  BY <1>4, StartKeeps
<1> QED
  BY <1>1, <1>2, <1>3, <1>4 DEF Next, Work

-----------------------------------------------------------------------------
(* The inputs that only go to another screen, or edit what is selected.    *)
LEMMA ScreenKept ==
    ASSUME PinInv,
           \/ Idle \/ MapToMenu \/ MenuToMap \/ OpenLists \/ EndPinning \/ CapturePin
           \/ LeaveLists \/ SelectList \/ ChangeList \/ CreateList \/ OpenList
           \/ DeleteList \/ LeaveList \/ CenterPin \/ NamePin \/ ToggleClosed
           \/ OpenGpx \/ LeaveGpx \/ AskGpx \/ StartPinning,
           step' = "begin"
    PROVE  ScreenOK'
<1> USE DEF PinInv, ScreenOK, Modes, Go, Stay
<1>1. CASE Idle \/ MapToMenu \/ MenuToMap \/ LeaveList \/ OpenGpx \/ LeaveGpx \/ AskGpx
  BY <1>1 DEF Idle, MapToMenu, MenuToMap, LeaveList, OpenGpx, LeaveGpx, AskGpx
<1>2. CASE OpenLists \/ EndPinning \/ LeaveLists \/ SelectList
  BY <1>2 DEF OpenLists, EndPinning, LeaveLists, SelectList
<1>3. CASE CapturePin
  BY <1>3 DEF CapturePin
<1>4. CASE ChangeList \/ CreateList \/ OpenList \/ DeleteList
  BY <1>4 DEF ChangeList, CreateList, OpenList, DeleteList
<1>5. CASE CenterPin \/ NamePin \/ ToggleClosed
  BY <1>5 DEF CenterPin, NamePin, ToggleClosed
<1>6. CASE StartPinning
  BY <1>6 DEF StartPinning, BeginPinning
<1> QED
  BY <1>1, <1>2, <1>3, <1>4, <1>5, <1>6

(* Every step keeps the types of the screen.                               *)
LEMMA ScreenStep ==
    ASSUME PinInv, [Next]_vars
    PROVE  ScreenOK'
<1> USE DEF PinInv, ScreenOK, Modes
<1>1. CASE BeginFrame
  <2>1. pinning' \in BOOLEAN
    BY <1>1 DEF BeginFrame, BeginPinning
  <2> QED
    BY <1>1, <2>1 DEF BeginFrame, Transition
<1>2. CASE PollGpx
  <2>1. selFile' \in Nat \ {0}
    <3>1. CASE selFile' = selFile \/ selFile' = 1
      BY <3>1
    <3>2. CASE gpx.inbox # <<>> /\ selFile' = Clamped(selFile, Len(gpx.inbox))
      <4>1. gpx.inbox \in Seq(Names)
        BY ListingsAssumption, EmptySeq DEF RequestsOK
      <4> DEFINE n == Len(gpx.inbox)
      <4>2. n \in Nat \ {0} /\ selFile \in Nat \ {0}
        BY <3>2, <4>1, EmptySeq
      <4>3. selFile' = Clamped(selFile, n)
        BY <3>2
      <4> HIDE DEF n
      <4>4. Clamped(selFile, n) \in 1..n
        BY <4>2, MovesAmongRows
      <4> QED
        BY <4>2, <4>3, <4>4
    <3> QED
      BY <1>2, <3>1, <3>2 DEF PollGpx
  <2> QED
    BY <1>2, <2>1 DEF PollGpx
<1>3. CASE PollElevation
  BY <1>3 DEF PollElevation, screenVars
<1>4. CASE Input
  <2>1. step' = "begin"
    BY <1>4 DEF Input
  <2>2. CollectionsOK /\ selList \in 1..Len(pins.lists)
        /\ pins.lists[selList].pins \in Seq(Pins) /\ pins.lists[selList].id \in Nat
    BY GoodParts DEF CollectionsOK, SelectedListExists, HasList
  <2>3. CASE SelectPin
    <3>1. Len(SelectedPins) \in Nat \ {0}
      BY <2>2, <2>3, EmptySeq DEF SelectPin, SelectedPins
    <3>2. selPin' \in Nat \ {0}
      BY <2>3, <3>1, MovesAmongRows DEF SelectPin
    <3> QED
      BY <2>1, <2>3, <3>2 DEF SelectPin, Stay
  <2>4. CASE ArmListDeletion
    BY <2>1, <2>2, <2>4 DEF ArmListDeletion, Stay
  <2>5. CASE ArmPinDeletion
    <3>1. SelectedPins[selPin] \in Pins
      BY <2>2, <2>5, ElementOfSeq DEF ArmPinDeletion, PinSelected, HasPin, SelectedPins
    <3>2. SelectedPins[selPin].id \in Nat
      BY <3>1 DEF Pins
    <3> QED
      BY <2>1, <2>2, <2>5, <3>2 DEF ArmPinDeletion, Stay
  <2>6. CASE DeletePin
    <3>1. Len(SelectedPins) \in Nat \ {0}
      BY <2>2, <2>6, LenProperties DEF DeletePin, PinSelected, HasPin, SelectedPins
    <3>2. selPin' \in Nat \ {0}
      <4>1. CASE Len(SelectedPins) = 1
        BY <2>6, <4>1 DEF DeletePin
      <4>2. CASE Len(SelectedPins) # 1
        <5>1. Len(SelectedPins) - 1 \in Nat \ {0} /\ selPin \in Nat \ {0}
          BY <3>1, <4>2
        <5>2. Clamped(selPin, Len(SelectedPins) - 1) \in 1..Len(SelectedPins) - 1
          BY <5>1, MovesAmongRows
        <5>3. selPin' = Clamped(selPin, Len(SelectedPins) - 1)
          BY <2>6, <4>2 DEF DeletePin
        <5> HIDE DEF SelectedPins
        <5> QED
          BY <5>1, <5>2, <5>3
      <4> QED
        BY <4>1, <4>2
    <3> QED
      BY <2>1, <2>6, <3>2 DEF DeletePin, Stay
  <2>7. CASE ShiftPin
    <3>1. PICK t : CanMovePin(pins, selList, selPin, t) /\ selPin' = t
      BY <2>7 DEF ShiftPin
    <3>2. Len(SelectedPins) \in Nat
      BY <2>2, LenProperties DEF SelectedPins
    <3>3. t \in 1..Len(SelectedPins)
      BY <3>1 DEF CanMovePin, HasPin, SelectedPins
    <3>4. t \in Nat \ {0}
      BY <3>2, <3>3
    <3> QED
      BY <2>1, <2>7, <3>1, <3>4 DEF ShiftPin, Stay
  <2>8. CASE SelectFile
    <3>1. inbox \in Seq(Names)
      BY ListingsAssumption, EmptySeq DEF RequestsOK
    <3>2. Len(inbox) \in Nat \ {0}
      BY <2>8, <3>1, EmptySeq DEF SelectFile
    <3>3. selFile' \in Nat \ {0}
      BY <2>8, <3>2, MovesAmongRows DEF SelectFile
    <3> QED
      BY <2>1, <2>8, <3>3 DEF SelectFile, Stay
  <2> QED
    BY <1>4, <2>1, <2>3, <2>4, <2>5, <2>6, <2>7, <2>8, ScreenKept DEF Input
<1>5. CASE Work \/ UNCHANGED vars
  <2>1. UNCHANGED <<step, screenVars>>
    <3>1. CASE TakeElevation \/ FinishElevation
      BY <3>1 DEF TakeElevation, FinishElevation
    <3>2. CASE TakeGpx \/ FinishGpx
      BY <3>2 DEF TakeGpx, FinishGpx
    <3>3. CASE UNCHANGED vars
      BY <3>3 DEF vars
    <3> QED
      BY <1>5, <3>1, <3>2, <3>3 DEF Work
  <2>2. step' = step /\ mode' = mode /\ going' = going /\ back' = back
        /\ selPin' = selPin /\ selFile' = selFile /\ armed' = armed
        /\ pinning' = pinning
    BY <2>1 DEF screenVars
  <2> QED
    BY <2>2
<1>6. CASE Restart
  <2>1. step' = "begin" /\ mode' = "map" /\ going' = "map" /\ back' = "map"
        /\ selPin' = 1 /\ selFile' = 1 /\ armed' = Nothing /\ pinning' = FALSE
    BY <1>6 DEF Restart
  <2>2. pinning' \in BOOLEAN /\ back' \in {"map", "menu"}
    BY <2>1
  <2>3. {mode', going'} \subseteq {"map", "menu", "lists", "list", "gpx"}
    BY <2>1
  <2>4. selPin' \in Nat \ {0} /\ selFile' \in Nat \ {0}
    BY <2>1
  <2>5. armed' \in [list : Nat, pin : Nat] \cup {Nothing}
        /\ step' \in {"begin", "gpx", "elevation", "input"}
    BY <2>1
  <2> QED
    BY <2>2, <2>3, <2>4, <2>5
<1> QED
  BY <1>1, <1>2, <1>3, <1>4, <1>5, <1>6 DEF Next, Frame

-----------------------------------------------------------------------------
(* The frame's side of the slots: a result is taken, a request is made.    *)
LEMMA FrameSlots ==
    ASSUME PinInv, Frame
    PROVE  RequestsOK'
<1>1. UNCHANGED <<worker, listing>>
  BY DEF Frame, BeginFrame, PollGpx, PollElevation, Input
<1>2. inbox' \in {inbox, gpx.inbox}
  BY DEF Frame, BeginFrame, PollGpx, PollElevation, Input
<1>3. \/ gpx' = gpx
      \/ gpx.state = "answered" /\ gpx' = EmptyGpx
      \/ ~Pending(gpx) /\ RequestGpx("refresh", 0, Nothing)
      \/ ~Pending(gpx) /\ RequestGpx("export", 0, Nothing)
      \/ ~Pending(gpx) /\ RequestGpx("import", selFile, pins)
  <2>1. CASE BeginFrame \/ PollElevation
    BY <2>1 DEF BeginFrame, PollElevation
  <2>2. CASE PollGpx
    BY <2>2 DEF PollGpx
  <2>3. CASE Input
    BY <2>3 DEF Input, Idle, MapToMenu, MenuToMap, OpenLists, StartPinning,
       EndPinning, CapturePin, LeaveLists, SelectList, ChangeList, CreateList,
       OpenList, ArmListDeletion, DeleteList, LeaveList, SelectPin, CenterPin,
       NamePin, ArmPinDeletion, DeletePin, ToggleClosed, ShiftPin, OpenGpx,
       LeaveGpx, SelectFile, AskGpx
  <2> QED
    BY <2>1, <2>2, <2>3 DEF Frame
<1>4. \/ elevation' = elevation
      \/ elevation' = EmptyElevation
      \/ AskElevation(SetActive(pins, selList), selList)
  <2>1. CASE BeginFrame \/ PollGpx
    BY <2>1 DEF BeginFrame, PollGpx
  <2>2. CASE PollElevation
    BY <2>2 DEF PollElevation
  <2>3. CASE Input
    BY <2>3 DEF Input, Idle, MapToMenu, MenuToMap, OpenLists, StartPinning,
       EndPinning, CapturePin, LeaveLists, SelectList, ChangeList, CreateList,
       OpenList, ArmListDeletion, DeleteList, LeaveList, SelectPin, CenterPin,
       NamePin, ArmPinDeletion, DeletePin, ToggleClosed, ShiftPin, OpenGpx,
       LeaveGpx, SelectFile, AskGpx
  <2> QED
    BY <2>1, <2>2, <2>3 DEF Frame
<1>5. inbox' \in Listings \cup {<<>>} /\ listing' \in Listings \cup {<<>>}
      /\ worker' \in {"idle", "elevation", "gpx"}
  BY <1>1, <1>2 DEF PinInv, RequestsOK
<1>6. /\ gpx' \in [state : Slots, kind : {"refresh", "import", "export"},
                   file : Nat, repository : Repositories \cup {Nothing},
                   inbox : Listings \cup {<<>>}, failed : BOOLEAN]
      /\ gpx'.repository # Nothing => Good(gpx'.repository)
      /\ gpx'.kind = "import" /\ Pending(gpx)' => Good(gpx'.repository)
      /\ worker' = "gpx" => gpx'.state = "running"
  <2>1. CASE gpx' = gpx
    BY <1>1, <2>1 DEF PinInv, RequestsOK, Pending
  <2>2. CASE gpx.state = "answered" /\ gpx' = EmptyGpx
    BY <1>1, <2>2 DEF PinInv, RequestsOK, Pending, EmptyGpx, Slots
  <2>3. CASE ~Pending(gpx)
    <3>1. worker # "gpx"
      BY <2>3 DEF PinInv, RequestsOK, Pending
    <3>2. Good(pins) /\ selFile \in Nat
      BY DEF PinInv, CollectionsOK, ScreenOK
    <3>5. pins \in Repositories
      BY <3>2 DEF Good
    <3>3. CASE RequestGpx("refresh", 0, Nothing)
      BY <1>1, <3>1, <3>3 DEF RequestGpx, Pending, Slots
    <3>6. CASE RequestGpx("export", 0, Nothing)
      BY <1>1, <3>1, <3>6 DEF RequestGpx, Pending, Slots
    <3>4. CASE RequestGpx("import", selFile, pins)
      BY <1>1, <3>1, <3>2, <3>4, <3>5 DEF RequestGpx, Pending, Slots
    <3> QED
      BY <1>3, <2>1, <2>2, <2>3, <3>3, <3>4, <3>6
  <2> QED
    BY <1>3, <2>1, <2>2, <2>3
<1>7. elevation' \in [state : Slots, list : Nat, places : Seq(Places),
                      failed : BOOLEAN]
  <2>1. CASE elevation' = elevation
    BY <2>1 DEF PinInv, RequestsOK
  <2>2. CASE elevation' = EmptyElevation
    BY <2>2, EmptySeq DEF EmptyElevation, Slots
  <2>3. CASE AskElevation(SetActive(pins, selList), selList)
    <3> DEFINE list == pins.lists[selList]
               n == Len(list.pins)
               places == [j \in 1..n |-> list.pins[j].place]
    <3>1. list.pins \in Seq(Pins) /\ list.id \in Nat /\ n \in Nat
      BY GoodParts DEF PinInv, CollectionsOK, SelectedListExists, HasList
    <3>2. \A j \in 1..n : list.pins[j].place \in Places
      <4>1. \A j \in 1..n : list.pins[j] \in Pins
        BY <3>1, ElementOfSeq
      <4> QED
        BY <4>1 DEF Pins
    <3>3. places \in Seq(Places)
      <4> HIDE DEF n, list
      <4> QED
        BY <3>1, <3>2, SeqDef
    <3>4. SetActive(pins, selList).lists = pins.lists
      BY GoodParts DEF PinInv, CollectionsOK, SetActive
    <3>5. \/ elevation' = elevation
          \/ elevation' = [state |-> "requested", list |-> list.id,
                           failed |-> FALSE, places |-> places]
      BY <2>3, <3>4 DEF AskElevation
    <3> HIDE DEF places, list
    <3>6. CASE elevation' = [state |-> "requested", list |-> list.id,
                             failed |-> FALSE, places |-> places]
      BY <3>1, <3>3, <3>6 DEF Slots
    <3> QED
      BY <2>1, <3>5, <3>6
  <2> QED
    BY <1>4, <2>1, <2>2, <2>3
<1> QED
  BY <1>5, <1>6, <1>7 DEF RequestsOK, Pending

(* Every step keeps the slots.                                             *)
LEMMA RequestsStep ==
    ASSUME PinInv, [Next]_vars
    PROVE  RequestsOK'
<1>1. CASE Frame
  BY <1>1, FrameSlots
<1>2. CASE TakeElevation \/ FinishElevation
  <2>1. UNCHANGED <<inbox, listing, gpx>> /\ worker' \in {"idle", "elevation"}
    BY <1>2 DEF TakeElevation, FinishElevation
  <2>2. elevation' \in [state : Slots, list : Nat, places : Seq(Places),
                        failed : BOOLEAN]
    BY <1>2 DEF TakeElevation, FinishElevation, PinInv, RequestsOK, Slots
  <2> QED
    BY <2>1, <2>2 DEF PinInv, RequestsOK, Pending
<1>3. CASE TakeGpx
  <2>1. UNCHANGED <<inbox, listing, elevation>> /\ worker' = "gpx"
        /\ gpx' = [gpx EXCEPT !.state = "running"] /\ Pending(gpx)
    BY <1>3 DEF TakeGpx, Pending
  <2>2. gpx'.state = "running" /\ gpx'.kind = gpx.kind
        /\ gpx'.repository = gpx.repository
        /\ gpx' \in [state : Slots, kind : {"refresh", "import", "export"},
                     file : Nat, repository : Repositories \cup {Nothing},
                     inbox : Listings \cup {<<>>}, failed : BOOLEAN]
    BY <2>1 DEF PinInv, RequestsOK, Slots
  <2> QED
    BY <2>1, <2>2 DEF PinInv, RequestsOK, Pending
<1>4. CASE FinishGpx
  <2>1. worker = "gpx" /\ worker' = "idle" /\ UNCHANGED <<inbox, elevation>>
    BY <1>4 DEF FinishGpx
  <2>2. \E r, l, failed : /\ r = Nothing \/ Good(r)
                          /\ l \in Listings \cup {<<>>} /\ failed \in BOOLEAN
                          /\ listing' = l /\ Answer(r, l, failed)
    <3>1. CASE Refresh
      BY <3>1 DEF Refresh
    <3>2. CASE Export
      BY <3>2 DEF Export, PinInv, RequestsOK
    <3>3. CASE Import
      <4>1. listing' = listing /\ listing \in Listings \cup {<<>>}
        BY <3>3 DEF Import, PinInv, RequestsOK
      <4> QED
        BY <2>1, <3>3, <4>1, ImportResult
    <3> QED
      BY <1>4, <3>1, <3>2, <3>3 DEF FinishGpx
  <2>3. PICK r, l, failed : /\ r = Nothing \/ Good(r)
                            /\ l \in Listings \cup {<<>>} /\ failed \in BOOLEAN
                            /\ listing' = l /\ Answer(r, l, failed)
    BY <2>2
  <2>4. gpx' = [state |-> "answered", kind |-> gpx.kind, file |-> gpx.file,
                repository |-> r, inbox |-> l, failed |-> failed]
    BY <2>3 DEF Answer, PinInv, RequestsOK
  <2>5. r \in Repositories \cup {Nothing}
    BY <2>3 DEF Good
  <2> QED
    BY <2>1, <2>3, <2>4, <2>5 DEF PinInv, RequestsOK, Slots, Pending
<1>5. CASE Restart
  <2>1. gpx' = EmptyGpx /\ elevation' = EmptyElevation /\ worker' = "idle"
        /\ listing' = <<>> /\ inbox' = <<>>
    BY <1>5 DEF Restart
  <2> QED
    BY <2>1, EmptySeq DEF RequestsOK, EmptyGpx, EmptyElevation, Slots, Pending
<1>6. CASE UNCHANGED vars
  BY <1>6 DEF vars, PinInv, RequestsOK, Pending
<1> QED
  BY <1>1, <1>2, <1>3, <1>4, <1>5, <1>6 DEF Next, Work

-----------------------------------------------------------------------------
(* The program starts within the invariant and stays there.                *)
LEMMA PinStart ==
    ASSUME Init
    PROVE  PinInv
<1>1. Good(pins) /\ saved = pins
  <2>1. CASE pins \in Earlier
    BY <2>1, EarlierAssumption DEF Init, Good
  <2>2. CASE pins \in {DefaultRepository(name, Plain) : name \in Names}
    BY <2>2, DefaultIsGood, StylesAssumption DEF Init
  <2> QED
    BY <2>1, <2>2 DEF Init
<1>2. 1 \in 1..Len(pins.lists)
  <2>1. Len(pins.lists) \in Nat /\ pins.active \in 1..Len(pins.lists)
    BY <1>1, GoodParts
  <2> QED
    BY <2>1
<1>3. CollectionsOK
  <2>1. unsaved = FALSE /\ edits = 0 /\ selList = 1 /\ going = "map"
    BY DEF Init
  <2>2. edits \in 0..MaxEdits
    BY <2>1, MaxEditsAssumption
  <2>3. SelectedListExists
    BY <1>2, <2>1 DEF SelectedListExists, HasList
  <2>4. Good(saved) /\ unsaved \in BOOLEAN
    BY <1>1, <2>1
  <2>5. going # "list"
    BY <2>1
  <2> QED
    BY <1>1, <2>2, <2>3, <2>4, <2>5 DEF CollectionsOK
<1>4. ScreenOK
  <2>1. step = "begin" /\ mode = "map" /\ going = "map" /\ back = "map"
        /\ selPin = 1 /\ selFile = 1 /\ armed = Nothing /\ pinning = FALSE
    BY DEF Init
  <2>2. pinning \in BOOLEAN /\ back \in {"map", "menu"}
    BY <2>1
  <2>3. {mode, going} \subseteq {"map", "menu", "lists", "list", "gpx"}
    BY <2>1
  <2>4. selPin \in Nat \ {0} /\ selFile \in Nat \ {0}
    BY <2>1
  <2>5. armed \in [list : Nat, pin : Nat] \cup {Nothing}
        /\ step \in {"begin", "gpx", "elevation", "input"}
    BY <2>1
  <2> QED
    BY <2>2, <2>3, <2>4, <2>5 DEF ScreenOK, Modes
<1>5. RequestsOK
  BY EmptySeq DEF Init, RequestsOK, EmptyGpx, EmptyElevation, Slots, Pending
<1> QED
  BY <1>3, <1>4, <1>5 DEF PinInv

LEMMA PinInvariant ==
    Spec => []PinInv
<1>1. Init => PinInv
  BY PinStart
<1>2. PinInv /\ [Next]_vars => PinInv'
  BY CollectionsStep, ScreenStep, RequestsStep DEF PinInv
<1> QED
  BY <1>1, <1>2, PTL DEF Spec

-----------------------------------------------------------------------------
(* Every variable keeps its type.                                          *)
THEOREM PinTypes == Spec => []TypeOK
<1>1. PinInv => TypeOK
  <2> SUFFICES ASSUME PinInv
               PROVE  TypeOK
    OBVIOUS
  <2>1. {pins, saved} \subseteq Repositories /\ selList \in Nat \ {0}
    <3>1. pins \in Repositories /\ saved \in Repositories
      BY DEF PinInv, CollectionsOK, Good
    <3>2. Len(pins.lists) \in Nat /\ selList \in 1..Len(pins.lists)
      BY GoodParts DEF PinInv, CollectionsOK, SelectedListExists, HasList
    <3> QED
      BY <3>1, <3>2
  <2>2. unsaved \in BOOLEAN /\ edits \in 0..MaxEdits
    BY DEF PinInv, CollectionsOK
  <2> QED
    BY <2>1, <2>2 DEF PinInv, ScreenOK, RequestsOK, TypeOK
<1> QED
  BY <1>1, PinInvariant, PTL

(* map_screen.cpp edits pins_, gpx.cpp imports into its copy, and both     *)
(* save: no sequence of edits, imports, elevation answers, failing saves   *)
(* and restarts takes one of the three out of the limits of                *)
(* pin_collection.cpp.                                                     *)
THEOREM LimitsKept == Spec => []RepositoryBounds
<1>1. PinInv => RepositoryBounds
  BY DEF PinInv, CollectionsOK, RequestsOK, Good, RepositoryBounds
<1> QED
  BY <1>1, PinInvariant, PTL

(* update_pin_lists reads lists[selected_list_] without a test: no         *)
(* deletion, import or restart leaves the selection beyond the lists.      *)
THEOREM ListSelected == Spec => []SelectedListExists
<1>1. PinInv => SelectedListExists
  BY DEF PinInv, CollectionsOK
<1> QED
  BY <1>1, PinInvariant, PTL

(* What either thread writes, decode_repository accepts and takes as it    *)
(* is: a restart never falls back to the default collection.               *)
THEOREM CardDecodes == Spec => []SavedLoads
<1>1. PinInv => SavedLoads
  BY GoodLoads DEF PinInv, CollectionsOK, SavedLoads
<1> QED
  BY <1>1, PinInvariant, PTL
=============================================================================
