---------------------------- MODULE PinRepository ----------------------------
(***************************************************************************)
(* The pin collections of pin_collection.cpp as operators on a value: the  *)
(* render thread edits one such value, the worker imports into a copy.     *)
(*                                                                         *)
(* Indexes start at 1.  Names, styles (colour and icon) and places are     *)
(* members of small sets; the elevation of a pin is the place where it was *)
(* measured.  Where the code returns false and changes nothing there is a  *)
(* Can operator, and the caller decides.                                   *)
(***************************************************************************)
EXTENDS Naturals, SequencesExt

CONSTANTS
    Names,        (* of lists and pins                                     *)
    Styles,       (* colour and icon of a list                             *)
    Places,       (* coordinates                                           *)
    Unmeasured,   (* a pin without elevation                               *)
    MaxLists,     (* kMaximumPinLists                                      *)
    MaxPins,      (* kMaximumPinsPerList                                   *)
    ClosingPins   (* the pins a closed path needs, 3 in the code           *)

ASSUME UnmeasuredAssumption == Unmeasured \notin Places
ASSUME LimitsAssumption == MaxLists \in Nat \ {0} /\ MaxPins \in Nat \ {0, 1}
ASSUME ClosingAssumption == ClosingPins \in Nat

Pins == [id : Nat \ {0}, place : Places, name : Names,
         elevation : Places \cup {Unmeasured}]

PinLists == [id : Nat \ {0}, name : Names, style : Styles, visible : BOOLEAN,
             closed : BOOLEAN, pins : Seq(Pins)]

Repositories == [lists : Seq(PinLists), active : Nat,
                 nextList : Nat \ {0}, nextPin : Nat \ {0}]

NewList(id, name, style) ==
    [id |-> id, name |-> name, style |-> style, visible |-> TRUE,
     closed |-> FALSE, pins |-> <<>>]

(* reset_default: what a start without a record has.                       *)
DefaultRepository(name, style) ==
    [lists |-> <<NewList(1, name, style)>>, active |-> 1,
     nextList |-> 2, nextPin |-> 1]

HasList(r, i) == i \in 1..Len(r.lists)
HasPin(r, i, j) == HasList(r, i) /\ j \in 1..Len(r.lists[i].pins)

-----------------------------------------------------------------------------
SetActive(r, i) == [r EXCEPT !.active = i]

CanAddList(r) == Len(r.lists) < MaxLists

AddList(r, name, style) ==
    [r EXCEPT !.lists = Append(@, NewList(r.nextList, name, style)),
              !.active = Len(r.lists) + 1,
              !.nextList = @ + 1]

CanRemoveList(r, i) == Len(r.lists) > 1 /\ HasList(r, i)

RemoveList(r, i) ==
    [r EXCEPT !.lists = RemoveAt(@, i),
              !.active = CASE @ = i -> 1
                           [] @ > i -> @ - 1
                           [] OTHER -> @]

RenameList(r, i, name) == [r EXCEPT !.lists[i].name = name]

(* set_list_color and set_list_icon.                                       *)
SetStyle(r, i, style) == [r EXCEPT !.lists[i].style = style]

SetVisible(r, i, visible) == [r EXCEPT !.lists[i].visible = visible]

CanSetClosed(r, i, closed) ==
    HasList(r, i) /\ (closed => Len(r.lists[i].pins) >= ClosingPins)

SetClosed(r, i, closed) == [r EXCEPT !.lists[i].closed = closed]

CanAddPin(r) == Len(r.lists[r.active].pins) < MaxPins

(* A closed path is opened by the pin that extends it.                     *)
AddPin(r, place, name) ==
    [r EXCEPT !.lists[r.active].closed = FALSE,
              !.lists[r.active].pins = Append(@,
                  [id |-> r.nextPin, place |-> place, name |-> name,
                   elevation |-> Unmeasured]),
              !.nextPin = @ + 1]

RenamePin(r, i, j, name) == [r EXCEPT !.lists[i].pins[j].name = name]

(* Mutant: a path stays closed however few pins are left.                  *)
RemovePinOnly(r, i, j) == [r EXCEPT !.lists[i].pins = RemoveAt(@, j)]

RemovePin(r, i, j) ==
    [r EXCEPT !.lists[i].closed = @ /\ Len(r.lists[i].pins) > ClosingPins,
              !.lists[i].pins = RemoveAt(@, j)]

(* move_pin: swap with the neighbour; t is the target index.               *)
CanMovePin(r, i, j, t) == HasPin(r, i, j) /\ HasPin(r, i, t)

(* Mutant: the places change, the elevations stay.                         *)
MovePlaces(r, i, j, t) ==
    [r EXCEPT !.lists[i].pins[j].place = r.lists[i].pins[t].place,
              !.lists[i].pins[t].place = r.lists[i].pins[j].place]

MovePin(r, i, j, t) ==
    [r EXCEPT !.lists[i].pins = [@ EXCEPT ![j] = r.lists[i].pins[t],
                                          ![t] = r.lists[i].pins[j]]]

(* The loop of poll_elevation_result over set_pin_elevation: the k-th      *)
(* height goes to the k-th pin, as far as both reach.                      *)
SetElevations(r, i, heights) ==
    [r EXCEPT !.lists[i].pins =
        [k \in 1..Len(@) |-> IF k \in 1..Len(heights)
                             THEN [@[k] EXCEPT !.elevation = heights[k]]
                             ELSE @[k]]]

(* parse_gpx: the points of the routes of a file, else of its tracks, else *)
(* its waypoints; a file without any is refused.                           *)
Parsed(file) ==
    CASE file.route # <<>> -> file.route
      [] file.route = <<>> /\ file.track # <<>> -> file.track
      [] OTHER -> file.waypoints

(* bounded_points: of n points a list keeps MaxPins, from the first to the *)
(* last; this is where the k-th one is in the track, counted from 0.       *)
Sampled(k, n) == (k * (n - 1)) \div (MaxPins - 1)

(* Mutant: the list keeps them all.                                        *)
AllPoints(track) == track

BoundedPoints(track) ==
    IF Len(track) <= MaxPins THEN track
    ELSE [k \in 1..MaxPins |-> track[Sampled(k - 1, Len(track)) + 1]]

(* Mutant: the points go to the active list.                               *)
ImportIntoActive(r, name, style, track) ==
    [r EXCEPT !.lists[r.active].pins =
        [k \in 1..Len(track) |->
            [id |-> r.nextPin + k - 1, place |-> track[k].place, name |-> name,
             elevation |-> IF track[k].measured THEN track[k].place
                           ELSE Unmeasured]]]

(* The loop of import_file: a new active list with the points of a track.  *)
ImportTrack(r, name, style, track) ==
    [AddList(r, name, style) EXCEPT
        !.lists = Append(r.lists,
            [NewList(r.nextList, name, style) EXCEPT !.pins =
                [k \in 1..Len(track) |->
                    [id |-> r.nextPin + k - 1, place |-> track[k].place,
                     name |-> name,
                     elevation |-> IF track[k].measured THEN track[k].place
                                   ELSE Unmeasured]]]),
        !.nextPin = @ + Len(track)]

-----------------------------------------------------------------------------
(* decode_payload: what it refuses, and what it puts right.                *)
Decodes(r) ==
    /\ Len(r.lists) \in 1..MaxLists
    /\ r.active \in 1..Len(r.lists)
    /\ \A i \in 1..Len(r.lists) :
           r.lists[i].id # 0 /\ Len(r.lists[i].pins) <= MaxPins

Decoded(r) ==
    [r EXCEPT !.lists = [i \in 1..Len(r.lists) |->
        [r.lists[i] EXCEPT !.closed = @ /\ Len(r.lists[i].pins) >= ClosingPins]]]

(* save, as one step: the record is the new one or stays what it was.      *)
Saves(record, r) == {[record |-> r, done |-> TRUE],
                     [record |-> record, done |-> FALSE]}

(* load: the record if it decodes, else the collections of a first start.  *)
Loads(record, name, style) ==
    IF Decodes(record) THEN Decoded(record) ELSE DefaultRepository(name, style)
=============================================================================
