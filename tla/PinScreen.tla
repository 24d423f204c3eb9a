------------------------------ MODULE PinScreen ------------------------------
(***************************************************************************)
(* Pin collections between the two threads: the screens of map_screen.cpp  *)
(* that edit them on the render thread, and the worker that imports a GPX  *)
(* file into a copy and looks up elevations.                               *)
(*                                                                         *)
(* A frame is BeginFrame, PollGpx, PollElevation and at most one input;    *)
(* the worker may step between any two of them.  A save is one step that   *)
(* succeeds or fails, as RecordStore allows; saves of the two threads at   *)
(* the same moment are left out.                                           *)
(***************************************************************************)
EXTENDS PinRepository

CONSTANTS
    Earlier,    (* collections that an earlier session may have left         *)
    Listings,   (* what the GPX inbox may hold: sequences of file names     *)
    Files,      (* what a file may hold: a route, a track and waypoints     *)
    Plain,      (* the style of a new list                                  *)
    Flagged,    (* the style of an imported one                             *)
    Nothing,    (* an empty slot                                            *)
    Patient,    (* whether the user leaves the pins alone while the worker  *)
                (* has work for them or its result waits to be polled       *)
    MaxEdits    (* bound: edits and imports                                 *)

(* The limits of a collection: between one and MaxLists lists, an active   *)
(* one among them, no list over MaxPins, a path closed only with enough    *)
(* pins, and every id given out once.                                      *)
Bounded(r) ==
    /\ Decodes(r)
    /\ \A i \in 1..Len(r.lists) :
           /\ r.lists[i].closed => Len(r.lists[i].pins) >= ClosingPins
           /\ r.lists[i].id < r.nextList
           /\ \A k \in 1..Len(r.lists) :
                  r.lists[i].id = r.lists[k].id => i = k

ASSUME EarlierAssumption ==
    \A r \in Earlier : r \in Repositories /\ Bounded(r)
ASSUME StylesAssumption == {Plain, Flagged} \subseteq Styles
Points == [place : Places, measured : BOOLEAN]
ASSUME FilesAssumption ==
    \A f \in Files : /\ {f.route, f.track, f.waypoints} \subseteq Seq(Points)
                     /\ Parsed(f) # <<>>
ASSUME NothingAssumption == Nothing \notin Repositories
ASSUME PatientAssumption == Patient \in BOOLEAN
ASSUME MaxEditsAssumption == MaxEdits \in Nat
ASSUME ListingsAssumption == Listings # {} /\ \A l \in Listings : l \in Seq(Names)

VARIABLES
    pins,      \* pins_
    saved,     \* the record on the memory card
    unsaved,   \* the message that the last change is only in memory
    step,      \* where the frame is
    mode,      \* mode_
    going,     \* pending_mode_; another mode than mode_ while a transition runs
    back,      \* pin_lists_return_mode_
    selList,   \* selected_list_
    selPin,    \* selected_pin_
    selFile,   \* selected_gpx_
    inbox,     \* gpx_inbox_
    armed,     \* delete_confirm_armed_: Nothing, or what the message asked about
    pinning,   \* pinning_
    worker,    \* the request the worker is busy with
    listing,   \* GpxManager::inbox_, the worker's
    gpx,       \* the GPX request and result slot
    elevation, \* the elevation request and result slot
    edits      \* edits and imports so far

screenVars == <<mode, going, back, selList, selPin, selFile, armed, pinning>>
vars == <<pins, saved, unsaved, step, screenVars, inbox, worker, listing,
          gpx, elevation, edits>>

Modes == {"map", "menu", "lists", "list", "gpx"}

(* A slot is empty, requested, running or answered.  A GPX request carries *)
(* the index of a file and a copy of the collections, its result the       *)
(* listing and, if they changed, the collections.                          *)
EmptyGpx == [state |-> "empty", kind |-> "refresh", file |-> 0,
             repository |-> Nothing, inbox |-> <<>>, failed |-> FALSE]
EmptyElevation == [state |-> "empty", list |-> 0, places |-> <<>>,
                   failed |-> FALSE]

Pending(slot) == slot.state \in {"requested", "running"}
Quiet == gpx.state = "empty" /\ elevation.state = "empty"
MayTouch == Patient => Quiet

-----------------------------------------------------------------------------
(* What GpxManager::initialize lists is never used: the screen that can    *)
(* import asks for a new listing first.                                    *)
Init ==
    /\ pins \in Earlier \cup {DefaultRepository(name, Plain) : name \in Names}
    /\ saved = pins /\ unsaved = FALSE /\ step = "begin"
    /\ mode = "map" /\ going = "map" /\ back = "map"
    /\ selList = 1 /\ selPin = 1 /\ selFile = 1
    /\ inbox = <<>> /\ armed = Nothing /\ pinning = FALSE
    /\ worker = "idle" /\ listing = <<>>
    /\ gpx = EmptyGpx /\ elevation = EmptyElevation
    /\ edits = 0

(* Mutant: the failure of a save is not shown.                             *)
PersistQuietly(r) ==
    \E s \in Saves(saved, r) : saved' = s.record /\ unsaved' = FALSE

(* persist_pins: memory keeps the change whatever becomes of the save.     *)
Persist(r) ==
    \E s \in Saves(saved, r) : saved' = s.record /\ unsaved' = ~s.done

Edit(r) ==
    /\ MayTouch /\ edits < MaxEdits /\ edits' = edits + 1
    /\ pins' = r /\ Persist(r)

Keep == UNCHANGED <<pins, saved, unsaved, edits>>

(* request_mode, which comes from a screen that is not in transition.      *)
Go(m) == going' = m /\ UNCHANGED mode

Stay == UNCHANGED <<mode, going>>

(* Mutant: the selection is left where it was.                             *)
Unclamped(i, n) == i

(* A selection after its n rows became fewer.                              *)
Clamped(i, n) == Min({i, n})

(* Mutant: the first row has no wrap.                                      *)
Beside(i, n) == {i - 1, IF i >= n THEN 1 ELSE i + 1}

(* The rows above and below, with wrap.                                    *)
Around(i, n) == {IF i = 1 THEN n ELSE i - 1, IF i >= n THEN 1 ELSE i + 1}

-----------------------------------------------------------------------------
(* Mutant: the list stays hidden.                                          *)
BeginPinningHidden == pinning' = TRUE /\ Keep

BeginPinning ==
    /\ pinning' = TRUE
    /\ IF pins.lists[pins.active].visible
       THEN Keep
       ELSE Edit(SetVisible(pins, pins.active, TRUE))

(* update_animations: a transition may come to the change of the screen.   *)
Transition == mode' \in {mode, going} /\ UNCHANGED going

(* The start of update: the confirmation may time out, and a search may    *)
(* have been answered (begin_pinning).                                     *)
BeginFrame ==
    /\ step = "begin" /\ step' = "gpx" /\ Transition
    /\ armed' \in {armed, Nothing}
    /\ \/ UNCHANGED pinning /\ Keep
       \/ (Patient => mode' = "map" /\ going = "map") /\ BeginPinning
    /\ UNCHANGED <<back, selList, selPin, selFile, inbox, worker, listing, gpx,
                   elevation>>

PollGpx ==
    /\ step = "gpx" /\ step' = "elevation"
    /\ IF gpx.state # "answered"
       THEN UNCHANGED <<pins, unsaved, selList, selFile, inbox, gpx>>
       ELSE /\ inbox' = gpx.inbox
            /\ IF gpx.repository # Nothing
               THEN /\ pins' = gpx.repository
                    /\ selList' = gpx.repository.active
                    /\ unsaved' = gpx.failed
               ELSE UNCHANGED <<pins, selList, unsaved>>
            /\ selFile' = IF gpx.inbox = <<>> THEN 1
                          ELSE Clamped(selFile, Len(gpx.inbox))
            /\ gpx' = EmptyGpx
    /\ UNCHANGED <<saved, mode, going, back, selPin, armed, pinning, worker,
                   listing, elevation, edits>>

(* The first list with the id of the request, if there still is one.       *)
Asked == {i \in 1..Len(pins.lists) : pins.lists[i].id = elevation.list}

PollElevation ==
    /\ step = "elevation" /\ step' = "input"
    /\ IF elevation.state # "answered"
       THEN Keep /\ UNCHANGED elevation
       ELSE /\ elevation' = EmptyElevation
            /\ IF elevation.failed \/ Asked = {}
               THEN Keep
               ELSE LET r == SetElevations(pins, Min(Asked), elevation.places)
                    IN  pins' = r /\ Persist(r) /\ UNCHANGED edits
    /\ UNCHANGED <<screenVars, inbox, worker, listing, gpx>>

(* request_elevation_for_list: in hiking mode, with the network up, if a   *)
(* pin has no elevation.                                                   *)
AskElevation(r, i) ==
    LET list == r.lists[i] IN
    \/ UNCHANGED elevation
    \/ /\ ~Pending(elevation)
       /\ \E j \in 1..Len(list.pins) : list.pins[j].elevation = Unmeasured
       /\ elevation' = [state |-> "requested", list |-> list.id, failed |-> FALSE,
                        places |-> [j \in 1..Len(list.pins) |->
                                       list.pins[j].place]]

-----------------------------------------------------------------------------
(* The inputs.  No button at all is Idle.                                  *)
Idle == Stay /\ Keep /\ UNCHANGED <<back, selList, selPin, selFile, armed,
                                   pinning, gpx, elevation>>

MapToMenu ==
    /\ mode = "map" /\ Go("menu") /\ Keep
    /\ UNCHANGED <<back, selList, selPin, selFile, armed, pinning, gpx, elevation>>

MenuToMap ==
    /\ mode = "menu" /\ Go("map") /\ Keep
    /\ UNCHANGED <<back, selList, selPin, selFile, armed, pinning, gpx, elevation>>

OpenLists ==
    /\ mode \in {"map", "menu"} /\ Go("lists") /\ back' = mode
    /\ selList' = pins.active /\ armed' = Nothing /\ pinning' = FALSE
    /\ Keep /\ UNCHANGED <<selPin, selFile, gpx, elevation>>

(* CROSS on the map, or coordinates and local names typed into the search. *)
StartPinning ==
    /\ mode = "map" /\ Stay /\ BeginPinning
    /\ UNCHANGED <<back, selList, selPin, selFile, armed, gpx, elevation>>

EndPinning ==
    /\ mode = "map" /\ pinning /\ pinning' = FALSE /\ Stay /\ Keep
    /\ UNCHANGED <<back, selList, selPin, selFile, armed, gpx, elevation>>

(* capture_pin: near the first pin it closes the path, elsewhere it adds   *)
(* a pin, unless the list is full.                                         *)
CapturePin ==
    /\ mode = "map" /\ pinning /\ Stay
    /\ \/ /\ Len(pins.lists[pins.active].pins) >= ClosingPins
          /\ CanSetClosed(pins, pins.active, TRUE)
          /\ pinning' = FALSE
          /\ Edit(SetClosed(pins, pins.active, TRUE))
       \/ /\ CanAddPin(pins) /\ UNCHANGED pinning
          /\ \E place \in Places, name \in Names : Edit(AddPin(pins, place, name))
    /\ UNCHANGED <<back, selList, selPin, selFile, armed, gpx, elevation>>

LeaveLists ==
    /\ mode = "lists" /\ Go(back) /\ armed' = Nothing /\ Keep
    /\ UNCHANGED <<back, selList, selPin, selFile, pinning, gpx, elevation>>

SelectList ==
    /\ mode = "lists" /\ Stay /\ armed' = Nothing /\ Keep
    /\ selList' \in Around(selList, Len(pins.lists))
    /\ UNCHANGED <<back, selPin, selFile, pinning, gpx, elevation>>

(* Colour, icon, visibility and name of the selected list.                 *)
ChangeList ==
    /\ mode = "lists" /\ Stay
    /\ \/ \E style \in Styles : Edit(SetStyle(pins, selList, style))
       \/ Edit(SetVisible(pins, selList, ~pins.lists[selList].visible))
       \/ \E name \in Names : Edit(RenameList(pins, selList, name))
    /\ UNCHANGED <<back, selList, selPin, selFile, armed, pinning, gpx, elevation>>

CreateList ==
    /\ mode = "lists" /\ Stay /\ CanAddList(pins)
    /\ \E name \in Names : Edit(AddList(pins, name, Plain))
    /\ selList' = Len(pins.lists) + 1
    /\ UNCHANGED <<back, selPin, selFile, armed, pinning, gpx, elevation>>

OpenList ==
    /\ mode = "lists" /\ Go("list") /\ armed' = Nothing
    /\ Edit(SetActive(pins, selList))
    /\ selPin' = 1 /\ AskElevation(SetActive(pins, selList), selList)
    /\ UNCHANGED <<back, selList, selFile, pinning, gpx>>

(* SELECT: the first press asks, the second removes.                       *)
ArmListDeletion ==
    /\ mode = "lists" /\ Stay /\ Keep /\ armed = Nothing
    /\ Len(pins.lists) > 1
    /\ armed' = [list |-> pins.lists[selList].id, pin |-> 0]
    /\ UNCHANGED <<back, selList, selPin, selFile, pinning, gpx, elevation>>

DeleteList ==
    /\ mode = "lists" /\ Stay /\ armed # Nothing /\ armed' = Nothing
    /\ CanRemoveList(pins, selList)
    /\ Edit(RemoveList(pins, selList))
    /\ selList' = Clamped(selList, Len(pins.lists) - 1)
    /\ UNCHANGED <<back, selPin, selFile, pinning, gpx, elevation>>

-----------------------------------------------------------------------------
(* The screen of one list.  A selected pin beyond the end of its list is   *)
(* read all the same; the actions below are defined for one within it.     *)
SelectedPins == pins.lists[selList].pins
PinSelected == HasPin(pins, selList, selPin)

LeaveList ==
    /\ mode = "list" /\ Go("lists") /\ armed' = Nothing /\ Keep
    /\ UNCHANGED <<back, selList, selPin, selFile, pinning, gpx, elevation>>

SelectPin ==
    /\ mode = "list" /\ SelectedPins # <<>> /\ Stay /\ armed' = Nothing /\ Keep
    /\ selPin' \in Around(selPin, Len(SelectedPins))
    /\ UNCHANGED <<back, selList, selFile, pinning, gpx, elevation>>

CenterPin ==
    /\ mode = "list" /\ PinSelected /\ Go("map")
    /\ MayTouch /\ pinning' = TRUE
    /\ LET r == SetActive(pins, selList) IN
       IF r.lists[selList].visible
       THEN pins' = r /\ UNCHANGED <<saved, unsaved, edits>>
       ELSE Edit(SetVisible(r, selList, TRUE))
    /\ UNCHANGED <<back, selList, selPin, selFile, armed, gpx, elevation>>

NamePin ==
    /\ mode = "list" /\ PinSelected /\ Stay
    /\ \E name \in Names : Edit(RenamePin(pins, selList, selPin, name))
    /\ UNCHANGED <<back, selList, selPin, selFile, armed, pinning, gpx, elevation>>

ArmPinDeletion ==
    /\ mode = "list" /\ PinSelected /\ armed = Nothing /\ Stay /\ Keep
    /\ armed' = [list |-> pins.lists[selList].id,
                 pin |-> SelectedPins[selPin].id]
    /\ UNCHANGED <<back, selList, selPin, selFile, pinning, gpx, elevation>>

DeletePin ==
    /\ mode = "list" /\ PinSelected /\ armed # Nothing /\ armed' = Nothing /\ Stay
    /\ Edit(RemovePin(pins, selList, selPin))
    /\ selPin' = IF Len(SelectedPins) = 1 THEN 1
                 ELSE Clamped(selPin, Len(SelectedPins) - 1)
    /\ UNCHANGED <<back, selList, selFile, pinning, gpx, elevation>>

ToggleClosed ==
    /\ mode = "list" /\ Stay
    /\ Len(SelectedPins) >= ClosingPins
    /\ Edit(SetClosed(pins, selList, ~pins.lists[selList].closed))
    /\ UNCHANGED <<back, selList, selPin, selFile, armed, pinning, gpx, elevation>>

ShiftPin ==
    /\ mode = "list" /\ PinSelected /\ Stay
    /\ \E t \in {selPin - 1, selPin + 1} :
           /\ CanMovePin(pins, selList, selPin, t)
           /\ Edit(MovePin(pins, selList, selPin, t))
           /\ selPin' = t
    /\ UNCHANGED <<back, selList, selFile, armed, pinning, gpx, elevation>>

-----------------------------------------------------------------------------
(* request_gpx_*: refused while a request is pending; a result that was    *)
(* not polled is dropped.                                                  *)
RequestGpx(kind, file, repository) ==
    gpx' = [state |-> "requested", kind |-> kind, file |-> file,
            repository |-> repository, inbox |-> <<>>, failed |-> FALSE]

OpenGpx ==
    /\ mode = "lists" /\ (Patient => gpx.state # "answered")
    /\ Go("gpx") /\ selFile' = 1 /\ Keep
    /\ IF Pending(gpx) THEN UNCHANGED gpx ELSE RequestGpx("refresh", 0, Nothing)
    /\ UNCHANGED <<back, selList, selPin, armed, pinning, elevation>>

LeaveGpx ==
    /\ mode = "gpx" /\ Go("lists") /\ Keep
    /\ UNCHANGED <<back, selList, selPin, selFile, armed, pinning, gpx, elevation>>

SelectFile ==
    /\ mode = "gpx" /\ inbox # <<>> /\ Stay /\ Keep
    /\ selFile' \in Around(selFile, Len(inbox))
    /\ UNCHANGED <<back, selList, selPin, armed, pinning, gpx, elevation>>

AskGpx ==
    /\ mode = "gpx" /\ MayTouch /\ ~Pending(gpx) /\ Stay
    /\ UNCHANGED <<pins, saved, unsaved>>
    /\ \/ RequestGpx("refresh", 0, Nothing) /\ UNCHANGED edits
       \/ RequestGpx("export", 0, Nothing) /\ UNCHANGED edits
       \/ /\ inbox # <<>> /\ edits < MaxEdits /\ edits' = edits + 1
          /\ RequestGpx("import", selFile, pins)
    /\ UNCHANGED <<back, selList, selPin, selFile, armed, pinning, elevation>>

Input ==
    /\ step = "input" /\ step' = "begin"
    /\ \/ Idle
       \/ /\ going = mode
          /\ \/ MapToMenu \/ MenuToMap \/ OpenLists \/ StartPinning
             \/ EndPinning \/ CapturePin \/ LeaveLists \/ SelectList
             \/ ChangeList \/ CreateList \/ OpenList \/ ArmListDeletion
             \/ DeleteList \/ LeaveList \/ SelectPin \/ CenterPin \/ NamePin
             \/ ArmPinDeletion \/ DeletePin \/ ToggleClosed \/ ShiftPin
             \/ OpenGpx \/ LeaveGpx \/ SelectFile \/ AskGpx
    /\ UNCHANGED <<inbox, worker, listing>>

-----------------------------------------------------------------------------
(* The worker does one request at a time.                                  *)
TakeElevation ==
    /\ worker = "idle" /\ elevation.state = "requested"
    /\ worker' = "elevation"
    /\ elevation' = [elevation EXCEPT !.state = "running"]
    /\ UNCHANGED <<pins, saved, unsaved, step, screenVars, inbox, listing, gpx,
                   edits>>

(* ElevationClient::lookup: one height per point, or an error.             *)
FinishElevation ==
    /\ worker = "elevation" /\ worker' = "idle"
    /\ \E failed \in BOOLEAN :
           elevation' = [elevation EXCEPT !.state = "answered", !.failed = failed]
    /\ UNCHANGED <<pins, saved, unsaved, step, screenVars, inbox, listing, gpx,
                   edits>>

TakeGpx ==
    /\ worker = "idle" /\ gpx.state = "requested"
    /\ worker' = "gpx"
    /\ gpx' = [gpx EXCEPT !.state = "running"]
    /\ UNCHANGED <<pins, saved, unsaved, step, screenVars, inbox, listing,
                   elevation, edits>>

Answer(repository, listed, failed) ==
    gpx' = [gpx EXCEPT !.state = "answered", !.repository = repository,
                       !.inbox = listed, !.failed = failed]

(* refresh_inbox, which forgets the files of a folder it cannot open.      *)
Refresh ==
    /\ gpx.kind = "refresh" /\ UNCHANGED saved
    /\ \/ listing' \in Listings /\ Answer(Nothing, listing', FALSE)
       \/ listing' = <<>> /\ Answer(Nothing, <<>>, TRUE)

(* export_list, which changes no collection.                               *)
Export ==
    /\ gpx.kind = "export" /\ UNCHANGED <<saved, listing>>
    /\ \E failed \in BOOLEAN : Answer(Nothing, listing, failed)

(* import_file: the index counts in the worker's listing; a file that is   *)
(* not read or has no points, and a collection that is full, change        *)
(* nothing; else the collections are handed back even if their save, or    *)
(* that of the history, failed.  The new list has the name of the file.    *)
Import ==
    /\ gpx.kind = "import" /\ UNCHANGED listing
    /\ \/ Answer(Nothing, listing, TRUE) /\ UNCHANGED saved
       \/ /\ gpx.file \in 1..Len(listing) /\ CanAddList(gpx.repository)
          /\ \E f \in Files, noted \in BOOLEAN :
                 LET r == ImportTrack(gpx.repository, listing[gpx.file],
                                      Flagged, BoundedPoints(Parsed(f)))
                 IN  \E s \in Saves(saved, r) :
                         /\ saved' = s.record
                         /\ Answer(r, listing, ~(s.done /\ noted))

FinishGpx ==
    /\ worker = "gpx" /\ worker' = "idle"
    /\ Refresh \/ Export \/ Import
    /\ UNCHANGED <<pins, unsaved, step, screenVars, inbox, elevation, edits>>

(* The program ends at any moment and starts again from the record.        *)
Restart ==
    /\ \E name \in Names : pins' = Loads(saved, name, Plain)
    /\ unsaved' = FALSE /\ step' = "begin"
    /\ mode' = "map" /\ going' = "map" /\ back' = "map"
    /\ selList' = 1 /\ selPin' = 1 /\ selFile' = 1
    /\ inbox' = <<>> /\ armed' = Nothing /\ pinning' = FALSE
    /\ worker' = "idle" /\ listing' = <<>>
    /\ gpx' = EmptyGpx /\ elevation' = EmptyElevation
    /\ UNCHANGED <<saved, edits>>

Frame == BeginFrame \/ PollGpx \/ PollElevation \/ Input
Work == TakeElevation \/ FinishElevation \/ TakeGpx \/ FinishGpx

Next == Frame \/ Work \/ Restart

Spec == Init /\ [][Next]_vars

-----------------------------------------------------------------------------
Slots == {"empty", "requested", "running", "answered"}

TypeOK ==
    /\ {pins, saved} \subseteq Repositories
    /\ unsaved \in BOOLEAN /\ pinning \in BOOLEAN
    /\ step \in {"begin", "gpx", "elevation", "input"}
    /\ {mode, going} \subseteq Modes /\ back \in {"map", "menu"}
    /\ {selList, selPin, selFile} \subseteq Nat \ {0}
    /\ {inbox, listing} \subseteq Listings \cup {<<>>}
    /\ armed \in [list : Nat, pin : Nat] \cup {Nothing}
    /\ worker \in {"idle", "elevation", "gpx"}
    /\ gpx \in [state : Slots, kind : {"refresh", "import", "export"},
                file : Nat, repository : Repositories \cup {Nothing},
                inbox : Listings \cup {<<>>}, failed : BOOLEAN]
    /\ elevation \in [state : Slots, list : Nat, places : Seq(Places),
                      failed : BOOLEAN]
    /\ edits \in 0..MaxEdits

(* On both threads and on the card, whatever edits, imports, elevation     *)
(* answers, failing saves and restarts came: the next edit starts from     *)
(* collections within their limits.                                        *)
RepositoryBounds ==
    /\ Bounded(pins) /\ Bounded(saved)
    /\ gpx.repository # Nothing => Bounded(gpx.repository)

(* What the program writes its loader accepts and takes as it is.          *)
SavedLoads == Decodes(saved) /\ Decoded(saved) = saved

(* The selected list exists: update_pin_lists reads it without a test, and *)
(* edits, deletions and imports change the number of lists.                *)
SelectedListExists == HasList(pins, selList)

(* On the screen of a list the selected pin exists if there is any: CROSS  *)
(* and TRIANGLE read it without a test.                                    *)
SelectedPinExists ==
    mode = "list" /\ SelectedPins # <<>> => PinSelected

(* A restart finds what the screen shows, unless the user was told that    *)
(* the last change is only in memory, or an import is about to be shown.   *)
DiskFollowsMemory ==
    \/ saved = pins \/ unsaved
    \/ gpx.state = "answered" /\ gpx.repository = saved

(* The elevation of a pin was measured where the pin is.                   *)
ElevationOfPlace ==
    \A i \in 1..Len(pins.lists) : \A j \in 1..Len(pins.lists[i].pins) :
        LET pin == pins.lists[i].pins[j]
        IN  pin.elevation \in {Unmeasured, pin.place}

(* While pins are being placed the list they go to is drawn.               *)
PinModeShowsList == pinning => pins.lists[pins.active].visible

(* An import adds its list and changes nothing else (ARCHITECTURE.md:284:  *)
(* "Imports become a new green/flag list").                                *)
ImportOnlyAdds ==
    [][PollGpx /\ gpx.repository # Nothing /\ gpx.state = "answered"
           => IsPrefix(pins.lists, pins'.lists)]_vars
=============================================================================
