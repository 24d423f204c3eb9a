--------------------------- MODULE PinPatienceProofs ---------------------------
(***************************************************************************)
(* What the screens promise a user who leaves the pins alone while the     *)
(* worker is busy with them; and, of imports and elevations, what they     *)
(* promise any user.                                                       *)
(***************************************************************************)
EXTENDS PinScreenProofs

(* An import waits in the slot until it is polled, and while it does no    *)
(* elevation is asked for and no pin is touched.                           *)
SlotInv ==
    /\ gpx.state = "empty" => gpx = EmptyGpx
    /\ gpx.kind = "import" => elevation.state = "empty"
    /\ gpx.repository # Nothing => gpx.kind = "import"
    /\ worker = "elevation" => elevation.state = "running"

Imported == gpx.state = "answered" /\ gpx.repository # Nothing

DiskInv ==
    /\ Imported => gpx.repository = saved \/ gpx.failed = TRUE
    /\ Told \/ (Imported /\ gpx.repository = saved)

-----------------------------------------------------------------------------
(* The inputs that touch neither slot nor collection.                      *)
LEMMA LookingOnly ==
    ASSUME Idle \/ MapToMenu \/ MenuToMap \/ OpenLists \/ EndPinning \/ LeaveLists
           \/ SelectList \/ ArmListDeletion \/ LeaveList \/ SelectPin
           \/ ArmPinDeletion \/ LeaveGpx \/ SelectFile
    PROVE  UNCHANGED <<pins, saved, unsaved, gpx, elevation>>
BY DEF Idle, MapToMenu, MenuToMap, OpenLists, EndPinning, LeaveLists, SelectList,
       ArmListDeletion, LeaveList, SelectPin, ArmPinDeletion, LeaveGpx, SelectFile,
       Keep

(* The inputs that edit wait for the worker and ask it nothing.            *)
LEMMA EditingWaits ==
    ASSUME CapturePin \/ ChangeList \/ NamePin \/ DeletePin \/ ToggleClosed
           \/ ShiftPin \/ CreateList \/ DeleteList \/ CenterPin
    PROVE  MayTouch /\ UNCHANGED <<gpx, elevation>>
BY DEF CapturePin, ChangeList, NamePin, DeletePin, ToggleClosed, ShiftPin,
       CreateList, DeleteList, CenterPin, Edit

(* What an input does to the slots and the collections of such a user.     *)
LEMMA InputWaits ==
    ASSUME PinInv, Patient, Input
    PROVE  \/ UNCHANGED <<pins, saved, unsaved, gpx, elevation>>
           \/ Quiet /\ UNCHANGED gpx
              /\ (elevation' = elevation \/ elevation'.state = "requested")
           \/ /\ gpx.state = "empty" /\ UNCHANGED <<pins, saved, unsaved, elevation>>
              /\ \/ RequestGpx("refresh", 0, Nothing)
                 \/ RequestGpx("export", 0, Nothing)
           \/ /\ Quiet /\ UNCHANGED <<pins, saved, unsaved, elevation>>
              /\ RequestGpx("import", selFile, pins)
<1>1. CASE Idle \/ MapToMenu \/ MenuToMap \/ OpenLists \/ EndPinning \/ LeaveLists
           \/ SelectList \/ ArmListDeletion \/ LeaveList \/ SelectPin
           \/ ArmPinDeletion \/ LeaveGpx \/ SelectFile
  BY <1>1, LookingOnly
<1>2. CASE CapturePin \/ ChangeList \/ NamePin \/ DeletePin \/ ToggleClosed
           \/ ShiftPin \/ CreateList \/ DeleteList \/ CenterPin
  BY <1>2, EditingWaits DEF MayTouch
<1>3. CASE OpenList
  BY <1>3 DEF OpenList, Edit, MayTouch, AskElevation
<1>4. CASE StartPinning
  BY <1>4 DEF StartPinning, BeginPinning, Edit, MayTouch, Keep
<1>5. CASE OpenGpx
  <2>1. CASE Pending(gpx)
    BY <1>5, <2>1 DEF OpenGpx, Keep
  <2>2. CASE ~Pending(gpx)
    <3>1. gpx.state \in Slots
      BY DEF PinInv, RequestsOK
    <3>2. gpx.state = "empty"
      BY <1>5, <2>2, <3>1 DEF OpenGpx, Pending, Slots
    <3> QED
      BY <1>5, <2>2, <3>2 DEF OpenGpx, Keep
  <2> QED
    BY <2>1, <2>2
<1>6. CASE AskGpx
  BY <1>6 DEF AskGpx, MayTouch, Quiet
<1> QED
  BY <1>1, <1>2, <1>3, <1>4, <1>5, <1>6 DEF Input

(* What the worker answers.                                                *)
LEMMA WorkerAnswers ==
    ASSUME PinInv, FinishGpx
    PROVE  /\ gpx.state = "running" /\ worker' = "idle"
           /\ UNCHANGED <<pins, unsaved, elevation>>
           /\ gpx'.state = "answered" /\ gpx'.kind = gpx.kind
           /\ \/ gpx'.repository = Nothing /\ UNCHANGED saved
              \/ /\ gpx.kind = "import" /\ Good(gpx'.repository)
                 /\ gpx'.repository.lists[gpx'.repository.active].visible
                 /\ gpx'.repository = saved'
                    \/ (gpx'.failed = TRUE /\ UNCHANGED saved)
<1>1. worker = "gpx" /\ worker' = "idle" /\ UNCHANGED <<pins, unsaved, elevation>>
  BY DEF FinishGpx
<1>2. gpx.state = "running"
  BY <1>1 DEF PinInv, RequestsOK
<1>3. ASSUME NEW r, NEW l, NEW failed, Answer(r, l, failed)
      PROVE  gpx'.state = "answered" /\ gpx'.kind = gpx.kind
             /\ gpx'.repository = r /\ gpx'.failed = failed
  BY <1>3 DEF Answer, PinInv, RequestsOK
<1>4. CASE Refresh \/ Export
  BY <1>1, <1>2, <1>3, <1>4 DEF Refresh, Export
<1>5. CASE Import
  <2>1. gpx.kind = "import"
    BY <1>5 DEF Import
  <2>2. CASE saved' = saved /\ Answer(Nothing, listing, TRUE)
    BY <1>1, <1>2, <1>3, <2>2
  <2>3. ASSUME NEW r, NEW failed, Good(r), failed \in BOOLEAN,
               r.lists[r.active].visible, Answer(r, listing, failed),
               saved' = r \/ (saved' = saved /\ failed)
        PROVE  /\ gpx'.state = "answered" /\ gpx'.kind = gpx.kind
               /\ Good(gpx'.repository)
               /\ gpx'.repository.lists[gpx'.repository.active].visible
               /\ gpx'.repository = saved'
                  \/ (gpx'.failed = TRUE /\ UNCHANGED saved)
    <3>1. /\ gpx'.state = "answered" /\ gpx'.kind = gpx.kind
          /\ gpx'.repository = r /\ gpx'.failed = failed
      BY <1>3, <2>3
    <3>2. saved' = r \/ (saved' = saved /\ failed = TRUE)
      BY <2>3
    <3> QED
      BY <2>3, <3>1, <3>2
  <2> QED
    BY <1>1, <1>2, <1>5, <2>1, <2>2, <2>3, ImportResult
<1> QED
  BY <1>4, <1>5 DEF FinishGpx

(* An answered elevation is an edit of one list.                           *)
LEMMA ElevationPolled ==
    ASSUME PinInv, PollElevation
    PROVE  \/ pins' = pins
           \/ /\ CollectionsOK /\ Edits(pins, pins')
              /\ \E i \in 1..Len(pins.lists) :
                     pins' = SetElevations(pins, i, elevation.places)
<1>1. CollectionsOK /\ Good(pins) /\ elevation.places \in Seq(Places)
  BY DEF PinInv, CollectionsOK, RequestsOK
<1>2. CASE Keep
  BY <1>2 DEF Keep
<1>3. CASE ~Keep
  <2> DEFINE i == Min(Asked)
  <2>1. Asked # {} /\ pins' = SetElevations(pins, i, elevation.places)
    BY <1>3 DEF PollElevation
  <2>2. i \in Asked
    BY <1>1, <2>1, AskedList
  <2>3. i \in 1..Len(pins.lists)
    BY <2>2 DEF Asked
  <2> HIDE DEF i
  <2> QED
    BY <1>1, <2>1, <2>3, ElevationsSet
<1> QED
  BY <1>2, <1>3

-----------------------------------------------------------------------------
(* The slots of a patient user.                                            *)
LEMMA SlotsKeep ==
    ASSUME PinInv, SlotInv, Patient, [Next]_vars
    PROVE  SlotInv'
<1>1. CASE BeginFrame
  <2>1. UNCHANGED <<worker, gpx, elevation>>
    BY <1>1 DEF BeginFrame
  <2> QED
    BY <2>1 DEF SlotInv
<1>2. CASE PollGpx
  <2>1. UNCHANGED <<worker, elevation>> /\ gpx' \in {gpx, EmptyGpx}
    BY <1>2 DEF PollGpx
  <2> QED
    BY <2>1 DEF SlotInv, EmptyGpx
<1>3. CASE PollElevation
  <2>1. UNCHANGED <<worker, gpx>>
        /\ (elevation' = elevation
            \/ (elevation.state = "answered" /\ elevation' = EmptyElevation))
    BY <1>3 DEF PollElevation
  <2> QED
    BY <2>1 DEF SlotInv, EmptyElevation
<1>4. CASE Input
  <2>1. UNCHANGED worker
    BY <1>4 DEF Input
  <2>2. CASE UNCHANGED <<gpx, elevation>>
    BY <2>1, <2>2 DEF SlotInv
  <2>3. CASE Quiet /\ UNCHANGED gpx
             /\ (elevation' = elevation \/ elevation'.state = "requested")
    BY <2>1, <2>3 DEF SlotInv, Quiet, EmptyGpx
  <2>4. CASE /\ gpx.state = "empty" /\ UNCHANGED elevation
             /\ \/ RequestGpx("refresh", 0, Nothing)
                \/ RequestGpx("export", 0, Nothing)
    BY <2>1, <2>4 DEF SlotInv, RequestGpx
  <2>5. CASE Quiet /\ UNCHANGED elevation /\ RequestGpx("import", selFile, pins)
    BY <2>1, <2>5 DEF SlotInv, Quiet, RequestGpx
  <2> QED
    BY <1>4, <2>2, <2>3, <2>4, <2>5, InputWaits
<1>5. CASE TakeElevation
  <2>1. UNCHANGED gpx /\ elevation.state = "requested" /\ elevation'.state = "running"
    BY <1>5 DEF TakeElevation, PinInv, RequestsOK
  <2> QED
    BY <2>1 DEF SlotInv
<1>6. CASE FinishElevation
  <2>1. UNCHANGED gpx /\ worker = "elevation" /\ worker' = "idle"
    BY <1>6 DEF FinishElevation
  <2> QED
    BY <2>1 DEF SlotInv
<1>7. CASE TakeGpx
  <2>1. UNCHANGED elevation /\ worker' = "gpx" /\ gpx'.state = "running"
        /\ gpx'.kind = gpx.kind /\ gpx'.repository = gpx.repository
    BY <1>7 DEF TakeGpx, PinInv, RequestsOK
  <2> QED
    BY <2>1 DEF SlotInv
<1>8. CASE FinishGpx
  BY <1>8, WorkerAnswers DEF SlotInv
<1>9. CASE Restart
  <2>1. gpx' = EmptyGpx /\ worker' = "idle" /\ elevation' = EmptyElevation
    BY <1>9 DEF Restart
  <2> QED
    BY <2>1 DEF SlotInv, EmptyGpx, EmptyElevation
<1>10. CASE UNCHANGED vars
  BY <1>10 DEF vars, SlotInv
<1> QED
  BY <1>1, <1>2, <1>3, <1>4, <1>5, <1>6, <1>7, <1>8, <1>9, <1>10
     DEF Next, Frame, Work

(* The card and the screen of a patient user.                              *)
LEMMA DiskKeeps ==
    ASSUME PinInv, SlotInv, DiskInv, Patient, [Next]_vars
    PROVE  DiskInv'
<1>1. CASE BeginFrame
  <2>1. UNCHANGED gpx
    BY <1>1 DEF BeginFrame
  <2>2. CASE Keep
    BY <2>1, <2>2 DEF DiskInv, Imported, Told, Keep
  <2>3. CASE Quiet
    <3>1. ~Imported /\ ~Imported' /\ Told
      BY <2>1, <2>3 DEF Imported, Quiet, DiskInv
    <3> QED
      BY <1>1, <3>1, BeginFrameKeeps DEF DiskInv
  <2> QED
    BY <1>1, <2>2, <2>3 DEF BeginFrame, BeginPinning, Edit, MayTouch
<1>2. CASE PollGpx
  <2>1. UNCHANGED saved
    BY <1>2 DEF PollGpx
  <2>2. CASE gpx.state # "answered"
    <3>1. UNCHANGED <<pins, unsaved, gpx>>
      BY <1>2, <2>2 DEF PollGpx
    <3> QED
      BY <2>1, <3>1 DEF DiskInv, Imported, Told
  <2>3. CASE gpx.state = "answered"
    <3>1. gpx' = EmptyGpx
      BY <1>2, <2>3 DEF PollGpx
    <3>2. ~Imported'
      BY <3>1 DEF Imported, EmptyGpx
    <3>3. CASE gpx.repository = Nothing
      <4>1. Told /\ UNCHANGED <<pins, unsaved>>
        BY <1>2, <2>3, <3>3 DEF PollGpx, DiskInv, Imported
      <4> QED
        BY <2>1, <3>2, <4>1 DEF DiskInv, Told
    <3>4. CASE gpx.repository # Nothing
      <4>1. pins' = gpx.repository /\ unsaved' = gpx.failed
        BY <1>2, <2>3, <3>4 DEF PollGpx
      <4>2. gpx.repository = saved \/ gpx.failed = TRUE
        BY <2>3, <3>4 DEF DiskInv, Imported
      <4> QED
        BY <2>1, <3>2, <4>1, <4>2 DEF DiskInv, Told
    <3> QED
      BY <3>3, <3>4
  <2> QED
    BY <2>2, <2>3
<1>3. CASE PollElevation
  <2>1. UNCHANGED gpx
    BY <1>3 DEF PollElevation
  <2>2. CASE Keep
    BY <2>1, <2>2 DEF DiskInv, Imported, Told, Keep
  <2>3. CASE elevation.state = "answered"
    <3>1. ~Imported /\ ~Imported' /\ Told
      BY <2>1, <2>3 DEF Imported, SlotInv, DiskInv
    <3> QED
      BY <1>3, <3>1, PollElevationKeeps DEF DiskInv
  <2> QED
    BY <1>3, <2>2, <2>3 DEF PollElevation
<1>4. CASE Input
  <2>1. CASE UNCHANGED <<pins, saved, unsaved, gpx>>
    BY <2>1 DEF DiskInv, Imported, Told
  <2>2. CASE gpx.state = "empty"
             /\ (UNCHANGED gpx \/ \E kind, file, r : RequestGpx(kind, file, r))
    <3>1. ~Imported /\ ~Imported' /\ Told
      BY <2>2 DEF Imported, RequestGpx, DiskInv
    <3> QED
      BY <1>4, <3>1, InputKeeps DEF DiskInv
  <2> QED
    BY <1>4, <2>1, <2>2, InputWaits DEF Quiet
<1>5. CASE TakeElevation \/ FinishElevation \/ UNCHANGED vars
  <2>1. UNCHANGED <<pins, saved, unsaved, gpx>>
    BY <1>5 DEF TakeElevation, FinishElevation, vars
  <2> QED
    BY <2>1 DEF DiskInv, Imported, Told
<1>6. CASE TakeGpx
  <2>1. UNCHANGED <<pins, saved, unsaved>> /\ gpx.state = "requested"
        /\ gpx'.state = "running"
    BY <1>6 DEF TakeGpx, PinInv, RequestsOK
  <2> QED
    BY <2>1 DEF DiskInv, Imported, Told
<1>7. CASE FinishGpx
  <2>1. Told /\ UNCHANGED <<pins, unsaved>>
    BY <1>7, WorkerAnswers DEF DiskInv, Imported
  <2>2. CASE gpx'.repository = Nothing /\ UNCHANGED saved
    BY <2>1, <2>2 DEF DiskInv, Imported, Told
  <2>3. CASE gpx'.repository = saved' /\ Good(gpx'.repository)
    <3>1. gpx'.repository # Nothing
      BY <2>3, NothingAssumption DEF Good
    <3>2. gpx'.state = "answered"
      BY <1>7, WorkerAnswers
    <3> QED
      BY <2>3, <3>1, <3>2 DEF DiskInv, Imported
  <2>4. CASE gpx'.failed = TRUE /\ UNCHANGED saved
    BY <2>1, <2>4 DEF DiskInv, Told
  <2> QED
    BY <1>7, <2>2, <2>3, <2>4, WorkerAnswers
<1>8. CASE Restart
  <2>1. Told' /\ gpx' = EmptyGpx
    BY <1>8, StartKeeps DEF Restart
  <2> QED
    BY <2>1 DEF DiskInv, Imported, EmptyGpx
<1> QED
  BY <1>1, <1>2, <1>3, <1>4, <1>5, <1>6, <1>7, <1>8 DEF Next, Frame, Work

(* persist_pins and import_file save what they show: a user who leaves the *)
(* pins alone while the worker is busy finds them after a restart, unless  *)
(* told that they are only in memory, or an import is about to be shown.   *)
THEOREM CardFollowsScreen ==
    Patient => (Spec => []DiskFollowsMemory)
<1> SUFFICES ASSUME Patient
             PROVE  Spec => []DiskFollowsMemory
  OBVIOUS
<1>1. Init => SlotInv /\ DiskInv
  BY DEF Init, SlotInv, DiskInv, Imported, Told, EmptyGpx, EmptyElevation
<1>2. PinInv /\ SlotInv /\ DiskInv /\ [Next]_vars => SlotInv' /\ DiskInv'
  BY SlotsKeep, DiskKeeps
<1>3. DiskInv => DiskFollowsMemory
  BY DEF DiskInv, DiskFollowsMemory, Imported, Told
<1> QED
  BY <1>1, <1>2, <1>3, PinInvariant, PTL DEF Spec

-----------------------------------------------------------------------------
(* Pins are placed on the map and in the menu above it.                    *)
ShowInv ==
    /\ pinning => going \in {"map", "menu"} /\ pins.lists[pins.active].visible
    /\ Imported => gpx.repository.lists[gpx.repository.active].visible

(* An edit of the contents of a list leaves the active one drawn.          *)
LEMMA EditsShow ==
    ASSUME CollectionsOK, NEW r, Edits(pins, r), pins' = r
    PROVE  pins.lists[pins.active].visible => pins'.lists[pins'.active].visible
<1>1. pins.active \in 1..Len(pins.lists)
  BY GoodParts DEF CollectionsOK
<1> QED
  BY <1>1 DEF Edits

(* The inputs of a user who is placing pins.                               *)
LEMMA InputShows ==
    ASSUME PinInv, Input,
           pinning => going \in {"map", "menu"} /\ pins.lists[pins.active].visible
    PROVE  pinning' => going' \in {"map", "menu"}
                       /\ pins'.lists[pins'.active].visible
<1>1. CollectionsOK /\ Good(pins) /\ selList \in 1..Len(pins.lists)
      /\ pins.active \in 1..Len(pins.lists)
  BY GoodParts DEF PinInv, CollectionsOK, SelectedListExists, HasList
<1>2. CASE Idle
  BY <1>2 DEF Idle, Stay, Keep
<1>3. CASE going = mode
           /\ (MapToMenu \/ MenuToMap \/ OpenLists \/ EndPinning \/ LeaveLists
               \/ SelectList \/ ArmListDeletion \/ LeaveList \/ SelectPin
               \/ ArmPinDeletion \/ OpenGpx \/ LeaveGpx \/ SelectFile \/ AskGpx)
  <2>1. CASE MapToMenu \/ MenuToMap \/ OpenLists \/ EndPinning
    BY <2>1 DEF MapToMenu, MenuToMap, OpenLists, EndPinning, Go, Stay, Keep
  <2>2. CASE LeaveLists \/ SelectList \/ ArmListDeletion \/ OpenGpx
    BY <1>3, <2>2 DEF LeaveLists, SelectList, ArmListDeletion, OpenGpx
  <2>3. CASE LeaveList \/ SelectPin \/ ArmPinDeletion
    BY <1>3, <2>3 DEF LeaveList, SelectPin, ArmPinDeletion
  <2>4. CASE LeaveGpx \/ SelectFile \/ AskGpx
    BY <1>3, <2>4 DEF LeaveGpx, SelectFile, AskGpx
  <2> QED
    BY <1>3, <2>1, <2>2, <2>3, <2>4
<1>4. CASE going = mode
           /\ (ChangeList \/ CreateList \/ OpenList \/ DeleteList \/ NamePin
               \/ DeletePin \/ ToggleClosed \/ ShiftPin)
  <2>1. mode \in {"lists", "list"} /\ UNCHANGED pinning
    BY <1>4 DEF ChangeList, CreateList, OpenList, DeleteList, NamePin, DeletePin,
                ToggleClosed, ShiftPin
  <2> QED
    BY <1>4, <2>1
<1>5. CASE StartPinning /\ going = mode
  BY <1>1, <1>5, BeginPinningResult DEF StartPinning, Stay
<1>6. CASE CapturePin /\ going = mode
  <2>1. UNCHANGED going
    BY <1>6 DEF CapturePin, Stay
  <2>2. ASSUME CanAddPin(pins), UNCHANGED pinning,
               NEW place \in Places, NEW name \in Names,
               Edit(AddPin(pins, place, name))
        PROVE  pinning' => going' \in {"map", "menu"}
                           /\ pins'.lists[pins'.active].visible
    <3> DEFINE r == AddPin(pins, place, name)
    <3>1. Edits(pins, r) /\ pins' = r
      BY <1>1, <2>2, PinAdded DEF Edit
    <3> HIDE DEF r
    <3> QED
      BY <1>1, <2>1, <2>2, <3>1, EditsShow
  <2> QED
    BY <1>6, <2>2 DEF CapturePin
<1>7. CASE CenterPin
  <2> DEFINE r == SetActive(pins, selList)
  <2>1. Good(r) /\ r.lists = pins.lists /\ r.active = selList
    BY <1>1, ActiveChanged
  <2>2. going' = "map"
    BY <1>7 DEF CenterPin, Go
  <2> HIDE DEF r
  <2>3. CASE r.lists[selList].visible /\ pins' = r
    BY <2>1, <2>2, <2>3
  <2>4. CASE pins' = SetVisible(r, selList, TRUE)
    <3>1. selList \in 1..Len(r.lists) /\ TRUE \in BOOLEAN
      BY <1>1, <2>1
    <3> DEFINE r2 == SetVisible(r, selList, TRUE)
    <3>2. Good(r) /\ r.active = selList
      BY <2>1
    <3>3. r2.active = r.active /\ r2.lists[selList].visible = TRUE
      BY <3>1, <3>2, VisibleChanged, Zenon
    <3>4. pins' = r2
      BY <2>4
    <3> HIDE DEF r2
    <3>5. pins'.active = selList /\ pins'.lists[pins'.active].visible
      BY <3>2, <3>3, <3>4
    <3> QED
      BY <2>2, <3>5
  <2> QED
    BY <1>7, <2>3, <2>4 DEF CenterPin, Edit, r
<1> QED
  BY <1>2, <1>3, <1>4, <1>5, <1>6, <1>7 DEF Input

(* No step of a patient user's program hides the list pins go to.          *)
LEMMA ShowKeeps ==
    ASSUME PinInv, SlotInv, ShowInv, Patient, [Next]_vars
    PROVE  ShowInv'
<1>1. CASE BeginFrame
  <2>1. UNCHANGED <<gpx, going>>
    BY <1>1 DEF BeginFrame, Transition
  <2>2. CASE UNCHANGED pinning /\ Keep
    BY <2>1, <2>2 DEF ShowInv, Imported, Keep
  <2>3. CASE going = "map" /\ BeginPinning
    BY <2>1, <2>3, BeginPinningResult DEF ShowInv, Imported, PinInv
  <2> QED
    BY <1>1, <2>2, <2>3 DEF BeginFrame
<1>2. CASE PollGpx
  <2>1. UNCHANGED <<pinning, going>>
    BY <1>2 DEF PollGpx
  <2>2. CASE Imported
    <3>1. pins' = gpx.repository /\ gpx' = EmptyGpx
      BY <1>2, <2>2 DEF PollGpx, Imported
    <3> QED
      BY <2>1, <2>2, <3>1 DEF ShowInv, Imported, EmptyGpx
  <2>3. CASE ~Imported
    <3>1. UNCHANGED pins /\ ~Imported'
      BY <1>2, <2>3 DEF PollGpx, Imported, EmptyGpx
    <3> QED
      BY <2>1, <3>1 DEF ShowInv
  <2> QED
    BY <2>2, <2>3
<1>3. CASE PollElevation
  <2>1. UNCHANGED <<gpx, pinning, going>>
    BY <1>3 DEF PollElevation, screenVars
  <2>2. pins' = pins \/ (Edits(pins, pins') /\ CollectionsOK)
    BY <1>3, ElevationPolled
  <2>3. CASE pins' = pins
    BY <2>1, <2>3 DEF ShowInv, Imported
  <2>4. CASE Edits(pins, pins') /\ CollectionsOK
    BY <2>1, <2>4, EditsShow DEF ShowInv, Imported
  <2> QED
    BY <2>2, <2>3, <2>4
<1>4. CASE Input
  <2>1. Imported' => Imported /\ UNCHANGED gpx
    BY <1>4, InputWaits DEF Imported, RequestGpx
  <2>2. Imported' => gpx'.repository.lists[gpx'.repository.active].visible
    BY <2>1 DEF ShowInv
  <2> QED
    BY <1>4, <2>2, InputShows DEF ShowInv
<1>5. CASE TakeElevation \/ FinishElevation \/ UNCHANGED vars
  <2>1. UNCHANGED <<pins, gpx, pinning, going>>
    BY <1>5 DEF TakeElevation, FinishElevation, vars, screenVars
  <2> QED
    BY <2>1 DEF ShowInv, Imported
<1>6. CASE TakeGpx
  <2>1. UNCHANGED <<pins, pinning, going>> /\ gpx'.state = "running"
    BY <1>6 DEF TakeGpx, PinInv, RequestsOK, screenVars
  <2> QED
    BY <2>1 DEF ShowInv, Imported
<1>7. CASE FinishGpx
  <2>1. UNCHANGED <<pins, pinning, going>>
    BY <1>7 DEF FinishGpx, screenVars
  <2>2. Imported' => gpx'.repository.lists[gpx'.repository.active].visible
    BY <1>7, WorkerAnswers DEF Imported
  <2> QED
    BY <2>1, <2>2 DEF ShowInv
<1>8. CASE Restart
  <2>1. pinning' = FALSE /\ gpx' = EmptyGpx
    BY <1>8 DEF Restart
  <2> QED
    BY <2>1 DEF ShowInv, Imported, EmptyGpx
<1> QED
  BY <1>1, <1>2, <1>3, <1>4, <1>5, <1>6, <1>7, <1>8 DEF Next, Frame, Work

(* begin_pinning, CROSS on the list screen and import_file show the active *)
(* list, the screens of the lists end pin mode: a patient user places pins *)
(* only where they are drawn.                                              *)
THEOREM PlacedWhereDrawn ==
    Patient => (Spec => []PinModeShowsList)
<1> SUFFICES ASSUME Patient
             PROVE  Spec => []PinModeShowsList
  OBVIOUS
<1>1. Init => SlotInv /\ ShowInv
  BY DEF Init, SlotInv, ShowInv, Imported, EmptyGpx, EmptyElevation
<1>2. PinInv /\ SlotInv /\ ShowInv /\ [Next]_vars => SlotInv' /\ ShowInv'
  BY SlotsKeep, ShowKeeps
<1>3. ShowInv => PinModeShowsList
  BY DEF ShowInv, PinModeShowsList
<1> QED
  BY <1>1, <1>2, <1>3, PinInvariant, PTL DEF Spec

-----------------------------------------------------------------------------
(* How many pins the lists have after an edit.                             *)
SameCounts(r, r2) ==
    \A k \in 1..Len(r.lists) : Len(r2.lists[k].pins) = Len(r.lists[k].pins)

(* The lists of a repository in which one was replaced.                    *)
LEMMA ListAt ==
    ASSUME NEW r, Good(r), NEW i \in 1..Len(r.lists), NEW list,
           NEW k \in 1..Len(r.lists)
    PROVE  [r EXCEPT !.lists = [r.lists EXCEPT ![i] = list]].lists[k]
               = IF k = i THEN list ELSE r.lists[k]
<1>1. [r EXCEPT !.lists = [r.lists EXCEPT ![i] = list]] = With(r, i, list, r.nextPin)
  BY ListsInPlace
<1>2. With(r, i, list, r.nextPin).lists = [r.lists EXCEPT ![i] = list]
  BY DEF With
<1>3. r.lists \in [1..Len(r.lists) -> PinLists]
  BY GoodParts, LenProperties
<1> QED
  BY <1>1, <1>2, <1>3

(* A list that is drawn, closed or opened keeps its pins.                  *)
LEMMA FlagsKeepPins ==
    ASSUME NEW r, Good(r), NEW i \in 1..Len(r.lists), NEW flag
    PROVE  /\ SetVisible(r, i, flag).lists[i].pins = r.lists[i].pins
           /\ SetClosed(r, i, flag).lists[i].pins = r.lists[i].pins
<1> DEFINE shown == [r.lists[i] EXCEPT !.visible = flag]
           closed == [r.lists[i] EXCEPT !.closed = flag]
<1>1. r.lists[i] \in PinLists
  BY GoodParts
<1>2. shown.pins = r.lists[i].pins /\ closed.pins = r.lists[i].pins
  BY <1>1 DEF PinLists
<1>3. SetVisible(r, i, flag) = [r EXCEPT !.lists = [r.lists EXCEPT ![i] = shown]]
  BY DEF SetVisible
<1>4. SetClosed(r, i, flag) = [r EXCEPT !.lists = [r.lists EXCEPT ![i] = closed]]
  BY DEF SetClosed
<1> HIDE DEF shown, closed
<1> QED
  BY <1>2, <1>3, <1>4, ListAt

(* Other pins, as many as before.                                          *)
LEMMA PinsCounted ==
    ASSUME NEW r, Good(r), NEW i \in 1..Len(r.lists), NEW pinSeq
    PROVE  /\ SetPins(r, i, pinSeq).lists[i].pins = pinSeq
           /\ Len(pinSeq) = Len(r.lists[i].pins) => SameCounts(r, SetPins(r, i, pinSeq))
<1> DEFINE list == [r.lists[i] EXCEPT !.pins = pinSeq]
<1>1. r.lists[i] \in PinLists
  BY GoodParts
<1>2. list.pins = pinSeq
  BY <1>1 DEF PinLists
<1>3. SetPins(r, i, pinSeq) = [r EXCEPT !.lists = [r.lists EXCEPT ![i] = list]]
  BY DEF SetPins
<1> HIDE DEF list
<1>4. \A k \in 1..Len(r.lists) :
          SetPins(r, i, pinSeq).lists[k] = IF k = i THEN list ELSE r.lists[k]
  BY <1>3, ListAt
<1> QED
  BY <1>2, <1>4 DEF SameCounts

(* A name, a swap and elevations leave the number of pins.                 *)
LEMMA CountsKept ==
    ASSUME NEW r, Good(r), NEW i \in 1..Len(r.lists)
    PROVE  /\ \A j \in 1..Len(r.lists[i].pins), name \in Names :
                  SameCounts(r, RenamePin(r, i, j, name))
           /\ \A j, t \in 1..Len(r.lists[i].pins) :
                  SameCounts(r, MovePin(r, i, j, t))
           /\ \A heights : SameCounts(r, SetElevations(r, i, heights))
<1> DEFINE old == r.lists[i].pins
<1>1. old \in Seq(Pins) /\ Len(old) \in Nat
  BY GoodParts
<1>2. ASSUME NEW j \in 1..Len(old), NEW name \in Names
      PROVE  SameCounts(r, RenamePin(r, i, j, name))
  <2> DEFINE pin == [old[j] EXCEPT !.name = name]
             new == [old EXCEPT ![j] = pin]
  <2>1. old[j] \in Pins
    BY <1>1, ElementOfSeq
  <2>2. pin \in Pins
    BY <2>1 DEF Pins
  <2>3. RenamePin(r, i, j, name) = SetPins(r, i, new)
    BY DEF RenamePin, SetPins
  <2> HIDE DEF pin
  <2>4. Len(new) = Len(old)
    BY <1>1, <2>2, ExceptSeq
  <2> QED
    BY <2>3, <2>4, PinsCounted
<1>3. ASSUME NEW j \in 1..Len(old), NEW t \in 1..Len(old)
      PROVE  SameCounts(r, MovePin(r, i, j, t))
  <2> DEFINE first == [old EXCEPT ![j] = old[t]]
             new == [first EXCEPT ![t] = old[j]]
  <2>1. old[j] \in Pins /\ old[t] \in Pins
    BY <1>1, ElementOfSeq
  <2>2. MovePin(r, i, j, t) = SetPins(r, i, new)
    BY DEF MovePin, SetPins
  <2>3. first \in Seq(Pins) /\ Len(first) = Len(old)
    BY <1>1, <2>1, ExceptSeq
  <2> HIDE DEF first
  <2>4. Len(new) = Len(old)
    BY <2>1, <2>3, ExceptSeq
  <2> QED
    BY <2>2, <2>4, PinsCounted
<1>4. ASSUME NEW heights
      PROVE  SameCounts(r, SetElevations(r, i, heights))
  <2> DEFINE new == [k \in 1..Len(old) |-> IF k \in 1..Len(heights)
                                           THEN [old[k] EXCEPT !.elevation = heights[k]]
                                           ELSE old[k]]
  <2>1. SetElevations(r, i, heights) = SetPins(r, i, new)
    BY DEF SetElevations, SetPins
  <2>2. DOMAIN new = 1..Len(old)
    OBVIOUS
  <2> HIDE DEF new
  <2>3. Len(new) = Len(old)
    BY <1>1, <2>2, LenProperties
  <2> QED
    BY <2>1, <2>3, PinsCounted
<1> QED
  BY <1>2, <1>3, <1>4

(* A removed pin is one less.                                              *)
LEMMA OnePinLess ==
    ASSUME NEW r, Good(r), NEW i, NEW j, HasPin(r, i, j)
    PROVE  Len(RemovePin(r, i, j).lists[i].pins) = Len(r.lists[i].pins) - 1
<1> DEFINE old == r.lists[i]
           fewer == RemoveAt(old.pins, j)
           closed == old.closed /\ Len(old.pins) > ClosingPins
           opened == [old EXCEPT !.closed = closed]
           list == [opened EXCEPT !.pins = RemoveAt(opened.pins, j)]
           r1 == [r EXCEPT !.lists = [r.lists EXCEPT ![i] = opened]]
           r2 == [r1 EXCEPT !.lists = [r1.lists EXCEPT ![i] =
                      [r1.lists[i] EXCEPT !.pins = RemoveAt(r1.lists[i].pins, j)]]]
<1>1. i \in 1..Len(r.lists) /\ j \in 1..Len(old.pins)
  BY DEF HasPin, HasList
<1>2. old \in PinLists /\ old.pins \in Seq(Pins)
      /\ r.lists \in [1..Len(r.lists) -> PinLists]
      /\ r = [lists |-> r.lists, active |-> r.active,
              nextList |-> r.nextList, nextPin |-> r.nextPin]
  BY <1>1, GoodParts, LenProperties
<1>3. RemovePin(r, i, j) = r2
  BY DEF RemovePin
<1>4. opened.pins = old.pins /\ DOMAIN opened = DOMAIN old /\ list.pins = fewer
  BY <1>2 DEF PinLists
<1> HIDE DEF opened, list, fewer
<1>5. r1.lists = [r.lists EXCEPT ![i] = opened] /\ r1.lists[i] = opened
  BY <1>1, <1>2
<1>6. r2.lists = [r1.lists EXCEPT ![i] =
                      [r1.lists[i] EXCEPT !.pins = RemoveAt(r1.lists[i].pins, j)]]
  BY <1>2
<1>7. r2.lists[i] = list
  BY <1>1, <1>2, <1>5, <1>6 DEF list
<1>8. Len(fewer) = Len(old.pins) - 1
  BY <1>1, <1>2, RemovedAt DEF fewer
<1> QED
  BY <1>3, <1>4, <1>7, <1>8

-----------------------------------------------------------------------------
(* The selected pin while the screen of a list is shown or comes.          *)
SelInv ==
    /\ mode = "list" \/ going = "list" =>
           SelectedPins = <<>> \/ selPin \in 1..Len(SelectedPins)
    /\ gpx.kind = "import" => mode # "list" /\ going # "list"

(* The number of pins decides whether the selected one exists.             *)
LEMMA SelectionStays ==
    ASSUME PinInv, SelInv, Good(pins'), Len(pins'.lists) = Len(pins.lists),
           SameCounts(pins, pins') \/ pins' = pins
               \/ pins'.lists[selList].pins = pins.lists[selList].pins,
           UNCHANGED <<selList, selPin>>, mode = "list" \/ going = "list"
    PROVE  SelectedPins' = <<>> \/ selPin' \in 1..Len(SelectedPins')
<1>1. selList \in 1..Len(pins.lists) /\ selList \in 1..Len(pins'.lists)
  BY DEF PinInv, CollectionsOK, SelectedListExists, HasList
<1>2. Len(pins'.lists[selList].pins) = Len(pins.lists[selList].pins)
  BY <1>1 DEF SameCounts
<1>3. pins'.lists[selList].pins \in Seq(Pins) /\ pins.lists[selList].pins \in Seq(Pins)
  BY <1>1, GoodParts DEF PinInv, CollectionsOK
<1>4. CASE SelectedPins = <<>>
  BY <1>2, <1>3, <1>4, EmptySeq DEF SelectedPins
<1>5. CASE selPin \in 1..Len(SelectedPins)
  BY <1>2, <1>5 DEF SelectedPins
<1> QED
  BY <1>4, <1>5 DEF SelInv

(* The inputs on the screen of a list keep the selected pin.               *)
LEMMA ListScreenSelects ==
    ASSUME PinInv, SelInv, going = "list", mode = "list",
           \/ LeaveList \/ SelectPin \/ CenterPin \/ NamePin \/ ArmPinDeletion
           \/ DeletePin \/ ToggleClosed \/ ShiftPin
    PROVE  SelectedPins' = <<>> \/ selPin' \in 1..Len(SelectedPins')
<1>1. CollectionsOK /\ Good(pins) /\ selList \in 1..Len(pins.lists)
      /\ SelectedPins \in Seq(Pins) /\ Len(SelectedPins) \in Nat
  BY GoodParts DEF PinInv, CollectionsOK, SelectedListExists, HasList, SelectedPins
<1>2. CASE LeaveList \/ ArmPinDeletion
  BY <1>2 DEF LeaveList, ArmPinDeletion, Keep, SelectedPins, SelInv
<1>3. CASE SelectPin
  <2> DEFINE n == Len(SelectedPins)
  <2>1. SelectedPins # <<>> /\ selPin' \in Around(selPin, n) /\ UNCHANGED <<pins, selList>>
    BY <1>3 DEF SelectPin, Keep
  <2>2. n \in Nat \ {0} /\ selPin \in 1..n
    BY <1>1, <2>1, EmptySeq DEF SelInv
  <2> HIDE DEF n
  <2>3. selPin' \in 1..n
    BY <2>1, <2>2, MovesAmongRows
  <2> QED
    BY <2>1, <2>3 DEF SelectedPins, n
<1>4. CASE CenterPin
  <2> DEFINE r == SetActive(pins, selList)
  <2>1. Good(r) /\ r.lists = pins.lists
    BY <1>1, ActiveChanged
  <2>2. UNCHANGED <<selList, selPin>>
    BY <1>4 DEF CenterPin
  <2> HIDE DEF r
  <2>3. CASE pins' = r
    BY <2>1, <2>2, <2>3 DEF SelectedPins, SelInv
  <2>4. CASE pins' = SetVisible(r, selList, TRUE)
    <3> DEFINE t == TRUE
               r2 == SetVisible(r, selList, t)
    <3>1. selList \in 1..Len(r.lists) /\ pins' = r2
      BY <1>1, <2>1, <2>4
    <3> HIDE DEF t
    <3>2. r2.lists[selList].pins = r.lists[selList].pins
      BY <2>1, <3>1, FlagsKeepPins
    <3> HIDE DEF r2
    <3>3. pins'.lists[selList].pins = pins.lists[selList].pins
      BY <2>1, <3>1, <3>2
    <3> QED
      BY <2>2, <3>3 DEF SelectedPins, SelInv
  <2> QED
    BY <1>4, <2>3, <2>4 DEF CenterPin, Edit, r
<1>5. CASE NamePin
  <2>1. PICK name \in Names : Edit(RenamePin(pins, selList, selPin, name))
    BY <1>5 DEF NamePin
  <2> DEFINE r == RenamePin(pins, selList, selPin, name)
  <2>2. UNCHANGED <<selList, selPin>> /\ HasPin(pins, selList, selPin)
    BY <1>5 DEF NamePin, PinSelected
  <2>3. Edits(pins, r) /\ SameCounts(pins, r) /\ pins' = r
    BY <1>1, <2>1, <2>2, PinRenamed, CountsKept DEF HasPin, HasList, Edit
  <2> HIDE DEF r
  <2> QED
    BY <2>2, <2>3, SelectionStays DEF Edits
<1>6. CASE DeletePin
  <2> DEFINE r == RemovePin(pins, selList, selPin)
             n == Len(SelectedPins)
  <2>1. UNCHANGED selList /\ HasPin(pins, selList, selPin) /\ pins' = r
    BY <1>6 DEF DeletePin, PinSelected, Edit
  <2>2. Edits(pins, r) /\ Len(r.lists[selList].pins) = n - 1
    BY <1>1, <2>1, PinRemoved, OnePinLess DEF SelectedPins
  <2>3. selPin \in 1..n
    BY <2>1 DEF HasPin, SelectedPins
  <2>4. r.lists[selList].pins \in Seq(Pins)
    BY <1>1, <2>2, GoodParts DEF Edits
  <2>5. SelectedPins' = r.lists[selList].pins
    BY <2>1 DEF SelectedPins
  <2> HIDE DEF r
  <2>6. CASE n = 1
    BY <2>2, <2>4, <2>5, <2>6, EmptySeq
  <2>7. CASE n # 1
    <3>1. selPin' = Clamped(selPin, n - 1)
      BY <1>6, <2>7 DEF DeletePin
    <3>2. n \in Nat
      BY <1>1
    <3> HIDE DEF n
    <3>3. n - 1 \in Nat \ {0} /\ selPin \in Nat \ {0}
      BY <2>3, <2>7, <3>2
    <3>4. Clamped(selPin, n - 1) \in 1..n - 1
      BY <3>3, MovesAmongRows
    <3> QED
      BY <2>2, <2>5, <3>1, <3>4
  <2> QED
    BY <2>6, <2>7
<1>7. CASE ToggleClosed
  <2> DEFINE closed == ~pins.lists[selList].closed
             r == SetClosed(pins, selList, closed)
  <2>1. /\ closed \in BOOLEAN /\ pins' = r /\ UNCHANGED <<selList, selPin>>
        /\ closed => Len(pins.lists[selList].pins) >= ClosingPins
    BY <1>7 DEF ToggleClosed, SelectedPins, Edit
  <2> HIDE DEF closed
  <2>2. Edits(pins, r) /\ r.lists[selList].pins = pins.lists[selList].pins
    BY <1>1, <2>1, ClosedChanged, FlagsKeepPins
  <2> HIDE DEF r
  <2> QED
    BY <2>1, <2>2, SelectionStays DEF Edits
<1>8. CASE ShiftPin
  <2>1. PICK t : /\ CanMovePin(pins, selList, selPin, t) /\ selPin' = t
                 /\ Edit(MovePin(pins, selList, selPin, t))
    BY <1>8 DEF ShiftPin
  <2> DEFINE r == MovePin(pins, selList, selPin, t)
  <2>2. selPin \in 1..Len(SelectedPins) /\ t \in 1..Len(SelectedPins)
        /\ UNCHANGED selList
    BY <1>8, <2>1 DEF CanMovePin, HasPin, SelectedPins, ShiftPin
  <2>3. SameCounts(pins, r) /\ pins' = r
    BY <1>1, <2>1, <2>2, CountsKept DEF Edit, SelectedPins
  <2> HIDE DEF r
  <2>4. Len(SelectedPins') = Len(SelectedPins)
    BY <1>1, <2>2, <2>3 DEF SameCounts, SelectedPins
  <2> QED
    BY <2>1, <2>2, <2>4
<1> QED
  BY <1>2, <1>3, <1>4, <1>5, <1>6, <1>7, <1>8

(* Inputs of a patient user keep the selected pin.                         *)
LEMMA InputSelects ==
    ASSUME PinInv, SlotInv, SelInv, Patient, Input
    PROVE  SelInv'
<1>1. CollectionsOK /\ Good(pins) /\ selList \in 1..Len(pins.lists)
  BY DEF PinInv, CollectionsOK, SelectedListExists, HasList
<1>2. CASE Idle
  BY <1>2 DEF Idle, Stay, Keep, SelInv, SelectedPins
<1>3. CASE going = mode /\ (MapToMenu \/ MenuToMap \/ OpenLists \/ StartPinning
                            \/ EndPinning \/ CapturePin \/ LeaveLists \/ SelectList
                            \/ ChangeList \/ CreateList \/ ArmListDeletion
                            \/ DeleteList \/ OpenGpx \/ LeaveGpx \/ SelectFile
                            \/ AskGpx)
  <2>1. mode # "list" /\ mode' # "list" /\ going' # "list"
    <3>1. CASE MapToMenu \/ MenuToMap \/ OpenLists
      BY <3>1 DEF MapToMenu, MenuToMap, OpenLists, Go
    <3>2. CASE StartPinning \/ EndPinning \/ CapturePin
      BY <1>3, <3>2 DEF StartPinning, EndPinning, CapturePin, Stay
    <3>3. CASE LeaveLists
      BY <3>3 DEF LeaveLists, Go, PinInv, ScreenOK
    <3>4. CASE SelectList \/ ChangeList \/ CreateList \/ ArmListDeletion \/ DeleteList
      BY <1>3, <3>4 DEF SelectList, ChangeList, CreateList, ArmListDeletion,
                        DeleteList, Stay
    <3>5. CASE OpenGpx \/ LeaveGpx \/ SelectFile \/ AskGpx
      BY <1>3, <3>5 DEF OpenGpx, LeaveGpx, SelectFile, AskGpx, Go, Stay
    <3> QED
      BY <1>3, <3>1, <3>2, <3>3, <3>4, <3>5
  <2> QED
    BY <2>1 DEF SelInv
<1>4. CASE OpenList
  <2>1. Quiet /\ UNCHANGED <<gpx, selList>> /\ selPin' = 1
        /\ pins' = SetActive(pins, selList)
    BY <1>4 DEF OpenList, Edit, MayTouch
  <2>2. pins'.lists = pins.lists
    BY <1>1, <2>1, ActiveChanged
  <2>3. gpx'.kind # "import"
    BY <2>1 DEF SlotInv, Quiet, EmptyGpx
  <2>4. SelectedPins' = SelectedPins /\ SelectedPins \in Seq(Pins)
    BY <1>1, <2>1, <2>2, GoodParts DEF SelectedPins
  <2>5. SelectedPins' = <<>> \/ selPin' \in 1..Len(SelectedPins')
    <3> DEFINE s == SelectedPins'
    <3>1. s \in Seq(Pins) /\ selPin' = 1
      BY <2>1, <2>4
    <3> HIDE DEF s
    <3>2. s = <<>> \/ Len(s) \in Nat \ {0}
      BY <3>1, EmptySeq
    <3>3. s = <<>> \/ selPin' \in 1..Len(s)
      BY <3>1, <3>2
    <3> QED
      BY <3>3 DEF s
  <2> QED
    BY <2>3, <2>5 DEF SelInv
<1>5. CASE /\ going = mode
           /\ \/ LeaveList \/ SelectPin \/ CenterPin \/ NamePin \/ ArmPinDeletion
              \/ DeletePin \/ ToggleClosed \/ ShiftPin
  <2>1. mode = "list" /\ going = "list" /\ UNCHANGED gpx
    BY <1>5 DEF LeaveList, SelectPin, CenterPin, NamePin, ArmPinDeletion, DeletePin,
                ToggleClosed, ShiftPin
  <2>2. gpx'.kind # "import"
    BY <2>1 DEF SelInv
  <2> QED
    BY <1>5, <2>1, <2>2, ListScreenSelects DEF SelInv
<1> QED
  BY <1>2, <1>3, <1>4, <1>5 DEF Input

(* No step of a patient user's program loses the selected pin.             *)
LEMMA SelectKeeps ==
    ASSUME PinInv, SlotInv, SelInv, Patient, [Next]_vars
    PROVE  SelInv'
<1>1. CASE BeginFrame
  <2>1. UNCHANGED <<gpx, going, selList, selPin>> /\ mode' \in {mode, going}
    BY <1>1 DEF BeginFrame, Transition
  <2>2. CASE Keep
    BY <2>1, <2>2 DEF SelInv, Keep, SelectedPins
  <2>3. CASE mode' = "map" /\ going = "map"
    BY <2>1, <2>3 DEF SelInv
  <2> QED
    BY <1>1, <2>2, <2>3 DEF BeginFrame
<1>2. CASE PollGpx
  <2>1. UNCHANGED <<mode, going, selPin>>
    BY <1>2 DEF PollGpx
  <2>2. CASE Imported
    <3>1. gpx.kind = "import" /\ gpx' = EmptyGpx
      BY <1>2, <2>2 DEF SlotInv, Imported, PollGpx
    <3> QED
      BY <2>1, <3>1 DEF SelInv, EmptyGpx
  <2>3. CASE ~Imported
    <3>1. UNCHANGED <<pins, selList>> /\ gpx' \in {gpx, EmptyGpx}
      BY <1>2, <2>3 DEF PollGpx, Imported
    <3> QED
      BY <2>1, <3>1 DEF SelInv, EmptyGpx, SelectedPins
  <2> QED
    BY <2>2, <2>3
<1>3. CASE PollElevation
  <2>1. UNCHANGED <<gpx, mode, going, selList, selPin>>
    BY <1>3 DEF PollElevation, screenVars
  <2>2. CASE pins' = pins
    BY <2>1, <2>2 DEF SelInv, SelectedPins
  <2>3. ASSUME CollectionsOK, Edits(pins, pins'), NEW i \in 1..Len(pins.lists),
               pins' = SetElevations(pins, i, elevation.places)
        PROVE  SelInv'
    <3>1. SameCounts(pins, pins')
      BY <2>3, CountsKept DEF CollectionsOK
    <3> QED
      BY <2>1, <2>3, <3>1, SelectionStays DEF SelInv, Edits
  <2> QED
    BY <1>3, <2>2, <2>3, ElevationPolled
<1>4. CASE Input
  BY <1>4, InputSelects
<1>5. CASE TakeElevation \/ FinishElevation \/ UNCHANGED vars
  <2>1. UNCHANGED <<pins, gpx, mode, going, selList, selPin>>
    BY <1>5 DEF TakeElevation, FinishElevation, vars, screenVars
  <2> QED
    BY <2>1 DEF SelInv, SelectedPins
<1>6. CASE TakeGpx \/ FinishGpx
  <2>1. UNCHANGED <<pins, mode, going, selList, selPin>>
    BY <1>6 DEF TakeGpx, FinishGpx, screenVars
  <2>2. gpx'.kind = gpx.kind
    BY <1>6, WorkerAnswers DEF TakeGpx, PinInv, RequestsOK
  <2> QED
    BY <2>1, <2>2 DEF SelInv, SelectedPins
<1>7. CASE Restart
  <2>1. mode' = "map" /\ going' = "map"
    BY <1>7 DEF Restart
  <2> QED
    BY <2>1 DEF SelInv
<1> QED
  BY <1>1, <1>2, <1>3, <1>4, <1>5, <1>6, <1>7 DEF Next, Frame, Work

(* CROSS and TRIANGLE on the screen of a list read pins[selected_pin_]     *)
(* without a test: no deletion, swap, import or elevation of a patient     *)
(* user leaves the selection beyond the pins.                              *)
THEOREM PinSelectedExists ==
    Patient => (Spec => []SelectedPinExists)
<1> SUFFICES ASSUME Patient
             PROVE  Spec => []SelectedPinExists
  OBVIOUS
<1>1. Init => SlotInv /\ SelInv
  BY DEF Init, SlotInv, SelInv, EmptyGpx, EmptyElevation
<1>2. PinInv /\ SlotInv /\ SelInv /\ [Next]_vars => SlotInv' /\ SelInv'
  BY SlotsKeep, SelectKeeps
<1>3. PinInv /\ SelInv => SelectedPinExists
  BY DEF PinInv, CollectionsOK, SelectedListExists, HasList, HasPin, SelInv,
         SelectedPinExists, PinSelected, SelectedPins
<1> QED
  BY <1>1, <1>2, <1>3, PinInvariant, PTL DEF Spec

-----------------------------------------------------------------------------
(* The lists there were are the first of the lists after an import.        *)
LEMMA TrackAppended ==
    ASSUME NEW r, Good(r), NEW name, NEW style, NEW track
    PROVE  IsPrefix(r.lists, ImportTrack(r, name, style, track).lists)
<1>1. r.lists \in Seq(PinLists)
  BY GoodParts
<1>2. ImportTrack(r, name, style, track).lists
          = Append(r.lists, TrackList(r, name, style, track))
  BY ImportTrackAs DEF Grown
<1> QED
  BY <1>1, <1>2, AppendKeeps

(* The copy that is imported into is what the screen shows, and what is    *)
(* handed back has its lists.                                              *)
AddInv ==
    /\ gpx.kind = "import" /\ Pending(gpx) => gpx.repository = pins
    /\ Imported => IsPrefix(pins.lists, gpx.repository.lists)

(* What the worker hands back has the lists of the copy it was given.      *)
LEMMA WorkerAdds ==
    ASSUME PinInv, FinishGpx
    PROVE  \/ gpx'.repository = Nothing
           \/ /\ gpx.kind = "import"
              /\ IsPrefix(gpx.repository.lists, gpx'.repository.lists)
<1>1. worker = "gpx"
  BY DEF FinishGpx
<1>2. ASSUME NEW r, NEW l, NEW failed, Answer(r, l, failed)
      PROVE  gpx'.repository = r
  BY <1>2 DEF Answer, PinInv, RequestsOK
<1>3. CASE Refresh \/ Export
  BY <1>2, <1>3 DEF Refresh, Export
<1>4. CASE Import
  <2>1. gpx.kind = "import" /\ Good(gpx.repository)
    BY <1>1, <1>4 DEF Import, Pending, PinInv, RequestsOK
  <2>2. CASE Answer(Nothing, listing, TRUE)
    BY <1>2, <2>2
  <2>3. ASSUME NEW f \in Files, NEW failed,
               Answer(ImportTrack(gpx.repository, listing[gpx.file], Flagged,
                                  BoundedPoints(Parsed(f))), listing, failed)
        PROVE  IsPrefix(gpx.repository.lists, gpx'.repository.lists)
    BY <1>2, <2>1, <2>3, TrackAppended
  <2> QED
    BY <1>4, <2>1, <2>2, <2>3 DEF Import
<1> QED
  BY <1>3, <1>4 DEF FinishGpx

(* What an input does to the slot of an import.                            *)
LEMMA InputRequests ==
    ASSUME Input
    PROVE  \/ UNCHANGED gpx
           \/ RequestGpx("refresh", 0, Nothing) \/ RequestGpx("export", 0, Nothing)
           \/ ~Pending(gpx) /\ RequestGpx("import", selFile, pins)
<1>1. CASE Idle \/ MapToMenu \/ MenuToMap \/ OpenLists \/ EndPinning \/ LeaveLists
           \/ SelectList \/ ArmListDeletion \/ LeaveList \/ SelectPin
           \/ ArmPinDeletion \/ LeaveGpx \/ SelectFile
  BY <1>1, LookingOnly
<1>2. CASE CapturePin \/ ChangeList \/ NamePin \/ DeletePin \/ ToggleClosed
           \/ ShiftPin \/ CreateList \/ DeleteList \/ CenterPin
  BY <1>2, EditingWaits
<1>3. CASE OpenList \/ StartPinning
  BY <1>3 DEF OpenList, StartPinning
<1>4. CASE OpenGpx \/ AskGpx
  BY <1>4 DEF OpenGpx, AskGpx
<1> QED
  BY <1>1, <1>2, <1>3, <1>4 DEF Input

(* No step of a patient user's program changes the lists under an import.  *)
LEMMA AddKeeps ==
    ASSUME PinInv, SlotInv, AddInv, Patient, [Next]_vars
    PROVE  AddInv'
<1>1. CASE BeginFrame
  <2>1. UNCHANGED gpx
    BY <1>1 DEF BeginFrame
  <2>2. CASE Keep
    BY <2>1, <2>2 DEF AddInv, Imported, Pending, Keep
  <2>3. CASE Quiet
    BY <2>1, <2>3 DEF AddInv, Imported, Pending, Quiet
  <2> QED
    BY <1>1, <2>2, <2>3 DEF BeginFrame, BeginPinning, Edit, MayTouch
<1>2. CASE PollGpx
  <2>1. UNCHANGED <<gpx, pins>> \/ gpx' = EmptyGpx
    BY <1>2 DEF PollGpx
  <2> QED
    BY <2>1 DEF AddInv, Imported, Pending, EmptyGpx
<1>3. CASE PollElevation
  <2>1. UNCHANGED gpx
    BY <1>3 DEF PollElevation
  <2>2. CASE elevation.state # "answered"
    BY <1>3, <2>1, <2>2 DEF PollElevation, Keep, AddInv, Imported, Pending
  <2>3. CASE elevation.state = "answered"
    <3>1. gpx.kind # "import" /\ gpx.repository = Nothing
      BY <2>3 DEF SlotInv
    <3> QED
      BY <2>1, <3>1 DEF AddInv, Imported, Pending
  <2> QED
    BY <2>2, <2>3
<1>4. CASE Input
  <2>1. CASE UNCHANGED <<pins, gpx>>
    BY <2>1 DEF AddInv, Imported, Pending
  <2>2. CASE Quiet /\ UNCHANGED gpx
    BY <2>2 DEF AddInv, Imported, Pending, Quiet
  <2>3. CASE RequestGpx("refresh", 0, Nothing) \/ RequestGpx("export", 0, Nothing)
    BY <2>3 DEF AddInv, Imported, Pending, RequestGpx
  <2>4. CASE UNCHANGED pins /\ RequestGpx("import", selFile, pins)
    BY <2>4 DEF AddInv, Imported, Pending, RequestGpx
  <2> QED
    BY <1>4, <2>1, <2>2, <2>3, <2>4, InputWaits
<1>5. CASE TakeElevation \/ FinishElevation
  <2>1. UNCHANGED <<pins, gpx>>
    BY <1>5 DEF TakeElevation, FinishElevation
  <2> QED
    BY <2>1 DEF AddInv, Imported, Pending
<1>6. CASE TakeGpx
  <2>1. /\ UNCHANGED pins /\ gpx.state = "requested" /\ gpx'.state = "running"
        /\ gpx'.kind = gpx.kind /\ gpx'.repository = gpx.repository
    BY <1>6 DEF TakeGpx, PinInv, RequestsOK
  <2> QED
    BY <2>1 DEF AddInv, Imported, Pending
<1>7. CASE FinishGpx
  <2>1. gpx.state = "running" /\ gpx'.state = "answered" /\ UNCHANGED pins
    BY <1>7, WorkerAnswers
  <2>2. gpx.kind = "import" => gpx.repository = pins
    BY <2>1 DEF AddInv, Pending
  <2>3. Imported' => IsPrefix(pins.lists, gpx'.repository.lists)
    BY <1>7, <2>2, WorkerAdds DEF Imported
  <2> QED
    BY <2>1, <2>3 DEF AddInv, Pending
<1>8. CASE Restart
  <2>1. gpx' = EmptyGpx
    BY <1>8 DEF Restart
  <2> QED
    BY <2>1 DEF AddInv, Imported, Pending, EmptyGpx
<1>9. CASE UNCHANGED vars
  BY <1>9 DEF vars, AddInv, Imported, Pending
<1> QED
  BY <1>1, <1>2, <1>3, <1>4, <1>5, <1>6, <1>7, <1>8, <1>9 DEF Next, Frame, Work

(* The property of the run, for a patient user.                            *)
LEMMA PatientImports ==
    Patient => (Spec => ImportOnlyAdds)
<1> SUFFICES ASSUME Patient
             PROVE  Spec => ImportOnlyAdds
  OBVIOUS
<1>1. Init => SlotInv /\ AddInv
  BY DEF Init, SlotInv, AddInv, Imported, Pending, EmptyGpx, EmptyElevation
<1>2. PinInv /\ SlotInv /\ AddInv /\ [Next]_vars => SlotInv' /\ AddInv'
  BY SlotsKeep, AddKeeps
<1>3. AddInv /\ [Next]_vars =>
          [PollGpx /\ gpx.repository # Nothing /\ gpx.state = "answered"
               => IsPrefix(pins.lists, pins'.lists)]_vars
  BY DEF AddInv, Imported, PollGpx
<1> QED
  BY <1>1, <1>2, <1>3, PinInvariant, PTL DEF Spec, ImportOnlyAdds

-----------------------------------------------------------------------------
(* Any user.  The specification remembers what the screen showed when the  *)
(* import was asked for, which the program does not.                       *)
VARIABLE asked

Asks == ~Pending(gpx) /\ gpx'.state = "requested" /\ gpx'.kind = "import"

Remembers == asked' = IF Asks THEN pins ELSE asked

rememberingVars == <<vars, asked>>

RememberingSpec ==
    /\ Init /\ asked = pins
    /\ [][Next /\ Remembers]_rememberingVars

(* What is imported into, and what is handed back, stems from the request  *)
(* whose answer it is, however requests are repeated or results dropped.   *)
AskedInv ==
    /\ gpx.kind = "import" /\ Pending(gpx) => gpx.repository = asked
    /\ Imported => IsPrefix(asked.lists, gpx.repository.lists)

(* No step of any user's program changes what an import goes by.           *)
LEMMA AskedKeeps ==
    ASSUME PinInv, AskedInv, [Next /\ Remembers]_rememberingVars
    PROVE  AskedInv'
<1>0. ASSUME UNCHANGED <<gpx, asked>> PROVE AskedInv'
  BY <1>0 DEF AskedInv, Imported, Pending
<1>a. ASSUME UNCHANGED gpx, Remembers PROVE AskedInv'
  BY <1>0, <1>a DEF Remembers, Asks, Pending
<1>1. CASE UNCHANGED rememberingVars
  BY <1>0, <1>1 DEF rememberingVars, vars
<1>2. CASE gpx' = EmptyGpx
  BY <1>2 DEF AskedInv, Imported, Pending, EmptyGpx
<1>3. CASE Remembers /\ (BeginFrame \/ PollElevation \/ TakeElevation \/ FinishElevation)
  BY <1>3, <1>a DEF BeginFrame, PollElevation, TakeElevation, FinishElevation
<1>4. CASE Remembers /\ PollGpx
  <2>1. UNCHANGED gpx \/ gpx' = EmptyGpx
    BY <1>4 DEF PollGpx
  <2> QED
    BY <1>a, <1>2, <1>4, <2>1
<1>5. CASE Remembers /\ Input
  <2>1. CASE UNCHANGED gpx
    BY <1>5, <1>a, <2>1
  <2>2. CASE RequestGpx("refresh", 0, Nothing) \/ RequestGpx("export", 0, Nothing)
    BY <2>2 DEF AskedInv, Imported, Pending, RequestGpx
  <2>3. CASE ~Pending(gpx) /\ RequestGpx("import", selFile, pins)
    <3>1. gpx'.state = "requested" /\ gpx'.kind = "import" /\ gpx'.repository = pins
      BY <2>3 DEF RequestGpx
    <3>2. asked' = pins
      BY <1>5, <2>3, <3>1 DEF Remembers, Asks
    <3> QED
      BY <3>1, <3>2 DEF AskedInv, Imported, Pending
  <2> QED
    BY <1>5, <2>1, <2>2, <2>3, InputRequests
<1>6. CASE Remembers /\ TakeGpx
  <2>1. /\ gpx.state = "requested" /\ gpx'.state = "running"
        /\ gpx'.kind = gpx.kind /\ gpx'.repository = gpx.repository
    BY <1>6 DEF TakeGpx, PinInv, RequestsOK
  <2> QED
    BY <1>6, <2>1 DEF AskedInv, Imported, Pending, Remembers, Asks
<1>7. CASE Remembers /\ FinishGpx
  <2>1. gpx.state = "running" /\ gpx'.state = "answered"
    BY <1>7, WorkerAnswers
  <2>2. asked' = asked /\ (gpx.kind = "import" => gpx.repository = asked)
    BY <1>7, <2>1 DEF AskedInv, Pending, Remembers, Asks
  <2>3. Imported' => IsPrefix(asked.lists, gpx'.repository.lists)
    BY <1>7, <2>2, WorkerAdds DEF Imported
  <2> QED
    BY <2>1, <2>2, <2>3 DEF AskedInv, Pending
<1>8. CASE Restart
  BY <1>2, <1>8 DEF Restart
<1> QED
  BY <1>1, <1>3, <1>4, <1>5, <1>6, <1>7, <1>8 DEF Next, Frame, Work

(* Whatever any user does meanwhile, poll_gpx_result shows every list as   *)
(* it was when the import was asked for, with the imported one behind them *)
(* (map_screen.cpp:1083-1095): of what is on the screen then, only edits   *)
(* since the request can be lost.                                          *)
THEOREM ImportAppends ==
    RememberingSpec =>
        [][PollGpx /\ gpx.state = "answered" /\ gpx.repository # Nothing
               => IsPrefix(asked.lists, pins'.lists)]_rememberingVars
<1>1. Init /\ asked = pins => AskedInv
  BY DEF Init, AskedInv, Imported, Pending, EmptyGpx
<1>2. PinInv /\ AskedInv /\ [Next /\ Remembers]_rememberingVars => AskedInv'
  BY AskedKeeps
<1>3. [Next /\ Remembers]_rememberingVars => [Next]_vars
  BY DEF rememberingVars
<1>4. AskedInv /\ [Next /\ Remembers]_rememberingVars =>
          [PollGpx /\ gpx.state = "answered" /\ gpx.repository # Nothing
               => IsPrefix(asked.lists, pins'.lists)]_rememberingVars
  BY DEF AskedInv, Imported, PollGpx
<1>5. RememberingSpec => Spec
  BY <1>3, PTL DEF RememberingSpec, Spec
<1> QED
  BY <1>1, <1>2, <1>4, <1>5, PinInvariant, PTL DEF RememberingSpec

-----------------------------------------------------------------------------
(* The elevations of the pins are measured where the pin is.               *)
MeasuredList(list) ==
    \A j \in 1..Len(list.pins) :
        list.pins[j].elevation \in {Unmeasured, list.pins[j].place}

Measured(r) == \A i \in 1..Len(r.lists) : MeasuredList(r.lists[i])

-----------------------------------------------------------------------------
(* A list that is replaced by a measured one.                              *)
LEMMA OtherList ==
    ASSUME NEW r, Good(r), Measured(r), NEW i \in 1..Len(r.lists),
           NEW list, MeasuredList(list), NEW nextPin
    PROVE  /\ Measured(With(r, i, list, nextPin))
           /\ Measured([r EXCEPT !.lists = [r.lists EXCEPT ![i] = list]])
<1> DEFINE lists == [r.lists EXCEPT ![i] = list]
           S == PinLists \cup {list}
           n == Len(r.lists)
<1>1. r.lists \in [1..n -> PinLists] /\ n \in Nat
  BY GoodParts, LenProperties
<1>2. /\ lists \in [1..n -> S]
      /\ \A k \in 1..n : lists[k] = IF k = i THEN list ELSE r.lists[k]
  BY <1>1
<1> HIDE DEF lists, S
<1>3. lists \in Seq(S)
  BY <1>1, <1>2, SeqDef
<1>4. Len(lists) = n
  BY <1>1, <1>2, <1>3, LenProperties
<1>5. \A k \in 1..Len(lists) : MeasuredList(lists[k])
  BY <1>2, <1>4 DEF Measured
<1>6. \A m : With(r, i, list, m).lists = lists
  BY DEF With, lists
<1>7. \A m : Measured(With(r, i, list, m))
  BY <1>5, <1>6 DEF Measured
<1>8. [r EXCEPT !.lists = [r.lists EXCEPT ![i] = list]] = With(r, i, list, r.nextPin)
  BY ListsInPlace
<1>9. Measured([r EXCEPT !.lists = [r.lists EXCEPT ![i] = list]])
  BY <1>7, <1>8
<1> QED
  BY <1>7, <1>9

(* A list that is appended.                                                *)
LEMMA OneListMore ==
    ASSUME NEW r, Good(r), Measured(r), NEW list, MeasuredList(list), NEW nextPin
    PROVE  Measured(Grown(r, list, nextPin))
<1> DEFINE lists == Append(r.lists, list)
           S == PinLists \cup {list}
           n == Len(r.lists)
<1>1. r.lists \in Seq(S) /\ n \in Nat
  <2>1. r.lists \in [1..n -> PinLists] /\ n \in Nat
    BY GoodParts, LenProperties
  <2>2. r.lists \in [1..n -> S]
    BY <2>1
  <2> QED
    BY <2>1, <2>2, SeqDef
<1>2. /\ Len(lists) = n + 1 /\ lists[n + 1] = list
      /\ \A k \in 1..n : lists[k] = r.lists[k]
  BY <1>1, AppendProperties
<1> HIDE DEF lists
<1>3. \A k \in 1..n + 1 : k \in 1..n \/ k = n + 1
  BY <1>1
<1>4. \A k \in 1..Len(lists) : MeasuredList(lists[k])
  BY <1>2, <1>3 DEF Measured
<1> QED
  BY <1>4 DEF Measured, Grown, lists

(* The edits of a list that leave its pins alone.                          *)
LEMMA PinsLeftAlone ==
    ASSUME NEW r, Good(r), Measured(r), NEW i \in 1..Len(r.lists), NEW x
    PROVE  /\ Measured(SetActive(r, i)) /\ Measured(SetVisible(r, i, x))
           /\ Measured(SetClosed(r, i, x)) /\ Measured(RenameList(r, i, x))
           /\ Measured(SetStyle(r, i, x))
<1>1. r.lists[i] \in PinLists /\ MeasuredList(r.lists[i])
  BY GoodParts DEF Measured
<1>2. ASSUME NEW list, list.pins = r.lists[i].pins
      PROVE  Measured([r EXCEPT !.lists = [r.lists EXCEPT ![i] = list]])
  BY <1>1, <1>2, OtherList DEF MeasuredList
<1>3. /\ [r.lists[i] EXCEPT !.visible = x].pins = r.lists[i].pins
      /\ [r.lists[i] EXCEPT !.closed = x].pins = r.lists[i].pins
      /\ [r.lists[i] EXCEPT !.name = x].pins = r.lists[i].pins
      /\ [r.lists[i] EXCEPT !.style = x].pins = r.lists[i].pins
  BY <1>1 DEF PinLists
<1>4. SetActive(r, i).lists = r.lists
  <2>1. r = [lists |-> r.lists, active |-> r.active,
             nextList |-> r.nextList, nextPin |-> r.nextPin]
    BY GoodParts
  <2> QED
    BY <2>1 DEF SetActive
<1>5. Measured(SetVisible(r, i, x))
  BY <1>2, <1>3 DEF SetVisible
<1>6. Measured(SetClosed(r, i, x))
  BY <1>2, <1>3 DEF SetClosed
<1>7. Measured(RenameList(r, i, x))
  BY <1>2, <1>3 DEF RenameList
<1>8. Measured(SetStyle(r, i, x))
  BY <1>2, <1>3 DEF SetStyle
<1>9. Measured(SetActive(r, i))
  BY <1>4 DEF Measured
<1> QED
  BY <1>5, <1>6, <1>7, <1>8, <1>9

(* A new pin has no elevation, a list less has no other pins, and neither  *)
(* has a list with a pin less.                                             *)
LEMMA PinsComeAndGo ==
    ASSUME NEW r, Good(r), Measured(r)
    PROVE  /\ \A place, name : Measured(AddPin(r, place, name))
           /\ \A i, j : HasPin(r, i, j) => Measured(RemovePin(r, i, j))
           /\ \A i : CanRemoveList(r, i) => Measured(RemoveList(r, i))
           /\ \A name, style : Measured(AddList(r, name, style))
<1>1. ASSUME NEW place, NEW name PROVE Measured(AddPin(r, place, name))
  <2> DEFINE old == r.lists[r.active]
             pin == NewPin(r, place, name)
             more == Append(old.pins, pin)
             list == LongerList(r, place, name)
             S == Pins \cup {pin}
             n == Len(old.pins)
  <2>1. old \in PinLists /\ MeasuredList(old) /\ r.active \in 1..Len(r.lists)
    BY GoodParts DEF Measured
  <2>2. old.pins \in Seq(S) /\ n \in Nat /\ pin \in S
    <3>1. old.pins \in [1..n -> Pins] /\ n \in Nat
      BY <2>1, PinListParts, LenProperties
    <3>2. old.pins \in [1..n -> S]
      BY <3>1
    <3> QED
      BY <3>1, <3>2, SeqDef
  <2>3. pin.elevation = Unmeasured
    BY DEF NewPin
  <2>4. list.pins = more
    BY <2>1 DEF LongerList, PinLists
  <2> HIDE DEF S, list, pin
  <2>5. /\ Len(more) = n + 1 /\ more[n + 1] = pin
        /\ \A k \in 1..n : more[k] = old.pins[k]
    BY <2>2, AppendProperties, SMTT(30)
  <2> HIDE DEF more
  <2>6. \A k \in 1..n + 1 : k \in 1..n \/ k = n + 1
    BY <2>2
  <2>7. MeasuredList(list)
    BY <2>1, <2>3, <2>4, <2>5, <2>6 DEF MeasuredList
  <2>8. Measured(With(r, r.active, list, r.nextPin + 1))
    BY <2>1, <2>7, OtherList
  <2> QED
    BY <2>8, AddPinAs DEF list
<1>2. ASSUME NEW i, NEW j, HasPin(r, i, j) PROVE Measured(RemovePin(r, i, j))
  <2> DEFINE old == r.lists[i]
             fewer == RemoveAt(old.pins, j)
             list == ShorterList(old, j)
             n == Len(old.pins)
  <2>1. i \in 1..Len(r.lists) /\ j \in 1..n
    BY <1>2 DEF HasPin, HasList
  <2>2. old \in PinLists /\ MeasuredList(old) /\ old.pins \in Seq(Pins) /\ n \in Nat
    BY <2>1, GoodParts DEF Measured
  <2>3. /\ Len(fewer) = n - 1
        /\ \A k \in 1..n - 1 :
               fewer[k] = IF k < j THEN old.pins[k] ELSE old.pins[k + 1]
    BY <2>1, <2>2, RemovedAt
  <2>4. list.pins = fewer
    BY <2>2 DEF ShorterList, PinLists
  <2> HIDE DEF fewer, list
  <2>5. \A k \in 1..n - 1 : k \in 1..n /\ k + 1 \in 1..n
    BY <2>2
  <2>6. MeasuredList(list)
    BY <2>2, <2>3, <2>4, <2>5 DEF MeasuredList
  <2>7. Measured(With(r, i, list, r.nextPin))
    BY <2>1, <2>6, OtherList
  <2> QED
    BY <2>1, <2>7, RemovePinAs DEF list
<1>3. ASSUME NEW i, CanRemoveList(r, i) PROVE Measured(RemoveList(r, i))
  <2> DEFINE lists == RemoveAt(r.lists, i)
             n == Len(r.lists)
  <2>1. i \in 1..n /\ r.lists \in Seq(PinLists) /\ n \in Nat
    BY <1>3, GoodParts DEF CanRemoveList, HasList
  <2>2. /\ Len(lists) = n - 1
        /\ \A k \in 1..n - 1 : lists[k] = IF k < i THEN r.lists[k] ELSE r.lists[k + 1]
    BY <2>1, RemovedAt
  <2>3. RemoveList(r, i).lists = lists
    <3> DEFINE active == CASE r.active = i -> 1
                           [] r.active > i -> r.active - 1
                           [] OTHER -> r.active
    <3>1. r = [lists |-> r.lists, active |-> r.active,
               nextList |-> r.nextList, nextPin |-> r.nextPin]
      BY GoodParts
    <3>2. RemoveList(r, i) = [r EXCEPT !.lists = lists, !.active = active]
      BY <3>1 DEF RemoveList
    <3> HIDE DEF lists, active
    <3>3. RemoveList(r, i) = [lists |-> lists, active |-> active,
                              nextList |-> r.nextList, nextPin |-> r.nextPin]
      BY <3>1, <3>2
    <3> QED
      BY <3>3
  <2> HIDE DEF lists
  <2>4. \A k \in 1..n - 1 : k \in 1..n /\ k + 1 \in 1..n
    BY <2>1
  <2>5. \A k \in 1..Len(lists) : MeasuredList(lists[k])
    BY <2>2, <2>4 DEF Measured
  <2> QED
    BY <2>3, <2>5 DEF Measured
<1>4. ASSUME NEW name, NEW style PROVE Measured(AddList(r, name, style))
  <2>1. Len(NewList(r.nextList, name, style).pins) = 0
    BY DEF NewList
  <2>2. MeasuredList(NewList(r.nextList, name, style))
    BY <2>1 DEF MeasuredList
  <2> QED
    BY <2>2, AddListAs, OneListMore
<1> QED
  BY <1>1, <1>2, <1>3, <1>4

(* A pin takes its elevation along when it moves or gets another name.     *)
LEMMA PinsTakeAlong ==
    ASSUME NEW r, Good(r), Measured(r), NEW i \in 1..Len(r.lists)
    PROVE  /\ \A j \in 1..Len(r.lists[i].pins), name \in Names :
                  Measured(RenamePin(r, i, j, name))
           /\ \A j, t \in 1..Len(r.lists[i].pins) : Measured(MovePin(r, i, j, t))
<1> DEFINE old == r.lists[i].pins
           n == Len(old)
<1>1. /\ old \in Seq(Pins) /\ n \in Nat /\ old \in [1..n -> Pins]
      /\ r.lists[i] \in PinLists /\ MeasuredList(r.lists[i])
  BY GoodParts, LenProperties DEF Measured
<1>2. ASSUME NEW pinSeq, Len(pinSeq) = n,
             \A k \in 1..n : pinSeq[k].elevation \in {Unmeasured, pinSeq[k].place}
      PROVE  Measured(SetPins(r, i, pinSeq))
  <2> DEFINE list == [r.lists[i] EXCEPT !.pins = pinSeq]
  <2>1. list.pins = pinSeq
    BY <1>1 DEF PinLists
  <2> HIDE DEF list
  <2>2. MeasuredList(list)
    BY <1>2, <2>1 DEF MeasuredList
  <2>3. Measured([r EXCEPT !.lists = [r.lists EXCEPT ![i] = list]])
    BY <2>2, OtherList
  <2> QED
    BY <2>3 DEF SetPins, list
<1>3. ASSUME NEW j \in 1..n, NEW name \in Names
      PROVE  Measured(RenamePin(r, i, j, name))
  <2> DEFINE pin == [old[j] EXCEPT !.name = name]
             new == [old EXCEPT ![j] = pin]
  <2>1. old[j] \in Pins
    BY <1>1
  <2>2. pin \in Pins /\ pin.elevation = old[j].elevation /\ pin.place = old[j].place
    BY <2>1 DEF Pins
  <2>3. RenamePin(r, i, j, name) = SetPins(r, i, new)
    BY DEF RenamePin, SetPins
  <2> HIDE DEF pin
  <2>4. Len(new) = n /\ \A k \in 1..n : new[k] = IF k = j THEN pin ELSE old[k]
    BY <1>1, <2>2, ExceptSeq
  <2> HIDE DEF new
  <2>5. \A k \in 1..n : new[k].elevation \in {Unmeasured, new[k].place}
    BY <1>1, <2>2, <2>4 DEF MeasuredList
  <2> QED
    BY <1>2, <2>3, <2>4, <2>5
<1>4. ASSUME NEW j \in 1..n, NEW t \in 1..n
      PROVE  Measured(MovePin(r, i, j, t))
  <2> DEFINE first == [old EXCEPT ![j] = old[t]]
             new == [first EXCEPT ![t] = old[j]]
  <2>1. old[j] \in Pins /\ old[t] \in Pins
    BY <1>1
  <2>2. MovePin(r, i, j, t) = SetPins(r, i, new)
    BY DEF MovePin, SetPins
  <2>3. /\ first \in Seq(Pins) /\ Len(first) = n
        /\ \A k \in 1..n : first[k] = IF k = j THEN old[t] ELSE old[k]
    BY <1>1, <2>1, ExceptSeq
  <2> HIDE DEF first
  <2>4. Len(new) = n /\ \A k \in 1..n : new[k] = IF k = t THEN old[j] ELSE first[k]
    BY <1>1, <2>1, <2>3, ExceptSeq
  <2> HIDE DEF new
  <2>5. \A k \in 1..n : new[k].elevation \in {Unmeasured, new[k].place}
    BY <1>1, <2>3, <2>4 DEF MeasuredList
  <2> QED
    BY <1>2, <2>2, <2>4, <2>5
<1> QED
  BY <1>3, <1>4

(* Heights that were looked up for the places of the pins.                 *)
LEMMA HeightsFit ==
    ASSUME NEW r, Good(r), Measured(r), NEW i \in 1..Len(r.lists), NEW heights,
           \A j \in 1..Len(r.lists[i].pins) :
               j \in 1..Len(heights) => heights[j] = r.lists[i].pins[j].place
    PROVE  Measured(SetElevations(r, i, heights))
<1> DEFINE old == r.lists[i].pins
           n == Len(old)
           new == [k \in 1..Len(old) |-> IF k \in 1..Len(heights)
                                         THEN [old[k] EXCEPT !.elevation = heights[k]]
                                         ELSE old[k]]
           list == [r.lists[i] EXCEPT !.pins = new]
<1>1. /\ old \in Seq(Pins) /\ n \in Nat /\ old \in [1..n -> Pins]
      /\ r.lists[i] \in PinLists /\ MeasuredList(r.lists[i])
  BY GoodParts, LenProperties DEF Measured
<1>2. ASSUME NEW k \in 1..n
      PROVE  new[k].elevation \in {Unmeasured, new[k].place}
  <2>1. old[k] \in Pins
    BY <1>1
  <2>2. CASE k \in 1..Len(heights)
    <3>1. new[k] = [old[k] EXCEPT !.elevation = heights[k]]
      BY <2>2
    <3>2. [old[k] EXCEPT !.elevation = heights[k]].elevation = heights[k]
          /\ [old[k] EXCEPT !.elevation = heights[k]].place = old[k].place
      BY <2>1 DEF Pins
    <3> QED
      BY <2>2, <3>1, <3>2
  <2>3. CASE k \notin 1..Len(heights)
    BY <1>1, <2>3 DEF MeasuredList
  <2> QED
    BY <2>2, <2>3
<1>3. DOMAIN new = 1..n
  OBVIOUS
<1>4. SetElevations(r, i, heights) = [r EXCEPT !.lists = [r.lists EXCEPT ![i] = list]]
  BY DEF SetElevations
<1> HIDE DEF new
<1>5. Len(new) = n
  BY <1>1, <1>3, LenProperties
<1>6. list.pins = new
  BY <1>1 DEF PinLists
<1> HIDE DEF list
<1>7. MeasuredList(list)
  BY <1>2, <1>5, <1>6 DEF MeasuredList
<1>8. Measured([r EXCEPT !.lists = [r.lists EXCEPT ![i] = list]])
  BY <1>7, OtherList
<1> QED
  BY <1>4, <1>8

(* What an import appends has the elevations of the file, or none.         *)
LEMMA TrackMeasured ==
    ASSUME NEW r, Good(r), Measured(r), NEW name, NEW style,
           NEW track \in Seq(Points)
    PROVE  Measured(ImportTrack(r, name, style, track))
<1> DEFINE new == TrackPins(r, name, track)
           list == TrackList(r, name, style, track)
<1>1. Len(track) \in Nat
  BY LenProperties
<1>2. /\ DOMAIN new = 1..Len(track)
      /\ \A k \in 1..Len(track) : new[k].elevation \in {Unmeasured, new[k].place}
  BY DEF TrackPins
<1>3. list.pins = new
  BY DEF TrackList, NewList
<1> HIDE DEF new, list
<1>4. Len(new) = Len(track)
  BY <1>1, <1>2, LenProperties
<1>5. MeasuredList(list)
  BY <1>2, <1>3, <1>4 DEF MeasuredList
<1> QED
  BY <1>5, ImportTrackAs, OneListMore DEF list

-----------------------------------------------------------------------------
(* The heights that were asked for belong to the pins of their list.       *)
HeightsAsked ==
    elevation.state # "empty" =>
        \A i \in 1..Len(pins.lists) : pins.lists[i].id = elevation.list =>
            \A j \in 1..Len(pins.lists[i].pins) :
                j \in 1..Len(elevation.places) =>
                    elevation.places[j] = pins.lists[i].pins[j].place

(* Every elevation, on both threads and on the card.                       *)
AllMeasured ==
    /\ Measured(pins) /\ Measured(saved)
    /\ gpx.repository # Nothing => Measured(gpx.repository)

(* The heights of an answer do not fit the list they would be given to: a  *)
(* pin of it is elsewhere than the place that was asked for.               *)
StaleAnswer ==
    /\ elevation.state = "answered" /\ ~elevation.failed /\ Asked # {}
    /\ LET list == pins.lists[Min(Asked)]
       IN  \E k \in 1..Len(list.pins) : /\ k \in 1..Len(elevation.places)
                                         /\ elevation.places[k] # list.pins[k].place

(* An edit of measured collections.                                        *)
LEMMA EditMeasured ==
    ASSUME NEW r, Measured(r), Measured(saved), Edit(r)
    PROVE  Measured(pins') /\ Measured(saved')
<1>1. pins' = r /\ (saved' = r \/ saved' = saved)
  BY PersistResult DEF Edit
<1> QED
  BY <1>1

(* Placing pins shows a list and leaves its pins alone.                    *)
LEMMA BeginPinningMeasured ==
    ASSUME Good(pins), Measured(pins), Measured(saved), BeginPinning
    PROVE  Measured(pins') /\ Measured(saved')
<1>1. CASE Keep
  BY <1>1 DEF Keep
<1>2. CASE Edit(SetVisible(pins, pins.active, TRUE))
  <2>1. Measured(SetVisible(pins, pins.active, TRUE))
    BY GoodParts, PinsLeftAlone
  <2> QED
    BY <1>2, <2>1, EditMeasured
<1> QED
  BY <1>1, <1>2 DEF BeginPinning

(* No input gives a pin a height that was not measured where it is.        *)
LEMMA InputMeasured ==
    ASSUME PinInv, Measured(pins), Measured(saved), Input
    PROVE  Measured(pins') /\ Measured(saved')
<1>1. Good(pins) /\ selList \in 1..Len(pins.lists) /\ pins.active \in 1..Len(pins.lists)
  BY GoodParts DEF PinInv, CollectionsOK, SelectedListExists, HasList
<1>2. CASE Idle \/ MapToMenu \/ MenuToMap \/ OpenLists \/ EndPinning \/ LeaveLists
           \/ SelectList \/ ArmListDeletion \/ LeaveList \/ SelectPin
           \/ ArmPinDeletion \/ LeaveGpx \/ SelectFile
  BY <1>2, LookingOnly
<1>3. CASE OpenGpx \/ AskGpx
  BY <1>3 DEF OpenGpx, AskGpx, Keep
<1>4. CASE StartPinning
  BY <1>1, <1>4, BeginPinningMeasured DEF StartPinning
<1>5. CASE CapturePin
  <2>1. CASE Edit(SetClosed(pins, pins.active, TRUE))
    <3>1. Measured(SetClosed(pins, pins.active, TRUE))
      BY <1>1, PinsLeftAlone
    <3> QED
      BY <2>1, <3>1, EditMeasured
  <2>2. ASSUME NEW place, NEW name, Edit(AddPin(pins, place, name))
        PROVE  Measured(pins') /\ Measured(saved')
    <3>1. Measured(AddPin(pins, place, name))
      BY <1>1, PinsComeAndGo
    <3> QED
      BY <2>2, <3>1, EditMeasured
  <2> QED
    BY <1>5, <2>1, <2>2 DEF CapturePin
<1>6. CASE ChangeList
  <2>1. ASSUME NEW x, \/ Edit(SetStyle(pins, selList, x))
                      \/ Edit(SetVisible(pins, selList, x))
                      \/ Edit(RenameList(pins, selList, x))
        PROVE  Measured(pins') /\ Measured(saved')
    <3>1. /\ Measured(SetStyle(pins, selList, x))
          /\ Measured(SetVisible(pins, selList, x))
          /\ Measured(RenameList(pins, selList, x))
      BY <1>1, PinsLeftAlone
    <3> QED
      BY <2>1, <3>1, EditMeasured
  <2> QED
    BY <1>6, <2>1 DEF ChangeList
<1>7. CASE CreateList
  <2>1. PICK name : Edit(AddList(pins, name, Plain))
    BY <1>7 DEF CreateList
  <2>2. Measured(AddList(pins, name, Plain))
    BY <1>1, PinsComeAndGo
  <2> QED
    BY <2>1, <2>2, EditMeasured
<1>8. CASE OpenList
  <2>1. Measured(SetActive(pins, selList))
    BY <1>1, PinsLeftAlone
  <2> QED
    BY <1>8, <2>1, EditMeasured DEF OpenList
<1>9. CASE DeleteList
  <2>1. Measured(RemoveList(pins, selList))
    BY <1>1, <1>9, PinsComeAndGo DEF DeleteList
  <2> QED
    BY <1>9, <2>1, EditMeasured DEF DeleteList
<1>10. CASE CenterPin
  <2> DEFINE r == SetActive(pins, selList)
  <2>1. Good(r) /\ r.lists = pins.lists /\ Measured(r)
    BY <1>1, ActiveChanged, PinsLeftAlone
  <2>2. Measured(SetVisible(r, selList, TRUE))
    BY <1>1, <2>1, PinsLeftAlone
  <2>3. \/ pins' = r /\ saved' = saved
        \/ Edit(SetVisible(r, selList, TRUE))
    BY <1>10 DEF CenterPin
  <2> HIDE DEF r
  <2> QED
    BY <2>1, <2>2, <2>3, EditMeasured
<1>11. CASE NamePin
  <2>1. PICK name \in Names : Edit(RenamePin(pins, selList, selPin, name))
    BY <1>11 DEF NamePin
  <2>2. Measured(RenamePin(pins, selList, selPin, name))
    BY <1>1, <1>11, PinsTakeAlong DEF NamePin, PinSelected, HasPin
  <2> QED
    BY <2>1, <2>2, EditMeasured
<1>12. CASE DeletePin
  <2>1. Measured(RemovePin(pins, selList, selPin))
    BY <1>1, <1>12, PinsComeAndGo DEF DeletePin, PinSelected
  <2> QED
    BY <1>12, <2>1, EditMeasured DEF DeletePin
<1>13. CASE ToggleClosed
  <2> DEFINE closed == ~pins.lists[selList].closed
  <2>1. Edit(SetClosed(pins, selList, closed))
    BY <1>13 DEF ToggleClosed
  <2> HIDE DEF closed
  <2>2. Measured(SetClosed(pins, selList, closed))
    BY <1>1, PinsLeftAlone
  <2> QED
    BY <2>1, <2>2, EditMeasured
<1>14. CASE ShiftPin
  <2>1. PICK t : CanMovePin(pins, selList, selPin, t)
                 /\ Edit(MovePin(pins, selList, selPin, t))
    BY <1>14 DEF ShiftPin
  <2>2. Measured(MovePin(pins, selList, selPin, t))
    BY <1>1, <2>1, PinsTakeAlong DEF CanMovePin, HasPin
  <2> QED
    BY <2>1, <2>2, EditMeasured
<1> QED
  BY <1>2, <1>3, <1>4, <1>5, <1>6, <1>7, <1>8, <1>9, <1>10, <1>11, <1>12, <1>13,
     <1>14 DEF Input

(* A patient user's input leaves the pins that wait for heights alone, and *)
(* a new request takes the places of the pins as they are.                 *)
LEMMA InputAsks ==
    ASSUME PinInv, Patient, HeightsAsked, Input
    PROVE  HeightsAsked'
<1>1. CASE OpenList
  <2> DEFINE r == SetActive(pins, selList)
  <2>1. selList \in 1..Len(pins.lists) /\ Good(pins)
    BY DEF PinInv, CollectionsOK, SelectedListExists, HasList
  <2>2. r.lists = pins.lists
    BY <2>1, ActiveChanged
  <2>3. Quiet /\ pins' = r /\ AskElevation(r, selList)
    BY <1>1 DEF OpenList, Edit, MayTouch
  <2> HIDE DEF r
  <2>4. CASE elevation' = elevation
    BY <2>3, <2>4 DEF Quiet, HeightsAsked
  <2>5. CASE elevation' = [state |-> "requested", list |-> r.lists[selList].id,
                           failed |-> FALSE,
                           places |-> [j \in 1..Len(r.lists[selList].pins) |->
                                          r.lists[selList].pins[j].place]]
    <3>1. \A i \in 1..Len(pins.lists) :
              pins.lists[i].id = pins.lists[selList].id => i = selList
      BY <2>1, GoodParts
    <3>2. /\ elevation'.list = pins.lists[selList].id /\ pins'.lists = pins.lists
          /\ \A j \in 1..Len(pins.lists[selList].pins) :
                 elevation'.places[j] = pins.lists[selList].pins[j].place
      BY <2>2, <2>3, <2>5
    <3> QED
      BY <3>1, <3>2 DEF HeightsAsked
  <2> QED
    BY <2>3, <2>4, <2>5 DEF AskElevation
<1>2. CASE UNCHANGED <<pins, elevation>>
  BY <1>2 DEF HeightsAsked
<1>3. CASE Quiet /\ UNCHANGED elevation
  BY <1>3 DEF HeightsAsked, Quiet
<1>4. OpenList \/ UNCHANGED <<pins, elevation>> \/ (Quiet /\ UNCHANGED elevation)
  <2>1. CASE Idle \/ MapToMenu \/ MenuToMap \/ OpenLists \/ EndPinning \/ LeaveLists
             \/ SelectList \/ ArmListDeletion \/ LeaveList \/ SelectPin
             \/ ArmPinDeletion \/ LeaveGpx \/ SelectFile
    BY <2>1, LookingOnly
  <2>2. CASE CapturePin \/ ChangeList \/ NamePin \/ DeletePin \/ ToggleClosed
             \/ ShiftPin \/ CreateList \/ DeleteList \/ CenterPin
    BY <2>2, EditingWaits DEF MayTouch
  <2>3. CASE StartPinning
    BY <2>3 DEF StartPinning, BeginPinning, Edit, MayTouch, Keep
  <2>4. CASE OpenGpx \/ AskGpx
    BY <2>4 DEF OpenGpx, AskGpx, Keep
  <2> QED
    BY <2>1, <2>2, <2>3, <2>4 DEF Input
<1> QED
  BY <1>1, <1>2, <1>3, <1>4

(* What the worker hands back is measured like the copy it was given.      *)
LEMMA WorkerMeasures ==
    ASSUME PinInv, FinishGpx, Measured(saved),
           gpx.repository # Nothing => Measured(gpx.repository)
    PROVE  /\ Measured(saved')
           /\ gpx'.repository # Nothing => Measured(gpx'.repository)
<1>1. worker = "gpx"
  BY DEF FinishGpx
<1>2. ASSUME NEW r, NEW l, NEW failed, Answer(r, l, failed)
      PROVE  gpx'.repository = r
  BY <1>2 DEF Answer, PinInv, RequestsOK
<1>3. CASE Refresh \/ Export
  BY <1>2, <1>3 DEF Refresh, Export
<1>4. CASE Import
  <2>1. Good(gpx.repository)
    BY <1>1, <1>4 DEF Import, Pending, PinInv, RequestsOK
  <2>2. Measured(gpx.repository)
    BY <2>1, NothingAssumption DEF Good
  <2>3. CASE Answer(Nothing, listing, TRUE) /\ UNCHANGED saved
    BY <1>2, <2>3
  <2>4. ASSUME NEW f \in Files, NEW r, NEW failed, NEW s \in Saves(saved, r),
               r = ImportTrack(gpx.repository, listing[gpx.file], Flagged,
                               BoundedPoints(Parsed(f))),
               saved' = s.record, Answer(r, listing, failed)
        PROVE  Measured(saved') /\ Measured(gpx'.repository)
    <3>1. BoundedPoints(Parsed(f)) \in Seq(Points)
      BY FilesAssumption, SampleFits DEF Parsed
    <3>2. Measured(r)
      BY <2>1, <2>2, <2>4, <3>1, TrackMeasured
    <3>3. saved' \in {r, saved}
      BY <2>4 DEF Saves
    <3> QED
      BY <1>2, <2>4, <3>2, <3>3
  <2> QED
    BY <1>4, <2>3, <2>4 DEF Import
<1> QED
  BY <1>3, <1>4 DEF FinishGpx

(* A step that polls no stale answer gives no pin a wrong elevation.       *)
LEMMA MeasureKeeps ==
    ASSUME PinInv, AllMeasured, [Next]_vars, ~(PollElevation /\ StaleAnswer)
    PROVE  AllMeasured'
<1>1. CASE BeginFrame
  <2>1. UNCHANGED gpx /\ (Keep \/ BeginPinning)
    BY <1>1 DEF BeginFrame
  <2>2. Measured(pins') /\ Measured(saved')
    BY <2>1, BeginPinningMeasured DEF PinInv, CollectionsOK, AllMeasured, Keep
  <2> QED
    BY <2>1, <2>2 DEF AllMeasured
<1>2. CASE PollGpx
  <2>1. UNCHANGED saved
    BY <1>2 DEF PollGpx
  <2>2. CASE UNCHANGED <<pins, gpx>>
    BY <2>1, <2>2 DEF AllMeasured
  <2>3. CASE UNCHANGED pins /\ gpx' = EmptyGpx
    BY <2>1, <2>3 DEF AllMeasured, EmptyGpx
  <2>4. CASE gpx.repository # Nothing /\ pins' = gpx.repository /\ gpx' = EmptyGpx
    BY <2>1, <2>4 DEF AllMeasured, EmptyGpx
  <2> QED
    BY <1>2, <2>2, <2>3, <2>4 DEF PollGpx
<1>3. CASE PollElevation
  <2>1. UNCHANGED gpx
    BY <1>3 DEF PollElevation
  <2>2. CASE Keep
    BY <2>1, <2>2 DEF Keep, AllMeasured
  <2>3. CASE ~Keep
    <3> DEFINE i == Min(Asked)
               r == SetElevations(pins, i, elevation.places)
    <3>1. /\ Good(pins) /\ Asked # {} /\ pins' = r /\ Persist(r)
          /\ elevation.state = "answered" /\ ~elevation.failed
      BY <1>3, <2>3 DEF PollElevation, PinInv, CollectionsOK
    <3>2. i \in 1..Len(pins.lists)
      BY <3>1, AskedList DEF Asked
    <3>3. \A k \in 1..Len(pins.lists[i].pins) :
              k \in 1..Len(elevation.places)
                  => elevation.places[k] = pins.lists[i].pins[k].place
      BY <1>3, <3>1 DEF StaleAnswer
    <3> HIDE DEF i
    <3>4. Measured(r)
      BY <3>1, <3>2, <3>3, HeightsFit DEF AllMeasured
    <3> HIDE DEF r
    <3>5. saved' = r \/ saved' = saved
      BY <3>1, PersistResult
    <3> QED
      BY <2>1, <3>1, <3>4, <3>5 DEF AllMeasured
  <2> QED
    BY <2>2, <2>3
<1>4. CASE Input
  <2>1. Measured(pins') /\ Measured(saved')
    BY <1>4, InputMeasured DEF AllMeasured
  <2>2. gpx'.repository \in {gpx.repository, Nothing, pins}
    BY <1>4, InputRequests DEF RequestGpx
  <2> QED
    BY <2>1, <2>2 DEF AllMeasured
<1>5. CASE TakeElevation \/ FinishElevation
  <2>1. UNCHANGED <<pins, saved, gpx>>
    BY <1>5 DEF TakeElevation, FinishElevation
  <2> QED
    BY <2>1 DEF AllMeasured
<1>6. CASE TakeGpx
  <2>1. UNCHANGED <<pins, saved>> /\ gpx'.repository = gpx.repository
    BY <1>6 DEF TakeGpx, PinInv, RequestsOK
  <2> QED
    BY <2>1 DEF AllMeasured
<1>7. CASE FinishGpx
  <2>1. UNCHANGED pins
    BY <1>7, WorkerAnswers
  <2>2. /\ Measured(saved')
        /\ gpx'.repository # Nothing => Measured(gpx'.repository)
    BY <1>7, WorkerMeasures DEF AllMeasured
  <2> QED
    BY <2>1, <2>2 DEF AllMeasured
<1>8. CASE Restart
  <2>1. pins' = saved /\ saved' = saved /\ gpx' = EmptyGpx
    BY <1>8, StartKeeps DEF Restart
  <2> QED
    BY <2>1 DEF AllMeasured, EmptyGpx
<1>9. CASE UNCHANGED vars
  BY <1>9 DEF vars, AllMeasured
<1> QED
  BY <1>1, <1>2, <1>3, <1>4, <1>5, <1>6, <1>7, <1>8, <1>9 DEF Next, Frame, Work

(* Of all that any user and the worker do, edits, reorderings, deletions,  *)
(* imports, failing saves and restarts, only the poll of an answer to a    *)
(* list that has changed since it was asked for can give a pin the         *)
(* elevation of another place: poll_elevation_result goes by the position  *)
(* in the list (map_screen.cpp:1128-1152).                                 *)
THEOREM HeightsBelongToPlaces ==
    Spec => [][AllMeasured /\ ~(PollElevation /\ StaleAnswer) => AllMeasured']_vars
<1>1. PinInv /\ [Next]_vars =>
          [AllMeasured /\ ~(PollElevation /\ StaleAnswer) => AllMeasured']_vars
  BY MeasureKeeps
<1> QED
  BY <1>1, PinInvariant, PTL DEF Spec

-----------------------------------------------------------------------------
(* No answer is stale for a patient user.                                  *)
LEMMA HeightsKeep ==
    ASSUME PinInv, SlotInv, HeightsAsked, Patient, [Next]_vars
    PROVE  HeightsAsked'
<1>1. CASE BeginFrame
  <2>1. UNCHANGED elevation /\ (UNCHANGED pins \/ Quiet)
    BY <1>1 DEF BeginFrame, BeginPinning, Edit, MayTouch, Keep
  <2> QED
    BY <2>1 DEF HeightsAsked, Quiet
<1>2. CASE PollGpx
  <2>1. UNCHANGED elevation
    BY <1>2 DEF PollGpx
  <2>2. UNCHANGED pins \/ gpx.repository # Nothing
    BY <1>2 DEF PollGpx
  <2> QED
    BY <2>1, <2>2 DEF HeightsAsked, SlotInv
<1>3. CASE PollElevation
  <2>1. UNCHANGED <<pins, elevation>> \/ elevation' = EmptyElevation
    BY <1>3 DEF PollElevation, Keep
  <2> QED
    BY <2>1 DEF HeightsAsked, EmptyElevation
<1>4. CASE Input
  BY <1>4, InputAsks
<1>5. CASE TakeElevation \/ FinishElevation
  <2>1. /\ UNCHANGED pins /\ elevation.state # "empty"
        /\ elevation'.list = elevation.list /\ elevation'.places = elevation.places
    BY <1>5 DEF TakeElevation, FinishElevation, SlotInv, PinInv, RequestsOK
  <2> QED
    BY <2>1 DEF HeightsAsked
<1>6. CASE TakeGpx \/ FinishGpx \/ UNCHANGED vars
  <2>1. UNCHANGED <<pins, elevation>>
    BY <1>6 DEF TakeGpx, FinishGpx, vars
  <2> QED
    BY <2>1 DEF HeightsAsked
<1>7. CASE Restart
  <2>1. elevation' = EmptyElevation
    BY <1>7 DEF Restart
  <2> QED
    BY <2>1 DEF HeightsAsked, EmptyElevation
<1> QED
  BY <1>1, <1>2, <1>3, <1>4, <1>5, <1>6, <1>7 DEF Next, Frame, Work

(* The property of the run, for a patient user.                            *)
LEMMA PatientHeights ==
    ASSUME \A r \in Earlier : Measured(r)
    PROVE  Patient => (Spec => []ElevationOfPlace)
<1> SUFFICES ASSUME Patient
             PROVE  Spec => []ElevationOfPlace
  OBVIOUS
<1>1. Init => SlotInv /\ AllMeasured /\ HeightsAsked
  <2> SUFFICES ASSUME Init
               PROVE  SlotInv /\ AllMeasured /\ HeightsAsked
    OBVIOUS
  <2>1. \A name : Measured(DefaultRepository(name, Plain))
    BY DEF Measured, MeasuredList, DefaultRepository, NewList
  <2>2. Measured(pins) /\ saved = pins
    BY <2>1 DEF Init
  <2> QED
    BY <2>2 DEF Init, SlotInv, AllMeasured, HeightsAsked, EmptyGpx, EmptyElevation
<1>2. ASSUME PinInv, HeightsAsked
      PROVE  ~StaleAnswer
  <2>0. Good(pins)
    BY <1>2 DEF PinInv, CollectionsOK
  <2>1. Asked # {} => /\ Min(Asked) \in 1..Len(pins.lists)
                      /\ pins.lists[Min(Asked)].id = elevation.list
    BY <2>0, AskedList DEF Asked
  <2> QED
    BY <1>2, <2>1 DEF StaleAnswer, HeightsAsked
<1>3. PinInv /\ SlotInv /\ AllMeasured /\ HeightsAsked /\ [Next]_vars
          => SlotInv' /\ AllMeasured' /\ HeightsAsked'
  BY <1>2, SlotsKeep, MeasureKeeps, HeightsKeep
<1>4. AllMeasured => ElevationOfPlace
  BY DEF AllMeasured, Measured, MeasuredList, ElevationOfPlace
<1> QED
  BY <1>1, <1>3, <1>4, PinInvariant, PTL DEF Spec
=============================================================================
