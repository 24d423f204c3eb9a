------------------------- MODULE AtomicRecordProofs -------------------------
(***************************************************************************)
(* With at most one mishap between two saves that succeed, a record is a   *)
(* register, whatever its contents are.  The bound is tight: the code      *)
(* loses the record when two interruptions follow each other.              *)
(***************************************************************************)
EXTENDS AtomicRecord, TLAPS

(* Where the old and the new record are at each step of persist.  The      *)
(* rollback copy is missing until something went wrong, so a later save    *)
(* never drops the only copy while another mishap is still possible.       *)
OldOrNone ==
    \/ disk["current"] = memory
    \/ disk["current"] = "absent" /\ (mishaps = 1 \/ memory = Default)

Settled == Loaded = memory /\ (mishaps = 0 => disk["backup"] = "absent")

Placement ==
    /\ pc \in {"idle", "clear", "open", "write", "dropBackup", "giveUp"} => Settled
    /\ pc = "check" => OldOrNone /\ disk["backup"] = "absent"
    /\ pc = "backup" =>
          previous /\ disk["current"] = memory /\ disk["backup"] = "absent"
    /\ pc = "publish" =>
          /\ disk["current"] = "absent"
          /\ IF previous THEN disk["backup"] = memory
             ELSE disk["backup"] = "absent" /\ (mishaps = 1 \/ memory = Default)
    /\ pc = "rollback" =>
          /\ mishaps = 1 /\ disk["current"] = "absent"
          /\ IF previous THEN disk["backup"] = memory
             ELSE disk["backup"] = "absent" /\ memory = Default
    /\ pc = "clean" =>
          disk["current"] = goal /\ (previous \/ disk["backup"] = "absent")

(* The new record waits, whole, under its temporary name.                  *)
Prepared ==
    pc \in {"dropBackup", "check", "backup", "publish"} => disk["temporary"] = goal

GoalHeld == goal = Nothing <=> pc = "idle"

(* What holds however often something goes wrong, and what only holds for  *)
(* one mishap at a time.                                                   *)
WholeInv == TypeOK /\ NeverPartial /\ GoalHeld /\ Prepared
RecordInv == WholeInv /\ Placement

(* Neither a partial nor a missing file reads as a record.                 *)
LEMMA MarksAreNoRecords == "absent" \notin Values /\ "partial" \notin Values
  BY ContentsAssumption

(* A rename that succeeds moves the content and frees the old name.        *)
LEMMA RenameMoves ==
    ASSUME disk \in [Names -> Contents], NEW from \in Names, NEW to \in Names,
           from # to, Rename(from, to)
    PROVE  /\ disk[from] # "absent" /\ disk[to] = "absent"
           /\ disk' \in [Names -> Contents]
           /\ disk'[to] = disk[from] /\ disk'[from] = "absent"
           /\ \A n \in Names \ {from, to} : disk'[n] = disk[n]
           /\ mishaps' = mishaps
  BY DEF Rename, CanRename, Contents

(* Whichever way persist returns, no trace of the save is left.            *)
LEMMA ReturnSettles ==
    ASSUME NEW value, Return(value)
    PROVE  pc' = "idle" /\ goal' = Nothing /\ previous' \in BOOLEAN /\ memory' = value
  BY DEF Return

(* A program that never saved is in order.                                 *)
LEMMA InitRecordInv == Init => RecordInv
<1> SUFFICES ASSUME Init PROVE RecordInv
  OBVIOUS
<1>1. \A n \in Names : disk[n] = "absent"
  BY DEF Init
<1>2. TypeOK
  <2>1. previous \in BOOLEAN
    BY DEF Init
  <2> QED
    BY <2>1, DefaultAssumption, MishapsAssumption DEF Init, TypeOK, Contents, Steps
<1>3. NeverPartial /\ Settled
  BY <1>1, MarksAreNoRecords DEF Init, NeverPartial, Settled, Loaded, Names
<1>4. GoalHeld /\ Prepared /\ Placement
  BY <1>3 DEF Init, GoalHeld, Prepared, Placement
<1> QED
  BY <1>2, <1>3, <1>4 DEF RecordInv, WholeInv

(* Only a record that was written to its end is ever renamed, whatever     *)
(* fails and however often the power goes.                                 *)
LEMMA WholeInvStep == ASSUME WholeInv, [Next]_vars PROVE WholeInv'
<1> USE DefaultAssumption, NothingAssumption, MarksAreNoRecords, MishapsAssumption
    DEF WholeInv, TypeOK, NeverPartial, GoalHeld, Prepared, Loaded, Names,
        Contents, Steps
<1>1. ASSUME NEW v \in Values, Begin(v) PROVE WholeInv'
  BY <1>1 DEF Begin
<1>2. CASE Clear
  BY <1>2 DEF Clear, Remove, Mishap
<1>3. CASE Open
  BY <1>3, ReturnSettles DEF Open
<1>4. CASE Write
  BY <1>4 DEF Write
<1>5. CASE DropBackup
  BY <1>5 DEF DropBackup, Remove, Mishap
<1>6. CASE Check
  BY <1>6 DEF Check
<1>7. CASE Backup
  BY <1>7, RenameMoves DEF Backup, RenameFails, CanRename, Mishap
<1>8. CASE Publish
  BY <1>8, RenameMoves DEF Publish, RenameFails, CanRename, Mishap
<1>9. CASE Rollback
  BY <1>9, RenameMoves DEF Rollback, RenameFails, CanRename, Mishap
<1>10. CASE GiveUp
  BY <1>10, ReturnSettles DEF GiveUp, Remove, Mishap
<1>11. CASE Clean
  BY <1>11, ReturnSettles DEF Clean, Mishap
<1>12. CASE PowerLoss
  BY <1>12, ReturnSettles DEF PowerLoss, Mishap
<1>13. CASE UNCHANGED vars
  BY <1>13 DEF vars
<1> QED
  BY <1>1, <1>2, <1>3, <1>4, <1>5, <1>6, <1>7, <1>8, <1>9, <1>10, <1>11, <1>12,
     <1>13 DEF Next

(* Every call of persist, whichever way it ends, and every power loss      *)
(* keeps the records where the next step, or the next start, expects them. *)
LEMMA PlacementStep ==
    ASSUME MaxMishaps <= 1, RecordInv, [Next]_vars
    PROVE  Placement'
<1> USE DefaultAssumption, NothingAssumption, MarksAreNoRecords, MishapsAssumption
    DEF RecordInv, WholeInv, TypeOK, NeverPartial, GoalHeld, Prepared, Placement,
        Settled, OldOrNone, Loaded, Names, Contents, Steps
<1>1. ASSUME NEW v \in Values, Begin(v) PROVE Placement'
  BY <1>1 DEF Begin
<1>2. CASE Clear
  BY <1>2 DEF Clear, Remove, Mishap
<1>3. CASE Open
  BY <1>3, ReturnSettles DEF Open
<1>4. CASE Write
  BY <1>4 DEF Write
<1>5. CASE DropBackup
  BY <1>5 DEF DropBackup, Remove, Mishap
<1>6. CASE Check
  BY <1>6 DEF Check
<1>7. CASE Backup
  BY <1>7, RenameMoves DEF Backup, RenameFails, CanRename, Mishap
<1>8. CASE Publish
  BY <1>8, RenameMoves DEF Publish, RenameFails, CanRename, Mishap
<1>9. CASE Rollback
  BY <1>9, RenameMoves DEF Rollback, RenameFails, CanRename, Mishap
<1>10. CASE GiveUp
  BY <1>10, ReturnSettles DEF GiveUp, Remove, Mishap
<1>11. CASE Clean
  BY <1>11, ReturnSettles DEF Clean, Mishap
<1>12. CASE PowerLoss
  BY <1>12, ReturnSettles DEF PowerLoss, Mishap
<1>13. CASE UNCHANGED vars
  BY <1>13 DEF vars
<1> QED
  BY <1>1, <1>2, <1>3, <1>4, <1>5, <1>6, <1>7, <1>8, <1>9, <1>10, <1>11, <1>12,
     <1>13 DEF Next

(* The invariant holds in every run with one mishap at a time.             *)
THEOREM RecordInvariant == ASSUME MaxMishaps <= 1 PROVE Spec => []RecordInv
<1>1. RecordInv /\ [Next]_vars => RecordInv'
  BY WholeInvStep, PlacementStep DEF RecordInv
<1> QED
  BY <1>1, InitRecordInv, PTL DEF Spec

(* However often calls fail and the power goes, every variable keeps its   *)
(* type and no partial record is found under a name that is loaded.        *)
THEOREM PartialNeverVisible == Spec => [](TypeOK /\ NeverPartial)
<1>1. Init => WholeInv
  BY InitRecordInv DEF RecordInv
<1>2. WholeInv /\ [Next]_vars => WholeInv'
  BY WholeInvStep
<1>3. WholeInv => TypeOK /\ NeverPartial
  BY DEF WholeInv
<1> QED
  BY <1>1, <1>2, <1>3, PTL DEF Spec

(* The types alone, which the program keeps whatever fails.                *)
THEOREM RecordTypes == Spec => []TypeOK
<1> QED
  BY PartialNeverVisible, PTL

(* Between two saves a restart finds what the program shows, whether the   *)
(* last save succeeded, failed or was rolled back.                         *)
THEOREM RestartFindsMemory ==
    ASSUME MaxMishaps <= 1 PROVE Spec => []MemoryOnDisk
<1>1. RecordInv => MemoryOnDisk
  BY DEF RecordInv, Placement, Settled, MemoryOnDisk
<1> QED
  BY <1>1, RecordInvariant, PTL

(* Each step of persist is a step of the register or invisible to it.      *)
LEMMA RegisterStep ==
    ASSUME MaxMishaps <= 1, RecordInv, [Next]_vars
    PROVE  [Register!Next]_(Register!vars)
<1> USE NothingAssumption DEF Register!vars
<1>1. ASSUME NEW v \in Values, Begin(v) PROVE Register!Next
  BY <1>1 DEF Begin, RecordInv, WholeInv, GoalHeld, Register!Next, Register!Begin
<1>2. ASSUME Return(memory), pc # "idle" PROVE Register!Next
  BY <1>2 DEF Return, RecordInv, WholeInv, GoalHeld, Register!Next, Register!Fail
<1>3. CASE Open
  BY <1>2, <1>3 DEF Open
<1>4. CASE GiveUp
  BY <1>2, <1>4 DEF GiveUp
<1>5. CASE Clean
  BY <1>5 DEF Clean, Return, RecordInv, WholeInv, GoalHeld, Register!Next, Register!Succeed
<1>6. CASE PowerLoss
  <2>1. Loaded \in {memory, goal}
    BY <1>6, DefaultAssumption, MarksAreNoRecords, MishapsAssumption
    DEF PowerLoss, Mishap, RecordInv, WholeInv, TypeOK, NeverPartial, GoalHeld,
        Placement, Settled, OldOrNone, Loaded, Names, Contents, Steps
  <2>2. Loaded # Nothing
    BY DefaultAssumption DEF Loaded
  <2> QED
    BY <1>6, <2>1, <2>2 DEF PowerLoss, Return, Register!Next, Register!PowerLoss
<1>7. ASSUME UNCHANGED <<goal, memory>> PROVE UNCHANGED Register!vars
  BY <1>7
<1>8. CASE Clear \/ Write \/ DropBackup \/ Check
  BY <1>7, <1>8 DEF Clear, Write, DropBackup, Check
<1>9. CASE Backup \/ Publish \/ Rollback
  BY <1>7, <1>9 DEF Backup, Publish, Rollback
<1>10. CASE UNCHANGED vars
  BY <1>7, <1>10 DEF vars
<1> QED
  BY <1>1, <1>3, <1>4, <1>5, <1>6, <1>8, <1>9, <1>10 DEF Next

(* The protocol implements the register: a save is atomic, across refused  *)
(* renames, failed writes and a power loss.                                *)
THEOREM RecordIsRegister == ASSUME MaxMishaps <= 1 PROVE Spec => RegisterSpec
<1>1. Init => Register!Init
  BY DEF Init, Register!Init
<1>2. RecordInv /\ [Next]_vars => [Register!Next]_(Register!vars)
  BY RegisterStep
<1> QED
  BY <1>1, <1>2, RecordInvariant, PTL DEF Spec, RegisterSpec, Register!Spec
=============================================================================
