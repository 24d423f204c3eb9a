---------------------------- MODULE AtomicRecord ----------------------------
(***************************************************************************)
(* A record replaced through a temporary file and a rollback copy, the way *)
(* preferences.cpp (persist) and pin_collection.cpp (save) do it, call by  *)
(* call, with calls that fail and power that goes.                         *)
(*                                                                         *)
(* The file system is external and assumed to be well-behaved: a call that *)
(* succeeds takes effect at once and lasts, one that fails changes         *)
(* nothing, and a rename onto an existing name fails.                      *)
(***************************************************************************)
EXTENDS Naturals

CONSTANTS
    Values,       (* the contents a record may have                         *)
    Default,      (* the content that stands for a missing record           *)
    Nothing,      (* no save is running                                     *)
    MaxMishaps    (* bound: power losses and refused renames and removals   *)
                  (* between two saves that succeed                         *)

(* What a name holds: a valid record, one whose checksum is wrong because  *)
(* writing it did not finish, or no file.                                  *)
Contents == Values \cup {"partial", "absent"}

ASSUME DefaultAssumption == Default \in Values
ASSUME NothingAssumption == Nothing \notin Values
ASSUME ContentsAssumption == {"partial", "absent"} \cap Values = {}
ASSUME MishapsAssumption == MaxMishaps \in Nat

Names == {"current", "backup", "temporary"}

VARIABLES
    disk,      \* what each name holds
    pc,        \* where persist is
    goal,      \* the value being saved
    previous,  \* persist's had_previous
    memory,    \* the value in memory (g_flags)
    mishaps    \* how much went wrong since a save last succeeded

vars == <<disk, pc, goal, previous, memory, mishaps>>

Steps == {"idle", "clear", "open", "write", "dropBackup", "check", "backup",
          "publish", "rollback", "giveUp", "clean"}

Init ==
    /\ disk = [n \in Names |-> "absent"]
    /\ pc = "idle" /\ goal = Nothing /\ previous = FALSE
    /\ memory = Default
    /\ mishaps = 0

-----------------------------------------------------------------------------
Mishap == mishaps < MaxMishaps /\ mishaps' = mishaps + 1

(* sceIoRemove, whose result nobody looks at.                              *)
Remove(name) ==
    \/ disk' = [disk EXCEPT ![name] = "absent"] /\ UNCHANGED mishaps
    \/ disk[name] # "absent" /\ Mishap /\ UNCHANGED disk

(* sceIoRename.  It fails, too, when there is nothing to rename or when    *)
(* the target exists, which is no mishap of the device.                    *)
CanRename(from, to) == disk[from] # "absent" /\ disk[to] = "absent"

Rename(from, to) ==
    /\ CanRename(from, to)
    /\ disk' = [disk EXCEPT ![to] = disk[from], ![from] = "absent"]
    /\ UNCHANGED mishaps

RenameFails(from, to) ==
    /\ IF CanRename(from, to) THEN Mishap ELSE UNCHANGED mishaps
    /\ UNCHANGED disk

(* Mutant: the caller takes the new value without looking at the result.   *)
ReturnGoal(value) ==
    /\ pc' = "idle" /\ goal' = Nothing /\ previous' = FALSE
    /\ memory' = goal

(* persist returns, and the caller takes the new value on success only.    *)
Return(value) ==
    /\ pc' = "idle" /\ goal' = Nothing /\ previous' = FALSE
    /\ memory' = value

-----------------------------------------------------------------------------
(* A setter whose value changes calls persist.                             *)
Begin(v) ==
    /\ pc = "idle" /\ v # memory
    /\ goal' = v
    /\ pc' = "clear"
    /\ UNCHANGED <<disk, previous, memory, mishaps>>

(* The temporary file of an earlier attempt.                               *)
Clear ==
    /\ pc = "clear"
    /\ Remove("temporary")
    /\ pc' = "open"
    /\ UNCHANGED <<goal, previous, memory>>

(* sceIoOpen with SCE_O_CREAT and SCE_O_TRUNC.                             *)
Open ==
    /\ pc = "open"
    /\ \/ /\ disk' = [disk EXCEPT !["temporary"] = "partial"]
          /\ pc' = "write"
          /\ UNCHANGED <<goal, previous, memory>>
       \/ Return(memory) /\ UNCHANGED disk
    /\ UNCHANGED mishaps

(* Mutant: the results of the writes are not looked at.                    *)
WriteUnchecked ==
    /\ pc = "write"
    /\ \E written \in {goal, "partial"} :
          disk' = [disk EXCEPT !["temporary"] = written]
    /\ pc' = "dropBackup"
    /\ UNCHANGED <<goal, previous, memory, mishaps>>

(* write_all, sceIoSyncByFd and sceIoClose: all succeed or one does not.   *)
Write ==
    /\ pc = "write"
    /\ \/ disk' = [disk EXCEPT !["temporary"] = goal] /\ pc' = "dropBackup"
       \/ pc' = "giveUp" /\ UNCHANGED disk
    /\ UNCHANGED <<goal, previous, memory, mishaps>>

DropBackup ==
    /\ pc = "dropBackup"
    /\ Remove("backup")
    /\ pc' = "check"
    /\ UNCHANGED <<goal, previous, memory>>

(* path_exists                                                             *)
Check ==
    /\ pc = "check"
    /\ previous' = (disk["current"] # "absent")
    /\ pc' = IF previous' THEN "backup" ELSE "publish"
    /\ UNCHANGED <<disk, goal, memory, mishaps>>

(* Mutant: the old record is removed, as gpx.cpp does with its history.    *)
RemoveCurrent ==
    /\ pc = "backup"
    /\ Remove("current")
    /\ pc' = "publish"
    /\ UNCHANGED <<goal, previous, memory>>

Backup ==
    /\ pc = "backup"
    /\ \/ Rename("current", "backup") /\ pc' = "publish"
       \/ RenameFails("current", "backup") /\ pc' = "giveUp"
    /\ UNCHANGED <<goal, previous, memory>>

Publish ==
    /\ pc = "publish"
    /\ \/ Rename("temporary", "current") /\ pc' = "clean"
       \/ RenameFails("temporary", "current") /\ pc' = "rollback"
    /\ UNCHANGED <<goal, previous, memory>>

(* Put the previous record back; nobody looks at the result.               *)
Rollback ==
    /\ pc = "rollback"
    /\ IF previous
       THEN Rename("backup", "current") \/ RenameFails("backup", "current")
       ELSE UNCHANGED <<disk, mishaps>>
    /\ pc' = "giveUp"
    /\ UNCHANGED <<goal, previous, memory>>

(* Mutant: an error of the last rename is not passed on.                   *)
GiveUpQuietly ==
    /\ pc = "giveUp"
    /\ Remove("temporary")
    /\ Return(goal)

GiveUp ==
    /\ pc = "giveUp"
    /\ Remove("temporary")
    /\ Return(memory)

(* sceIoSync; then the rollback copy has served its purpose.               *)
Clean ==
    /\ pc = "clean"
    /\ \/ /\ disk' = IF previous THEN [disk EXCEPT !["backup"] = "absent"] ELSE disk
          /\ mishaps' = 0
       \/ previous /\ disk["backup"] # "absent" /\ Mishap /\ UNCHANGED disk
    /\ Return(goal)

-----------------------------------------------------------------------------
(* preferences_init: load_path on the record, then on its backup, else the *)
(* default.                                                                *)
Loaded ==
    IF disk["current"] \in Values THEN disk["current"]
    ELSE IF disk["backup"] \in Values THEN disk["backup"]
    ELSE Default

(* The power goes, and the program starts again.                           *)
PowerLoss ==
    /\ Mishap
    /\ Return(Loaded)
    /\ UNCHANGED disk

Next ==
    \/ \E v \in Values : Begin(v)
    \/ Clear \/ Open \/ Write \/ DropBackup \/ Check \/ Backup \/ Publish
    \/ Rollback \/ GiveUp \/ Clean \/ PowerLoss

Spec == Init /\ [][Next]_vars

-----------------------------------------------------------------------------
(* Every variable keeps its type.                                          *)
TypeOK ==
    /\ disk \in [Names -> Contents]
    /\ pc \in Steps
    /\ goal \in Values \cup {Nothing}
    /\ previous \in BOOLEAN
    /\ memory \in Values
    /\ mishaps \in 0..MaxMishaps

(* Power loss cannot expose a partially written record.                    *)
NeverPartial == disk["current"] # "partial" /\ disk["backup"] # "partial"

(* Between two saves a restart finds exactly what is in memory, however    *)
(* the last save ended: a save that reports an error has changed nothing,  *)
(* one that reports success has changed the disk.                          *)
MemoryOnDisk == pc = "idle" => memory = Loaded

(* persist makes the record a register (RecordStore).                      *)
Register == INSTANCE RecordStore WITH stored <- memory, saving <- goal
RegisterSpec == Register!Spec
=============================================================================
