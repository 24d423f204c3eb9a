----------------------------- MODULE RecordStore -----------------------------
(***************************************************************************)
(* What a persistent record promises: a register.  A save takes effect as  *)
(* a whole or not at all; if the power goes while it runs, either may have *)
(* happened.                                                               *)
(***************************************************************************)
CONSTANTS
    Values,    (* the contents a record may have      *)
    Default,   (* what a program without a record has *)
    Nothing    (* no save is running                  *)

VARIABLES
    stored,    \* the value the program, or its next start, goes by
    saving     \* the value being saved

vars == <<stored, saving>>

Init == stored = Default /\ saving = Nothing

Begin(v) == saving = Nothing /\ saving' = v /\ UNCHANGED stored

Succeed == saving # Nothing /\ stored' = saving /\ saving' = Nothing

Fail == saving # Nothing /\ saving' = Nothing /\ UNCHANGED stored

PowerLoss == stored' \in {stored, saving} \ {Nothing} /\ saving' = Nothing

Next == (\E v \in Values : Begin(v)) \/ Succeed \/ Fail \/ PowerLoss

Spec == Init /\ [][Next]_vars
=============================================================================
