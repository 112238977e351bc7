------------------------------ MODULE MCSwitches ------------------------------
(***************************************************************************)
(* Reminder ids for checking ReminderSwitches: two that differ only in     *)
(* case, and share a key.                                                  *)
(***************************************************************************)
EXTENDS ReminderSwitches

MCSlug == [i \in Ids |-> IF i = "Tea" THEN "tea" ELSE i]
===============================================================================
