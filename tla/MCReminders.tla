---------------------------- MODULE MCReminders ----------------------------
EXTENDS Reminders, TLC

(* Attendees are told apart by nothing, nor are events. *)
Interchangeable == Permutations(Attendees) \cup Permutations(Events)
=============================================================================
