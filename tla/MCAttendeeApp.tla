---------------------------- MODULE MCAttendeeApp ----------------------------
EXTENDS AttendeeApp

CONSTANTS concert, music, art

(* One event, a concert on the coming Saturday. *)
OneEvent == {concert}
MCInCategory == [c \in Categories |-> IF c = music THEN {concert} ELSE {}]
MCDayOf == [e \in OneEvent |-> 6]
NoMentions == [t \in {} |-> {}]
=============================================================================
