------------------------- MODULE MCNotificationFeed -------------------------
EXTENDS NotificationFeed, TLC

(* Neither notifications nor requests are told apart by anything. *)
Interchangeable == Permutations(Notices) \cup Permutations(Senders)
=============================================================================
