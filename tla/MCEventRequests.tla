--------------------------- MODULE MCEventRequests ---------------------------
(* EventRequests on small sets of users, events and workers: the attendees are
   interchangeable, and so are the workers.                                *)
EXTENDS EventRequests, TLC

Interchangeable == Permutations(Attendees) \cup Permutations(Workers)
=============================================================================
