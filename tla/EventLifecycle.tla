--------------------------- MODULE EventLifecycle ---------------------------
(***************************************************************************)
(* What NearEvent promises of one event however its requests interleave:   *)
(* the moderation and registration states an event moves through, the      *)
(* seats it offers, and who holds one.  Each action is one write that took *)
(* effect; there are no reads, notices or failures here.                   *)
(*                                                                         *)
(* A write is one accepted operation on a row the event really had, but    *)
(* not always on the row it has: nothing ties a write to the row it is     *)
(* made over, so an edit or a closing may bring an older state back.  What *)
(* cannot happen is a state no single operation leads to from a state the  *)
(* event was in.                                                           *)
(***************************************************************************)
EXTENDS Naturals

CONSTANTS Events,       \* event ids
          Attendees,    \* users that may hold a seat
          Capacities    \* seat counts an organizer may ask for

VARIABLES version,      \* the status and capacity of each event
          past,         \* all it ever had
          attending     \* holders of a seat

vars == <<version, past, attending>>

Init ==
    /\ version = [e \in Events |-> [status |-> "absent", capacity |-> 0]]
    /\ past = [e \in Events |-> {}]
    /\ attending = [e \in Events |-> {}]

Write(e, v) ==
    /\ version' = [version EXCEPT ![e] = v]
    /\ past' = [past EXCEPT ![e] = @ \cup {v}]
    /\ UNCHANGED attending

Move(e, from, to) ==
    \E old \in past[e] :
        old.status \in from /\ Write(e, [status |-> to, capacity |-> old.capacity])

Submit(e, c) ==
    /\ past[e] = {}
    /\ Write(e, [status |-> "pending", capacity |-> c])

Publish(e) == Move(e, {"pending"}, "published")
Decline(e) == Move(e, {"pending"}, "rejected")
Ask(e)     == Move(e, {"pending"}, "pending")
Close(e)   == Move(e, {"published"}, "registration_closed")
Reopen(e)  == Move(e, {"registration_closed"}, "published")
Cancel(e)  ==
    Move(e, {"pending", "rejected", "published", "registration_closed"}, "cancelled")

Edit(e, c) ==
    \E old \in past[e] :
        old.status # "cancelled" /\ Write(e, [status |-> old.status, capacity |-> c])

\* A seat is taken only of an event that was open at some time.
Join(u, e) ==
    /\ \E old \in past[e] : old.status = "published"
    /\ attending' = [attending EXCEPT ![e] = @ \cup {u}]
    /\ UNCHANGED <<version, past>>

\* A seat can be given up in any state of the event.
Leave(u, e) ==
    /\ attending' = [attending EXCEPT ![e] = @ \ {u}]
    /\ UNCHANGED <<version, past>>

Next ==
    \E e \in Events :
        \/ Publish(e) \/ Decline(e) \/ Ask(e) \/ Close(e) \/ Reopen(e) \/ Cancel(e)
        \/ \E c \in Capacities : Submit(e, c) \/ Edit(e, c)
        \/ \E u \in Attendees : Join(u, e) \/ Leave(u, e)

Spec == Init /\ [][Next]_vars
=============================================================================
