------------------------- MODULE RegistrationService -------------------------
(***************************************************************************)
(* Taking and giving up a seat.  RSVP checks the event, the caller's own   *)
(* registration and the number of seats taken in three separate reads, and *)
(* only then writes; the capacity it compares with is the one of the first *)
(* read.                                                                   *)
(***************************************************************************)
EXTENDS Store

\* Mutant: an event with closed registration passes for a public one.
RsvpWhileListed(w, u, e) ==
    /\ e \in ListPublished
    /\ Begin(w, [pc |-> "get_status", op |-> "rsvp", event |-> e, user |-> u,
                 row |-> events[e], todo |-> {}])

Rsvp(w, u, e) ==
    /\ events[e].status = "published"
    /\ Begin(w, [pc |-> "get_status", op |-> "rsvp", event |-> e, user |-> u,
                 row |-> events[e], todo |-> {}])

GetStatus(w) ==
    LET r == requests[w] IN
    /\ r.pc = "get_status"
    /\ Goto(w, IF registrations[r.event][r.user] = "registered"
               THEN Idle ELSE [r EXCEPT !.pc = "count"])
    /\ UNCHANGED <<tables, history, issued, faults>>

(* RSVP tests err == nil && status == "registered": when the read itself
   fails the caller is taken to be unregistered.                           *)
GetStatusFails(w) ==
    /\ Fault
    /\ requests[w].pc = "get_status"
    /\ Goto(w, [requests[w] EXCEPT !.pc = "count"])
    /\ UNCHANGED <<tables, history, issued>>

\* Mutant: one seat too many.
CountActiveOffByOne(w) ==
    LET r == requests[w] IN
    /\ r.pc = "count"
    /\ Goto(w, IF CountActiveByEvent(r.event) > r.row.capacity
               THEN Idle ELSE [r EXCEPT !.pc = "register"])
    /\ UNCHANGED <<tables, history, issued, faults>>

CountActive(w) ==
    LET r == requests[w] IN
    /\ r.pc = "count"
    /\ Goto(w, IF CountActiveByEvent(r.event) >= r.row.capacity
               THEN Idle ELSE [r EXCEPT !.pc = "register"])
    /\ UNCHANGED <<tables, history, issued, faults>>

(* History only: a seat taken behind the organizer's back. *)
NoteLate(u, e) ==
    late' = [late EXCEPT ![e] =
                IF events[e].status = "published" THEN @ \ {u}
                ELSE IF u \in Registered(e) THEN @ ELSE @ \cup {u}]

Register(w) ==
    LET r == requests[w] IN
    /\ r.pc = "register"
    /\ UpsertRegistered(r.user, r.event)
    /\ NoteLate(r.user, r.event)
    /\ Goto(w, Notifying(r, {r.user}))
    /\ UNCHANGED <<events, notices, writes, lost, issued, faults>>

(* DELETE .../rsvp: a single UPDATE of a row that is still registered.  The
   event is not looked at.                                                 *)
CancelRsvp(u, e) ==
    /\ registrations[e][u] = "registered"
    /\ SetCancelled(u, e)
    /\ UNCHANGED <<events, notices, requests, issued, faults, history>>
=============================================================================
