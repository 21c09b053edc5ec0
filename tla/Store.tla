-------------------------------- MODULE Store --------------------------------
(***************************************************************************)
(* The PostgreSQL tables behind events and registrations, the statements   *)
(* the repositories issue on them, and the Go side of a request in         *)
(* progress.  No repository opens a transaction: every statement commits   *)
(* by itself, and what a request read earlier lives on in its goroutine as *)
(* a Go struct that may be stale by the time it is written back.           *)
(***************************************************************************)
EXTENDS Integers, FiniteSets

CONSTANTS Events,       \* event ids
          Organizers,   \* users whose token has the organizer or admin role
          Attendees,    \* authenticated users that may hold a seat
          Capacities,   \* seat counts an organizer may ask for
          Workers,      \* requests that can be in progress at once
          None,         \* a field of a request that is not in use
          MaxRequests,  \* bound on the multi-statement requests served
          MaxFaults     \* bound on disconnects and failed statements

ASSUME CapacitiesArePositive == Capacities \subseteq Nat \ {0}
ASSUME WorkersAreFinite == IsFiniteSet(Workers)
ASSUME AttendeesAreFinite == IsFiniteSet(Attendees)
ASSUME BoundsAreNatural == MaxRequests \in Nat /\ MaxFaults \in Nat
ASSUME NoneIsFresh == None \notin Events \cup Organizers \cup Attendees

VARIABLES events,         \* table events
          registrations,  \* table event_registrations
          notices,        \* table notifications: rows per kind, event, recipient
          requests,       \* what each worker's goroutine holds
          issued,         \* bound: requests begun
          faults,         \* bound: faults injected
          approved,       \* history: events an approval has been written for
          peak,           \* history: largest capacity ever written for an event
          past,           \* history: status and capacity of each row an event had
          revived,        \* history: writes that moved an event out of cancelled
          late,           \* history: who took a seat of an event not published
          lost            \* history: whose cancellation notice a fault took

tables == <<events, registrations, notices>>
writes == <<approved, peak, past, revived>>
history == <<approved, peak, past, revived, late, lost>>
vars == <<events, registrations, notices, requests, issued, faults,
          approved, peak, past, revived, late, lost>>

-----------------------------------------------------------------------------
Users == Organizers \cup Attendees

EventStatus == {"pending", "published", "rejected", "cancelled", "registration_closed"}
Public == {"published", "registration_closed"}

(* Texts, dates and places are left out: nothing below reads them. *)
Event == [status: EventStatus, hasReason: BOOLEAN, capacity: Capacities,
          organizer: Organizers]

(* What a SELECT by id finds where no row was inserted. *)
NoRow == [status |-> "absent", hasReason |-> FALSE, capacity |-> 0, organizer |-> None]

RegistrationStatus == {"none", "registered", "cancelled"}
NoticeKind == {"event_approved", "event_rejected", "event_changes_requested",
               "event_cancelled", "rsvp_confirmed"}

(* The statement a request will issue next. *)
Step == {"idle", "update", "list_registered", "get_status", "count", "register",
         "notify", "deliver"}
Operation == {"none", "approve", "reject", "request_changes", "update_mine",
              "cancel_mine", "close", "reopen", "rsvp"}

(* row is the struct read by GetByID with the handler's assignments made to
   it; todo is who is still to be notified.                                *)
Request == [pc: Step, op: Operation, event: Events \cup {None},
            user: Users \cup {None}, row: Event \cup {NoRow}, todo: SUBSET Users]

Idle == [pc |-> "idle", op |-> "none", event |-> None, user |-> None,
         row |-> NoRow, todo |-> {}]

-----------------------------------------------------------------------------
(* EventRepository.  There is no DELETE, so a row once read is there to be
   updated, and the UPDATE writes every column with only the id in its WHERE. *)
NewEvent(o, c) ==
    [status |-> "pending", hasReason |-> FALSE, capacity |-> c, organizer |-> o]

(* What the lifecycle of an event is about. *)
Version(row) == [status |-> row.status, capacity |-> row.capacity]

(* History only. *)
Remember(e, row) ==
    /\ peak' = [peak EXCEPT ![e] = IF row.capacity > @ THEN row.capacity ELSE @]
    /\ past' = [past EXCEPT ![e] = @ \cup {Version(row)}]
    /\ revived' = [revived EXCEPT ![e] =
          IF events[e].status = "cancelled" /\ row.status # "cancelled" THEN @ + 1 ELSE @]

InsertEvent(e, row) ==
    /\ events' = [events EXCEPT ![e] = row]
    /\ Remember(e, row)

Found(e) == events[e].status # "absent"

UpdateEvent(e, row) ==
    /\ events' = [events EXCEPT ![e] = row]
    /\ Remember(e, row)

(* What discovery lists and what the detail page shows. *)
ListPublished == {e \in Events : events[e].status \in Public}

(* RegistrationRepository. *)
Registered(e) == {u \in Attendees : registrations[e][u] = "registered"}
CountActiveByEvent(e) == Cardinality(Registered(e))
\* Mutant: the WHERE on status is forgotten.
ListEverybody(e) == Attendees
ListUserIDsByEvent(e) == Registered(e)
UpsertRegistered(u, e) == registrations' = [registrations EXCEPT ![e][u] = "registered"]
\* Mutant: a spelling the CHECK constraint of the table does not know.
SetCancelledMisspelt(u, e) == registrations' = [registrations EXCEPT ![e][u] = "canceled"]
SetCancelled(u, e) == registrations' = [registrations EXCEPT ![e][u] = "cancelled"]

(* NotificationRepository.Create: one more row of this kind for u. *)
InsertNotice(kind, e, u) == notices' = [notices EXCEPT ![kind][e][u] = @ + 1]

-----------------------------------------------------------------------------
(* A request begins on an idle worker and runs one statement per step. *)
Begin(w, request) ==
    /\ requests[w] = Idle
    /\ issued < MaxRequests
    /\ issued' = issued + 1
    /\ requests' = [requests EXCEPT ![w] = request]
    /\ UNCHANGED <<tables, history, faults>>

Goto(w, request) == requests' = [requests EXCEPT ![w] = request]

(* The rest of a request that only has notices left to create. *)
Notifying(request, people) ==
    IF people = {} THEN Idle
    ELSE [request EXCEPT !.pc = "notify", !.row = NoRow, !.todo = people]

(* While one notice is on its way, the rest of people wait. *)
Delivering(request, people) == [request EXCEPT !.pc = "deliver", !.todo = people]

NoticeOf(op) ==
    CASE op = "approve" -> "event_approved"
      [] op = "reject" -> "event_rejected"
      [] op = "request_changes" -> "event_changes_requested"
      [] op = "cancel_mine" -> "event_cancelled"
      [] OTHER -> "rsvp_confirmed"

\* Mutant: the loop returns after its first recipient.
CreateFirstNotice(w) ==
    /\ requests[w].pc = "notify"
    /\ \E u \in requests[w].todo :
          /\ InsertNotice(NoticeOf(requests[w].op), requests[w].event, u)
          /\ Goto(w, Idle)
    /\ UNCHANGED <<events, registrations, issued, faults, history>>

(* NotificationService.Create for one recipient: the INSERT, ... *)
CreateNotice(w) ==
    /\ requests[w].pc = "notify"
    /\ \E u \in requests[w].todo :
          /\ InsertNotice(NoticeOf(requests[w].op), requests[w].event, u)
          /\ Goto(w, Delivering(requests[w], requests[w].todo \ {u}))
    /\ UNCHANGED <<events, registrations, issued, faults, history>>

(* ... and then the write to the recipient's sockets, which has no deadline, and
   the call of the push service, which has no timeout.  Either may never
   return, and the recipients after this one wait for it; a cancellation comes
   back for the next of them until its loop is over.                       *)
Deliver(w) ==
    /\ requests[w].pc = "deliver"
    /\ Goto(w, Notifying(requests[w], requests[w].todo))
    /\ UNCHANGED <<tables, history, issued, faults>>

-----------------------------------------------------------------------------
Fault ==
    /\ faults < MaxFaults
    /\ faults' = faults + 1

Lose(e, people) == lost' = [lost EXCEPT ![e] = @ \cup people]

(* Whom a cancellation that stops here leaves without a notice. *)
Untold(r) ==
    IF r.op # "cancel_mine" THEN {}
    ELSE IF r.pc = "list_registered" THEN Registered(r.event) ELSE r.todo

(* The client goes away and r.Context() is cancelled, the process dies, or a
   statement the request cannot do without fails, the list of a cancellation's
   recipients among them: nothing more is done, and what was committed stays. *)
Abandon(w) ==
    /\ Fault
    /\ requests[w] # Idle
    /\ Lose(requests[w].event, Untold(requests[w]))
    /\ Goto(w, Idle)
    /\ UNCHANGED <<tables, writes, late, issued>>

\* Mutant: an INSERT that fails ends the loop.
LoseTheRest(w) ==
    /\ Fault
    /\ requests[w].pc = "notify"
    /\ \E u \in requests[w].todo :
          /\ Lose(requests[w].event, Untold(requests[w]) \cap {u})
          /\ Goto(w, Idle)
    /\ UNCHANGED <<tables, writes, late, issued>>

(* The INSERT of one notice fails; its error is discarded (_ =) and the
   request goes on with the next recipient.                                *)
LoseNotice(w) ==
    /\ Fault
    /\ requests[w].pc = "notify"
    /\ \E u \in requests[w].todo :
          /\ Lose(requests[w].event, Untold(requests[w]) \cap {u})
          /\ Goto(w, Notifying(requests[w], requests[w].todo \ {u}))
    /\ UNCHANGED <<tables, writes, late, issued>>
=============================================================================
