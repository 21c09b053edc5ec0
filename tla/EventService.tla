---------------------------- MODULE EventService ----------------------------
(***************************************************************************)
(* The operations on an event: submission, moderation by an admin, and the *)
(* organizer's own edits, cancellation and closing of registration.  Each  *)
(* but Create is a read (with its guards and the assignments to the struct *)
(* it fills), a full-row write, and the notices that follow.               *)
(***************************************************************************)
EXTENDS Store

(* A single INSERT, so it needs no worker. *)
Create(o, e, c) ==
    /\ ~Found(e)
    /\ InsertEvent(e, NewEvent(o, c))
    /\ UNCHANGED <<registrations, notices, requests, issued, faults, approved, late, lost>>

BeginUpdate(w, op, u, e, row) ==
    Begin(w, [pc |-> "update", op |-> op, event |-> e, user |-> u,
              row |-> row, todo |-> {}])

-----------------------------------------------------------------------------
(* Moderation: the event must be pending when it is read. *)
Approve(w, e) ==
    /\ events[e].status = "pending"
    /\ BeginUpdate(w, "approve", None, e,
                   [events[e] EXCEPT !.status = "published", !.hasReason = FALSE])

(* Without a new reason the one of an earlier change request is kept. *)
Reject(w, e, withReason) ==
    /\ events[e].status = "pending"
    /\ BeginUpdate(w, "reject", None, e,
                   [events[e] EXCEPT !.status = "rejected",
                                     !.hasReason = @ \/ withReason])

(* The event stays pending; a reason is required. *)
RequestChanges(w, e) ==
    /\ events[e].status = "pending"
    /\ BeginUpdate(w, "request_changes", None, e, [events[e] EXCEPT !.hasReason = TRUE])

-----------------------------------------------------------------------------
(* The organizer's operations: only the owner gets past the first check. *)
OwnedBy(o, e) == Found(e) /\ events[e].organizer = o

(* The new capacity is not compared with the seats taken; status and reason
   are written back as they were read.                                     *)
UpdateMine(w, o, e, c) ==
    /\ OwnedBy(o, e)
    /\ events[e].status # "cancelled"
    /\ BeginUpdate(w, "update_mine", o, e, [events[e] EXCEPT !.capacity = c])

\* Mutant: cancelling an event that is cancelled already is not refused.
CancelAgain(w, o, e) ==
    /\ OwnedBy(o, e)
    /\ BeginUpdate(w, "cancel_mine", o, e, [events[e] EXCEPT !.status = "cancelled"])

CancelMine(w, o, e) ==
    /\ OwnedBy(o, e)
    /\ events[e].status # "cancelled"
    /\ BeginUpdate(w, "cancel_mine", o, e, [events[e] EXCEPT !.status = "cancelled"])

\* Mutant: registration can be closed before the event is published.
CloseAnyTime(w, o, e) ==
    /\ OwnedBy(o, e)
    /\ events[e].status # "cancelled"
    /\ BeginUpdate(w, "close", o, e,
                   [events[e] EXCEPT !.status = "registration_closed"])

CloseRegistrationMine(w, o, e) ==
    /\ OwnedBy(o, e)
    /\ events[e].status = "published"
    /\ BeginUpdate(w, "close", o, e,
                   [events[e] EXCEPT !.status = "registration_closed"])

\* Mutant: everything that is not open can be reopened.
ReopenAnything(w, o, e) ==
    /\ OwnedBy(o, e)
    /\ events[e].status # "published"
    /\ BeginUpdate(w, "reopen", o, e, [events[e] EXCEPT !.status = "published"])

ReopenRegistrationMine(w, o, e) ==
    /\ OwnedBy(o, e)
    /\ events[e].status = "registration_closed"
    /\ BeginUpdate(w, "reopen", o, e, [events[e] EXCEPT !.status = "published"])

-----------------------------------------------------------------------------
(* What each operation does once its UPDATE has returned. *)
AfterUpdate(request) ==
    CASE request.op \in {"approve", "reject", "request_changes"} ->
            Notifying(request, {request.row.organizer})
      [] request.op = "cancel_mine" ->
            [request EXCEPT !.pc = "list_registered", !.row = NoRow]
      [] OTHER -> Idle

Update(w) ==
    LET r == requests[w] IN
    /\ r.pc = "update"
    /\ UpdateEvent(r.event, r.row)
    /\ approved' = IF r.op = "approve" THEN approved \cup {r.event} ELSE approved
    /\ Goto(w, AfterUpdate(r))
    /\ UNCHANGED <<registrations, notices, issued, faults, late, lost>>

(* CancelMine reads whom to notify after the event is already cancelled. *)
ListRegistered(w) ==
    LET r == requests[w] IN
    /\ r.pc = "list_registered"
    /\ Goto(w, Notifying(r, ListUserIDsByEvent(r.event)))
    /\ UNCHANGED <<tables, history, issued, faults>>
=============================================================================
