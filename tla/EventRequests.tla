---------------------------- MODULE EventRequests ----------------------------
(***************************************************************************)
(* The API server's event and registration requests running side by side:  *)
(* net/http gives each request a goroutine, the tables are shared, and any *)
(* two statements of different requests may be ordered either way.         *)
(***************************************************************************)
EXTENDS EventService, RegistrationService

Init ==
    /\ events = [e \in Events |-> NoRow]
    /\ registrations = [e \in Events |-> [u \in Attendees |-> "none"]]
    /\ notices = [k \in NoticeKind |-> [e \in Events |-> [u \in Users |-> 0]]]
    /\ requests = [w \in Workers |-> Idle]
    /\ issued = 0
    /\ faults = 0
    /\ approved = {}
    /\ peak = [e \in Events |-> 0]
    /\ past = [e \in Events |-> {}]
    /\ revived = [e \in Events |-> 0]
    /\ late = [e \in Events |-> {}]
    /\ lost = [e \in Events |-> {}]

(* The router: admins moderate, organizers manage, any authenticated user may
   RSVP.                                                                   *)
ModerationRoutes(w, e) ==
    \/ Approve(w, e)
    \/ \E withReason \in BOOLEAN : Reject(w, e, withReason)
    \/ RequestChanges(w, e)

OrganizerRoutes(w, o, e) ==
    \/ \E c \in Capacities : UpdateMine(w, o, e, c)
    \/ CancelMine(w, o, e)
    \/ CloseRegistrationMine(w, o, e)
    \/ ReopenRegistrationMine(w, o, e)

Accept(w) ==
    \E e \in Events :
        \/ ModerationRoutes(w, e)
        \/ \E o \in Organizers : OrganizerRoutes(w, o, e)
        \/ \E u \in Attendees : Rsvp(w, u, e)

Continue(w) ==
    \/ Update(w)
    \/ ListRegistered(w)
    \/ GetStatus(w)
    \/ CountActive(w)
    \/ Register(w)
    \/ CreateNotice(w)

Fail(w) == Abandon(w) \/ LoseNotice(w) \/ GetStatusFails(w)

Next ==
    \/ \E o \in Organizers, e \in Events, c \in Capacities : Create(o, e, c)
    \/ \E u \in Attendees, e \in Events : CancelRsvp(u, e)
    \/ \E w \in Workers : Accept(w) \/ Continue(w) \/ Deliver(w) \/ Fail(w)

Spec == Init /\ [][Next]_vars

(* The Go scheduler runs every goroutine and PostgreSQL answers every
   statement, so a request that has a statement to issue goes on.  Nothing
   makes clients send requests, and nothing makes a delivery return.       *)
FairSpec == Spec /\ \A w \in Workers : WF_vars(Continue(w))

-----------------------------------------------------------------------------
(* Every table, request and bound holds a value of its type. *)
TypeOK ==
    /\ events \in [Events -> Event \cup {NoRow}]
    /\ registrations \in [Events -> [Attendees -> RegistrationStatus]]
    /\ notices \in [NoticeKind -> [Events -> [Users -> Nat]]]
    /\ requests \in [Workers -> Request]
    /\ issued \in 0..MaxRequests
    /\ faults \in 0..MaxFaults
    /\ approved \subseteq Events
    /\ peak \in [Events -> Nat]
    /\ past \in [Events -> SUBSET [status: EventStatus, capacity: Capacities]]
    /\ revived \in [Events -> Nat]
    /\ late \in [Events -> SUBSET Attendees]
    /\ lost \in [Events -> SUBSET Attendees]

(* Moderation gate: whatever the interleaving of stale full-row writes, an
   event is visible to attendees, or has attendees, only if an admin's
   approval of it was written at some time.                                *)
NothingPublicUnapproved ==
    \A e \in Events :
        e \in ListPublished \/ Registered(e) # {} => e \in approved

(* RSVP's check-then-insert oversells, but only by the requests that can be
   between the count and the insert at once: one seat per worker but the one
   that takes the last free seat, counted from the largest capacity the event
   ever had.                                                               *)
OverbookingBounded ==
    \A e \in Events :
        Registered(e) # {} =>
            Cardinality(Registered(e)) <= peak[e] + Cardinality(Workers) - 1

(* A confirmation or a cancellation notice is only ever created for a user
   who has a registration row of that event, registered or given up.       *)
NoticesMatchRows ==
    \A e \in Events, u \in Attendees :
        notices["rsvp_confirmed"][e][u] + notices["event_cancelled"][e][u] > 0
            => registrations[e][u] # "none"

Writing(w, e) == requests[w].pc = "update" /\ requests[w].event = e
Joining(w, e) ==
    requests[w].pc \in {"get_status", "count", "register"} /\ requests[w].event = e

(* The event is cancelled and no request in progress read it before it was. *)
CancelSettled(e) ==
    /\ events[e].status = "cancelled"
    /\ \A w \in Workers : Writing(w, e) => requests[w].row.status = "cancelled"

(* The terminal state cancelled is safe from everything but requests that
   were already running: once the last write holding an older row is through,
   the event stays cancelled for good, whatever is requested next.         *)
SettledCancelIsFinal == [][\A e \in Events : CancelSettled(e) => CancelSettled(e)']_vars

DoorShut(e) ==
    /\ events[e].status # "published"
    /\ \A w \in Workers : ~Joining(w, e)

(* Closing registration, cancelling or never publishing shuts the door: while
   the event is not published and no RSVP that saw it published is still
   running, nobody gains a seat.  Seats already held may be given up.      *)
NobodyJoinsBehindTheDoor ==
    [][\A e \in Events : DoorShut(e) =>
            /\ Registered(e)' \subseteq Registered(e)
            /\ \A w \in Workers : ~Joining(w, e)']_vars

-----------------------------------------------------------------------------
(* The inductive strengthening of the invariants above: what a request holds
   in its goroutine at each of its steps.                                  *)

(* A request between two statements has the fields its next statement uses. *)
WellFormed(r) ==
    /\ IF r.pc = "idle" THEN r = Idle ELSE r.event \in Events
    /\ r.pc = "update" => r.row \in Event /\ r.op \notin {"none", "rsvp"}
    /\ r.pc = "list_registered" => r.op = "cancel_mine"
    /\ r.pc \in {"get_status", "count", "register"} =>
          r.op = "rsvp" /\ r.user \in Attendees /\ r.row \in Event
    /\ r.pc \in {"notify", "deliver"} =>
          r.op \in {"approve", "reject", "request_changes", "cancel_mine", "rsvp"}
    /\ r.op = "cancel_mine" => r.todo \subseteq Attendees

RequestsWellFormed == \A w \in Workers : WellFormed(requests[w])

(* Stale structs included: a request other than an approval that would write a
   public status, and an RSVP that is past its first read, saw an approved
   event.                                                                  *)
ApprovalKnown ==
    /\ \A e \in Events : events[e].status \in Public => e \in approved
    /\ \A e \in Events, u \in Attendees :
          registrations[e][u] # "none" => e \in approved
    /\ \A w \in Workers :
          /\ Writing(w, requests[w].event) /\ requests[w].row.status \in Public
                => requests[w].op = "approve" \/ requests[w].event \in approved
          /\ Joining(w, requests[w].event) => requests[w].event \in approved

(* Whoever an RSVP or a cancellation is about to notify has a row. *)
RecipientsHaveRows ==
    /\ NoticesMatchRows
    /\ \A w \in Workers :
          requests[w].pc \in {"notify", "deliver"} /\ requests[w].op \in {"cancel_mine", "rsvp"} =>
              \A u \in requests[w].todo :
                  u \in Attendees /\ registrations[requests[w].event][u] # "none"

(* The RSVPs that have passed the capacity check and not inserted yet. *)
PastCheck(e) == {w \in Workers : requests[w].pc = "register" /\ requests[w].event = e}

(* Seats taken and seats promised stay together within the bound, and no row
   and no struct an RSVP compares with offers more seats than the peak.    *)
PromisedSeatsBounded ==
    /\ \A e \in Events : events[e].capacity <= peak[e]
    /\ \A w \in Workers :
          Joining(w, requests[w].event)
              => requests[w].row.capacity <= peak[requests[w].event]
    /\ \A e \in Events :
          Registered(e) # {} \/ PastCheck(e) # {} =>
              Cardinality(Registered(e)) + Cardinality(PastCheck(e))
                  <= peak[e] + Cardinality(Workers) - 1

(* What each operation writes over the row it read. *)
LegalWrite(op, old, new) ==
    /\ old.status \notin {"absent", "cancelled"}
    /\ \/ op = "approve" /\ old.status = "pending" /\ new.status = "published"
       \/ op = "reject" /\ old.status = "pending" /\ new.status = "rejected"
       \/ op = "request_changes" /\ old.status = "pending" /\ new.status = "pending"
       \/ op = "update_mine" /\ new.status = old.status
       \/ op = "cancel_mine" /\ new.status = "cancelled"
       \/ op = "close" /\ old.status = "published" /\ new.status = "registration_closed"
       \/ op = "reopen" /\ old.status = "registration_closed" /\ new.status = "published"
    /\ op # "update_mine" => new.capacity = old.capacity

(* What a request writes follows by its operation from a row the event had when
   it was read, and an RSVP past its first read saw it published.          *)
ReadsArePast ==
    /\ \A e \in Events :
          IF events[e] = NoRow THEN past[e] = {} ELSE Version(events[e]) \in past[e]
    /\ \A w \in Workers, e \in Events :
          /\ Writing(w, e) =>
                \E old \in past[e] :
                    LegalWrite(requests[w].op, old, Version(requests[w].row))
          /\ Joining(w, e) => \E old \in past[e] : old.status = "published"

Told(e, u) == notices["event_cancelled"][e][u]

(* The requests that will tell u that e is cancelled, and those that are about
   to cancel e.                                                            *)
AboutToTell(r, e, u) ==
    /\ r.op = "cancel_mine" /\ r.event = e
    /\ \/ r.pc = "list_registered"
       \/ r.pc \in {"notify", "deliver"} /\ u \in r.todo
Announcing(e, u) == {w \in Workers : AboutToTell(requests[w], e, u)}
Cancelling(e) == {w \in Workers : Writing(w, e) /\ requests[w].op = "cancel_mine"}

(* Only cancellations write cancelled, and none begins on a cancelled event: a
   cancelled event brings a user at most one notice per worker, and no more
   until another stale write has revived it.                               *)
RepeatsCounted ==
    /\ \A w \in Workers, e \in Events :
          Writing(w, e) =>
              (requests[w].row.status = "cancelled" <=> requests[w].op = "cancel_mine")
    /\ \A e \in Events, u \in Attendees :
          IF events[e].status = "cancelled"
          THEN Told(e, u) + Cardinality(Announcing(e, u) \cup Cancelling(e))
                  <= Cardinality(Workers) * (1 + revived[e])
          ELSE Told(e, u) + Cardinality(Announcing(e, u))
                  <= Cardinality(Workers) * revived[e]

(* Who holds a seat of a cancelled event and does not know it is about to be
   told, joined too late for it, or lost the notice.                       *)
EveryoneAccountedFor ==
    \A e \in Events :
        events[e].status = "cancelled" =>
            \A u \in Registered(e) \ (late[e] \cup lost[e]) :
                Told(e, u) > 0 \/ Announcing(e, u) # {}

Inductive ==
    /\ RequestsWellFormed /\ ApprovalKnown /\ RecipientsHaveRows /\ PromisedSeatsBounded
    /\ ReadsArePast /\ RepeatsCounted /\ EveryoneAccountedFor

-----------------------------------------------------------------------------
(* The lifecycle as the tables show it. *)
Lifecycle == INSTANCE EventLifecycle
    WITH version <- [e \in Events |-> Version(events[e])],
         attending <- [e \in Events |-> Registered(e)]

(* However stale the structs that are written, every row is what one accepted
   operation makes of a row the event really had, and seats are taken only of
   an event that was open: no mix of two requests brings about a state the
   moderation rules know no way to.                                        *)
ImplementsLifecycle == Lifecycle!Spec

(* The check that refuses to cancel twice is not atomic with the write, so
   several cancellations can pass it and announce the same thing.  How often a
   user is told is bounded all the same, by the requests that can run at once,
   and by nothing else while no stale edit brings the event back to life.  *)
CancellationRepeatsBounded ==
    \A e \in Events, u \in Attendees :
        notices["event_cancelled"][e][u] <= Cardinality(Workers) * (1 + revived[e])

(* Once no request is at work on a cancelled event, whoever holds a seat of it
   has been told, except for exactly two kinds of people: those whose RSVP was
   in flight and took the seat when the event was no longer published, and
   those whose own notice a fault took.  A notice that fails takes nobody
   else's with it, and no stale write makes anybody else miss the news.    *)
UntoldWereLateOrLost ==
    \A e \in Events :
        events[e].status = "cancelled" /\ (\A w \in Workers : requests[w].event # e) =>
            \A u \in Registered(e) \ (late[e] \cup lost[e]) :
                notices["event_cancelled"][e][u] > 0

(* Each of the attendees a cancellation finds registered is told in the end,
   however many they are and whatever runs beside it, unless the seat is given
   up before the list is read or that very notice is lost to a fault; provided
   that the deliveries of this request return, one after the other, for one
   that does not keeps everyone after it waiting.                          *)
CancellationTellsEveryone ==
    \A w \in Workers :
        []<>(requests[w].pc # "deliver") =>
            \A e \in Events, u \in Attendees :
                requests[w].pc = "list_registered" /\ requests[w].event = e
                                                   /\ u \in Registered(e)
                    ~> \/ notices["event_cancelled"][e][u] > 0
                       \/ u \notin Registered(e) \/ u \in lost[e]

(* The steps of it: whom a cancellation is to tell, it still is to tell, or has
   just told, or has lost to a fault; or, before the list is read, the seat
   was given up.                                                           *)
DueToTell(w, e, u) ==
    /\ requests[w].op = "cancel_mine" /\ requests[w].event = e
    /\ \/ requests[w].pc = "list_registered" /\ u \in Registered(e)
       \/ requests[w].pc \in {"notify", "deliver"} /\ u \in requests[w].todo
NobodyDueIsForgotten ==
    [][\A w \in Workers, e \in Events, u \in Attendees : DueToTell(w, e, u) =>
            \/ DueToTell(w, e, u)'
            \/ notices'["event_cancelled"][e][u] = notices["event_cancelled"][e][u] + 1
            \/ requests[w].pc = "list_registered" /\ u \notin Registered(e)'
            \/ faults' = faults + 1 /\ u \in lost'[e]]_vars

-----------------------------------------------------------------------------
(* What the documents say and the interleavings break. *)

(* PRD 8.7: excess RSVPs are rejected when concurrent ones reach capacity. *)
NeverOversold ==
    \A e \in Events : Cardinality(Registered(e)) <= peak[e]

(* "Do not allow editing cancelled events": an edit finds no cancelled event
   under it when it is written.                                            *)
CancelledIsNotEdited ==
    [][\A w \in Workers, e \in Events :
            (/\ Writing(w, e) /\ requests[w].op = "update_mine"
             /\ events[e].status = "cancelled" /\ requests'[w] = Idle)
            => UNCHANGED events[e]]_vars
=============================================================================
