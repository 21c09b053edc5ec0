------------------------- MODULE EventRequestsProofs -------------------------
(***************************************************************************)
(* What the concurrent event and registration requests keep true for every *)
(* number of events, users, capacities and workers, and however many       *)
(* requests and faults there are.                                          *)
(***************************************************************************)
EXTENDS EventRequests, FiniteSetTheorems, TLAPS

-----------------------------------------------------------------------------
(* Statements and structs. *)

(* Giving a worker a well-formed request keeps all requests well formed. *)
LEMMA GotoKeepsRequests ==
    ASSUME TypeOK, RequestsWellFormed, NEW w \in Workers,
           NEW r \in Request, WellFormed(r), Goto(w, r)
    PROVE  requests' \in [Workers -> Request] /\ RequestsWellFormed'
  BY DEF TypeOK, RequestsWellFormed, Goto

LEMMA IdleIsWellFormed == Idle \in Request /\ WellFormed(Idle)
  BY DEF Idle, Request, WellFormed, Step, Operation

(* A request left with notices to create is well formed. *)
LEMMA NotifyingIsWellFormed ==
    ASSUME NEW r \in Request, r.event \in Events, NEW people \in SUBSET Users,
           r.op \in {"approve", "reject", "request_changes", "cancel_mine", "rsvp"},
           r.op = "cancel_mine" => people \subseteq Attendees
    PROVE  Notifying(r, people) \in Request /\ WellFormed(Notifying(r, people))
  <1>1. CASE people = {}
    BY <1>1, IdleIsWellFormed DEF Notifying
  <1>2. CASE people # {}
    BY <1>2 DEF Notifying, Request, WellFormed, Step
  <1> QED BY <1>1, <1>2

LEMMA DeliveringIsWellFormed ==
    ASSUME NEW r \in Request, WellFormed(r), r.pc = "notify", NEW people \in SUBSET r.todo
    PROVE  Delivering(r, people) \in Request /\ WellFormed(Delivering(r, people))
  BY DEF Delivering, Request, WellFormed, Step

(* The steps of a request that is past its write touch no event and no seat, and
   leave it with notices to create, or with nothing.                       *)
LEMMA PastItsWrite ==
    ASSUME TypeOK, RequestsWellFormed, NEW w \in Workers,
           \/ ListRegistered(w) \/ CreateNotice(w) \/ Deliver(w) \/ LoseNotice(w) \/ Abandon(w)
    PROVE  /\ UNCHANGED <<events, registrations, writes, late>>
           /\ \E r \in Request :
                 /\ WellFormed(r) /\ requests' = [requests EXCEPT ![w] = r]
                 /\ r.pc \in {"idle", "notify", "deliver"}
                 /\ r # Idle => r.op = requests[w].op /\ r.event = requests[w].event
  <1> USE DEF tables, history, writes
  <1> DEFINE q == requests[w]
             Goal == \E r \in Request :
                 /\ WellFormed(r) /\ requests' = [requests EXCEPT ![w] = r]
                 /\ r.pc \in {"idle", "notify", "deliver"}
                 /\ r # Idle => r.op = requests[w].op /\ r.event = requests[w].event
  <1>0. q \in Request /\ WellFormed(q)
    BY DEF TypeOK, RequestsWellFormed
  <1>1. UNCHANGED <<events, registrations, writes, late>>
    BY DEF ListRegistered, CreateNotice, Deliver, LoseNotice, Abandon
  <1>2. ASSUME NEW people \in SUBSET Users, Goto(w, Notifying(q, people)),
               q.pc \in {"list_registered", "notify", "deliver"},
               q.op = "cancel_mine" => people \subseteq Attendees
        PROVE  Goal
    <2>1. Notifying(q, people) \in Request /\ WellFormed(Notifying(q, people))
      BY <1>0, <1>2, NotifyingIsWellFormed DEF WellFormed
    <2>2. /\ Notifying(q, people).pc \in {"idle", "notify", "deliver"}
          /\ Notifying(q, people) # Idle =>
                Notifying(q, people).op = q.op /\ Notifying(q, people).event = q.event
      BY <1>0 DEF Notifying, Idle, Request
    <2> QED BY <1>2, <2>1, <2>2 DEF Goto
  <1>3. CASE ListRegistered(w)
    <2>1. Registered(q.event) \in SUBSET Users /\ Registered(q.event) \subseteq Attendees
      BY DEF Registered, Users
    <2> QED BY <1>2, <1>3, <2>1 DEF ListRegistered, ListUserIDsByEvent
  <1>4. CASE CreateNotice(w)
    <2>1. PICK u \in q.todo : Goto(w, Delivering(q, q.todo \ {u})) /\ q.pc = "notify"
      BY <1>4 DEF CreateNotice
    <2>2. Delivering(q, q.todo \ {u}) \in Request /\ WellFormed(Delivering(q, q.todo \ {u}))
      BY <1>0, <2>1, DeliveringIsWellFormed
    <2>3. /\ Delivering(q, q.todo \ {u}).pc = "deliver"
          /\ Delivering(q, q.todo \ {u}).op = q.op /\ Delivering(q, q.todo \ {u}).event = q.event
      BY <1>0 DEF Delivering, Request
    <2> QED BY <1>1, <2>1, <2>2, <2>3 DEF Goto
  <1>5. CASE Deliver(w)
    BY <1>0, <1>2, <1>5 DEF Deliver, Request, WellFormed
  <1>6. CASE LoseNotice(w)
    <2>1. PICK u \in q.todo : Goto(w, Notifying(q, q.todo \ {u})) /\ q.pc = "notify"
      BY <1>6 DEF LoseNotice
    <2>2. /\ q.todo \ {u} \in SUBSET Users
          /\ q.op = "cancel_mine" => q.todo \ {u} \subseteq Attendees
      BY <1>0 DEF Request, WellFormed
    <2> QED BY <1>1, <1>2, <2>1, <2>2
  <1>7. CASE Abandon(w)
    BY <1>7, IdleIsWellFormed DEF Abandon, Goto, Idle
  <1> QED BY <1>1, <1>3, <1>4, <1>5, <1>6, <1>7

(* The reads of an RSVP change nothing, and it keeps what it read first. *)
LEMMA BeforeItsInsert ==
    ASSUME TypeOK, RequestsWellFormed, NEW w \in Workers,
           GetStatus(w) \/ GetStatusFails(w) \/ CountActive(w)
    PROVE  /\ UNCHANGED <<events, registrations, notices, history>>
           /\ Joining(w, requests[w].event)
           /\ \E r \in Request :
                 /\ requests' = [requests EXCEPT ![w] = r]
                 /\ r.pc \in {"idle", "count", "register"}
                 /\ r # Idle => /\ r.op = "rsvp" /\ r.event = requests[w].event
                                /\ r.row = requests[w].row
  <1> DEFINE q == requests[w]
             Goal == \E r \in Request :
                 /\ requests' = [requests EXCEPT ![w] = r]
                 /\ r.pc \in {"idle", "count", "register"}
                 /\ r # Idle => r.op = "rsvp" /\ r.event = q.event /\ r.row = q.row
  <1>1. /\ q \in Request /\ q.op = "rsvp"
        /\ UNCHANGED <<events, registrations, notices, history>> /\ Joining(w, q.event)
    BY DEF TypeOK, RequestsWellFormed, WellFormed, GetStatus, GetStatusFails, CountActive, Joining,
           tables
  <1>2. ASSUME NEW pc \in {"count", "register"}, Goto(w, [q EXCEPT !.pc = pc])
        PROVE  Goal
    <2>1. [q EXCEPT !.pc = pc] \in Request
      BY <1>1 DEF Request, Step
    <2>2. /\ [q EXCEPT !.pc = pc].pc = pc /\ [q EXCEPT !.pc = pc].op = q.op
          /\ [q EXCEPT !.pc = pc].event = q.event /\ [q EXCEPT !.pc = pc].row = q.row
      BY <1>1 DEF Request
    <2> QED BY <1>1, <1>2, <2>1, <2>2 DEF Goto
  <1>3. CASE Goto(w, Idle)
    BY <1>1, <1>3, IdleIsWellFormed DEF Goto, Idle
  <1> QED BY <1>1, <1>2, <1>3 DEF GetStatus, GetStatusFails, CountActive

(* The insert of a seat leaves one notice to create. *)
LEMMA ItsInsert ==
    ASSUME TypeOK, RequestsWellFormed, NEW w \in Workers, Register(w)
    PROVE  \E e \in Events, u \in Attendees :
              /\ UNCHANGED <<events, notices, writes, lost>>
              /\ e = requests[w].event /\ u = requests[w].user /\ Joining(w, e)
              /\ registrations' = [registrations EXCEPT ![e][u] = "registered"]
              /\ NoteLate(u, e)
              /\ \E r \in Request : /\ requests' = [requests EXCEPT ![w] = r]
                                    /\ r.pc = "notify" /\ r.op = "rsvp"
  <1>1. requests[w] \in Request /\ WellFormed(requests[w]) /\ requests[w].pc = "register"
    BY DEF TypeOK, RequestsWellFormed, Register
  <1>2. PICK e \in Events, u \in Attendees : e = requests[w].event /\ u = requests[w].user
    BY <1>1 DEF WellFormed
  <1>3. /\ requests[w].op = "rsvp" /\ {u} \in SUBSET Users /\ Joining(w, e)
    BY <1>1, <1>2 DEF WellFormed, Users, Joining
  <1>4. /\ Notifying(requests[w], {u}) \in Request
        /\ Notifying(requests[w], {u}).pc = "notify" /\ Notifying(requests[w], {u}).op = "rsvp"
    BY <1>1, <1>2, <1>3, NotifyingIsWellFormed DEF Notifying, Request
  <1>5. /\ UNCHANGED <<events, notices, writes, lost>> /\ NoteLate(u, e)
        /\ registrations' = [registrations EXCEPT ![e][u] = "registered"]
        /\ requests' = [requests EXCEPT ![w] = Notifying(requests[w], {u})]
    BY <1>2 DEF Register, UpsertRegistered, Goto
  <1> QED BY <1>2, <1>3, <1>4, <1>5

(* Every operation on an existing event reads a row that is neither missing
   nor cancelled, and goes on to write a proper row that follows from it.  *)
LEMMA ReadBeforeWrite ==
    ASSUME TypeOK, NEW w \in Workers, NEW e \in Events,
           ModerationRoutes(w, e) \/ \E o \in Organizers : OrganizerRoutes(w, o, e)
    PROVE  \E op \in Operation \ {"none", "rsvp"}, u \in Users \cup {None}, row \in Event :
              BeginUpdate(w, op, u, e, row) /\ LegalWrite(op, events[e], row)
  <1> DEFINE Goal == \E op \in Operation \ {"none", "rsvp"}, u \in Users \cup {None}, row \in Event :
              BeginUpdate(w, op, u, e, row) /\ LegalWrite(op, events[e], row)
  <1>0. events[e].status # "absent" => events[e] \in Event
    BY DEF TypeOK, NoRow
  <1>1. CASE Approve(w, e)
    <2> DEFINE row == [events[e] EXCEPT !.status = "published", !.hasReason = FALSE]
    <2>1. row \in Event /\ LegalWrite("approve", events[e], row)
      BY <1>0, <1>1 DEF Approve, Event, EventStatus, LegalWrite
    <2>2. BeginUpdate(w, "approve", None, e, row)
      BY <1>1 DEF Approve
    <2> HIDE DEF row
    <2> QED BY <2>1, <2>2 DEF Operation
  <1>2. CASE \E withReason \in BOOLEAN : Reject(w, e, withReason)
    <2>0. PICK withReason \in BOOLEAN : Reject(w, e, withReason)
      BY <1>2
    <2> DEFINE row == [events[e] EXCEPT !.status = "rejected", !.hasReason = @ \/ withReason]
    <2>1. row \in Event /\ LegalWrite("reject", events[e], row)
      BY <1>0, <2>0 DEF Reject, Event, EventStatus, LegalWrite
    <2>2. BeginUpdate(w, "reject", None, e, row)
      BY <2>0 DEF Reject
    <2> HIDE DEF row
    <2> QED BY <2>1, <2>2 DEF Operation
  <1>3. CASE RequestChanges(w, e)
    <2> DEFINE row == [events[e] EXCEPT !.hasReason = TRUE]
    <2>1. row \in Event /\ LegalWrite("request_changes", events[e], row)
      BY <1>0, <1>3 DEF RequestChanges, Event, EventStatus, LegalWrite
    <2>2. BeginUpdate(w, "request_changes", None, e, row)
      BY <1>3 DEF RequestChanges
    <2> HIDE DEF row
    <2> QED BY <2>1, <2>2 DEF Operation
  <1>4. ASSUME NEW o \in Organizers, OrganizerRoutes(w, o, e)
        PROVE  Goal
    <2>0. o \in Users \cup {None} /\ events[e] \in Event
      BY <1>0, <1>4 DEF OrganizerRoutes, UpdateMine, CancelMine, CloseRegistrationMine,
                        ReopenRegistrationMine, OwnedBy, Found, Users
    <2>1. CASE \E c \in Capacities : UpdateMine(w, o, e, c)
      <3>0. PICK c \in Capacities : UpdateMine(w, o, e, c)
        BY <2>1
      <3> DEFINE row == [events[e] EXCEPT !.capacity = c]
      <3>1. row \in Event /\ LegalWrite("update_mine", events[e], row)
        BY <2>0, <3>0 DEF UpdateMine, OwnedBy, Found, Event, LegalWrite
      <3>2. BeginUpdate(w, "update_mine", o, e, row)
        BY <3>0 DEF UpdateMine
      <3> HIDE DEF row
      <3> QED BY <2>0, <3>1, <3>2 DEF Operation
    <2>2. CASE CancelMine(w, o, e)
      <3> DEFINE row == [events[e] EXCEPT !.status = "cancelled"]
      <3>1. row \in Event /\ LegalWrite("cancel_mine", events[e], row)
        BY <2>0, <2>2 DEF CancelMine, OwnedBy, Found, Event, EventStatus, LegalWrite
      <3>2. BeginUpdate(w, "cancel_mine", o, e, row)
        BY <2>2 DEF CancelMine
      <3> HIDE DEF row
      <3> QED BY <2>0, <3>1, <3>2 DEF Operation
    <2>3. CASE CloseRegistrationMine(w, o, e)
      <3> DEFINE row == [events[e] EXCEPT !.status = "registration_closed"]
      <3>1. row \in Event /\ LegalWrite("close", events[e], row)
        BY <2>0, <2>3 DEF CloseRegistrationMine, Event, EventStatus, LegalWrite
      <3>2. BeginUpdate(w, "close", o, e, row)
        BY <2>3 DEF CloseRegistrationMine
      <3> HIDE DEF row
      <3> QED BY <2>0, <3>1, <3>2 DEF Operation
    <2>4. CASE ReopenRegistrationMine(w, o, e)
      <3> DEFINE row == [events[e] EXCEPT !.status = "published"]
      <3>1. row \in Event /\ LegalWrite("reopen", events[e], row)
        BY <2>0, <2>4 DEF ReopenRegistrationMine, Event, EventStatus, LegalWrite
      <3>2. BeginUpdate(w, "reopen", o, e, row)
        BY <2>4 DEF ReopenRegistrationMine
      <3> HIDE DEF row
      <3> QED BY <2>0, <3>1, <3>2 DEF Operation
    <2> QED BY <1>4, <2>1, <2>2, <2>3, <2>4 DEF OrganizerRoutes
  <1> QED BY <1>1, <1>2, <1>3, <1>4 DEF ModerationRoutes

-----------------------------------------------------------------------------
(* Types. *)

LEMMA InitTyped == Init => TypeOK /\ RequestsWellFormed
  <1> SUFFICES ASSUME Init PROVE TypeOK /\ RequestsWellFormed
    OBVIOUS
  <1>1. TypeOK
    BY IdleIsWellFormed, BoundsAreNatural DEF Init, TypeOK, RegistrationStatus
  <1>2. RequestsWellFormed
    BY IdleIsWellFormed DEF Init, RequestsWellFormed
  <1> QED BY <1>1, <1>2

(* One statement, or one fault, of any request keeps the types. *)
LEMMA StepTyped ==
    ASSUME TypeOK, RequestsWellFormed, [Next]_vars
    PROVE  TypeOK' /\ RequestsWellFormed'
  <1> USE DEF tables, history, writes
  <1>0. ASSUME NEW e \in Events, NEW row \in Event, Remember(e, row)
        PROVE  /\ peak' \in [Events -> Nat] /\ revived' \in [Events -> Nat]
               /\ past' \in [Events -> SUBSET [status: EventStatus, capacity: Capacities]]
    <2>1. row.capacity \in Nat /\ Version(row) \in [status: EventStatus, capacity: Capacities]
      BY CapacitiesArePositive DEF Event, Version
    <2> QED BY <1>0, <2>1 DEF Remember, TypeOK
  <1>1. ASSUME NEW o \in Organizers, NEW e \in Events, NEW c \in Capacities, Create(o, e, c)
        PROVE  TypeOK' /\ RequestsWellFormed'
    <2>1. NewEvent(o, c) \in Event
      BY DEF NewEvent, Event, EventStatus
    <2> QED BY <1>0, <1>1, <2>1 DEF Create, InsertEvent, TypeOK, RequestsWellFormed
  <1>2. ASSUME NEW u \in Attendees, NEW e \in Events, CancelRsvp(u, e)
        PROVE  TypeOK' /\ RequestsWellFormed'
    BY <1>2 DEF CancelRsvp, SetCancelled, TypeOK, RegistrationStatus, RequestsWellFormed
  <1>3. ASSUME NEW w \in Workers, NEW e \in Events,
               ModerationRoutes(w, e) \/ \E o \in Organizers : OrganizerRoutes(w, o, e)
        PROVE  TypeOK' /\ RequestsWellFormed'
    <2>1. PICK op \in Operation \ {"none", "rsvp"}, u \in Users \cup {None}, row \in Event :
             BeginUpdate(w, op, u, e, row)
      BY <1>3, ReadBeforeWrite
    <2> DEFINE r == [pc |-> "update", op |-> op, event |-> e, user |-> u,
                     row |-> row, todo |-> {}]
    <2>2. r \in Request /\ WellFormed(r)
      BY DEF Request, WellFormed, Step
    <2>3. Goto(w, r)
      BY <2>1 DEF BeginUpdate, Begin, Goto
    <2>4. requests' \in [Workers -> Request] /\ RequestsWellFormed'
      <3> HIDE DEF r
      <3> QED BY <2>2, <2>3, GotoKeepsRequests
    <2>5. issued' \in 0..MaxRequests /\ UNCHANGED <<tables, history, faults>>
      BY <2>1, BoundsAreNatural DEF BeginUpdate, Begin, TypeOK
    <2> QED BY <2>4, <2>5 DEF TypeOK
  <1>4. ASSUME NEW w \in Workers, NEW u \in Attendees, NEW e \in Events, Rsvp(w, u, e)
        PROVE  TypeOK' /\ RequestsWellFormed'
    <2> DEFINE r == [pc |-> "get_status", op |-> "rsvp", event |-> e, user |-> u,
                     row |-> events[e], todo |-> {}]
    <2>1. events[e] \in Event
      BY <1>4 DEF Rsvp, TypeOK, NoRow
    <2>2. r \in Request /\ WellFormed(r)
      BY <2>1 DEF Request, WellFormed, Step, Operation, Users
    <2>3. Goto(w, r)
      BY <1>4 DEF Rsvp, Begin, Goto
    <2>4. requests' \in [Workers -> Request] /\ RequestsWellFormed'
      <3> HIDE DEF r
      <3> QED BY <2>2, <2>3, GotoKeepsRequests
    <2>5. issued' \in 0..MaxRequests /\ UNCHANGED <<tables, history, faults>>
      BY <1>4, BoundsAreNatural DEF Rsvp, Begin, TypeOK
    <2> QED BY <2>4, <2>5 DEF TypeOK
  <1>5. ASSUME NEW w \in Workers, Update(w)
        PROVE  TypeOK' /\ RequestsWellFormed'
    <2> DEFINE r == requests[w]
    <2>1. /\ r \in Request /\ r.event \in Events /\ r.row \in Event
          /\ r.row.capacity \in Nat /\ r.row.organizer \in Users
      BY <1>5, CapacitiesArePositive
         DEF Update, TypeOK, RequestsWellFormed, WellFormed, Event, Users
    <2>2. AfterUpdate(r) \in Request /\ WellFormed(AfterUpdate(r))
      <3>1. CASE r.op \in {"approve", "reject", "request_changes"}
        BY <2>1, <3>1, NotifyingIsWellFormed DEF AfterUpdate
      <3>2. CASE r.op = "cancel_mine"
        BY <1>5, <2>1, <3>2 DEF AfterUpdate, Request, WellFormed, Step, RequestsWellFormed
      <3>3. CASE r.op \notin {"approve", "reject", "request_changes", "cancel_mine"}
        BY <3>3, IdleIsWellFormed DEF AfterUpdate
      <3> QED BY <3>1, <3>2, <3>3
    <2>3. requests' \in [Workers -> Request] /\ RequestsWellFormed'
      BY <1>5, <2>2, GotoKeepsRequests DEF Update
    <2>4. Remember(r.event, r.row) /\ events' \in [Events -> Event \cup {NoRow}]
      BY <1>5, <2>1 DEF Update, UpdateEvent, TypeOK
    <2>5. /\ peak' \in [Events -> Nat] /\ revived' \in [Events -> Nat]
          /\ past' \in [Events -> SUBSET [status: EventStatus, capacity: Capacities]]
      BY <1>0, <2>1, <2>4
    <2> QED BY <1>5, <2>1, <2>3, <2>4, <2>5 DEF Update, TypeOK
  <1>6. ASSUME NEW w \in Workers, GetStatus(w) \/ GetStatusFails(w)
        PROVE  TypeOK' /\ RequestsWellFormed'
    <2> DEFINE r == [requests[w] EXCEPT !.pc = "count"]
    <2>1. r \in Request /\ WellFormed(r)
      BY <1>6 DEF GetStatus, GetStatusFails, TypeOK, RequestsWellFormed, WellFormed, Request, Step
    <2>2. Goto(w, r) \/ Goto(w, Idle)
      BY <1>6 DEF GetStatus, GetStatusFails
    <2>3. requests' \in [Workers -> Request] /\ RequestsWellFormed'
      <3> HIDE DEF r
      <3> QED BY <2>1, <2>2, IdleIsWellFormed, GotoKeepsRequests
    <2>4. faults' \in 0..MaxFaults
      BY <1>6, BoundsAreNatural DEF GetStatus, GetStatusFails, Fault, TypeOK
    <2> QED BY <1>6, <2>3, <2>4 DEF GetStatus, GetStatusFails, TypeOK
  <1>7. ASSUME NEW w \in Workers, CountActive(w)
        PROVE  TypeOK' /\ RequestsWellFormed'
    <2> DEFINE r == [requests[w] EXCEPT !.pc = "register"]
    <2>1. r \in Request /\ WellFormed(r)
      BY <1>7 DEF CountActive, TypeOK, RequestsWellFormed, WellFormed, Request, Step
    <2>2. Goto(w, r) \/ Goto(w, Idle)
      BY <1>7 DEF CountActive
    <2>3. requests' \in [Workers -> Request] /\ RequestsWellFormed'
      <3> HIDE DEF r
      <3> QED BY <2>1, <2>2, IdleIsWellFormed, GotoKeepsRequests
    <2> QED BY <1>7, <2>3 DEF CountActive, TypeOK
  <1>8. ASSUME NEW w \in Workers, Register(w)
        PROVE  TypeOK' /\ RequestsWellFormed'
    <2>1. /\ requests[w] \in Request /\ requests[w].event \in Events
          /\ requests[w].op = "rsvp" /\ requests[w].user \in Attendees
          /\ {requests[w].user} \in SUBSET Users
      BY <1>8 DEF Register, TypeOK, RequestsWellFormed, WellFormed, Users
    <2>2. requests' \in [Workers -> Request] /\ RequestsWellFormed'
      BY <1>8, <2>1, NotifyingIsWellFormed, GotoKeepsRequests DEF Register
    <2>3. registrations' \in [Events -> [Attendees -> RegistrationStatus]]
      BY <1>8, <2>1 DEF Register, UpsertRegistered, TypeOK, RegistrationStatus
    <2>4. late' \in [Events -> SUBSET Attendees]
      BY <1>8, <2>1 DEF Register, NoteLate, TypeOK
    <2> QED BY <1>8, <2>2, <2>3, <2>4 DEF Register, TypeOK
  <1>9. ASSUME NEW w \in Workers,
                \/ ListRegistered(w) \/ CreateNotice(w) \/ Deliver(w) \/ LoseNotice(w) \/ Abandon(w)
         PROVE  TypeOK' /\ RequestsWellFormed'
    <2>1. /\ requests[w] \in Request /\ WellFormed(requests[w])
          /\ requests[w].todo \in SUBSET Users /\ issued' = issued
      BY <1>9 DEF ListRegistered, CreateNotice, Deliver, LoseNotice, Abandon, TypeOK,
                   RequestsWellFormed, Request
    <2>2. PICK r \in Request : WellFormed(r) /\ requests' = [requests EXCEPT ![w] = r]
      BY <1>9, PastItsWrite
    <2>3. requests' \in [Workers -> Request] /\ RequestsWellFormed'
      BY <2>2, GotoKeepsRequests DEF Goto
    <2>4. UNCHANGED <<events, registrations, writes, late>>
      BY <1>9, PastItsWrite
    <2>5. notices' \in [NoticeKind -> [Events -> [Users -> Nat]]]
      <3>1. CASE CreateNotice(w)
        <4>1. requests[w].event \in Events /\ NoticeOf(requests[w].op) \in NoticeKind
          BY <2>1, <3>1 DEF CreateNotice, WellFormed, NoticeOf, NoticeKind
        <4>2. ASSUME NEW k \in NoticeKind, NEW v \in Users, InsertNotice(k, requests[w].event, v)
              PROVE  notices' \in [NoticeKind -> [Events -> [Users -> Nat]]]
          BY <4>1, <4>2 DEF InsertNotice, TypeOK
        <4> QED BY <2>1, <3>1, <4>1, <4>2 DEF CreateNotice
      <3> QED BY <1>9, <3>1 DEF ListRegistered, Deliver, LoseNotice, Abandon, TypeOK
    <2>6. faults' \in 0..MaxFaults
      BY <1>9, BoundsAreNatural DEF ListRegistered, CreateNotice, Deliver, LoseNotice, Abandon,
                                     Fault, TypeOK
    <2>7. lost' \in [Events -> SUBSET Attendees]
      <3>1. Untold(requests[w]) \subseteq Attendees
        <4>1. Registered(requests[w].event) \subseteq Attendees
          BY DEF Registered
        <4>2. CASE requests[w].op # "cancel_mine"
          BY <4>2 DEF Untold
        <4>3. CASE requests[w].op = "cancel_mine"
          BY <2>1, <4>1, <4>3 DEF Untold, WellFormed
        <4> QED BY <4>2, <4>3
      <3>2. ASSUME NEW people, people \subseteq Untold(requests[w]), Lose(requests[w].event, people)
            PROVE  lost' \in [Events -> SUBSET Attendees]
        BY <3>1, <3>2 DEF Lose, TypeOK
      <3>3. CASE LoseNotice(w)
        <4>1. PICK u \in requests[w].todo :
                 Lose(requests[w].event, Untold(requests[w]) \cap {u})
          BY <3>3 DEF LoseNotice
        <4> QED BY <3>2, <4>1
      <3>4. CASE Abandon(w)
        BY <3>2, <3>4 DEF Abandon
      <3> QED BY <1>9, <3>3, <3>4 DEF ListRegistered, CreateNotice, Deliver, TypeOK
    <2> QED BY <2>1, <2>3, <2>4, <2>5, <2>6, <2>7 DEF TypeOK
  <1>10. CASE UNCHANGED vars
    BY <1>10 DEF vars, TypeOK, RequestsWellFormed
  <1> QED BY <1>1, <1>2, <1>3, <1>4, <1>5, <1>6, <1>7, <1>8, <1>9, <1>10
          DEF Next, Accept, Continue, Fail

(* Every reachable state is type correct, whatever the interleaving of
   requests and faults.                                                    *)
THEOREM TypesHold == Spec => []TypeOK
  <1>1. TypeOK /\ RequestsWellFormed /\ [Next]_vars => (TypeOK /\ RequestsWellFormed)'
    BY StepTyped
  <1> QED BY InitTyped, <1>1, PTL DEF Spec

-----------------------------------------------------------------------------
(* The moderation gate. *)

LEMMA InitApprovalKnown == Init => ApprovalKnown
  BY DEF Init, ApprovalKnown, NoRow, Public, Writing, Joining, Idle

(* A stale struct is no way around moderation: no step publishes, writes back
   or seats anybody at an event that was not approved before.              *)
LEMMA StepApprovalKnown ==
    ASSUME TypeOK, RequestsWellFormed, ApprovalKnown, [Next]_vars
    PROVE  ApprovalKnown'
  <1> USE DEF tables, history, writes
  <1>0. TypeOK' /\ RequestsWellFormed'
    BY StepTyped
  <1>1. ASSUME NEW o \in Organizers, NEW e \in Events, NEW c \in Capacities, Create(o, e, c)
        PROVE  ApprovalKnown'
    <2>1. events' = [events EXCEPT ![e] = NewEvent(o, c)] /\ NewEvent(o, c).status \notin Public
      BY <1>1 DEF Create, InsertEvent, NewEvent, Public
    <2> QED BY <1>1, <2>1 DEF Create, TypeOK, ApprovalKnown, Writing, Joining
  <1>2. ASSUME NEW u \in Attendees, NEW e \in Events, CancelRsvp(u, e)
        PROVE  ApprovalKnown'
    BY <1>2 DEF CancelRsvp, SetCancelled, TypeOK, ApprovalKnown, Writing, Joining
  <1>3. ASSUME NEW w \in Workers, NEW e \in Events,
               ModerationRoutes(w, e) \/ \E o \in Organizers : OrganizerRoutes(w, o, e)
        PROVE  ApprovalKnown'
    <2>1. PICK op \in Operation \ {"none", "rsvp"}, u \in Users \cup {None}, row \in Event :
             /\ BeginUpdate(w, op, u, e, row)
             /\ row.status \in Public => op = "approve" \/ events[e].status \in Public
      BY <1>3, ReadBeforeWrite DEF LegalWrite, Public
    <2>2. /\ UNCHANGED <<events, registrations, approved>>
          /\ requests' = [requests EXCEPT ![w] =
                [pc |-> "update", op |-> op, event |-> e, user |-> u, row |-> row, todo |-> {}]]
      BY <2>1 DEF BeginUpdate, Begin
    <2> QED BY <2>1, <2>2 DEF TypeOK, ApprovalKnown, Writing, Joining
  <1>4. ASSUME NEW w \in Workers, NEW u \in Attendees, NEW e \in Events, Rsvp(w, u, e)
        PROVE  ApprovalKnown'
    BY <1>4 DEF Rsvp, Begin, TypeOK, ApprovalKnown, Writing, Joining, Public
  <1>5. ASSUME NEW w \in Workers, Update(w)
        PROVE  ApprovalKnown'
    <2> DEFINE r == requests[w]
    <2>1. /\ r.event \in Events /\ events' = [events EXCEPT ![r.event] = r.row]
          /\ registrations' = registrations /\ approved \subseteq approved'
          /\ r.op = "approve" => r.event \in approved'
          /\ r.row.status \in Public => r.op = "approve" \/ r.event \in approved
      BY <1>5 DEF Update, UpdateEvent, RequestsWellFormed, WellFormed, ApprovalKnown, Writing
    <2>2. /\ requests' = [requests EXCEPT ![w] = AfterUpdate(r)]
          /\ AfterUpdate(r).pc \notin {"update", "get_status", "count", "register"}
      BY <1>5 DEF Update, Goto, AfterUpdate, Notifying, Idle, TypeOK, Request
    <2> QED BY <2>1, <2>2 DEF TypeOK, ApprovalKnown, Writing, Joining
  <1>6. ASSUME NEW w \in Workers,
               \/ ListRegistered(w) \/ CreateNotice(w) \/ Deliver(w) \/ LoseNotice(w) \/ Abandon(w)
        PROVE  ApprovalKnown'
    <2>1. UNCHANGED <<events, registrations, approved>>
      BY <1>6, PastItsWrite
    <2>2. PICK r : /\ requests' = [requests EXCEPT ![w] = r]
                   /\ r.pc \notin {"update", "get_status", "count", "register"}
      BY <1>6, PastItsWrite
    <2> QED BY <2>1, <2>2 DEF TypeOK, ApprovalKnown, Writing, Joining
  <1>7. ASSUME NEW w \in Workers, GetStatus(w) \/ GetStatusFails(w) \/ CountActive(w)
        PROVE  ApprovalKnown'
    <2>1. UNCHANGED <<events, registrations, approved>> /\ Joining(w, requests[w].event)
      BY <1>7 DEF GetStatus, GetStatusFails, CountActive, Joining
    <2>2. requests[w] \in Request
      BY DEF TypeOK
    <2>3. \/ Goto(w, Idle)
          \/ \E pc \in {"count", "register"} : Goto(w, [requests[w] EXCEPT !.pc = pc])
      BY <1>7 DEF GetStatus, GetStatusFails, CountActive
    <2>4. PICK r : /\ requests' = [requests EXCEPT ![w] = r]
                   /\ r.pc # "update"
                   /\ r.pc = "idle" \/ r.event = requests[w].event
      <3>1. CASE Goto(w, Idle)
        <4>1. Idle.pc = "idle"
          BY DEF Idle
        <4> QED BY <3>1, <4>1 DEF Goto
      <3>2. ASSUME NEW pc \in {"count", "register"}, Goto(w, [requests[w] EXCEPT !.pc = pc])
            PROVE  \E r : /\ requests' = [requests EXCEPT ![w] = r]
                          /\ r.pc # "update" /\ r.event = requests[w].event
        <4> DEFINE r == [requests[w] EXCEPT !.pc = pc]
        <4>1. r.pc # "update" /\ r.event = requests[w].event
          BY <2>2 DEF Request
        <4>2. requests' = [requests EXCEPT ![w] = r]
          BY <3>2 DEF Goto
        <4> HIDE DEF r
        <4> QED BY <4>1, <4>2
      <3> QED BY <2>3, <3>1, <3>2
    <2> QED BY <2>1, <2>4 DEF TypeOK, ApprovalKnown, Writing, Joining
  <1>8. ASSUME NEW w \in Workers, Register(w)
        PROVE  ApprovalKnown'
    <2> DEFINE r == requests[w]
    <2>1. /\ r.event \in Events /\ r.event \in approved
          /\ UNCHANGED <<events, approved>>
          /\ registrations' = [registrations EXCEPT ![r.event][r.user] = "registered"]
      BY <1>8 DEF Register, UpsertRegistered, RequestsWellFormed, WellFormed, ApprovalKnown, Joining
    <2>2. /\ requests' = [requests EXCEPT ![w] = Notifying(r, {r.user})]
          /\ Notifying(r, {r.user}).pc = "notify"
      BY <1>8 DEF Register, Goto, Notifying, TypeOK, Request
    <2> QED BY <2>1, <2>2 DEF TypeOK, ApprovalKnown, Writing, Joining
  <1>9. CASE UNCHANGED vars
    BY <1>9 DEF vars, ApprovalKnown, Writing, Joining
  <1> QED BY <1>1, <1>2, <1>3, <1>4, <1>5, <1>6, <1>7, <1>8, <1>9
          DEF Next, Accept, Continue, Fail

(* Whatever the interleaving, only approved events are listed or attended. *)
THEOREM ModerationGate == Spec => []NothingPublicUnapproved
  <1> DEFINE Inv == TypeOK /\ RequestsWellFormed /\ ApprovalKnown
  <1>1. Init => Inv
    BY InitTyped, InitApprovalKnown
  <1>2. Inv /\ [Next]_vars => Inv'
    BY StepTyped, StepApprovalKnown
  <1>3. Inv => NothingPublicUnapproved
    BY DEF ApprovalKnown, NothingPublicUnapproved, ListPublished, Registered
  <1> QED BY <1>1, <1>2, <1>3, PTL DEF Spec

-----------------------------------------------------------------------------
(* Notices and registration rows. *)

LEMMA InitRecipients == Init => RecipientsHaveRows
  BY DEF Init, RecipientsHaveRows, NoticesMatchRows, NoticeKind, Users, Idle

(* A row once inserted stays, so a recipient read earlier still has one. *)
LEMMA StepRecipients ==
    ASSUME TypeOK, RequestsWellFormed, RecipientsHaveRows, [Next]_vars
    PROVE  RecipientsHaveRows'
  <1> USE DEF tables, history, writes
  <1>0. /\ TypeOK' /\ RequestsWellFormed'
        /\ \A w \in Workers : requests[w] \in Request /\ WellFormed(requests[w])
    BY StepTyped DEF TypeOK, RequestsWellFormed
  <1>1. ASSUME NEW w \in Workers, NEW r,
               UNCHANGED <<registrations, notices>>,
               requests' = [requests EXCEPT ![w] = r], r.pc \notin {"notify", "deliver"}
        PROVE  RecipientsHaveRows'
    BY <1>1 DEF TypeOK, RecipientsHaveRows, NoticesMatchRows
  <1>2. ASSUME NEW o \in Organizers, NEW e \in Events, NEW c \in Capacities, Create(o, e, c)
        PROVE  RecipientsHaveRows'
    BY <1>2 DEF Create, RecipientsHaveRows, NoticesMatchRows
  <1>3. ASSUME NEW u \in Attendees, NEW e \in Events, CancelRsvp(u, e)
        PROVE  RecipientsHaveRows'
    BY <1>0, <1>3 DEF CancelRsvp, SetCancelled, TypeOK, WellFormed, RecipientsHaveRows,
                      NoticesMatchRows
  <1>4. ASSUME NEW w \in Workers, NEW e \in Events,
               ModerationRoutes(w, e) \/ \E o \in Organizers : OrganizerRoutes(w, o, e)
        PROVE  RecipientsHaveRows'
    <2>1. PICK op \in Operation \ {"none", "rsvp"}, u \in Users \cup {None}, row \in Event :
             BeginUpdate(w, op, u, e, row)
      BY <1>4, ReadBeforeWrite
    <2> DEFINE r == [pc |-> "update", op |-> op, event |-> e, user |-> u,
                     row |-> row, todo |-> {}]
    <2>2. /\ UNCHANGED <<registrations, notices>> /\ requests' = [requests EXCEPT ![w] = r]
          /\ r.pc \notin {"notify", "deliver"}
      BY <2>1 DEF BeginUpdate, Begin
    <2> HIDE DEF r
    <2> QED BY <1>1, <2>2
  <1>5. ASSUME NEW w \in Workers, NEW u \in Attendees, NEW e \in Events, Rsvp(w, u, e)
        PROVE  RecipientsHaveRows'
    <2> DEFINE r == [pc |-> "get_status", op |-> "rsvp", event |-> e, user |-> u,
                     row |-> events[e], todo |-> {}]
    <2>1. /\ UNCHANGED <<registrations, notices>> /\ requests' = [requests EXCEPT ![w] = r]
          /\ r.pc \notin {"notify", "deliver"}
      BY <1>5 DEF Rsvp, Begin
    <2> HIDE DEF r
    <2> QED BY <1>1, <2>1
  <1>6. ASSUME NEW w \in Workers, Update(w)
        PROVE  RecipientsHaveRows'
    <2>1. /\ UNCHANGED <<registrations, notices>>
          /\ requests' = [requests EXCEPT ![w] = AfterUpdate(requests[w])]
          /\ AfterUpdate(requests[w]).pc \in {"notify", "deliver"}
                => AfterUpdate(requests[w]).op \notin {"cancel_mine", "rsvp"}
      BY <1>0, <1>6 DEF Update, Goto, AfterUpdate, Notifying, Idle, Request
    <2> QED BY <2>1 DEF TypeOK, RecipientsHaveRows, NoticesMatchRows
  <1>7. ASSUME NEW w \in Workers, GetStatus(w) \/ GetStatusFails(w) \/ CountActive(w)
        PROVE  RecipientsHaveRows'
    <2>1. /\ UNCHANGED <<registrations, notices>>
          /\ \E r : requests' = [requests EXCEPT ![w] = r] /\ r.pc \notin {"notify", "deliver"}
      BY <1>7, BeforeItsInsert
    <2> QED BY <1>1, <2>1
  <1>8. ASSUME NEW w \in Workers, ListRegistered(w)
        PROVE  RecipientsHaveRows'
    <2> DEFINE r == Notifying(requests[w], Registered(requests[w].event))
    <2>1. /\ UNCHANGED <<registrations, notices>>
          /\ requests' = [requests EXCEPT ![w] = r]
          /\ r.pc \in {"notify", "deliver"} =>
                r.event = requests[w].event /\ r.todo = Registered(requests[w].event)
      BY <1>0, <1>8 DEF ListRegistered, ListUserIDsByEvent, Goto, Notifying, Idle, Request
    <2>2. \A u \in Registered(requests[w].event) :
             u \in Attendees /\ registrations[requests[w].event][u] # "none"
      BY DEF Registered
    <2> HIDE DEF r
    <2> QED BY <2>1, <2>2 DEF TypeOK, RecipientsHaveRows, NoticesMatchRows
  <1>9. ASSUME NEW w \in Workers, Register(w)
        PROVE  RecipientsHaveRows'
    <2> DEFINE e == requests[w].event
               u == requests[w].user
               r == Notifying(requests[w], {u})
    <2>1. /\ UNCHANGED notices /\ e \in Events /\ u \in Attendees
          /\ registrations' = [registrations EXCEPT ![e][u] = "registered"]
      BY <1>0, <1>9 DEF Register, UpsertRegistered, WellFormed
    <2>2. requests' = [requests EXCEPT ![w] = r] /\ r.event = e /\ r.todo = {u}
      BY <1>0, <1>9 DEF Register, Goto, Notifying, Request
    <2>3. NoticesMatchRows'
      BY <2>1 DEF TypeOK, RecipientsHaveRows, NoticesMatchRows
    <2>4. \A x \in Events, v \in Attendees :
             registrations[x][v] # "none" => registrations'[x][v] # "none"
      BY <2>1 DEF TypeOK
    <2>5. registrations'[e][u] # "none"
      BY <2>1 DEF TypeOK
    <2> HIDE DEF r
    <2> QED BY <1>0, <2>1, <2>2, <2>3, <2>4, <2>5 DEF TypeOK, WellFormed, RecipientsHaveRows
  (* A loop over recipients goes on with fewer of them. *)
  <1>10. ASSUME NEW w \in Workers, NEW r, UNCHANGED registrations, NoticesMatchRows',
                requests' = [requests EXCEPT ![w] = r],
                r.pc \in {"notify", "deliver"} =>
                    /\ requests[w].pc \in {"notify", "deliver"} /\ r.op = requests[w].op
                    /\ r.event = requests[w].event /\ r.todo \subseteq requests[w].todo
         PROVE  RecipientsHaveRows'
    BY <1>10 DEF TypeOK, RecipientsHaveRows
  <1>11. ASSUME NEW w \in Workers, NEW people, people \subseteq requests[w].todo,
                requests[w].pc \in {"notify", "deliver"}
         PROVE  /\ Delivering(requests[w], people).op = requests[w].op
                /\ Delivering(requests[w], people).event = requests[w].event
                /\ Delivering(requests[w], people).todo = people
                /\ LET r == Notifying(requests[w], people)
                   IN  r.pc \in {"notify", "deliver"} =>
                          r.op = requests[w].op /\ r.event = requests[w].event /\ r.todo = people
    <2>1. requests[w] \in Request
      BY <1>0
    <2> QED BY <1>11, <2>1 DEF Notifying, Delivering, Idle, Request
  <1>12. ASSUME NEW w \in Workers, CreateNotice(w)
         PROVE  RecipientsHaveRows'
    <2> DEFINE e == requests[w].event
               op == requests[w].op
    <2>1. /\ UNCHANGED registrations /\ requests[w].pc = "notify" /\ e \in Events
          /\ op \in {"approve", "reject", "request_changes", "cancel_mine", "rsvp"}
          /\ requests[w].todo \subseteq Users
      BY <1>0, <1>12 DEF CreateNotice, WellFormed, Request
    <2>2. PICK u \in requests[w].todo :
             /\ requests' = [requests EXCEPT ![w] = Delivering(requests[w], requests[w].todo \ {u})]
             /\ InsertNotice(NoticeOf(op), e, u)
      BY <1>12 DEF CreateNotice, Goto
    <2>3. NoticesMatchRows'
      <3>1. CASE op \in {"cancel_mine", "rsvp"}
        <4>1. u \in Attendees /\ registrations[e][u] # "none"
          BY <2>1, <3>1 DEF RecipientsHaveRows
        <4>2. NoticeOf(op) \in NoticeKind /\ u \in Users
          BY <2>1, <2>2 DEF NoticeOf, NoticeKind
        <4>3. \A k \in NoticeKind, x \in Events, v \in Users :
                 x # e \/ v # u => notices'[k][x][v] = notices[k][x][v]
          BY <2>1, <2>2, <4>2 DEF InsertNotice, TypeOK
        <4> QED BY <2>1, <4>1, <4>3 DEF RecipientsHaveRows, NoticesMatchRows, NoticeKind, Users
      <3>2. CASE op \in {"approve", "reject", "request_changes"}
        <4>1. /\ notices'["rsvp_confirmed"] = notices["rsvp_confirmed"]
              /\ notices'["event_cancelled"] = notices["event_cancelled"]
          BY <2>2, <3>2 DEF InsertNotice, NoticeOf, NoticeKind, TypeOK
        <4> QED BY <2>1, <4>1 DEF RecipientsHaveRows, NoticesMatchRows
      <3> QED BY <2>1, <3>1, <3>2
    <2> DEFINE people == requests[w].todo \ {u}
               r == Delivering(requests[w], people)
    <2>4. r.op = op /\ r.event = e /\ r.todo = people /\ people \subseteq requests[w].todo
      BY <1>11, <2>1
    <2>5. requests' = [requests EXCEPT ![w] = r]
      BY <2>2
    <2> HIDE DEF r
    <2> QED BY <1>10, <2>1, <2>3, <2>4, <2>5
  <1>13. ASSUME NEW w \in Workers, Deliver(w) \/ LoseNotice(w)
         PROVE  RecipientsHaveRows'
    <2>1. PICK people : /\ people \subseteq requests[w].todo
                        /\ requests' = [requests EXCEPT ![w] = Notifying(requests[w], people)]
      BY <1>13 DEF Deliver, LoseNotice, Goto
    <2>2. UNCHANGED <<registrations, notices>> /\ requests[w].pc \in {"notify", "deliver"}
      BY <1>13 DEF Deliver, LoseNotice
    <2>3. NoticesMatchRows'
      BY <2>2 DEF RecipientsHaveRows, NoticesMatchRows
    <2> DEFINE r == Notifying(requests[w], people)
    <2>4. /\ requests' = [requests EXCEPT ![w] = r]
          /\ r.pc \in {"notify", "deliver"} => /\ r.op = requests[w].op
                                              /\ r.event = requests[w].event
                                              /\ r.todo = people
      BY <1>11, <2>1, <2>2
    <2> HIDE DEF r
    <2> QED BY <1>10, <2>1, <2>2, <2>3, <2>4
  <1>14. ASSUME NEW w \in Workers, Abandon(w)
         PROVE  RecipientsHaveRows'
    <2>1. UNCHANGED <<registrations, notices>> /\ requests' = [requests EXCEPT ![w] = Idle]
      BY <1>14 DEF Abandon, Goto
    <2> QED BY <1>1, <2>1 DEF Idle
  <1>15. CASE UNCHANGED vars
    BY <1>15 DEF vars, RecipientsHaveRows, NoticesMatchRows
  <1> QED BY <1>2, <1>3, <1>4, <1>5, <1>6, <1>7, <1>8, <1>9, <1>12, <1>13, <1>14, <1>15
          DEF Next, Accept, Continue, Fail

(* No notice about a seat goes to somebody who never had one. *)
THEOREM NoticesHaveRows == Spec => []NoticesMatchRows
  <1> DEFINE Inv == TypeOK /\ RequestsWellFormed /\ RecipientsHaveRows
  <1>1. Init => Inv
    BY InitTyped, InitRecipients
  <1>2. Inv /\ [Next]_vars => Inv'
    BY StepTyped, StepRecipients
  <1>3. Inv => NoticesMatchRows
    BY DEF RecipientsHaveRows
  <1> QED BY <1>1, <1>2, <1>3, PTL DEF Spec

-----------------------------------------------------------------------------
(* Seats. *)

LEMMA SeatsAreFinite ==
    /\ \A S \in SUBSET Attendees : IsFiniteSet(S) /\ Cardinality(S) \in Nat
    /\ \A S \in SUBSET Workers : /\ IsFiniteSet(S) /\ Cardinality(S) \in Nat
                                /\ Cardinality(S) <= Cardinality(Workers)
    /\ Cardinality(Workers) \in Nat
  BY AttendeesAreFinite, WorkersAreFinite, FS_Subset, FS_CardinalityType

(* The bound survives at an event where no seat is taken or promised. *)
LEMMA BoundKept ==
    ASSUME TypeOK, TypeOK', PromisedSeatsBounded, NEW e \in Events,
           Registered(e)' \subseteq Registered(e), PastCheck(e)' \subseteq PastCheck(e),
           peak[e] <= peak'[e], (Registered(e) # {} \/ PastCheck(e) # {})'
    PROVE  (Cardinality(Registered(e)) + Cardinality(PastCheck(e))
                <= peak[e] + Cardinality(Workers) - 1)'
  <1>1. /\ Registered(e) \in SUBSET Attendees /\ Registered(e)' \in SUBSET Attendees
        /\ PastCheck(e) \in SUBSET Workers /\ PastCheck(e)' \in SUBSET Workers
    BY DEF Registered, PastCheck
  <1>2. /\ Cardinality(Registered(e)') <= Cardinality(Registered(e))
        /\ Cardinality(PastCheck(e)') <= Cardinality(PastCheck(e))
    BY <1>1, SeatsAreFinite, FS_Subset
  <1>3. Cardinality(Registered(e)) + Cardinality(PastCheck(e))
            <= peak[e] + Cardinality(Workers) - 1
    BY DEF PromisedSeatsBounded
  <1>4. peak[e] \in Nat /\ peak'[e] \in Nat
    BY DEF TypeOK
  <1> QED BY <1>1, <1>2, <1>3, <1>4, SeatsAreFinite

LEMMA InitSeats == Init => PromisedSeatsBounded
  <1> SUFFICES ASSUME Init PROVE PromisedSeatsBounded
    OBVIOUS
  <1>1. \A e \in Events : Registered(e) = {} /\ PastCheck(e) = {}
    BY DEF Init, Registered, PastCheck, Idle
  <1> QED BY <1>1 DEF Init, PromisedSeatsBounded, NoRow, Joining, Idle

(* Passing the check promises a seat, inserting turns the promise into a seat,
   and only an RSVP whose count was below the peak passes.                 *)
LEMMA StepSeats ==
    ASSUME TypeOK, RequestsWellFormed, PromisedSeatsBounded, [Next]_vars
    PROVE  PromisedSeatsBounded'
  <1> USE DEF tables, history, writes
  <1>0. /\ TypeOK' /\ RequestsWellFormed'
        /\ \A w \in Workers : requests[w] \in Request /\ WellFormed(requests[w])
    BY StepTyped DEF TypeOK, RequestsWellFormed
  <1>1. ASSUME NEW w \in Workers, NEW r,
               UNCHANGED <<events, peak>>, registrations' = registrations,
               requests' = [requests EXCEPT ![w] = r], r.pc # "register",
               r.pc \in {"get_status", "count"}
                   => r.event \in Events /\ r.row.capacity <= peak[r.event]
        PROVE  PromisedSeatsBounded'
    <2>1. \A e \in Events : /\ Registered(e)' \subseteq Registered(e)
                           /\ PastCheck(e)' \subseteq PastCheck(e)
                           /\ peak[e] <= peak'[e]
      BY <1>1 DEF TypeOK, Registered, PastCheck
    <2>2. \A e \in Events : (Registered(e) # {} \/ PastCheck(e) # {})' =>
             (Cardinality(Registered(e)) + Cardinality(PastCheck(e))
                  <= peak[e] + Cardinality(Workers) - 1)'
      BY <1>0, <2>1, BoundKept
    <2>3. \A v \in Workers : Joining(v, requests[v].event)'
             => requests'[v].row.capacity <= peak'[requests'[v].event]
      BY <1>1 DEF TypeOK, PromisedSeatsBounded, Joining
    <2> QED BY <1>1, <2>2, <2>3 DEF PromisedSeatsBounded
  <1>2. ASSUME NEW e \in Events, NEW row \in Event, Remember(e, row),
               events' = [events EXCEPT ![e] = row], registrations' = registrations,
               \A v \in Workers :
                   \/ requests'[v] = requests[v]
                   \/ requests'[v].pc \notin {"get_status", "count", "register"}
        PROVE  PromisedSeatsBounded'
    <2>0. row.capacity \in Nat
      BY CapacitiesArePositive DEF Event
    <2>1. \A x \in Events : /\ Registered(x)' \subseteq Registered(x)
                           /\ PastCheck(x)' \subseteq PastCheck(x)
                           /\ peak[x] <= peak'[x]
      BY <1>2, <2>0 DEF TypeOK, Remember, Registered, PastCheck
    <2>2. \A x \in Events : (Registered(x) # {} \/ PastCheck(x) # {})' =>
             (Cardinality(Registered(x)) + Cardinality(PastCheck(x))
                  <= peak[x] + Cardinality(Workers) - 1)'
      BY <1>0, <2>1, BoundKept
    <2>3. \A x \in Events : events'[x].capacity <= peak'[x]
      BY <1>2, <2>0 DEF TypeOK, Remember, PromisedSeatsBounded
    <2>4. ASSUME NEW v \in Workers, Joining(v, requests[v].event)'
          PROVE  requests'[v].row.capacity <= peak'[requests'[v].event]
      <3>1. /\ requests'[v] = requests[v] /\ Joining(v, requests[v].event)
            /\ requests[v].event \in Events /\ requests[v].row.capacity \in Nat
        BY <1>0, <1>2, <2>4, CapacitiesArePositive DEF Joining, WellFormed, Event
      <3>2. /\ requests[v].row.capacity <= peak[requests[v].event]
            /\ peak[requests[v].event] \in Nat /\ peak'[requests[v].event] \in Nat
        BY <1>0, <3>1 DEF PromisedSeatsBounded, TypeOK
      <3> QED BY <2>1, <3>1, <3>2
    <2> QED BY <2>2, <2>3, <2>4 DEF PromisedSeatsBounded
  <1>3. ASSUME NEW o \in Organizers, NEW e \in Events, NEW c \in Capacities, Create(o, e, c)
        PROVE  PromisedSeatsBounded'
    <2>1. NewEvent(o, c) \in Event
      BY DEF NewEvent, Event, EventStatus
    <2> QED BY <1>2, <1>3, <2>1 DEF Create, InsertEvent
  <1>4. ASSUME NEW u \in Attendees, NEW e \in Events, CancelRsvp(u, e)
        PROVE  PromisedSeatsBounded'
    <2>1. \A x \in Events : /\ Registered(x)' \subseteq Registered(x)
                           /\ PastCheck(x)' \subseteq PastCheck(x)
                           /\ peak[x] <= peak'[x]
      BY <1>4 DEF CancelRsvp, SetCancelled, TypeOK, Registered, PastCheck
    <2>2. \A x \in Events : (Registered(x) # {} \/ PastCheck(x) # {})' =>
             (Cardinality(Registered(x)) + Cardinality(PastCheck(x))
                  <= peak[x] + Cardinality(Workers) - 1)'
      BY <1>0, <2>1, BoundKept
    <2>3. UNCHANGED <<events, peak, requests>>
      BY <1>4 DEF CancelRsvp
    <2> QED BY <2>2, <2>3 DEF PromisedSeatsBounded, Joining
  <1>5. ASSUME NEW w \in Workers, NEW e \in Events,
               ModerationRoutes(w, e) \/ \E o \in Organizers : OrganizerRoutes(w, o, e)
        PROVE  PromisedSeatsBounded'
    <2>1. PICK op \in Operation \ {"none", "rsvp"}, u \in Users \cup {None}, row \in Event :
             BeginUpdate(w, op, u, e, row)
      BY <1>5, ReadBeforeWrite
    <2> DEFINE r == [pc |-> "update", op |-> op, event |-> e, user |-> u,
                     row |-> row, todo |-> {}]
    <2>2. /\ UNCHANGED <<events, peak>> /\ registrations' = registrations
          /\ requests' = [requests EXCEPT ![w] = r]
          /\ r.pc = "update"
      BY <2>1 DEF BeginUpdate, Begin
    <2> HIDE DEF r
    <2> QED BY <1>1, <2>2
  <1>6. ASSUME NEW w \in Workers, NEW u \in Attendees, NEW e \in Events, Rsvp(w, u, e)
        PROVE  PromisedSeatsBounded'
    <2> DEFINE r == [pc |-> "get_status", op |-> "rsvp", event |-> e, user |-> u,
                     row |-> events[e], todo |-> {}]
    <2>1. /\ UNCHANGED <<events, peak>> /\ registrations' = registrations
          /\ requests' = [requests EXCEPT ![w] = r] /\ r.pc = "get_status"
          /\ r.event = e /\ r.row = events[e]
      BY <1>6 DEF Rsvp, Begin
    <2>2. r.row.capacity <= peak[r.event]
      BY <2>1 DEF PromisedSeatsBounded
    <2> HIDE DEF r
    <2> QED BY <1>1, <2>1, <2>2
  <1>7. ASSUME NEW w \in Workers, Update(w)
        PROVE  PromisedSeatsBounded'
    <2>1. /\ requests[w].event \in Events /\ requests[w].row \in Event
          /\ Remember(requests[w].event, requests[w].row)
          /\ events' = [events EXCEPT ![requests[w].event] = requests[w].row]
          /\ registrations' = registrations
      BY <1>0, <1>7 DEF Update, UpdateEvent, WellFormed
    <2>2. /\ requests' = [requests EXCEPT ![w] = AfterUpdate(requests[w])]
          /\ AfterUpdate(requests[w]).pc \notin {"get_status", "count", "register"}
      BY <1>0, <1>7 DEF Update, Goto, AfterUpdate, Notifying, Idle, Request
    <2>3. \A v \in Workers : \/ requests'[v] = requests[v]
                            \/ requests'[v].pc \notin {"get_status", "count", "register"}
      BY <2>2 DEF TypeOK
    <2> QED BY <1>2, <2>1, <2>3
  <1>8. ASSUME NEW w \in Workers,
               \/ ListRegistered(w) \/ CreateNotice(w) \/ Deliver(w) \/ LoseNotice(w) \/ Abandon(w)
        PROVE  PromisedSeatsBounded'
    <2>1. UNCHANGED <<events, peak>> /\ registrations' = registrations
      BY <1>8, PastItsWrite
    <2>2. PICK r : /\ requests' = [requests EXCEPT ![w] = r]
                   /\ r.pc \in {"idle", "notify", "deliver"}
      BY <1>8, PastItsWrite
    <2> QED BY <1>1, <2>1, <2>2
  <1>9. ASSUME NEW w \in Workers, GetStatus(w) \/ GetStatusFails(w)
        PROVE  PromisedSeatsBounded'
    <2>1. /\ UNCHANGED <<events, peak>> /\ registrations' = registrations
          /\ requests[w].pc = "get_status"
          /\ Goto(w, Idle) \/ Goto(w, [requests[w] EXCEPT !.pc = "count"])
      BY <1>9 DEF GetStatus, GetStatusFails
    <2>2. CASE Goto(w, Idle)
      <3>1. Idle.pc = "idle"
        BY DEF Idle
      <3> QED BY <1>1, <2>1, <2>2, <3>1 DEF Goto
    <2>3. CASE Goto(w, [requests[w] EXCEPT !.pc = "count"])
      <3> DEFINE r == [requests[w] EXCEPT !.pc = "count"]
      <3>1. /\ requests' = [requests EXCEPT ![w] = r] /\ r.pc = "count"
            /\ r.event = requests[w].event /\ r.row = requests[w].row
        BY <1>0, <2>3 DEF Goto, Request
      <3>2. requests[w].event \in Events /\ requests[w].row.capacity <= peak[requests[w].event]
        BY <1>0, <2>1 DEF PromisedSeatsBounded, Joining, WellFormed
      <3> HIDE DEF r
      <3> QED BY <1>1, <2>1, <3>1, <3>2
    <2> QED BY <2>1, <2>2, <2>3
  <1>10. ASSUME NEW w \in Workers, CountActive(w)
         PROVE  PromisedSeatsBounded'
    <2>0. PICK e \in Events : e = requests[w].event
      BY <1>0, <1>10 DEF CountActive, WellFormed
    <2> DEFINE r == [requests[w] EXCEPT !.pc = "register"]
    <2>1. /\ UNCHANGED <<events, peak>> /\ registrations' = registrations
          /\ requests[w].pc = "count"
          /\ requests[w].row.capacity \in Nat /\ peak[e] \in Nat
          /\ requests[w].row.capacity <= peak[e]
          /\ Cardinality(Registered(e)) \in Nat
      <3>1. requests[w].pc = "count" /\ requests[w].row \in Event
        BY <1>0, <1>10 DEF CountActive, WellFormed
      <3>2. Cardinality(Registered(e)) \in Nat
        BY SeatsAreFinite DEF Registered
      <3> QED BY <1>10, <2>0, <3>1, <3>2, CapacitiesArePositive
              DEF CountActive, PromisedSeatsBounded, Joining, TypeOK, Event
    <2>2. CASE Goto(w, Idle)
      <3>1. Idle.pc = "idle"
        BY DEF Idle
      <3> QED BY <1>1, <2>1, <2>2, <3>1 DEF Goto
    <2>3. CASE Goto(w, r) /\ Cardinality(Registered(e)) < requests[w].row.capacity
      <3>1. /\ requests' = [requests EXCEPT ![w] = r] /\ r.pc = "register"
            /\ r.event = e /\ r.row = requests[w].row
        BY <1>0, <2>0, <2>3 DEF Goto, Request
      <3>2. \A x \in Events : x # e => /\ Registered(x)' \subseteq Registered(x)
                                      /\ PastCheck(x)' \subseteq PastCheck(x)
                                      /\ peak[x] <= peak'[x]
        <4> HIDE DEF r
        <4> QED BY <2>1, <3>1 DEF TypeOK, Registered, PastCheck
      <3>3. \A x \in Events : x # e /\ (Registered(x) # {} \/ PastCheck(x) # {})' =>
               (Cardinality(Registered(x)) + Cardinality(PastCheck(x))
                    <= peak[x] + Cardinality(Workers) - 1)'
        BY <1>0, <3>2, BoundKept
      <3>4. (Cardinality(Registered(e)) + Cardinality(PastCheck(e))
                    <= peak[e] + Cardinality(Workers) - 1)'
        <4>1. /\ Registered(e)' = Registered(e) /\ peak'[e] = peak[e]
              /\ PastCheck(e)' \in SUBSET Workers
          BY <2>1 DEF Registered, PastCheck
        <4>2. /\ Cardinality(PastCheck(e)') <= Cardinality(Workers)
              /\ Cardinality(PastCheck(e)') \in Nat /\ Cardinality(Workers) \in Nat
          BY <4>1, SeatsAreFinite
        <4> QED BY <2>1, <2>3, <4>1, <4>2
      <3>5. \A v \in Workers : Joining(v, requests[v].event)'
               => requests'[v].row.capacity <= peak'[requests'[v].event]
        <4> HIDE DEF r
        <4> QED BY <2>0, <2>1, <3>1 DEF TypeOK, PromisedSeatsBounded, Joining
      <3> QED BY <2>1, <3>3, <3>4, <3>5 DEF PromisedSeatsBounded
    <2> QED BY <1>10, <2>0, <2>1, <2>2, <2>3 DEF CountActive, CountActiveByEvent
  <1>11. ASSUME NEW w \in Workers, Register(w)
         PROVE  PromisedSeatsBounded'
    <2>0. PICK e \in Events : e = requests[w].event
      BY <1>0, <1>11 DEF Register, WellFormed
    <2>00. PICK u \in Attendees : u = requests[w].user
      BY <1>0, <1>11 DEF Register, WellFormed
    <2> DEFINE r == Notifying(requests[w], {u})
    <2>1. /\ UNCHANGED <<events, peak>> /\ w \in PastCheck(e)
          /\ registrations' = [registrations EXCEPT ![e][u] = "registered"]
      BY <2>0, <2>00, <1>11 DEF Register, UpsertRegistered, PastCheck
    <2>2. requests' = [requests EXCEPT ![w] = r] /\ r.pc = "notify"
      BY <1>0, <1>11, <2>00 DEF Register, Goto, Notifying, Request
    <2> HIDE DEF r
    <2>3. /\ Registered(e)' = Registered(e) \cup {u}
          /\ PastCheck(e)' = PastCheck(e) \ {w}
          /\ peak'[e] = peak[e]
      BY <2>0, <2>1, <2>2 DEF TypeOK, Registered, PastCheck
    <2>4. \A x \in Events : x # e => /\ Registered(x)' \subseteq Registered(x)
                                    /\ PastCheck(x)' \subseteq PastCheck(x)
                                    /\ peak[x] <= peak'[x]
      BY <2>0, <2>1, <2>2 DEF TypeOK, Registered, PastCheck
    <2>5. \A x \in Events : x # e /\ (Registered(x) # {} \/ PastCheck(x) # {})' =>
             (Cardinality(Registered(x)) + Cardinality(PastCheck(x))
                  <= peak[x] + Cardinality(Workers) - 1)'
      BY <1>0, <2>4, BoundKept
    <2>6. (Cardinality(Registered(e)) + Cardinality(PastCheck(e))
                  <= peak[e] + Cardinality(Workers) - 1)'
      <3>1. Registered(e) \in SUBSET Attendees /\ PastCheck(e) \in SUBSET Workers
        BY DEF Registered, PastCheck
      <3>2. Cardinality(Registered(e)) + Cardinality(PastCheck(e))
                <= peak[e] + Cardinality(Workers) - 1
        BY <2>1 DEF PromisedSeatsBounded
      <3>3. Cardinality(Registered(e)') <= Cardinality(Registered(e)) + 1
        BY <2>3, <3>1, SeatsAreFinite, FS_AddElement
      <3>4. Cardinality(PastCheck(e)') = Cardinality(PastCheck(e)) - 1
        BY <2>1, <2>3, <3>1, SeatsAreFinite, FS_RemoveElement
      <3>5. /\ Cardinality(Registered(e)) \in Nat /\ Cardinality(Registered(e)') \in Nat
            /\ Cardinality(PastCheck(e)) \in Nat /\ Cardinality(PastCheck(e)') \in Nat
            /\ Cardinality(Workers) \in Nat /\ peak[e] \in Nat
        <4>1. Registered(e)' \in SUBSET Attendees /\ PastCheck(e)' \in SUBSET Workers
          BY DEF Registered, PastCheck
        <4> QED BY <3>1, <4>1, SeatsAreFinite DEF TypeOK
      <3> QED BY <2>3, <3>2, <3>3, <3>4, <3>5
    <2>7. \A v \in Workers : Joining(v, requests[v].event)'
             => requests'[v].row.capacity <= peak'[requests'[v].event]
      BY <2>1, <2>2 DEF TypeOK, PromisedSeatsBounded, Joining
    <2> QED BY <2>1, <2>5, <2>6, <2>7 DEF PromisedSeatsBounded
  <1>12. CASE UNCHANGED vars
    BY <1>12 DEF vars, PromisedSeatsBounded, Registered, PastCheck, Joining
  <1> QED BY <1>3, <1>4, <1>5, <1>6, <1>7, <1>8, <1>9, <1>10, <1>11, <1>12
          DEF Next, Accept, Continue, Fail

(* However RSVPs interleave, an event is oversold by fewer seats than there are
   requests in progress at once.                                           *)
THEOREM Overbooking == Spec => []OverbookingBounded
  <1> DEFINE Inv == TypeOK /\ RequestsWellFormed /\ PromisedSeatsBounded
  <1>1. Init => Inv
    BY InitTyped, InitSeats
  <1>2. Inv /\ [Next]_vars => Inv'
    BY StepTyped, StepSeats
  <1>3. Inv => OverbookingBounded
    <2> SUFFICES ASSUME Inv, NEW e \in Events, Registered(e) # {}
                 PROVE  Cardinality(Registered(e)) <= peak[e] + Cardinality(Workers) - 1
      BY DEF OverbookingBounded
    <2>1. Cardinality(Registered(e)) + Cardinality(PastCheck(e))
              <= peak[e] + Cardinality(Workers) - 1
      BY DEF PromisedSeatsBounded
    <2>2. Registered(e) \in SUBSET Attendees /\ PastCheck(e) \in SUBSET Workers
      BY DEF Registered, PastCheck
    <2> QED BY <2>1, <2>2, SeatsAreFinite DEF TypeOK
  <1> QED BY <1>1, <1>2, <1>3, PTL DEF Spec

-----------------------------------------------------------------------------
(* What no step does. *)

(* A step changes an event's row only by inserting it or by a request that
   writes what it holds, and only a request that read an event neither missing
   nor cancelled becomes a writer.                                         *)
LEMMA StepKeepsCancelled ==
    ASSUME TypeOK, RequestsWellFormed, [Next]_vars, NEW e \in Events, CancelSettled(e)
    PROVE  CancelSettled(e)'
  <1> USE DEF tables, history, writes
  <1>0. \A w \in Workers : requests[w] \in Request /\ WellFormed(requests[w])
    BY DEF TypeOK, RequestsWellFormed
  <1>1. ASSUME NEW w \in Workers, NEW r, UNCHANGED events,
               requests' = [requests EXCEPT ![w] = r],
               r.pc # "update" \/ r.event # e
        PROVE  CancelSettled(e)'
    BY <1>1 DEF TypeOK, CancelSettled, Writing
  <1>2. ASSUME NEW o \in Organizers, NEW x \in Events, NEW c \in Capacities, Create(o, x, c)
        PROVE  CancelSettled(e)'
    <2>1. x # e
      BY <1>2 DEF Create, Found, CancelSettled
    <2> QED BY <1>2, <2>1 DEF Create, InsertEvent, TypeOK, CancelSettled, Writing
  <1>3. ASSUME NEW u \in Attendees, NEW x \in Events, CancelRsvp(u, x)
        PROVE  CancelSettled(e)'
    BY <1>3 DEF CancelRsvp, CancelSettled, Writing
  <1>4. ASSUME NEW w \in Workers, NEW x \in Events,
               ModerationRoutes(w, x) \/ \E o \in Organizers : OrganizerRoutes(w, o, x)
        PROVE  CancelSettled(e)'
    <2>1. PICK op \in Operation \ {"none", "rsvp"}, u \in Users \cup {None}, row \in Event :
             BeginUpdate(w, op, u, x, row) /\ events[x].status # "cancelled"
      BY <1>4, ReadBeforeWrite DEF LegalWrite
    <2> DEFINE r == [pc |-> "update", op |-> op, event |-> x, user |-> u,
                     row |-> row, todo |-> {}]
    <2>2. UNCHANGED events /\ requests' = [requests EXCEPT ![w] = r] /\ r.event = x
      BY <2>1 DEF BeginUpdate, Begin
    <2>3. x # e
      BY <2>1 DEF CancelSettled
    <2> HIDE DEF r
    <2> QED BY <1>1, <2>2, <2>3
  <1>5. ASSUME NEW w \in Workers, NEW u \in Attendees, NEW x \in Events, Rsvp(w, u, x)
        PROVE  CancelSettled(e)'
    <2> DEFINE r == [pc |-> "get_status", op |-> "rsvp", event |-> x, user |-> u,
                     row |-> events[x], todo |-> {}]
    <2>1. UNCHANGED events /\ requests' = [requests EXCEPT ![w] = r] /\ r.pc # "update"
      BY <1>5 DEF Rsvp, Begin
    <2> HIDE DEF r
    <2> QED BY <1>1, <2>1
  <1>6. ASSUME NEW w \in Workers, Update(w)
        PROVE  CancelSettled(e)'
    <2>1. /\ events' = [events EXCEPT ![requests[w].event] = requests[w].row]
          /\ requests[w].event = e => requests[w].row.status = "cancelled"
      BY <1>6 DEF Update, UpdateEvent, CancelSettled, Writing
    <2>2. /\ requests' = [requests EXCEPT ![w] = AfterUpdate(requests[w])]
          /\ AfterUpdate(requests[w]).pc # "update"
      BY <1>0, <1>6 DEF Update, Goto, AfterUpdate, Notifying, Idle, Request
    <2> QED BY <2>1, <2>2 DEF TypeOK, CancelSettled, Writing
  <1>7. ASSUME NEW w \in Workers,
               \/ ListRegistered(w) \/ CreateNotice(w) \/ Deliver(w) \/ LoseNotice(w) \/ Abandon(w)
               \/ GetStatus(w) \/ GetStatusFails(w) \/ CountActive(w) \/ Register(w)
        PROVE  CancelSettled(e)'
    <2>1. UNCHANGED events /\ \E r : requests' = [requests EXCEPT ![w] = r] /\ r.pc # "update"
      BY <1>7, PastItsWrite, BeforeItsInsert, ItsInsert
    <2> QED BY <1>1, <2>1
  <1>8. CASE UNCHANGED vars
    BY <1>8 DEF vars, CancelSettled, Writing
  <1> QED BY <1>2, <1>3, <1>4, <1>5, <1>6, <1>7, <1>8 DEF Next, Accept, Continue, Fail

(* Once no request that read the event before its cancellation is still
   running, the event stays cancelled.                                     *)
THEOREM CancelledForGood == Spec => SettledCancelIsFinal
  <1> DEFINE Inv == TypeOK /\ RequestsWellFormed
             Kept == \A e \in Events : CancelSettled(e) => CancelSettled(e)'
  <1>1. Inv /\ [Next]_vars => Inv'
    BY StepTyped
  <1>2. Inv /\ [Next]_vars => [Kept]_vars
    BY StepKeepsCancelled
  <1>3. Init => Inv
    BY InitTyped
  <1>4. Spec => [][Kept]_vars
    <2> HIDE DEF Inv, Kept
    <2> QED BY <1>1, <1>2, <1>3, PTL DEF Spec
  <1> QED BY <1>4 DEF SettledCancelIsFinal

LEMMA StepKeepsDoorShut ==
    ASSUME TypeOK, RequestsWellFormed, [Next]_vars, NEW e \in Events, DoorShut(e)
    PROVE  /\ Registered(e)' \subseteq Registered(e)
           /\ \A w \in Workers : ~Joining(w, e)'
  <1> USE DEF tables, history, writes
  <1> DEFINE Goal == /\ Registered(e)' \subseteq Registered(e)
                     /\ \A w \in Workers : ~Joining(w, e)'
  <1>0. \A w \in Workers : requests[w] \in Request /\ WellFormed(requests[w])
    BY DEF TypeOK, RequestsWellFormed
  <1>1. ASSUME NEW w \in Workers, NEW r, registrations' = registrations,
               requests' = [requests EXCEPT ![w] = r],
               r.pc \in {"get_status", "count", "register"} => r.event # e
        PROVE  Goal
    BY <1>1 DEF TypeOK, DoorShut, Joining, Registered
  <1>2. ASSUME NEW o \in Organizers, NEW x \in Events, NEW c \in Capacities, Create(o, x, c)
        PROVE  Goal
    BY <1>2 DEF Create, DoorShut, Joining, Registered
  <1>3. ASSUME NEW u \in Attendees, NEW x \in Events, CancelRsvp(u, x)
        PROVE  Goal
    BY <1>3 DEF CancelRsvp, SetCancelled, TypeOK, DoorShut, Joining, Registered
  <1>4. ASSUME NEW w \in Workers, NEW x \in Events,
               ModerationRoutes(w, x) \/ \E o \in Organizers : OrganizerRoutes(w, o, x)
        PROVE  Goal
    <2>1. PICK op \in Operation \ {"none", "rsvp"}, u \in Users \cup {None}, row \in Event :
             BeginUpdate(w, op, u, x, row)
      BY <1>4, ReadBeforeWrite
    <2> DEFINE r == [pc |-> "update", op |-> op, event |-> x, user |-> u,
                     row |-> row, todo |-> {}]
    <2>2. /\ registrations' = registrations /\ requests' = [requests EXCEPT ![w] = r]
          /\ r.pc = "update"
      BY <2>1 DEF BeginUpdate, Begin
    <2> HIDE DEF r
    <2> QED BY <1>1, <2>2
  <1>5. ASSUME NEW w \in Workers, NEW u \in Attendees, NEW x \in Events, Rsvp(w, u, x)
        PROVE  Goal
    <2> DEFINE r == [pc |-> "get_status", op |-> "rsvp", event |-> x, user |-> u,
                     row |-> events[x], todo |-> {}]
    <2>1. /\ registrations' = registrations /\ requests' = [requests EXCEPT ![w] = r]
          /\ r.event = x /\ x # e
      BY <1>5 DEF Rsvp, Begin, DoorShut
    <2> HIDE DEF r
    <2> QED BY <1>1, <2>1
  <1>6. ASSUME NEW w \in Workers, Update(w)
        PROVE  Goal
    <2>1. /\ registrations' = registrations
          /\ requests' = [requests EXCEPT ![w] = AfterUpdate(requests[w])]
          /\ AfterUpdate(requests[w]).pc \notin {"get_status", "count", "register"}
      BY <1>0, <1>6 DEF Update, Goto, AfterUpdate, Notifying, Idle, Request
    <2> QED BY <1>1, <2>1
  <1>7. ASSUME NEW w \in Workers,
               \/ ListRegistered(w) \/ CreateNotice(w) \/ Deliver(w) \/ LoseNotice(w) \/ Abandon(w)
        PROVE  Goal
    <2>1. PICK r : /\ registrations' = registrations /\ requests' = [requests EXCEPT ![w] = r]
                   /\ r.pc \in {"idle", "notify", "deliver"}
      BY <1>7, PastItsWrite
    <2> QED BY <1>1, <2>1
  <1>8. ASSUME NEW w \in Workers, GetStatus(w) \/ GetStatusFails(w) \/ CountActive(w)
        PROVE  Goal
    <2>1. /\ registrations' = registrations /\ requests[w].event # e
          /\ \/ Goto(w, Idle)
             \/ \E pc \in {"count", "register"} : Goto(w, [requests[w] EXCEPT !.pc = pc])
      BY <1>8 DEF GetStatus, GetStatusFails, CountActive, DoorShut, Joining
    <2>2. CASE Goto(w, Idle)
      <3>1. Idle.pc = "idle"
        BY DEF Idle
      <3> QED BY <1>1, <2>1, <2>2, <3>1 DEF Goto
    <2>3. ASSUME NEW pc \in {"count", "register"}, Goto(w, [requests[w] EXCEPT !.pc = pc])
          PROVE  Goal
      <3> DEFINE r == [requests[w] EXCEPT !.pc = pc]
      <3>1. requests' = [requests EXCEPT ![w] = r] /\ r.event = requests[w].event
        BY <1>0, <2>3 DEF Goto, Request
      <3> HIDE DEF r
      <3> QED BY <1>1, <2>1, <3>1
    <2> QED BY <2>1, <2>2, <2>3
  <1>9. ASSUME NEW w \in Workers, Register(w)
        PROVE  Goal
    <2>1. /\ requests[w].event # e
          /\ registrations' = [registrations EXCEPT
                                  ![requests[w].event][requests[w].user] = "registered"]
          /\ requests' = [requests EXCEPT ![w] = Notifying(requests[w], {requests[w].user})]
      BY <1>9 DEF Register, UpsertRegistered, Goto, DoorShut, Joining
    <2>2. Notifying(requests[w], {requests[w].user}).pc = "notify"
      BY <1>0 DEF Notifying, Request
    <2>3. Registered(e)' \subseteq Registered(e)
      BY <2>1 DEF TypeOK, Registered
    <2> QED BY <2>1, <2>2, <2>3 DEF TypeOK, DoorShut, Joining
  <1>10. CASE UNCHANGED vars
    BY <1>10 DEF vars, DoorShut, Joining, Registered
  <1> QED BY <1>2, <1>3, <1>4, <1>5, <1>6, <1>7, <1>8, <1>9, <1>10
          DEF Next, Accept, Continue, Fail

(* While an event is not published and no RSVP that read it published is still
   running, nobody gains a seat.                                           *)
THEOREM ShutDoor == Spec => NobodyJoinsBehindTheDoor
  <1> DEFINE Inv == TypeOK /\ RequestsWellFormed
             Kept == \A e \in Events : DoorShut(e) =>
                        /\ Registered(e)' \subseteq Registered(e)
                        /\ \A w \in Workers : ~Joining(w, e)'
  <1>1. Inv /\ [Next]_vars => Inv'
    BY StepTyped
  <1>2. Inv /\ [Next]_vars => [Kept]_vars
    BY StepKeepsDoorShut
  <1>3. Init => Inv
    BY InitTyped
  <1>4. Spec => [][Kept]_vars
    <2> HIDE DEF Inv, Kept
    <2> QED BY <1>1, <1>2, <1>3, PTL DEF Spec
  <1> QED BY <1>4 DEF NobodyJoinsBehindTheDoor

-----------------------------------------------------------------------------
(* How a request begins, and how it writes. *)

(* An accepted request holds a row of its event as the table has it, or what its
   operation makes of that row.                                            *)
LEMMA Begins ==
    ASSUME TypeOK, NEW w \in Workers, Accept(w)
    PROVE  \E e \in Events, r \in Request :
              /\ UNCHANGED <<tables, history, faults>>
              /\ requests[w] = Idle /\ requests' = [requests EXCEPT ![w] = r]
              /\ r.event = e /\ r.op # "none"
              /\ \/ /\ r.pc = "update" /\ r.op # "rsvp"
                    /\ LegalWrite(r.op, Version(events[e]), Version(r.row))
                    /\ r.row.status = "cancelled" <=> r.op = "cancel_mine"
                 \/ r.pc = "get_status" /\ r.op = "rsvp" /\ events[e].status = "published"
  <1> USE DEF tables, history, writes
  <1>1. ASSUME NEW e \in Events,
               ModerationRoutes(w, e) \/ \E o \in Organizers : OrganizerRoutes(w, o, e)
        PROVE  \E r \in Request :
                  /\ UNCHANGED <<tables, history, faults>>
                  /\ requests[w] = Idle /\ requests' = [requests EXCEPT ![w] = r]
                  /\ r.event = e /\ r.pc = "update" /\ r.op \notin {"none", "rsvp"}
                  /\ LegalWrite(r.op, Version(events[e]), Version(r.row))
                  /\ r.row.status = "cancelled" <=> r.op = "cancel_mine"
    <2>1. PICK op \in Operation \ {"none", "rsvp"}, u \in Users \cup {None}, row \in Event :
             BeginUpdate(w, op, u, e, row) /\ LegalWrite(op, events[e], row)
      BY <1>1, ReadBeforeWrite
    <2> DEFINE r == [pc |-> "update", op |-> op, event |-> e, user |-> u,
                     row |-> row, todo |-> {}]
    <2>2. r \in Request
      BY DEF Request, Step
    <2>3. /\ UNCHANGED <<tables, history, faults>>
          /\ requests[w] = Idle /\ requests' = [requests EXCEPT ![w] = r]
      BY <2>1 DEF BeginUpdate, Begin
    <2>4. /\ LegalWrite(op, Version(events[e]), Version(row))
          /\ row.status = "cancelled" <=> op = "cancel_mine"
      BY <2>1 DEF LegalWrite, Version
    <2> QED BY <2>2, <2>3, <2>4
  <1>2. ASSUME NEW e \in Events, NEW u \in Attendees, Rsvp(w, u, e)
        PROVE  \E r \in Request :
                  /\ UNCHANGED <<tables, history, faults>>
                  /\ requests[w] = Idle /\ requests' = [requests EXCEPT ![w] = r]
                  /\ r.event = e /\ r.pc = "get_status" /\ r.op = "rsvp"
                  /\ events[e].status = "published"
    <2> DEFINE r == [pc |-> "get_status", op |-> "rsvp", event |-> e, user |-> u,
                     row |-> events[e], todo |-> {}]
    <2>1. events[e] \in Event
      BY <1>2 DEF Rsvp, TypeOK, NoRow
    <2>2. r \in Request
      BY <2>1 DEF Request, Step, Operation, Users
    <2> QED BY <1>2, <2>2 DEF Rsvp, Begin
  <1> QED BY <1>1, <1>2 DEF Accept

(* A request that writes is done with the events it read. *)
LEMMA ItsWrite ==
    ASSUME TypeOK, RequestsWellFormed, NEW w \in Workers, Update(w)
    PROVE  \E e \in Events, row \in Event :
              /\ e = requests[w].event /\ row = requests[w].row /\ Writing(w, e)
              /\ UNCHANGED <<registrations, notices, late, lost>>
              /\ events' = [events EXCEPT ![e] = row] /\ Remember(e, row)
              /\ \E r \in Request :
                    /\ requests' = [requests EXCEPT ![w] = r]
                    /\ IF requests[w].op = "cancel_mine"
                       THEN r.pc = "list_registered" /\ r.op = "cancel_mine" /\ r.event = e
                       ELSE r.pc \in {"idle", "notify"} /\ r.op # "cancel_mine"
  <1>1. /\ requests[w] \in Request /\ WellFormed(requests[w]) /\ requests[w].pc = "update"
        /\ requests[w].row.organizer \in Users
    BY DEF TypeOK, RequestsWellFormed, Update, WellFormed, Event, Users
  <1>2. PICK e \in Events, row \in Event : e = requests[w].event /\ row = requests[w].row
    BY <1>1 DEF WellFormed
  <1>3. /\ Writing(w, e) /\ UNCHANGED <<registrations, notices, late, lost>>
        /\ events' = [events EXCEPT ![e] = row] /\ Remember(e, row)
        /\ requests' = [requests EXCEPT ![w] = AfterUpdate(requests[w])]
    BY <1>1, <1>2 DEF Update, UpdateEvent, Goto, Writing
  <1>4. /\ AfterUpdate(requests[w]) \in Request
        /\ IF requests[w].op = "cancel_mine"
           THEN /\ AfterUpdate(requests[w]).pc = "list_registered"
                /\ AfterUpdate(requests[w]).op = "cancel_mine"
                /\ AfterUpdate(requests[w]).event = e
           ELSE /\ AfterUpdate(requests[w]).pc \in {"idle", "notify"}
                /\ AfterUpdate(requests[w]).op # "cancel_mine"
    <2>1. CASE requests[w].op \in {"approve", "reject", "request_changes"}
      <3> DEFINE n == Notifying(requests[w], {requests[w].row.organizer})
      <3>1. {requests[w].row.organizer} \in SUBSET Users
        BY <1>1
      <3>2. n \in Request
        BY <1>1, <1>2, <2>1, <3>1, NotifyingIsWellFormed
      <3>3. n.pc = "notify" /\ n.op = requests[w].op
        BY <1>1, <2>1 DEF Notifying, Request
      <3>4. AfterUpdate(requests[w]) = n
        BY <2>1 DEF AfterUpdate
      <3> HIDE DEF n
      <3> QED BY <2>1, <3>2, <3>3, <3>4
    <2>2. CASE requests[w].op = "cancel_mine"
      BY <1>1, <1>2, <2>2 DEF AfterUpdate, Request, Step
    <2>3. CASE requests[w].op \notin {"approve", "reject", "request_changes", "cancel_mine"}
      BY <2>3, IdleIsWellFormed DEF AfterUpdate, Idle
    <2> QED BY <2>1, <2>2, <2>3
  <1> QED BY <1>2, <1>3, <1>4

(* The steps of a request in progress change that request only. *)
LEMMA OneRequestMoves ==
    ASSUME TypeOK, RequestsWellFormed, [Next]_vars
    PROVE  \/ requests' = requests
           \/ \E w \in Workers, r \in Request : requests' = [requests EXCEPT ![w] = r]
  <1>1. ASSUME NEW w \in Workers, Accept(w) \/ Continue(w) \/ Deliver(w) \/ Fail(w)
        PROVE  \E r \in Request : requests' = [requests EXCEPT ![w] = r]
    BY <1>1, Begins, ItsWrite, PastItsWrite, BeforeItsInsert, ItsInsert DEF Continue, Fail
  <1>2. ASSUME \/ \E o \in Organizers, e \in Events, c \in Capacities : Create(o, e, c)
               \/ \E u \in Attendees, e \in Events : CancelRsvp(u, e)
               \/ UNCHANGED vars
        PROVE  requests' = requests
    BY <1>2 DEF Create, CancelRsvp, vars
  <1> QED BY <1>1, <1>2 DEF Next

-----------------------------------------------------------------------------
(* The lifecycle, stale structs and all. *)

LEMMA InitReadsArePast == Init => ReadsArePast
  BY DEF Init, ReadsArePast, Writing, Joining, Idle, NoRow

(* What a request read of its event was a row of it when it read, and rows are
   only ever added to what the event had.                                  *)
LEMMA StepReadsArePast ==
    ASSUME TypeOK, RequestsWellFormed, ReadsArePast, [Next]_vars
    PROVE  ReadsArePast'
  <1> USE DEF tables, history, writes
  <1> DEFINE Rows == \A e \in Events :
                        IF events[e] = NoRow THEN past[e] = {} ELSE Version(events[e]) \in past[e]
             Justified(r, e, had) ==
                 /\ r.pc = "update" =>
                       \E old \in had : LegalWrite(r.op, old, Version(r.row))
                 /\ r.pc \in {"get_status", "count", "register"} =>
                       \E old \in had : old.status = "published"
  <1>0. \A w \in Workers : requests[w] \in Request /\ WellFormed(requests[w])
    BY DEF TypeOK, RequestsWellFormed
  <1>1. \A w \in Workers, e \in Events :
           requests[w].event = e => Justified(requests[w], e, past[e])
    BY DEF ReadsArePast, Writing, Joining
  (* It is enough to look at the rows and at the request that moved. *)
  <1>2. ASSUME Rows', NEW w \in Workers, NEW r, requests' = [requests EXCEPT ![w] = r],
               \A e \in Events : past[e] \subseteq past'[e],
               \A e \in Events : r.event = e => Justified(r, e, past'[e])
        PROVE  ReadsArePast'
    <2>1. ASSUME NEW v \in Workers, NEW e \in Events, requests'[v].event = e
          PROVE  Justified(requests'[v], e, past'[e])
      BY <1>1, <1>2, <2>1 DEF TypeOK
    <2> QED BY <1>2, <2>1 DEF ReadsArePast, Writing, Joining
  <1>3. ASSUME NEW e \in Events, NEW row \in Event,
               events' = [events EXCEPT ![e] = row], Remember(e, row)
        PROVE  Rows' /\ \A x \in Events : past[x] \subseteq past'[x]
    <2>1. row # NoRow
      BY DEF Event, EventStatus, NoRow
    <2> QED BY <1>3, <2>1 DEF Remember, TypeOK, ReadsArePast
  <1>4. ASSUME UNCHANGED <<events, past>>
        PROVE  Rows' /\ \A x \in Events : past[x] \subseteq past'[x]
    BY <1>4 DEF ReadsArePast
  <1>5. ASSUME NEW o \in Organizers, NEW e \in Events, NEW c \in Capacities, Create(o, e, c)
        PROVE  ReadsArePast'
    <2>1. NewEvent(o, c) \in Event
      BY DEF NewEvent, Event, EventStatus
    <2>2. Rows' /\ \A x \in Events : past[x] \subseteq past'[x]
      BY <1>3, <1>5, <2>1 DEF Create, InsertEvent
    <2>3. requests' = requests
      BY <1>5 DEF Create
    <2> QED BY <1>1, <2>2, <2>3 DEF ReadsArePast, Writing, Joining
  <1>6. ASSUME NEW w \in Workers, Accept(w) PROVE ReadsArePast'
    <2>1. PICK e \in Events, r \in Request :
             /\ UNCHANGED <<events, past>> /\ requests' = [requests EXCEPT ![w] = r]
             /\ r.event = e
             /\ \/ r.pc = "update" /\ LegalWrite(r.op, Version(events[e]), Version(r.row))
                \/ r.pc = "get_status" /\ events[e].status = "published"
      BY <1>6, Begins
    <2>2. events[e].status # "absent"
      BY <2>1 DEF LegalWrite, Version
    <2>3. Version(events[e]) \in past[e] /\ Version(events[e]).status = events[e].status
      BY <2>2 DEF ReadsArePast, NoRow, Version
    <2>4. Justified(r, e, past'[e])
      BY <2>1, <2>3
    <2> QED BY <1>2, <1>4, <2>1, <2>4
  <1>7. ASSUME NEW w \in Workers, Update(w) PROVE ReadsArePast'
    <2>1. PICK e \in Events, row \in Event, r \in Request :
             /\ events' = [events EXCEPT ![e] = row] /\ Remember(e, row)
             /\ requests' = [requests EXCEPT ![w] = r]
             /\ r.pc \in {"list_registered", "idle", "notify"}
      BY <1>7, ItsWrite
    <2> QED BY <1>2, <1>3, <2>1
  <1>8. ASSUME NEW w \in Workers,
               \/ ListRegistered(w) \/ CreateNotice(w) \/ Deliver(w) \/ LoseNotice(w) \/ Abandon(w)
               \/ Register(w)
        PROVE  ReadsArePast'
    <2>1. /\ UNCHANGED <<events, past>>
          /\ \E r \in Request : /\ requests' = [requests EXCEPT ![w] = r]
                                /\ r.pc \in {"idle", "notify", "deliver"}
      BY <1>8, PastItsWrite, ItsInsert
    <2> QED BY <1>2, <1>4, <2>1
  <1>9. ASSUME NEW w \in Workers, GetStatus(w) \/ GetStatusFails(w) \/ CountActive(w)
        PROVE  ReadsArePast'
    <2>1. /\ UNCHANGED <<events, past>> /\ Joining(w, requests[w].event)
          /\ \E r \in Request : /\ requests' = [requests EXCEPT ![w] = r]
                                /\ r.pc \in {"idle", "count", "register"}
                                /\ r # Idle => r.event = requests[w].event
      BY <1>9, BeforeItsInsert
    <2>2. PICK r \in Request : /\ requests' = [requests EXCEPT ![w] = r]
                               /\ r.pc \in {"idle", "count", "register"}
                               /\ r # Idle => r.event = requests[w].event
      BY <2>1
    <2>3. \A e \in Events : r.event = e => Justified(r, e, past'[e])
      BY <1>1, <2>1, <2>2 DEF Joining, Idle
    <2> QED BY <1>2, <1>4, <2>1, <2>2, <2>3
  <1>10. ASSUME \/ \E u \in Attendees, e \in Events : CancelRsvp(u, e)
                \/ UNCHANGED vars
         PROVE  ReadsArePast'
    BY <1>10 DEF CancelRsvp, vars, ReadsArePast, Writing, Joining
  <1> QED BY <1>5, <1>6, <1>7, <1>8, <1>9, <1>10 DEF Next, Continue, Fail

(* Every step is a lifecycle step of its event, or none: an event moves when
   its row is inserted or written, a seat when its row is.                 *)
LEMMA StepImplementsLifecycle ==
    ASSUME TypeOK, RequestsWellFormed, ReadsArePast, [Next]_vars
    PROVE  [Lifecycle!Next]_(Lifecycle!vars)
  <1> USE DEF tables, history, writes
  <1>1. ASSUME UNCHANGED <<events, past, registrations>>
        PROVE  UNCHANGED Lifecycle!vars
    BY <1>1 DEF Lifecycle!vars, Registered
  <1>2. ASSUME NEW e \in Events, NEW row, events' = [events EXCEPT ![e] = row],
               Remember(e, row), registrations' = registrations
        PROVE  Lifecycle!Write(e, Version(row))
    BY <1>2 DEF TypeOK, Remember, Registered, Lifecycle!Write
  <1>3. ASSUME NEW o \in Organizers, NEW e \in Events, NEW c \in Capacities, Create(o, e, c)
        PROVE  Lifecycle!Submit(e, c)
    <2>1. past[e] = {} /\ Lifecycle!Write(e, Version(NewEvent(o, c)))
      BY <1>2, <1>3 DEF Create, Found, InsertEvent, ReadsArePast, TypeOK, Event, EventStatus
    <2> QED BY <2>1 DEF Lifecycle!Submit, Version, NewEvent
  <1>4. ASSUME NEW u \in Attendees, NEW e \in Events, CancelRsvp(u, e)
        PROVE  Lifecycle!Leave(u, e)
    <2>1. /\ Registered(e)' = Registered(e) \ {u}
          /\ \A x \in Events : x # e => Registered(x)' = Registered(x)
      BY <1>4 DEF CancelRsvp, SetCancelled, TypeOK, Registered
    <2> QED BY <1>4, <2>1 DEF CancelRsvp, Lifecycle!Leave
  <1>5. ASSUME NEW w \in Workers, Update(w)
        PROVE  Lifecycle!Next
    <2> DEFINE op == requests[w].op
    <2>1. PICK e \in Events, row \in Event :
             /\ row = requests[w].row /\ Writing(w, e)
             /\ events' = [events EXCEPT ![e] = row] /\ Remember(e, row)
             /\ registrations' = registrations
      BY <1>5, ItsWrite
    <2>2. PICK old \in past[e] : LegalWrite(op, old, Version(row))
      BY <2>1 DEF ReadsArePast
    <2>3. Lifecycle!Write(e, Version(row)) /\ row.capacity \in Capacities
      BY <1>2, <2>1 DEF Event
    <2>4. old \in [status: EventStatus, capacity: Capacities]
      BY DEF TypeOK
    <2> HIDE DEF op
    <2>5. ASSUME NEW from, NEW to, old.status \in from, row.status = to,
                 row.capacity = old.capacity
          PROVE  Lifecycle!Move(e, from, to)
      BY <2>3, <2>5 DEF Lifecycle!Move, Version
    <2>6. /\ Version(row).status = row.status /\ Version(row).capacity = row.capacity
          /\ old.status \in {"pending", "rejected", "published", "registration_closed"}
      BY <2>2, <2>4 DEF Version, LegalWrite, EventStatus
    <2>7. CASE op = "approve"
      BY <2>2, <2>5, <2>6, <2>7 DEF LegalWrite, Lifecycle!Next, Lifecycle!Publish
    <2>8. CASE op = "reject"
      BY <2>2, <2>5, <2>6, <2>8 DEF LegalWrite, Lifecycle!Next, Lifecycle!Decline
    <2>9. CASE op = "request_changes"
      BY <2>2, <2>5, <2>6, <2>9 DEF LegalWrite, Lifecycle!Next, Lifecycle!Ask
    <2>10. CASE op = "update_mine"
      <3>1. Version(row) = [status |-> old.status, capacity |-> row.capacity]
        BY <2>2, <2>10 DEF LegalWrite, Version
      <3>2. Lifecycle!Edit(e, row.capacity)
        BY <2>3, <2>6, <3>1 DEF Lifecycle!Edit
      <3> QED BY <2>3, <3>2 DEF Lifecycle!Next
    <2>11. CASE op = "cancel_mine"
      BY <2>2, <2>5, <2>6, <2>11 DEF LegalWrite, Lifecycle!Next, Lifecycle!Cancel
    <2>12. CASE op = "close"
      BY <2>2, <2>5, <2>6, <2>12 DEF LegalWrite, Lifecycle!Next, Lifecycle!Close
    <2>13. CASE op = "reopen"
      BY <2>2, <2>5, <2>6, <2>13 DEF LegalWrite, Lifecycle!Next, Lifecycle!Reopen
    <2> QED BY <2>2, <2>7, <2>8, <2>9, <2>10, <2>11, <2>12, <2>13 DEF LegalWrite
  <1>6. ASSUME NEW w \in Workers, Register(w)
        PROVE  Lifecycle!Next
    <2>1. PICK e \in Events, u \in Attendees :
             /\ UNCHANGED <<events, past>> /\ Joining(w, e)
             /\ registrations' = [registrations EXCEPT ![e][u] = "registered"]
      BY <1>6, ItsInsert
    <2>2. /\ Registered(e)' = Registered(e) \cup {u}
          /\ \A x \in Events : x # e => Registered(x)' = Registered(x)
      BY <2>1 DEF TypeOK, Registered
    <2>3. \E old \in past[e] : old.status = "published"
      BY <2>1 DEF ReadsArePast
    <2>4. Lifecycle!Join(u, e)
      BY <2>1, <2>2, <2>3 DEF Lifecycle!Join
    <2> QED BY <2>4 DEF Lifecycle!Next
  <1>7. ASSUME NEW w \in Workers,
               \/ Accept(w) \/ Deliver(w) \/ Fail(w) \/ ListRegistered(w) \/ GetStatus(w)
               \/ CountActive(w) \/ CreateNotice(w)
        PROVE  UNCHANGED <<events, past, registrations>>
    BY <1>7, Begins, PastItsWrite, BeforeItsInsert DEF Fail
  <1>8. CASE UNCHANGED vars
    BY <1>1, <1>8 DEF vars
  <1>9. ASSUME NEW w \in Workers, Accept(w) \/ Continue(w) \/ Deliver(w) \/ Fail(w)
        PROVE  [Lifecycle!Next]_(Lifecycle!vars)
    BY <1>1, <1>5, <1>6, <1>7, <1>9 DEF Continue
  <1> QED BY <1>3, <1>4, <1>8, <1>9 DEF Next, Lifecycle!Next

(* However stale the rows that requests write back, the server implements the
   lifecycle of EventLifecycle, for any number of requests and faults.     *)
THEOREM LifecycleImplemented == Spec => ImplementsLifecycle
  <1> DEFINE Inv == TypeOK /\ RequestsWellFormed /\ ReadsArePast
  <1>1. Init => Inv
    BY InitTyped, InitReadsArePast
  <1>2. Inv /\ [Next]_vars => Inv'
    BY StepTyped, StepReadsArePast
  <1>3. Inv /\ [Next]_vars => [Lifecycle!Next]_(Lifecycle!vars)
    BY StepImplementsLifecycle
  <1>4. Init => Lifecycle!Init
    BY DEF Init, Lifecycle!Init, Registered, NoRow, Version
  <1> HIDE DEF Inv
  <1> QED BY <1>1, <1>2, <1>3, <1>4, PTL DEF Spec, ImplementsLifecycle, Lifecycle!Spec

-----------------------------------------------------------------------------
(* How often a cancellation is announced. *)

LEMMA TellersAreFinite ==
    ASSUME NEW e, NEW u
    PROVE  /\ Announcing(e, u) \in SUBSET Workers /\ Cancelling(e) \in SUBSET Workers
           /\ \A S \in SUBSET Workers : /\ IsFiniteSet(S) /\ Cardinality(S) \in Nat
                                       /\ Cardinality(S) <= Cardinality(Workers)
                                       /\ \A T \in SUBSET S : Cardinality(T) <= Cardinality(S)
                                       /\ \A w \in S : Cardinality(S \ {w}) = Cardinality(S) - 1
           /\ Cardinality(Workers) \in Nat
  <1>1. Announcing(e, u) \in SUBSET Workers /\ Cancelling(e) \in SUBSET Workers
    BY DEF Announcing, Cancelling
  <1>2. \A S \in SUBSET Workers : \A T \in SUBSET S : Cardinality(T) <= Cardinality(S)
    BY SeatsAreFinite, FS_Subset
  <1>3. \A S \in SUBSET Workers : \A w \in S : Cardinality(S \ {w}) = Cardinality(S) - 1
    BY SeatsAreFinite, FS_RemoveElement
  <1> QED BY <1>1, <1>2, <1>3, SeatsAreFinite

LEMMA InitCounted == Init => RepeatsCounted /\ EveryoneAccountedFor
  <1> SUFFICES ASSUME Init PROVE RepeatsCounted /\ EveryoneAccountedFor
    OBVIOUS
  <1>1. \A e \in Events : events[e].status # "cancelled" /\ revived[e] = 0
    BY DEF Init, NoRow
  <1>2. ASSUME NEW e \in Events, NEW u \in Attendees
        PROVE  Told(e, u) = 0 /\ Announcing(e, u) = {}
    BY DEF Init, Told, Announcing, AboutToTell, Idle, NoticeKind, Users
  <1>3. Cardinality({}) = 0 /\ Cardinality(Workers) \in Nat
    BY FS_EmptySet, SeatsAreFinite
  <1>4. \A w \in Workers, e \in Events : ~Writing(w, e)
    BY DEF Init, Writing, Idle
  <1>5. ASSUME NEW e \in Events, NEW u \in Attendees
        PROVE  Told(e, u) + Cardinality(Announcing(e, u)) <= Cardinality(Workers) * revived[e]
    BY <1>1, <1>2, <1>3
  <1> QED BY <1>1, <1>4, <1>5 DEF RepeatsCounted, EveryoneAccountedFor

(* A request past its write finds nobody else to tell. *)
LEMMA TellsNoMore ==
    ASSUME TypeOK, RequestsWellFormed, NEW w \in Workers,
           \/ ListRegistered(w) \/ CreateNotice(w) \/ Deliver(w) \/ LoseNotice(w) \/ Abandon(w),
           NEW e, NEW u, AboutToTell(requests'[w], e, u)
    PROVE  AboutToTell(requests[w], e, u)
  <1> DEFINE q == requests[w]
  <1>0. q \in Request
    BY DEF TypeOK
  <1>1. ASSUME NEW people,
               \/ q.pc = "list_registered"
               \/ q.pc \in {"notify", "deliver"} /\ people \subseteq q.todo,
               requests'[w] = Notifying(q, people) \/ requests'[w] = Delivering(q, people)
        PROVE  AboutToTell(q, e, u)
    <2> HIDE DEF q
    <2>1. CASE requests'[w] = Delivering(q, people)
      BY <1>0, <1>1, <2>1 DEF Delivering, AboutToTell, Request
    <2>2. CASE requests'[w] = Notifying(q, people) /\ people # {}
      BY <1>0, <1>1, <2>2 DEF Notifying, AboutToTell, Request
    <2>3. CASE requests'[w] = Notifying(q, people) /\ people = {}
      BY <2>3 DEF Notifying, AboutToTell, Idle
    <2> QED BY <1>1, <2>1, <2>2, <2>3
  <1>2. CASE ListRegistered(w)
    <2>1. /\ q.pc = "list_registered"
          /\ requests'[w] = Notifying(q, ListUserIDsByEvent(q.event))
      BY <1>2 DEF ListRegistered, Goto, TypeOK
    <2> QED BY <1>1, <2>1
  <1>3. CASE CreateNotice(w)
    <2>1. PICK x \in q.todo : Goto(w, Delivering(q, q.todo \ {x})) /\ q.pc = "notify"
      BY <1>3 DEF CreateNotice
    <2> QED BY <1>1, <2>1 DEF Goto, TypeOK
  <1>4. CASE Deliver(w)
    BY <1>1, <1>4 DEF Deliver, Goto, TypeOK
  <1>5. CASE LoseNotice(w)
    <2>1. PICK x \in q.todo : Goto(w, Notifying(q, q.todo \ {x})) /\ q.pc = "notify"
      BY <1>5 DEF LoseNotice
    <2> QED BY <1>1, <2>1 DEF Goto, TypeOK
  <1>6. CASE Abandon(w)
    BY <1>6 DEF Abandon, Goto, TypeOK, AboutToTell, Idle
  <1> QED BY <1>2, <1>3, <1>4, <1>5, <1>6

(* A notice created takes its request out of those that are to tell. *)
LEMMA StepCounted ==
    ASSUME TypeOK, RequestsWellFormed, RepeatsCounted, [Next]_vars
    PROVE  RepeatsCounted'
  <1> USE DEF tables, history, writes
  <1> DEFINE N == Cardinality(Workers)
             Gone(e) == events[e].status = "cancelled"
             All(e, u) == Announcing(e, u) \cup Cancelling(e)
             Bound(e, u) ==
                 IF Gone(e) THEN Told(e, u) + Cardinality(All(e, u)) <= N * (1 + revived[e])
                 ELSE Told(e, u) + Cardinality(Announcing(e, u)) <= N * revived[e]
             Marked(r) == r.pc = "update" => (r.row.status = "cancelled" <=> r.op = "cancel_mine")
  <1>0. /\ TypeOK' /\ \A w \in Workers : requests[w] \in Request /\ WellFormed(requests[w])
        /\ N \in Nat
    BY StepTyped, SeatsAreFinite DEF TypeOK, RequestsWellFormed
  <1>1. \A e \in Events, u \in Attendees :
           /\ Bound(e, u) /\ Told(e, u) \in Nat /\ revived[e] \in Nat
           /\ Told(e, u)' \in Nat /\ revived'[e] \in Nat
    <2>1. ASSUME NEW e \in Events, NEW u \in Attendees
          PROVE  /\ Told(e, u) \in Nat /\ revived[e] \in Nat
                 /\ Told(e, u)' \in Nat /\ revived'[e] \in Nat
      BY <1>0 DEF TypeOK, Told, NoticeKind, Users
    <2> QED BY <2>1 DEF RepeatsCounted
  <1>2. \A w \in Workers : Marked(requests[w])
    BY <1>0 DEF RepeatsCounted, Writing, WellFormed, Idle
  (* It is enough to look at the request that moved and at one event. *)
  <1>3. ASSUME \A w \in Workers : requests'[w] = requests[w] \/ Marked(requests'[w]),
               \A e \in Events, u \in Attendees : Bound(e, u)'
        PROVE  RepeatsCounted'
    BY <1>2, <1>3 DEF RepeatsCounted, Writing
  <1>4. ASSUME NEW w \in Workers, NEW r, requests' = [requests EXCEPT ![w] = r], Marked(r),
               \A e \in Events, u \in Attendees : Bound(e, u)'
        PROVE  RepeatsCounted'
    BY <1>3, <1>4 DEF TypeOK
  (* Fewer that are to tell, and nothing else. *)
  <1>5. ASSUME NEW e \in Events, NEW u \in Attendees, Gone(e)' = Gone(e), revived'[e] = revived[e],
               Told(e, u)' = Told(e, u), Announcing(e, u)' \subseteq Announcing(e, u),
               Gone(e) => All(e, u)' \subseteq All(e, u)
        PROVE  Bound(e, u)'
    <2>1. Cardinality(Announcing(e, u)') <= Cardinality(Announcing(e, u))
      BY <1>5, TellersAreFinite
    <2>2. /\ Announcing(e, u)' \in SUBSET Workers /\ All(e, u)' \in SUBSET Workers
          /\ Announcing(e, u) \in SUBSET Workers /\ All(e, u) \in SUBSET Workers
      BY DEF Announcing, Cancelling
    <2>3. /\ Cardinality(Announcing(e, u)') \in Nat /\ Cardinality(Announcing(e, u)) \in Nat
          /\ Cardinality(All(e, u)') \in Nat /\ Cardinality(All(e, u)) \in Nat
      BY <2>2, TellersAreFinite
    <2>4. Gone(e) => Cardinality(All(e, u)') <= Cardinality(All(e, u))
      BY <1>5, <2>2, TellersAreFinite
    <2> HIDE DEF Gone, All
    <2> QED BY <1>0, <1>1, <1>5, <2>1, <2>3, <2>4
  (* The steps that write no event, tell nobody and give nobody more to tell. *)
  <1>6. ASSUME UNCHANGED <<events, revived, notices>>, NEW w \in Workers, NEW r,
               requests' = [requests EXCEPT ![w] = r], r.pc # "update",
               \A e \in Events, u \in Attendees :
                   AboutToTell(r, e, u) => AboutToTell(requests[w], e, u)
        PROVE  RepeatsCounted'
    <2>1. ASSUME NEW e \in Events, NEW u \in Attendees PROVE Bound(e, u)'
      <3>1. /\ Announcing(e, u)' \subseteq Announcing(e, u)
            /\ Cancelling(e)' \subseteq Cancelling(e)
        BY <1>6 DEF Announcing, Cancelling, Writing, TypeOK
      <3> QED BY <1>5, <1>6, <3>1 DEF Told
    <2> QED BY <1>4, <1>6, <2>1
  <1>7. CASE \/ \E o \in Organizers, e \in Events, c \in Capacities : Create(o, e, c)
             \/ \E u \in Attendees, e \in Events : CancelRsvp(u, e)
             \/ UNCHANGED vars
    <2>1. /\ requests' = requests /\ notices' = notices
          /\ \A e \in Events : Gone(e)' = Gone(e) /\ revived'[e] = revived[e]
      <3>1. ASSUME NEW o \in Organizers, NEW x \in Events, NEW c \in Capacities, Create(o, x, c)
            PROVE  /\ requests' = requests /\ notices' = notices
                   /\ \A e \in Events : Gone(e)' = Gone(e) /\ revived'[e] = revived[e]
        <4>1. /\ events' = [events EXCEPT ![x] = NewEvent(o, c)] /\ ~Gone(x)
              /\ NewEvent(o, c).status # "cancelled"
          BY <3>1, <1>0 DEF Create, Found, InsertEvent, NewEvent, TypeOK
        <4>2. \A e \in Events : revived'[e] = revived[e]
          BY <3>1, <4>1 DEF Create, InsertEvent, Remember, TypeOK
        <4> QED BY <3>1, <4>1, <4>2 DEF Create, TypeOK
      <3>2. CASE \/ \E u \in Attendees, e \in Events : CancelRsvp(u, e)
                 \/ UNCHANGED vars
        BY <3>2 DEF CancelRsvp, vars
      <3> QED BY <1>7, <3>1, <3>2
    <2>2. \A e \in Events, u \in Attendees :
             /\ Announcing(e, u)' = Announcing(e, u) /\ Cancelling(e)' = Cancelling(e)
             /\ Told(e, u)' = Told(e, u)
      BY <2>1 DEF Announcing, Cancelling, Writing, Told
    <2>3. \A e \in Events, u \in Attendees : Bound(e, u)'
      <3> HIDE DEF Gone, Bound
      <3> QED BY <1>5, <2>1, <2>2
    <2> QED BY <1>3, <2>1, <2>3
  <1>8. ASSUME NEW w \in Workers, Accept(w) PROVE RepeatsCounted'
    <2>1. PICK x \in Events, r \in Request :
             /\ UNCHANGED <<events, revived, notices>> /\ requests[w] = Idle
             /\ requests' = [requests EXCEPT ![w] = r] /\ r.event = x
             /\ \/ /\ r.pc = "update" /\ LegalWrite(r.op, Version(events[x]), Version(r.row))
                   /\ r.row.status = "cancelled" <=> r.op = "cancel_mine"
                \/ r.pc = "get_status" /\ events[x].status = "published"
      BY <1>8, Begins
    <2>2. ~Gone(x) /\ Marked(r)
      BY <2>1 DEF LegalWrite, Version
    <2>3. ASSUME NEW e \in Events, NEW u \in Attendees PROVE Bound(e, u)'
      <3>1. Announcing(e, u)' \subseteq Announcing(e, u)
        BY <2>1 DEF Announcing, AboutToTell, TypeOK
      <3>2. x # e => Cancelling(e)' \subseteq Cancelling(e)
        BY <2>1 DEF Cancelling, Writing, TypeOK
      <3> QED BY <1>5, <2>1, <2>2, <3>1, <3>2 DEF Told
    <2> QED BY <1>4, <2>1, <2>2, <2>3
  <1>9. ASSUME NEW w \in Workers, Update(w) PROVE RepeatsCounted'
    <2>1. PICK x \in Events, row \in Event, r \in Request :
             /\ Writing(w, x) /\ row = requests[w].row /\ UNCHANGED notices
             /\ events' = [events EXCEPT ![x] = row] /\ Remember(x, row)
             /\ requests' = [requests EXCEPT ![w] = r]
             /\ IF requests[w].op = "cancel_mine"
                THEN r.pc = "list_registered" /\ r.op = "cancel_mine" /\ r.event = x
                ELSE r.pc \in {"idle", "notify"} /\ r.op # "cancel_mine"
      BY <1>9, ItsWrite
    <2>2. row.status = "cancelled" <=> requests[w].op = "cancel_mine"
      BY <2>1 DEF RepeatsCounted
    <2>3. /\ Gone(x)' = (row.status = "cancelled")
          /\ revived'[x] = IF Gone(x) /\ row.status # "cancelled"
                           THEN revived[x] + 1 ELSE revived[x]
          /\ \A e \in Events : e # x => Gone(e)' = Gone(e) /\ revived'[e] = revived[e]
      BY <2>1 DEF TypeOK, Remember
    <2>4. ASSUME NEW e \in Events, NEW u \in Attendees PROVE Bound(e, u)'
      <3>1. Told(e, u)' = Told(e, u)
        BY <2>1 DEF Told
      <3>2. /\ e # x \/ requests[w].op # "cancel_mine" =>
                  /\ Announcing(e, u)' \subseteq Announcing(e, u)
                  /\ Cancelling(e)' \subseteq Cancelling(e)
            /\ All(e, u)' \subseteq All(e, u)
        BY <2>1 DEF Announcing, AboutToTell, Cancelling, Writing, TypeOK
      <3>3. /\ All(e, u) \in SUBSET Workers /\ All(e, u)' \in SUBSET Workers
            /\ Announcing(e, u)' \in SUBSET Workers /\ Announcing(e, u)' \subseteq All(e, u)'
            /\ Announcing(e, u) \in SUBSET Workers
        BY DEF Announcing, Cancelling
      <3>4. /\ Cardinality(All(e, u)) \in Nat /\ Cardinality(All(e, u)') \in Nat
            /\ Cardinality(Announcing(e, u)) \in Nat /\ Cardinality(Announcing(e, u)') \in Nat
            /\ Cardinality(All(e, u)') <= Cardinality(All(e, u))
            /\ Cardinality(All(e, u)') <= N
            /\ Cardinality(Announcing(e, u)') <= Cardinality(All(e, u)')
        BY <3>2, <3>3, TellersAreFinite
      <3>5. CASE e # x
        <4> HIDE DEF Gone, All, Bound
        <4> QED BY <1>5, <2>3, <3>1, <3>2, <3>5
      <3>6. CASE e = x /\ requests[w].op = "cancel_mine"
        <4> HIDE DEF Gone, All
        <4>1. Gone(x)' /\ revived'[x] = revived[x]
          BY <2>2, <2>3, <3>6
        <4> QED BY <1>0, <1>1, <3>1, <3>4, <3>6, <4>1
      <3>7. CASE e = x /\ requests[w].op # "cancel_mine"
        <4>1. ~Gone(x)' /\ revived'[x] = IF Gone(x) THEN revived[x] + 1 ELSE revived[x]
          BY <2>2, <2>3, <3>7
        <4>2. Cardinality(Announcing(e, u)') <= Cardinality(Announcing(e, u))
          BY <3>2, <3>3, <3>7, TellersAreFinite
        <4> HIDE DEF Gone, All
        <4> QED BY <1>0, <1>1, <3>1, <3>4, <3>7, <4>1, <4>2
      <3> QED BY <3>5, <3>6, <3>7
    <2>5. Marked(r)
      BY <2>1
    <2> QED BY <1>4, <2>1, <2>4, <2>5
  <1>10. ASSUME NEW w \in Workers,
                ListRegistered(w) \/ Deliver(w) \/ LoseNotice(w) \/ Abandon(w)
         PROVE  RepeatsCounted'
    <2>1. PICK r \in Request : /\ requests' = [requests EXCEPT ![w] = r]
                               /\ r.pc \in {"idle", "notify", "deliver"}
      BY <1>10, PastItsWrite
    <2>2. UNCHANGED <<events, revived, notices>>
      BY <1>10 DEF ListRegistered, Deliver, LoseNotice, Abandon
    <2>3. \A e \in Events, u \in Attendees :
             AboutToTell(r, e, u) => AboutToTell(requests[w], e, u)
      BY <1>10, <2>1, TellsNoMore DEF TypeOK
    <2> QED BY <1>6, <2>1, <2>2, <2>3
  <1>11. ASSUME NEW w \in Workers, CreateNotice(w) PROVE RepeatsCounted'
    <2> DEFINE q == requests[w]
    <2>1. PICK x \in q.todo :
             /\ InsertNotice(NoticeOf(q.op), q.event, x)
             /\ requests' = [requests EXCEPT ![w] = Delivering(q, q.todo \ {x})]
      BY <1>11 DEF CreateNotice, Goto
    <2>2. /\ q.pc = "notify" /\ UNCHANGED <<events, revived>> /\ q.event \in Events
          /\ q.op \in {"approve", "reject", "request_changes", "cancel_mine", "rsvp"}
          /\ q.todo \subseteq Users
      BY <1>0, <1>11 DEF CreateNotice, WellFormed, Request
    <2>3. /\ Delivering(q, q.todo \ {x}).pc = "deliver"
          /\ Delivering(q, q.todo \ {x}).todo = q.todo \ {x}
      BY <1>0 DEF Delivering, Request
    <2>4. ASSUME NEW e \in Events, NEW u \in Attendees PROVE Bound(e, u)'
      <3>1. \A v \in Workers : AboutToTell(requests'[v], e, u) => AboutToTell(requests[v], e, u)
        BY <1>11, <2>1, TellsNoMore DEF TypeOK
      <3>2. /\ Announcing(e, u)' \subseteq Announcing(e, u)
            /\ Cancelling(e)' \subseteq Cancelling(e)
            /\ w \notin Cancelling(e) /\ w \notin Cancelling(e)'
        BY <2>1, <2>2, <2>3, <3>1 DEF Announcing, Cancelling, Writing, TypeOK
      <3>3. CASE q.op = "cancel_mine" /\ q.event = e /\ x = u
        <4>1. Told(e, u)' = Told(e, u) + 1
          BY <2>1, <3>3 DEF InsertNotice, NoticeOf, NoticeKind, Users, TypeOK, Told
        <4>2. w \in Announcing(e, u) /\ w \notin Announcing(e, u)'
          BY <2>1, <2>2, <2>3, <3>3 DEF Announcing, AboutToTell, TypeOK
        <4>3. /\ Announcing(e, u)' \subseteq Announcing(e, u) \ {w}
              /\ All(e, u)' \subseteq All(e, u) \ {w}
              /\ w \in All(e, u)
          BY <3>2, <4>2
        <4>4. All(e, u) \in SUBSET Workers /\ Announcing(e, u) \in SUBSET Workers
          BY DEF Announcing, Cancelling
        <4>5. /\ Cardinality(Announcing(e, u)') <= Cardinality(Announcing(e, u)) - 1
              /\ Cardinality(All(e, u)') <= Cardinality(All(e, u)) - 1
              /\ Cardinality(Announcing(e, u)) \in Nat /\ Cardinality(All(e, u)) \in Nat
              /\ Cardinality(Announcing(e, u)') \in Nat /\ Cardinality(All(e, u)') \in Nat
          <5>1. /\ Cardinality(Announcing(e, u) \ {w}) = Cardinality(Announcing(e, u)) - 1
                /\ Cardinality(All(e, u) \ {w}) = Cardinality(All(e, u)) - 1
            BY <4>2, <4>3, <4>4, TellersAreFinite
          <5>2. /\ Announcing(e, u) \ {w} \in SUBSET Workers /\ All(e, u) \ {w} \in SUBSET Workers
                /\ Announcing(e, u)' \in SUBSET Workers /\ All(e, u)' \in SUBSET Workers
            BY <4>3, <4>4
          <5> QED BY <4>3, <4>4, <5>1, <5>2, TellersAreFinite
        <4>6. Gone(e)' = Gone(e) /\ revived'[e] = revived[e]
          BY <2>2
        <4> HIDE DEF Gone, All
        <4> QED BY <1>0, <1>1, <4>1, <4>5, <4>6
      <3>4. CASE ~(q.op = "cancel_mine" /\ q.event = e /\ x = u)
        <4>1. NoticeOf(q.op) \in NoticeKind /\ x \in Users
          BY <2>1, <2>2 DEF NoticeOf, NoticeKind
        <4>2. NoticeOf(q.op) = "event_cancelled" => q.op = "cancel_mine"
          BY <2>2 DEF NoticeOf
        <4>3. Told(e, u)' = Told(e, u)
          BY <2>1, <2>2, <3>4, <4>1, <4>2 DEF InsertNotice, TypeOK, Told, NoticeKind, Users
        <4> QED BY <1>5, <2>2, <3>2, <4>3
      <3> QED BY <3>3, <3>4
    <2>5. Marked(Delivering(q, q.todo \ {x}))
      BY <2>3
    <2> HIDE DEF q
    <2> QED BY <1>4, <2>1, <2>4, <2>5
  <1>12. ASSUME NEW w \in Workers,
                GetStatus(w) \/ GetStatusFails(w) \/ CountActive(w) \/ Register(w)
         PROVE  RepeatsCounted'
    <2>1. /\ UNCHANGED <<events, revived, notices>>
          /\ \E r \in Request : /\ requests' = [requests EXCEPT ![w] = r]
                                /\ r.pc \in {"idle", "count", "register", "notify"}
                                /\ r # Idle => r.op = "rsvp"
      <3>1. ASSUME NEW r \in Request, r.pc = "notify" PROVE r # Idle
        BY <3>1 DEF Idle
      <3> QED BY <1>12, <3>1, BeforeItsInsert, ItsInsert
    <2>2. PICK r \in Request : /\ requests' = [requests EXCEPT ![w] = r]
                               /\ r.pc \in {"idle", "count", "register", "notify"}
                               /\ r # Idle => r.op = "rsvp"
      BY <2>1
    <2>3. \A e \in Events, u \in Attendees : ~AboutToTell(r, e, u)
      BY <2>2 DEF AboutToTell, Idle
    <2> QED BY <1>6, <2>1, <2>2, <2>3
  <1> QED BY <1>7, <1>8, <1>9, <1>10, <1>11, <1>12 DEF Next, Continue, Fail

(* However many cancellations pass the check together, a user hears of it at most
   once per request that can run at a time, unless a stale write has brought
   the event back in between.                                              *)
THEOREM RepeatsBounded == Spec => []CancellationRepeatsBounded
  <1> DEFINE Inv == TypeOK /\ RequestsWellFormed /\ RepeatsCounted
  <1>1. Init => Inv
    BY InitTyped, InitCounted
  <1>2. Inv /\ [Next]_vars => Inv'
    BY StepTyped, StepCounted
  <1>3. Inv => CancellationRepeatsBounded
    <2> SUFFICES ASSUME Inv, NEW e \in Events, NEW u \in Attendees
                 PROVE  Told(e, u) <= Cardinality(Workers) * (1 + revived[e])
      BY DEF CancellationRepeatsBounded, Told
    <2>1. /\ Cardinality(Announcing(e, u)) \in Nat
          /\ Cardinality(Announcing(e, u) \cup Cancelling(e)) \in Nat
          /\ Cardinality(Workers) \in Nat
      <3>1. Announcing(e, u) \cup Cancelling(e) \in SUBSET Workers
        BY TellersAreFinite
      <3> QED BY <3>1, TellersAreFinite
    <2>2. Told(e, u) \in Nat /\ revived[e] \in Nat
      BY DEF TypeOK, Told, NoticeKind, Users
    <2>3. IF events[e].status = "cancelled"
          THEN Told(e, u) + Cardinality(Announcing(e, u) \cup Cancelling(e))
                  <= Cardinality(Workers) * (1 + revived[e])
          ELSE Told(e, u) + Cardinality(Announcing(e, u)) <= Cardinality(Workers) * revived[e]
      BY DEF RepeatsCounted
    <2> QED BY <2>1, <2>2, <2>3
  <1> QED BY <1>1, <1>2, <1>3, PTL DEF Spec

-----------------------------------------------------------------------------
(* Whom a cancellation is to tell, with any number of requests at once. *)

LEMMA StepForgetsNobody ==
    ASSUME TypeOK, RequestsWellFormed, [Next]_vars,
           NEW w \in Workers, NEW e \in Events, NEW u \in Attendees, DueToTell(w, e, u)
    PROVE  \/ DueToTell(w, e, u)'
           \/ notices'["event_cancelled"][e][u] = notices["event_cancelled"][e][u] + 1
           \/ requests[w].pc = "list_registered" /\ u \notin Registered(e)'
           \/ faults' = faults + 1 /\ u \in lost'[e]
  <1> USE DEF tables, history
  <1> DEFINE r == requests[w]
             Goal == \/ DueToTell(w, e, u)'
                     \/ notices'["event_cancelled"][e][u] = notices["event_cancelled"][e][u] + 1
                     \/ r.pc = "list_registered" /\ u \notin Registered(e)'
                     \/ faults' = faults + 1 /\ u \in lost'[e]
  <1>0. r \in Request /\ WellFormed(r) /\ r.op = "cancel_mine" /\ r.event = e /\ u \in Users
    BY DEF TypeOK, RequestsWellFormed, DueToTell, Users
  (* While it is another request's turn, it stays due but for its seat. *)
  <1>1. ASSUME requests'[w] = r PROVE Goal
    BY <1>1 DEF DueToTell
  <1>2. ASSUME NEW v \in Workers, NEW q, requests' = [requests EXCEPT ![v] = q], v # w
        PROVE  Goal
    BY <1>1, <1>2 DEF TypeOK
  <1>3. ASSUME NEW v \in Workers, Accept(v) PROVE Goal
    <2>1. PICK q : requests[v] = Idle /\ requests' = [requests EXCEPT ![v] = q]
      <3>1. ASSUME NEW x \in Events, \/ ModerationRoutes(v, x)
                                     \/ \E o \in Organizers : OrganizerRoutes(v, o, x)
            PROVE  requests[v] = Idle /\ \E q : requests' = [requests EXCEPT ![v] = q]
        BY <3>1, ReadBeforeWrite DEF BeginUpdate, Begin
      <3> QED BY <1>3, <3>1 DEF Accept, Rsvp, Begin
    <2>2. v # w
      BY <2>1 DEF DueToTell, Idle
    <2> QED BY <1>2, <2>1, <2>2
  <1>4. ASSUME NEW v \in Workers, Continue(v) \/ Deliver(v) \/ Fail(v), v # w PROVE Goal
    <2>1. \E q : requests' = [requests EXCEPT ![v] = q]
      BY <1>4 DEF Continue, Fail, Update, ListRegistered, GetStatus, CountActive, Register,
                  CreateNotice, Deliver, Abandon, LoseNotice, GetStatusFails, Goto
    <2> QED BY <1>2, <1>4, <2>1
  (* A request that still has others to tell has u among them. *)
  <1>5. ASSUME NEW people, u \in people, Goto(w, Notifying(r, people))
        PROVE  Goal
    <2>1. requests'[w] = [r EXCEPT !.pc = "notify", !.row = NoRow, !.todo = people]
      BY <1>5 DEF Goto, Notifying, TypeOK
    <2>2. /\ requests'[w].op = "cancel_mine" /\ requests'[w].event = e
          /\ requests'[w].pc = "notify" /\ requests'[w].todo = people
      BY <1>0, <2>1 DEF Request
    <2> QED BY <1>5, <2>2 DEF DueToTell
  <1>6. CASE ListRegistered(w)
    <2>1. r.pc = "list_registered" /\ Goto(w, Notifying(r, Registered(e)))
      BY <1>0, <1>6 DEF ListRegistered, ListUserIDsByEvent
    <2>2. u \in Registered(e)
      BY <2>1 DEF DueToTell
    <2> QED BY <1>5, <2>1, <2>2
  <1>7. CASE CreateNotice(w)
    <2>1. PICK x \in r.todo :
             /\ InsertNotice("event_cancelled", e, x)
             /\ requests'[w] = Delivering(r, r.todo \ {x})
      BY <1>0, <1>7 DEF CreateNotice, NoticeOf, Goto, TypeOK
    <2>2. u \in r.todo
      BY <1>7 DEF CreateNotice, DueToTell
    <2>3. CASE x = u
      BY <1>0, <2>1, <2>3 DEF InsertNotice, TypeOK, NoticeKind
    <2>4. CASE x # u
      <3>1. /\ requests'[w].op = "cancel_mine" /\ requests'[w].event = e
            /\ requests'[w].pc = "deliver" /\ requests'[w].todo = r.todo \ {x}
        BY <1>0, <2>1 DEF Delivering, Request
      <3> QED BY <2>2, <2>4, <3>1 DEF DueToTell
    <2> QED BY <2>3, <2>4
  <1>8. CASE Deliver(w)
    <2>1. u \in r.todo
      BY <1>8 DEF Deliver, DueToTell
    <2> QED BY <1>5, <1>8, <2>1 DEF Deliver
  <1>9. CASE Fail(w)
    <2>1. u \in Untold(r)
      BY <1>0 DEF Untold, DueToTell
    <2>2. lost[e] \subseteq Attendees /\ lost \in [Events -> SUBSET Attendees]
      BY DEF TypeOK
    <2>3. CASE Abandon(w)
      BY <1>0, <2>1, <2>2, <2>3 DEF Abandon, Fault, Lose
    <2>4. CASE LoseNotice(w)
      <3>1. PICK x \in r.todo : /\ Lose(e, Untold(r) \cap {x}) /\ Goto(w, Notifying(r, r.todo \ {x}))
                                /\ faults' = faults + 1 /\ r.pc = "notify"
        BY <1>0, <2>4 DEF LoseNotice, Fault
      <3>2. CASE x = u
        BY <2>1, <2>2, <3>1, <3>2 DEF Lose
      <3>3. CASE x # u
        <4>1. u \in r.todo \ {x}
          BY <3>1, <3>3 DEF DueToTell
        <4> QED BY <1>5, <3>1, <4>1
      <3> QED BY <3>2, <3>3
    <2>5. ~GetStatusFails(w)
      BY DEF GetStatusFails, DueToTell
    <2> QED BY <1>9, <2>3, <2>4, <2>5 DEF Fail
  <1>10. CASE Continue(w)
    <2>1. r.pc \in {"list_registered", "notify", "deliver"}
      BY DEF DueToTell
    <2> QED BY <1>6, <1>7, <1>10, <2>1
            DEF Continue, Update, GetStatus, CountActive, Register
  <1>11. CASE \/ \E o \in Organizers, x \in Events, c \in Capacities : Create(o, x, c)
              \/ \E y \in Attendees, x \in Events : CancelRsvp(y, x)
              \/ UNCHANGED vars
    BY <1>1, <1>11 DEF Create, CancelRsvp, vars
  <1> QED BY <1>3, <1>4, <1>8, <1>9, <1>10, <1>11 DEF Next

(* However many requests run beside it, a cancellation forgets nobody: whom it
   is to tell it tells, unless a fault takes that very notice or the seat is given
   up before the list is read.                                                *)
THEOREM NobodyForgotten == Spec => NobodyDueIsForgotten
  <1> DEFINE Inv == TypeOK /\ RequestsWellFormed
             Kept == \A w \in Workers, e \in Events, u \in Attendees : DueToTell(w, e, u) =>
                        \/ DueToTell(w, e, u)'
                        \/ notices'["event_cancelled"][e][u]
                              = notices["event_cancelled"][e][u] + 1
                        \/ requests[w].pc = "list_registered" /\ u \notin Registered(e)'
                        \/ faults' = faults + 1 /\ u \in lost'[e]
  <1>1. Inv /\ [Next]_vars => Inv'
    BY StepTyped
  <1>2. Inv /\ [Next]_vars => [Kept]_vars
    BY StepForgetsNobody
  <1>3. Init => Inv
    BY InitTyped
  <1>4. Spec => [][Kept]_vars
    <2> HIDE DEF Inv, Kept
    <2> QED BY <1>1, <1>2, <1>3, PTL DEF Spec
  <1> QED BY <1>4 DEF NobodyDueIsForgotten

-----------------------------------------------------------------------------
(* Who is not told of a cancellation. *)

(* Notices and losses only accumulate, and while an event is not published
   whoever takes a seat of it is late.                                     *)
LEMMA LateIsNoted ==
    ASSUME TypeOK, RequestsWellFormed, [Next]_vars, NEW e \in Events, NEW u \in Attendees
    PROVE  /\ Told(e, u) <= Told(e, u)' /\ Told(e, u) \in Nat /\ Told(e, u)' \in Nat
           /\ lost[e] \subseteq lost'[e]
           /\ events[e].status # "published" =>
                 late[e] \subseteq late'[e] /\ Registered(e)' \ Registered(e) \subseteq late'[e]
  <1> USE DEF tables, history, writes
  <1> DEFINE Goal == /\ Told(e, u) <= Told(e, u)'
                     /\ lost[e] \subseteq lost'[e]
                     /\ events[e].status # "published" =>
                           /\ late[e] \subseteq late'[e]
                           /\ Registered(e)' \ Registered(e) \subseteq late'[e]
  <1>0. /\ \A w \in Workers : requests[w] \in Request /\ WellFormed(requests[w])
        /\ Told(e, u) \in Nat /\ Told(e, u)' \in Nat
    <2>1. TypeOK'
      BY StepTyped
    <2>2. Told(e, u) \in Nat /\ Told(e, u)' \in Nat
      BY <2>1 DEF TypeOK, Told, NoticeKind, Users
    <2> QED BY <2>2 DEF TypeOK, RequestsWellFormed
  <1>1. ASSUME UNCHANGED <<registrations, notices, late, lost>> PROVE Goal
    BY <1>0, <1>1 DEF Told, Registered
  <1>2. ASSUME NEW v \in Attendees, NEW x \in Events, CancelRsvp(v, x) PROVE Goal
    BY <1>0, <1>2 DEF CancelRsvp, SetCancelled, TypeOK, Told, Registered
  <1>3. ASSUME NEW w \in Workers, Register(w) PROVE Goal
    <2>1. PICK x \in Events, v \in Attendees :
             /\ UNCHANGED <<events, notices, lost>> /\ NoteLate(v, x)
             /\ registrations' = [registrations EXCEPT ![x][v] = "registered"]
      BY <1>3, ItsInsert
    <2>2. Registered(e)' = IF x = e THEN Registered(e) \cup {v} ELSE Registered(e)
      BY <2>1 DEF TypeOK, Registered
    <2>3. late'[e] = IF x # e THEN late[e]
                     ELSE IF events[e].status = "published" THEN late[e] \ {v}
                     ELSE IF v \in Registered(e) THEN late[e] ELSE late[e] \cup {v}
      BY <2>1 DEF TypeOK, NoteLate
    <2> QED BY <1>0, <2>1, <2>2, <2>3 DEF Told
  <1>4. ASSUME NEW w \in Workers, CreateNotice(w) PROVE Goal
    <2> DEFINE q == requests[w]
    <2>1. PICK x \in q.todo : InsertNotice(NoticeOf(q.op), q.event, x)
      BY <1>4 DEF CreateNotice
    <2>2. /\ q.op \in {"approve", "reject", "request_changes", "cancel_mine", "rsvp"}
          /\ q.todo \subseteq Users /\ q.event \in Events
      BY <1>0, <1>4 DEF CreateNotice, WellFormed, Request
    <2>3. NoticeOf(q.op) \in NoticeKind
      BY <2>2 DEF NoticeOf, NoticeKind
    <2>4. Told(e, u)' = Told(e, u) \/ Told(e, u)' = Told(e, u) + 1
      BY <2>1, <2>2, <2>3 DEF InsertNotice, TypeOK, Told, NoticeKind, Users
    <2>5. UNCHANGED <<registrations, late, lost>>
      BY <1>4 DEF CreateNotice
    <2> QED BY <1>0, <2>4, <2>5 DEF Registered
  <1>5. ASSUME NEW w \in Workers, LoseNotice(w) \/ Abandon(w) PROVE Goal
    <2>1. PICK people : Lose(requests[w].event, people)
      BY <1>5 DEF LoseNotice, Abandon
    <2>2. lost[e] \subseteq lost'[e]
      BY <2>1 DEF Lose, TypeOK
    <2>3. UNCHANGED <<registrations, notices, late>>
      BY <1>5 DEF LoseNotice, Abandon
    <2> QED BY <1>0, <2>2, <2>3 DEF Told, Registered
  <1>6. ASSUME NEW w \in Workers,
               \/ Accept(w) \/ Update(w) \/ ListRegistered(w) \/ Deliver(w)
               \/ GetStatus(w) \/ GetStatusFails(w) \/ CountActive(w)
        PROVE  Goal
    <2>1. UNCHANGED <<registrations, notices, late, lost>>
      BY <1>6, Begins DEF Update, ListRegistered, Deliver, GetStatus, GetStatusFails, CountActive
    <2> QED BY <1>1, <2>1
  <1>7. CASE \/ \E o \in Organizers, x \in Events, c \in Capacities : Create(o, x, c)
             \/ UNCHANGED vars
    <2>1. UNCHANGED <<registrations, notices, late, lost>>
      BY <1>7 DEF Create, vars
    <2> QED BY <1>0, <1>1, <2>1
  <1> QED BY <1>0, <1>2, <1>3, <1>4, <1>5, <1>6, <1>7 DEF Next, Continue, Fail

(* Only the write of a cancellation cancels an event, and it is to tell. *)
LEMMA CancelledByAnnouncer ==
    ASSUME TypeOK, RequestsWellFormed, RepeatsCounted, [Next]_vars, NEW e \in Events,
           events[e].status # "cancelled", events'[e].status = "cancelled", NEW u
    PROVE  Announcing(e, u)' # {}
  <1> USE DEF tables, history, writes
  <1>1. ASSUME NEW w \in Workers, Update(w) PROVE Announcing(e, u)' # {}
    <2>1. PICK x \in Events, row \in Event, r \in Request :
             /\ Writing(w, x) /\ row = requests[w].row
             /\ events' = [events EXCEPT ![x] = row] /\ requests' = [requests EXCEPT ![w] = r]
             /\ requests[w].op = "cancel_mine" =>
                   r.pc = "list_registered" /\ r.op = "cancel_mine" /\ r.event = x
      BY <1>1, ItsWrite
    <2>2. x = e /\ row.status = "cancelled"
      BY <2>1 DEF TypeOK
    <2>3. requests[w].op = "cancel_mine"
      BY <2>1, <2>2 DEF RepeatsCounted
    <2>4. AboutToTell(r, e, u) /\ requests'[w] = r
      BY <2>1, <2>2, <2>3 DEF AboutToTell, TypeOK
    <2> QED BY <2>4 DEF Announcing
  <1>2. ASSUME NEW w \in Workers,
               \/ Accept(w) \/ Deliver(w) \/ Fail(w) \/ ListRegistered(w) \/ GetStatus(w)
               \/ CountActive(w) \/ Register(w) \/ CreateNotice(w)
        PROVE  UNCHANGED events
    BY <1>2, Begins, PastItsWrite, BeforeItsInsert, ItsInsert DEF Fail
  <1>3. ASSUME NEW o \in Organizers, NEW x \in Events, NEW c \in Capacities, Create(o, x, c)
        PROVE  FALSE
    BY <1>3 DEF Create, InsertEvent, NewEvent, TypeOK
  <1>4. ASSUME \/ \E v \in Attendees, x \in Events : CancelRsvp(v, x)
               \/ UNCHANGED vars
        PROVE  UNCHANGED events
    BY <1>4 DEF CancelRsvp, vars
  <1> QED BY <1>1, <1>2, <1>3, <1>4 DEF Next, Continue

LEMMA StepAccounted ==
    ASSUME TypeOK, RequestsWellFormed, RepeatsCounted, EveryoneAccountedFor, [Next]_vars
    PROVE  EveryoneAccountedFor'
  <1> SUFFICES ASSUME NEW e \in Events, events'[e].status = "cancelled",
                      NEW u \in Attendees, u \in Registered(e)',
                      u \notin late'[e], u \notin lost'[e]
               PROVE  Told(e, u)' > 0 \/ Announcing(e, u)' # {}
    BY DEF EveryoneAccountedFor, Registered
  <1>1. CASE events[e].status # "cancelled"
    BY <1>1, CancelledByAnnouncer
  <1>2. CASE events[e].status = "cancelled"
    <2>1. u \in Registered(e) \ (late[e] \cup lost[e])
      BY <1>2, LateIsNoted
    <2>2. CASE Told(e, u) > 0
      BY <2>2, LateIsNoted
    <2>3. CASE Announcing(e, u) # {}
      <3>1. PICK w \in Workers : AboutToTell(requests[w], e, u)
        BY <2>3 DEF Announcing
      <3>2. DueToTell(w, e, u)
        BY <2>1, <3>1 DEF AboutToTell, DueToTell
      <3>3. CASE DueToTell(w, e, u)'
        <4>1. w \in Announcing(e, u)'
          BY <3>3 DEF DueToTell, Announcing, AboutToTell
        <4> QED BY <4>1
      <3>4. CASE notices'["event_cancelled"][e][u] = notices["event_cancelled"][e][u] + 1
        BY <3>4, LateIsNoted DEF Told
      <3> QED BY <3>2, <3>3, <3>4, StepForgetsNobody
    <2> QED BY <1>2, <2>1, <2>2, <2>3 DEF EveryoneAccountedFor
  <1> QED BY <1>1, <1>2

(* When the requests on a cancelled event are over, whoever holds a seat of it and
   was not told took the seat too late or lost the notice to a fault.      *)
THEOREM UntoldAccounted == Spec => []UntoldWereLateOrLost
  <1> DEFINE Inv == TypeOK /\ RequestsWellFormed /\ RepeatsCounted /\ EveryoneAccountedFor
  <1>1. Init => Inv
    BY InitTyped, InitCounted
  <1>2. Inv /\ [Next]_vars => Inv'
    BY StepTyped, StepCounted, StepAccounted
  <1>3. Inv => UntoldWereLateOrLost
    <2> SUFFICES ASSUME Inv, NEW e \in Events, events[e].status = "cancelled",
                        \A w \in Workers : requests[w].event # e,
                        NEW u \in Registered(e) \ (late[e] \cup lost[e])
                 PROVE  Told(e, u) > 0
      BY DEF UntoldWereLateOrLost, Told
    <2>1. Announcing(e, u) = {}
      BY DEF Announcing, AboutToTell
    <2> QED BY <2>1 DEF EveryoneAccountedFor
  <1> QED BY <1>1, <1>2, <1>3, PTL DEF Spec
=============================================================================
