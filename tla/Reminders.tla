------------------------------ MODULE Reminders ------------------------------
(***************************************************************************)
(* The reminder goroutine of the API server beside the requests that change *)
(* events and registrations.  A ticker starts a Run every 15 minutes; a Run *)
(* scans the events once, notes the time once, and then works through the  *)
(* events in a reminder window: list who is to be told, and for each of    *)
(* them a notice, an email and the flag that keeps the next Run from       *)
(* telling them again.  Time is counted in units of 5 minutes.             *)
(***************************************************************************)
EXTENDS Integers, FiniteSets

CONSTANTS Events,       \* event ids
          Attendees,    \* users that may hold a seat
          Starts,       \* instants an event may start at
          Duration,     \* how long an event lasts
          None,         \* a field of the goroutine that is not in use
          Zone,         \* offset of the database's time zone to the server's
          RunLimit,     \* bound: the longest a Run takes
          FirstClock,   \* when the server is started
          LastClock,    \* bound on the clock
          MaxChanges,   \* bound on the requests served
          MaxFaults     \* bound on crashes and failed statements

Hour == 12
Day == 24 * Hour
Period == 3

Date(t) == t \div Day

ASSUME TimesAreNatural ==
    Starts \subseteq Nat /\ Duration \in Nat \ {0} /\ FirstClock \in Nat /\ LastClock \in Nat
ASSUME ZoneIsReal == Zone \in -Day..(22 * Hour)
ASSUME RunLimitIsNatural == RunLimit \in Nat
(* The end is a time of the day of the start: start_time < end_time. *)
ASSUME EventsEndTheSameDay == \A s \in Starts : Date(s + Duration) = Date(s)

Kinds == {"24h", "1h", "review"}

VARIABLES events,         \* table events: status and start
          registrations,  \* table event_registrations: status
          flags,          \* its reminder_*_sent_at columns that are not NULL
          reminders,      \* notices and emails sent per kind, event, attendee
          told,           \* the starts those named
          loop,           \* what the reminder goroutine holds
          nextTick,       \* when the ticker fires next
          clock,
          changes,        \* bound: requests served
          faults,         \* bound: faults injected
          changed,        \* history: when an event's row last changed
          joined,         \* history: when a registration last changed
          givenUp         \* history: how often a seat was given up

tables == <<events, registrations, flags>>
sent == <<reminders, told>>
history == <<changed, joined, givenUp>>
vars == <<tables, sent, loop, nextTick, clock, changes, faults, history>>

Status == {"pending", "published", "cancelled"}
Registered(e) == {u \in Attendees : registrations[e][u] = "registered"}

-----------------------------------------------------------------------------
(* The windows around the start and after the end of an event. *)
InWindow(t, start, minAhead, maxAhead) == start - t >= minAhead /\ start - t <= maxAhead

Opens(kind, start) ==
    CASE kind = "24h" -> start - 25 * Hour
      [] kind = "1h" -> start - 14
      [] kind = "review" -> start + Duration + 1

Closes(kind, start) ==
    CASE kind = "24h" -> start - 23 * Hour
      [] kind = "1h" -> start - 10
      [] kind = "review" -> start + Duration + 2 * Hour

\* Mutant: the last window is narrower than the ticker's period.
DueNarrowly(kind, start, t) ==
    CASE kind = "24h" -> InWindow(t, start, 23 * Hour, 25 * Hour)
      [] kind = "1h" -> InWindow(t, start, 12, 13)
      [] kind = "review" -> start + Duration < t /\ t - (start + Duration) <= 2 * Hour

Due(kind, start, t) ==
    CASE kind = "24h" -> InWindow(t, start, 23 * Hour, 25 * Hour)
      [] kind = "1h" -> InWindow(t, start, 10, 14)
      [] kind = "review" -> start + Duration < t /\ t - (start + Duration) <= 2 * Hour

\* Mutant: today and later.
InScanForgetsYesterday(start, t) == Date(start) >= Date(t + Zone) /\ Date(start) <= Date(t + Zone) + 3

(* CURRENT_DATE is the database's. *)
InScan(start, t) == Date(start) >= Date(t + Zone) - 1 /\ Date(start) <= Date(t + Zone) + 3

-----------------------------------------------------------------------------
(* The tables. *)
\* Mutant: the WHERE on status is forgotten.
ListForScanAnyStatus == {e \in Events : InScan(events[e].start, clock)}

ListForReminderScan ==
    {e \in Events : events[e].status = "published" /\ InScan(events[e].start, clock)}

\* Mutant: whoever is registered, reminded or not.
ListRegisteredAgain(e, kind) == Registered(e)
ListRegisteredForReminder(e, kind) == Registered(e) \ flags[kind][e]

(* Requests that change what the goroutine reads, one statement each. *)
Request == changes < MaxChanges /\ changes' = changes + 1

UpdateEvent(e, row) ==
    /\ Request
    /\ events' = [events EXCEPT ![e] = row]
    /\ changed' = [changed EXCEPT ![e] = clock]
    /\ UNCHANGED <<registrations, flags, sent, loop, nextTick, clock, faults, joined, givenUp>>

Publish(e) ==
    /\ events[e].status = "pending"
    /\ UpdateEvent(e, [events[e] EXCEPT !.status = "published"])

CancelEvent(e) ==
    /\ events[e].status # "cancelled"
    /\ UpdateEvent(e, [events[e] EXCEPT !.status = "cancelled"])

Reschedule(e, s) ==
    /\ events[e].status # "cancelled"
    /\ UpdateEvent(e, [events[e] EXCEPT !.start = s])

(* The flags of a row that is reactivated are kept. *)
Register(u, e) ==
    /\ Request
    /\ events[e].status = "published"
    /\ u \notin Registered(e)
    /\ registrations' = [registrations EXCEPT ![e][u] = "registered"]
    /\ joined' = [joined EXCEPT ![e][u] = clock]
    /\ UNCHANGED <<events, flags, sent, loop, nextTick, clock, faults, changed, givenUp>>

\* Mutant: a spelling the CHECK constraint of the table does not know.
CancelRsvpMisspelt(u, e) ==
    /\ Request
    /\ u \in Registered(e)
    /\ registrations' = [registrations EXCEPT ![e][u] = "canceled"]
    /\ joined' = [joined EXCEPT ![e][u] = clock]
    /\ givenUp' = [givenUp EXCEPT ![e][u] = @ + 1]
    /\ UNCHANGED <<events, flags, sent, loop, nextTick, clock, faults, changed>>

CancelRsvp(u, e) ==
    /\ Request
    /\ u \in Registered(e)
    /\ registrations' = [registrations EXCEPT ![e][u] = "cancelled"]
    /\ joined' = [joined EXCEPT ![e][u] = clock]
    /\ givenUp' = [givenUp EXCEPT ![e][u] = @ + 1]
    /\ UNCHANGED <<events, flags, sent, loop, nextTick, clock, faults, changed>>

-----------------------------------------------------------------------------
(* The goroutine.  The windows of an event do not overlap, so it has at most
   one job in a Run; now and the starts named are those of the scan.       *)
Job == [event : Events, kind : Kinds, start : Starts]
Asleep == [pc |-> "sleep", now |-> 0, jobs |-> {}, job |-> None, todo |-> {},
           person |-> None, first |-> FALSE]
Running == loop.pc \in {"list", "remind", "mark"}

JobsAt(t) ==
    {j \in Job : /\ j.event \in ListForReminderScan
                 /\ j.start = events[j.event].start
                 /\ Due(j.kind, j.start, t)}

(* The first Run follows the start of the server, and only when it is over is
   the ticker made.  A ticker holds one tick for a goroutine that is late and
   drops the others.                                                       *)
TickAfter(t) == nextTick + Period * ((t - nextTick) \div Period + 1)

Finish(l) ==
    /\ loop' = Asleep
    /\ nextTick' = IF l.first THEN clock + Period ELSE nextTick

Proceed(l) ==
    \/ l.todo # {} /\ loop' = [l EXCEPT !.pc = "remind"] /\ UNCHANGED nextTick
    \/ l.todo = {} /\ l.jobs # {} /\ loop' = [l EXCEPT !.pc = "list"] /\ UNCHANGED nextTick
    \/ l.todo = {} /\ l.jobs = {} /\ Finish(l)

Run ==
    /\ loop.pc = "sleep" /\ nextTick <= clock
    /\ loop' = IF JobsAt(clock) = {} THEN Asleep
               ELSE [loop EXCEPT !.pc = "list", !.now = clock, !.jobs = JobsAt(clock)]
    /\ nextTick' = IF loop.first THEN clock + Period ELSE TickAfter(clock)
    /\ UNCHANGED <<tables, sent, clock, changes, faults, history>>

(* Events come in the order of their start. *)
NextJob(j) == j \in loop.jobs /\ \A i \in loop.jobs : j.start <= i.start

\* Mutant: a Run returns after its first event.
ListPeopleOfFirst ==
    /\ loop.pc = "list"
    /\ \E j \in loop.jobs :
          /\ NextJob(j)
          /\ Proceed([loop EXCEPT !.job = j, !.jobs = {},
                                  !.todo = ListRegisteredForReminder(j.event, j.kind)])
    /\ UNCHANGED <<tables, sent, clock, changes, faults, history>>

ListPeople ==
    /\ loop.pc = "list"
    /\ \E j \in loop.jobs :
          /\ NextJob(j)
          /\ Proceed([loop EXCEPT !.job = j, !.jobs = @ \ {j},
                                  !.todo = ListRegisteredForReminder(j.event, j.kind)])
    /\ UNCHANGED <<tables, sent, clock, changes, faults, history>>

(* The notice and the email, whose errors are discarded. *)
Remind(u) ==
    LET j == loop.job IN
    /\ loop.pc = "remind" /\ u \in loop.todo
    /\ reminders' = [reminders EXCEPT ![j.kind][j.event][u] = @ + 1]
    /\ told' = [told EXCEPT ![j.kind][j.event][u] = @ \cup {j.start}]
    /\ loop' = [loop EXCEPT !.pc = "mark", !.person = u, !.todo = @ \ {u}]
    /\ UNCHANGED <<tables, nextTick, clock, changes, faults, history>>

(* The UPDATE is for a row that is still registered. *)
MarkSent ==
    LET j == loop.job IN
    /\ loop.pc = "mark"
    /\ flags' = IF loop.person \in Registered(j.event)
                THEN [flags EXCEPT ![j.kind][j.event] = @ \cup {loop.person}] ELSE flags
    /\ Proceed(loop)
    /\ UNCHANGED <<events, registrations, sent, clock, changes, faults, history>>

-----------------------------------------------------------------------------
(* Time.  The ticker is on time, and a Run is over within RunLimit: nothing in
   the code bounds it, for neither the emails nor the pushes time out.     *)
Tick ==
    /\ clock < LastClock
    /\ ~(loop.pc = "sleep" /\ nextTick <= clock)
    /\ Running => clock < loop.now + RunLimit
    /\ clock' = clock + 1
    /\ UNCHANGED <<tables, sent, loop, nextTick, changes, faults, history>>

Fault == faults < MaxFaults /\ faults' = faults + 1

ScanFails ==
    /\ Fault
    /\ loop.pc = "sleep" /\ nextTick <= clock
    /\ loop' = Asleep
    /\ nextTick' = IF loop.first THEN clock + Period ELSE TickAfter(clock)
    /\ UNCHANGED <<tables, sent, clock, changes, history>>

ListFails ==
    /\ Fault
    /\ loop.pc = "list"
    /\ \E j \in loop.jobs : NextJob(j) /\ Proceed([loop EXCEPT !.jobs = @ \ {j}, !.todo = {}])
    /\ UNCHANGED <<tables, sent, clock, changes, history>>

(* Its error is discarded. *)
MarkFails ==
    /\ Fault
    /\ loop.pc = "mark"
    /\ Proceed(loop)
    /\ UNCHANGED <<tables, sent, clock, changes, history>>

Crash ==
    /\ Fault
    /\ loop.pc # "down"
    /\ loop' = [Asleep EXCEPT !.pc = "down"]
    /\ UNCHANGED <<tables, sent, nextTick, clock, changes, history>>

Boot ==
    /\ loop.pc = "down"
    /\ loop' = [Asleep EXCEPT !.first = TRUE]
    /\ nextTick' = clock
    /\ UNCHANGED <<tables, sent, clock, changes, faults, history>>

-----------------------------------------------------------------------------
(* The server finds events and registrations nobody was reminded of yet. *)
Init ==
    /\ events \in [Events -> [status : {"pending", "published"}, start : Starts]]
    /\ registrations \in [Events -> [Attendees -> {"none", "registered"}]]
    /\ \A e \in Events : Registered(e) # {} => events[e].status = "published"
    /\ flags = [k \in Kinds |-> [e \in Events |-> {}]]
    /\ reminders = [k \in Kinds |-> [e \in Events |-> [u \in Attendees |-> 0]]]
    /\ told = [k \in Kinds |-> [e \in Events |-> [u \in Attendees |-> {}]]]
    /\ loop = [Asleep EXCEPT !.first = TRUE]
    /\ nextTick = FirstClock
    /\ clock = FirstClock
    /\ changes = 0
    /\ faults = 0
    /\ changed = [e \in Events |-> FirstClock]
    /\ joined = [e \in Events |-> [u \in Attendees |-> FirstClock]]
    /\ givenUp = [e \in Events |-> [u \in Attendees |-> 0]]

Serve ==
    \E e \in Events :
        \/ Publish(e) \/ CancelEvent(e)
        \/ \E s \in Starts : Reschedule(e, s)
        \/ \E u \in Attendees : Register(u, e) \/ CancelRsvp(u, e)

Next ==
    \/ Serve \/ Run \/ ListPeople \/ MarkSent
    \/ \E u \in Attendees : Remind(u)
    \/ Tick \/ ScanFails \/ ListFails \/ MarkFails \/ Crash \/ Boot

Spec == Init /\ [][Next]_vars

-----------------------------------------------------------------------------
Loop == [pc : {"sleep", "list", "remind", "mark", "down"}, now : Nat,
         jobs : SUBSET Job, job : Job \cup {None}, todo : SUBSET Attendees,
         person : Attendees \cup {None}, first : BOOLEAN]

(* Every table, the goroutine, the clock and the bounds hold values of their
   type.                                                                   *)
TypeOK ==
    /\ events \in [Events -> [status : Status, start : Starts]]
    /\ registrations \in [Events -> [Attendees -> {"none", "registered", "cancelled"}]]
    /\ flags \in [Kinds -> [Events -> SUBSET Attendees]]
    /\ reminders \in [Kinds -> [Events -> [Attendees -> Nat]]]
    /\ told \in [Kinds -> [Events -> [Attendees -> SUBSET Starts]]]
    /\ loop \in Loop
    /\ loop.pc \in {"remind", "mark"} => loop.job \in Job
    /\ loop.pc = "mark" => loop.person \in Attendees
    /\ nextTick \in Nat /\ clock \in Nat /\ changes \in Nat /\ faults \in Nat
    /\ changed \in [Events -> Nat]
    /\ joined \in [Events -> [Attendees -> Nat]]
    /\ givenUp \in [Events -> [Attendees -> Nat]]

(* Nobody is reminded of the same thing twice, but when the flag could not be
   written: once more for every crash or failed statement, and for every time
   the seat was given up.                                                  *)
RemindedOnce ==
    \A k \in Kinds, e \in Events, u \in Attendees :
        reminders[k][e][u] <= 1 + faults + givenUp[e][u]

(* The inductive strengthening.  Whoever is listed was not flagged, and whoever
   is listed or being marked but has left the event has a repeat in hand.  *)
Working(k, e) == loop.pc \in {"remind", "mark"} /\ loop.job.kind = k /\ loop.job.event = e
Waiting(k, e, u) == Working(k, e) /\ u \in loop.todo
Marking(k, e, u) == Working(k, e) /\ loop.pc = "mark" /\ loop.person = u

Excused(k, e, u) ==
    LET repeats == faults + givenUp[e][u] IN
    /\ reminders[k][e][u] <= 1 + repeats
    /\ u \notin flags[k][e] /\ ~Marking(k, e, u) => reminders[k][e][u] <= repeats
    /\ Waiting(k, e, u) => u \notin flags[k][e] /\ ~Marking(k, e, u)
    /\ Waiting(k, e, u) /\ u \notin Registered(e) => reminders[k][e][u] < repeats
    /\ Marking(k, e, u) /\ u \notin Registered(e) => reminders[k][e][u] <= repeats

AllExcused == \A k \in Kinds, e \in Events, u \in Attendees : Excused(k, e, u)

(* Both the event and the registration were left alone since before the window
   opened, the server ran since, and the window has passed.                *)
Steady(k, e, u) ==
    LET start == events[e].start IN
    /\ faults = 0
    /\ events[e].status = "published" /\ u \in Registered(e)
    /\ changed[e] <= Opens(k, start) /\ joined[e][u] <= Opens(k, start)
    /\ FirstClock + RunLimit <= Opens(k, start)
    /\ Closes(k, start) + RunLimit < clock

(* The ticker steps over nobody: whoever holds a seat through a window has
   been reminded when it has passed, if a Run takes no more than 20 minutes,
   the width of the narrowest window.                                      *)
NobodyMissed ==
    \A k \in Kinds, e \in Events, u \in Attendees :
        Steady(k, e, u) => u \in flags[k][e]

(* A reminder tells a holder of a seat the start of a published event, in its
   window, unless the event or the registration changed within the last Run. *)
ReminderHolds(j, u) ==
    /\ events[j.event].status = "published" /\ u \in Registered(j.event)
    /\ j.start = events[j.event].start
    /\ clock \in Opens(j.kind, j.start)..(Closes(j.kind, j.start) + RunLimit)

StaleByARunAtMost ==
    [][\A e \in Events, u \in Attendees, k \in Kinds :
            reminders'[k][e][u] # reminders[k][e][u] =>
                \/ loop.job.kind = k /\ loop.job.event = e /\ ReminderHolds(loop.job, u)
                \/ clock - changed[e] <= RunLimit
                \/ clock - joined[e][u] <= RunLimit]_vars

(* The narrow scan, by the date of a database in another time zone, leaves out
   no event that is in a window.                                           *)
ScanCoversWindows ==
    \A e \in Events, k \in Kinds :
        Due(k, events[e].start, clock) => InScan(events[e].start, clock)

-----------------------------------------------------------------------------
(* What the documents say. *)

(* PRD 8.9: users receive reminders for events they are registered to attend,
   at the time the event has.                                              *)
RemindedOfItsStart ==
    \A k \in Kinds, e \in Events, u \in Attendees :
        Steady(k, e, u) => events[e].start \in told[k][e][u]
=============================================================================
