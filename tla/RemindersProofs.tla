--------------------------- MODULE RemindersProofs ---------------------------
(***************************************************************************)
(* What the reminder goroutine keeps true for every set of events and      *)
(* attendees, every clock, and any number of requests, crashes and         *)
(* failures.                                                               *)
(***************************************************************************)
EXTENDS Reminders, TLAPS

LEMMA AsleepIsTyped ==
    /\ Asleep \in Loop /\ Asleep.pc = "sleep"
    /\ [Asleep EXCEPT !.first = TRUE] \in Loop
    /\ [Asleep EXCEPT !.first = TRUE].pc = "sleep"
    /\ [Asleep EXCEPT !.pc = "down"] \in Loop
    /\ [Asleep EXCEPT !.pc = "down"].pc = "down"
  BY DEF Asleep, Loop

(* A Run that goes on tells the people it holds of the job it holds. *)
LEMMA ProceedTyped ==
    ASSUME NEW l \in Loop, Proceed(l), nextTick \in Nat, clock \in Nat
    PROVE  /\ loop' \in Loop /\ nextTick' \in Nat
           /\ loop'.pc \in {"sleep", "list", "remind"}
           /\ loop'.pc = "remind" => /\ loop'.job = l.job /\ loop'.todo = l.todo
                                     /\ l.todo # {}
  <1>1. CASE Finish(l)
    BY <1>1, AsleepIsTyped DEF Finish, Period
  <1>2. CASE l.todo # {} /\ loop' = [l EXCEPT !.pc = "remind"] /\ UNCHANGED nextTick
    BY <1>2 DEF Loop
  <1>3. CASE loop' = [l EXCEPT !.pc = "list"] /\ UNCHANGED nextTick
    BY <1>3 DEF Loop
  <1> QED BY <1>1, <1>2, <1>3 DEF Proceed

LEMMA ProceedIs ==
    ASSUME NEW l \in Loop, Proceed(l)
    PROVE  \/ l.todo = {} /\ l.jobs = {} /\ Finish(l) /\ loop'.pc = "sleep" /\ ~loop'.first
           \/ /\ loop'.now = l.now /\ loop'.jobs = l.jobs /\ loop'.job = l.job
              /\ loop'.todo = l.todo /\ loop'.first = l.first /\ nextTick' = nextTick
              /\ IF l.todo = {} THEN loop'.pc = "list" ELSE loop'.pc = "remind"
  <1>1. CASE l.todo = {} /\ l.jobs = {} /\ Finish(l)
    BY <1>1 DEF Finish, Asleep
  <1>2. CASE l.todo # {} /\ loop' = [l EXCEPT !.pc = "remind"] /\ UNCHANGED nextTick
    BY <1>2 DEF Loop
  <1>3. CASE l.todo = {} /\ loop' = [l EXCEPT !.pc = "list"] /\ UNCHANGED nextTick
    BY <1>3 DEF Loop
  <1> QED BY <1>1, <1>2, <1>3 DEF Proceed

LEMMA NextTickIsNatural ==
    ASSUME nextTick \in Nat, clock \in Nat, nextTick <= clock
    PROVE  TickAfter(clock) \in Nat
  BY DEF TickAfter, Period

(* The struct with which a Run goes on to the people of its next job. *)
LEMMA ListedTyped ==
    ASSUME TypeOK, ListPeople \/ ListFails
    PROVE  \E j \in loop.jobs, l \in Loop :
              /\ Proceed(l)
              /\ l.now = loop.now /\ l.first = loop.first /\ l.jobs = loop.jobs \ {j}
              /\ \/ /\ ListPeople /\ l.job = j /\ j \in Job
                    /\ l.todo = ListRegisteredForReminder(j.event, j.kind)
                 \/ ListFails /\ l.todo = {}
  <1>0. loop \in Loop
    BY DEF TypeOK
  <1>1. CASE ListPeople
    <2>1. PICK j \in loop.jobs :
             Proceed([loop EXCEPT !.job = j, !.jobs = @ \ {j},
                                  !.todo = ListRegisteredForReminder(j.event, j.kind)])
      BY <1>1 DEF ListPeople
    <2> DEFINE people == ListRegisteredForReminder(j.event, j.kind)
    <2> DEFINE l == [loop EXCEPT !.job = j, !.jobs = @ \ {j}, !.todo = people]
    <2>2. j \in Job /\ people \in SUBSET Attendees
      BY <1>0 DEF Loop, ListRegisteredForReminder, Registered
    <2>3. Proceed(l)
      BY <2>1
    <2> HIDE DEF people
    <2>4. /\ l \in Loop /\ l.job = j /\ l.todo = people /\ l.jobs = loop.jobs \ {j}
          /\ l.now = loop.now /\ l.first = loop.first
      BY <1>0, <2>2 DEF Loop
    <2> HIDE DEF l
    <2> QED BY <1>1, <2>2, <2>3, <2>4 DEF people
  <1>2. CASE ListFails
    <2>1. PICK j \in loop.jobs : Proceed([loop EXCEPT !.jobs = @ \ {j}, !.todo = {}])
      BY <1>2 DEF ListFails
    <2> DEFINE l == [loop EXCEPT !.jobs = @ \ {j}, !.todo = {}]
    <2>2. /\ l \in Loop /\ l.todo = {} /\ l.jobs = loop.jobs \ {j}
          /\ l.now = loop.now /\ l.first = loop.first
      BY <1>0 DEF Loop
    <2>3. Proceed(l)
      BY <2>1
    <2> HIDE DEF l
    <2> QED BY <1>2, <2>2, <2>3
  <1> QED BY <1>1, <1>2

-----------------------------------------------------------------------------
(* Types. *)

LEMMA InitTyped == Init => TypeOK
  <1> SUFFICES ASSUME Init PROVE TypeOK
    OBVIOUS
  <1>1. loop \in Loop /\ loop.pc = "sleep"
    BY AsleepIsTyped DEF Init
  <1>2. /\ events \in [Events -> [status : Status, start : Starts]]
        /\ registrations \in [Events -> [Attendees -> {"none", "registered", "cancelled"}]]
    BY DEF Init, Status
  <1>3. /\ flags \in [Kinds -> [Events -> SUBSET Attendees]]
        /\ reminders \in [Kinds -> [Events -> [Attendees -> Nat]]]
        /\ told \in [Kinds -> [Events -> [Attendees -> SUBSET Starts]]]
    BY DEF Init
  <1>4. /\ nextTick \in Nat /\ clock \in Nat /\ changes \in Nat /\ faults \in Nat
        /\ changed \in [Events -> Nat]
        /\ joined \in [Events -> [Attendees -> Nat]]
        /\ givenUp \in [Events -> [Attendees -> Nat]]
    BY TimesAreNatural DEF Init
  <1> QED BY <1>1, <1>2, <1>3, <1>4 DEF TypeOK

LEMMA StepTyped ==
    ASSUME TypeOK, [Next]_vars
    PROVE  TypeOK'
  <1> USE DEF tables, sent, history
  <1>0. loop \in Loop
    BY DEF TypeOK
  <1>1. ASSUME Serve
        PROVE  TypeOK'
    <2>1. ASSUME NEW e \in Events, NEW row \in [status : Status, start : Starts],
                 UpdateEvent(e, row)
          PROVE  TypeOK'
      BY <2>1 DEF UpdateEvent, Request, TypeOK
    <2>2. ASSUME NEW e \in Events, Publish(e) \/ CancelEvent(e)
          PROVE  TypeOK'
      BY <2>1, <2>2 DEF Publish, CancelEvent, TypeOK, Status
    <2>3. ASSUME NEW e \in Events, NEW s \in Starts, Reschedule(e, s)
          PROVE  TypeOK'
      BY <2>1, <2>3 DEF Reschedule, TypeOK
    <2>4. ASSUME NEW e \in Events, NEW u \in Attendees, Register(u, e)
          PROVE  TypeOK'
      BY <2>4 DEF Register, Request, TypeOK
    <2>5. ASSUME NEW e \in Events, NEW u \in Attendees, CancelRsvp(u, e)
          PROVE  TypeOK'
      <3>1. givenUp' \in [Events -> [Attendees -> Nat]]
        BY <2>5 DEF CancelRsvp, TypeOK
      <3>2. registrations' \in [Events -> [Attendees -> {"none", "registered", "cancelled"}]]
        BY <2>5 DEF CancelRsvp, TypeOK
      <3> QED BY <2>5, <3>1, <3>2 DEF CancelRsvp, Request, TypeOK
    <2> QED BY <1>1, <2>2, <2>3, <2>4, <2>5 DEF Serve
  <1>2. ASSUME Run \/ ScanFails
        PROVE  TypeOK'
    <2>1. loop' \in Loop /\ loop'.pc \in {"sleep", "list"}
      <3>1. CASE loop' = Asleep
        BY <3>1, AsleepIsTyped
      <3>2. CASE loop' = [loop EXCEPT !.pc = "list", !.now = clock, !.jobs = JobsAt(clock)]
        <4>1. JobsAt(clock) \in SUBSET Job /\ clock \in Nat
          BY DEF JobsAt, TypeOK
        <4> QED BY <1>0, <3>2, <4>1 DEF Loop
      <3> QED BY <1>2, <3>1, <3>2 DEF Run, ScanFails
    <2>2. nextTick' \in Nat
      BY <1>2, NextTickIsNatural DEF Run, ScanFails, TypeOK, Period
    <2> QED BY <1>2, <2>1, <2>2 DEF Run, ScanFails, Fault, TypeOK
  <1>3. ASSUME ListPeople \/ ListFails
        PROVE  TypeOK'
    <2>1. /\ loop' \in Loop /\ nextTick' \in Nat
          /\ loop'.pc \in {"sleep", "list", "remind"}
          /\ loop'.pc = "remind" => loop'.job \in Job
      BY <1>3, ListedTyped, ProceedTyped DEF TypeOK
    <2>2. /\ UNCHANGED <<tables, sent, clock, changes, history>>
          /\ faults' = faults \/ faults' = faults + 1
      BY <1>3 DEF ListPeople, ListFails, Fault
    <2> QED BY <2>1, <2>2 DEF TypeOK
  <1>4. ASSUME NEW u \in Attendees, Remind(u)
        PROVE  TypeOK'
    <2>1. loop.job \in Job /\ loop.job.kind \in Kinds /\ loop.job.event \in Events
          /\ loop.job.start \in Starts
      BY <1>4 DEF Remind, TypeOK, Job
    <2>2. loop' \in Loop /\ loop'.pc = "mark" /\ loop'.job \in Job /\ loop'.person \in Attendees
      BY <1>0, <1>4, <2>1 DEF Remind, Loop
    <2>3. reminders' \in [Kinds -> [Events -> [Attendees -> Nat]]]
      BY <1>4, <2>1 DEF Remind, TypeOK
    <2>4. told' \in [Kinds -> [Events -> [Attendees -> SUBSET Starts]]]
      BY <1>4, <2>1 DEF Remind, TypeOK
    <2> QED BY <1>4, <2>2, <2>3, <2>4 DEF Remind, TypeOK
  <1>5. ASSUME MarkSent \/ MarkFails
        PROVE  TypeOK'
    <2>1. loop.job \in Job /\ loop.job.kind \in Kinds /\ loop.job.event \in Events
      BY <1>5 DEF MarkSent, MarkFails, TypeOK, Job
    <2>2. /\ loop' \in Loop /\ nextTick' \in Nat
          /\ loop'.pc \in {"sleep", "list", "remind"}
          /\ loop'.pc = "remind" => loop'.job \in Job
      BY <1>0, <1>5, <2>1, ProceedTyped DEF MarkSent, MarkFails, TypeOK
    <2>3. flags' \in [Kinds -> [Events -> SUBSET Attendees]]
      <3>1. CASE MarkFails
        BY <3>1 DEF MarkFails, TypeOK
      <3>2. CASE MarkSent
        <4>1. loop.person \in Attendees
          BY <3>2 DEF MarkSent, TypeOK
        <4> QED BY <2>1, <3>2, <4>1 DEF MarkSent, TypeOK
      <3> QED BY <1>5, <3>1, <3>2
    <2>4. UNCHANGED <<events, registrations, sent, clock, changes, history>> /\ faults' \in Nat
      BY <1>5 DEF MarkSent, MarkFails, Fault, TypeOK
    <2> QED BY <2>2, <2>3, <2>4 DEF TypeOK
  <1>6. CASE Tick
    BY <1>6 DEF Tick, TypeOK
  <1>7. CASE Crash \/ Boot
    <2>1. /\ loop' \in Loop /\ loop'.pc \in {"sleep", "down"}
          /\ nextTick' = nextTick \/ nextTick' = clock
          /\ faults' = faults \/ faults' = faults + 1
      BY <1>7, AsleepIsTyped DEF Crash, Boot, Fault
    <2>2. UNCHANGED <<tables, sent, clock, changes, history>>
      BY <1>7 DEF Crash, Boot
    <2> QED BY <2>1, <2>2 DEF TypeOK
  <1>8. CASE UNCHANGED vars
    BY <1>8 DEF vars, TypeOK
  <1> QED BY <1>1, <1>2, <1>3, <1>4, <1>5, <1>6, <1>7, <1>8 DEF Next

(* Every reachable state of the reminder goroutine and its tables is type
   correct.                                                                *)
THEOREM RemindersTyped == Spec => []TypeOK
  BY InitTyped, StepTyped, PTL DEF Spec

-----------------------------------------------------------------------------
(* Repeats. *)

LEMMA InitExcused == Init => AllExcused
  <1> SUFFICES ASSUME Init, NEW k \in Kinds, NEW e \in Events, NEW u \in Attendees
               PROVE  Excused(k, e, u)
    BY DEF AllExcused
  <1>1. ~Working(k, e)
    BY AsleepIsTyped DEF Init, Working
  <1>2. reminders[k][e][u] = 0 /\ faults = 0 /\ givenUp[e][u] = 0
    BY DEF Init
  <1> QED BY <1>1, <1>2 DEF Excused, Waiting, Marking

LEMMA StepExcused ==
    ASSUME TypeOK, AllExcused, [Next]_vars
    PROVE  AllExcused'
  <1> SUFFICES ASSUME NEW k \in Kinds, NEW e \in Events, NEW u \in Attendees
               PROVE  Excused(k, e, u)'
    BY DEF AllExcused
  <1> USE DEF tables, sent, history
  <1>0. /\ Excused(k, e, u) /\ loop \in Loop
        /\ reminders[k][e][u] \in Nat /\ faults \in Nat /\ givenUp[e][u] \in Nat
    BY DEF AllExcused, TypeOK
  (* A step that leaves the goroutine alone and nobody without a seat. *)
  <1>1. ASSUME UNCHANGED <<flags, reminders, loop, faults, givenUp>>,
               Registered(e) \subseteq Registered(e)'
        PROVE  Excused(k, e, u)'
    BY <1>0, <1>1 DEF Excused, Waiting, Marking, Working
  (* A step after which nobody is being told of this. *)
  <1>2. ASSUME UNCHANGED <<flags, reminders, givenUp>>, ~Working(k, e)',
               \/ faults' = faults /\ ~Marking(k, e, u)
               \/ faults' = faults + 1
        PROVE  Excused(k, e, u)'
    BY <1>0, <1>2 DEF Excused, Waiting, Marking
  <1>3. ASSUME NEW x \in Events, NEW row, UpdateEvent(x, row)
        PROVE  Excused(k, e, u)'
    BY <1>1, <1>3 DEF UpdateEvent, Registered
  <1>4. ASSUME NEW x \in Events, NEW v \in Attendees, Register(v, x)
        PROVE  Excused(k, e, u)'
    BY <1>1, <1>4 DEF Register, Registered, TypeOK
  <1>5. ASSUME NEW x \in Events, NEW v \in Attendees, CancelRsvp(v, x)
        PROVE  Excused(k, e, u)'
    <2>1. UNCHANGED <<flags, reminders, loop, faults>>
      BY <1>5 DEF CancelRsvp
    <2>2. CASE x = e /\ v = u
      <3>1. givenUp'[e][u] = givenUp[e][u] + 1
        BY <1>5, <2>2 DEF CancelRsvp, TypeOK
      <3> QED BY <1>0, <2>1, <3>1 DEF Excused, Waiting, Marking, Working
    <2>3. CASE ~(x = e /\ v = u)
      <3>1. /\ givenUp'[e][u] = givenUp[e][u]
            /\ u \in Registered(e) => u \in Registered(e)'
        BY <1>5, <2>3 DEF CancelRsvp, TypeOK, Registered
      <3> QED BY <1>0, <2>1, <3>1 DEF Excused, Waiting, Marking, Working
    <2> QED BY <2>2, <2>3
  <1>6. ASSUME Serve
        PROVE  Excused(k, e, u)'
    BY <1>3, <1>4, <1>5, <1>6 DEF Serve, Publish, CancelEvent, Reschedule
  <1>7. ASSUME Run \/ ScanFails
        PROVE  Excused(k, e, u)'
    <2>1. UNCHANGED <<flags, reminders, givenUp>> /\ loop.pc = "sleep"
          /\ (faults' = faults \/ faults' = faults + 1)
      BY <1>7 DEF Run, ScanFails, Fault
    <2>2. loop'.pc \in {"sleep", "list"}
      BY <1>0, <1>7, AsleepIsTyped DEF Run, ScanFails, Loop
    <2> QED BY <1>2, <2>1, <2>2 DEF Working, Marking
  <1>8. ASSUME ListPeople \/ ListFails
        PROVE  Excused(k, e, u)'
    <2>1. /\ UNCHANGED <<registrations, flags, reminders, givenUp>> /\ loop.pc = "list"
          /\ (faults' = faults \/ faults' = faults + 1)
      BY <1>8 DEF ListPeople, ListFails, Fault
    <2>2. PICK l \in Loop :
             /\ Proceed(l)
             /\ \/ l.job \in Job /\ l.todo = ListRegisteredForReminder(l.job.event, l.job.kind)
                \/ l.todo = {}
      BY <1>8, ListedTyped
    <2>3. /\ loop'.pc \in {"sleep", "list", "remind"}
          /\ loop'.pc = "remind" => loop'.job = l.job /\ loop'.todo = l.todo /\ l.todo # {}
      BY <2>2, ProceedTyped DEF TypeOK
    <2>4. CASE loop'.pc # "remind"
      BY <1>2, <2>1, <2>3, <2>4 DEF Working, Marking
    <2>5. CASE loop'.pc = "remind"
      <3>1. ~Marking(k, e, u) /\ ~Marking(k, e, u)'
        BY <2>1, <2>5 DEF Marking
      <3>2. Waiting(k, e, u)' => u \in Registered(e)' /\ u \notin flags'[k][e]
        BY <2>1, <2>2, <2>3, <2>5 DEF Waiting, Working, ListRegisteredForReminder, Registered
      <3> QED BY <1>0, <2>1, <3>1, <3>2 DEF Excused
    <2> QED BY <2>4, <2>5
  <1>9. ASSUME NEW v \in Attendees, Remind(v)
        PROVE  Excused(k, e, u)'
    <2>1. /\ UNCHANGED <<registrations, flags, faults, givenUp>>
          /\ loop.pc = "remind" /\ v \in loop.todo /\ loop.job \in Job
          /\ loop'.pc = "mark" /\ loop'.job = loop.job
          /\ loop'.person = v /\ loop'.todo = loop.todo \ {v}
      BY <1>0, <1>9 DEF Remind, Loop, TypeOK
    <2>2. CASE loop.job.kind = k /\ loop.job.event = e /\ v = u
      <3>1. reminders'[k][e][u] = reminders[k][e][u] + 1
        BY <1>9, <2>2 DEF Remind, TypeOK
      <3>2. Waiting(k, e, u) /\ ~Waiting(k, e, u)' /\ Marking(k, e, u)'
        BY <2>1, <2>2 DEF Waiting, Marking, Working
      <3>3. Registered(e)' = Registered(e)
        BY <2>1 DEF Registered
      <3> QED BY <1>0, <2>1, <3>1, <3>2, <3>3 DEF Excused
    <2>3. CASE ~(loop.job.kind = k /\ loop.job.event = e /\ v = u)
      <3>1. reminders'[k][e][u] = reminders[k][e][u]
        BY <1>9, <2>1, <2>3 DEF Remind, TypeOK, Job
      <3>2. /\ Waiting(k, e, u)' => Waiting(k, e, u)
            /\ ~Marking(k, e, u) /\ ~Marking(k, e, u)'
        BY <2>1, <2>3 DEF Waiting, Marking, Working
      <3>3. Registered(e)' = Registered(e)
        BY <2>1 DEF Registered
      <3> QED BY <1>0, <2>1, <3>1, <3>2, <3>3 DEF Excused
    <2> QED BY <2>2, <2>3
  <1>10. ASSUME MarkSent \/ MarkFails
         PROVE  Excused(k, e, u)'
    <2>1. /\ UNCHANGED <<registrations, reminders, givenUp>>
          /\ loop.pc = "mark" /\ loop.job \in Job /\ Proceed(loop)
      BY <1>10 DEF MarkSent, MarkFails, TypeOK
    <2>2. /\ loop'.pc \in {"sleep", "list", "remind"}
          /\ loop'.pc = "remind" => loop'.job = loop.job /\ loop'.todo = loop.todo
      BY <1>0, <2>1, ProceedTyped DEF TypeOK
    <2>3. /\ Waiting(k, e, u)' => Waiting(k, e, u)
          /\ ~Marking(k, e, u)'
      BY <2>1, <2>2 DEF Waiting, Marking, Working
    <2>4. Registered(e)' = Registered(e)
      BY <2>1 DEF Registered
    <2>5. CASE MarkSent /\ Marking(k, e, u) /\ u \in Registered(e)
      <3>1. u \in flags'[k][e] /\ faults' = faults
        BY <2>1, <2>5 DEF MarkSent, Marking, Working, TypeOK
      <3>2. ~Waiting(k, e, u)'
        BY <1>0, <2>3, <2>5 DEF Excused
      <3> QED BY <1>0, <2>1, <2>3, <3>1, <3>2 DEF Excused
    <2>6. CASE MarkSent /\ ~(Marking(k, e, u) /\ u \in Registered(e))
      <3>1. faults' = faults /\ (u \in flags'[k][e] <=> u \in flags[k][e])
        BY <2>1, <2>6 DEF MarkSent, Marking, Working, TypeOK, Job
      <3> QED BY <1>0, <2>1, <2>3, <2>4, <2>6, <3>1 DEF Excused
    <2>7. CASE MarkFails
      <3>1. faults' = faults + 1 /\ flags' = flags
        BY <2>7 DEF MarkFails, Fault
      <3> QED BY <1>0, <2>1, <2>3, <2>4, <3>1 DEF Excused
    <2> QED BY <1>10, <2>5, <2>6, <2>7
  <1>11. CASE Tick
    BY <1>1, <1>11 DEF Tick, Registered
  <1>12. CASE Crash \/ Boot
    <2>1. ~Working(k, e)'
      BY <1>12, AsleepIsTyped DEF Crash, Boot, Working
    <2> QED BY <1>2, <1>12, <2>1 DEF Crash, Boot, Fault, Marking
  <1>13. CASE UNCHANGED vars
    BY <1>1, <1>13 DEF vars, Registered
  <1> QED BY <1>6, <1>7, <1>8, <1>9, <1>10, <1>11, <1>12, <1>13 DEF Next

(* Nobody is reminded of the same thing more often than once, plus once for
   each crash or failed statement and for each time the seat was given up. *)
THEOREM OneReminder == Spec => []RemindedOnce
  <1>1. Init => TypeOK /\ AllExcused
    BY InitTyped, InitExcused
  <1>2. TypeOK /\ AllExcused /\ [Next]_vars => (TypeOK /\ AllExcused)'
    BY StepTyped, StepExcused
  <1>3. TypeOK /\ AllExcused => RemindedOnce
    <2> SUFFICES ASSUME TypeOK, AllExcused, NEW k \in Kinds, NEW e \in Events, NEW u \in Attendees
                 PROVE  reminders[k][e][u] <= 1 + faults + givenUp[e][u]
      BY DEF RemindedOnce
    <2>1. reminders[k][e][u] <= 1 + (faults + givenUp[e][u])
      BY DEF AllExcused, Excused
    <2>2. reminders[k][e][u] \in Nat /\ faults \in Nat /\ givenUp[e][u] \in Nat
      BY DEF TypeOK
    <2> QED BY <2>1, <2>2
  <1> QED BY <1>1, <1>2, <1>3, PTL DEF Spec

-----------------------------------------------------------------------------
(* The narrow scan. *)

(* An event is in a window only on a day the scan looks at, though the
   database may be up to a day behind the server or 22 hours ahead.        *)
LEMMA DueIsInScan ==
    ASSUME NEW kind \in Kinds, NEW start \in Starts, NEW t \in Nat, Due(kind, start, t)
    PROVE  InScan(start, t)
  <1>1. /\ start \in Nat /\ Duration \in Nat \ {0}
        /\ Zone \in Int /\ -288 <= Zone /\ Zone <= 264
        /\ (start + Duration) \div 288 = start \div 288
    BY TimesAreNatural, ZoneIsReal, EventsEndTheSameDay DEF Day, Hour, Date
  <1>2. -300 <= t - start /\ t - (start + Duration) <= 24
    <2>1. CASE kind = "24h"
      BY <1>1, <2>1 DEF Due, InWindow, Hour
    <2>2. CASE kind = "1h"
      BY <1>1, <2>2 DEF Due, InWindow
    <2>3. CASE kind = "review"
      BY <1>1, <2>3 DEF Due, Hour
    <2> QED BY <2>1, <2>2, <2>3 DEF Kinds
  <1>3. start \div 288 >= (t + Zone) \div 288 - 1
    BY <1>1, <1>2
  <1>4. start \div 288 <= (t + Zone) \div 288 + 3
    BY <1>1, <1>2
  <1> QED BY <1>3, <1>4 DEF InScan, Date, Day, Hour

(* No event in a reminder window is left out by the scan's dates. *)
THEOREM ScanIsWideEnough == Spec => []ScanCoversWindows
  <1>1. TypeOK => ScanCoversWindows
    BY DueIsInScan DEF TypeOK, ScanCoversWindows
  <1> QED BY <1>1, RemindersTyped, PTL

-----------------------------------------------------------------------------
(* How old what a Run knows may be. *)

(* What was so when the Run scanned: since then it may have changed. *)
Fresh(j) ==
    /\ Due(j.kind, j.start, loop.now)
    /\ \/ loop.now <= changed[j.event]
       \/ events[j.event].status = "published" /\ events[j.event].start = j.start

StillIn(e, u) == loop.now <= joined[e][u] \/ u \in Registered(e)

(* What a Run has in hand. *)
Held == loop.jobs \cup (IF loop.pc \in {"remind", "mark"} THEN {loop.job} ELSE {})

RunIsRecent == Running =>
    /\ loop.now <= clock /\ clock <= loop.now + RunLimit
    /\ \A j \in Held : Fresh(j)
    /\ loop.pc \in {"remind", "mark"} => \A u \in loop.todo : StillIn(loop.job.event, u)

(* A request stamps what it changes with the time. *)
LEMMA RequestsAreStamped ==
    ASSUME TypeOK, Serve, NEW e \in Events
    PROVE  /\ UNCHANGED <<flags, sent, loop, nextTick, clock, faults>>
           /\ \/ events'[e] = events[e] /\ changed'[e] = changed[e]
              \/ changed'[e] = clock
           /\ \A u \in Attendees :
                 \/ joined'[e][u] = clock
                 \/ joined'[e][u] = joined[e][u] /\ (u \in Registered(e)' <=> u \in Registered(e))
  <1>1. ASSUME NEW x \in Events, NEW row, UpdateEvent(x, row)
        PROVE  /\ UNCHANGED <<registrations, joined, flags, sent, loop, nextTick, clock, faults>>
               /\ \/ events'[e] = events[e] /\ changed'[e] = changed[e]
                  \/ changed'[e] = clock
    BY <1>1 DEF UpdateEvent, TypeOK
  <1>2. ASSUME NEW x \in Events, NEW v \in Attendees, Register(v, x) \/ CancelRsvp(v, x)
        PROVE  /\ UNCHANGED <<events, changed, flags, sent, loop, nextTick, clock, faults>>
               /\ \A u \in Attendees :
                    \/ joined'[e][u] = clock
                    \/ joined'[e][u] = joined[e][u] /\ registrations'[e][u] = registrations[e][u]
    <2>1. /\ UNCHANGED <<events, changed, flags, sent, loop, nextTick, clock, faults>>
          /\ joined' = [joined EXCEPT ![x][v] = clock]
          /\ \E r : registrations' = [registrations EXCEPT ![x][v] = r]
      BY <1>2 DEF Register, CancelRsvp
    <2>2. ASSUME NEW u \in Attendees, x = e /\ v = u PROVE joined'[e][u] = clock
      BY <2>1, <2>2 DEF TypeOK
    <2>3. ASSUME NEW u \in Attendees, ~(x = e /\ v = u)
          PROVE  joined'[e][u] = joined[e][u] /\ registrations'[e][u] = registrations[e][u]
      BY <2>1, <2>3 DEF TypeOK
    <2> QED BY <2>1, <2>2, <2>3
  <1>3. CASE \E x \in Events, v \in Attendees : Register(v, x) \/ CancelRsvp(v, x)
    BY <1>2, <1>3 DEF Registered
  <1>4. CASE \E x \in Events : \E row : UpdateEvent(x, row)
    BY <1>1, <1>4 DEF Registered
  <1> QED BY <1>3, <1>4 DEF Serve, Publish, CancelEvent, Reschedule

LEMMA SameIsRecent ==
    ASSUME RunIsRecent, UNCHANGED <<loop, clock, events, registrations, changed, joined>>
    PROVE  RunIsRecent'
  BY DEF RunIsRecent, Running, Held, Fresh, StillIn, Registered

(* The goroutine goes on with no more than it had. *)
LEMMA GoesOnRecent ==
    ASSUME TypeOK, RunIsRecent, Running, UNCHANGED <<clock, events, registrations, changed, joined>>,
           loop'.now = loop.now, loop'.jobs \subseteq loop.jobs,
           loop'.pc \in {"remind", "mark"} =>
               /\ loop'.job \in Held
               /\ \A u \in loop'.todo : StillIn(loop'.job.event, u)
    PROVE  RunIsRecent'
  <1>1. \A j \in Held' : j \in Held
    BY DEF Held
  <1>2. \A j \in Held' : Fresh(j)'
    BY <1>1 DEF RunIsRecent, Fresh
  <1>3. (loop.pc \in {"remind", "mark"} => \A u \in loop.todo : StillIn(loop.job.event, u))'
    BY DEF StillIn, Registered
  <1> QED BY <1>2, <1>3 DEF RunIsRecent, Running

LEMMA RecentStays == TypeOK /\ RunIsRecent /\ [Next]_vars => RunIsRecent'
  <1> SUFFICES ASSUME TypeOK, RunIsRecent, [Next]_vars PROVE RunIsRecent'
    OBVIOUS
  <1> USE DEF tables, sent, history
  <1>0. loop \in Loop /\ clock \in Nat /\ loop.now \in Nat
    BY DEF TypeOK, Loop
  <1>1. CASE Serve
    <2>1. UNCHANGED <<loop, clock>>
      BY <1>1 DEF Serve, Publish, CancelEvent, Reschedule, UpdateEvent, Register, CancelRsvp
    <2>2. CASE ~Running
      BY <2>1, <2>2 DEF RunIsRecent, Running
    <2>3. CASE Running
      <3>1. loop.now <= clock
        BY <2>3 DEF RunIsRecent
      <3>2. ASSUME NEW j \in Held PROVE Fresh(j)'
        <4>1. j \in Job /\ j.event \in Events
          BY DEF Held, TypeOK, Loop, Job
        <4>2. Fresh(j)
          BY <2>3 DEF RunIsRecent
        <4> QED BY <1>1, <2>1, <3>1, <4>1, <4>2, RequestsAreStamped DEF Fresh
      <3>3. ASSUME loop.pc \in {"remind", "mark"}, NEW u \in loop.todo
            PROVE  StillIn(loop.job.event, u)'
        <4>1. loop.job.event \in Events /\ u \in Attendees
          BY <3>3 DEF TypeOK, Loop, Job
        <4>2. StillIn(loop.job.event, u)
          BY <2>3, <3>3 DEF RunIsRecent
        <4> QED BY <1>1, <2>1, <3>1, <4>1, <4>2, RequestsAreStamped DEF StillIn
      <3> QED BY <2>1, <2>3, <3>2, <3>3 DEF RunIsRecent, Held, Running
    <2> QED BY <2>2, <2>3
  <1>2. CASE Run \/ ScanFails
    <2>1. CASE loop' = Asleep
      BY <2>1, AsleepIsTyped DEF RunIsRecent, Running
    <2>2. CASE loop' # Asleep
      <3>1. /\ loop' = [loop EXCEPT !.pc = "list", !.now = clock, !.jobs = JobsAt(clock)]
            /\ UNCHANGED <<clock, events, registrations, changed, joined>>
        BY <1>2, <2>2 DEF Run, ScanFails
      <3>2. loop'.pc = "list" /\ loop'.now = clock /\ loop'.jobs = JobsAt(clock)
        BY <1>0, <3>1 DEF Loop
      <3>3. \A j \in Held' : Fresh(j)'
        BY <3>1, <3>2 DEF Held, Fresh, JobsAt, ListForReminderScan
      <3> QED BY <1>0, <3>1, <3>2, <3>3, RunLimitIsNatural DEF RunIsRecent, Running
    <2> QED BY <2>1, <2>2
  <1>3. CASE ListPeople \/ ListFails
    <2>1. /\ UNCHANGED <<clock, events, registrations, changed, joined>> /\ loop.pc = "list"
      BY <1>3 DEF ListPeople, ListFails
    <2>2. PICK j \in loop.jobs, l \in Loop :
              /\ Proceed(l)
              /\ l.now = loop.now /\ l.jobs = loop.jobs \ {j}
              /\ \/ l.job = j /\ l.todo = ListRegisteredForReminder(j.event, j.kind)
                 \/ l.todo = {}
      BY <1>3, ListedTyped
    <2>3. CASE loop'.pc = "sleep"
      BY <2>3 DEF RunIsRecent, Running
    <2>4. CASE loop'.pc # "sleep"
      <3>1. /\ loop'.now = loop.now /\ loop'.jobs \subseteq loop.jobs
            /\ loop'.pc \in {"remind", "mark"} =>
                 loop'.job = j /\ loop'.todo = ListRegisteredForReminder(j.event, j.kind)
        BY <2>2, <2>4, ProceedIs
      <3> QED BY <2>1, <3>1, GoesOnRecent
              DEF Running, Held, StillIn, ListRegisteredForReminder
    <2> QED BY <2>3, <2>4
  <1>4. ASSUME NEW u \in Attendees, Remind(u) PROVE RunIsRecent'
    <2>1. /\ UNCHANGED <<clock, events, registrations, changed, joined>> /\ loop.pc = "remind"
          /\ loop'.now = loop.now /\ loop'.jobs = loop.jobs
          /\ loop'.job = loop.job /\ loop'.todo \subseteq loop.todo
      BY <1>0, <1>4 DEF Remind, Loop
    <2>2. \A v \in loop.todo : StillIn(loop.job.event, v)
      BY <2>1 DEF RunIsRecent, Running
    <2> QED BY <2>1, <2>2, GoesOnRecent DEF Running, Held
  <1>5. CASE MarkSent \/ MarkFails
    <2>1. /\ UNCHANGED <<clock, events, registrations, changed, joined>> /\ loop.pc = "mark"
          /\ Proceed(loop)
      BY <1>5 DEF MarkSent, MarkFails
    <2>2. CASE loop'.pc = "sleep"
      BY <2>2 DEF RunIsRecent, Running
    <2>3. CASE loop'.pc # "sleep"
      <3>1. /\ loop'.now = loop.now /\ loop'.jobs = loop.jobs
            /\ loop'.job = loop.job /\ loop'.todo = loop.todo
        BY <1>0, <2>1, <2>3, ProceedIs
      <3>2. \A v \in loop.todo : StillIn(loop.job.event, v)
        BY <2>1 DEF RunIsRecent, Running
      <3> QED BY <2>1, <3>1, <3>2, GoesOnRecent DEF Running, Held
    <2> QED BY <2>2, <2>3
  <1>6. CASE Tick
    <2>1. /\ UNCHANGED <<loop, events, registrations, changed, joined>> /\ clock' = clock + 1
          /\ Running => clock < loop.now + RunLimit
      BY <1>6 DEF Tick
    <2>2. Running => loop.now <= clock' /\ clock' <= loop.now + RunLimit
      BY <1>0, <2>1, RunLimitIsNatural DEF RunIsRecent
    <2> QED BY <2>1, <2>2 DEF RunIsRecent, Running, Held, Fresh, StillIn, Registered
  <1>7. CASE Crash \/ Boot
    BY <1>7, AsleepIsTyped DEF Crash, Boot, RunIsRecent, Running
  <1>8. CASE UNCHANGED vars
    BY <1>8, SameIsRecent DEF vars
  <1> QED BY <1>1, <1>2, <1>3, <1>4, <1>5, <1>6, <1>7, <1>8 DEF Next

LEMMA DueIsInWindow ==
    ASSUME NEW kind \in Kinds, NEW start \in Starts, NEW t \in Nat
    PROVE  /\ Due(kind, start, t) <=> Opens(kind, start) <= t /\ t <= Closes(kind, start)
           /\ Opens(kind, start) \in Int /\ Closes(kind, start) \in Int
           /\ Opens(kind, start) + 4 <= Closes(kind, start)
  <1>1. start \in Nat /\ Duration \in Nat
    BY TimesAreNatural
  <1>2. CASE kind = "24h"
    BY <1>1, <1>2 DEF Due, InWindow, Opens, Closes, Hour
  <1>3. CASE kind = "1h"
    BY <1>1, <1>3 DEF Due, InWindow, Opens, Closes
  <1>4. CASE kind = "review"
    BY <1>1, <1>4 DEF Due, Opens, Closes, Hour
  <1> QED BY <1>2, <1>3, <1>4 DEF Kinds

(* Only telling somebody makes a reminder. *)
LEMMA OnlyTellingReminds ==
    ASSUME [Next]_vars, reminders' # reminders
    PROVE  \E u \in Attendees : Remind(u)
  BY DEF Next, Serve, Publish, CancelEvent, Reschedule, UpdateEvent, Register, CancelRsvp, Run,
         ListPeople, MarkSent, Tick, ScanFails, ListFails, MarkFails, Crash, Boot, vars, sent

LEMMA StepIsRecent ==
    ASSUME TypeOK, RunIsRecent, [Next]_vars, NEW e \in Events, NEW u \in Attendees,
           NEW k \in Kinds, reminders'[k][e][u] # reminders[k][e][u]
    PROVE  \/ loop.job.kind = k /\ loop.job.event = e /\ ReminderHolds(loop.job, u)
           \/ clock - changed[e] <= RunLimit
           \/ clock - joined[e][u] <= RunLimit
  <1>1. PICK v \in Attendees : Remind(v)
    BY OnlyTellingReminds
  <1>2. /\ loop.pc = "remind" /\ v \in loop.todo
        /\ reminders' = [reminders EXCEPT ![loop.job.kind][loop.job.event][v] = @ + 1]
        /\ loop.job \in Job /\ loop.job.kind \in Kinds /\ loop.job.event \in Events
        /\ loop.job.start \in Starts
    BY <1>1 DEF Remind, TypeOK, Job
  <1>3. loop.job.kind = k /\ loop.job.event = e /\ v = u
    BY <1>2 DEF TypeOK
  <1>4. /\ loop.now <= clock /\ clock <= loop.now + RunLimit
        /\ Fresh(loop.job) /\ StillIn(e, u)
    BY <1>2, <1>3 DEF RunIsRecent, Running, Held
  <1>5. /\ clock \in Nat /\ loop.now \in Nat /\ changed[e] \in Nat /\ joined[e][u] \in Nat
        /\ RunLimit \in Nat
    BY RunLimitIsNatural DEF TypeOK, Loop
  <1>6. CASE loop.now <= changed[e]
    BY <1>4, <1>5, <1>6
  <1>7. CASE loop.now <= joined[e][u]
    BY <1>4, <1>5, <1>7
  <1>8. CASE ~(loop.now <= changed[e]) /\ ~(loop.now <= joined[e][u])
    <2>1. /\ events[e].status = "published" /\ events[e].start = loop.job.start
          /\ u \in Registered(e) /\ Due(loop.job.kind, loop.job.start, loop.now)
      BY <1>3, <1>4, <1>8 DEF Fresh, StillIn
    <2>2. clock \in Opens(loop.job.kind, loop.job.start)..(Closes(loop.job.kind, loop.job.start) + RunLimit)
      BY <1>2, <1>4, <1>5, <2>1, DueIsInWindow
    <2> QED BY <1>3, <2>1, <2>2 DEF ReminderHolds
  <1> QED BY <1>6, <1>7, <1>8

LEMMA InitRecent == Init => RunIsRecent
  BY AsleepIsTyped DEF Init, RunIsRecent, Running

(* Whoever is reminded holds a seat of a published event that starts when the
   reminder says, or did so within the time a Run takes.                   *)
THEOREM RemindersAreRecent == Spec => StaleByARunAtMost
  <1>1. Init => TypeOK /\ RunIsRecent
    BY InitTyped, InitRecent
  <1>2. TypeOK /\ RunIsRecent /\ [Next]_vars => (TypeOK /\ RunIsRecent)'
    BY StepTyped, RecentStays
  <1>3. TypeOK /\ RunIsRecent /\ [Next]_vars =>
           [\A e \in Events, u \in Attendees, k \in Kinds :
               reminders'[k][e][u] # reminders[k][e][u] =>
                \/ loop.job.kind = k /\ loop.job.event = e /\ ReminderHolds(loop.job, u)
                \/ clock - changed[e] <= RunLimit
                \/ clock - joined[e][u] <= RunLimit]_vars
    BY StepIsRecent
  <1> QED BY <1>1, <1>2, <1>3, PTL DEF Spec, StaleByARunAtMost

-----------------------------------------------------------------------------
(* Nobody is missed. *)

(* While nothing fails, the ticker is never more than a period ahead, and the
   first Run starts with the server.                                       *)
Rhythm == faults = 0 =>
    /\ loop.pc # "down" /\ nextTick <= clock + Period
    /\ loop.first /\ loop.pc = "sleep" => clock = FirstClock /\ nextTick = FirstClock
    /\ loop.first /\ loop.pc # "sleep" => loop.now = FirstClock

(* The registration has held since before the window opened. *)
Holds(k, e, u) ==
    LET opens == Opens(k, events[e].start) IN
    /\ faults = 0
    /\ events[e].status = "published" /\ u \in Registered(e)
    /\ changed[e] <= opens /\ joined[e][u] <= opens
    /\ FirstClock + RunLimit <= opens

(* The Run that goes on will come to it, or the next one starts by t. *)
InHand(k, e, u) ==
    /\ Running
    /\ \/ \E j \in loop.jobs : j.event = e /\ j.kind = k
       \/ Waiting(k, e, u) \/ Marking(k, e, u)

ComesBy(t) ==
    \/ loop.pc = "sleep" /\ nextTick <= t /\ clock <= t
    \/ /\ Running /\ nextTick <= t
       /\ loop.now + RunLimit + (IF loop.first THEN Period ELSE 0) <= t

Expected(k, e, u) ==
    LET closes == Closes(k, events[e].start) IN
    Holds(k, e, u) =>
        u \in flags[k][e] \/ (InHand(k, e, u) /\ loop.now <= closes) \/ ComesBy(closes)

LEMMA TickComesSoon ==
    ASSUME nextTick \in Nat, clock \in Nat, nextTick <= clock
    PROVE  TickAfter(clock) <= clock + Period
  BY DEF TickAfter, Period

LEMMA RhythmStays ==
    ASSUME TypeOK, Rhythm, [Next]_vars
    PROVE  Rhythm'
  <1> USE DEF tables, sent, history
  <1>0. loop \in Loop /\ clock \in Nat /\ nextTick \in Nat /\ loop.now \in Nat /\ faults \in Nat
    BY DEF TypeOK, Loop
  <1>1. CASE UNCHANGED <<loop, clock, nextTick, faults>>
    BY <1>1 DEF Rhythm
  <1>2. CASE Run
    <2>1. nextTick' <= clock + Period /\ clock' = clock /\ faults' = faults /\ loop.pc = "sleep"
      BY <1>0, <1>2, TickComesSoon DEF Run, Period
    <2>2. CASE loop' = Asleep
      BY <2>1, <2>2 DEF Rhythm, Asleep
    <2>3. CASE loop' # Asleep
      <3>1. loop' = [loop EXCEPT !.pc = "list", !.now = clock, !.jobs = JobsAt(clock)]
        BY <1>2, <2>3 DEF Run
      <3>2. loop'.pc = "list" /\ loop'.now = clock /\ loop'.first = loop.first
        BY <1>0, <3>1 DEF Loop
      <3> QED BY <2>1, <3>2 DEF Rhythm
    <2> QED BY <2>2, <2>3
  <1>3. ASSUME NEW l \in Loop, Proceed(l), l.now = loop.now, l.first = loop.first,
               loop.pc \in {"list", "mark"}, clock' = clock, faults' = faults
        PROVE  Rhythm'
    BY <1>0, <1>3, ProceedIs DEF Rhythm, Finish, Period
  <1>4. CASE ListPeople
    BY <1>3, <1>4, ListedTyped DEF ListPeople
  <1>5. CASE MarkSent
    BY <1>0, <1>3, <1>5 DEF MarkSent
  <1>6. ASSUME NEW u \in Attendees, Remind(u) PROVE Rhythm'
    <2>1. /\ UNCHANGED <<clock, nextTick, faults>> /\ loop.pc = "remind" /\ loop'.pc = "mark"
          /\ loop'.now = loop.now /\ loop'.first = loop.first
      BY <1>0, <1>6 DEF Remind, Loop
    <2> QED BY <2>1 DEF Rhythm
  <1>7. CASE Tick
    <2>1. /\ UNCHANGED <<loop, nextTick, faults>> /\ clock' = clock + 1
          /\ loop.pc = "sleep" => ~(nextTick <= clock)
      BY <1>7 DEF Tick
    <2>2. CASE loop.first /\ loop.pc = "sleep" /\ faults = 0
      BY <1>0, <2>1, <2>2 DEF Rhythm
    <2>3. CASE ~(loop.first /\ loop.pc = "sleep" /\ faults = 0)
      BY <1>0, <2>1, <2>3 DEF Rhythm, Period
    <2> QED BY <2>2, <2>3
  <1>8. CASE ScanFails \/ ListFails \/ MarkFails \/ Crash
    <2>1. faults' = faults + 1
      BY <1>8 DEF ScanFails, ListFails, MarkFails, Crash, Fault
    <2> QED BY <1>0, <2>1 DEF Rhythm
  <1>9. CASE Boot
    <2>1. faults' = faults /\ faults # 0
      BY <1>9 DEF Boot, Rhythm
    <2> QED BY <2>1 DEF Rhythm
  <1>10. CASE Serve
    BY <1>1, <1>10 DEF Serve, Publish, CancelEvent, Reschedule, UpdateEvent, Register, CancelRsvp
  <1>11. CASE UNCHANGED vars
    BY <1>1, <1>11 DEF vars
  <1> QED BY <1>2, <1>4, <1>5, <1>6, <1>7, <1>8, <1>9, <1>10, <1>11 DEF Next

(* A Run takes no longer than the narrowest window is wide. *)
RunsAreShort == RunLimit <= 4

(* Before a window opens, a Run in it is still to come. *)
LEMMA ComesInTime ==
    ASSUME RunsAreShort, TypeOK, Rhythm, RunIsRecent, faults = 0, NEW opens \in Int, NEW t \in Int,
           opens + 4 <= t, clock <= opens, FirstClock + RunLimit <= opens
    PROVE  ComesBy(t)
  <1>1. /\ clock \in Nat /\ nextTick \in Nat /\ loop.now \in Nat /\ FirstClock \in Nat
        /\ loop.pc = "sleep" \/ Running
        /\ RunLimit \in Nat /\ RunLimit <= 4
    BY TimesAreNatural, RunLimitIsNatural DEF TypeOK, Loop, Running, Rhythm, RunsAreShort
  <1>2. nextTick <= clock + 3
    BY DEF Rhythm, Period
  <1>3. CASE loop.pc = "sleep"
    BY <1>1, <1>2, <1>3 DEF ComesBy
  <1>4. CASE Running
    <2>1. loop.now <= clock /\ (loop.first => loop.now = FirstClock)
      BY <1>4 DEF RunIsRecent, Rhythm, Running
    <2> QED BY <1>1, <1>2, <1>4, <2>1 DEF ComesBy, Period
  <1> QED BY <1>1, <1>3, <1>4

(* The goroutine goes on with struct l, flagging nobody it has not told. *)
LEMMA ProceedIsExpected ==
    ASSUME TypeOK, RunIsRecent, Running, NEW l \in Loop, Proceed(l),
           l.now = loop.now, l.first = loop.first, clock' = clock,
           NEW k \in Kinds, NEW e \in Events, NEW u \in Attendees, NEW t \in Int,
           \/ /\ loop.now <= t
              /\ \/ \E j \in l.jobs : j.event = e /\ j.kind = k
                 \/ l.job.kind = k /\ l.job.event = e /\ u \in l.todo
           \/ ComesBy(t)
    PROVE  (InHand(k, e, u)' /\ loop'.now <= t) \/ ComesBy(t)'
  <1>1. /\ clock \in Nat /\ nextTick \in Nat /\ loop.now \in Nat /\ RunLimit \in Nat
        /\ loop.now <= clock /\ clock <= loop.now + RunLimit /\ loop.pc # "sleep"
    BY RunLimitIsNatural DEF TypeOK, Loop, RunIsRecent, Running
  <1>2. CASE ComesBy(t)
    <2>1. CASE Finish(l) /\ loop'.pc = "sleep"
      <3>1. nextTick' = IF loop.first THEN clock + Period ELSE nextTick
        BY <2>1 DEF Finish
      <3>2. nextTick' <= t /\ clock <= t
        BY <1>1, <1>2, <3>1 DEF ComesBy, Period
      <3> QED BY <2>1, <3>2 DEF ComesBy
    <2>2. CASE loop'.now = loop.now /\ loop'.first = loop.first /\ nextTick' = nextTick
               /\ loop'.pc \in {"list", "remind"}
      BY <1>1, <1>2, <2>2 DEF ComesBy, Running
    <2> QED BY <2>1, <2>2, ProceedIs
  <1>3. CASE ~ComesBy(t)
    <2>1. /\ l.todo # {} \/ l.jobs # {}
          /\ \/ \E j \in l.jobs : j.event = e /\ j.kind = k
             \/ l.job.kind = k /\ l.job.event = e /\ u \in l.todo
      BY <1>3
    <2>2. /\ loop'.now = l.now /\ loop'.jobs = l.jobs /\ loop'.job = l.job
          /\ loop'.todo = l.todo
          /\ IF l.todo = {} THEN loop'.pc = "list" ELSE loop'.pc = "remind"
      BY <2>1, ProceedIs
    <2> QED BY <1>3, <2>1, <2>2 DEF InHand, Running, Waiting, Working
  <1> QED BY <1>2, <1>3

LEMMA ExpectedStays ==
    ASSUME RunsAreShort, TypeOK, RunIsRecent, Rhythm, [Next]_vars,
           NEW k \in Kinds, NEW e \in Events, NEW u \in Attendees, Expected(k, e, u)
    PROVE  Expected(k, e, u)'
  <1> SUFFICES ASSUME Holds(k, e, u)'
               PROVE  \/ u \in flags'[k][e]
                      \/ InHand(k, e, u)' /\ loop'.now <= Closes(k, events'[e].start)
                      \/ ComesBy(Closes(k, events[e].start))'
    BY DEF Expected
  <1> USE DEF tables, sent, history
  <1>0. /\ loop \in Loop /\ clock \in Nat /\ nextTick \in Nat /\ loop.now \in Nat /\ faults \in Nat
        /\ events[e].start \in Starts /\ events'[e].start \in Starts
        /\ changed[e] \in Nat /\ joined[e][u] \in Nat /\ FirstClock \in Nat /\ RunLimit \in Nat
        /\ nextTick' \in Nat
    BY StepTyped, TimesAreNatural, RunLimitIsNatural DEF TypeOK, Loop
  <1> DEFINE opens == Opens(k, events[e].start)
  <1> DEFINE closes == Closes(k, events[e].start)
  <1>01. opens \in Int /\ closes \in Int /\ opens + 4 <= closes
    BY <1>0, DueIsInWindow
  <1>03. PICK t \in Int : t = closes
    BY <1>01
  (* Nothing the registration depends on has changed. *)
  <1>02. ASSUME UNCHANGED <<events, registrations, changed, joined>>,
                faults' = faults \/ faults' = faults + 1
         PROVE  /\ Holds(k, e, u) /\ faults = 0 /\ faults' = 0 /\ Closes(k, events'[e].start) = closes
                /\ ComesBy(t)' => ComesBy(Closes(k, events[e].start))'
                /\ \/ u \in flags[k][e]
                   \/ InHand(k, e, u) /\ loop.now <= closes
                   \/ ComesBy(closes)
    BY <1>0, <1>02, <1>03 DEF Holds, Registered, Expected, ComesBy, Running
  <1>1. CASE Serve
    <2>1. /\ UNCHANGED <<flags, loop, nextTick, clock, faults>>
          /\ \/ events'[e] = events[e] /\ changed'[e] = changed[e]
             \/ changed'[e] = clock
          /\ \/ joined'[e][u] = clock
             \/ joined'[e][u] = joined[e][u] /\ (u \in Registered(e)' <=> u \in Registered(e))
      BY <1>1, RequestsAreStamped
    <2>2. CASE clock <= Opens(k, events'[e].start)
      <3>1. /\ Opens(k, events'[e].start) \in Int /\ Closes(k, events'[e].start) \in Int
            /\ Opens(k, events'[e].start) + 4 <= Closes(k, events'[e].start)
        BY <1>0, DueIsInWindow
      <3>2. faults = 0 /\ FirstClock + RunLimit <= Opens(k, events'[e].start)
        BY <2>1 DEF Holds
      <3>3. ComesBy(Closes(k, events'[e].start))
        BY <2>2, <3>1, <3>2, ComesInTime
      <3> QED BY <2>1, <3>3 DEF ComesBy, Running
    <2>3. CASE ~(clock <= Opens(k, events'[e].start))
      <3>1. /\ changed'[e] # clock /\ joined'[e][u] # clock
        BY <2>3 DEF Holds
      <3>2. /\ events'[e] = events[e] /\ changed'[e] = changed[e]
            /\ joined'[e][u] = joined[e][u] /\ (u \in Registered(e)' <=> u \in Registered(e))
        BY <2>1, <3>1
      <3>3. Holds(k, e, u)
        BY <2>1, <3>2 DEF Holds
      <3>4. \/ u \in flags[k][e]
            \/ InHand(k, e, u) /\ loop.now <= closes
            \/ ComesBy(closes)
        BY <3>3 DEF Expected
      <3> QED BY <2>1, <3>2, <3>4 DEF InHand, Running, Waiting, Marking, Working, ComesBy
    <2> QED BY <2>2, <2>3
  <1>2. CASE Run
    <2>1. /\ UNCHANGED <<events, registrations, changed, joined, flags, faults, clock>>
          /\ loop.pc = "sleep" /\ nextTick <= clock
      BY <1>2 DEF Run
    <2>2. Holds(k, e, u) /\ (u \in flags[k][e] \/ (nextTick <= closes /\ clock <= closes))
      BY <1>02, <2>1 DEF InHand, ComesBy, Running
    <2>3. nextTick' <= clock + 3
      BY <1>0, <1>2, TickComesSoon DEF Run, Period
    <2>4. CASE u \in flags[k][e]
      BY <2>1, <2>4
    <2>5. CASE clock <= closes /\ opens <= clock
      <3>1. Due(k, events[e].start, clock)
        BY <1>0, <2>5, DueIsInWindow
      <3>2. e \in ListForReminderScan
        BY <1>0, <2>2, <3>1, DueIsInScan DEF Holds, ListForReminderScan
      <3>3. PICK j \in Job : j = [event |-> e, kind |-> k, start |-> events[e].start]
        BY <1>0 DEF Job
      <3>4. j \in JobsAt(clock)
        BY <3>1, <3>2, <3>3 DEF JobsAt
      <3>5. loop' = [loop EXCEPT !.pc = "list", !.now = clock, !.jobs = JobsAt(clock)]
        BY <1>2, <3>4 DEF Run
      <3>6. loop'.pc = "list" /\ loop'.now = clock /\ loop'.jobs = JobsAt(clock)
        BY <1>0, <3>5 DEF Loop
      <3> QED BY <2>1, <2>5, <3>3, <3>4, <3>6 DEF InHand, Running
    <2>6. CASE clock <= closes /\ clock < opens
      <3>1. FirstClock + RunLimit <= opens /\ faults = 0 /\ RunLimit <= 4
        BY <2>2 DEF Holds, RunsAreShort
      <3>2. loop.first => clock = FirstClock
        BY <2>1, <3>1 DEF Rhythm
      <3>3. \/ loop' = Asleep
            \/ loop' = [loop EXCEPT !.pc = "list", !.now = clock, !.jobs = JobsAt(clock)]
        BY <1>2 DEF Run
      <3>4. \/ loop'.pc = "sleep"
            \/ loop'.pc = "list" /\ loop'.now = clock /\ loop'.first = loop.first
        BY <1>0, <3>3, AsleepIsTyped DEF Loop
      <3>5. nextTick' <= closes /\ clock + RunLimit <= closes
            /\ (loop.first => clock + RunLimit + 3 <= closes)
        BY <1>0, <1>01, <2>3, <2>6, <3>1, <3>2
      <3> QED BY <1>0, <2>1, <2>6, <3>4, <3>5 DEF ComesBy, Running, Period
    <2> QED BY <1>0, <1>01, <2>2, <2>4, <2>5, <2>6
  <1>3. CASE ListPeople
    <2>1. /\ UNCHANGED <<events, registrations, changed, joined, flags, faults, clock>>
          /\ loop.pc = "list"
      BY <1>3 DEF ListPeople
    <2>2. PICK j \in loop.jobs, l \in Loop :
              /\ Proceed(l)
              /\ l.now = loop.now /\ l.first = loop.first /\ l.jobs = loop.jobs \ {j}
              /\ l.job = j /\ l.todo = ListRegisteredForReminder(j.event, j.kind)
      <3>1. ~ListFails
        <4>1. ListFails => faults' = faults + 1
          BY DEF ListFails, Fault
        <4> QED BY <1>0, <2>1, <4>1
      <3> QED BY <1>3, <3>1, ListedTyped
    <2>3. CASE u \in flags[k][e]
      BY <2>1, <2>3
    <2>4. CASE u \notin flags[k][e]
      <3>1. \/ ComesBy(closes)
            \/ loop.now <= closes /\ \E i \in loop.jobs : i.event = e /\ i.kind = k
        BY <1>02, <2>1, <2>4 DEF InHand, Waiting, Marking, Working
      <3>2. u \in Registered(e)
        BY <1>02, <2>1 DEF Holds
      <3>3. \A i \in loop.jobs : i.event = e /\ i.kind = k =>
               \/ i \in l.jobs
               \/ l.job.kind = k /\ l.job.event = e /\ u \in l.todo
        BY <2>2, <2>4, <3>2 DEF ListRegisteredForReminder
      <3>4. \/ /\ loop.now <= closes
               /\ \/ \E i \in l.jobs : i.event = e /\ i.kind = k
                  \/ l.job.kind = k /\ l.job.event = e /\ u \in l.todo
            \/ ComesBy(closes)
        BY <3>1, <3>3
      <3>5. (InHand(k, e, u)' /\ loop'.now <= t) \/ ComesBy(t)'
        BY <1>03, <2>1, <2>2, <3>4, ProceedIsExpected DEF Running
      <3> QED BY <1>02, <1>03, <2>1, <3>5
    <2> QED BY <2>3, <2>4
  <1>4. ASSUME NEW v \in Attendees, Remind(v)
        PROVE  \/ u \in flags'[k][e]
               \/ InHand(k, e, u)' /\ loop'.now <= Closes(k, events'[e].start)
               \/ ComesBy(Closes(k, events[e].start))'
    <2>1. /\ UNCHANGED <<events, registrations, changed, joined, flags, faults, clock, nextTick>>
          /\ loop.pc = "remind" /\ loop'.pc = "mark" /\ loop'.now = loop.now
          /\ loop'.first = loop.first /\ loop'.jobs = loop.jobs /\ loop'.job = loop.job
          /\ loop'.person = v /\ loop'.todo = loop.todo \ {v}
      BY <1>0, <1>4 DEF Remind, Loop
    <2>2. CASE u \in flags[k][e]
      BY <2>1, <2>2
    <2>3. CASE InHand(k, e, u) /\ loop.now <= closes
      <3>1. InHand(k, e, u)'
        BY <2>1, <2>3 DEF InHand, Running, Waiting, Marking, Working
      <3> QED BY <1>02, <2>1, <2>3, <3>1
    <2>4. CASE ComesBy(closes)
      <3>1. ComesBy(t)'
        BY <1>03, <2>1, <2>4 DEF ComesBy, Running
      <3> QED BY <1>02, <2>1, <3>1
    <2> QED BY <1>02, <2>1, <2>2, <2>3, <2>4
  <1>5. CASE MarkSent
    <2>1. /\ UNCHANGED <<events, registrations, changed, joined, faults, clock>>
          /\ loop.pc = "mark" /\ Proceed(loop)
          /\ flags' = IF loop.person \in Registered(loop.job.event)
                      THEN [flags EXCEPT ![loop.job.kind][loop.job.event] = @ \cup {loop.person}]
                      ELSE flags
      BY <1>5 DEF MarkSent
    <2>2. loop.job.kind \in Kinds /\ loop.job.event \in Events /\ flags \in [Kinds -> [Events -> SUBSET Attendees]]
      BY <2>1 DEF TypeOK, Job
    <2>3. flags[k][e] \subseteq flags'[k][e]
      BY <2>1, <2>2
    <2>4. CASE u \in flags[k][e]
      BY <2>3, <2>4
    <2>5. CASE Marking(k, e, u)
      <3>1. u \in Registered(e)
        BY <1>02, <2>1 DEF Holds
      <3>2. loop.job.kind = k /\ loop.job.event = e /\ loop.person = u
        BY <2>5 DEF Marking, Working
      <3> QED BY <2>1, <2>2, <3>1, <3>2
    <2>6. CASE u \notin flags[k][e] /\ ~Marking(k, e, u)
      <3>1. \/ /\ loop.now <= closes
               /\ \/ \E i \in loop.jobs : i.event = e /\ i.kind = k
                  \/ loop.job.kind = k /\ loop.job.event = e /\ u \in loop.todo
            \/ ComesBy(closes)
        BY <1>02, <2>1, <2>6 DEF InHand, Waiting, Working
      <3>2. (InHand(k, e, u)' /\ loop'.now <= t) \/ ComesBy(t)'
        BY <1>0, <1>03, <2>1, <3>1, ProceedIsExpected DEF Running
      <3> QED BY <1>02, <1>03, <2>1, <3>2
    <2> QED BY <2>4, <2>5, <2>6
  <1>6. CASE Tick
    <2>1. /\ UNCHANGED <<events, registrations, changed, joined, flags, faults, loop, nextTick>>
          /\ clock' = clock + 1 /\ (loop.pc = "sleep" => ~(nextTick <= clock))
      BY <1>6 DEF Tick
    <2>2. CASE u \in flags[k][e]
      BY <2>1, <2>2
    <2>3. CASE InHand(k, e, u) /\ loop.now <= closes
      <3>1. InHand(k, e, u)'
        BY <2>1, <2>3 DEF InHand, Running, Waiting, Marking, Working
      <3> QED BY <1>02, <2>1, <2>3, <3>1
    <2>4. CASE ComesBy(closes)
      <3>1. loop.pc = "sleep" /\ nextTick <= closes => clock + 1 <= closes
        BY <1>0, <1>01, <2>1
      <3>2. ComesBy(t)'
        BY <1>03, <2>1, <2>4, <3>1 DEF ComesBy, Running
      <3> QED BY <1>02, <2>1, <3>2
    <2> QED BY <1>02, <2>1, <2>2, <2>3, <2>4
  <1>7. CASE ScanFails \/ ListFails \/ MarkFails \/ Crash
    <2>1. faults' = faults + 1
      BY <1>7 DEF ScanFails, ListFails, MarkFails, Crash, Fault
    <2> QED BY <1>0, <2>1 DEF Holds
  <1>8. CASE Boot
    <2>1. loop.pc = "down" /\ faults' = faults
      BY <1>8 DEF Boot
    <2> QED BY <2>1 DEF Holds, Rhythm
  <1>9. CASE UNCHANGED vars
    <2>1. /\ UNCHANGED <<events, registrations, changed, joined, flags, faults, clock, loop, nextTick>>
      BY <1>9 DEF vars
    <2>2. CASE InHand(k, e, u) /\ loop.now <= closes
      BY <1>02, <2>1, <2>2 DEF InHand, Running, Waiting, Marking, Working
    <2>3. CASE ComesBy(closes)
      <3>1. ComesBy(t)'
        BY <1>03, <2>1, <2>3 DEF ComesBy, Running
      <3> QED BY <1>02, <2>1, <3>1
    <2> QED BY <1>02, <2>1, <2>2, <2>3
  <1> QED BY <1>1, <1>2, <1>3, <1>4, <1>5, <1>6, <1>7, <1>8, <1>9 DEF Next

AllExpected == \A k \in Kinds, e \in Events, u \in Attendees : Expected(k, e, u)

LEMMA InitExpected ==
    ASSUME RunsAreShort, Init
    PROVE  Rhythm /\ AllExpected
  <1>1. /\ loop.pc = "sleep" /\ loop.first /\ clock = FirstClock /\ nextTick = FirstClock
        /\ FirstClock \in Nat
    BY TimesAreNatural DEF Init, Asleep
  <1>2. Rhythm
    BY <1>1 DEF Rhythm, Period
  <1>3. ASSUME NEW k \in Kinds, NEW e \in Events, NEW u \in Attendees, Holds(k, e, u)
        PROVE  ComesBy(Closes(k, events[e].start))
    <2>1. TypeOK /\ RunIsRecent /\ events[e].start \in Starts
      BY InitTyped, InitRecent DEF TypeOK
    <2>2. /\ Opens(k, events[e].start) \in Int /\ Closes(k, events[e].start) \in Int
          /\ Opens(k, events[e].start) + 4 <= Closes(k, events[e].start)
      BY <1>1, <2>1, DueIsInWindow
    <2>3. faults = 0 /\ FirstClock + RunLimit <= Opens(k, events[e].start)
      BY <1>3 DEF Holds
    <2>4. clock <= Opens(k, events[e].start)
      BY <1>1, <2>2, <2>3, RunLimitIsNatural
    <2> QED BY <1>2, <2>1, <2>2, <2>3, <2>4, ComesInTime
  <1> QED BY <1>2, <1>3 DEF AllExpected, Expected

(* When the window has passed, by more than a Run, no Run is left to wait for. *)
LEMMA ExpectedIsTold ==
    ASSUME TypeOK, RunIsRecent, NEW k \in Kinds, NEW e \in Events, NEW u \in Attendees,
           Expected(k, e, u), Steady(k, e, u)
    PROVE  u \in flags[k][e]
  <1> DEFINE closes == Closes(k, events[e].start)
  <1>1. /\ Holds(k, e, u) /\ closes + RunLimit < clock
    BY DEF Steady, Holds
  <1>2. /\ closes \in Int /\ clock \in Nat /\ nextTick \in Nat /\ loop.now \in Nat
        /\ RunLimit \in Nat
    BY DueIsInWindow, TimesAreNatural, RunLimitIsNatural DEF TypeOK, Loop
  <1>3. Running => clock <= loop.now + RunLimit
    BY DEF RunIsRecent
  <1>4. ~(InHand(k, e, u) /\ loop.now <= closes)
    BY <1>1, <1>2, <1>3 DEF InHand
  <1>5. ~ComesBy(closes)
    BY <1>1, <1>2, <1>3 DEF ComesBy, Period
  <1> QED BY <1>1, <1>4, <1>5 DEF Expected

(* Whoever holds a seat from before a window opens until it has passed has
   been reminded, for a server whose Runs fit in the narrowest window.     *)
THEOREM NobodyIsMissed ==
    ASSUME RunsAreShort
    PROVE  Spec => []NobodyMissed
  <1> DEFINE IInv == TypeOK /\ RunIsRecent /\ Rhythm /\ AllExpected
  <1>1. Init => IInv
    BY InitTyped, InitRecent, InitExpected
  <1>2. IInv /\ [Next]_vars => IInv'
    BY StepTyped, RecentStays, RhythmStays, ExpectedStays DEF AllExpected
  <1>3. IInv => NobodyMissed
    BY ExpectedIsTold DEF AllExpected, NobodyMissed
  <1> QED BY <1>1, <1>2, <1>3, PTL DEF Spec
=============================================================================
