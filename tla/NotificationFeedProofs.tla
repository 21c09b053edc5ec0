------------------------ MODULE NotificationFeedProofs ------------------------
(***************************************************************************)
(* What the hub and a client's copy of the notifications keep true for any *)
(* number of connections, senders, notifications, requests and faults.     *)
(***************************************************************************)
EXTENDS NotificationFeed, TLAPS

-----------------------------------------------------------------------------
(* Types, and what a sender holds. *)

(* A sender has a notification; it writes only under the read lock, and only
   to connections that are registered.                                     *)
SenderShape ==
    \A s \in Senders :
        /\ sender[s].pc = "idle" => sender[s].notice = None
        /\ sender[s].pc # "idle" => sender[s].notice \in Notices
        /\ sender[s].pc # "write" => sender[s].todo = {} /\ sender[s].writing = None

HubInv == HubTypeOK /\ SenderShape /\ WritesStayInside

(* The steps of the hub, those of the clients' lines included. *)
HubAction ==
    \/ \E s \in Senders : SenderStep(s)
    \/ \E c \in Conns : HandlerStep(c) \/ LineStep(c) \/ Upgrade(c)
    \/ \E c \in Conns : Cut(c) /\ faults' = faults

(* What may replace what a sender holds. *)
Held(r) ==
    /\ r \in Sender
    /\ r.pc = "idle" => r.notice = None
    /\ r.pc # "idle" => r.notice \in Notices
    /\ r.pc # "write" => r.todo = {} /\ r.writing = None
    /\ r.writing # None => r.writing \in conns
    /\ r.todo \subseteq conns

LEMMA HeldByAll == HubInv <=> HubTypeOK /\ \A s \in Senders : Held(sender[s])
  BY DEF HubInv, HubTypeOK, SenderShape, WritesStayInside, Held

LEMMA NothingHeld == Held(NotSending)
  BY DEF Held, NotSending, Sender

LEMMA UnlockedIsHeld ==
    ASSUME NEW r, Held(r)
    PROVE  Held(UnlockedIfDone(r))
  BY NothingHeld DEF UnlockedIfDone

(* A sender that takes over something it may hold keeps the hub in order. *)
LEMMA SenderReplaced ==
    ASSUME HubInv, NEW s \in Senders, NEW r, Held(r),
           sender' = [sender EXCEPT ![s] = r],
           wire' \in SUBSET Notices, UNCHANGED <<conns, handler, line, faults>>
    PROVE  HubInv'
  <1>1. HubTypeOK'
    BY DEF HubInv, HubTypeOK, Held
  <1>2. \A t \in Senders : Held(sender[t])
    BY HeldByAll
  <1>3. \A t \in Senders : sender'[t] = r \/ sender'[t] = sender[t]
    BY DEF HubInv, HubTypeOK
  <1>4. \A t \in Senders : Held(sender[t])'
    BY <1>2, <1>3 DEF Held
  <1> QED BY <1>1, <1>4 DEF HubInv, SenderShape, WritesStayInside, Held

LEMMA HubStepsSafe == ASSUME HubInv, HubAction PROVE HubInv'
  <1> USE DEF HubInv
  <1>0. \A s \in Senders : Held(sender[s])
    BY HeldByAll
  <1>1. ASSUME NEW s \in Senders, RLock(s) PROVE HubInv'
    <2>1. Held(Writing(sender[s]))
      BY <1>0, <1>1 DEF RLock, HubTypeOK, Held, Sender, Writing
    <2>2. Held(UnlockedIfDone(Writing(sender[s])))
      BY <2>1, UnlockedIsHeld
    <2> QED BY <1>1, <2>2, SenderReplaced DEF RLock, HubTypeOK
  <1>2. ASSUME NEW s \in Senders, Written(s) PROVE HubInv'
    <2>1. Held(Done(sender[s]))
      BY <1>0 DEF Held, Sender, Done
    <2>2. Held(UnlockedIfDone(Done(sender[s])))
      BY <2>1, UnlockedIsHeld
    <2>3. sender[s].writing # None /\ sender[s].notice \in Notices
      BY <1>0, <1>2 DEF Written, Held
    <2> QED BY <1>2, <2>2, <2>3, SenderReplaced DEF Written, HubTypeOK
  <1>3. ASSUME NEW s \in Senders, NEW c \in Conns, WriteMessage(s, c) PROVE HubInv'
    <2> DEFINE r == [sender[s] EXCEPT !.writing = c, !.todo = sender[s].todo \ {c}]
    <2>1. Held(r)
      BY <1>0, <1>3 DEF WriteMessage, Held, Sender
    <2>2. sender' = [sender EXCEPT ![s] = r]
      BY <1>3 DEF WriteMessage, HubTypeOK
    <2> HIDE DEF r
    <2> QED BY <1>3, <2>1, <2>2, SenderReplaced DEF WriteMessage, HubTypeOK
  <1>4. ASSUME NEW s \in Senders, NEW t \in Senders, NEW c \in Conns, Collide(s, t, c)
        PROVE HubInv'
    <2>0. s # t
      BY <1>4, NoneIsNothing DEF Collide
    <2> DEFINE rs(panics) == IF panics THEN NotSending
                             ELSE UnlockedIfDone(Skipping(sender[s], c))
               rt(spoilt) == IF spoilt THEN UnlockedIfDone(Done(sender[t]))
                             ELSE sender[t]
    <2>1. PICK panics \in BOOLEAN, spoilt \in BOOLEAN :
             sender' = [sender EXCEPT ![s] = rs(panics), ![t] = rt(spoilt)]
      BY <1>4, <2>0 DEF Collide, HubTypeOK
    <2>2. Held(Skipping(sender[s], c)) /\ Held(Done(sender[t]))
      BY <1>0 DEF Held, Sender, Skipping, Done
    <2>3. Held(rs(panics)) /\ Held(rt(spoilt))
      BY <1>0, <2>2, NothingHeld, UnlockedIsHeld
    <2> HIDE DEF rs, rt
    <2>4. /\ sender' \in [Senders -> Sender]
          /\ \A u \in Senders : sender'[u] \in {rs(panics), rt(spoilt), sender[u]}
      BY <2>1, <2>3 DEF HubTypeOK, Held
    <2>5. \A u \in Senders : Held(sender'[u])
      BY <1>0, <2>3, <2>4
    <2>6. UNCHANGED <<conns, handler, line, wire, faults>>
      BY <1>4 DEF Collide
    <2>7. HubTypeOK' /\ \A u \in Senders : Held(sender[u])'
      BY <2>4, <2>5, <2>6 DEF HubTypeOK, Held
    <2> QED BY <2>7 DEF SenderShape, WritesStayInside, Held
  <1>5. ASSUME NEW c \in Conns,
               Register(c) \/ ReadMessageFails(c) \/ Unregister(c) \/ LineStep(c) \/ Upgrade(c)
                 \/ (Cut(c) /\ faults' = faults)
        PROVE HubInv'
    <2>1. HubTypeOK'
      BY <1>5, FaultsAreNatural
         DEF HubTypeOK, HandlerAt, Register, ReadMessageFails, Unregister, LineStep, Stall,
             Resume, Break, GiveUp, Disturb, Cut, Upgrade
    <2>2. sender' = sender
      BY <1>5 DEF Register, ReadMessageFails, Unregister, LineStep, Stall,
                  Resume, Break, GiveUp, Disturb, Cut, Upgrade
    <2>3. conns \subseteq conns' \/ \A s \in Senders : sender[s].pc # "write"
      BY <1>5 DEF Register, ReadMessageFails, Unregister, LineStep, Stall,
                  Resume, Break, GiveUp, Disturb, Cut, Upgrade, ReadLocked
    <2>4. \A s \in Senders : Held(sender[s])'
      BY <1>0, <2>2, <2>3 DEF Held
    <2> QED BY <2>1, <2>4 DEF SenderShape, WritesStayInside, Held
  <1> QED BY <1>1, <1>2, <1>3, <1>4, <1>5 DEF HubAction, SenderStep, HandlerStep

-----------------------------------------------------------------------------
(* Requests. *)

CallsTyped == calls \in [CallIds -> Call] /\ sent \in 0..MaxCalls

LEMMA SendTyped ==
    ASSUME CallsTyped, NEW op \in {"list", "mark", "mark_all"}, NEW i \in Notices \cup {None},
           Send(op, i, None)
    PROVE  CallsTyped'
  <1>1. NewCall(op, i, None) \in Call
    BY DEF NewCall, NoCall, Call, Stage
  <1>2. sent' \in 0..MaxCalls
    BY BoundsAreNatural DEF CallsTyped, Send, SendFrom
  <1> QED BY <1>1, <1>2 DEF CallsTyped, Send, SendFrom

LEMMA SettleTyped == ASSUME CallsTyped, NEW n \in CallIds, Settle(n) PROVE CallsTyped'
  <1>1. NoCall \in Call
    BY DEF NoCall, Call, Stage
  <1> QED BY <1>1 DEF CallsTyped, Settle

(* A request at another stage, or with another reply. *)
Staged(c, stage, reply) == [c EXCEPT !.stage = stage, !.reply = reply]

LEMMA StagedTyped ==
    ASSUME NEW c \in Call, NEW stage \in Stage,
           NEW reply \in SUBSET ({"unread", "read"} \X Notices)
    PROVE  Staged(c, stage, reply) \in Call
  BY DEF Staged, Call

LEMMA AnswerTyped ==
    ASSUME CallsTyped, NEW n \in CallIds, NEW reply \in SUBSET ({"unread", "read"} \X Notices),
           Answer(n, reply)
    PROVE  CallsTyped'
  <1>1. calls' = [calls EXCEPT ![n] = Staged(calls[n], "answered", reply)]
    BY DEF Answer, CallsTyped, Staged
  <1>2. Staged(calls[n], "answered", reply) \in Call
    BY StagedTyped DEF CallsTyped, Stage
  <1> QED BY <1>1, <1>2 DEF CallsTyped, Answer

LEMMA FailTyped ==
    ASSUME CallsTyped, NEW n \in CallIds, Fail(n)
    PROVE  CallsTyped'
  <1>1. calls' = [calls EXCEPT ![n] = Staged(calls[n], "failed", {})]
    BY DEF Fail, CallsTyped, Staged
  <1>2. Staged(calls[n], "failed", {}) \in Call
    BY StagedTyped DEF CallsTyped, Stage
  <1> QED BY <1>1, <1>2 DEF CallsTyped, Fail

LEMMA AbandonedTyped ==
    ASSUME CallsTyped, NEW ops, Abandoned(ops)
    PROVE  CallsTyped'
  <1>1. NoCall \in Call
    BY DEF NoCall, Call, Stage
  <1>2. \A n \in CallIds : [calls[n] EXCEPT !.live = FALSE] \in Call
    BY DEF CallsTyped, Call
  <1>3. \A n \in CallIds : Without(ops)[n] \in Call
    BY <1>1, <1>2 DEF Without, CallsTyped
  <1> QED BY <1>3 DEF CallsTyped, Abandoned, Without

-----------------------------------------------------------------------------
(* What a step of the client or the server leaves of the hub. *)
LEMMA HubUntouched == ASSUME HubInv, UNCHANGED hub PROVE HubInv'
  BY DEF HubInv, HubTypeOK, SenderShape, WritesStayInside, hub

LEMMA HubSurvives ==
    ASSUME TypeOK, HubInv,
           \/ HubStep \/ Mount \/ Unmount
           \/ \E i \in Notices : Arrive(i)
           \/ \E s \in Senders, i \in Notices : Create(s, i)
           \/ \E n \in CallIds : CallFails(n)
    PROVE  HubInv'
  <1> USE DEF HubInv
  <1>1. CASE HubStep
    BY <1>1, HubStepsSafe DEF HubStep, HubAction, Connect
  <1>2. CASE Mount
    BY <1>2, HubStepsSafe, HubUntouched, PageConnects DEF Mount, HubAction
  <1>3. CASE Unmount
    BY <1>3, HubStepsSafe, HubUntouched, PageConnects DEF Unmount, HubAction
  <1>4. ASSUME NEW i \in Notices, Arrive(i) PROVE HubInv'
    BY <1>4 DEF Arrive, HubTypeOK, SenderShape, WritesStayInside
  <1>5. ASSUME NEW s \in Senders, NEW i \in Notices, Create(s, i) PROVE HubInv'
    <2> DEFINE r == [NotSending EXCEPT !.pc = "rlock", !.notice = i]
    <2>1. Held(r)
      BY DEF Held, NotSending, Sender
    <2> HIDE DEF r
    <2>2. sender' = [sender EXCEPT ![s] = r]
      BY <1>5 DEF Create, r
    <2> QED BY <1>5, <2>1, <2>2, SenderReplaced DEF Create, HubTypeOK
  <1>6. ASSUME NEW n \in CallIds, CallFails(n) PROVE HubInv'
    BY <1>6, FaultsAreNatural
       DEF CallFails, Fail, HubTypeOK, SenderShape, WritesStayInside
  <1> QED BY <1>1, <1>2, <1>3, <1>4, <1>5, <1>6

TypeInv == TypeOK /\ HubInv

LEMMA TypesStart == Init => TypeInv
  <1> SUFFICES ASSUME Init PROVE TypeInv
    OBVIOUS
  <1>1. HubInv
    BY PageConnects, FaultsAreNatural
       DEF Init, HubInit, HubInv, HubTypeOK, SenderShape, WritesStayInside, NotSending, Sender,
           HandlerAt
  <1>2. NoCall \in Call
    BY DEF NoCall, Call, Stage
  <1>3. calls \in [CallIds -> Call] /\ sent \in 0..MaxCalls
    BY <1>2, BoundsAreNatural DEF Init
  <1>4. rows \in Copy /\ items \in Copy
    BY DEF Init, Copy, Empty
  <1>5. {mounted, loading, refreshing, doubt} \subseteq BOOLEAN
    BY DEF Init
  <1>6. open \in BOOLEAN
    BY DEF Init, Phone
  <1>7. client \in {"dropdown", "screen"} /\ swept \subseteq Notices
    BY DEF Init
  <1> QED BY <1>1, <1>3, <1>4, <1>5, <1>6, <1>7 DEF TypeInv, TypeOK, HubInv

LEMMA TypesStay == TypeInv /\ [Next]_vars => TypeInv'
  <1> SUFFICES ASSUME TypeInv, [Next]_vars PROVE TypeInv'
    OBVIOUS
  <1> USE DEF TypeInv
  <1>0. HubInv /\ TypeOK /\ CallsTyped
    BY DEF TypeOK, CallsTyped
  <1>1. CASE HubStep
    <2>1. HubInv'
      BY <1>0, <1>1, HubSurvives
    <2>2. doubt' \in BOOLEAN
      BY <1>1 DEF HubStep, TypeOK
    <2> QED BY <1>1, <2>1, <2>2 DEF HubStep, TypeOK, HubInv, view, requests, CallIds
  <1>2. CASE Mount
    <2>1. HubInv'
      BY <1>0, <1>2, HubSurvives
    <2>2. CallsTyped'
      BY <1>0, <1>2, SendTyped DEF Mount, ListSent
    <2>3. doubt' \in BOOLEAN
      BY <1>2 DEF Mount, ListSent
    <2> QED BY <1>2, <2>1, <2>2, <2>3 DEF Mount, TypeOK, HubInv, CallsTyped, Copy, Empty, Phone
  <1>3. CASE Unmount
    <2>1. HubInv'
      BY <1>0, <1>3, HubSurvives
    <2>2. CallsTyped'
      BY <1>0, <1>3, AbandonedTyped DEF Unmount
    <2> QED BY <1>3, <2>1, <2>2 DEF Unmount, TypeOK, HubInv, CallsTyped, Copy, Empty
  <1>4. CASE OnOpen \/ Focus \/ Pull \/ OnMarkAll \/ \E i \in Notices : PressItem(i)
    <2>1. HubInv'
      BY <1>4, HubUntouched DEF OnOpen, Focus, Pull, OnMarkAll, PressItem
    <2>2. CallsTyped'
      BY <1>0, <1>4, SendTyped
         DEF OnOpen, Focus, Pull, OnMarkAll, PressItem, ListSent, MarkSent, requests, CallsTyped
    <2>3. {mounted, open, loading, refreshing, doubt}' \subseteq BOOLEAN
      BY <1>4 DEF OnOpen, Focus, Pull, OnMarkAll, PressItem, ListSent, MarkSent, TypeOK, view
    <2> QED BY <1>4, <2>1, <2>2, <2>3
            DEF OnOpen, Focus, Pull, OnMarkAll, PressItem, TypeOK, HubInv, CallsTyped, view
  <1>5. ASSUME NEW i \in Notices, Arrive(i) \/ OtherPageMarks(i) PROVE TypeInv'
    <2>1. HubInv'
      BY <1>0, <1>5, HubSurvives, HubUntouched DEF OtherPageMarks
    <2> QED BY <1>5, <2>1
            DEF Arrive, OtherPageMarks, TypeOK, HubInv, Copy, view, requests, CallIds
  <1>6. ASSUME NEW s \in Senders, NEW i \in Notices, Create(s, i) PROVE TypeInv'
    <2>1. HubInv'
      BY <1>0, <1>6, HubSurvives
    <2> QED BY <1>6, <2>1 DEF Create, TypeOK, HubInv, Copy, view, requests, CallIds
  <1>7. ASSUME NEW n \in CallIds, ServerStep(n) PROVE TypeInv'
    <2>1. HubInv'
      BY <1>7, HubUntouched DEF ServerStep, ServeList, ServeMark, ServeMarkAll
    <2>2. CallsTyped'
      BY <1>0, <1>7, AnswerTyped DEF ServerStep, ServeList, ServeMark, ServeMarkAll
    <2> QED BY <1>7, <2>1, <2>2
            DEF ServerStep, ServeList, ServeMark, ServeMarkAll, TypeOK, HubInv, CallsTyped,
                Copy, view
  <1>8. ASSUME NEW n \in CallIds, ClientStep(n) PROVE TypeInv'
    <2>1. HubInv'
      BY <1>8, HubUntouched
         DEF ClientStep, ListAnswered, ListFailed, MarkSettled, MarkAllAnswered, MarkAllFailed,
             NobodyHears
    <2>2. CallsTyped'
      BY <1>0, <1>8, SettleTyped
         DEF ClientStep, ListAnswered, ListFailed, MarkSettled, MarkAllAnswered, MarkAllFailed,
             NobodyHears
    <2>3. {mounted, open, loading, refreshing, doubt}' \subseteq BOOLEAN
      BY <1>8 DEF ClientStep, ListAnswered, ListFailed, MarkSettled, MarkAllAnswered,
                  MarkAllFailed, NobodyHears, TypeOK, view
    <2> QED BY <1>8, <2>1, <2>2, <2>3
            DEF ClientStep, ListAnswered, ListFailed, MarkSettled, MarkAllAnswered,
                MarkAllFailed, NobodyHears, TypeOK, HubInv, CallsTyped, Copy, Empty, view
  <1>9. ASSUME NEW n \in CallIds, CallFails(n) PROVE TypeInv'
    <2>1. HubInv'
      BY <1>0, <1>9, HubSurvives
    <2>2. CallsTyped'
      BY <1>0, <1>9, FailTyped DEF CallFails
    <2> QED BY <1>9, <2>1, <2>2 DEF CallFails, TypeOK, HubInv, CallsTyped, view
  <1>10. CASE UNCHANGED vars
    BY <1>10 DEF vars, TypeOK, HubInv, HubTypeOK, SenderShape, WritesStayInside, hub, view,
                 requests, CallIds
  <1> QED BY <1>1, <1>2, <1>3, <1>4, <1>5, <1>6, <1>7, <1>8, <1>9, <1>10 DEF Next

(* Every reachable state of the hub, the client, its requests and the table
   is type correct.                                                        *)
THEOREM FeedTyped == Spec => []TypeOK
  BY TypesStart, TypesStay, PTL DEF Spec, TypeInv

(* SendToUser only ever writes to a connection that its handler has not
   unregistered and closed.                                                *)
THEOREM WritesInside == Spec => []WritesStayInside
  BY TypesStart, TypesStay, PTL DEF Spec, TypeInv, HubInv

-----------------------------------------------------------------------------
(* What is shown as read has been read. *)

(* Whatever is being sent, on the wire, in an answer or shown has a row. *)
OnTheWay ==
    /\ \A i \in wire : rows[i] # "absent"
    /\ \A s \in Senders : sender[s].notice # None => rows[sender[s].notice] # "absent"
HaveRows ==
    /\ OnTheWay
    /\ \A i \in Notices : items[i] # "absent" => rows[i] # "absent"

(* What came back from the server still holds of its table: nothing there
   becomes unread again, and what is created behind a mark-all is swept.   *)
CallHolds(c) ==
    /\ c.op = "none" => ~c.live
    /\ \A i \in Notices : <<"unread", i>> \in c.reply => rows[i] # "absent"
    /\ \A i \in Notices : <<"read", i>> \in c.reply => rows[i] = "read"
    /\ c.op = "mark" => c.about \in Notices
    /\ c.op = "mark" /\ c.stage = "answered" => rows[c.about] = "read"
    /\ c.op = "mark_all" /\ c.stage = "answered" /\ c.live =>
          \A i \in Notices : rows[i] = "unread" => i \in swept
    /\ ~mounted => c.op # "list" /\ ~c.live

RepliesHold == \A n \in CallIds : CallHolds(calls[n])

HiddenInv == HaveRows /\ RepliesHold /\ UnreadIsNeverHidden

LEMMA HubCarries ==
    ASSUME HubInv, HubAction
    PROVE  /\ \A s \in Senders : sender'[s].notice \in {sender[s].notice, None}
           /\ \A i \in wire' : i \in wire \/ \E s \in Senders : sender[s].notice = i /\ i # None
  <1> DEFINE Carried == /\ \A s \in Senders : sender'[s].notice \in {sender[s].notice, None}
                        /\ \A i \in wire' : \/ i \in wire
                                             \/ \E s \in Senders : sender[s].notice = i /\ i # None
  <1> USE DEF HubInv
  <1>0. sender \in [Senders -> Sender]
    BY DEF HubTypeOK
  <1>1. ASSUME NEW s \in Senders, RLock(s) PROVE Carried
    <2>1. UnlockedIfDone(Writing(sender[s])).notice \in {sender[s].notice, None}
      BY <1>0 DEF UnlockedIfDone, Writing, NotSending, Sender
    <2> QED BY <1>0, <1>1, <2>1 DEF RLock
  <1>2. ASSUME NEW s \in Senders, Written(s) PROVE Carried
    <2>1. UnlockedIfDone(Done(sender[s])).notice \in {sender[s].notice, None}
      BY <1>0 DEF UnlockedIfDone, Done, NotSending, Sender
    <2>2. sender[s].notice # None
      BY <1>2, NoneIsNothing DEF Written, SenderShape
    <2> QED BY <1>0, <1>2, <2>1, <2>2 DEF Written
  <1>3. ASSUME NEW s \in Senders, NEW c \in Conns, WriteMessage(s, c) PROVE Carried
    BY <1>0, <1>3 DEF WriteMessage, Sender
  <1>4. ASSUME NEW s \in Senders, NEW t \in Senders, NEW c \in Conns, Collide(s, t, c)
        PROVE Carried
    <2>1. /\ UnlockedIfDone(Skipping(sender[s], c)).notice \in {sender[s].notice, None}
          /\ UnlockedIfDone(Done(sender[t])).notice \in {sender[t].notice, None}
          /\ NotSending.notice = None
      BY <1>0 DEF UnlockedIfDone, Skipping, Done, NotSending, Sender
    <2>2. s # t
      BY <1>4, NoneIsNothing DEF Collide
    <2>3. wire' = wire
      BY <1>4 DEF Collide
    <2>4. \A u \in Senders : sender'[u].notice \in {sender[u].notice, None}
      BY <1>0, <1>4, <2>1, <2>2 DEF Collide
    <2> QED BY <2>3, <2>4
  <1>5. ASSUME NEW c \in Conns,
               Register(c) \/ ReadMessageFails(c) \/ Unregister(c) \/ LineStep(c) \/ Upgrade(c)
                 \/ (Cut(c) /\ faults' = faults)
        PROVE Carried
    BY <1>5 DEF Register, ReadMessageFails, Unregister, LineStep, Stall,
                Resume, Break, GiveUp, Disturb, Cut, Upgrade
  <1> QED BY <1>1, <1>2, <1>3, <1>4, <1>5 DEF HubAction, SenderStep, HandlerStep

(* The table only ever moves on. *)
RowsMoveOn ==
    \A i \in Notices : /\ rows[i] # "absent" => rows'[i] # "absent"
                       /\ rows[i] = "read" => rows'[i] = "read"

LEMMA WayHolds ==
    ASSUME HubInv, OnTheWay, HubAction, rows' = rows
    PROVE  OnTheWay'
  BY HubCarries DEF OnTheWay

LEMMA WayKept ==
    ASSUME HubInv, OnTheWay, RowsMoveOn, UNCHANGED <<wire, sender>>
    PROVE  OnTheWay'
  BY DEF OnTheWay, RowsMoveOn, HubInv, HubTypeOK, SenderShape, Sender

(* A step that leaves the requests alone keeps what they brought, if all
   that it creates behind a mark-all is swept.                             *)
LEMMA RepliesKept ==
    ASSUME RepliesHold, RowsMoveOn, calls' = calls, mounted' = mounted,
           swept \subseteq swept',
           \A n \in CallIds : calls[n].op = "mark_all" /\ calls[n].live =>
               \A i \in Notices : rows'[i] = "unread" => rows[i] = "unread" \/ i \in swept'
    PROVE  RepliesHold'
  BY DEF RepliesHold, CallHolds, RowsMoveOn

(* As does one that replaces a request by one that holds as well. *)
LEMMA ReplyReplaced ==
    ASSUME RepliesHold, CallsTyped, NEW n \in CallIds, NEW r, CallHolds(r)',
           calls' = [calls EXCEPT ![n] = r],
           UNCHANGED <<rows, mounted, swept>>
    PROVE  RepliesHold'
  <1>1. \A m \in CallIds : calls'[m] = r \/ calls'[m] = calls[m]
    BY DEF CallsTyped
  <1> QED BY <1>1 DEF RepliesHold, CallHolds

(* A request that is sent claims nothing yet. *)
LEMMA SendHolds ==
    ASSUME RepliesHold, CallsTyped, NEW op \in {"list", "mark", "mark_all"},
           NEW i \in Notices \cup {None}, op = "mark" => i \in Notices,
           Send(op, i, None), mounted', UNCHANGED <<rows, swept>>,
           mounted \/ \A n \in CallIds : ~calls[n].live
    PROVE  RepliesHold'
  <1>1. PICK n \in CallIds : calls' = [calls EXCEPT ![n] = NewCall(op, i, None)]
    BY DEF Send, SendFrom
  <1>2. PICK r : r = NewCall(op, i, None)
    OBVIOUS
  <1>3. CallHolds(r)'
    BY <1>2 DEF NewCall, NoCall, CallHolds
  <1>4. \A m \in CallIds : calls'[m] = r \/ calls'[m] = calls[m]
    BY <1>1, <1>2 DEF CallsTyped
  <1>5. \A m \in CallIds : CallHolds(calls[m])
    BY DEF RepliesHold
  <1>6. \A m \in CallIds : calls'[m] = calls[m] => CallHolds(calls[m])'
    BY <1>5 DEF CallHolds
  <1> QED BY <1>3, <1>4, <1>6 DEF RepliesHold, CallHolds

LEMMA SettleHolds ==
    ASSUME RepliesHold, CallsTyped, NEW n \in CallIds, Settle(n),
           UNCHANGED <<rows, mounted, swept>>
    PROVE  RepliesHold'
  <1>1. CallHolds(NoCall)'
    BY DEF CallHolds, NoCall
  <1>2. PICK r : r = NoCall
    OBVIOUS
  <1> QED BY <1>1, <1>2, ReplyReplaced DEF Settle, CallHolds

LEMMA HiddenStart == Init => HiddenInv
  BY DEF Init, HubInit, NotSending, HiddenInv, HaveRows, OnTheWay, RepliesHold, CallHolds,
         UnreadIsNeverHidden, Empty, NoCall

LEMMA HiddenStays == TypeInv /\ HiddenInv /\ [Next]_vars => HiddenInv'
  <1> SUFFICES ASSUME TypeInv, HiddenInv, [Next]_vars PROVE HiddenInv'
    OBVIOUS
  <1>0. /\ HubInv /\ TypeOK /\ CallsTyped
        /\ HaveRows /\ OnTheWay /\ RepliesHold /\ UnreadIsNeverHidden
    BY DEF TypeInv, TypeOK, CallsTyped, HiddenInv, HaveRows
  <1>1. CASE HubStep
    <2>1. OnTheWay'
      BY <1>0, <1>1, WayHolds DEF HubStep, HubAction, Connect
    <2>2. RepliesHold'
      BY <1>0, <1>1, RepliesKept DEF HubStep, RowsMoveOn, view, requests
    <2> QED BY <1>0, <1>1, <2>1, <2>2
            DEF HiddenInv, HaveRows, UnreadIsNeverHidden, HubStep, view
  <1>2. CASE Mount
    <2>1. OnTheWay'
      <3>1. CASE Dropdown
        BY <1>0, <1>2, <3>1, WayHolds, PageConnects DEF Mount, HubAction, Dropdown, Phone
      <3>2. CASE Phone
        BY <1>0, <1>2, <3>2, WayKept DEF Mount, Dropdown, Phone, RowsMoveOn, hub
      <3> QED BY <1>2, <3>1, <3>2 DEF Mount
    <2>2. \A n \in CallIds : ~calls[n].live
      BY <1>0, <1>2 DEF Mount, RepliesHold, CallHolds
    <2>3. \A n \in CallIds : calls[n].op = "mark_all" => ~calls[n].live
      BY <2>2
    <2>4. RepliesHold'
      <3>1. PICK n \in CallIds : calls' = [calls EXCEPT ![n] = NewCall("list", None, None)]
        BY <1>2 DEF Mount, ListSent, Send, SendFrom
      <3>2. PICK r : r = NewCall("list", None, None)
        OBVIOUS
      <3>3. CallHolds(r)'
        BY <1>2, <3>2 DEF Mount, NewCall, NoCall, CallHolds
      <3>4. \A m \in CallIds : calls'[m] = r \/ calls'[m] = calls[m]
        BY <1>0, <3>1, <3>2 DEF CallsTyped
      <3>5. \A m \in CallIds : calls'[m] = calls[m] => CallHolds(calls[m])'
        BY <1>0, <1>2, <2>2 DEF RepliesHold, CallHolds, Mount
      <3> QED BY <3>3, <3>4, <3>5 DEF RepliesHold, CallHolds
    <2> QED BY <1>0, <1>2, <2>1, <2>4
            DEF HiddenInv, HaveRows, UnreadIsNeverHidden, Mount, Empty
  <1>3. CASE Unmount
    <2>1. OnTheWay'
      <3>1. CASE line[Page] \in {"open", "stalled"}
        BY <1>0, <1>3, <3>1, WayHolds, PageConnects DEF Unmount, HubAction
      <3>2. CASE line[Page] \notin {"open", "stalled"}
        BY <1>0, <1>3, <3>2, WayKept DEF Unmount, RowsMoveOn, hub
      <3> QED BY <3>1, <3>2
    <2>2. \A n \in CallIds : calls'[n] \in {NoCall, [calls[n] EXCEPT !.live = FALSE]}
                            /\ calls'[n].op # "list"
      BY <1>0, <1>3 DEF Unmount, Abandoned, Without, RepliesHold, CallHolds, CallsTyped, Call,
                        NoCall
    <2>3. ASSUME NEW m \in CallIds PROVE CallHolds(calls[m])'
      <3>1. UNCHANGED rows
        BY <1>3 DEF Unmount
      <3>2. CallHolds(calls[m]) /\ calls[m] \in Call
        BY <1>0 DEF RepliesHold, CallsTyped
      <3>3. CASE calls'[m] = NoCall
        BY <3>3 DEF CallHolds, NoCall
      <3>4. CASE calls'[m] = [calls[m] EXCEPT !.live = FALSE]
        <4>1. PICK r : r = calls'[m]
          OBVIOUS
        <4>2. /\ r.op = calls[m].op /\ r.about = calls[m].about /\ r.live = FALSE
              /\ r.reply = calls[m].reply /\ r.stage = calls[m].stage /\ r.op # "list"
          BY <2>2, <3>2, <3>4, <4>1 DEF Call
        <4>3. CallHolds(r)'
          BY <3>1, <3>2, <4>2 DEF CallHolds
        <4> QED BY <4>1, <4>3 DEF CallHolds
      <3> QED BY <2>2, <3>3, <3>4
    <2>4. RepliesHold'
      BY <2>3 DEF RepliesHold
    <2> QED BY <1>0, <1>3, <2>1, <2>4
            DEF HiddenInv, HaveRows, UnreadIsNeverHidden, Unmount, Empty
  <1>4. CASE OnOpen \/ Focus \/ Pull \/ OnMarkAll \/ \E i \in Notices : PressItem(i)
    <2>0. UNCHANGED <<hub, rows, items, swept, mounted>> /\ mounted
      BY <1>4 DEF OnOpen, Focus, Pull, OnMarkAll, PressItem, Shown, view
    <2>1. OnTheWay'
      BY <1>0, <2>0, WayKept DEF RowsMoveOn, hub
    <2>2. CASE calls' = calls
      <3>1. RepliesHold'
        BY <1>0, <2>0, <2>2, RepliesKept DEF RowsMoveOn
      <3> QED BY <1>0, <2>0, <2>1, <3>1 DEF HiddenInv, HaveRows, UnreadIsNeverHidden
    <2>3. ASSUME NEW op \in {"list", "mark", "mark_all"}, NEW i \in Notices \cup {None},
                 op = "mark" => i \in Notices, Send(op, i, None)
          PROVE  HiddenInv'
      <3>1. RepliesHold'
        BY <1>0, <2>0, <2>3, SendHolds
      <3> QED BY <1>0, <2>0, <2>1, <3>1 DEF HiddenInv, HaveRows, UnreadIsNeverHidden
    <2>4. \/ calls' = calls
          \/ Send("list", None, None) \/ Send("mark_all", None, None)
          \/ \E i \in Notices : Send("mark", i, None)
      BY <1>4 DEF OnOpen, Focus, Pull, OnMarkAll, PressItem, ListSent, MarkSent, requests
    <2> QED BY <2>2, <2>3, <2>4
  <1>5. ASSUME NEW i \in Notices, Arrive(i) PROVE HiddenInv'
    <2>1. RepliesHold'
      BY <1>0, <1>5, RepliesKept DEF Arrive, RowsMoveOn, view, requests
    <2> QED BY <1>0, <1>5, <2>1
            DEF Arrive, HiddenInv, HaveRows, OnTheWay, UnreadIsNeverHidden, TypeOK, Copy, view
  <1>6. ASSUME NEW i \in Notices, OtherPageMarks(i) PROVE HiddenInv'
    <2>0. RowsMoveOn
      BY <1>0, <1>6 DEF OtherPageMarks, RowsMoveOn, TypeOK, Copy
    <2>1. RepliesHold'
      BY <1>0, <1>6, <2>0, RepliesKept DEF OtherPageMarks, TypeOK, Copy, view, requests
    <2>2. OnTheWay'
      BY <1>0, <1>6, <2>0, WayKept DEF OtherPageMarks, hub
    <2> QED BY <1>0, <1>6, <2>0, <2>1, <2>2
            DEF OtherPageMarks, HiddenInv, HaveRows, UnreadIsNeverHidden, RowsMoveOn, view
  <1>7. ASSUME NEW s \in Senders, NEW i \in Notices, Create(s, i) PROVE HiddenInv'
    <2>0. RowsMoveOn
      BY <1>0, <1>7 DEF Create, RowsMoveOn, TypeOK, Copy
    <2>1. RepliesHold'
      <3>1. \A n \in CallIds : calls[n].op = "mark_all" /\ calls[n].live =>
               \A j \in Notices : rows'[j] = "unread" => rows[j] = "unread" \/ j \in swept'
        BY <1>0, <1>7 DEF Create, Sweeping, TypeOK, Copy
      <3>2. swept \subseteq swept'
        BY <1>7 DEF Create
      <3> QED BY <1>0, <1>7, <2>0, <3>1, <3>2, RepliesKept DEF Create, view, requests
    <2>2. OnTheWay'
      <3>1. rows'[i] # "absent"
        BY <1>0, <1>7 DEF Create, TypeOK, Copy
      <3>2. \A t \in Senders : sender'[t].notice \in {sender[t].notice, i}
        BY <1>0, <1>7 DEF Create, NotSending, HubInv, HubTypeOK
      <3>3. \A t \in Senders : sender[t].notice \in Notices \cup {None}
        BY <1>0 DEF HubInv, HubTypeOK, Sender
      <3>4. \A j \in wire' : rows'[j] # "absent"
        BY <1>0, <1>7, <2>0 DEF OnTheWay, RowsMoveOn, Create, HubInv, HubTypeOK
      <3> QED BY <1>0, <2>0, <3>1, <3>2, <3>3, <3>4 DEF OnTheWay, RowsMoveOn
    <2> QED BY <1>0, <1>7, <2>0, <2>1, <2>2
            DEF Create, HiddenInv, HaveRows, UnreadIsNeverHidden, RowsMoveOn, view
  <1>8. ASSUME NEW n \in CallIds, ServerStep(n) PROVE HiddenInv'
    <2>0. RowsMoveOn /\ UNCHANGED <<hub, view, items, swept>>
      BY <1>0, <1>8
         DEF ServerStep, ServeList, ServeMark, ServeMarkAll, RowsMoveOn, TypeOK, Copy
    <2>1. PICK r : r = calls'[n]
      OBVIOUS
    <2>2. /\ calls' = [calls EXCEPT ![n] = r]
          /\ r.op = calls[n].op /\ r.about = calls[n].about /\ r.live = calls[n].live
          /\ r.op # "none"
      BY <1>0, <1>8, <2>1 DEF ServerStep, ServeList, ServeMark, ServeMarkAll, Answer,
                              CallsTyped, Call
    <2>3. \A i \in Notices : /\ <<"unread", i>> \in r.reply => rows'[i] # "absent"
                             /\ <<"read", i>> \in r.reply => rows'[i] = "read"
      <3>1. CASE ServeList(n)
        <4>1. r.reply = {q \in {"unread", "read"} \X Notices : rows[q[2]] = q[1]}
          BY <1>0, <2>1, <3>1 DEF ServeList, Answer, CallsTyped, Call
        <4> QED BY <3>1, <4>1 DEF ServeList
      <3>2. CASE ServeMark(n) \/ ServeMarkAll(n)
        <4>1. r.reply = {}
          BY <1>0, <2>1, <3>2 DEF ServeMark, ServeMarkAll, Answer, CallsTyped, Call
        <4> QED BY <4>1
      <3> QED BY <1>8, <3>1, <3>2 DEF ServerStep
    <2>4. r.op = "mark" => r.about \in Notices /\ rows'[r.about] = "read"
      BY <1>0, <1>8, <2>2 DEF ServerStep, ServeList, ServeMark, ServeMarkAll, RepliesHold,
                              CallHolds, TypeOK, Copy
    <2>5. r.op = "mark_all" => \A i \in Notices : rows'[i] # "unread"
      BY <1>0, <1>8, <2>2 DEF ServerStep, ServeList, ServeMark, ServeMarkAll
    <2>6. CallHolds(calls[n])
      BY <1>0 DEF RepliesHold
    <2>7. CallHolds(r)'
      BY <2>0, <2>2, <2>3, <2>4, <2>5, <2>6 DEF CallHolds, view
    <2>8. \A m \in CallIds : calls'[m] = r \/ calls'[m] = calls[m]
      BY <1>0, <2>2 DEF CallsTyped
    <2>9. \A i \in Notices : rows'[i] = "unread" => rows[i] = "unread"
      BY <1>0, <1>8
         DEF ServerStep, ServeList, ServeMark, ServeMarkAll, TypeOK, Copy
    <2>10. \A m \in CallIds : calls'[m] = calls[m] => CallHolds(calls[m])'
      BY <1>0, <2>0, <2>9 DEF RepliesHold, CallHolds, RowsMoveOn, view
    <2>11. RepliesHold'
      BY <2>7, <2>8, <2>10 DEF RepliesHold, CallHolds
    <2>12. OnTheWay'
      BY <1>0, <2>0, WayKept DEF hub
    <2> QED BY <1>0, <2>0, <2>11, <2>12
            DEF HiddenInv, HaveRows, UnreadIsNeverHidden, RowsMoveOn, view
  <1>9. ASSUME NEW n \in CallIds, ClientStep(n) PROVE HiddenInv'
    <2>0. UNCHANGED <<hub, rows, mounted, swept>> /\ Settle(n)
      BY <1>9 DEF ClientStep, ListAnswered, ListFailed, MarkSettled, MarkAllAnswered,
                  MarkAllFailed, NobodyHears, view
    <2>1. RepliesHold'
      BY <1>0, <2>0, SettleHolds
    <2>2. OnTheWay'
      BY <1>0, <2>0, WayKept DEF RowsMoveOn, hub
    <2>3. CallHolds(calls[n])
      BY <1>0 DEF RepliesHold
    <2>4. \A i \in Notices : /\ items'[i] # "absent" => rows[i] # "absent"
                             /\ mounted /\ items'[i] = "read" => (rows[i] = "read" \/ i \in swept)
      <3>1. CASE ListAnswered(n)
        BY <2>3, <3>1 DEF ListAnswered, CallHolds
      <3>2. CASE ListFailed(n)
        BY <3>2 DEF ListFailed, Empty
      <3>3. CASE MarkSettled(n)
        BY <1>0, <2>3, <3>3 DEF MarkSettled, Settling, CallHolds, HaveRows,
                                UnreadIsNeverHidden, TypeOK, Copy
      <3>4. CASE MarkAllAnswered(n)
        BY <1>0, <2>3, <3>4 DEF MarkAllAnswered, Settling, CallHolds, HaveRows,
                                UnreadIsNeverHidden, TypeOK, Copy
      <3>5. CASE MarkAllFailed(n) \/ NobodyHears(n)
        BY <1>0, <3>5 DEF MarkAllFailed, NobodyHears, HaveRows, UnreadIsNeverHidden
      <3> QED BY <1>9, <3>1, <3>2, <3>3, <3>4, <3>5 DEF ClientStep
    <2>5. mounted' = mounted /\ rows' = rows /\ swept' = swept
      BY <2>0
    <2>6. UnreadIsNeverHidden'
      BY <2>4, <2>5 DEF UnreadIsNeverHidden
    <2>7. HaveRows'
      BY <2>2, <2>4, <2>5 DEF HaveRows
    <2> QED BY <2>1, <2>6, <2>7 DEF HiddenInv
  <1>10. ASSUME NEW n \in CallIds, CallFails(n) PROVE HiddenInv'
    <2>0. UNCHANGED <<rows, mounted, swept, wire, sender, items>>
      BY <1>10 DEF CallFails, view
    <2>1. PICK r : r = Staged(calls[n], "failed", {})
      OBVIOUS
    <2>2. calls' = [calls EXCEPT ![n] = r]
      BY <1>0, <1>10, <2>1 DEF CallFails, Fail, Staged, CallsTyped
    <2>3. CallHolds(calls[n])
      BY <1>0 DEF RepliesHold
    <2>4. /\ r.op = calls[n].op /\ r.about = calls[n].about /\ r.live = calls[n].live
          /\ r.reply = {} /\ r.stage = "failed" /\ r.op # "none"
      BY <1>0, <1>10, <2>1 DEF Staged, CallsTyped, Call, CallFails, Fail, Pending
    <2>5. CallHolds(r)'
      BY <2>0, <2>3, <2>4 DEF CallHolds
    <2>6. RepliesHold'
      BY <1>0, <2>0, <2>2, <2>5, ReplyReplaced
    <2>7. OnTheWay'
      BY <1>0, <2>0, WayKept DEF RowsMoveOn
    <2> QED BY <1>0, <2>0, <2>6, <2>7 DEF HiddenInv, HaveRows, UnreadIsNeverHidden
  <1>11. CASE UNCHANGED vars
    <2>1. UNCHANGED <<rows, mounted, swept, wire, sender, items, calls>>
      BY <1>11 DEF vars, hub, view, requests
    <2>2. RepliesHold' /\ OnTheWay'
      BY <1>0, <2>1, RepliesKept, WayKept DEF RowsMoveOn
    <2> QED BY <1>0, <2>1, <2>2 DEF HiddenInv, HaveRows, UnreadIsNeverHidden
  <1> QED BY <1>1, <1>2, <1>3, <1>4, <1>5, <1>6, <1>7, <1>8, <1>9, <1>10, <1>11 DEF Next

(* A notification that is shown as read has been marked read, by whatever
   client, or came behind a mark-all of this one.                          *)
THEOREM NothingHidden == Spec => []UnreadIsNeverHidden
  <1>1. Init => TypeInv /\ HiddenInv
    BY TypesStart, HiddenStart
  <1>2. TypeInv /\ HiddenInv /\ [Next]_vars => TypeInv' /\ HiddenInv'
    BY TypesStay, HiddenStays
  <1>3. HiddenInv => UnreadIsNeverHidden
    BY DEF HiddenInv
  <1> QED BY <1>1, <1>2, <1>3, PTL DEF Spec

-----------------------------------------------------------------------------
(* A client at rest that missed nothing shows the table. *)

(* What a request of a client that is in no doubt may rely on. *)
CallTrue(c) ==
    /\ c.op # "none" => c.live
    /\ c.op = "list" /\ c.stage = "answered" =>
          \A i \in Notices : /\ <<"unread", i>> \in c.reply <=> rows[i] = "unread"
                             /\ <<"read", i>> \in c.reply <=> rows[i] = "read"
    /\ c.op = "mark" => items[c.about] # "absent"
    /\ c.op = "mark_all" => \A i \in Notices : ~Coming(i)
    /\ c.op = "mark_all" /\ c.stage = "answered" => \A i \in Notices : rows[i] # "unread"

(* A mark of i that the client has yet to hear of. *)
Marking(c, i) ==
    /\ c.stage \in {"answered", "failed"}
    /\ (c.op = "mark" /\ c.about = i) \/ c.op = "mark_all"

(* Why the client may show i differently from the table. *)
Excused(i) ==
    \/ items[i] = rows[i]
    \/ items[i] = "absent" /\ rows[i] = "unread" /\ Coming(i)
    \/ /\ items[i] = "unread" /\ rows[i] = "read"
       /\ \E n \in CallIds : Marking(calls[n], i)

CallsTrue == \A n \in CallIds : CallTrue(calls[n])
ListsAlone == Under("list") => ~Under("mark") /\ ~Under("mark_all")
AllExcused == Under("list") \/ \A i \in Notices : Excused(i)
Truth == CallsTrue /\ ListsAlone /\ AllExcused

TruthInv == mounted /\ ~doubt => Truth

LEMMA ComingKept ==
    ASSUME UNCHANGED <<wire, sender>>
    PROVE  \A i \in Notices : Coming(i)' <=> Coming(i)
  BY DEF Coming

(* The hub brings only what was on its way already. *)
LEMMA HubBringsNothingNew ==
    ASSUME HubInv, HubAction, NEW i \in Notices, Coming(i)'
    PROVE  Coming(i)
  <1> USE DEF HubInv
  <1>0. sender \in [Senders -> Sender] /\ i # None
    BY NoneIsNothing DEF HubTypeOK
  <1>1. ASSUME NEW s \in Senders, RLock(s) PROVE Coming(i)
    <2>1. PICK r : r = UnlockedIfDone(Writing(sender[s]))
      OBVIOUS
    <2>2. r = NotSending \/ (r.notice = sender[s].notice /\ r.writing = sender[s].writing)
      BY <1>0, <2>1 DEF UnlockedIfDone, Writing, Sender
    <2>3. \A t \in Senders : sender'[t] = IF t = s THEN r ELSE sender[t]
      BY <1>0, <1>1, <2>1 DEF RLock
    <2>4. sender[s].pc = "rlock" /\ wire' = wire
      BY <1>1 DEF RLock
    <2> QED BY <1>0, <2>2, <2>3, <2>4 DEF Coming, NotSending
  <1>2. ASSUME NEW s \in Senders, Written(s) PROVE Coming(i)
    <2>1. PICK r : r = UnlockedIfDone(Done(sender[s]))
      OBVIOUS
    <2>2. r = NotSending \/ (/\ r.notice = sender[s].notice /\ r.writing = None
                             /\ r.pc = sender[s].pc /\ r.todo = sender[s].todo)
      BY <1>0, <2>1 DEF UnlockedIfDone, Done, Sender
    <2>3. \A t \in Senders : sender'[t] = IF t = s THEN r ELSE sender[t]
      BY <1>0, <1>2, <2>1 DEF Written
    <2>4. \/ wire' = wire
          \/ sender[s].writing = Page /\ wire' = wire \cup {sender[s].notice}
      BY <1>2 DEF Written
    <2>5. None # Page
      BY NoneIsNothing, PageConnects
    <2> QED BY <1>0, <2>2, <2>3, <2>4, <2>5 DEF Coming, NotSending
  <1>3. ASSUME NEW s \in Senders, NEW c \in Conns, WriteMessage(s, c) PROVE Coming(i)
    <2>1. PICK r : r = sender'[s]
      OBVIOUS
    <2>2. /\ r.notice = sender[s].notice /\ r.writing = c /\ c \in sender[s].todo
          /\ r.pc = sender[s].pc /\ r.todo = sender[s].todo \ {c}
      BY <1>0, <1>3, <2>1 DEF WriteMessage, Sender
    <2>3. \A t \in Senders : sender'[t] = IF t = s THEN r ELSE sender[t]
      BY <1>0, <1>3, <2>1 DEF WriteMessage
    <2>4. wire' = wire
      BY <1>3 DEF WriteMessage
    <2> QED BY <1>0, <2>2, <2>3, <2>4 DEF Coming
  <1>4. ASSUME NEW s \in Senders, NEW t \in Senders, NEW c \in Conns, Collide(s, t, c)
        PROVE Coming(i)
    <2>1. PICK p : p = UnlockedIfDone(Skipping(sender[s], c))
      OBVIOUS
    <2>2. PICK q : q = UnlockedIfDone(Done(sender[t]))
      OBVIOUS
    <2>3. p = NotSending \/ (/\ p.notice = sender[s].notice /\ p.writing = sender[s].writing
                             /\ p.pc = sender[s].pc /\ p.todo \subseteq sender[s].todo)
      BY <1>0, <2>1 DEF UnlockedIfDone, Skipping, Sender
    <2>4. q = NotSending \/ (/\ q.notice = sender[t].notice /\ q.writing = None
                             /\ q.pc = sender[t].pc /\ q.todo = sender[t].todo)
      BY <1>0, <2>2 DEF UnlockedIfDone, Done, Sender
    <2>5. s # t
      BY <1>4, NoneIsNothing DEF Collide
    <2>6. \A u \in Senders : \/ sender'[u] = sender[u] \/ sender'[u] = NotSending
                             \/ u = s /\ sender'[u] = p
                             \/ u = t /\ sender'[u] = q
      BY <1>0, <1>4, <2>1, <2>2, <2>5 DEF Collide
    <2>7. wire' = wire
      BY <1>4 DEF Collide
    <2>8. None # Page
      BY NoneIsNothing, PageConnects
    <2> QED BY <1>0, <2>3, <2>4, <2>6, <2>7, <2>8 DEF Coming, NotSending
  <1>5. ASSUME NEW c \in Conns,
               Register(c) \/ ReadMessageFails(c) \/ Unregister(c) \/ LineStep(c) \/ Upgrade(c)
                 \/ (Cut(c) /\ faults' = faults)
        PROVE Coming(i)
    <2>1. sender' = sender /\ wire' \subseteq wire
      BY <1>5 DEF Register, ReadMessageFails, Unregister, LineStep, Stall,
                  Resume, Break, GiveUp, Disturb, Cut, Upgrade
    <2> QED BY <2>1 DEF Coming
  <1> QED BY <1>1, <1>2, <1>3, <1>4, <1>5 DEF HubAction, SenderStep, HandlerStep

(* The first request of a client whose server knows of nothing else of it. *)
LEMMA ListIsTrue ==
    ASSUME TypeInv, ListSent, ~doubt', mounted => TruthInv, UNCHANGED <<rows, wire, sender>>,
           ~mounted => \A n \in CallIds : calls[n].op # "list"
    PROVE  Truth'
  <1>1. PICK n \in CallIds : /\ calls[n].op = "none"
                            /\ calls' = [calls EXCEPT ![n] = NewCall("list", None, None)]
    BY DEF ListSent, Send, SendFrom
  <1>2. PICK r : r = NewCall("list", None, None)
    OBVIOUS
  <1>3. r.op = "list" /\ r.live /\ r.stage = "sent"
    BY <1>2 DEF NewCall, NoCall
  <1>4. \A m \in CallIds : calls'[m] = IF m = n THEN r ELSE calls[m]
    BY <1>1, <1>2 DEF TypeInv, TypeOK
  <1>5. ~Under("mark") /\ ~Under("mark_all") /\ (~doubt \/ ~Under("list"))
    BY DEF ListSent
  <1>6. \A m \in CallIds : CallTrue(calls[m]) \/ calls[m].op = "none"
    <2>1. CASE mounted /\ ~doubt
      BY <2>1 DEF TruthInv, Truth, CallsTrue
    <2>2. CASE ~Under("list")
      BY <1>5, <2>2 DEF Under, TypeInv, TypeOK, Call
    <2>3. CASE ~mounted
      BY <1>5, <2>3 DEF Under, TypeInv, TypeOK, Call
    <2> QED BY <1>5, <2>1, <2>2, <2>3
  <1>7. CallTrue(r)'
    BY <1>3 DEF CallTrue
  <1>8. \A m \in CallIds : m # n => CallTrue(calls[m])'
    BY <1>4, <1>5, <1>6 DEF CallTrue, Under
  <1>9. CallTrue(calls[n])'
    BY <1>4, <1>7 DEF CallTrue
  <1>10. Under("list")' /\ ~Under("mark")' /\ ~Under("mark_all")'
    BY <1>3, <1>4, <1>5 DEF Under
  <1> QED BY <1>8, <1>9, <1>10 DEF Truth, CallsTrue, ListsAlone, AllExcused

(* A mark of something that is shown, or a mark-all with nothing coming. *)
LEMMA MarkIsTrue ==
    ASSUME TypeInv, Truth, NEW op \in {"mark", "mark_all"}, NEW i \in Notices \cup {None},
           MarkSent(op, i), ~doubt', UNCHANGED <<rows, items, wire, sender>>,
           op = "mark" => items[i] # "absent"
    PROVE  Truth'
  <1>1. PICK n \in CallIds : /\ calls[n].op = "none"
                            /\ calls' = [calls EXCEPT ![n] = NewCall(op, i, None)]
    BY DEF MarkSent, Send, SendFrom
  <1>2. PICK r : r = NewCall(op, i, None)
    OBVIOUS
  <1>3. r.op = op /\ r.about = i /\ r.live /\ r.stage = "sent"
    BY <1>2 DEF NewCall, NoCall
  <1>4. \A m \in CallIds : calls'[m] = IF m = n THEN r ELSE calls[m]
    BY <1>1, <1>2 DEF TypeInv, TypeOK
  <1>5. ~Under("list") /\ (op = "mark_all" => \A j \in Notices : ~Coming(j))
    BY DEF MarkSent
  <1>6. \A j \in Notices : Coming(j)' <=> Coming(j)
    BY ComingKept
  <1>7. CallTrue(r)'
    BY <1>3, <1>5, <1>6 DEF CallTrue
  <1>8. \A m \in CallIds : m # n => CallTrue(calls[m])'
    BY <1>4, <1>6 DEF CallTrue, Truth, CallsTrue
  <1>9. CallTrue(calls[n])'
    BY <1>4, <1>7 DEF CallTrue
  <1>10. ~Under("list")'
    BY <1>3, <1>4, <1>5 DEF Under
  <1>11. ASSUME NEW j \in Notices PROVE Excused(j)'
    <2>1. Excused(j)
      BY <1>5 DEF Truth, AllExcused
    <2>2. \A m \in CallIds : Marking(calls[m], j) => m # n
      BY <1>1 DEF Marking
    <2>3. \A m \in CallIds : Marking(calls[m], j) => Marking(calls'[m], j)
      BY <1>4, <2>2
    <2> QED BY <1>6, <2>1, <2>3 DEF Excused
  <1> QED BY <1>8, <1>9, <1>10, <1>11 DEF Truth, CallsTrue, ListsAlone, AllExcused

(* What the client sees does not change while its requests stay as they are
   and all that is on its way stays there.                                 *)
LEMMA TruthKept ==
    ASSUME Truth, UNCHANGED <<rows, items, calls>>, \A i \in Notices : Coming(i)' <=> Coming(i)
    PROVE  Truth'
  <1>1. CallsTrue'
    BY DEF Truth, CallsTrue, CallTrue
  <1>2. ListsAlone'
    BY DEF Truth, ListsAlone, Under
  <1>3. AllExcused'
    BY DEF Truth, AllExcused, Excused, Under, Marking
  <1> QED BY <1>1, <1>2, <1>3 DEF Truth

(* One request goes on: the others may rely on what they did. *)
LEMMA OneCallMoves ==
    ASSUME TypeInv, Truth, NEW n \in CallIds, NEW r, calls' = [calls EXCEPT ![n] = r],
           r.op \in {calls[n].op, "none"},
           CallTrue(r)',
           \A m \in CallIds : m # n => CallTrue(calls[m])',
           Under("list") \/ \A i \in Notices : Excused(i)',
           r.op = "none" /\ calls[n].op = "list" => \A i \in Notices : items'[i] = rows'[i]
    PROVE  Truth'
  <1>1. \A m \in CallIds : calls'[m] = IF m = n THEN r ELSE calls[m]
    BY DEF TypeInv, TypeOK
  <1>2. CallsTrue'
    <2>1. CallTrue(calls[n])'
      BY <1>1 DEF CallTrue
    <2> QED BY <2>1 DEF CallsTrue
  <1>3. \A op \in {"list", "mark", "mark_all"} : Under(op)' => Under(op)
    BY <1>1 DEF Under
  <1>4. ListsAlone'
    BY <1>3 DEF Truth, ListsAlone
  <1>5. AllExcused'
    <2>1. CASE \A i \in Notices : Excused(i)'
      BY <2>1 DEF AllExcused
    <2>2. CASE Under("list")
      <3>1. PICK m \in CallIds : calls[m].op = "list"
        BY <2>2 DEF Under
      <3>2. CASE calls'[m].op = "list"
        BY <3>2 DEF AllExcused, Under
      <3>3. CASE calls'[m].op # "list"
        BY <1>1, <3>1, <3>3 DEF AllExcused, Excused
      <3> QED BY <3>2, <3>3
    <2> QED BY <2>1, <2>2
  <1> QED BY <1>2, <1>4, <1>5 DEF Truth

LEMMA TruthAtServer ==
    ASSUME TypeInv, HiddenInv, Truth, NEW n \in CallIds, ServerStep(n)
    PROVE  Truth'
  <1>0. /\ TypeOK /\ CallTrue(calls[n]) /\ calls[n] \in Call
        /\ rows \in Copy /\ items \in Copy
    BY DEF TypeInv, TypeOK, Truth, CallsTrue
  <1>1. PICK r : r = calls'[n]
    OBVIOUS
  <1>2. /\ calls' = [calls EXCEPT ![n] = r]
        /\ r.op = calls[n].op /\ r.about = calls[n].about /\ r.live = calls[n].live
        /\ r.stage = "answered" /\ calls[n].stage = "sent"
    BY <1>0, <1>1 DEF ServerStep, ServeList, ServeMark, ServeMarkAll, Answer, TypeInv, TypeOK,
                      Call, AtServer
  <1>3. /\ items' = items /\ wire' = wire /\ sender' = sender
        /\ \A i \in Notices : Coming(i)' <=> Coming(i)
    <2>1. UNCHANGED hub /\ items' = items
      BY DEF ServerStep, ServeList, ServeMark, ServeMarkAll
    <2> QED BY <2>1, ComingKept DEF hub
  <1>4. \A i \in Notices : /\ rows'[i] \in {rows[i], "read"}
                           /\ rows'[i] = rows[i] \/ rows[i] # "absent"
    <2>1. CASE ServeList(n)
      BY <2>1 DEF ServeList
    <2>2. CASE ServeMark(n)
      <3>1. items[calls[n].about] # "absent" /\ calls[n].about \in Notices
        BY <1>0, <2>2 DEF ServeMark, CallTrue, HiddenInv, RepliesHold, CallHolds
      <3>2. rows[calls[n].about] # "absent"
        BY <3>1 DEF HiddenInv, HaveRows
      <3> QED BY <1>0, <2>2, <3>2 DEF ServeMark, Copy
    <2>3. CASE ServeMarkAll(n)
      BY <1>0, <2>3 DEF ServeMarkAll, Copy
    <2> QED BY <2>1, <2>2, <2>3 DEF ServerStep
  <1>5. \A m \in CallIds : m # n => calls'[m] = calls[m]
    BY <1>2 DEF TypeInv, TypeOK
  <1>6. CASE ServeList(n)
    <2>1. r.reply = {q \in {"unread", "read"} \X Notices : rows[q[2]] = q[1]} /\ rows' = rows
          /\ calls[n].op = "list"
      BY <1>0, <1>1, <1>6 DEF ServeList, Answer, TypeInv, TypeOK, Call
    <2>2. CallTrue(r)'
      BY <1>0, <1>2, <2>1 DEF CallTrue
    <2>3. \A m \in CallIds : m # n => CallTrue(calls[m])'
      BY <1>3, <1>5, <2>1 DEF CallTrue, Truth, CallsTrue
    <2>4. Under("list")
      BY <2>1 DEF Under
    <2> QED BY <1>2, <2>1, <2>2, <2>3, <2>4, OneCallMoves
  <1>7. CASE ServeMark(n) \/ ServeMarkAll(n)
    <2>1. calls[n].op \in {"mark", "mark_all"} /\ r.op # "none"
      BY <1>2, <1>7 DEF ServeMark, ServeMarkAll
    <2>2. ~Under("list") /\ \A m \in CallIds : calls[m].op # "list"
      BY <2>1 DEF Truth, ListsAlone, Under
    <2>3. \A i \in Notices : rows'[i] # rows[i] => Marking(r, i)
      <3>1. CASE ServeMark(n)
        BY <1>0, <1>2, <3>1 DEF ServeMark, Marking, Copy
      <3>2. CASE ServeMarkAll(n)
        BY <1>2, <3>2 DEF ServeMarkAll, Marking
      <3> QED BY <1>7, <3>1, <3>2
    <2>4. calls[n].op = "mark_all" => \A i \in Notices : rows'[i] # "unread"
      BY <1>7 DEF ServeMark, ServeMarkAll
    <2>5. CallTrue(r)'
      BY <1>0, <1>2, <1>3, <2>2, <2>4 DEF CallTrue
    <2>6. \A m \in CallIds : m # n => CallTrue(calls[m])'
      BY <1>3, <1>4, <1>5, <2>2 DEF CallTrue, Truth, CallsTrue
    <2>7. ASSUME NEW i \in Notices PROVE Excused(i)'
      <3>1. Excused(i)
        BY <2>2 DEF Truth, AllExcused
      <3>2. calls'[n] = r
        BY <1>1
      <3>3. \A m \in CallIds : Marking(calls[m], i) => m # n
        BY <1>2 DEF Marking
      <3>4. CASE rows'[i] = rows[i]
        <4>1. \A m \in CallIds : Marking(calls[m], i) => Marking(calls'[m], i)
          BY <1>5, <3>3
        <4> QED BY <1>3, <3>1, <3>4, <4>1 DEF Excused
      <3>5. CASE rows'[i] # rows[i]
        <4>1. Marking(calls'[n], i) /\ rows'[i] = "read" /\ rows[i] = "unread"
          BY <1>0, <1>4, <2>3, <3>2, <3>5 DEF Copy
        <4>2. CASE items[i] = "unread"
          BY <1>3, <4>1, <4>2 DEF Excused, Marking
        <4>3. CASE items[i] = "read"
          BY <1>3, <4>1, <4>3 DEF Excused
        <4>4. CASE items[i] = "absent"
          <5>1. Coming(i)
            BY <3>1, <4>1, <4>4 DEF Excused
          <5>2. calls[n].op = "mark" /\ calls[n].about = i
            BY <1>0, <1>2, <2>1, <2>3, <3>5, <5>1 DEF CallTrue, Marking
          <5> QED BY <1>0, <4>4, <5>2 DEF CallTrue
        <4> QED BY <1>0, <4>2, <4>3, <4>4 DEF Copy
      <3> QED BY <3>4, <3>5
    <2> QED BY <1>2, <2>1, <2>5, <2>6, <2>7, OneCallMoves
  <1> QED BY <1>6, <1>7 DEF ServerStep

LEMMA TruthAtClient ==
    ASSUME TypeInv, HiddenInv, Truth, NEW n \in CallIds, ClientStep(n), ~doubt'
    PROVE  Truth'
  <1>0. /\ TypeOK /\ CallTrue(calls[n]) /\ calls[n] \in Call /\ CallHolds(calls[n])
        /\ rows \in Copy /\ items \in Copy
    BY DEF TypeInv, TypeOK, Truth, CallsTrue, HiddenInv, RepliesHold
  <1>1. Settle(n) /\ UNCHANGED <<hub, rows>>
    BY DEF ClientStep, ListAnswered, ListFailed, MarkSettled, MarkAllAnswered,
           MarkAllFailed, NobodyHears
  <1>2. PICK r : r = NoCall
    OBVIOUS
  <1>3. /\ calls' = [calls EXCEPT ![n] = r] /\ r.op = "none"
        /\ \A m \in CallIds : m # n => calls'[m] = calls[m]
    BY <1>1, <1>2 DEF Settle, NoCall, TypeInv, TypeOK
  <1>4. \A i \in Notices : Coming(i)' <=> Coming(i)
    BY <1>1, ComingKept DEF hub
  <1>5. CallTrue(r)'
    BY <1>3 DEF CallTrue
  <1>6. CASE ListAnswered(n)
    <2>1. \A i \in Notices : items'[i] = rows'[i]
      BY <1>0, <1>1, <1>6 DEF ListAnswered, Settling, CallTrue, Copy
    <2>2. ~Under("mark") /\ ~Under("mark_all")
      BY <1>6 DEF ListAnswered, Settling, Truth, ListsAlone, Under
    <2>3. \A m \in CallIds : m # n => CallTrue(calls[m])'
      BY <1>1, <1>3, <2>2 DEF CallTrue, Truth, CallsTrue, Under
    <2>4. \A i \in Notices : Excused(i)'
      BY <2>1 DEF Excused
    <2> QED BY <1>3, <1>5, <2>1, <2>3, <2>4, OneCallMoves
  <1>7. CASE MarkSettled(n) \/ MarkAllAnswered(n)
    <2>1. calls[n].op \in {"mark", "mark_all"} /\ calls[n].stage = "answered"
      BY <1>7 DEF MarkSettled, MarkAllAnswered, Settling
    <2>2. ~Under("list")
      BY <2>1 DEF Truth, ListsAlone, Under
    <2>3. \A i \in Notices : IF Marking(calls[n], i) /\ items[i] = "unread"
                             THEN items'[i] = "read" ELSE items'[i] = items[i]
      <3>1. CASE MarkSettled(n)
        BY <1>0, <2>1, <3>1 DEF MarkSettled, Settling, Marking, Copy
      <3>2. CASE MarkAllAnswered(n)
        BY <1>0, <2>1, <3>2 DEF MarkAllAnswered, Settling, Marking
      <3> QED BY <1>7, <3>1, <3>2
    <2>4. \A m \in CallIds : m # n => CallTrue(calls[m])'
      <3>1. ASSUME NEW m \in CallIds, calls[m].op = "mark"
            PROVE  items'[calls[m].about] # "absent"
        <4>1. calls[m].about \in Notices /\ items[calls[m].about] # "absent"
          BY <3>1 DEF HiddenInv, RepliesHold, CallHolds, Truth, CallsTrue, CallTrue
        <4> QED BY <2>3, <4>1
      <3> QED BY <1>1, <1>3, <1>4, <3>1 DEF CallTrue, Truth, CallsTrue
    <2>5. ASSUME NEW i \in Notices PROVE Excused(i)'
      <3>1. Excused(i)
        BY <2>2 DEF Truth, AllExcused
      <3>2. CASE ~Marking(calls[n], i)
        <4>1. \A m \in CallIds : Marking(calls[m], i) => Marking(calls'[m], i)
          BY <1>3, <3>2
        <4> QED BY <1>1, <1>4, <2>3, <3>1, <3>2, <4>1 DEF Excused
      <3>3. CASE Marking(calls[n], i)
        <4>1. rows[i] # "unread"
          BY <1>0, <2>1, <3>3 DEF CallHolds, CallTrue, Marking
        <4>2. CASE items[i] = rows[i]
          BY <1>1, <2>3, <4>1, <4>2 DEF Excused
        <4>3. CASE items[i] = "unread" /\ rows[i] = "read"
          BY <1>1, <2>3, <3>3, <4>3 DEF Excused
        <4> QED BY <3>1, <4>1, <4>2, <4>3 DEF Excused
      <3> QED BY <3>2, <3>3
    <2>6. calls[n].op # "list"
      BY <2>1
    <2> QED BY <1>3, <1>5, <2>4, <2>5, <2>6, OneCallMoves
  <1>8. CASE ListFailed(n) \/ MarkAllFailed(n) \/ (MarkSettled(n) /\ calls[n].stage = "failed")
    BY <1>8 DEF ListFailed, MarkAllFailed, MarkSettled, Settling
  <1>9. CASE NobodyHears(n)
    BY <1>0, <1>9 DEF NobodyHears, NobodyListens, Pending, CallTrue
  <1> QED BY <1>6, <1>7, <1>8, <1>9 DEF ClientStep

LEMMA TruthOnArrival ==
    ASSUME TypeInv, HiddenInv, Truth, NEW i \in Notices, Arrive(i)
    PROVE  Truth'
  <1>0. rows \in Copy /\ items \in Copy
    BY DEF TypeInv, TypeOK
  <1>1. UNCHANGED <<rows, calls, sender>> /\ wire' = wire \ {i}
    BY DEF Arrive, requests
  <1>2. \A j \in Notices : Coming(j)' => Coming(j)
    BY <1>1 DEF Coming
  <1>3. \A j \in Notices : j # i /\ Coming(j) => Coming(j)'
    BY <1>1 DEF Coming
  <1>4. \A j \in Notices : items'[j] = IF j = i /\ items[i] = "absent" THEN "unread" ELSE items[j]
    BY <1>0 DEF Arrive, Copy
  <1>5. rows[i] # "absent"
    BY DEF Arrive, HiddenInv, HaveRows, OnTheWay
  <1>6. ASSUME NEW m \in CallIds PROVE CallTrue(calls[m])'
    <2>1. calls[m].op = "mark" => items'[calls[m].about] # "absent"
      BY <1>4 DEF Truth, CallsTrue, CallTrue, HiddenInv, RepliesHold, CallHolds
    <2> QED BY <1>1, <1>2, <2>1 DEF Truth, CallsTrue, CallTrue
  <1>7. ListsAlone'
    BY <1>1 DEF Truth, ListsAlone, Under
  <1>8. AllExcused'
    <2>1. CASE Under("list")
      BY <1>1, <2>1 DEF AllExcused, Under
    <2>2. ASSUME NEW j \in Notices, Excused(j) PROVE Excused(j)'
      BY <1>0, <1>1, <1>3, <1>4, <1>5, <2>2 DEF Excused, Marking, Copy
    <2> QED BY <2>1, <2>2 DEF Truth, AllExcused
  <1> QED BY <1>6, <1>7, <1>8 DEF Truth, CallsTrue

LEMMA TruthOnCreation ==
    ASSUME TypeInv, HiddenInv, Truth, NEW s \in Senders, NEW i \in Notices, Create(s, i),
           mounted, ~doubt'
    PROVE  Truth'
  <1>0. rows \in Copy /\ items \in Copy /\ sender \in [Senders -> Sender]
    BY DEF TypeInv, TypeOK, HubTypeOK
  <1>1. /\ ~Under("list") /\ ~Under("mark_all") /\ rows[i] = "absent" /\ sender[s].pc = "idle"
        /\ UNCHANGED <<items, calls, wire>>
        /\ \A j \in Notices : rows'[j] = IF j = i THEN "unread" ELSE rows[j]
    BY <1>0 DEF Create, requests, Copy
  <1>2. PICK r : r = sender'[s]
    OBVIOUS
  <1>3. /\ r.notice = i /\ r.pc = "rlock"
        /\ \A t \in Senders : t # s => sender'[t] = sender[t]
    BY <1>0, <1>2 DEF Create, NotSending
  <1>4. \A j \in Notices : Coming(j) => Coming(j)'
    <2>1. sender[s].notice = None
      BY <1>1 DEF TypeInv, HubInv, SenderShape
    <2> QED BY <1>1, <1>3, <2>1, NoneIsNothing DEF Coming
  <1>5. Coming(i)'
    BY <1>2, <1>3 DEF Coming
  <1>6. items[i] = "absent"
    BY <1>1 DEF HiddenInv, HaveRows
  <1>7. CallsTrue'
    BY <1>1 DEF Truth, CallsTrue, CallTrue, Under
  <1>8. ASSUME NEW j \in Notices PROVE Excused(j)'
    <2>1. Excused(j)
      BY <1>1 DEF Truth, AllExcused
    <2>2. CASE j = i
      BY <1>1, <1>5, <1>6, <2>2 DEF Excused
    <2>3. CASE j # i
      BY <1>1, <1>4, <2>1, <2>3 DEF Excused, Marking
    <2> QED BY <2>2, <2>3
  <1>9. ListsAlone'
    BY <1>1 DEF ListsAlone, Under
  <1> QED BY <1>7, <1>8, <1>9 DEF Truth, AllExcused

LEMMA TruthStays == TypeInv /\ HiddenInv /\ TruthInv /\ [Next]_vars => TruthInv'
  <1> SUFFICES ASSUME TypeInv, HiddenInv, TruthInv, [Next]_vars, mounted', ~doubt'
               PROVE  Truth'
    BY DEF TruthInv
  <1>0. HubInv /\ TypeOK
    BY DEF TypeInv
  <1>1. CASE HubStep
    <2>1. mounted /\ ~doubt /\ UNCHANGED <<rows, items, calls>>
      BY <1>1 DEF HubStep, view, requests
    <2>2. \A i \in Notices : Coming(i) => Coming(i)'
      BY <1>1, <2>1 DEF HubStep
    <2>3. \A i \in Notices : Coming(i)' => Coming(i)
      BY <1>0, <1>1, HubBringsNothingNew DEF HubStep, HubAction, Connect
    <2> QED BY <2>1, <2>2, <2>3, TruthKept DEF TruthInv
  <1>2. CASE Mount
    <2>1. ListSent /\ ~mounted /\ rows' = rows
      BY <1>2 DEF Mount
    <2>2. UNCHANGED <<wire, sender>>
      BY <1>2 DEF Mount, Upgrade, hub
    <2>3. \A n \in CallIds : calls[n].op # "list"
      BY <2>1 DEF HiddenInv, RepliesHold, CallHolds
    <2> QED BY <2>1, <2>2, <2>3, ListIsTrue
  <1>3. CASE Unmount
    BY <1>3 DEF Unmount
  <1>4. CASE OnOpen \/ Focus \/ Pull \/ OnMarkAll \/ \E i \in Notices : PressItem(i)
    <2>1. UNCHANGED <<rows, items, wire, sender>> /\ mounted
      BY <1>4 DEF OnOpen, Focus, Pull, OnMarkAll, PressItem, Shown, hub
    <2>2. CASE ListSent
      BY <2>1, <2>2, ListIsTrue
    <2>3. CASE UNCHANGED <<requests, doubt>>
      <3>1. \A i \in Notices : Coming(i)' <=> Coming(i)
        BY <2>1, ComingKept
      <3>2. Truth /\ calls' = calls
        BY <2>1, <2>3 DEF TruthInv, requests
      <3> QED BY <2>1, <3>1, <3>2, TruthKept
    <2>4. ASSUME NEW op \in {"mark", "mark_all"}, NEW i \in Notices \cup {None},
                 MarkSent(op, i), op = "mark" => items[i] # "absent"
          PROVE  Truth'
      <3>1. Truth
        BY <2>1, <2>4 DEF TruthInv, MarkSent
      <3> QED BY <2>1, <2>4, <3>1, MarkIsTrue
    <2>5. \/ ListSent \/ UNCHANGED <<requests, doubt>> \/ MarkSent("mark_all", None)
          \/ \E i \in Notices : MarkSent("mark", i) /\ items[i] # "absent"
      BY <1>4 DEF OnOpen, Focus, Pull, OnMarkAll, PressItem
    <2>6. CASE MarkSent("mark_all", None)
      BY <2>4, <2>6
    <2>7. ASSUME NEW i \in Notices, MarkSent("mark", i), items[i] # "absent" PROVE Truth'
      BY <2>4, <2>7
    <2> QED BY <2>2, <2>3, <2>5, <2>6, <2>7
  <1>5. ASSUME NEW i \in Notices, Arrive(i) PROVE Truth'
    <2>1. Truth
      BY <1>5 DEF TruthInv, Arrive
    <2> QED BY <1>5, <2>1, TruthOnArrival
  <1>6. ASSUME NEW i \in Notices, OtherPageMarks(i) PROVE Truth'
    <2>1. mounted' = mounted /\ doubt' = mounted
      BY <1>6 DEF OtherPageMarks, view
    <2> QED BY <2>1
  <1>7. ASSUME NEW s \in Senders, NEW i \in Notices, Create(s, i) PROVE Truth'
    <2>1. mounted
      BY <1>7 DEF Create, view
    <2>2. Truth
      BY <1>7, <2>1 DEF TruthInv, Create
    <2> QED BY <1>7, <2>1, <2>2, TruthOnCreation
  <1>8. ASSUME NEW n \in CallIds, ServerStep(n) PROVE Truth'
    <2>0. mounted' = mounted /\ doubt' = doubt
      BY <1>8 DEF ServerStep, ServeList, ServeMark, ServeMarkAll, view
    <2>1. mounted /\ ~doubt
      BY <2>0
    <2> QED BY <1>8, <2>1, TruthAtServer DEF TruthInv
  <1>9. ASSUME NEW n \in CallIds, ClientStep(n) PROVE Truth'
    <2>1. mounted
      BY <1>9 DEF ClientStep, ListAnswered, ListFailed, MarkSettled, MarkAllAnswered,
                  MarkAllFailed, NobodyHears, view
    <2>2. ~doubt
      BY <1>9 DEF ClientStep, ListAnswered, ListFailed, MarkSettled, MarkAllAnswered,
                  MarkAllFailed, NobodyHears
    <2> QED BY <1>9, <2>1, <2>2, TruthAtClient DEF TruthInv
  <1>10. ASSUME NEW n \in CallIds, CallFails(n) PROVE Truth'
    <2>1. mounted /\ ~doubt /\ UNCHANGED <<rows, items, wire, sender>>
      BY <1>10 DEF CallFails, view
    <2>2. Truth /\ calls[n] \in Call
      BY <1>0, <2>1 DEF TruthInv, TypeOK
    <2>3. PICK r : r = calls'[n]
      OBVIOUS
    <2>4. /\ calls' = [calls EXCEPT ![n] = r]
          /\ r.op = calls[n].op /\ r.about = calls[n].about /\ r.live = calls[n].live
          /\ r.stage = "failed" /\ r.op # "none"
      BY <1>0, <1>10, <2>2, <2>3 DEF CallFails, Fail, Pending, TypeOK, Call
    <2>5. \A i \in Notices : Coming(i)' <=> Coming(i)
      BY <2>1, ComingKept
    <2>6. CallTrue(r)'
      BY <2>1, <2>2, <2>4, <2>5 DEF CallTrue, Truth, CallsTrue
    <2>7. \A m \in CallIds : m # n => calls'[m] = calls[m]
      BY <1>0, <2>4 DEF TypeOK
    <2>8. \A m \in CallIds : m # n => CallTrue(calls[m])'
      BY <2>1, <2>2, <2>5, <2>7 DEF CallTrue, Truth, CallsTrue
    <2>9. ASSUME NEW i \in Notices, Excused(i) PROVE Excused(i)'
      <3>1. calls'[n] = r
        BY <2>3
      <3>2. \A m \in CallIds : Marking(calls[m], i) => Marking(calls'[m], i)
        BY <2>4, <2>7, <3>1 DEF Marking
      <3> QED BY <2>1, <2>5, <2>9, <3>2 DEF Excused
    <2>10. Under("list") \/ \A i \in Notices : Excused(i)'
      BY <2>2, <2>9 DEF Truth, AllExcused
    <2> QED BY <2>2, <2>4, <2>6, <2>8, <2>10, OneCallMoves
  <1>11. CASE UNCHANGED vars
    <2>1. mounted /\ ~doubt /\ UNCHANGED <<rows, items, calls, wire, sender>>
      BY <1>11 DEF vars, hub, view, requests
    <2> QED BY <2>1, ComingKept, TruthKept DEF TruthInv
  <1> QED BY <1>1, <1>2, <1>3, <1>4, <1>5, <1>6, <1>7, <1>8, <1>9, <1>10, <1>11 DEF Next

LEMMA TruthStart == Init => TruthInv
  <1> SUFFICES ASSUME Init PROVE Truth
    BY DEF TruthInv
  <1>1. \A n \in CallIds : calls[n].op = "none"
    BY DEF Init, NoCall
  <1>2. \A i \in Notices : items[i] = rows[i]
    BY DEF Init
  <1> QED BY <1>1, <1>2 DEF Truth, CallsTrue, CallTrue, ListsAlone, AllExcused, Excused, Under

(* A client that is in no doubt differs from the table only in what is on
   its way to it and in the marks it has yet to hear of.                   *)
LEMMA TruthTells == TypeInv /\ TruthInv => FeedTellsTheTruth
  <1> SUFFICES ASSUME TypeInv, Truth, Quiet PROVE items = rows
    BY DEF FeedTellsTheTruth, TruthInv
  <1>1. \A n \in CallIds : calls[n].op = "none"
    BY DEF Quiet, Pending
  <1>2. \A i \in Notices : items[i] = rows[i]
    BY <1>1 DEF Quiet, Truth, AllExcused, Excused, Under, Marking
  <1> QED BY <1>2 DEF TypeInv, TypeOK, Copy

(* Once nothing is under way, a client that missed nothing, was overtaken by
   nothing and failed at nothing since its last list shows what the table
   holds: as many unread notifications, and the same ones.                 *)
THEOREM TellsTheTruth == Spec => []FeedTellsTheTruth
  <1>1. Init => TypeInv /\ HiddenInv /\ TruthInv
    BY TypesStart, HiddenStart, TruthStart
  <1>2. TypeInv /\ HiddenInv /\ TruthInv /\ [Next]_vars => TypeInv' /\ HiddenInv' /\ TruthInv'
    BY TypesStay, HiddenStays, TruthStays
  <1>3. TypeInv /\ TruthInv => FeedTellsTheTruth
    BY TruthTells
  <1> QED BY <1>1, <1>2, <1>3, PTL DEF Spec
-----------------------------------------------------------------------------
(* What the hub waits for. *)

(* A sender under the read lock has a connection left or is writing to one:
   the lock is given back with the last of them.                           *)
Engaged(r) == r.pc = "write" => r.todo # {} \/ r.writing # None
SendersEngaged == \A s \in Senders : Engaged(sender[s])

LEMMA UnlockedIsEngaged == \A r : Engaged(UnlockedIfDone(r))
  BY DEF Engaged, UnlockedIfDone, NotSending

LEMMA EngagedStays == TypeInv /\ SendersEngaged /\ [Next]_vars => SendersEngaged'
  <1> SUFFICES ASSUME TypeInv, SendersEngaged, [Next]_vars PROVE SendersEngaged'
    OBVIOUS
  <1>0. sender \in [Senders -> Sender]
    BY DEF TypeInv, TypeOK, HubTypeOK
  <1>1. ASSUME NEW s \in Senders, NEW r, Engaged(r), sender' = [sender EXCEPT ![s] = r]
        PROVE  SendersEngaged'
    BY <1>0, <1>1 DEF SendersEngaged, Engaged
  <1>2. ASSUME NEW s \in Senders, RLock(s) \/ Written(s) PROVE SendersEngaged'
    <2>1. \E r : sender' = [sender EXCEPT ![s] = UnlockedIfDone(r)]
      BY <1>2 DEF RLock, Written
    <2> QED BY <1>1, <2>1, UnlockedIsEngaged
  <1>3. ASSUME NEW s \in Senders, NEW c \in Conns, WriteMessage(s, c) PROVE SendersEngaged'
    <2> DEFINE r == [sender[s] EXCEPT !.writing = c, !.todo = sender[s].todo \ {c}]
    <2>1. Engaged(r)
      BY <1>0, NoneIsNothing DEF Engaged, Sender
    <2>2. sender' = [sender EXCEPT ![s] = r]
      BY <1>0, <1>3 DEF WriteMessage
    <2> HIDE DEF r
    <2> QED BY <1>1, <2>1, <2>2
  <1>4. ASSUME NEW s \in Senders, NEW t \in Senders, NEW c \in Conns, Collide(s, t, c)
        PROVE  SendersEngaged'
    <2>1. s # t
      BY <1>4, NoneIsNothing DEF Collide
    <2>2. PICK panics \in BOOLEAN, spoilt \in BOOLEAN :
             sender' = [sender EXCEPT
                          ![s] = IF panics THEN NotSending
                                 ELSE UnlockedIfDone(Skipping(sender[s], c)),
                          ![t] = IF spoilt THEN UnlockedIfDone(Done(sender[t])) ELSE sender[t]]
      BY <1>0, <1>4, <2>1 DEF Collide
    <2>3. Engaged(NotSending)
      BY DEF Engaged, NotSending
    <2>4. \A u \in Senders : Engaged(sender'[u])
      BY <1>0, <2>2, <2>3, UnlockedIsEngaged DEF SendersEngaged
    <2> QED BY <2>4 DEF SendersEngaged, Engaged
  <1>5. ASSUME NEW s \in Senders, NEW i \in Notices, Create(s, i) PROVE SendersEngaged'
    <2> DEFINE r == [NotSending EXCEPT !.pc = "rlock", !.notice = i]
    <2>1. Engaged(r)
      BY DEF Engaged, NotSending
    <2>2. sender' = [sender EXCEPT ![s] = r]
      BY <1>5 DEF Create
    <2> HIDE DEF r
    <2> QED BY <1>1, <2>1, <2>2
  <1>6. CASE sender' = sender
    BY <1>6 DEF SendersEngaged, Engaged
  <1>7. ASSUME NEW c \in Conns, HandlerStep(c) \/ LineStep(c) \/ Connect(c)
        PROVE  sender' = sender
    BY <1>7 DEF HandlerStep, Register, ReadMessageFails, Unregister, LineStep, Stall, Resume,
                Break, GiveUp, Cut, Connect, Upgrade
  <1>8. CASE \/ Mount \/ Unmount \/ OnOpen \/ Focus \/ Pull \/ OnMarkAll
             \/ \E i \in Notices : PressItem(i) \/ Arrive(i) \/ OtherPageMarks(i)
             \/ \E n \in CallIds : ServerStep(n) \/ ClientStep(n) \/ CallFails(n)
    <2>1. sender' = sender
      BY <1>8 DEF Mount, Upgrade, Unmount, Cut, OnOpen, Focus, Pull, OnMarkAll, PressItem, Arrive,
                  OtherPageMarks, ServerStep, ServeList, ServeMark, ServeMarkAll, ClientStep,
                  ListAnswered, ListFailed, MarkSettled, MarkAllAnswered, MarkAllFailed,
                  NobodyHears, CallFails, hub
    <2> QED BY <1>6, <2>1
  <1>9. CASE UNCHANGED vars
    BY <1>6, <1>9 DEF vars, hub
  <1> QED BY <1>2, <1>3, <1>4, <1>5, <1>6, <1>7, <1>8, <1>9 DEF Next, HubStep, SenderStep

(* However many connections and senders there are, the hub's lock is never held
   or waited for without somebody who can go on, but for a client that has
   stalled while it is written to: what OnlyStallsBlock says with ENABLED.  *)
THEOREM HubIsNotKnotted == Spec => []OnlyStallsWait
  <1>1. Init => SendersEngaged
    BY DEF Init, HubInit, SendersEngaged, Engaged, NotSending
  <1>2. TypeInv /\ SendersEngaged => OnlyStallsWait
    <2> SUFFICES ASSUME TypeInv, SendersEngaged,
                        WriterWaits \/ (\E s \in Senders : sender[s].pc # "idle")
                 PROVE  \/ \E s \in Senders : SenderReady(s)
                        \/ WriterWaits /\ ~ReadLocked
                        \/ \E s \in Senders, c \in Conns :
                              sender[s].writing = c /\ line[c] = "stalled"
      BY DEF OnlyStallsWait
    <2>0. \A s \in Senders : sender[s] \in Sender
      BY DEF TypeInv, TypeOK, HubTypeOK
    <2>1. ASSUME NEW s \in Senders, sender[s].pc = "write"
          PROVE  \/ SenderReady(s)
                 \/ \E c \in Conns : sender[s].writing = c /\ line[c] = "stalled"
      BY <2>0, <2>1 DEF SendersEngaged, Engaged, SenderReady, Sender
    <2>2. CASE ReadLocked
      BY <2>1, <2>2 DEF ReadLocked
    <2>3. CASE ~ReadLocked /\ ~WriterWaits
      BY <2>0, <2>3 DEF ReadLocked, SenderReady, Sender
    <2> QED BY <2>2, <2>3
  <1> QED BY <1>1, <1>2, TypesStart, TypesStay, EngagedStays, PTL DEF Spec
-----------------------------------------------------------------------------
(* What the feed waits for. *)
ListGoes(c) == c.op = "list" /\ c.live /\ c.stage # "refused"
LoadInv ==
    /\ \A n \in CallIds : calls[n].op = "list" => ListGoes(calls[n])
    /\ mounted /\ (loading \/ refreshing) => \E n \in CallIds : ListGoes(calls[n])

(* The lists under way go on, and no flag goes up. *)
LEMMA LoadsKept ==
    ASSUME LoadInv,
           \A n \in CallIds : calls'[n].op = "list" => ListGoes(calls'[n]),
           mounted' /\ (loading' \/ refreshing') =>
              \/ \E n \in CallIds : ListGoes(calls'[n])
              \/ /\ mounted /\ (loading \/ refreshing)
                 /\ \A n \in CallIds : ListGoes(calls[n]) => ListGoes(calls'[n])
    PROVE  LoadInv'
  <1>1. ~(mounted' /\ (loading' \/ refreshing')) \/ \E n \in CallIds : ListGoes(calls'[n])
    BY DEF LoadInv
  <1>2. \A n \in CallIds : ListGoes(calls'[n]) <=> ListGoes(calls[n])'
    BY DEF ListGoes
  <1> QED BY <1>1, <1>2 DEF LoadInv

LEMMA SentLoads ==
    ASSUME TypeInv, LoadInv, NEW op \in {"list", "mark", "mark_all"}, NEW i \in Notices \cup {None},
           Send(op, i, None)
    PROVE  /\ \A n \in CallIds : calls'[n].op = "list" => ListGoes(calls'[n])
           /\ \A n \in CallIds : ListGoes(calls[n]) => ListGoes(calls'[n])
           /\ op = "list" => \E n \in CallIds : ListGoes(calls'[n])
  <1>1. PICK n \in CallIds : /\ calls[n].op = "none"
                            /\ calls' = [calls EXCEPT ![n] = NewCall(op, i, None)]
    BY DEF Send, SendFrom
  <1>2. LET r == NewCall(op, i, None) IN r.op = op /\ (op = "list" => ListGoes(r))
    BY DEF NewCall, NoCall, ListGoes
  <1>3. \A m \in CallIds : calls'[m] = IF m = n THEN NewCall(op, i, None) ELSE calls[m]
    BY <1>1 DEF TypeInv, TypeOK
  <1> HIDE DEF NewCall
  <1> QED BY <1>1, <1>2, <1>3 DEF LoadInv, ListGoes

LEMMA LoadsStay == TypeInv /\ LoadInv /\ [Next]_vars => LoadInv'
  <1> SUFFICES ASSUME TypeInv, LoadInv, [Next]_vars PROVE LoadInv'
    OBVIOUS
  <1>0. calls \in [CallIds -> Call]
    BY DEF TypeInv, TypeOK
  <1>1. CASE UNCHANGED <<calls, mounted, loading, refreshing>>
    BY <1>1 DEF LoadInv, ListGoes
  <1>2. ASSUME NEW op \in {"list", "mark", "mark_all"}, NEW i \in Notices \cup {None},
               Send(op, i, None),
               op = "list" \/ UNCHANGED <<mounted, loading, refreshing>>
        PROVE  LoadInv'
    BY <1>2, SentLoads, LoadsKept
  <1>8. CASE ListSent
    BY <1>2, <1>8 DEF ListSent
  <1>9. ASSUME NEW op \in {"mark", "mark_all"}, NEW i \in Notices \cup {None}, MarkSent(op, i),
               UNCHANGED <<mounted, loading, refreshing>>
        PROVE  LoadInv'
    BY <1>2, <1>9 DEF MarkSent
  <1>10. CASE Mount \/ OnOpen \/ Focus \/ Pull
    <2>1. CASE ListSent
      BY <1>8, <2>1
    <2>2. CASE OnOpen /\ open
      BY <1>1, <2>2 DEF OnOpen, requests
    <2> QED BY <1>10, <2>1, <2>2 DEF Mount, OnOpen, Focus, Pull
  <1>11. CASE OnMarkAll
    BY <1>9, <1>11 DEF OnMarkAll, view
  <1>12. ASSUME NEW i \in Notices, PressItem(i) PROVE LoadInv'
    <2>1. UNCHANGED <<mounted, loading, refreshing>>
      BY <1>12 DEF PressItem
    <2>2. MarkSent("mark", i) \/ UNCHANGED requests
      BY <1>12 DEF PressItem
    <2>3. CASE MarkSent("mark", i)
      BY <1>9, <2>1, <2>3
    <2>4. CASE UNCHANGED requests
      BY <1>1, <2>1, <2>4 DEF requests
    <2> QED BY <2>2, <2>3, <2>4
  <1>3. CASE Unmount
    <2>1. \A n \in CallIds : calls'[n].op # "list"
      BY <1>3 DEF Unmount, Abandoned, Without, NoCall
    <2>2. ~mounted'
      BY <1>3 DEF Unmount
    <2> QED BY <2>1, <2>2, LoadsKept
  <1>4. ASSUME NEW n \in CallIds, Settle(n), UNCHANGED mounted,
               calls[n].op = "list" => ~loading' /\ ~refreshing',
               calls[n].op # "list" => UNCHANGED <<loading, refreshing>>
        PROVE  LoadInv'
    <2>1. \A m \in CallIds : IF m = n THEN calls'[m].op = "none" ELSE calls'[m] = calls[m]
      BY <1>0, <1>4 DEF Settle, NoCall
    <2>2. /\ \A m \in CallIds : calls'[m].op = "list" => ListGoes(calls'[m])
          /\ calls[n].op # "list" =>
                \A m \in CallIds : ListGoes(calls[m]) => ListGoes(calls'[m])
      BY <2>1 DEF LoadInv, ListGoes
    <2> QED BY <1>4, <2>2, LoadsKept
  <1>5. ASSUME NEW n \in CallIds, ClientStep(n) PROVE LoadInv'
    <2>1. Settle(n) /\ UNCHANGED mounted
      BY <1>5 DEF ClientStep, ListAnswered, ListFailed, MarkSettled, MarkAllAnswered,
                  MarkAllFailed, NobodyHears, view
    <2>2. calls[n].op = "list" => ~loading' /\ ~refreshing'
      BY <1>5 DEF ClientStep, ListAnswered, ListFailed, MarkSettled, MarkAllAnswered,
                  MarkAllFailed, NobodyHears, NobodyListens, Settling, LoadInv, ListGoes
    <2>3. calls[n].op # "list" => UNCHANGED <<loading, refreshing>>
      BY <1>5 DEF ClientStep, ListAnswered, ListFailed, MarkSettled, MarkAllAnswered,
                  MarkAllFailed, NobodyHears, Settling, view
    <2> QED BY <1>4, <2>1, <2>2, <2>3
  <1>6. ASSUME NEW n \in CallIds, ServerStep(n) \/ CallFails(n) PROVE LoadInv'
    <2>2. \A m \in CallIds : /\ calls'[m].op = calls[m].op /\ calls'[m].live = calls[m].live
                            /\ calls'[m].stage \in {"answered", "failed", calls[m].stage}
      BY <1>0, <1>6 DEF ServerStep, ServeList, ServeMark, ServeMarkAll, Answer, CallFails, Fail,
                        Call
    <2>3. UNCHANGED <<mounted, loading, refreshing>>
      BY <1>6 DEF ServerStep, ServeList, ServeMark, ServeMarkAll, CallFails, view
    <2> QED BY <2>2, <2>3, LoadsKept DEF LoadInv, ListGoes
  <1>7. CASE \/ HubStep
             \/ \E i \in Notices : Arrive(i) \/ OtherPageMarks(i)
             \/ \E s \in Senders, i \in Notices : Create(s, i)
             \/ UNCHANGED vars
    <2>1. UNCHANGED <<calls, mounted, loading, refreshing>>
      BY <1>7 DEF HubStep, Arrive, OtherPageMarks, Create, vars, view, requests
    <2> QED BY <1>1, <2>1
  <1> QED BY <1>3, <1>5, <1>6, <1>7, <1>10, <1>11, <1>12 DEF Next

(* Whatever is lost or crosses, the dropdown and the screen show that they load
   only while a list of theirs is under way.                               *)
THEOREM LoadsAwait == Spec => []LoadsAreUnderWay
  <1>1. Init => LoadInv
    BY DEF Init, LoadInv, NoCall
  <1>2. LoadInv => LoadsAreUnderWay
    BY DEF LoadInv, ListGoes, LoadsAreUnderWay
  <1> QED BY <1>1, <1>2, TypesStart, TypesStay, LoadsStay, PTL DEF Spec
=============================================================================
