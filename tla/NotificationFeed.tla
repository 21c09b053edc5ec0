--------------------------- MODULE NotificationFeed ---------------------------
(***************************************************************************)
(* One client's copy of its user's notifications: the dropdown of the      *)
(* organizer's web page, fed by list requests and by its socket, or the    *)
(* phone's notification screen, whose socket address reaches no server.    *)
(* Order, texts and times of the notifications are left out.               *)
(***************************************************************************)
EXTENDS Hub

CONSTANTS MaxCalls,   \* bound on the requests the client sends
          MaxPending  \* bound on those under way at once

ASSUME BoundsAreNatural ==
    MaxCalls \in Nat /\ MaxPending \in Nat \ {0}

VARIABLES rows,       \* table notifications: absent, unread or read
          client,     \* NotificationDropdown or NotificationsScreen
          mounted,
          open,       \* the dropdown is open, the screen has the focus
          loading, refreshing,
          items,      \* as rows, in the client's state
          calls, sent,
          doubt,      \* history: items may have fallen behind rows
          swept       \* history: created while a mark-all was under way

INSTANCE ClientCalls WITH
    Subjects <- Notices, Filters <- {}, Ops <- {"list", "mark", "mark_all"},
    Fetches <- {"list"},
    Topics <- {"unread", "read"}, lost <- faults, MaxLost <- MaxFaults

requests == <<calls, sent>>
view == <<client, mounted, open, loading, refreshing>>
vars == <<hub, rows, view, items, requests, doubt, swept>>

Copy == [Notices -> {"absent", "unread", "read"}]
Empty == [i \in Notices |-> "absent"]
Present(copy) == {i \in Notices : copy[i] # "absent"}

Dropdown == client = "dropdown"
Phone == client = "screen"
Shown == mounted /\ open /\ ~loading

-----------------------------------------------------------------------------
(* History. *)
Under(op) == \E n \in CallIds : calls[n].op = op
Sweeping == \E n \in CallIds : calls[n].op = "mark_all" /\ calls[n].live

(* On its way to the page: to be sent, being written, or on the wire. *)
Coming(i) ==
    \/ i \in wire
    \/ \E s \in Senders :
          /\ sender[s].notice = i
          /\ sender[s].pc = "rlock" \/ Page \in sender[s].todo \/ sender[s].writing = Page

(* A list request that overlaps no other and no mark shows all that is there. *)
ListSent ==
    /\ Send("list", None, None)
    /\ doubt' = (Under("mark") \/ Under("mark_all") \/ (doubt /\ Under("list")))

MarkSent(op, i) ==
    /\ Send(op, i, None)
    /\ doubt' = (doubt \/ Under("list") \/ (op = "mark_all" /\ \E j \in Notices : Coming(j)))

-----------------------------------------------------------------------------
(* The client. *)
Mount ==
    /\ ~mounted
    /\ mounted' = TRUE
    /\ \/ Dropdown /\ Upgrade(Page) /\ open' = FALSE
       \/ Phone /\ open' = TRUE /\ UNCHANGED hub
    /\ loading' = TRUE /\ refreshing' = FALSE
    /\ items' = Empty
    /\ swept' = {}
    /\ ListSent
    /\ UNCHANGED <<rows, client>>

(* Signing out or reloading the page, the screen's arrow: the socket closes. *)
Unmount ==
    /\ mounted
    /\ mounted' = FALSE
    /\ IF line[Page] \in {"open", "stalled"} THEN Cut(Page) /\ faults' = faults
       ELSE UNCHANGED hub
    /\ open' = FALSE /\ loading' = FALSE /\ refreshing' = FALSE
    /\ items' = Empty
    /\ doubt' = FALSE /\ swept' = {}
    /\ Abandoned({"list", "mark", "mark_all"})
    /\ UNCHANGED <<rows, client>>

(* The bell: opening the dropdown loads. *)
OnOpen ==
    /\ mounted /\ Dropdown
    /\ open' = ~open
    /\ IF open THEN UNCHANGED <<loading, requests, doubt>> ELSE loading' = TRUE /\ ListSent
    /\ UNCHANGED <<hub, rows, client, mounted, refreshing, items, swept>>

(* The screen gets the focus back from the page a notification led to. *)
Focus ==
    /\ mounted /\ Phone /\ ~open
    /\ open' = TRUE /\ loading' = TRUE
    /\ ListSent
    /\ UNCHANGED <<hub, rows, client, mounted, refreshing, items, swept>>

Pull ==
    /\ Shown /\ Phone /\ ~refreshing
    /\ refreshing' = TRUE
    /\ ListSent
    /\ UNCHANGED <<hub, rows, client, mounted, open, loading, items, swept>>

(* The phone goes on to the event, at once if there is nothing to mark. *)
PressItem(i) ==
    /\ Shown /\ items[i] # "absent"
    /\ IF items[i] = "unread" THEN MarkSent("mark", i) /\ UNCHANGED open
       ELSE Phone /\ open' = FALSE /\ UNCHANGED <<requests, doubt>>
    /\ UNCHANGED <<hub, rows, client, mounted, loading, refreshing, items, swept>>

OnMarkAll ==
    /\ mounted /\ open
    /\ MarkSent("mark_all", None)
    /\ UNCHANGED <<hub, rows, view, items, swept>>

ListAnswered(n) ==
    /\ Settling(n, "list", "answered")
    /\ items' = [i \in Notices |->
                    CASE <<"unread", i>> \in calls[n].reply -> "unread"
                      [] <<"read", i>> \in calls[n].reply -> "read"
                      [] OTHER -> "absent"]
    /\ loading' = FALSE /\ refreshing' = FALSE
    /\ Settle(n)
    /\ UNCHANGED <<hub, rows, client, mounted, open, doubt, swept>>

ListFailed(n) ==
    /\ Settling(n, "list", "failed")
    /\ items' = Empty
    /\ loading' = FALSE /\ refreshing' = FALSE
    /\ Settle(n)
    /\ doubt' = TRUE
    /\ UNCHANGED <<hub, rows, client, mounted, open, swept>>

(* Whether the mark was stored or not, the phone goes on to the event. *)
MarkSettled(n) ==
    LET i == calls[n].about IN
    /\ \E stage \in {"answered", "failed"} :
          /\ Settling(n, "mark", stage)
          /\ items' = IF stage = "answered" /\ items[i] = "unread"
                      THEN [items EXCEPT ![i] = "read"] ELSE items
          /\ doubt' = (doubt \/ stage = "failed")
    /\ open' = (open /\ ~Phone)
    /\ Settle(n)
    /\ UNCHANGED <<hub, rows, client, mounted, loading, refreshing, swept>>

\* Mutant: the list is left as it was.
MarkAllAnsweredForgetful(n) ==
    /\ Settling(n, "mark_all", "answered")
    /\ Settle(n)
    /\ UNCHANGED <<hub, rows, view, items, doubt, swept>>

MarkAllAnswered(n) ==
    /\ Settling(n, "mark_all", "answered")
    /\ items' = [i \in Notices |-> IF items[i] = "unread" THEN "read" ELSE items[i]]
    /\ Settle(n)
    /\ UNCHANGED <<hub, rows, view, doubt, swept>>

MarkAllFailed(n) ==
    /\ Settling(n, "mark_all", "failed")
    /\ Settle(n)
    /\ doubt' = TRUE
    /\ UNCHANGED <<hub, rows, view, items, swept>>

NobodyHears(n) ==
    /\ NobodyListens(n)
    /\ Settle(n)
    /\ UNCHANGED <<hub, rows, view, items, doubt, swept>>

\* Mutant: what the socket brings is taken for read.
ArriveRead(i) ==
    /\ mounted /\ i \in wire /\ line[Page] = "open"
    /\ wire' = wire \ {i}
    /\ items' = IF items[i] = "absent" THEN [items EXCEPT ![i] = "read"] ELSE items
    /\ UNCHANGED <<conns, handler, line, sender, faults, rows, view, requests, doubt, swept>>

(* useNotificationSocket: a notification that is there already is not added. *)
Arrive(i) ==
    /\ mounted /\ i \in wire /\ line[Page] = "open"
    /\ wire' = wire \ {i}
    /\ items' = IF items[i] = "absent" THEN [items EXCEPT ![i] = "unread"] ELSE items
    /\ UNCHANGED <<conns, handler, line, sender, faults, rows, view, requests, doubt, swept>>

-----------------------------------------------------------------------------
(* The server. *)
(* NotificationService.Create: the row, and then the hub. *)
Create(s, i) ==
    /\ sender[s].pc = "idle" /\ rows[i] = "absent"
    /\ rows' = [rows EXCEPT ![i] = "unread"]
    /\ sender' = [sender EXCEPT ![s] = [NotSending EXCEPT !.pc = "rlock", !.notice = i]]
    /\ doubt' = (doubt \/ (mounted /\ (Under("list") \/ Under("mark_all"))))
    /\ swept' = IF Sweeping THEN swept \cup {i} ELSE swept
    /\ UNCHANGED <<conns, handler, line, wire, faults, view, items, requests>>

ServeList(n) ==
    /\ AtServer(n) /\ calls[n].op = "list"
    /\ Answer(n, {r \in {"unread", "read"} \X Notices : rows[r[2]] = r[1]})
    /\ UNCHANGED <<hub, rows, view, items, doubt, swept>>

ServeMark(n) ==
    /\ AtServer(n) /\ calls[n].op = "mark"
    /\ rows' = [rows EXCEPT ![calls[n].about] = "read"]
    /\ Answer(n, {})
    /\ UNCHANGED <<hub, view, items, doubt, swept>>

\* Mutant: a state of its own for what nobody looked at.
ServeMarkAllSkipped(n) ==
    /\ AtServer(n) /\ calls[n].op = "mark_all"
    /\ rows' = [i \in Notices |-> IF rows[i] = "unread" THEN "skipped" ELSE rows[i]]
    /\ Answer(n, {})
    /\ UNCHANGED <<hub, view, items, doubt, swept>>

ServeMarkAll(n) ==
    /\ AtServer(n) /\ calls[n].op = "mark_all"
    /\ rows' = [i \in Notices |-> IF rows[i] = "unread" THEN "read" ELSE rows[i]]
    /\ Answer(n, {})
    /\ UNCHANGED <<hub, view, items, doubt, swept>>

(* Another page of the user marks one read. *)
OtherPageMarks(i) ==
    /\ rows[i] = "unread"
    /\ rows' = [rows EXCEPT ![i] = "read"]
    /\ doubt' = mounted
    /\ UNCHANGED <<hub, view, items, requests, swept>>

CallFails(n) ==
    /\ Fail(n)
    /\ UNCHANGED <<conns, handler, line, wire, sender, rows, view, items, doubt, swept>>

(* Another page of the user connects; only organizers and admins have pages. *)
Connect(c) ==
    /\ Dropdown /\ c # Page
    /\ Upgrade(c)

-----------------------------------------------------------------------------
(* The client has loaded and found nothing yet. *)
Init ==
    /\ client \in {"dropdown", "screen"}
    /\ HubInit(IF Dropdown THEN {Page} ELSE {})
    /\ rows = Empty /\ items = Empty
    /\ mounted = TRUE /\ open = Phone /\ loading = FALSE /\ refreshing = FALSE
    /\ calls = [n \in CallIds |-> NoCall]
    /\ sent = 0
    /\ doubt = FALSE
    /\ swept = {}

SenderStep(s) ==
    \/ RLock(s) \/ Written(s)
    \/ \E c \in Conns : WriteMessage(s, c)
    \/ \E t \in Senders, c \in Conns : Collide(s, t, c)
HandlerStep(c) == Register(c) \/ ReadMessageFails(c) \/ Unregister(c)
LineStep(c) == Stall(c) \/ Resume(c) \/ Break(c) \/ GiveUp(c)

(* What a step of the hub drops on its way to the page is missed. *)
HubStep ==
    /\ \/ \E s \in Senders : SenderStep(s)
       \/ \E c \in Conns : HandlerStep(c) \/ LineStep(c) \/ Connect(c)
    /\ doubt' = (doubt \/ (mounted /\ \E i \in Notices : Coming(i) /\ ~Coming(i)'))
    /\ UNCHANGED <<rows, view, items, requests, swept>>

ServerStep(n) == ServeList(n) \/ ServeMark(n) \/ ServeMarkAll(n)
ClientStep(n) ==
    \/ ListAnswered(n) \/ ListFailed(n) \/ MarkSettled(n)
    \/ MarkAllAnswered(n) \/ MarkAllFailed(n) \/ NobodyHears(n)

Next ==
    \/ HubStep
    \/ Mount \/ Unmount \/ OnOpen \/ Focus \/ Pull \/ OnMarkAll
    \/ \E i \in Notices : PressItem(i) \/ Arrive(i) \/ OtherPageMarks(i)
    \/ \E s \in Senders, i \in Notices : Create(s, i)
    \/ \E n \in CallIds : ServerStep(n) \/ ClientStep(n) \/ CallFails(n)

Spec == Init /\ [][Next]_vars

-----------------------------------------------------------------------------
TypeOK ==
    /\ HubTypeOK
    /\ rows \in Copy /\ items \in Copy
    /\ client \in {"dropdown", "screen"}
    /\ {mounted, open, loading, refreshing, doubt} \subseteq BOOLEAN
    /\ calls \in [CallIds -> Call]
    /\ sent \in 0..MaxCalls
    /\ swept \subseteq Notices

(* Whatever else connects, registers and goes, a message is only ever written
   to a connection that is registered: its handler has not closed it.      *)
WritesStayInside ==
    \A s \in Senders :
        /\ sender[s].writing # None => sender[s].writing \in conns
        /\ sender[s].todo \subseteq conns

(* A notification the client shows as read has been marked read, unless it
   was created while a mark-all of this client was under way.              *)
UnreadIsNeverHidden ==
    \A i \in Notices : mounted /\ items[i] = "read" => rows[i] = "read" \/ i \in swept

(* When nothing is under way, the client shows the table, the bell's count
   included, unless since its last list something was missed, marked
   elsewhere, failed or overlapped.                                        *)
Quiet == (\A n \in CallIds : ~Pending(n)) /\ \A i \in Notices : ~Coming(i)
FeedTellsTheTruth == mounted /\ Quiet /\ ~doubt => items = rows

(* Handlers and senders lock one another out by turns, but the hub only ever
   stands still for a client that has stalled while it is written to.      *)
OnlyStallsBlock ==
    WriterWaits \/ (\E s \in Senders : sender[s].pc # "idle") =>
        \/ \E s \in Senders : ENABLED SenderStep(s)
        \/ \E c \in Conns : ENABLED (Register(c) \/ Unregister(c))
        \/ \E s \in Senders, c \in Conns : sender[s].writing = c /\ line[c] = "stalled"

(* What a sender needs for its next step: the read lock, a connection left in
   its loop, or a line that takes what it is writing.                      *)
SenderReady(s) ==
    \/ sender[s].pc = "rlock" /\ ~WriterWaits
    \/ sender[s].writing = None /\ sender[s].todo # {}
    \/ sender[s].writing # None /\ line[sender[s].writing] # "stalled"

(* The same with the guards spelled out: whoever waits for the lock or holds it
   waits in the end for a sender that can go on, for nobody, or for a client
   that has stalled in the middle of a write.  There is no other knot.     *)
OnlyStallsWait ==
    WriterWaits \/ (\E s \in Senders : sender[s].pc # "idle") =>
        \/ \E s \in Senders : SenderReady(s)
        \/ WriterWaits /\ ~ReadLocked
        \/ \E s \in Senders, c \in Conns : sender[s].writing = c /\ line[c] = "stalled"

(* The feed shows that it loads only while a list that it will hear of is under
   way, answered or failed.                                                *)
LoadsAreUnderWay ==
    mounted /\ (loading \/ refreshing) =>
        \E n \in CallIds : calls[n].op = "list" /\ calls[n].live /\ calls[n].stage # "refused"
=============================================================================
