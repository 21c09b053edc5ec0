---------------------------- MODULE AttendeeProofs ----------------------------
(***************************************************************************)
(* What the phone's screens keep true of the server's rows, for any number *)
(* of events, filters, requests and failures, in whatever order answers    *)
(* arrive.                                                                 *)
(***************************************************************************)
EXTENDS AttendeeApp, TLAPS

-----------------------------------------------------------------------------
(* Requests. *)
Op == {"load", "reload", "rsvp", "cancel", "save", "unsave", "review", "list", "home", "search"}
Topic == Facts \cup {"listed"}
Reply == SUBSET (Topic \X Events)

LEMMA CallIs ==
    Call = [op: Op \cup {"none"}, about: Events \cup {None}, filter: Filters \cup {None},
            live: BOOLEAN, stage: Stage, reply: Reply]
  BY DEF Call, Op, Reply, Topic

(* Loads of a page are dropped with it; other requests outlive it, and only
   those of the page that is there are heard.                              *)
EventReads == {"load", "reload"}
Fits(c) ==
    /\ c.op \in PageOps => c.about \in Events
    /\ c.op \in EventReads \cup {"list", "search"} => c.live
    /\ c.op \in PageOps /\ c.live => tab = "event" /\ c.about = screen.event
    /\ c.op = "load" => ~screen.found

CallsFit == \A n \in CallIds : Fits(calls[n])
OneLoad == \A m, n \in CallIds : calls[m].op = "load" /\ calls[n].op = "load" => m = n

(* The types by parts. *)
ServerTyped == status \in [Events -> EventStatus] /\ rows \subseteq Facts \X Events
ScreenTyped ==
    /\ tab \in {"home", "search", "my_events", "event"}
    /\ screen \in Screen /\ mine \in MyEvents /\ doubt \subseteq Marks
CallsTyped == calls \in [CallIds -> Call]
NetworkTyped == CallsTyped /\ sent \in 0..MaxCalls /\ lost \in 0..MaxLost
DiscoveryTyped == home \in Home /\ search \in Search /\ asked \in Filter /\ muddled \in BOOLEAN

LEMMA TypeOKIs == TypeOK <=> ServerTyped /\ ScreenTyped /\ NetworkTyped /\ DiscoveryTyped
  BY DEF TypeOK, ServerTyped, ScreenTyped, NetworkTyped, CallsTyped, DiscoveryTyped

LEMMA TypesAfter == ServerTyped' /\ ScreenTyped' /\ NetworkTyped' /\ DiscoveryTyped' => TypeOK'
  BY DEF TypeOK, ServerTyped, ScreenTyped, NetworkTyped, CallsTyped, DiscoveryTyped

LEMMA NoCallTyped == NoCall \in Call /\ NoCall.op = "none"
  BY CallIs DEF NoCall, Stage, Reply

LEMMA NewCallIs ==
    ASSUME NEW op \in Op, NEW about \in Events \cup {None}, NEW filter \in Filters \cup {None}
    PROVE  LET r == NewCall(op, about, filter) IN
           /\ r \in Call
           /\ r.op = op /\ r.about = about /\ r.filter = filter /\ r.live /\ r.stage = "sent"
  BY NoCallTyped, CallIs DEF NewCall, NoCall

(* One request takes a free place. *)
Placed(n, r) ==
    /\ calls[n].op = "none"
    /\ r \in Call
    /\ \A m \in CallIds : calls'[m] = IF m = n THEN r ELSE calls[m]

LEMMA SendPlaces ==
    ASSUME NetworkTyped, NEW op \in Op, NEW about \in Events \cup {None},
           NEW filter \in Filters \cup {None}, Send(op, about, filter)
    PROVE  /\ NetworkTyped'
           /\ \E n \in CallIds, r \in Call :
                 /\ Placed(n, r)
                 /\ r.op = op /\ r.about = about /\ r.filter = filter /\ r.live
                 /\ r.stage = "sent"
  <1>1. PICK n \in CallIds : /\ calls[n].op = "none"
                            /\ calls' = [calls EXCEPT ![n] = NewCall(op, about, filter)]
    BY DEF Send, SendFrom
  <1>2. PICK r : r = NewCall(op, about, filter)
    OBVIOUS
  <1>3. /\ r \in Call
        /\ r.op = op /\ r.about = about /\ r.filter = filter /\ r.live /\ r.stage = "sent"
    BY <1>2, NewCallIs
  <1>4. sent' \in 0..MaxCalls /\ lost' = lost
    BY BoundsAreNatural DEF Send, SendFrom, NetworkTyped
  <1>5. CallsTyped'
    BY <1>1, <1>2, <1>3 DEF NetworkTyped, CallsTyped
  <1>6. Placed(n, r)
    BY <1>1, <1>2, <1>3 DEF Placed, NetworkTyped, CallsTyped
  <1> QED BY <1>3, <1>4, <1>5, <1>6 DEF NetworkTyped

(* One request moves on, or is over: r has nothing of it but what it asked. *)
Moved(n, r) ==
    /\ r \in Call
    /\ r.op = calls[n].op /\ r.about = calls[n].about /\ r.filter = calls[n].filter
    /\ r.live = calls[n].live
    /\ \A m \in CallIds : calls'[m] = IF m = n THEN r ELSE calls[m]
Over(n) ==
    /\ calls'[n].op = "none" /\ calls'[n] \in Call
    /\ \A m \in CallIds : m # n => calls'[m] = calls[m]

LEMMA SettleSettles ==
    ASSUME NetworkTyped, NEW n \in CallIds, Settle(n)
    PROVE  NetworkTyped' /\ Over(n)
  BY NoCallTyped DEF NetworkTyped, CallsTyped, Settle, Over

LEMMA AnswerMoves ==
    ASSUME CallsTyped, NEW n \in CallIds, NEW reply \in Reply,
           calls' = [calls EXCEPT ![n].stage = "answered", ![n].reply = reply]
    PROVE  CallsTyped' /\ \E r \in Call : /\ Moved(n, r)
                                          /\ r.stage = "answered" /\ r.reply = reply
  <1>1. PICK r : r = calls'[n]
    OBVIOUS
  <1>2. r = [calls[n] EXCEPT !.stage = "answered", !.reply = reply]
    BY <1>1 DEF CallsTyped
  <1>3. /\ r \in Call /\ r.stage = "answered" /\ r.reply = reply
        /\ r.op = calls[n].op /\ r.about = calls[n].about /\ r.filter = calls[n].filter
        /\ r.live = calls[n].live
    BY <1>2, CallIs DEF CallsTyped, Stage
  <1>4. calls' = [calls EXCEPT ![n] = r]
    BY <1>1 DEF CallsTyped
  <1> QED BY <1>3, <1>4 DEF CallsTyped, Moved

LEMMA RefuseMoves ==
    ASSUME NetworkTyped, NEW n \in CallIds, Refuse(n)
    PROVE  NetworkTyped' /\ \E r \in Call : Moved(n, r) /\ r.stage = "refused"
  <1>1. PICK r : r = calls'[n]
    OBVIOUS
  <1>2. r = [calls[n] EXCEPT !.stage = "refused"]
    BY <1>1 DEF NetworkTyped, CallsTyped, Refuse
  <1>3. /\ r \in Call /\ r.stage = "refused"
        /\ r.op = calls[n].op /\ r.about = calls[n].about /\ r.filter = calls[n].filter
        /\ r.live = calls[n].live
    BY <1>2, CallIs DEF NetworkTyped, CallsTyped, Stage
  <1>4. calls' = [calls EXCEPT ![n] = r]
    BY <1>1 DEF NetworkTyped, CallsTyped, Refuse
  <1> QED BY <1>3, <1>4 DEF NetworkTyped, CallsTyped, Moved, Refuse

LEMMA FailMoves ==
    ASSUME NetworkTyped, NEW n \in CallIds, Fail(n)
    PROVE  NetworkTyped' /\ \E r \in Call : Moved(n, r) /\ r.stage = "failed"
  <1>1. PICK r : r = calls'[n]
    OBVIOUS
  <1>2. r = [calls[n] EXCEPT !.stage = "failed", !.reply = {}]
    BY <1>1 DEF NetworkTyped, CallsTyped, Fail
  <1>3. /\ r \in Call /\ r.stage = "failed"
        /\ r.op = calls[n].op /\ r.about = calls[n].about /\ r.filter = calls[n].filter
        /\ r.live = calls[n].live
    BY <1>2, CallIs DEF NetworkTyped, CallsTyped, Stage, Reply
  <1>4. calls' = [calls EXCEPT ![n] = r]
    BY <1>1 DEF NetworkTyped, CallsTyped, Fail
  <1>5. lost' \in 0..MaxLost /\ sent' = sent
    BY BoundsAreNatural DEF NetworkTyped, Fail
  <1> QED BY <1>3, <1>4, <1>5 DEF NetworkTyped, CallsTyped, Moved, Fail

LEMMA AbandonedIs ==
    ASSUME NetworkTyped, Abandoned(PageOps)
    PROVE  /\ NetworkTyped'
           /\ \A n \in CallIds :
                 \/ calls'[n].op = "none"
                 \/ calls[n].op \notin PageOps /\ calls'[n] = calls[n]
                 \/ /\ calls[n].op \in PageOps \ EventReads
                    /\ calls'[n] = [calls[n] EXCEPT !.live = FALSE]
                    /\ calls'[n].op = calls[n].op /\ calls'[n].about = calls[n].about
                    /\ calls'[n].stage = calls[n].stage /\ ~calls'[n].live
  <1>1. \A n \in CallIds : /\ [calls[n] EXCEPT !.live = FALSE] \in Call
                           /\ LET r == [calls[n] EXCEPT !.live = FALSE] IN
                              /\ r.op = calls[n].op /\ r.about = calls[n].about
                              /\ r.stage = calls[n].stage /\ ~r.live
    BY CallIs DEF NetworkTyped, CallsTyped
  <1>2. \A n \in CallIds : calls'[n] =
           CASE calls[n].op \in EventReads -> NoCall
             [] calls[n].op \in PageOps \ EventReads -> [calls[n] EXCEPT !.live = FALSE]
             [] OTHER -> calls[n]
    BY DEF Abandoned, Without, PageOps, EventReads
  <1>3. \A n \in CallIds :
           \/ calls'[n] = NoCall
           \/ calls[n].op \notin PageOps /\ calls'[n] = calls[n]
           \/ /\ calls[n].op \in PageOps \ EventReads
              /\ calls'[n] = [calls[n] EXCEPT !.live = FALSE]
    BY <1>2 DEF PageOps, EventReads
  <1>4. \A n \in CallIds : calls'[n] \in Call
    BY <1>1, <1>3, NoCallTyped DEF NetworkTyped, CallsTyped
  <1>5. NetworkTyped'
    BY <1>4 DEF NetworkTyped, CallsTyped, Abandoned, Without
  <1> QED BY <1>1, <1>3, <1>5, NoCallTyped

-----------------------------------------------------------------------------
(* Types. *)
TypeInv == TypeOK /\ CallsFit /\ OneLoad

(* No request is new, and those that go on ask what they asked. *)
CallsGoOn ==
    \A m \in CallIds :
        \/ calls'[m].op = "none"
        \/ /\ calls'[m].op = calls[m].op /\ calls'[m].about = calls[m].about
           /\ calls'[m].filter = calls[m].filter /\ calls'[m].live = calls[m].live

PageStays == screen'.event = screen.event /\ screen'.found = screen.found
TabsApart == tab' = tab \/ (tab # "event" /\ tab' # "event")

LEMMA OverGoesOn ==
    ASSUME NEW n \in CallIds, Over(n) \/ \E r : Moved(n, r)
    PROVE  CallsGoOn
  BY DEF Over, Moved, CallsGoOn

LEMMA GoOnFits ==
    ASSUME CallsFit, OneLoad, CallsGoOn, TabsApart, screen'.event = screen.event,
           screen'.found => screen.found \/ \A m \in CallIds : calls'[m].op # "load"
    PROVE  CallsFit' /\ OneLoad'
  <1>1. OneLoad'
    BY DEF OneLoad, CallsGoOn
  <1>2. ASSUME NEW m \in CallIds PROVE Fits(calls[m])'
    <2>1. Fits(calls[m])
      BY DEF CallsFit
    <2>2. CASE calls'[m].op = "none"
      BY <2>2 DEF Fits, PageOps, EventReads
    <2>3. CASE calls'[m].op # "none"
      BY <2>1, <2>3, SMTT(30) DEF CallsGoOn, TabsApart, Fits, PageOps, EventReads
    <2> QED BY <2>2, <2>3
  <1> QED BY <1>1, <1>2 DEF CallsFit

LEMMA PlacedFits ==
    ASSUME CallsFit, OneLoad, TabsApart, PageStays, NEW n \in CallIds, NEW r \in Call,
           Placed(n, r), r.live, r.op # "load",
           r.op \in PageOps => tab' = "event" /\ r.about = screen.event,
           r.op \in PageOps => r.about \in Events
    PROVE  CallsFit' /\ OneLoad'
  <1>1. OneLoad'
    BY DEF OneLoad, Placed
  <1>2. ASSUME NEW m \in CallIds PROVE Fits(calls[m])'
    <2>1. Fits(calls[m])
      BY DEF CallsFit
    <2>2. CASE m = n
      BY <2>2 DEF Placed, Fits, PageOps, EventReads, PageStays
    <2>3. CASE m # n
      BY <2>1, <2>3 DEF Placed, Fits, PageOps, EventReads, PageStays, TabsApart
    <2> QED BY <2>2, <2>3
  <1> QED BY <1>1, <1>2 DEF CallsFit

LEMMA FreshTyped == \A e \in Events : Fresh(e) \in Screen /\ Fresh(e).event = e /\ ~Fresh(e).found
                                      /\ ~Fresh(e).reviewSuccess
  BY DEF Fresh, Screen

LEMMA AwayIsQuiet ==
    ASSUME CallsFit, tab # "event"
    PROVE  \A n \in CallIds : calls[n].op \notin EventReads /\ ~(calls[n].op \in PageOps /\ calls[n].live)
  BY DEF CallsFit, Fits, PageOps, EventReads

LEMMA TypeStarts == Init => TypeInv
  <1> SUFFICES ASSUME Init PROVE TypeInv
    OBVIOUS
  <1>1. NoFilter \in Filter
    BY DEF NoFilter, Filter
  <1>2. NewCall("home", None, None) \in Call /\ NewCall("home", None, None).op = "home"
    BY NewCallIs DEF Op
  <1>3. CallsTyped
    BY <1>2, NoCallTyped DEF Init, CallsTyped
  <1>4. NetworkTyped
    BY <1>3, BoundsAreNatural DEF Init, NetworkTyped
  <1>5. \A n \in CallIds : calls[n].op \in {"home", "none"}
    BY <1>2, NoCallTyped DEF Init
  <1>6. CallsFit /\ OneLoad
    BY <1>5 DEF CallsFit, OneLoad, Fits, PageOps, EventReads
  <1>7. ServerTyped
    BY DEF Init, ServerTyped, EventStatus
  <1>8. ScreenTyped
    BY FreshTyped DEF Init, ScreenTyped, MyEvents, Lists
  <1>9. DiscoveryTyped
    BY <1>1 DEF Init, DiscoveryTyped, Home, Search
  <1> QED BY <1>4, <1>6, <1>7, <1>8, <1>9, TypeOKIs DEF TypeInv

LEMMA SameTyped ==
    ASSUME TypeOK
    PROVE  /\ UNCHANGED server => ServerTyped'
           /\ UNCHANGED discovery => DiscoveryTyped'
           /\ UNCHANGED <<tab, screen, mine, doubt>> => ScreenTyped'
           /\ UNCHANGED network => NetworkTyped'
  BY DEF TypeOK, ServerTyped, DiscoveryTyped, ScreenTyped, NetworkTyped, CallsTyped,
         server, discovery, network

LEMMA DoubtTyped ==
    ASSUME doubt \subseteq Marks
    PROVE  /\ \A op : DoubtAfterWrite(op) \subseteq Marks
           /\ \A op, done : DoubtAfterRead(op, done) \subseteq Marks
           /\ \A g : NowKnown(g) \subseteq Marks
  BY DEF DoubtAfterWrite, DoubtAfterRead, NowKnown, Marks, Writes, Facts

LEMMA OpenTyped ==
    ASSUME TypeInv, tab # "event", NEW e \in Events, Open(e), UNCHANGED discovery
    PROVE  TypeInv'
  <1>1. NetworkTyped
    BY TypeOKIs DEF TypeInv
  <1>2. NetworkTyped' /\ \E n \in CallIds, r \in Call :
           /\ Placed(n, r) /\ r.op = "load" /\ r.about = e /\ r.live
    BY <1>1, SendPlaces DEF Open, Op
  <1>3. ScreenTyped'
    BY FreshTyped, DoubtTyped, TypeOKIs DEF TypeInv, ScreenTyped, Open
  <1>4. TypeOK'
    BY <1>2, <1>3, SameTyped, TypeOKIs, TypesAfter DEF TypeInv, Open
  <1>5. PICK n \in CallIds, r \in Call : Placed(n, r) /\ r.op = "load" /\ r.about = e /\ r.live
    BY <1>2
  <1>6. OneLoad'
    BY <1>5, AwayIsQuiet DEF OneLoad, Placed, TypeInv, EventReads
  <1>7. ASSUME NEW m \in CallIds PROVE Fits(calls[m])'
    <2>1. CASE m = n
      BY <2>1, <1>5, FreshTyped DEF Placed, Fits, PageOps, EventReads, Open
    <2>2. CASE m # n
      <3>1. calls'[m] = calls[m] /\ Fits(calls[m]) /\ ~(calls[m].op \in PageOps /\ calls[m].live)
            /\ calls[m].op \notin EventReads
        BY <2>2, <1>5, AwayIsQuiet DEF Placed, TypeInv, CallsFit
      <3> QED BY <3>1 DEF Fits, PageOps, EventReads
    <2> QED BY <2>1, <2>2
  <1> QED BY <1>4, <1>6, <1>7 DEF TypeInv, CallsFit

LEMMA GoBackTyped ==
    ASSUME TypeInv, GoBack, UNCHANGED discovery
    PROVE  TypeInv'
  <1>1. NetworkTyped
    BY TypeOKIs DEF TypeInv
  <1>2. NetworkTyped' /\ \A n \in CallIds :
                 \/ calls'[n].op = "none"
                 \/ calls[n].op \notin PageOps /\ calls'[n] = calls[n]
                 \/ /\ calls[n].op \in PageOps \ EventReads
                    /\ calls'[n].op = calls[n].op /\ calls'[n].about = calls[n].about
                    /\ ~calls'[n].live
    BY <1>1, AbandonedIs DEF GoBack
  <1>3. ScreenTyped'
    BY FreshTyped, TypeOKIs DEF TypeInv, ScreenTyped, GoBack, Screen
  <1>4. TypeOK'
    BY <1>2, <1>3, SameTyped, TypeOKIs, TypesAfter DEF TypeInv, GoBack
  <1>5. OneLoad'
    BY <1>2 DEF OneLoad, PageOps, EventReads
  <1>6. ASSUME NEW m \in CallIds PROVE Fits(calls[m])'
    <2>1. Fits(calls[m])
      BY DEF TypeInv, CallsFit
    <2> QED BY <2>1, <1>2 DEF Fits, PageOps, EventReads
  <1> QED BY <1>4, <1>5, <1>6 DEF TypeInv, CallsFit

(* A request the page sends. *)
LEMMA WriteTyped ==
    ASSUME TypeInv, UNCHANGED <<server, tab, mine>>, UNCHANGED discovery,
           NEW op \in PageOps \ EventReads, Showing,
           Send(op, screen.event, None), doubt' = DoubtAfterWrite(op),
           screen' \in Screen, PageStays
    PROVE  TypeInv'
  <1>1. NetworkTyped /\ screen.event \in Events
    BY TypeOKIs DEF TypeInv, ScreenTyped, Screen
  <1>2. NetworkTyped' /\ \E n \in CallIds, r \in Call :
           /\ Placed(n, r) /\ r.op = op /\ r.about = screen.event /\ r.live
    BY <1>1, SendPlaces DEF Op, PageOps
  <1>3. ScreenTyped'
    BY DoubtTyped, TypeOKIs DEF TypeInv, ScreenTyped
  <1>4. TypeOK'
    BY <1>2, <1>3, SameTyped, TypeOKIs, TypesAfter DEF TypeInv
  <1>5. CallsFit' /\ OneLoad'
    BY <1>1, <1>2, PlacedFits DEF TypeInv, TabsApart, Showing, EventReads, PageOps
  <1> QED BY <1>4, <1>5 DEF TypeInv

LEMMA WritesTyped ==
    ASSUME TypeInv, UNCHANGED discovery,
           ToggleSave \/ OnRegister \/ OnCancelRegistration \/ SubmitReview
    PROVE  TypeInv'
  <1>1. screen \in Screen
    BY DEF TypeInv, TypeOK
  <1>2. CASE ToggleSave
    <2>1. PICK op \in {"save", "unsave"} :
             Send(op, screen.event, None) /\ doubt' = DoubtAfterWrite(op)
      BY <1>2 DEF ToggleSave
    <2> QED BY <1>1, <1>2, <2>1, WriteTyped DEF ToggleSave, PageOps, EventReads, PageStays
  <1>3. CASE OnRegister
    BY <1>1, <1>3, WriteTyped DEF OnRegister, PageOps, EventReads, PageStays, Screen
  <1>4. CASE OnCancelRegistration
    BY <1>1, <1>4, WriteTyped DEF OnCancelRegistration, PageOps, EventReads, PageStays, Screen
  <1>5. CASE SubmitReview
    BY <1>1, <1>5, WriteTyped DEF SubmitReview, PageOps, EventReads, PageStays, Screen
  <1> QED BY <1>2, <1>3, <1>4, <1>5

(* A modal opens or closes. *)
LEMMA ModalTyped ==
    ASSUME TypeInv, UNCHANGED discovery,
           OpenCancel \/ CloseCancel \/ OpenReview \/ CloseReview
    PROVE  TypeInv'
  <1>1. /\ UNCHANGED <<server, tab, mine, doubt, network>>
        /\ screen' \in Screen /\ PageStays
    BY DEF TypeInv, TypeOK, OpenCancel, CloseCancel, OpenReview, CloseReview, Screen, PageStays
  <1>2. TypeOK'
    BY <1>1, SameTyped, TypeOKIs, TypesAfter DEF TypeInv, ScreenTyped
  <1>3. CallsFit' /\ OneLoad'
    BY <1>1, GoOnFits DEF TypeInv, CallsGoOn, network, PageStays, TabsApart
  <1> QED BY <1>2, <1>3 DEF TypeInv

LEMMA MyEventsTyped ==
    ASSUME TypeInv, UNCHANGED discovery, FocusMyEvents \/ PullMyEvents \/ LeaveMyEvents
    PROVE  TypeInv'
  <1>1. ScreenTyped' /\ UNCHANGED server /\ PageStays /\ TabsApart
    BY DoubtTyped DEF TypeInv, TypeOK, ScreenTyped, FocusMyEvents, PullMyEvents, LeaveMyEvents,
                      MyEvents, PageStays, TabsApart
  <1>2. NetworkTyped
    BY TypeOKIs DEF TypeInv
  <1>3. CASE Send("list", None, None)
    <2>1. NetworkTyped' /\ \E n \in CallIds, r \in Call : Placed(n, r) /\ r.op = "list" /\ r.live
      BY <1>2, <1>3, SendPlaces DEF Op
    <2>2. CallsFit' /\ OneLoad'
      BY <1>1, <2>1, PlacedFits DEF TypeInv, PageOps
    <2> QED BY <1>1, <2>1, <2>2, SameTyped, TypesAfter DEF TypeInv
  <1>4. CASE UNCHANGED network
    <2>1. CallsFit' /\ OneLoad'
      BY <1>1, <1>4, GoOnFits DEF TypeInv, CallsGoOn, network, PageStays
    <2> QED BY <1>1, <1>4, <2>1, SameTyped, TypesAfter DEF TypeInv
  <1> QED BY <1>3, <1>4 DEF FocusMyEvents, PullMyEvents, LeaveMyEvents

LEMMA OrganizerTyped ==
    ASSUME TypeInv, UNCHANGED discovery, NEW e \in Events, CloseRegistration(e) \/ CancelEvent(e)
    PROVE  TypeInv'
  <1>1. ServerTyped' /\ UNCHANGED <<tab, screen, mine, doubt, network>>
    BY DEF TypeInv, TypeOK, ServerTyped, CloseRegistration, CancelEvent, EventStatus
  <1>2. CallsFit' /\ OneLoad'
    BY <1>1, GoOnFits DEF TypeInv, CallsGoOn, network, TabsApart
  <1> QED BY <1>1, <1>2, SameTyped, TypesAfter DEF TypeInv

LEMMA FailTyped ==
    ASSUME TypeInv, UNCHANGED discovery, NEW n \in CallIds, CallFails(n)
    PROVE  TypeInv'
  <1>1. NetworkTyped' /\ CallsGoOn
    BY FailMoves, OverGoesOn, TypeOKIs DEF TypeInv, CallFails
  <1>2. ScreenTyped' /\ UNCHANGED <<server, tab, screen>>
    BY DEF TypeInv, TypeOK, ScreenTyped, CallFails, Writes, Facts, Copies, Marks
  <1>3. CallsFit' /\ OneLoad'
    BY <1>1, <1>2, GoOnFits DEF TypeInv, TabsApart
  <1> QED BY <1>1, <1>2, <1>3, SameTyped, TypesAfter DEF TypeInv

LEMMA DiscoverTyped ==
    ASSUME TypeInv, Discover
    PROVE  TypeInv'
  <1>1. NetworkTyped
    BY TypeOKIs DEF TypeInv
  <1>2. UNCHANGED server /\ ScreenTyped' /\ PageStays /\ TabsApart
    BY DEF TypeInv, TypeOK, ScreenTyped, Discover, PullHome, EnterSearch, LeaveSearch, RunSearch,
           HideResults, ClearAll, SelectCategory, EditFilter, app, PageStays, TabsApart
  <1>3. NoFilter \in Filter
    BY DEF NoFilter, Filter
  <1>4. DiscoveryTyped'
    <2> USE DEF TypeInv, TypeOK, DiscoveryTyped
    <2>1. CASE PullHome
      BY <2>1 DEF PullHome, Home
    <2>2. CASE EnterSearch \/ LeaveSearch
      BY <2>2 DEF EnterSearch, LeaveSearch
    <2>3. CASE RunSearch
      <3>1. search.filter \in Filter
        BY DEF Search
      <3>2. muddled' \in BOOLEAN
        BY <2>3 DEF RunSearch, Searching
      <3>3. search' \in Search
        BY <2>3 DEF RunSearch, Search
      <3> QED BY <2>3, <3>1, <3>2, <3>3 DEF RunSearch
    <2>4. CASE HideResults \/ ClearAll
      BY <2>4, <1>3 DEF HideResults, ClearAll, Search
    <2>5. ASSUME NEW c \in Categories \cup {None}, SelectCategory(c) PROVE DiscoveryTyped'
      BY <2>5 DEF SelectCategory, Home
    <2>6. ASSUME NEW filter \in Filter, EditFilter(filter) PROVE DiscoveryTyped'
      BY <2>6 DEF EditFilter, Search
    <2> QED BY <2>1, <2>2, <2>3, <2>4, <2>5, <2>6 DEF Discover
  <1>5. CASE PullHome
    <2>1. NetworkTyped' /\ \E n \in CallIds, r \in Call : Placed(n, r) /\ r.op = "home" /\ r.live
      BY <1>1, <1>5, SendPlaces DEF PullHome, Op
    <2>2. CallsFit' /\ OneLoad'
      BY <1>2, <2>1, PlacedFits DEF TypeInv, PageOps
    <2> QED BY <1>2, <1>4, <2>1, <2>2, SameTyped, TypesAfter DEF TypeInv
  <1>6. CASE RunSearch
    <2>1. search.filter \in Filters
      BY SearchesAskForFilters DEF TypeInv, TypeOK, Search
    <2>2. NetworkTyped' /\ \E n \in CallIds, r \in Call : Placed(n, r) /\ r.op = "search" /\ r.live
      BY <1>1, <1>6, <2>1, SendPlaces DEF RunSearch, Op
    <2>3. CallsFit' /\ OneLoad'
      BY <1>2, <2>2, PlacedFits DEF TypeInv, PageOps
    <2> QED BY <1>2, <1>4, <2>2, <2>3, SameTyped, TypesAfter DEF TypeInv
  <1>7. CASE UNCHANGED network
    <2>1. CallsFit' /\ OneLoad'
      BY <1>2, <1>7, GoOnFits DEF TypeInv, CallsGoOn, network, PageStays
    <2> QED BY <1>2, <1>4, <1>7, <2>1, SameTyped, TypesAfter DEF TypeInv
  <1> QED BY <1>5, <1>6, <1>7 DEF Discover, EnterSearch, LeaveSearch, HideResults, ClearAll,
                                  SelectCategory, EditFilter

(* The server answers, refuses or fails the call. *)
LEMMA ServedTyped ==
    ASSUME TypeInv, UNCHANGED discovery, NEW n \in CallIds,
           ServeRsvp(n) \/ ServeCancel(n) \/ ServeSave(n) \/ ServeUnsave(n) \/ ServeReview(n)
    PROVE  TypeInv'
  <1>1. calls[n].op \in PageOps
    BY DEF ServeRsvp, ServeCancel, ServeSave, ServeUnsave, ServeReview, PageOps
  <1>2. calls[n].about \in Events
    BY <1>1 DEF TypeInv, CallsFit, Fits
  <1>3. ServerTyped' /\ UNCHANGED <<tab, screen, mine, doubt>>
    BY <1>2 DEF TypeInv, TypeOK, ServerTyped, ServeRsvp, ServeCancel, ServeSave, ServeUnsave,
                ServeReview, Granted, Denied, Of, Facts, server
  <1>4. \/ Refuse(n)
        \/ Answer(n, {})
    BY DEF ServeRsvp, ServeCancel, ServeSave, ServeUnsave, ServeReview, Granted, Denied
  <1>5. NetworkTyped
    BY TypeOKIs DEF TypeInv
  <1>6. NetworkTyped' /\ \E r \in Call : Moved(n, r)
    <2>1. CASE Refuse(n)
      BY <1>5, <2>1, RefuseMoves
    <2>2. CASE Answer(n, {})
      <3>1. {} \in Reply /\ CallsTyped
        BY <1>5 DEF Reply, NetworkTyped
      <3>2. CallsTyped' /\ \E r \in Call : Moved(n, r)
        BY <2>2, <3>1, AnswerMoves DEF Answer
      <3> QED BY <1>5, <2>2, <3>2 DEF NetworkTyped, Answer
    <2> QED BY <1>4, <2>1, <2>2
  <1>7. CallsFit' /\ OneLoad'
    BY <1>3, <1>6, OverGoesOn, GoOnFits DEF TypeInv, TabsApart
  <1> QED BY <1>3, <1>6, <1>7, SameTyped, TypesAfter DEF TypeInv

LEMMA RepliesAre ==
    ASSUME TypeOK
    PROVE  /\ rows \in Reply
           /\ \A missing : {r \in rows : r[1] \in Lists \ missing} \in Reply
           /\ \A unread : {r \in rows : r[1] \notin unread} \in Reply
           /\ \A es \in SUBSET Events : {"listed"} \X es \in Reply
  BY DEF TypeOK, Reply, Topic

LEMMA ReadTyped ==
    ASSUME TypeInv, NEW n \in CallIds,
           \/ (ServeLoad(n) \/ ServeList(n)) /\ UNCHANGED discovery
           \/ ServeHome(n) \/ ServeSearch(n)
    PROVE  TypeInv'
  <1>1. NetworkTyped
    BY TypeOKIs DEF TypeInv
  <1>2. UNCHANGED server /\ UNCHANGED <<tab, screen, mine>> /\ UNCHANGED discovery
    BY DEF ServeLoad, ServeList, ServeHome, ServeSearch, app, discovery, server
  <1>3. ScreenTyped'
    <2>1. doubt' = doubt \/ \E copy \in {"list", "lookup"}, missing \in SUBSET Lists :
                                doubt' = doubt \cup {copy} \X missing
      BY DEF ServeLoad, LoadServed, LoadRefused, ServeList, ServeHome, ServeSearch, app
    <2> QED BY <1>2, <2>1 DEF TypeInv, TypeOK, ScreenTyped, Marks, Copies, Lists, Facts
  <1>4. \/ Refuse(n)
        \/ \E reply \in Reply :
              calls' = [calls EXCEPT ![n].stage = "answered", ![n].reply = reply]
    BY RepliesAre DEF TypeInv, ServeLoad, LoadServed, LoadRefused, ServeList, ServeHome,
                      ServeSearch, Answer, Public, Found
  <1>5. sent' = sent /\ lost' \in 0..MaxLost
    BY <1>1, BoundsAreNatural
       DEF NetworkTyped, ServeLoad, LoadServed, LoadRefused, ServeList, ServeHome, ServeSearch,
           Answer, Refuse
  <1>6. NetworkTyped' /\ \E r \in Call : Moved(n, r)
    <2>1. CASE Refuse(n)
      BY <1>1, <2>1, RefuseMoves
    <2>2. CASE ~Refuse(n)
      BY <1>1, <1>4, <1>5, <2>2, AnswerMoves DEF NetworkTyped
    <2> QED BY <2>1, <2>2
  <1>7. CallsFit' /\ OneLoad'
    BY <1>2, <1>6, OverGoesOn, GoOnFits DEF TypeInv, TabsApart
  <1> QED BY <1>2, <1>3, <1>6, <1>7, SameTyped, TypesAfter DEF TypeInv

(* A component takes the answer of call n, which is over. *)
Taken(n) ==
    \/ LoadAnswered(n) \/ LoadFailed(n) \/ ReloadAnswered(n) \/ ReloadFailed(n)
    \/ SaveAnswered(n) \/ SaveFailed(n) \/ RsvpAnswered(n) \/ CancelAnswered(n)
    \/ ActionFailed(n) \/ ReviewFailed(n) \/ ListAnswered(n) \/ NobodyHears(n)

LEMMA TakenScreen ==
    ASSUME TypeOK, NEW n \in CallIds, Taken(n)
    PROVE  /\ screen' \in Screen /\ screen'.event = screen.event
           /\ screen'.found = screen.found \/ calls[n].op = "load"
           /\ mine' \in MyEvents /\ doubt' \subseteq Marks
           /\ Settle(n) /\ UNCHANGED <<server, tab>>
  <1>1. \A reply : [f \in Facts |-> <<f, screen.event>> \in reply] \in [Facts -> BOOLEAN]
    OBVIOUS
  <1> USE DEF TypeOK, Screen
  <1>2. CASE LoadAnswered(n) \/ ReloadAnswered(n)
    <2>1. PICK is \in [Facts -> BOOLEAN] : is = [f \in Facts |-> <<f, screen.event>> \in calls[n].reply]
      BY <1>1
    <2>2. CASE LoadAnswered(n)
      <3>1. screen' = [screen EXCEPT !.loading = FALSE, !.found = TRUE, !.is = is]
        BY <2>1, <2>2 DEF LoadAnswered
      <3>2. screen' \in Screen /\ screen'.event = screen.event
        BY <3>1
      <3> QED BY <2>2, <3>2 DEF LoadAnswered, Settling
    <2>3. CASE ReloadAnswered(n)
      <3>1. screen' = [screen EXCEPT !.reviewLoading = FALSE, !.is = is]
        BY <2>1, <2>3 DEF ReloadAnswered
      <3>2. screen' \in Screen /\ screen'.event = screen.event /\ screen'.found = screen.found
        BY <3>1
      <3> QED BY <2>3, <3>2 DEF ReloadAnswered
    <2> QED BY <1>2, <2>2, <2>3
  <1>3. CASE LoadFailed(n) \/ ReloadFailed(n)
    BY <1>3 DEF LoadFailed, ReloadFailed, Marks, Copies
  <1>4. CASE SaveAnswered(n)
    <2>1. PICK b \in BOOLEAN : screen' = [screen EXCEPT !.is["saved"] = b]
      BY <1>4 DEF SaveAnswered
    <2>2. screen' \in Screen /\ screen'.event = screen.event /\ screen'.found = screen.found
      BY <2>1 DEF Facts
    <2> QED BY <1>4, <2>2, DoubtTyped DEF SaveAnswered
  <1>5. CASE RsvpAnswered(n) \/ CancelAnswered(n)
    <2>1. CASE RsvpAnswered(n)
      <3>1. PICK is : is = [screen.is EXCEPT !["registered"] = TRUE]
        OBVIOUS
      <3>2. is \in [Facts -> BOOLEAN] /\ screen' = [screen EXCEPT !.actionLoading = FALSE, !.is = is]
        BY <2>1, <3>1 DEF RsvpAnswered, Facts
      <3>3. screen' \in Screen /\ screen'.event = screen.event /\ screen'.found = screen.found
        BY <3>2
      <3> QED BY <2>1, <3>3, DoubtTyped DEF RsvpAnswered
    <2>2. CASE CancelAnswered(n)
      <3>1. PICK is : is = [screen.is EXCEPT !["registered"] = FALSE]
        OBVIOUS
      <3>2. is \in [Facts -> BOOLEAN]
            /\ screen' = [screen EXCEPT !.actionLoading = FALSE, !.cancelOpen = FALSE, !.is = is]
        BY <2>2, <3>1 DEF CancelAnswered, Facts
      <3>3. screen' \in Screen /\ screen'.event = screen.event /\ screen'.found = screen.found
        BY <3>2
      <3> QED BY <2>2, <3>3, DoubtTyped DEF CancelAnswered
    <2> QED BY <1>5, <2>1, <2>2
  <1>6. CASE ActionFailed(n) \/ ReviewFailed(n)
    BY <1>6 DEF ActionFailed, ReviewFailed
  <1>7. CASE ListAnswered(n)
    BY <1>7 DEF ListAnswered, MyEvents
  <1>8. CASE SaveFailed(n) \/ NobodyHears(n)
    BY <1>8 DEF SaveFailed, NobodyHears
  <1> QED BY <1>2, <1>3, <1>4, <1>5, <1>6, <1>7, <1>8 DEF Taken

LEMMA TakenTyped ==
    ASSUME TypeInv, UNCHANGED discovery, NEW n \in CallIds, Taken(n)
    PROVE  TypeInv'
  <1>1. TypeOK /\ NetworkTyped
    BY TypeOKIs DEF TypeInv
  <1>2. NetworkTyped' /\ Over(n) /\ CallsGoOn
    BY <1>1, TakenScreen, SettleSettles, OverGoesOn
  <1>3. ScreenTyped' /\ UNCHANGED <<server, tab>>
    BY <1>1, TakenScreen DEF TypeOK, ScreenTyped
  <1>4. screen'.found => screen.found \/ \A m \in CallIds : calls'[m].op # "load"
    BY <1>1, <1>2, TakenScreen DEF Over, TypeInv, OneLoad
  <1>5. CallsFit' /\ OneLoad'
    BY <1>1, <1>2, <1>3, <1>4, TakenScreen, GoOnFits DEF TypeInv, TabsApart
  <1> QED BY <1>1, <1>2, <1>3, <1>5, SameTyped, TypesAfter DEF TypeInv

LEMMA ReviewTyped ==
    ASSUME TypeInv, UNCHANGED discovery, NEW n \in CallIds, ReviewAnswered(n)
    PROVE  TypeInv'
  <1>1. NetworkTyped /\ screen.event \in Events
    BY TypeOKIs DEF TypeInv, ScreenTyped, Screen
  <1>2. PICK r : r = NewCall("reload", screen.event, None)
    OBVIOUS
  <1>3. r \in Call /\ r.op = "reload" /\ r.about = screen.event /\ r.live
    BY <1>1, <1>2, NewCallIs DEF Op
  <1>4. \A m \in CallIds : calls'[m] = IF m = n THEN r ELSE calls[m]
    BY <1>1, <1>2 DEF ReviewAnswered, NetworkTyped, CallsTyped
  <1>5. NetworkTyped'
    BY <1>1, <1>2, <1>3 DEF ReviewAnswered, NetworkTyped, CallsTyped
  <1>6. ScreenTyped' /\ UNCHANGED <<server, tab>> /\ PageStays
    BY DoubtTyped DEF TypeInv, TypeOK, ScreenTyped, ReviewAnswered, Screen, PageStays
  <1>7. OneLoad'
    BY <1>3, <1>4 DEF TypeInv, OneLoad
  <1>8. tab = "event"
    BY DEF TypeInv, CallsFit, Fits, ReviewAnswered, Settling, PageOps
  <1>9. CallsFit'
    BY <1>1, <1>3, <1>4, <1>6, <1>8 DEF TypeInv, CallsFit, Fits, PageOps, EventReads, PageStays
  <1> QED BY <1>5, <1>6, <1>7, <1>9, SameTyped, TypesAfter DEF TypeInv

LEMMA FoundTyped ==
    ASSUME TypeInv, NEW n \in CallIds,
           HomeAnswered(n) \/ HomeFailed(n) \/ SearchAnswered(n) \/ SearchFailed(n)
    PROVE  TypeInv'
  <1>1. Settle(n) /\ UNCHANGED app
    BY DEF HomeAnswered, HomeFailed, SearchAnswered, SearchFailed
  <1>2. NetworkTyped
    BY TypeOKIs DEF TypeInv
  <1>3. NetworkTyped' /\ CallsGoOn
    BY <1>1, <1>2, SettleSettles, OverGoesOn
  <1>4. DiscoveryTyped'
    BY DEF HomeAnswered, HomeFailed, SearchAnswered, SearchFailed, TypeInv, TypeOK,
           DiscoveryTyped, Home, Search
  <1>5. CallsFit' /\ OneLoad'
    BY <1>1, <1>3, GoOnFits DEF TypeInv, app, TabsApart
  <1> QED BY <1>1, <1>3, <1>4, <1>5, SameTyped, TypesAfter DEF TypeInv, app

(* Cards are on the tabs, not on an event's page. *)
LEMMA CardsAreAway == \A e \in Events : TapCard(e) => tab # "event"
  BY DEF TapCard, OnScreen

LEMMA TypeStays == TypeInv /\ [Next]_vars => TypeInv'
  <1> SUFFICES ASSUME TypeInv, [Next]_vars PROVE TypeInv'
    OBVIOUS
  <1>1. CASE Page /\ UNCHANGED discovery
    <2>1. ASSUME NEW e \in Events, TapCard(e) PROVE TypeInv'
      BY <1>1, <2>1, CardsAreAway, OpenTyped DEF TapCard
    <2>2. CASE GoBack
      BY <1>1, <2>2, GoBackTyped
    <2>3. CASE ToggleSave \/ OnRegister \/ OnCancelRegistration \/ SubmitReview
      BY <1>1, <2>3, WritesTyped
    <2>4. CASE OpenCancel \/ CloseCancel \/ OpenReview \/ CloseReview
      BY <1>1, <2>4, ModalTyped
    <2>5. CASE FocusMyEvents \/ PullMyEvents \/ LeaveMyEvents
      BY <1>1, <2>5, MyEventsTyped
    <2>6. ASSUME NEW e \in Events, CloseRegistration(e) \/ CancelEvent(e) PROVE TypeInv'
      BY <1>1, <2>6, OrganizerTyped
    <2>7. ASSUME NEW n \in CallIds, CallFails(n) PROVE TypeInv'
      BY <1>1, <2>7, FailTyped
    <2> QED BY <1>1, <2>1, <2>2, <2>3, <2>4, <2>5, <2>6, <2>7 DEF Page
  <1>2. CASE Discover
    BY <1>2, DiscoverTyped
  <1>3. ASSUME NEW n \in CallIds, PageCall(n), UNCHANGED discovery PROVE TypeInv'
    <2>1. CASE Taken(n)
      BY <1>3, <2>1, TakenTyped
    <2>2. CASE ReviewAnswered(n)
      BY <1>3, <2>2, ReviewTyped
    <2>3. CASE ServeRsvp(n) \/ ServeCancel(n) \/ ServeSave(n) \/ ServeUnsave(n) \/ ServeReview(n)
      BY <1>3, <2>3, ServedTyped
    <2>4. CASE ServeLoad(n) \/ ServeList(n)
      BY <1>3, <2>4, ReadTyped
    <2> QED BY <1>3, <2>1, <2>2, <2>3, <2>4 DEF PageCall, Taken
  <1>4. ASSUME NEW n \in CallIds, DiscoveryCall(n) PROVE TypeInv'
    BY <1>4, FoundTyped, ReadTyped DEF DiscoveryCall
  <1>5. CASE UNCHANGED vars
    <2>1. UNCHANGED <<server, tab, screen, mine, doubt, network>> /\ UNCHANGED discovery
      BY <1>5 DEF vars, discovery
    <2>2. CallsFit' /\ OneLoad'
      BY <2>1, GoOnFits DEF TypeInv, CallsGoOn, network, TabsApart
    <2> QED BY <2>1, <2>2, SameTyped, TypesAfter DEF TypeInv
  <1> QED BY <1>1, <1>2, <1>3, <1>4, <1>5 DEF Next, CallGoesOn

(* Whatever arrives, and whenever, every screen and every request is of its
   kind.                                                                   *)
THEOREM AttendeeTyped == Spec => []TypeOK
  <1>1. TypeInv => TypeOK
    BY DEF TypeInv
  <1> QED BY <1>1, TypeStarts, TypeStays, PTL DEF Spec

-----------------------------------------------------------------------------
(* What a search has found. *)
Answering(results) == results \subseteq Matches(asked) /\ Found(asked) \subseteq results
Listed(c) == {e \in Events : <<"listed", e>> \in c.reply}

(* Unless muddled, a search under way asks for what was asked last.        *)
SearchTrue(c) ==
    c.op = "search" => c.filter = asked /\ (c.stage = "answered" => Answering(Listed(c)))
ResultsInv == ~muddled =>
    /\ \A n \in CallIds : SearchTrue(calls[n])
    /\ search.showResults /\ ~search.loading => Answering(search.results)

(* Events only ever leave the listing. *)
LEMMA PublicShrinks ==
    ASSUME TypeOK, [Next]_vars
    PROVE  Public' \subseteq Public
  <1>1. UNCHANGED status \/ \E e \in Events : CloseRegistration(e) \/ CancelEvent(e)
    <2>1. CASE Page
      BY <2>1 DEF Page, TapCard, Open, GoBack, ToggleSave, OnRegister, OpenCancel, CloseCancel,
             OnCancelRegistration, OpenReview, CloseReview, SubmitReview, FocusMyEvents,
             PullMyEvents, LeaveMyEvents, CallFails, server
    <2>2. CASE Discover
      BY <2>2 DEF Discover, PullHome, EnterSearch, LeaveSearch, RunSearch, HideResults, ClearAll,
             SelectCategory, EditFilter, app, server
    <2>3. ASSUME NEW n \in CallIds, PageCall(n) PROVE UNCHANGED status
      BY <2>3 DEF PageCall, LoadAnswered, LoadFailed, ReloadAnswered, ReloadFailed,
             SaveAnswered, SaveFailed, RsvpAnswered, CancelAnswered, ActionFailed,
             ReviewAnswered, ReviewFailed, ListAnswered, ServeRsvp, ServeCancel, ServeSave,
             ServeUnsave, ServeReview, ServeLoad, ServeList, NobodyHears, Granted, Denied, server
    <2>4. ASSUME NEW n \in CallIds, DiscoveryCall(n) PROVE UNCHANGED status
      BY <2>4 DEF DiscoveryCall, HomeAnswered, HomeFailed, SearchAnswered, SearchFailed,
             ServeHome, ServeSearch, app, server
    <2> QED BY <2>1, <2>2, <2>3, <2>4 DEF Next, CallGoesOn, vars, server
  <1>2. ASSUME NEW e \in Events, CloseRegistration(e) \/ CancelEvent(e)
        PROVE  Public' \subseteq Public
    BY <1>2 DEF CloseRegistration, CancelEvent, Public, TypeOK
  <1> QED BY <1>1, <1>2 DEF Public

LEMMA AnsweringLasts ==
    ASSUME TypeOK, [Next]_vars, asked' = asked
    PROVE  /\ \A results : Answering(results) => results \subseteq Matches(asked)' /\ Found(asked)' \subseteq results
           /\ \A c : SearchTrue(c) => SearchTrue(c)'
  <1>1. Matches(asked)' = Matches(asked) /\ Found(asked)' \subseteq Found(asked)
    BY PublicShrinks DEF Found, Matches
  <1> QED BY <1>1 DEF Answering, SearchTrue, Listed

(* No search is new, and none is answered. *)
SearchesWait ==
    \A m \in CallIds : calls'[m].op = "search" =>
        \/ calls'[m] = calls[m]
        \/ /\ calls[m].op = "search" /\ calls'[m].filter = calls[m].filter
           /\ calls'[m].stage # "answered"

LEMMA PageLeavesSearches ==
    ASSUME TypeInv, Page \/ \E n \in CallIds : PageCall(n)
    PROVE  SearchesWait
  <1>1. NetworkTyped /\ screen.event \in Events
    BY TypeOKIs DEF TypeInv, ScreenTyped, Screen
  <1>2. CASE UNCHANGED network
    BY <1>2 DEF SearchesWait, network
  <1>3. ASSUME NEW op \in Op \ {"search"}, NEW about \in Events \cup {None}, Send(op, about, None)
        PROVE  SearchesWait
    <2>1. \E n \in CallIds, r \in Call : Placed(n, r) /\ r.op = op
      BY <1>1, <1>3, SendPlaces
    <2> QED BY <2>1 DEF Placed, SearchesWait
  <1>4. ASSUME NEW n \in CallIds, Settle(n) PROVE SearchesWait
    BY <1>1, <1>4, SettleSettles DEF Over, SearchesWait
  <1>5. ASSUME NEW n \in CallIds, Refuse(n) \/ Fail(n) PROVE SearchesWait
    <2>1. \E r \in Call : Moved(n, r) /\ r.stage \in {"refused", "failed"}
      BY <1>1, <1>5, RefuseMoves, FailMoves
    <2> QED BY <2>1 DEF Moved, SearchesWait
  <1>6. ASSUME NEW n \in CallIds, NEW reply \in Reply, calls[n].op # "search",
               calls' = [calls EXCEPT ![n].stage = "answered", ![n].reply = reply]
        PROVE  SearchesWait
    <2>1. \E r \in Call : Moved(n, r)
      BY <1>1, <1>6, AnswerMoves DEF NetworkTyped
    <2> QED BY <2>1, <1>6 DEF Moved, SearchesWait
  <1>7. CASE Page
    <2>1. CASE GoBack
      <3>1. \A m \in CallIds : calls'[m].op \in PageOps \cup {"none"} \/ calls'[m] = calls[m]
        BY <1>1, <2>1, AbandonedIs DEF GoBack
      <3> QED BY <3>1 DEF SearchesWait, PageOps
    <2>2. ASSUME NEW e \in Events, Open(e) PROVE SearchesWait
      BY <2>2, <1>3 DEF Open, Op
    <2>3. CASE ToggleSave \/ OnRegister \/ OnCancelRegistration \/ SubmitReview
      BY <2>3, <1>1, <1>3 DEF ToggleSave, OnRegister, OnCancelRegistration, SubmitReview, Op
    <2>4. CASE FocusMyEvents \/ PullMyEvents
      BY <2>4, <1>3 DEF FocusMyEvents, PullMyEvents, Op
    <2>5. ASSUME NEW n \in CallIds, CallFails(n) PROVE SearchesWait
      BY <2>5, <1>5 DEF CallFails
    <2> QED BY <1>2, <1>7, <2>1, <2>2, <2>3, <2>4, <2>5
         DEF Page, TapCard, OpenCancel, CloseCancel, OpenReview, CloseReview, LeaveMyEvents,
             CloseRegistration, CancelEvent
  <1>8. ASSUME NEW n \in CallIds, PageCall(n) PROVE SearchesWait
    <2>1. CASE Taken(n)
      BY <2>1, <1>4, TakenScreen DEF TypeInv
    <2>2. CASE ReviewAnswered(n)
      <3>1. /\ \A m \in CallIds : m # n => calls'[m] = calls[m]
            /\ calls'[n].op = "reload"
        BY <1>1, <2>2, NewCallIs DEF ReviewAnswered, NetworkTyped, CallsTyped, Op
      <3> QED BY <3>1 DEF SearchesWait
    <2>3. CASE ServeRsvp(n) \/ ServeCancel(n) \/ ServeSave(n) \/ ServeUnsave(n) \/ ServeReview(n)
      <3>1. Refuse(n) \/ (calls[n].op # "search" /\ Answer(n, {}))
        BY <2>3 DEF ServeRsvp, ServeCancel, ServeSave, ServeUnsave, ServeReview, Granted, Denied
      <3>2. {} \in Reply
        BY DEF Reply
      <3> QED BY <3>1, <3>2, <1>5, <1>6 DEF Answer
    <2>4. CASE ServeLoad(n) \/ ServeList(n)
      <3>1. \/ Refuse(n)
            \/ calls[n].op # "search" /\ \E reply \in Reply :
                  calls' = [calls EXCEPT ![n].stage = "answered", ![n].reply = reply]
        BY <2>4, RepliesAre DEF TypeInv, ServeLoad, LoadServed, LoadRefused, ServeList
      <3> QED BY <3>1, <1>5, <1>6
    <2> QED BY <1>8, <2>1, <2>2, <2>3, <2>4 DEF PageCall, Taken
  <1> QED BY <1>7, <1>8

(* As long as what was asked stays, so does what was found. *)
LEMMA ResultsKept ==
    ASSUME TypeOK, ResultsInv, [Next]_vars, SearchesWait, UNCHANGED <<asked, muddled>>,
           \/ search' = search
           \/ ~search'.showResults
           \/ search'.loading = search.loading /\ search'.results = search.results
              /\ search'.showResults = search.showResults
    PROVE  ResultsInv'
  <1> SUFFICES ASSUME ~muddled PROVE ResultsInv'
    BY DEF ResultsInv
  <1>1. ASSUME NEW m \in CallIds PROVE SearchTrue(calls[m])'
    <2>1. SearchTrue(calls[m])
      BY DEF ResultsInv
    <2>2. CASE calls'[m] = calls[m]
      BY <2>1, <2>2, AnsweringLasts DEF SearchTrue, Listed, Answering
    <2>3. CASE calls'[m] # calls[m]
      BY <2>1, <2>3 DEF SearchTrue, SearchesWait
    <2> QED BY <2>2, <2>3
  <1>2. search'.showResults /\ ~search'.loading => Answering(search.results)'
    BY AnsweringLasts DEF ResultsInv, Answering
  <1> QED BY <1>1, <1>2 DEF ResultsInv

LEMMA ResultsStay == TypeInv /\ ResultsInv /\ [Next]_vars => ResultsInv'
  <1> SUFFICES ASSUME TypeInv, ResultsInv, [Next]_vars PROVE ResultsInv'
    OBVIOUS
  <1>0. TypeOK /\ NetworkTyped /\ search \in Search
    BY TypeOKIs DEF TypeInv, DiscoveryTyped
  <1>1. CASE (Page \/ \E n \in CallIds : PageCall(n)) /\ UNCHANGED discovery
    BY <1>0, <1>1, PageLeavesSearches, ResultsKept DEF discovery
  <1>2. CASE UNCHANGED vars
    BY <1>0, <1>2, ResultsKept DEF vars, network, SearchesWait
  <1>3. CASE Discover
    <2>1. CASE RunSearch
      <3>1. search.filter \in Filters
        BY <1>0, SearchesAskForFilters DEF Search
      <3>2. PICK n \in CallIds, r \in Call :
               Placed(n, r) /\ r.op = "search" /\ r.filter = search.filter /\ r.stage = "sent"
        BY <1>0, <2>1, <3>1, SendPlaces DEF RunSearch, Op
      <3>3. ~muddled' => \A m \in CallIds : calls[m].op # "search"
        BY <2>1 DEF RunSearch, Searching
      <3>4. ~muddled' => \A m \in CallIds : SearchTrue(calls[m])'
        BY <2>1, <3>2, <3>3 DEF RunSearch, Placed, SearchTrue
      <3>5. search'.loading
        BY <1>0, <2>1 DEF RunSearch, Search
      <3> QED BY <3>4, <3>5 DEF ResultsInv
    <2>2. CASE PullHome
      <3>1. \E n \in CallIds, r \in Call : Placed(n, r) /\ r.op = "home"
        BY <1>0, <2>2, SendPlaces DEF PullHome, Op
      <3>2. SearchesWait
        BY <3>1 DEF Placed, SearchesWait
      <3> QED BY <1>0, <2>2, <3>2, ResultsKept DEF PullHome
    <2>3. CASE ~RunSearch /\ ~PullHome
      <3>1. UNCHANGED network /\ UNCHANGED <<asked, muddled>>
        BY <1>3, <2>3 DEF Discover, EnterSearch, LeaveSearch, HideResults, ClearAll,
                          SelectCategory, EditFilter
      <3>2. \/ search' = search
            \/ ~search'.showResults
            \/ search'.loading = search.loading /\ search'.results = search.results
               /\ search'.showResults = search.showResults
        BY <1>0, <1>3, <2>3 DEF Discover, EnterSearch, LeaveSearch, HideResults, ClearAll,
                          SelectCategory, EditFilter, Search
      <3>3. SearchesWait
        BY <3>1 DEF network, SearchesWait
      <3> QED BY <1>0, <3>1, <3>2, <3>3, ResultsKept
    <2> QED BY <2>1, <2>2, <2>3
  <1>4. ASSUME NEW n \in CallIds, DiscoveryCall(n) PROVE ResultsInv'
    <2>1. CASE HomeAnswered(n) \/ HomeFailed(n)
      <3>1. SearchesWait
        BY <1>0, <2>1, SettleSettles DEF HomeAnswered, HomeFailed, Over, SearchesWait
      <3> QED BY <1>0, <2>1, <3>1, ResultsKept DEF HomeAnswered, HomeFailed
    <2>2. CASE SearchAnswered(n)
      <3>1. Over(n) /\ UNCHANGED <<asked, muddled>>
        BY <1>0, <2>2, SettleSettles DEF SearchAnswered
      <3>2. ~muddled => Answering(Listed(calls[n]))
        BY <2>2 DEF SearchAnswered, Settling, ResultsInv, SearchTrue
      <3>3. search'.results = Listed(calls[n])
        BY <1>0, <2>2 DEF SearchAnswered, Search, Listed
      <3>4. ~muddled => \A m \in CallIds : SearchTrue(calls[m])'
        <4>1. ASSUME ~muddled, NEW m \in CallIds PROVE SearchTrue(calls[m])'
          <5>1. SearchTrue(calls[m])
            BY <4>1 DEF ResultsInv
          <5>2. calls'[m] = calls[m] \/ calls'[m].op = "none"
            BY <3>1 DEF Over
          <5> QED BY <1>0, <3>1, <5>1, <5>2, AnsweringLasts DEF SearchTrue, Answering, Listed
        <4> QED BY <4>1
      <3> QED BY <1>0, <3>1, <3>2, <3>3, <3>4, AnsweringLasts DEF ResultsInv, Answering
    <2>3. CASE SearchFailed(n)
      BY <2>3 DEF SearchFailed, ResultsInv
    <2>4. CASE ServeHome(n)
      <3>1. {"listed"} \X Public \in Reply /\ CallsTyped
        BY <1>0, RepliesAre DEF Public, NetworkTyped
      <3>2. \E r \in Call : Moved(n, r)
        BY <2>4, <3>1, AnswerMoves DEF ServeHome, Answer
      <3>3. SearchesWait
        BY <2>4, <3>2 DEF ServeHome, Moved, SearchesWait
      <3> QED BY <1>0, <2>4, <3>3, ResultsKept DEF ServeHome
    <2>5. CASE ServeSearch(n)
      <3>1. PICK reply \in Reply : reply = {"listed"} \X Found(calls[n].filter)
        BY <1>0, RepliesAre DEF Found, Public
      <3>2. PICK r \in Call : Moved(n, r) /\ r.reply = reply
        BY <1>0, <2>5, <3>1, AnswerMoves DEF ServeSearch, Answer, NetworkTyped
      <3>3. UNCHANGED <<asked, muddled>> /\ search' = search /\ calls[n].op = "search"
        BY <2>5 DEF ServeSearch
      <3>4. ASSUME ~muddled, NEW m \in CallIds PROVE SearchTrue(calls[m])'
        <4>1. SearchTrue(calls[m])
          BY <3>4 DEF ResultsInv
        <4>2. CASE m # n
          BY <1>0, <3>2, <3>3, <4>1, <4>2, AnsweringLasts DEF Moved, SearchTrue, Answering, Listed
        <4>3. CASE m = n
          <5>1. r.filter = asked
            BY <3>2, <3>3, <4>1, <4>3 DEF Moved, SearchTrue
          <5>2. Listed(r) = Found(asked)
            BY <3>1, <3>2, <3>3, <5>1, <4>3 DEF Listed, Moved, Found, Public
          <5>3. Answering(Listed(r))
            BY <5>2 DEF Answering, Found
          <5>4. Answering(Listed(r))'
            BY <1>0, <3>3, <5>3, AnsweringLasts DEF Answering, Listed
          <5> QED BY <3>2, <3>3, <4>3, <5>1, <5>4 DEF Moved, SearchTrue, Listed
        <4> QED BY <4>2, <4>3
      <3>5. ~muddled /\ search.showResults /\ ~search.loading => Answering(search.results)'
        BY <1>0, <3>3, AnsweringLasts DEF ResultsInv, Answering
      <3> QED BY <3>3, <3>4, <3>5 DEF ResultsInv
    <2> QED BY <1>4, <2>1, <2>2, <2>3, <2>4, <2>5 DEF DiscoveryCall
  <1> QED BY <1>1, <1>2, <1>3, <1>4 DEF Next, CallGoesOn

(* However the filters are edited while an answer is on its way, and whatever
   is cancelled meanwhile, the results shown are those of the filters sent
   last, searches that overlapped or failed aside.                         *)
THEOREM ResultsHold == Spec => []ResultsAnswerTheSearch
  <1>1. Init => ResultsInv
    BY DEF Init, ResultsInv
  <1>2. ResultsInv => ResultsAnswerTheSearch
    BY DEF ResultsInv, Answering, ResultsAnswerTheSearch
  <1> QED BY <1>1, <1>2, TypeStarts, TypeStays, ResultsStay, PTL DEF Spec

-----------------------------------------------------------------------------
(* Whom the page thanks. *)
Reviewed(e) == <<"reviewed", e>> \in rows
ReviewTrue(c) == c.op = "review" /\ c.stage = "answered" => Reviewed(c.about)
ThanksInv ==
    /\ screen.reviewSuccess => Reviewed(screen.event)
    /\ \A n \in CallIds : ReviewTrue(calls[n])

(* Reviews are never deleted. *)
LEMMA ReviewsStay ==
    ASSUME [Next]_vars, NEW e
    PROVE  Reviewed(e) => Reviewed(e)'
  <1>1. CASE Page
    BY <1>1 DEF Page, TapCard, Open, GoBack, ToggleSave, OnRegister, OpenCancel, CloseCancel,
           OnCancelRegistration, OpenReview, CloseReview, SubmitReview, FocusMyEvents,
           PullMyEvents, LeaveMyEvents, CallFails, CloseRegistration, CancelEvent, server, Reviewed
  <1>2. CASE Discover
    BY <1>2 DEF Discover, PullHome, EnterSearch, LeaveSearch, RunSearch, HideResults, ClearAll,
           SelectCategory, EditFilter, app, server, Reviewed
  <1>3. ASSUME NEW n \in CallIds, PageCall(n) PROVE Reviewed(e) => Reviewed(e)'
    BY <1>3 DEF PageCall, LoadAnswered, LoadFailed, ReloadAnswered, ReloadFailed,
           SaveAnswered, SaveFailed, RsvpAnswered, CancelAnswered, ActionFailed,
           ReviewAnswered, ReviewFailed, ListAnswered, ServeRsvp, ServeCancel, ServeSave,
           ServeUnsave, ServeReview, ServeLoad, ServeList, NobodyHears, Granted, Denied, server,
           Of, Reviewed
  <1>4. ASSUME NEW n \in CallIds, DiscoveryCall(n) PROVE Reviewed(e) => Reviewed(e)'
    BY <1>4 DEF DiscoveryCall, HomeAnswered, HomeFailed, SearchAnswered, SearchFailed,
           ServeHome, ServeSearch, app, server, Reviewed
  <1> QED BY <1>1, <1>2, <1>3, <1>4 DEF Next, CallGoesOn, vars, server, Reviewed

(* No review is newly answered. *)
ReviewsWait ==
    \A m \in CallIds : calls'[m].op = "review" /\ calls'[m].stage = "answered" =>
        calls[m].op = "review" /\ calls[m].stage = "answered" /\ calls'[m].about = calls[m].about

LEMMA ThanksKept ==
    ASSUME ThanksInv, [Next]_vars, ReviewsWait,
           screen'.reviewSuccess =>
               screen'.event = screen.event /\ (screen.reviewSuccess \/ Reviewed(screen.event))
    PROVE  ThanksInv'
  <1>1. screen'.reviewSuccess => Reviewed(screen.event)'
    BY ReviewsStay DEF ThanksInv, Reviewed
  <1>2. ASSUME NEW m \in CallIds PROVE ReviewTrue(calls[m])'
    <2>1. ReviewTrue(calls[m])
      BY DEF ThanksInv
    <2> QED BY <2>1, ReviewsStay DEF ReviewsWait, ReviewTrue, Reviewed
  <1> QED BY <1>1, <1>2 DEF ThanksInv

LEMMA QuietAnswersNoReview ==
    ASSUME TypeInv,
           UNCHANGED network \/ Abandoned(PageOps)
             \/ \E n \in CallIds : Settle(n) \/ Refuse(n) \/ Fail(n)
    PROVE  ReviewsWait
  <1>1. NetworkTyped
    BY TypeOKIs DEF TypeInv
  <1>2. ASSUME NEW n \in CallIds, Settle(n) \/ Refuse(n) \/ Fail(n) PROVE ReviewsWait
    <2>1. Over(n) \/ \E r \in Call : Moved(n, r) /\ r.stage \in {"refused", "failed"}
      BY <1>1, <1>2, SettleSettles, RefuseMoves, FailMoves
    <2> QED BY <2>1 DEF Over, Moved, ReviewsWait
  <1>3. ASSUME Abandoned(PageOps) PROVE ReviewsWait
    BY <1>1, <1>3, AbandonedIs DEF ReviewsWait, PageOps
  <1>4. ASSUME UNCHANGED network PROVE ReviewsWait
    BY <1>4 DEF network, ReviewsWait
  <1> QED BY <1>2, <1>3, <1>4

LEMMA SendAnswersNoReview ==
    ASSUME TypeInv, NEW op \in Op, NEW about \in Events \cup {None},
           NEW filter \in Filters \cup {None}, Send(op, about, filter)
    PROVE  ReviewsWait
  <1>1. \E n \in CallIds, r \in Call : Placed(n, r) /\ r.stage = "sent"
    BY SendPlaces, TypeOKIs DEF TypeInv
  <1> QED BY <1>1 DEF Placed, ReviewsWait

LEMMA OtherAnswersNoReview ==
    ASSUME TypeInv, NEW n \in CallIds, NEW reply \in Reply, calls[n].op # "review",
           calls' = [calls EXCEPT ![n].stage = "answered", ![n].reply = reply]
    PROVE  ReviewsWait
  <1>1. \E r \in Call : Moved(n, r)
    BY AnswerMoves, TypeOKIs DEF TypeInv, NetworkTyped
  <1> QED BY <1>1 DEF Moved, ReviewsWait

LEMMA ThanksStay == TypeInv /\ ThanksInv /\ [Next]_vars => ThanksInv'
  <1> SUFFICES ASSUME TypeInv, ThanksInv, [Next]_vars PROVE ThanksInv'
    OBVIOUS
  <1>0. /\ TypeOK /\ NetworkTyped /\ search.filter \in Filters /\ screen \in Screen
        /\ screen.event \in Events /\ {} \in Reply
    BY TypeOKIs, SearchesAskForFilters
       DEF TypeInv, DiscoveryTyped, ScreenTyped, Search, Screen, Reply
  <1>1. CASE Page
    <2>1. ReviewsWait
      BY <1>0, <1>1, QuietAnswersNoReview, SendAnswersNoReview, OtherAnswersNoReview, Zenon
         DEF Page, TapCard, Open, GoBack, ToggleSave, OnRegister, OpenCancel, CloseCancel,
             OnCancelRegistration, OpenReview, CloseReview, SubmitReview, FocusMyEvents,
             PullMyEvents, LeaveMyEvents, CallFails, CloseRegistration, CancelEvent, Op
    <2>2. screen'.reviewSuccess => screen'.event = screen.event /\ screen.reviewSuccess
      BY <1>0, <1>1, FreshTyped
         DEF Page, TapCard, Open, GoBack, ToggleSave, OnRegister, OpenCancel, CloseCancel,
             OnCancelRegistration, OpenReview, CloseReview, SubmitReview, FocusMyEvents,
             PullMyEvents, LeaveMyEvents, CallFails, CloseRegistration, CancelEvent, Screen
    <2> QED BY <2>1, <2>2, ThanksKept
  <1>2. CASE Discover
    <2>1. ReviewsWait /\ screen' = screen
      BY <1>0, <1>2, QuietAnswersNoReview, SendAnswersNoReview, OtherAnswersNoReview
         DEF Discover, PullHome, EnterSearch, LeaveSearch, RunSearch, HideResults, ClearAll,
             SelectCategory, EditFilter, app, Op
    <2> QED BY <2>1, ThanksKept
  <1>3. ASSUME NEW n \in CallIds, PageCall(n) PROVE ThanksInv'
    <2>1. CASE Taken(n)
      <3>1. ReviewsWait
        BY <1>0, <2>1, TakenScreen, QuietAnswersNoReview, SendAnswersNoReview, OtherAnswersNoReview
      <3>2. screen'.reviewSuccess => screen'.event = screen.event /\ screen.reviewSuccess
        BY <1>0, <2>1 DEF Screen, Taken, LoadAnswered, LoadFailed, ReloadAnswered, ReloadFailed,
             SaveAnswered, SaveFailed, RsvpAnswered, CancelAnswered, ActionFailed,
             ReviewFailed, ListAnswered, NobodyHears
      <3> QED BY <3>1, <3>2, ThanksKept
    <2>2. CASE ReviewAnswered(n)
      <3>1. calls[n].about = screen.event /\ Reviewed(screen.event)
        BY <2>2 DEF ReviewAnswered, Settling, TypeInv, CallsFit, Fits, PageOps, ThanksInv, ReviewTrue
      <3>2. ReviewsWait
        BY <1>0, <2>2, NewCallIs DEF ReviewAnswered, NetworkTyped, CallsTyped, Op, ReviewsWait
      <3>3. screen'.event = screen.event
        BY <1>0, <2>2 DEF ReviewAnswered, Screen
      <3> QED BY <3>1, <3>2, <3>3, ThanksKept
    <2>3. CASE ServeRsvp(n) \/ ServeCancel(n) \/ ServeSave(n) \/ ServeUnsave(n)
      <3>1. Refuse(n) \/ (calls[n].op # "review" /\ Answer(n, {}))
        BY <2>3 DEF ServeRsvp, ServeCancel, ServeSave, ServeUnsave, Granted, Denied
      <3>2. ReviewsWait
        BY <1>0, <3>1, QuietAnswersNoReview, SendAnswersNoReview, OtherAnswersNoReview DEF Answer
      <3> QED BY <2>3, <3>2, ThanksKept
            DEF ServeRsvp, ServeCancel, ServeSave, ServeUnsave, Granted, Denied
    <2>4. CASE ServeReview(n)
      <3>1. CASE Denied(n)
        BY <1>0, <3>1, QuietAnswersNoReview, SendAnswersNoReview, OtherAnswersNoReview, ThanksKept DEF Denied
      <3>2. CASE Granted(n, rows \cup {Of(n, "reviewed")})
        <4>1. PICK r \in Call : Moved(n, r)
          BY <1>0, <3>2, AnswerMoves DEF Granted, Answer, NetworkTyped
        <4>2. Reviewed(calls[n].about)' /\ screen' = screen
          BY <3>2, <4>1 DEF Granted, Of, Reviewed, Moved
        <4>3. ASSUME NEW m \in CallIds PROVE ReviewTrue(calls[m])'
          <5>1. ReviewTrue(calls[m])
            BY DEF ThanksInv
          <5> QED BY <4>1, <4>2, <5>1, ReviewsStay DEF Moved, ReviewTrue, Reviewed
        <4> QED BY <4>2, <4>3, ReviewsStay DEF ThanksInv, Reviewed
      <3> QED BY <2>4, <3>1, <3>2 DEF ServeReview
    <2>5. CASE ServeLoad(n) \/ ServeList(n)
      <3>1. \/ Refuse(n)
            \/ calls[n].op # "review" /\ \E reply \in Reply :
                  calls' = [calls EXCEPT ![n].stage = "answered", ![n].reply = reply]
        BY <1>0, <2>5, RepliesAre DEF ServeLoad, LoadServed, LoadRefused, ServeList
      <3>2. ReviewsWait
        BY <1>0, <3>1, QuietAnswersNoReview, SendAnswersNoReview, OtherAnswersNoReview
      <3> QED BY <2>5, <3>2, ThanksKept DEF ServeLoad, ServeList
    <2> QED BY <1>3, <2>1, <2>2, <2>3, <2>4, <2>5 DEF PageCall, Taken
  <1>4. ASSUME NEW n \in CallIds, DiscoveryCall(n) PROVE ThanksInv'
    <2>1. CASE Settle(n)
      BY <1>0, <1>4, <2>1, QuietAnswersNoReview, SendAnswersNoReview, OtherAnswersNoReview, ThanksKept
         DEF DiscoveryCall, HomeAnswered, HomeFailed, SearchAnswered, SearchFailed, ServeHome,
             ServeSearch, app
    <2>2. CASE ServeHome(n) \/ ServeSearch(n)
      <3>1. calls[n].op # "review" /\ \E reply \in Reply :
                  calls' = [calls EXCEPT ![n].stage = "answered", ![n].reply = reply]
        BY <1>0, <2>2, RepliesAre DEF ServeHome, ServeSearch, Answer, Found, Public
      <3>2. ReviewsWait
        BY <1>0, <3>1, QuietAnswersNoReview, SendAnswersNoReview, OtherAnswersNoReview
      <3> QED BY <2>2, <3>2, ThanksKept DEF ServeHome, ServeSearch, app
    <2> QED BY <1>4, <2>1, <2>2 DEF DiscoveryCall, HomeAnswered, HomeFailed, SearchAnswered, SearchFailed
  <1>5. CASE UNCHANGED vars
    BY <1>5, QuietAnswersNoReview, SendAnswersNoReview, OtherAnswersNoReview, ThanksKept DEF vars
  <1> QED BY <1>1, <1>2, <1>3, <1>4, <1>5 DEF Next, CallGoesOn

(* Nobody is thanked for a review the server does not have. *)
THEOREM ThanksHold == Spec => []ThanksAreDue
  <1>1. Init => ThanksInv
    <2> SUFFICES ASSUME Init PROVE ThanksInv
      OBVIOUS
    <2>1. \A n \in CallIds : calls[n].op # "review"
      BY NewCallIs, NoCallTyped DEF Init, Op
    <2> QED BY <2>1, FreshTyped DEF Init, ThanksInv, ReviewTrue
  <1>2. ThanksInv => ThanksAreDue
    BY DEF ThanksInv, Reviewed, ThanksAreDue
  <1> QED BY <1>1, <1>2, TypeStarts, TypeStays, ThanksStay, PTL DEF Spec

-----------------------------------------------------------------------------
(* What the event page shows. *)
Granting == {"rsvp", "save", "review"}

(* An answer that will be taken agrees with the rows, a lookup that failed aside. *)
CallTrue(c, f) ==
    /\ c.op \in EventReads /\ c.stage = "answered" =>
         Tells(<<f, screen.event>> \in c.reply, f)
    /\ f \in Writes(c.op) =>
         /\ c.live /\ c.stage # "failed"
         /\ c.stage = "answered" => (<<f, screen.event>> \in rows <=> c.op \in Granting)

OneWrite(f) == \A m, n \in CallIds : f \in Writes(calls[m].op) /\ f \in Writes(calls[n].op) => m = n
ReadAlone(f) == \A m, n \in CallIds : ~(calls[m].op \in EventReads /\ f \in Writes(calls[n].op))

(* The page tells the truth, or is about to. *)
PageTrue(f) ==
    /\ \A n \in CallIds : CallTrue(calls[n], f)
    /\ OneWrite(f) /\ ReadAlone(f)
    /\ screen.found =>
         \/ Tells(screen.is[f], f)
         \/ \E n \in CallIds : calls[n].op \in EventReads
         \/ \E n \in CallIds : f \in Writes(calls[n].op) /\ calls[n].stage = "answered"

PageInv == tab = "event" => \A f \in Facts : <<"event", f>> \notin doubt => PageTrue(f)

LEMMA WritesAre ==
    /\ Writes("rsvp") = {"registered"} /\ Writes("cancel") = {"registered"}
    /\ Writes("save") = {"saved"} /\ Writes("unsave") = {"saved"}
    /\ Writes("review") = {"reviewed"}
    /\ \A op : op \notin PageOps \ EventReads => Writes(op) = {}
  BY DEF Writes, PageOps, EventReads

LEMMA ReadsAre ==
    /\ Reads("list") = Lists /\ Copy("list") = "list"
    /\ \A op \in EventReads : Reads(op) = Facts /\ Copy(op) = "event"
  BY DEF Reads, Copy, EventReads

(* A failed lookup is not forgotten. *)
LookupsKept(f) == <<"lookup", f>> \in doubt => <<"lookup", f>> \in doubt'

(* One call goes on, ends, or is sent and is of no concern to f. *)
LEMMA PageKept ==
    ASSUME NEW f \in Facts, PageTrue(f), NEW n \in CallIds,
           \A m \in CallIds : m # n => calls'[m] = calls[m],
           screen'.event = screen.event,
           <<f, screen.event>> \in rows' <=> <<f, screen.event>> \in rows,
           \/ LookupsKept(f)
           \/ \A m \in CallIds : m # n => calls[m].op \notin EventReads,
           CallTrue(calls[n], f)',
           calls'[n].op \in EventReads => calls[n].op \in EventReads,
           f \in Writes(calls'[n].op) => f \in Writes(calls[n].op),
           \/ Tells(screen.is[f], f)'
           \/ ~screen'.found
           \/ /\ screen'.found => screen.found
              /\ screen'.is[f] <=> screen.is[f]
              /\ LookupsKept(f)
              /\ calls[n].op \in EventReads => calls'[n].op \in EventReads
              /\ f \in Writes(calls[n].op) /\ calls[n].stage = "answered" =>
                    f \in Writes(calls'[n].op) /\ calls'[n].stage = "answered"
    PROVE  PageTrue(f)'
  <1>1. ASSUME NEW m \in CallIds PROVE CallTrue(calls[m], f)'
    <2>1. CASE m = n
      BY <2>1
    <2>2. CASE m # n
      BY <2>2 DEF PageTrue, CallTrue, Tells, LookupsKept
    <2> QED BY <2>1, <2>2
  <1>2. OneWrite(f)'
    BY DEF PageTrue, OneWrite
  <1>3. ReadAlone(f)'
    BY DEF PageTrue, ReadAlone
  <1>4. \/ Tells(screen.is[f], f)'
        \/ ~screen'.found
        \/ \E m \in CallIds : calls'[m].op \in EventReads
        \/ \E m \in CallIds : f \in Writes(calls'[m].op) /\ calls'[m].stage = "answered"
    BY DEF PageTrue, Tells, LookupsKept
  <1> QED BY <1>1, <1>2, <1>3, <1>4 DEF PageTrue

LEMMA PageSame ==
    ASSUME NEW f \in Facts, PageTrue(f), calls' = calls,
           screen'.event = screen.event, screen'.found => screen.found,
           screen'.is[f] <=> screen.is[f], doubt' = doubt,
           <<f, screen.event>> \in rows' <=> <<f, screen.event>> \in rows
    PROVE  PageTrue(f)'
  BY DEF PageTrue, CallTrue, Tells, OneWrite, ReadAlone

(* A write is sent: about f nothing else is under way. *)
LEMMA WriteKeepsPage ==
    ASSUME TypeInv, NEW f \in Facts, PageTrue(f), NEW op \in PageOps \ EventReads, Showing,
           Send(op, screen.event, None), f \in Writes(op) => <<"event", f>> \notin DoubtAfterWrite(op),
           screen'.event = screen.event, screen'.found = screen.found,
           screen'.is[f] <=> screen.is[f], rows' = rows, LookupsKept(f)
    PROVE  PageTrue(f)'
  <1>1. NetworkTyped /\ screen.event \in Events
    BY TypeOKIs DEF TypeInv, ScreenTyped, Screen
  <1>2. PICK n \in CallIds, r \in Call :
           Placed(n, r) /\ r.op = op /\ r.live /\ r.stage = "sent"
    BY <1>1, SendPlaces DEF PageOps, Op
  <1>3. calls'[n] = r /\ CallTrue(calls[n], f)'
    BY <1>2 DEF Placed, CallTrue, EventReads
  <1>4. CASE f \notin Writes(op)
    BY <1>2, <1>3, <1>4, WritesAre, PageKept DEF Placed, PageOps, EventReads
  <1>5. CASE f \in Writes(op)
    <2>1. ~BeingWritten(f, {}) /\ ~BeingRead("event", f, {})
      BY <1>5 DEF DoubtAfterWrite, Copies
    <2>2. \A m \in CallIds : f \notin Writes(calls[m].op) /\ calls[m].op \notin EventReads
      BY <2>1, ReadsAre DEF BeingWritten, BeingRead
    <2>3. Tells(screen.is[f], f)'
      BY <2>2 DEF PageTrue, Showing, Tells, LookupsKept
    <2>4. \A m \in CallIds : CallTrue(calls[m], f)'
      BY <1>2, <1>3, <2>2 DEF Placed, CallTrue
    <2>5. OneWrite(f)' /\ ReadAlone(f)'
      BY <1>2, <2>2 DEF Placed, OneWrite, ReadAlone
    <2> QED BY <2>3, <2>4, <2>5 DEF PageTrue
  <1> QED BY <1>4, <1>5

LEMMA SentKeepsPage ==
    ASSUME TypeInv, NEW f \in Facts, PageInv, tab = "event", UNCHANGED <<server, tab>>,
           <<"event", f>> \notin doubt',
           ToggleSave \/ OnRegister \/ OnCancelRegistration \/ SubmitReview
    PROVE  PageTrue(f)'
  <1>1. screen \in Screen
    BY DEF TypeInv, TypeOK
  <1>2. PICK op \in PageOps \ EventReads :
           /\ Showing /\ Send(op, screen.event, None) /\ doubt' = DoubtAfterWrite(op)
           /\ screen'.event = screen.event /\ screen'.found = screen.found
           /\ screen'.is = screen.is
    <2>1. CASE ToggleSave
      BY <2>1 DEF ToggleSave, PageOps, EventReads
    <2>2. CASE OnRegister
      BY <1>1, <2>2 DEF OnRegister, PageOps, EventReads, Screen
    <2>3. CASE OnCancelRegistration
      BY <1>1, <2>3 DEF OnCancelRegistration, PageOps, EventReads, Screen
    <2>4. CASE SubmitReview
      BY <1>1, <2>4 DEF SubmitReview, PageOps, EventReads, Screen
    <2> QED BY <2>1, <2>2, <2>3, <2>4
  <1>3. <<"event", f>> \notin doubt /\ LookupsKept(f)
    BY <1>2 DEF DoubtAfterWrite, LookupsKept
  <1>4. PageTrue(f)
    BY <1>3 DEF PageInv
  <1> QED BY <1>2, <1>3, <1>4, WriteKeepsPage DEF server

(* The page opens: what it will load is the truth, if nothing is written. *)
LEMMA OpenIsTrue ==
    ASSUME TypeInv, tab # "event", NEW e \in Events, Open(e),
           NEW f \in Facts, <<"event", f>> \notin doubt'
    PROVE  PageTrue(f)'
  <1>1. PICK n \in CallIds, r \in Call : Placed(n, r) /\ r.op = "load" /\ r.stage = "sent"
    BY SendPlaces, TypeOKIs DEF TypeInv, Open, Op
  <1>2. <<"event", f>> \in Marks /\ f \in Reads("load") /\ Copy("load") = "event"
    BY ReadsAre DEF Marks, Copies, EventReads
  <1>3. ~BeingWritten(f, {})
    BY <1>2 DEF Open, DoubtAfterRead
  <1>4. \A m \in CallIds : f \notin Writes(calls[m].op) /\ calls[m].op \notin EventReads
    BY <1>3, AwayIsQuiet DEF BeingWritten, TypeInv
  <1>5. \A m \in CallIds : f \notin Writes(calls'[m].op)
    BY <1>1, <1>4, WritesAre DEF Placed, EventReads
  <1>6. \A m \in CallIds : CallTrue(calls[m], f)'
    BY <1>1, <1>4, <1>5 DEF Placed, CallTrue, EventReads
  <1>7. ~screen'.found
    BY FreshTyped DEF Open
  <1> QED BY <1>5, <1>6, <1>7 DEF PageTrue, OneWrite, ReadAlone

(* A review stored and the page read again: a read that overlaps no write. *)
LEMMA ReviewKeepsPage ==
    ASSUME TypeInv, PageInv, NEW n \in CallIds, ReviewAnswered(n), tab = "event",
           NEW f \in Facts, <<"event", f>> \notin doubt'
    PROVE  PageTrue(f)'
  <1>1. /\ calls'[n].op = "reload" /\ calls'[n].stage = "sent"
        /\ \A m \in CallIds : m # n => calls'[m] = calls[m]
    BY NewCallIs, NoCallTyped
       DEF ReviewAnswered, TypeInv, TypeOK, Screen, Op
  <1>2. /\ {<<"event", f>>, <<"lookup", f>>} \subseteq Marks
        /\ f \in Reads("reload") /\ Copy("reload") = "event"
    BY ReadsAre DEF Marks, Copies, EventReads
  <1>3. /\ ~BeingWritten(f, {n})
        /\ <<"event", f>> \in doubt => ~BeingRead("event", f, {n})
        /\ BeingRead("event", f, {n}) => LookupsKept(f)
    BY <1>2 DEF ReviewAnswered, DoubtAfterRead, LookupsKept
  <1>4. \A m \in CallIds : f \notin Writes(calls'[m].op)
    BY <1>1, <1>3, WritesAre DEF BeingWritten, EventReads
  <1>5. rows' = rows /\ screen'.event = screen.event
    BY DEF ReviewAnswered, TypeInv, TypeOK, Screen, server
  <1>6. ASSUME NEW m \in CallIds PROVE CallTrue(calls[m], f)'
    <2>1. CASE m = n
      BY <1>1, <1>4, <2>1 DEF CallTrue
    <2>2. CASE m # n /\ calls[m].op \notin EventReads
      BY <1>1, <1>4, <2>2 DEF CallTrue
    <2>3. CASE m # n /\ calls[m].op \in EventReads
      <3>1. <<"event", f>> \notin doubt /\ LookupsKept(f)
        BY <1>3, <2>3, ReadsAre DEF BeingRead
      <3>2. CallTrue(calls[m], f)
        BY <3>1 DEF PageInv, PageTrue
      <3> QED BY <1>1, <1>4, <1>5, <2>3, <3>1, <3>2 DEF CallTrue, Tells, LookupsKept
    <2> QED BY <2>1, <2>2, <2>3
  <1>7. \E m \in CallIds : calls'[m].op \in EventReads
    BY <1>1 DEF EventReads
  <1> QED BY <1>4, <1>6, <1>7 DEF PageTrue, OneWrite, ReadAlone

(* An answer is taken. *)
LEMMA OverKeepsPage ==
    ASSUME NEW f \in Facts, PageTrue(f), NEW n \in CallIds, Over(n),
           screen'.event = screen.event, rows' = rows,
           LookupsKept(f) \/ f \in Writes(calls[n].op),
           \/ Tells(screen.is[f], f)'
           \/ ~screen'.found
           \/ /\ screen'.found => screen.found
              /\ screen'.is[f] <=> screen.is[f]
              /\ LookupsKept(f)
              /\ calls[n].op \notin EventReads
              /\ f \in Writes(calls[n].op) => calls[n].stage # "answered"
    PROVE  PageTrue(f)'
  <1>1. calls'[n].op = "none" /\ Writes("none") = {} /\ "none" \notin EventReads
    BY WritesAre DEF Over, PageOps, EventReads
  <1>2. CallTrue(calls[n], f)'
    BY <1>1 DEF CallTrue
  <1>3. f \in Writes(calls[n].op) => \A m \in CallIds : calls[m].op \notin EventReads
    BY DEF PageTrue, ReadAlone
  <1> QED BY <1>1, <1>2, <1>3, PageKept, Zenon DEF Over

LEMMA TakenKeepsPage ==
    ASSUME TypeInv, PageInv, NEW n \in CallIds, Taken(n), tab = "event",
           NEW f \in Facts, <<"event", f>> \notin doubt'
    PROVE  PageTrue(f)'
  <1>0. /\ NetworkTyped /\ screen \in Screen /\ TypeOK /\ <<"event", f>> \in {"event"} \X Facts
    BY TypeOKIs DEF TypeInv, ScreenTyped
  <1>1. ~ReloadFailed(n)
    BY <1>0 DEF ReloadFailed
  <1>2. Over(n) /\ screen'.event = screen.event /\ rows' = rows
    BY <1>0, TakenScreen, SettleSettles DEF server
  <1>2a. /\ SaveAnswered(n) => doubt' = NowKnown("saved")
         /\ (RsvpAnswered(n) \/ CancelAnswered(n)) => doubt' = NowKnown("registered")
         /\ ~(SaveAnswered(n) \/ RsvpAnswered(n) \/ CancelAnswered(n)) => doubt' = doubt
    BY <1>1 DEF Taken, LoadAnswered, LoadFailed, ReloadAnswered, SaveAnswered, SaveFailed,
           RsvpAnswered, CancelAnswered, ActionFailed, ReviewFailed, ListAnswered, NobodyHears
  <1>2b. /\ <<"event", f>> \notin doubt
         /\ doubt' = doubt => LookupsKept(f)
         /\ \A g : doubt' = NowKnown(g) /\ f # g => LookupsKept(f)
    BY <1>2a DEF NowKnown, LookupsKept
  <1>3. PageTrue(f) /\ CallTrue(calls[n], f)
    BY <1>2b DEF PageInv, PageTrue
  <1>4. CASE LoadAnswered(n) \/ ReloadAnswered(n)
    <2>1. screen'.is[f] <=> <<f, screen.event>> \in calls[n].reply
      <3>1. PICK is : is = [g \in Facts |-> <<g, screen.event>> \in calls[n].reply]
        OBVIOUS
      <3>2. screen'.is = is
        BY <1>0, <1>4, <3>1 DEF LoadAnswered, ReloadAnswered, Screen
      <3> QED BY <3>1, <3>2
    <2>2. Tells(<<f, screen.event>> \in calls[n].reply, f) /\ doubt' = doubt
      BY <1>3, <1>4 DEF LoadAnswered, ReloadAnswered, Settling, CallTrue, EventReads
    <2>3. Tells(screen.is[f], f)' /\ LookupsKept(f)
      BY <1>2, <1>2b, <2>1, <2>2 DEF Tells
    <2> QED BY <1>2, <1>3, <2>3, OverKeepsPage
  <1>5. CASE LoadFailed(n)
    <2>1. ~screen'.found /\ LookupsKept(f)
      BY <1>0, <1>2b, <1>5 DEF LoadFailed, Settling, TypeInv, CallsFit, Fits, Screen
    <2> QED BY <1>2, <1>3, <2>1, OverKeepsPage
  <1>6. CASE SaveAnswered(n)
    <2>1. PICK op \in {"save", "unsave"} :
             /\ calls[n].op = op /\ calls[n].stage = "answered"
             /\ screen' = [screen EXCEPT !.is["saved"] = (op = "save")]
      BY <1>6 DEF SaveAnswered, Settling
    <2>2. screen'.found = screen.found
          /\ (f = "saved" => (screen'.is[f] <=> op = "save"))
          /\ (f # "saved" => (screen'.is[f] <=> screen.is[f]))
      BY <1>0, <2>1 DEF Screen, Facts
    <2>3. CASE f = "saved"
      <3>1. f \in Writes(calls[n].op) /\ (<<f, screen.event>> \in rows <=> op = "save")
        BY <1>3, <2>1, <2>3, WritesAre DEF CallTrue, Granting
      <3>2. Tells(screen.is[f], f)'
        BY <1>2, <2>2, <2>3, <3>1 DEF Tells
      <3> QED BY <1>2, <1>3, <3>1, <3>2, OverKeepsPage
    <2>4. CASE f # "saved"
      <3>1. LookupsKept(f)
        BY <1>2a, <1>2b, <1>6, <2>4
      <3> QED BY <1>2, <1>3, <2>1, <2>2, <2>4, <3>1, WritesAre, OverKeepsPage DEF EventReads
    <2> QED BY <2>3, <2>4
  <1>7. CASE RsvpAnswered(n)
    <2>1. calls[n].op = "rsvp" /\ calls[n].stage = "answered"
      BY <1>7 DEF RsvpAnswered, Settling
    <2>2. screen'.found = screen.found
          /\ (f = "registered" => screen'.is[f])
          /\ (f # "registered" => (screen'.is[f] <=> screen.is[f]))
      BY <1>0, <1>7 DEF RsvpAnswered, Screen, Facts
    <2>3. CASE f = "registered"
      <3>1. f \in Writes(calls[n].op) /\ <<f, screen.event>> \in rows
        BY <1>3, <2>1, <2>3, WritesAre DEF CallTrue, Granting
      <3>2. Tells(screen.is[f], f)'
        BY <1>2, <2>2, <2>3, <3>1 DEF Tells
      <3> QED BY <1>2, <1>3, <3>1, <3>2, OverKeepsPage
    <2>4. CASE f # "registered"
      <3>1. LookupsKept(f)
        BY <1>2a, <1>2b, <1>7, <2>4
      <3> QED BY <1>2, <1>3, <2>1, <2>2, <2>4, <3>1, WritesAre, OverKeepsPage DEF EventReads
    <2> QED BY <2>3, <2>4
  <1>8. CASE CancelAnswered(n)
    <2>1. calls[n].op = "cancel" /\ calls[n].stage = "answered"
      BY <1>8 DEF CancelAnswered, Settling
    <2>2. screen'.found = screen.found
          /\ (f = "registered" => ~screen'.is[f])
          /\ (f # "registered" => (screen'.is[f] <=> screen.is[f]))
      BY <1>0, <1>8 DEF CancelAnswered, Screen, Facts
    <2>3. CASE f = "registered"
      <3>1. f \in Writes(calls[n].op) /\ <<f, screen.event>> \notin rows
        BY <1>3, <2>1, <2>3, WritesAre DEF CallTrue, Granting
      <3>2. Tells(screen.is[f], f)'
        BY <1>2, <2>2, <2>3, <3>1 DEF Tells
      <3> QED BY <1>2, <1>3, <3>1, <3>2, OverKeepsPage
    <2>4. CASE f # "registered"
      <3>1. LookupsKept(f)
        BY <1>2a, <1>2b, <1>8, <2>4
      <3> QED BY <1>2, <1>3, <2>1, <2>2, <2>4, <3>1, WritesAre, OverKeepsPage DEF EventReads
    <2> QED BY <2>3, <2>4
  <1>9. CASE SaveFailed(n) \/ ActionFailed(n) \/ ReviewFailed(n)
    <2>1. calls[n].op \in PageOps \ EventReads /\ calls[n].stage \in {"failed", "refused"}
      BY <1>9 DEF SaveFailed, ActionFailed, ReviewFailed, Settling, PageOps, EventReads
    <2>2. screen'.found = screen.found /\ (screen'.is[f] <=> screen.is[f]) /\ LookupsKept(f)
      BY <1>0, <1>2b, <1>9 DEF SaveFailed, ActionFailed, ReviewFailed, Screen
    <2> QED BY <1>2, <1>3, <2>1, <2>2, OverKeepsPage
  <1>10. CASE ListAnswered(n)
    <2>1. calls[n].op = "list" /\ screen' = screen /\ LookupsKept(f)
      BY <1>2b, <1>10 DEF ListAnswered, Settling
    <2>2. calls[n].op \notin EventReads /\ f \notin Writes(calls[n].op)
      BY <2>1, WritesAre DEF PageOps, EventReads
    <2> QED BY <1>2, <1>3, <2>1, <2>2, OverKeepsPage
  <1>11. CASE NobodyHears(n)
    <2>1. ~calls[n].live /\ screen' = screen /\ LookupsKept(f)
      BY <1>2b, <1>11 DEF NobodyHears, NobodyListens
    <2>2. calls[n].op \notin EventReads /\ f \notin Writes(calls[n].op)
      BY <1>3, <2>1 DEF TypeInv, CallsFit, Fits, CallTrue
    <2> QED BY <1>2, <1>3, <2>1, <2>2, OverKeepsPage
  <1> QED BY <1>1, <1>4, <1>5, <1>6, <1>7, <1>8, <1>9, <1>10, <1>11 DEF Taken

(* The server changes a row and answers. *)
LEMMA GrantKeepsPage ==
    ASSUME TypeInv, NEW f \in Facts, PageTrue(f), tab = "event", NEW n \in CallIds,
           NEW g \in Facts, Writes(calls[n].op) = {g}, calls[n].stage = "sent",
           Answer(n, {}), screen' = screen, LookupsKept(f),
           \A t : t # Of(n, g) => (t \in rows' <=> t \in rows),
           Of(n, g) \in rows' <=> calls[n].op \in Granting
    PROVE  PageTrue(f)'
  <1>0. calls[n].op \in PageOps \ EventReads
    BY WritesAre
  <1>1. PICK r \in Call : Moved(n, r) /\ r.stage = "answered"
    <2>1. {} \in Reply /\ CallsTyped
      BY TypeOKIs DEF Reply, TypeInv, NetworkTyped
    <2> QED BY <2>1, AnswerMoves DEF Answer
  <1>2. calls'[n] = r /\ calls'[n].op = calls[n].op
    BY <1>1 DEF Moved
  <1>3. CASE f # g
    <2>1. <<f, screen.event>> # Of(n, g)
      BY <1>3 DEF Of
    <2>2. <<f, screen.event>> \in rows' <=> <<f, screen.event>> \in rows
      BY <2>1
    <2>3. CallTrue(calls[n], f)'
      BY <1>0, <1>2, <1>3 DEF CallTrue
    <2> QED BY <1>0, <1>1, <1>2, <1>3, <2>2, <2>3, PageKept DEF Moved
  <1>4. CASE f = g
    <2>1. calls[n].live /\ calls[n].about = screen.event
      BY <1>0, <1>4 DEF PageTrue, CallTrue, TypeInv, CallsFit, Fits
    <2>2. <<f, screen.event>> \in rows' <=> calls[n].op \in Granting
      BY <1>4, <2>1 DEF Of
    <2>3. \A m \in CallIds : calls[m].op \notin EventReads /\ (f \in Writes(calls[m].op) => m = n)
      BY <1>4 DEF PageTrue, ReadAlone, OneWrite
    <2>4. \A m \in CallIds : calls'[m].op = calls[m].op
      BY <1>1 DEF Moved
    <2>5. ASSUME NEW m \in CallIds PROVE CallTrue(calls[m], f)'
      <3>1. CASE m = n
        BY <1>0, <1>1, <1>2, <2>1, <2>2, <3>1 DEF CallTrue, Moved
      <3>2. CASE m # n
        BY <2>3, <2>4, <3>2 DEF CallTrue
      <3> QED BY <3>1, <3>2
    <2>6. OneWrite(f)' /\ ReadAlone(f)'
      BY <2>3, <2>4 DEF OneWrite, ReadAlone
    <2>7. f \in Writes(calls'[n].op) /\ calls'[n].stage = "answered"
      BY <1>1, <1>2, <1>4
    <2> QED BY <2>5, <2>6, <2>7 DEF PageTrue
  <1> QED BY <1>3, <1>4

(* The server refuses, or the request fails. *)
LEMMA RefusalKeepsPage ==
    ASSUME NEW f \in Facts, PageTrue(f), NEW n \in CallIds, NEW r, Moved(n, r),
           calls[n].stage = "sent" \/ f \notin Writes(calls[n].op),
           \/ r.stage = "refused"
           \/ r.stage = "failed" /\ f \notin Writes(calls[n].op),
           screen' = screen, rows' = rows, LookupsKept(f)
    PROVE  PageTrue(f)'
  <1>1. calls'[n] = r /\ calls'[n].op = calls[n].op /\ calls'[n].live = calls[n].live
    BY DEF Moved
  <1>2. CallTrue(calls[n], f)
    BY DEF PageTrue
  <1>3. CallTrue(calls[n], f)'
    BY <1>1, <1>2 DEF CallTrue
  <1> QED BY <1>1, <1>3, PageKept DEF Moved

LEMMA ServedKeepsPage ==
    ASSUME TypeInv, PageInv, NEW n \in CallIds, tab = "event",
           ServeRsvp(n) \/ ServeCancel(n) \/ ServeSave(n) \/ ServeUnsave(n) \/ ServeReview(n),
           NEW f \in Facts, <<"event", f>> \notin doubt'
    PROVE  PageTrue(f)'
  <1>0. NetworkTyped
    BY TypeOKIs DEF TypeInv
  <1>1. screen' = screen /\ doubt' = doubt /\ calls[n].stage = "sent"
    BY DEF ServeRsvp, ServeCancel, ServeSave, ServeUnsave, ServeReview, AtServer, Granted, Denied
  <1>2. PageTrue(f) /\ LookupsKept(f)
    BY <1>1 DEF PageInv, LookupsKept
  <1>3. CASE Denied(n)
    <2>1. \E r \in Call : Moved(n, r) /\ r.stage = "refused"
      BY <1>0, <1>3, RefuseMoves DEF Denied
    <2> QED BY <1>1, <1>2, <1>3, <2>1, RefusalKeepsPage DEF Denied, server
  <1>4. CASE ~Denied(n)
    <2>1. PICK g \in Facts : /\ Writes(calls[n].op) = {g} /\ Answer(n, {})
                             /\ \A t : t # Of(n, g) => (t \in rows' <=> t \in rows)
                             /\ Of(n, g) \in rows' <=> calls[n].op \in Granting
      BY <1>4, WritesAre
         DEF ServeRsvp, ServeCancel, ServeSave, ServeUnsave, ServeReview, Granted, Granting, Facts
    <2> QED BY <1>1, <1>2, <2>1, GrantKeepsPage
  <1> QED BY <1>3, <1>4

(* What is read agrees with the rows, for now. *)
LEMMA ReadKeepsPage ==
    ASSUME TypeInv, PageInv, NEW n \in CallIds, tab = "event",
           ServeLoad(n) \/ ServeList(n) \/ ServeHome(n) \/ ServeSearch(n),
           NEW f \in Facts, <<"event", f>> \notin doubt'
    PROVE  PageTrue(f)'
  <1>0. NetworkTyped
    BY TypeOKIs DEF TypeInv
  <1>1. screen' = screen /\ rows' = rows /\ doubt \subseteq doubt'
    BY DEF ServeLoad, LoadServed, LoadRefused, ServeList, ServeHome, ServeSearch, app, server
  <1>2. PageTrue(f) /\ LookupsKept(f)
    BY <1>1 DEF PageInv, LookupsKept
  <1>3. calls[n].op \notin PageOps \ EventReads /\ f \notin Writes(calls[n].op)
    BY WritesAre DEF ServeLoad, ServeList, ServeHome, ServeSearch, PageOps, EventReads
  <1>4. CASE ServeLoad(n)
    <2>1. CASE Refuse(n)
      <3>1. \E r \in Call : Moved(n, r) /\ r.stage = "refused"
        BY <1>0, <2>1, RefuseMoves
      <3> QED BY <1>1, <1>2, <1>3, <3>1, RefusalKeepsPage
    <2>2. CASE LoadServed(n)
      <3>1. PICK unread \in SUBSET Lists :
               /\ calls' = [calls EXCEPT ![n].stage = "answered",
                                         ![n].reply = {x \in rows : x[1] \notin unread}]
               /\ doubt' = doubt \cup {"lookup"} \X unread
        BY <2>2 DEF LoadServed
      <3>2. PICK r \in Call : Moved(n, r) /\ r.reply = {x \in rows : x[1] \notin unread}
        BY <1>0, <3>1, RepliesAre, AnswerMoves DEF TypeInv, NetworkTyped
      <3>3. CallTrue(calls[n], f)'
        BY <1>1, <1>3, <3>1, <3>2 DEF CallTrue, Moved, Tells
      <3> QED BY <1>1, <1>2, <1>3, <3>2, <3>3, PageKept DEF Moved
    <2> QED BY <1>4, <2>1, <2>2 DEF ServeLoad, LoadRefused
  <1>5. CASE ServeList(n) \/ ServeHome(n) \/ ServeSearch(n)
    <2>1. calls[n].op \notin EventReads
      BY <1>5 DEF ServeList, ServeHome, ServeSearch, EventReads
    <2>2. \E reply \in Reply : calls' = [calls EXCEPT ![n].stage = "answered", ![n].reply = reply]
      BY <1>5, RepliesAre DEF TypeInv, ServeList, ServeHome, ServeSearch, Answer, Public, Found
    <2>3. PICK r \in Call : Moved(n, r)
      BY <1>0, <2>2, AnswerMoves DEF NetworkTyped
    <2>4. CallTrue(calls[n], f)'
      BY <1>3, <2>1, <2>3 DEF CallTrue, Moved
    <2> QED BY <1>1, <1>2, <1>3, <2>1, <2>3, <2>4, PageKept DEF Moved
  <1> QED BY <1>4, <1>5

LEMMA FailKeepsPage ==
    ASSUME TypeInv, PageInv, NEW n \in CallIds, tab = "event", CallFails(n),
           NEW f \in Facts, <<"event", f>> \notin doubt'
    PROVE  PageTrue(f)'
  <1>1. PageTrue(f) /\ screen' = screen /\ rows' = rows /\ LookupsKept(f)
    BY DEF CallFails, PageInv, server, LookupsKept
  <1>2. f \notin Writes(calls[n].op)
    <2>1. CallTrue(calls[n], f)
      BY <1>1 DEF PageTrue
    <2> QED BY <2>1 DEF CallFails, CallTrue
  <1>3. \E r \in Call : Moved(n, r) /\ r.stage = "failed"
    BY FailMoves, TypeOKIs DEF TypeInv, CallFails
  <1> QED BY <1>1, <1>2, <1>3, RefusalKeepsPage

LEMMA FoundKeepsPage ==
    ASSUME TypeInv, PageInv, NEW n \in CallIds, tab = "event",
           HomeAnswered(n) \/ HomeFailed(n) \/ SearchAnswered(n) \/ SearchFailed(n),
           NEW f \in Facts, <<"event", f>> \notin doubt'
    PROVE  PageTrue(f)'
  <1>1. screen' = screen /\ rows' = rows /\ doubt' = doubt /\ Settle(n)
        /\ calls[n].op \in {"home", "search"}
    BY DEF HomeAnswered, HomeFailed, SearchAnswered, SearchFailed, Settling, app, server
  <1>2. Over(n) /\ PageTrue(f)
    BY <1>1, SettleSettles, TypeOKIs DEF TypeInv, PageInv
  <1>3. LookupsKept(f) /\ calls[n].op \notin EventReads /\ f \notin Writes(calls[n].op)
    BY <1>1, WritesAre DEF EventReads, PageOps, LookupsKept
  <1> QED BY <1>1, <1>2, <1>3, OverKeepsPage

LEMMA PageStaysTrue == TypeInv /\ PageInv /\ [Next]_vars => PageInv'
  <1> SUFFICES ASSUME TypeInv, PageInv, [Next]_vars, tab' = "event",
                      NEW f \in Facts, <<"event", f>> \notin doubt'
               PROVE  PageTrue(f)'
    BY DEF PageInv
  <1>1. CASE Page
    <2>1. ASSUME NEW e \in Events, TapCard(e) PROVE PageTrue(f)'
      BY <2>1, CardsAreAway, OpenIsTrue DEF TapCard
    <2>2. CASE ToggleSave \/ OnRegister \/ OnCancelRegistration \/ SubmitReview
      <3>1. tab = "event" /\ UNCHANGED <<server, tab>>
        BY <2>2 DEF ToggleSave, OnRegister, OnCancelRegistration, SubmitReview, Showing
      <3> QED BY <2>2, <3>1, SentKeepsPage
    <2>3. CASE OpenCancel \/ CloseCancel \/ OpenReview \/ CloseReview
      <3>1. /\ tab = "event" /\ UNCHANGED <<server, doubt, network>>
            /\ screen'.event = screen.event /\ screen'.found = screen.found
            /\ screen'.is = screen.is
        BY <2>3 DEF OpenCancel, CloseCancel, OpenReview, CloseReview, Showing, TypeInv, TypeOK, Screen
      <3>2. PageTrue(f)
        BY <3>1 DEF PageInv
      <3> QED BY <3>1, <3>2, PageSame DEF server, network
    <2>4. ASSUME NEW e \in Events, CloseRegistration(e) \/ CancelEvent(e) PROVE PageTrue(f)'
      <3>1. UNCHANGED <<rows, tab, screen, doubt, network>>
        BY <2>4 DEF CloseRegistration, CancelEvent
      <3>2. PageTrue(f)
        BY <3>1 DEF PageInv
      <3> QED BY <3>1, <3>2, PageSame DEF network
    <2>5. ASSUME NEW n \in CallIds, CallFails(n) PROVE PageTrue(f)'
      BY <2>5, FailKeepsPage DEF CallFails
    <2> QED BY <1>1, <2>1, <2>2, <2>3, <2>4, <2>5
         DEF Page, GoBack, FocusMyEvents, PullMyEvents, LeaveMyEvents
  <1>2. ~Discover
    BY DEF Discover, PullHome, EnterSearch, LeaveSearch, RunSearch, HideResults, ClearAll,
           SelectCategory, EditFilter, app
  <1>3. ASSUME NEW n \in CallIds, PageCall(n) PROVE PageTrue(f)'
    <2>1. tab = "event"
      BY <1>3 DEF PageCall, LoadAnswered, LoadFailed, ReloadAnswered, ReloadFailed,
           SaveAnswered, SaveFailed, RsvpAnswered, CancelAnswered, ActionFailed,
           ReviewAnswered, ReviewFailed, ListAnswered, ServeRsvp, ServeCancel, ServeSave,
           ServeUnsave, ServeReview, ServeLoad, ServeList, NobodyHears, Granted, Denied
    <2> QED BY <1>3, <2>1, TakenKeepsPage, ReviewKeepsPage, ServedKeepsPage, ReadKeepsPage
         DEF PageCall, Taken
  <1>4. ASSUME NEW n \in CallIds, DiscoveryCall(n) PROVE PageTrue(f)'
    <2>1. tab = "event"
      BY <1>4 DEF DiscoveryCall, HomeAnswered, HomeFailed, SearchAnswered, SearchFailed,
                  ServeHome, ServeSearch, app
    <2> QED BY <1>4, <2>1, FoundKeepsPage, ReadKeepsPage DEF DiscoveryCall
  <1>5. CASE UNCHANGED vars
    <2>1. UNCHANGED <<rows, tab, screen, doubt, network>>
      BY <1>5 DEF vars, server
    <2>2. PageTrue(f)
      BY <2>1 DEF PageInv
    <2> QED BY <2>1, <2>2, PageSame DEF network
  <1> QED BY <1>1, <1>2, <1>3, <1>4, <1>5 DEF Next, CallGoesOn

(* When nothing about them is under way, the heart, the button and the review
   claim nothing that is not in the server's rows and leave out only what the
   server failed to look up, unless requests about them overlapped or a write or
   a reload failed.                                                        *)
THEOREM PageTruth == Spec => []PageTellsTheTruth
  <1>1. Init => PageInv
    BY DEF Init, PageInv
  <1>2. TypeInv /\ PageInv => PageTellsTheTruth
    <2> SUFFICES ASSUME TypeInv, PageInv, Showing, NEW f \in Facts, Settled(f),
                        <<"event", f>> \notin doubt
                 PROVE  Tells(screen.is[f], f)
      BY DEF PageTellsTheTruth
    <2>1. PageTrue(f)
      BY DEF PageInv, Showing
    <2>2. \A n \in CallIds : calls[n].op \notin EventReads /\ f \notin Writes(calls[n].op)
      BY ReadsAre DEF Settled
    <2> QED BY <2>1, <2>2 DEF PageTrue, Showing
  <1> QED BY <1>1, <1>2, TypeStarts, TypeStays, PageStaysTrue, PTL DEF Spec

-----------------------------------------------------------------------------
(* What My Events shows. *)
RowsOf(f) == {e \in Events : <<f, e>> \in rows}

(* No list is read beside a write of f, and what is read or shown of f is all
   there is of it.                                                         *)
ListTrue(f) ==
    /\ \A m, n \in CallIds : ~(calls[m].op = "list" /\ f \in Writes(calls[n].op))
    /\ \A n \in CallIds : calls[n].op = "list" /\ calls[n].stage = "answered" =>
         \A e \in Events : <<f, e>> \in calls[n].reply <=> <<f, e>> \in rows
    /\ tab = "my_events" =>
         /\ \A n \in CallIds : f \notin Writes(calls[n].op)
         /\ (\E n \in CallIds : calls[n].op = "list") \/ mine.list[f] = RowsOf(f)

ListInv == \A f \in Lists : <<"list", f>> \notin doubt => ListTrue(f)

(* No list is asked for, answered or taken, and f is not written anew. *)
ListsWait(f) ==
    \A m \in CallIds :
        /\ calls'[m].op = "list" => calls'[m] = calls[m]
        /\ calls[m].op = "list" => calls'[m].op = "list"
        /\ f \in Writes(calls'[m].op) => f \in Writes(calls[m].op)

LEMMA ListKept ==
    ASSUME NEW f \in Lists, ListTrue(f), ListsWait(f),
           \A e \in Events : <<f, e>> \in rows' <=> <<f, e>> \in rows,
           tab' = "my_events" => tab = "my_events" /\ mine' = mine
    PROVE  ListTrue(f)'
  <1>1. \A m, n \in CallIds : ~(calls'[m].op = "list" /\ f \in Writes(calls'[n].op))
    BY DEF ListTrue, ListsWait
  <1>2. ASSUME NEW n \in CallIds, calls'[n].op = "list", calls'[n].stage = "answered"
        PROVE  \A e \in Events : <<f, e>> \in calls'[n].reply <=> <<f, e>> \in rows'
    BY <1>2 DEF ListTrue, ListsWait
  <1>3. RowsOf(f)' = RowsOf(f)
    BY DEF RowsOf
  <1>4. ASSUME tab' = "my_events"
        PROVE  /\ \A n \in CallIds : f \notin Writes(calls'[n].op)
               /\ (\E n \in CallIds : calls'[n].op = "list") \/ mine'.list[f] = RowsOf(f)'
    BY <1>3, <1>4 DEF ListTrue, ListsWait
  <1> QED BY <1>1, <1>2, <1>4 DEF ListTrue

LEMMA ListsWaitWhen ==
    ASSUME NEW f \in Lists,
           \/ UNCHANGED network
           \/ \E n \in CallIds : calls[n].op # "list" /\ (Over(n) \/ \E r : Moved(n, r))
           \/ \E n \in CallIds, r \in Call : Placed(n, r) /\ r.op # "list" /\ f \notin Writes(r.op)
    PROVE  ListsWait(f)
  <1>1. CASE UNCHANGED network
    BY <1>1 DEF network, ListsWait
  <1>2. CASE \E n \in CallIds : calls[n].op # "list" /\ (Over(n) \/ \E r : Moved(n, r))
    BY <1>2, WritesAre DEF Over, Moved, ListsWait, PageOps, EventReads
  <1>3. CASE \E n \in CallIds, r \in Call : Placed(n, r) /\ r.op # "list" /\ f \notin Writes(r.op)
    BY <1>3 DEF Placed, ListsWait
  <1> QED BY <1>1, <1>2, <1>3

(* A list is asked for while nothing is written. *)
LEMMA AskKeepsList ==
    ASSUME TypeInv, ListInv, FocusMyEvents \/ PullMyEvents,
           NEW f \in Lists, <<"list", f>> \notin doubt'
    PROVE  ListTrue(f)'
  <1>1. /\ Send("list", None, None) /\ doubt' = DoubtAfterRead("list", {}) /\ rows' = rows
    BY DEF FocusMyEvents, PullMyEvents, server
  <1>2. PICK n \in CallIds, r \in Call : Placed(n, r) /\ r.op = "list" /\ r.stage = "sent"
    BY <1>1, SendPlaces, TypeOKIs DEF TypeInv, Op
  <1>3. <<"list", f>> \in Marks /\ f \in Reads("list") /\ Copy("list") = "list"
    BY ReadsAre DEF Marks, Copies, Lists, Facts
  <1>4. /\ ~BeingWritten(f, {})
        /\ <<"list", f>> \in doubt => ~BeingRead("list", f, {})
    BY <1>1, <1>3 DEF DoubtAfterRead
  <1>5. \A m \in CallIds : f \notin Writes(calls[m].op)
    BY <1>4 DEF BeingWritten
  <1>6. \A m \in CallIds : f \notin Writes(calls'[m].op)
    BY <1>2, <1>5, WritesAre DEF Placed, PageOps
  <1>7. ASSUME NEW m \in CallIds, calls'[m].op = "list", calls'[m].stage = "answered", NEW e \in Events
        PROVE  <<f, e>> \in calls'[m].reply <=> <<f, e>> \in rows
    <2>1. calls'[m] = calls[m]
      BY <1>2, <1>7 DEF Placed
    <2>2. <<"list", f>> \notin doubt
      BY <1>3, <1>4, <1>7, <2>1 DEF BeingRead
    <2> QED BY <1>7, <2>1, <2>2 DEF ListInv, ListTrue
  <1>8. \E m \in CallIds : calls'[m].op = "list"
    BY <1>2 DEF Placed
  <1> QED BY <1>1, <1>6, <1>7, <1>8 DEF ListTrue

(* A request about an event is sent: if it writes f, no list is under way. *)
LEMMA SentKeepsList ==
    ASSUME TypeInv, ListInv, ToggleSave \/ OnRegister \/ OnCancelRegistration \/ SubmitReview,
           NEW f \in Lists, <<"list", f>> \notin doubt'
    PROVE  ListTrue(f)'
  <1>1. PICK op \in PageOps \ EventReads :
           Send(op, screen.event, None) /\ doubt' = DoubtAfterWrite(op)
    BY DEF ToggleSave, OnRegister, OnCancelRegistration, SubmitReview, PageOps, EventReads
  <1>2. tab = "event" /\ tab' = "event" /\ rows' = rows
    BY DEF ToggleSave, OnRegister, OnCancelRegistration, SubmitReview, Showing, server
  <1>3. PICK n \in CallIds, r \in Call : Placed(n, r) /\ r.op = op /\ r.stage = "sent"
    BY <1>1, SendPlaces, TypeOKIs DEF TypeInv, TypeOK, Screen, PageOps, Op
  <1>4. ListTrue(f) /\ op # "list"
    BY <1>1 DEF ListInv, DoubtAfterWrite, PageOps
  <1>5. CASE f \notin Writes(op)
    BY <1>2, <1>3, <1>4, <1>5, ListsWaitWhen, ListKept
  <1>6. CASE f \in Writes(op)
    <2>1. ~BeingRead("list", f, {})
      BY <1>1, <1>6 DEF DoubtAfterWrite, Copies
    <2>2. \A m \in CallIds : calls[m].op # "list"
      BY <2>1, ReadsAre DEF BeingRead
    <2>3. \A m \in CallIds : calls'[m].op # "list"
      BY <1>3, <1>4, <2>2 DEF Placed
    <2> QED BY <1>2, <2>3 DEF ListTrue
  <1> QED BY <1>5, <1>6

LEMMA PageKeepsList ==
    ASSUME TypeInv, ListInv, Page, NEW f \in Lists, <<"list", f>> \notin doubt'
    PROVE  ListTrue(f)'
  <1>0. NetworkTyped /\ <<"list", f>> \in Marks /\ <<"list", f>> \in {"list"} \X Facts
    BY TypeOKIs DEF TypeInv, Marks, Copies, Lists, Facts
  <1>1. ASSUME NEW e \in Events, Open(e) PROVE ListTrue(f)'
    <2>1. /\ <<"list", f>> \notin doubt /\ tab' = "event" /\ rows' = rows
      BY <1>0, <1>1, ReadsAre DEF Open, DoubtAfterRead, EventReads, server
    <2>2. \E n \in CallIds, r \in Call : Placed(n, r) /\ r.op = "load"
      BY <1>0, <1>1, SendPlaces DEF Open, Op
    <2>3. ListsWait(f)
      BY <2>2, WritesAre, ListsWaitWhen DEF EventReads
    <2> QED BY <2>1, <2>3, ListKept DEF ListInv
  <1>2. CASE GoBack
    <2>1. <<"list", f>> \notin doubt /\ tab' = "home" /\ rows' = rows
      BY <1>0, <1>2 DEF GoBack, server
    <2>2. ListsWait(f)
      <3>1. \A m \in CallIds :
               \/ calls'[m].op = "none"
               \/ calls'[m] = calls[m]
               \/ calls[m].op \in PageOps /\ calls'[m].op = calls[m].op
        BY <1>0, <1>2, AbandonedIs DEF GoBack
      <3>2. \A m \in CallIds : calls[m].op = "list" => calls'[m] = calls[m]
        <4>1. \A m \in CallIds : calls[m].op \notin PageOps => calls'[m] = calls[m]
          BY <1>2 DEF GoBack, Abandoned, Without
        <4> QED BY <4>1 DEF PageOps
      <3>3. Writes("none") = {} /\ "list" \notin PageOps
        BY WritesAre DEF PageOps
      <3> QED BY <3>1, <3>2, <3>3 DEF ListsWait
    <2> QED BY <2>1, <2>2, ListKept DEF ListInv
  <1>3. CASE ToggleSave \/ OnRegister \/ OnCancelRegistration \/ SubmitReview
    BY <1>3, SentKeepsList
  <1>4. CASE FocusMyEvents \/ PullMyEvents
    BY <1>4, AskKeepsList
  <1>5. ASSUME NEW n \in CallIds, CallFails(n) PROVE ListTrue(f)'
    <2>1. \E r : Moved(n, r)
      BY <1>0, <1>5, FailMoves DEF CallFails
    <2>2. /\ calls[n].op # "list" /\ <<"list", f>> \notin doubt
          /\ UNCHANGED <<rows, tab, mine>>
      BY <1>5 DEF CallFails, server
    <2> QED BY <2>1, <2>2, ListsWaitWhen, ListKept DEF ListInv
  <1>6. CASE UNCHANGED <<rows, mine, doubt, network>> /\ (tab' = tab \/ tab' = "home")
    BY <1>6, ListsWaitWhen, ListKept DEF ListInv
  <1> QED BY <1>1, <1>2, <1>3, <1>4, <1>5, <1>6
       DEF Page, TapCard, OpenCancel, CloseCancel, OpenReview, CloseReview, LeaveMyEvents,
           CloseRegistration, CancelEvent, server

LEMMA TakenKeepsList ==
    ASSUME TypeInv, ListInv, NEW n \in CallIds, Taken(n), NEW f \in Lists, <<"list", f>> \notin doubt'
    PROVE  ListTrue(f)'
  <1>0. TypeOK /\ NetworkTyped
    BY TypeOKIs DEF TypeInv
  <1>1. Over(n) /\ rows' = rows /\ tab' = tab
    BY <1>0, TakenScreen, SettleSettles DEF server
  <1>2. <<"list", f>> \notin doubt
    BY DEF Taken, LoadAnswered, LoadFailed, ReloadAnswered, ReloadFailed, SaveAnswered, SaveFailed,
           RsvpAnswered, CancelAnswered, ActionFailed, ReviewFailed, ListAnswered, NobodyHears,
           NowKnown
  <1>3. ListTrue(f)
    BY <1>2 DEF ListInv
  <1>4. CASE ListAnswered(n)
    <2>1. calls[n].op = "list" /\ calls[n].stage = "answered"
      BY <1>4 DEF ListAnswered, Settling
    <2>2. mine'.list[f] = {e \in Events : <<f, e>> \in calls[n].reply}
      BY <1>4 DEF ListAnswered
    <2>3. mine'.list[f] = RowsOf(f)
      BY <1>3, <2>1, <2>2 DEF ListTrue, RowsOf
    <2>4. \A m \in CallIds : calls'[m] = calls[m] \/ (calls'[m].op = "none" /\ Writes(calls'[m].op) = {})
      BY <1>1, WritesAre DEF Over, PageOps
    <2>5. RowsOf(f)' = RowsOf(f)
      BY <1>1 DEF RowsOf
    <2>6. \A m, k \in CallIds : ~(calls'[m].op = "list" /\ f \in Writes(calls'[k].op))
      BY <1>3, <2>4 DEF ListTrue
    <2>7. \A m \in CallIds : calls'[m].op = "list" /\ calls'[m].stage = "answered" =>
             \A e \in Events : <<f, e>> \in calls'[m].reply <=> <<f, e>> \in rows'
      BY <1>1, <1>3, <2>4 DEF ListTrue
    <2>8. tab' = "my_events" => \A m \in CallIds : f \notin Writes(calls'[m].op)
      BY <1>1, <1>3, <2>4 DEF ListTrue
    <2> QED BY <2>3, <2>5, <2>6, <2>7, <2>8 DEF ListTrue
  <1>5. CASE ~ListAnswered(n)
    <2>1. calls[n].op # "list" /\ mine' = mine
      BY <1>5 DEF Taken, LoadAnswered, LoadFailed, ReloadAnswered, ReloadFailed, SaveAnswered,
           SaveFailed, RsvpAnswered, CancelAnswered, ActionFailed, ReviewFailed, NobodyHears,
           NobodyListens, Settling, TypeInv, CallsFit, Fits
    <2> QED BY <1>1, <1>3, <2>1, ListsWaitWhen, ListKept
  <1> QED BY <1>4, <1>5

(* A row of f is written: no list is under way, nor looked at. *)
LEMMA ServedKeepsList ==
    ASSUME TypeInv, ListInv, NEW n \in CallIds,
           ServeRsvp(n) \/ ServeCancel(n) \/ ServeSave(n) \/ ServeUnsave(n) \/ ServeReview(n),
           NEW f \in Lists, <<"list", f>> \notin doubt'
    PROVE  ListTrue(f)'
  <1>1. UNCHANGED <<tab, mine, doubt>> /\ calls[n].op # "list"
    BY DEF ServeRsvp, ServeCancel, ServeSave, ServeUnsave, ServeReview, Granted, Denied
  <1>2. ListTrue(f)
    BY <1>1 DEF ListInv
  <1>3. \E r : Moved(n, r)
    <2>1. Refuse(n) \/ Answer(n, {})
      BY DEF ServeRsvp, ServeCancel, ServeSave, ServeUnsave, ServeReview, Granted, Denied
    <2>2. {} \in Reply /\ CallsTyped /\ NetworkTyped
      BY TypeOKIs DEF Reply, TypeInv, NetworkTyped
    <2> QED BY <2>1, <2>2, RefuseMoves, AnswerMoves DEF Answer
  <1>4. CASE \A e \in Events : <<f, e>> \in rows' <=> <<f, e>> \in rows
    BY <1>1, <1>2, <1>3, <1>4, ListsWaitWhen, ListKept
  <1>5. CASE ~ \A e \in Events : <<f, e>> \in rows' <=> <<f, e>> \in rows
    <2>1. f \in Writes(calls[n].op)
      BY <1>5, WritesAre
         DEF ServeRsvp, ServeCancel, ServeSave, ServeUnsave, ServeReview, Granted, Denied, Of, server
    <2>2. tab' # "my_events" /\ \A m \in CallIds : calls[m].op # "list"
      BY <1>1, <1>2, <2>1 DEF ListTrue
    <2>3. \A m \in CallIds : calls'[m].op # "list"
      BY <1>3, <2>2 DEF Moved
    <2> QED BY <2>2, <2>3 DEF ListTrue
  <1> QED BY <1>4, <1>5

(* The lists are read: one that failed is in doubt. *)
LEMMA ReadKeepsList ==
    ASSUME TypeInv, ListInv, NEW n \in CallIds, ServeList(n), NEW f \in Lists, <<"list", f>> \notin doubt'
    PROVE  ListTrue(f)'
  <1>1. PICK missing \in SUBSET Lists :
           /\ calls' = [calls EXCEPT ![n].stage = "answered",
                                     ![n].reply = {r \in rows : r[1] \in Lists \ missing}]
           /\ doubt' = doubt \cup {"list"} \X missing
    BY DEF ServeList
  <1>2. f \notin missing /\ ListTrue(f) /\ calls[n].op = "list" /\ rows' = rows /\ UNCHANGED <<tab, mine>>
    BY <1>1 DEF ListInv, ServeList, server
  <1>3. PICK reply \in Reply : reply = {r \in rows : r[1] \in Lists \ missing}
    BY RepliesAre DEF TypeInv
  <1>4. PICK r \in Call : Moved(n, r) /\ r.reply = reply
    BY <1>1, <1>3, AnswerMoves, TypeOKIs DEF TypeInv, NetworkTyped
  <1>5. \A e \in Events : <<f, e>> \in reply <=> <<f, e>> \in rows
    BY <1>2, <1>3
  <1>6. \A m \in CallIds : calls'[m].op = calls[m].op
    BY <1>4 DEF Moved
  <1>7. \A m, k \in CallIds : ~(calls'[m].op = "list" /\ f \in Writes(calls'[k].op))
    BY <1>2, <1>6 DEF ListTrue
  <1>8. \A m \in CallIds : calls'[m].op = "list" /\ calls'[m].stage = "answered" =>
           \A e \in Events : <<f, e>> \in calls'[m].reply <=> <<f, e>> \in rows'
    BY <1>2, <1>4, <1>5 DEF Moved, ListTrue
  <1>9. /\ \A m \in CallIds : tab' = "my_events" => f \notin Writes(calls'[m].op)
        /\ calls'[n].op = "list"
    BY <1>2, <1>6 DEF ListTrue
  <1> QED BY <1>7, <1>8, <1>9 DEF ListTrue

LEMMA ListsStay == TypeInv /\ ListInv /\ [Next]_vars => ListInv'
  <1> SUFFICES ASSUME TypeInv, ListInv, [Next]_vars, NEW f \in Lists, <<"list", f>> \notin doubt'
               PROVE  ListTrue(f)'
    BY DEF ListInv
  <1>0. NetworkTyped /\ TypeOK
    BY TypeOKIs DEF TypeInv
  <1>1. CASE Page
    BY <1>1, PageKeepsList
  <1>2. CASE Discover
    <2>1. UNCHANGED <<rows, mine, doubt>> /\ (tab' = tab \/ tab' # "my_events")
      BY <1>2 DEF Discover, PullHome, EnterSearch, LeaveSearch, RunSearch, HideResults, ClearAll,
             SelectCategory, EditFilter, app, server
    <2>2. ListsWait(f)
      <3>1. CASE RunSearch
        <4>1. search.filter \in Filters
          BY <1>0, SearchesAskForFilters DEF TypeOK, Search
        <4>2. \E n \in CallIds, r \in Call : Placed(n, r) /\ r.op = "search"
          BY <1>0, <3>1, <4>1, SendPlaces DEF RunSearch, Op
        <4>3. Writes("search") = {}
          BY WritesAre DEF PageOps
        <4> QED BY <4>2, <4>3, ListsWaitWhen
      <3>2. CASE PullHome
        <4>1. \E n \in CallIds, r \in Call : Placed(n, r) /\ r.op = "home"
          BY <1>0, <3>2, SendPlaces DEF PullHome, Op
        <4>2. Writes("home") = {}
          BY WritesAre DEF PageOps
        <4> QED BY <4>1, <4>2, ListsWaitWhen
      <3>3. CASE ~RunSearch /\ ~PullHome
        BY <1>2, <3>3, ListsWaitWhen DEF Discover, EnterSearch, LeaveSearch, HideResults, ClearAll,
                                         SelectCategory, EditFilter
      <3> QED BY <3>1, <3>2, <3>3
    <2> QED BY <2>1, <2>2, ListKept DEF ListInv
  <1>3. ASSUME NEW n \in CallIds, PageCall(n) PROVE ListTrue(f)'
    <2>1. CASE ReviewAnswered(n)
      <3>1. <<"list", f>> \in Marks /\ Copy("reload") = "event" /\ "list" # "event"
        BY ReadsAre DEF Marks, Copies, Lists, Facts, EventReads
      <3>2. <<"list", f>> \notin doubt /\ UNCHANGED <<rows, tab, mine>>
        BY <2>1, <3>1 DEF ReviewAnswered, DoubtAfterRead, server
      <3>3. /\ calls'[n].op = "reload" /\ calls[n].op = "review"
            /\ \A m \in CallIds : m # n => calls'[m] = calls[m]
        BY <2>1, NewCallIs, NoCallTyped DEF ReviewAnswered, Settling, TypeInv, TypeOK, Screen, Op
      <3>4. ListsWait(f)
        BY <3>3, WritesAre DEF ListsWait, EventReads
      <3> QED BY <3>2, <3>4, ListKept DEF ListInv
    <2>2. CASE ServeLoad(n)
      <3>1. \E r : Moved(n, r)
        BY <1>0, <2>2, RefuseMoves, AnswerMoves, RepliesAre
           DEF ServeLoad, LoadServed, LoadRefused, NetworkTyped, TypeInv
      <3>2. calls[n].op # "list" /\ UNCHANGED <<rows, tab, mine>> /\ <<"list", f>> \notin doubt
        BY <2>2 DEF ServeLoad, LoadServed, LoadRefused, server
      <3> QED BY <3>1, <3>2, ListsWaitWhen, ListKept DEF ListInv
    <2> QED BY <1>3, <2>1, <2>2, TakenKeepsList, ServedKeepsList, ReadKeepsList DEF PageCall, Taken
  <1>4. ASSUME NEW n \in CallIds, DiscoveryCall(n) PROVE ListTrue(f)'
    <2>1. UNCHANGED <<rows, tab, mine, doubt>> /\ calls[n].op # "list"
      BY <1>4 DEF DiscoveryCall, HomeAnswered, HomeFailed, SearchAnswered, SearchFailed,
                  ServeHome, ServeSearch, Settling, app, server
    <2>2. \/ Settle(n)
          \/ \E reply \in Reply : calls' = [calls EXCEPT ![n].stage = "answered", ![n].reply = reply]
      BY <1>0, <1>4, RepliesAre DEF DiscoveryCall, HomeAnswered, HomeFailed, SearchAnswered,
                  SearchFailed, ServeHome, ServeSearch, Answer, Public, Found
    <2>3. Over(n) \/ \E r : Moved(n, r)
      BY <1>0, <2>2, SettleSettles, AnswerMoves DEF NetworkTyped
    <2> QED BY <2>1, <2>3, ListsWaitWhen, ListKept DEF ListInv
  <1>5. CASE UNCHANGED vars
    BY <1>5, ListsWaitWhen, ListKept DEF vars, server, ListInv
  <1> QED BY <1>1, <1>2, <1>3, <1>4, <1>5 DEF Next, CallGoesOn

(* An event is missing from a list, or left over in it, only after an overlap
   or a failure.                                                           *)
THEOREM ListsComplete == Spec => []ListsAreComplete
  <1>1. Init => ListInv
    <2> SUFFICES ASSUME Init, NEW f \in Lists PROVE ListTrue(f)
      BY DEF ListInv
    <2>1. \A n \in CallIds : calls[n].op \in {"home", "none"}
      BY NewCallIs, NoCallTyped DEF Init, Op
    <2> QED BY <2>1 DEF Init, ListTrue
  <1>2. ListInv => ListsAreComplete
    <2> SUFFICES ASSUME ListInv, tab = "my_events", NEW f \in Lists, Settled(f),
                        <<"list", f>> \notin doubt
                 PROVE  mine.list[f] = {e \in Events : <<f, e>> \in rows}
      BY DEF ListsAreComplete
    <2>1. \A n \in CallIds : calls[n].op # "list"
      BY ReadsAre DEF Settled
    <2> QED BY <2>1 DEF ListInv, ListTrue, RowsOf
  <1> QED BY <1>1, <1>2, TypeStarts, TypeStays, ListsStay, PTL DEF Spec
-----------------------------------------------------------------------------
(* Who waits is answered. *)

(* Each request is in a stage that somebody handles, and Home, which never
   unmounts, hears of its own.                                             *)
CallsHandled == \A n \in CallIds : GoesOn(calls[n]) /\ (calls[n].op = "home" => calls[n].live)

LEMMA HandledKept ==
    ASSUME CallsHandled, NEW n \in CallIds,
           \A m \in CallIds : m # n => calls'[m] = calls[m],
           calls'[n].op = "list" => calls'[n].stage \in {"sent", "answered"},
           calls'[n].op \in {"home", "search"} => calls'[n].stage # "refused",
           calls'[n].op = "home" => calls'[n].live
    PROVE  CallsHandled'
  <1>1. ASSUME NEW m \in CallIds
        PROVE  GoesOn(calls'[m]) /\ (calls'[m].op = "home" => calls'[m].live)
    <2>1. CASE m = n
      BY <2>1 DEF GoesOn
    <2>2. CASE m # n
      BY <2>2 DEF CallsHandled
    <2> QED BY <2>1, <2>2
  <1> QED BY <1>1 DEF CallsHandled

LEMMA SentHandled ==
    ASSUME CallsHandled, NEW n \in CallIds, NEW r \in Call, Placed(n, r), r.live, r.stage = "sent"
    PROVE  CallsHandled'
  BY HandledKept DEF Placed

LEMMA OverHandled ==
    ASSUME CallsHandled, NEW n \in CallIds, Over(n)
    PROVE  CallsHandled'
  BY HandledKept DEF Over

LEMMA MovedHandled ==
    ASSUME CallsHandled, NEW n \in CallIds, NEW r \in Call, Moved(n, r),
           \/ r.stage = "answered"
           \/ r.stage = "failed" /\ r.op # "list"
           \/ r.stage = "refused" /\ r.op \notin {"list", "home", "search"}
    PROVE  CallsHandled'
  <1>1. calls'[n] = r /\ (r.op = "home" => r.live)
    BY DEF Moved, CallsHandled
  <1> QED BY <1>1, HandledKept DEF Moved

(* The requests for op that somebody listens to go on. *)
Lasts(op) == \A m \in CallIds :
    calls[m].op = op /\ calls[m].live => calls'[m].op = op /\ calls'[m].live
Awaited == {"load", "rsvp", "cancel", "review", "reload", "list", "home", "search"}

LEMMA AwaitingLasts ==
    ASSUME CallsHandled', NEW ops, Awaiting(ops), \A op \in ops : Lasts(op)
    PROVE  Awaiting(ops)'
  BY DEF Awaiting, Lasts, CallsHandled

LEMMA SentAwaits ==
    ASSUME CallsHandled', NEW n \in CallIds, NEW r \in Call, Placed(n, r), r.live
    PROVE  /\ \A op \in Awaited : Lasts(op)
           /\ \A ops : r.op \in ops => Awaiting(ops)'
  <1>1. \A op \in Awaited : Lasts(op)
    BY DEF Lasts, Placed, Awaited
  <1>2. calls'[n] = r /\ GoesOn(calls'[n])
    BY DEF Placed, CallsHandled
  <1>3. ASSUME NEW ops, r.op \in ops PROVE Awaiting(ops)'
    BY <1>2, <1>3 DEF Awaiting
  <1> QED BY <1>1, <1>3

LEMMA OverLasts ==
    ASSUME NEW n \in CallIds, Over(n)
    PROVE  \A op \in Awaited : calls[n].op # op \/ ~calls[n].live => Lasts(op)
  BY DEF Lasts, Over

LEMMA MovedLasts ==
    ASSUME NEW n \in CallIds, NEW r, Moved(n, r)
    PROVE  \A op \in Awaited : Lasts(op)
  BY DEF Lasts, Moved

LEMMA SameLasts ==
    ASSUME calls' = calls
    PROVE  \A op \in Awaited : Lasts(op)
  BY DEF Lasts

(* Each flag that is up was up, and its requests go on, or one is under way. *)
LEMMA SpinKept ==
    ASSUME CallsHandled', SpinnersAreAwaiting,
           tab' = "event" =>
              /\ screen'.loading =>
                    \/ tab = "event" /\ screen.loading /\ Lasts("load")
                    \/ Awaiting({"load"})'
              /\ screen'.actionLoading =>
                    \/ tab = "event" /\ screen.actionLoading /\ Lasts("rsvp") /\ Lasts("cancel")
                    \/ Awaiting({"rsvp", "cancel"})'
              /\ screen'.reviewLoading =>
                    \/ tab = "event" /\ screen.reviewLoading /\ Lasts("review") /\ Lasts("reload")
                    \/ Awaiting({"review", "reload"})',
           mine'.loading \/ mine'.refreshing =>
              \/ (mine.loading \/ mine.refreshing) /\ Lasts("list")
              \/ Awaiting({"list"})',
           home'.loading \/ home'.refreshing =>
              \/ (home.loading \/ home.refreshing) /\ Lasts("home")
              \/ Awaiting({"home"})',
           search'.loading =>
              \/ search.loading /\ Lasts("search")
              \/ Awaiting({"search"})'
    PROVE  SpinnersAreAwaiting'
  <1>1. /\ Awaiting({"load"}) /\ Lasts("load") => Awaiting({"load"})'
        /\ Awaiting({"rsvp", "cancel"}) /\ Lasts("rsvp") /\ Lasts("cancel")
              => Awaiting({"rsvp", "cancel"})'
        /\ Awaiting({"review", "reload"}) /\ Lasts("review") /\ Lasts("reload")
              => Awaiting({"review", "reload"})'
        /\ Awaiting({"list"}) /\ Lasts("list") => Awaiting({"list"})'
        /\ Awaiting({"home"}) /\ Lasts("home") => Awaiting({"home"})'
        /\ Awaiting({"search"}) /\ Lasts("search") => Awaiting({"search"})'
    BY AwaitingLasts
  <1> QED BY <1>1 DEF SpinnersAreAwaiting

(* No flag goes up, and every request somebody waits for goes on. *)
ScreenCalmer ==
    /\ tab' = "event" => tab = "event"
    /\ tab' = "event" => /\ screen'.loading => screen.loading
                         /\ screen'.actionLoading => screen.actionLoading
                         /\ screen'.reviewLoading => screen.reviewLoading
ListsCalmer ==
    /\ mine'.loading \/ mine'.refreshing => mine.loading \/ mine.refreshing
    /\ home'.loading \/ home'.refreshing => home.loading \/ home.refreshing
    /\ search'.loading => search.loading

LEMMA CalmerKeeps ==
    ASSUME CallsHandled', SpinnersAreAwaiting, ScreenCalmer, ListsCalmer,
           \A op \in Awaited : Lasts(op)
    PROVE  SpinnersAreAwaiting'
  BY SpinKept DEF ScreenCalmer, ListsCalmer, Awaited

LEMMA SameIsCalmer ==
    /\ UNCHANGED <<tab, screen>> => ScreenCalmer
    /\ UNCHANGED mine /\ UNCHANGED discovery => ListsCalmer
  BY DEF ScreenCalmer, ListsCalmer, discovery
SpinInv == CallsHandled /\ SpinnersAreAwaiting

LEMMA ServedSpins ==
    ASSUME TypeInv, SpinInv, NEW n \in CallIds,
           \/ /\ \/ ServeRsvp(n) \/ ServeCancel(n) \/ ServeSave(n) \/ ServeUnsave(n)
                 \/ ServeReview(n) \/ ServeLoad(n) \/ ServeList(n) \/ CallFails(n)
              /\ UNCHANGED discovery
           \/ ServeHome(n) \/ ServeSearch(n)
    PROVE  SpinInv'
  <1>1. NetworkTyped
    BY TypeOKIs DEF TypeInv
  <1>2. UNCHANGED <<tab, screen, mine>> /\ UNCHANGED discovery
    BY DEF ServeRsvp, ServeCancel, ServeSave, ServeUnsave, ServeReview, Granted, Denied,
           ServeLoad, ServeList, CallFails, ServeHome, ServeSearch, app, discovery
  <1>3. \/ Refuse(n) /\ calls[n].op \notin {"list", "home", "search"}
        \/ Fail(n) /\ calls[n].op # "list"
        \/ \E reply \in Reply :
              calls' = [calls EXCEPT ![n].stage = "answered", ![n].reply = reply]
    <2>1. {} \in Reply
      BY DEF Reply
    <2> QED BY <2>1, RepliesAre
            DEF ServeRsvp, ServeCancel, ServeSave, ServeUnsave, ServeReview, Granted, Denied,
                ServeLoad, LoadServed, LoadRefused, ServeList, CallFails, ServeHome, ServeSearch,
                Answer, Public, Found, TypeInv
  <1>4. \E r \in Call : /\ Moved(n, r)
                       /\ \/ r.stage = "answered"
                          \/ r.stage = "failed" /\ r.op # "list"
                          \/ r.stage = "refused" /\ r.op \notin {"list", "home", "search"}
    <2>1. CASE Refuse(n) /\ calls[n].op \notin {"list", "home", "search"}
      BY <1>1, <2>1, RefuseMoves DEF Moved
    <2>2. CASE Fail(n) /\ calls[n].op # "list"
      BY <1>1, <2>2, FailMoves DEF Moved
    <2>3. ASSUME NEW reply \in Reply,
                 calls' = [calls EXCEPT ![n].stage = "answered", ![n].reply = reply]
          PROVE  \E r \in Call : Moved(n, r) /\ r.stage = "answered"
      BY <1>1, <2>3, AnswerMoves DEF NetworkTyped
    <2> QED BY <1>3, <2>1, <2>2, <2>3
  <1>5. CallsHandled' /\ \A op \in Awaited : Lasts(op)
    BY <1>4, MovedHandled, MovedLasts DEF SpinInv
  <1> QED BY <1>2, <1>5, SameIsCalmer, CalmerKeeps DEF SpinInv

(* The page takes an answer: the flag of that request goes down. *)
LEMMA TakenSpins ==
    ASSUME TypeInv, SpinInv, UNCHANGED discovery, NEW n \in CallIds, Taken(n)
    PROVE  SpinInv'
  <1>1. Settle(n) /\ tab' = tab /\ screen \in Screen
    BY TakenScreen DEF TypeInv, TypeOK
  <1>2. Over(n) /\ CallsHandled'
    BY <1>1, SettleSettles, OverHandled, TypeOKIs DEF TypeInv, SpinInv
  <1>3. \A op \in Awaited : calls[n].op # op \/ ~calls[n].live => Lasts(op)
    BY <1>2, OverLasts
  <1>4. CASE LoadAnswered(n) \/ LoadFailed(n)
    <2>1. /\ calls[n].op = "load" /\ UNCHANGED mine
          /\ ~screen'.loading /\ screen'.actionLoading = screen.actionLoading
          /\ screen'.reviewLoading = screen.reviewLoading
      BY <1>1, <1>4 DEF LoadAnswered, LoadFailed, Settling, Screen
    <2> QED BY <1>1, <1>2, <1>3, <2>1, SpinKept DEF SpinInv, Awaited, discovery
  <1>5. CASE ReloadAnswered(n) \/ ReloadFailed(n) \/ ReviewFailed(n)
    <2>1. /\ calls[n].op \in {"review", "reload"} /\ UNCHANGED mine
          /\ ~screen'.reviewLoading /\ screen'.actionLoading = screen.actionLoading
          /\ screen'.loading = screen.loading
      BY <1>1, <1>5 DEF ReloadAnswered, ReloadFailed, ReviewFailed, Settling, Screen
    <2> QED BY <1>1, <1>2, <1>3, <2>1, SpinKept DEF SpinInv, Awaited, discovery
  <1>6. CASE RsvpAnswered(n) \/ CancelAnswered(n) \/ ActionFailed(n)
    <2>1. /\ calls[n].op \in {"rsvp", "cancel"} /\ UNCHANGED mine
          /\ ~screen'.actionLoading /\ screen'.loading = screen.loading
          /\ screen'.reviewLoading = screen.reviewLoading
      BY <1>1, <1>6 DEF RsvpAnswered, CancelAnswered, ActionFailed, Settling, Screen
    <2> QED BY <1>1, <1>2, <1>3, <2>1, SpinKept DEF SpinInv, Awaited, discovery
  <1>7. CASE SaveAnswered(n) \/ SaveFailed(n) \/ NobodyHears(n)
    <2>1. /\ calls[n].op \in {"save", "unsave"} \/ ~calls[n].live
          /\ UNCHANGED mine /\ screen'.loading = screen.loading
          /\ screen'.actionLoading = screen.actionLoading
          /\ screen'.reviewLoading = screen.reviewLoading
      BY <1>1, <1>7 DEF SaveAnswered, SaveFailed, NobodyHears, NobodyListens, Settling, Screen
    <2>2. \A op \in Awaited : Lasts(op)
      BY <1>3, <2>1 DEF Awaited
    <2> QED BY <1>1, <1>2, <2>1, <2>2, CalmerKeeps DEF SpinInv, ScreenCalmer, ListsCalmer, discovery
  <1>8. CASE ListAnswered(n)
    <2>1. calls[n].op = "list" /\ UNCHANGED screen /\ ~mine'.loading /\ ~mine'.refreshing
      BY <1>8 DEF ListAnswered, Settling
    <2> QED BY <1>1, <1>2, <1>3, <2>1, SpinKept DEF SpinInv, Awaited, discovery
  <1> QED BY <1>4, <1>5, <1>6, <1>7, <1>8 DEF Taken

LEMMA FoundSpins ==
    ASSUME TypeInv, SpinInv, NEW n \in CallIds,
           HomeAnswered(n) \/ HomeFailed(n) \/ SearchAnswered(n) \/ SearchFailed(n)
    PROVE  SpinInv'
  <1>1. Settle(n) /\ UNCHANGED <<tab, screen, mine>> /\ home \in Home /\ search \in Search
    BY DEF HomeAnswered, HomeFailed, SearchAnswered, SearchFailed, app, TypeInv, TypeOK
  <1>2. Over(n) /\ CallsHandled'
    BY <1>1, SettleSettles, OverHandled, TypeOKIs DEF TypeInv, SpinInv
  <1>3. \A op \in Awaited : calls[n].op # op \/ ~calls[n].live => Lasts(op)
    BY <1>2, OverLasts
  <1>4. CASE HomeAnswered(n) \/ HomeFailed(n)
    <2>1. /\ calls[n].op = "home" /\ UNCHANGED search
          /\ ~home'.loading /\ ~home'.refreshing
      BY <1>1, <1>4 DEF HomeAnswered, HomeFailed, Settling, Home
    <2> QED BY <1>1, <1>2, <1>3, <2>1, SpinKept DEF SpinInv, Awaited
  <1>5. CASE SearchAnswered(n) \/ SearchFailed(n)
    <2>1. calls[n].op = "search" /\ UNCHANGED home /\ ~search'.loading
      BY <1>1, <1>5 DEF SearchAnswered, SearchFailed, Settling, Search
    <2> QED BY <1>1, <1>2, <1>3, <2>1, SpinKept DEF SpinInv, Awaited
  <1> QED BY <1>4, <1>5
LEMMA SendAwaits ==
    ASSUME TypeInv, SpinInv, NEW op \in Op, NEW about \in Events \cup {None},
           NEW filter \in Filters \cup {None}, Send(op, about, filter)
    PROVE  /\ CallsHandled'
           /\ \A o \in Awaited : Lasts(o)
           /\ \A ops : op \in ops => Awaiting(ops)'
  <1>1. \E n \in CallIds, r \in Call : Placed(n, r) /\ r.op = op /\ r.live /\ r.stage = "sent"
    BY SendPlaces, TypeOKIs DEF TypeInv
  <1>2. CallsHandled'
    BY <1>1, SentHandled DEF SpinInv
  <1> QED BY <1>1, <1>2, SentAwaits

(* The page sends: the flag that goes up has its request. *)
LEMMA PageSendSpins ==
    ASSUME TypeInv, SpinInv, UNCHANGED discovery,
           \/ \E e \in Events : TapCard(e)
           \/ ToggleSave \/ OnRegister \/ OnCancelRegistration \/ SubmitReview
    PROVE  SpinInv'
  <1>0. screen \in Screen /\ screen.event \in Events
    BY DEF TypeInv, TypeOK, Screen
  <1>1. UNCHANGED mine /\ \A o \in {"list", "home", "search"} : o \in Awaited
    BY DEF TapCard, Open, ToggleSave, OnRegister, OnCancelRegistration, SubmitReview, Awaited
  <1>2. ASSUME NEW e \in Events, TapCard(e) PROVE SpinInv'
    <2>1. /\ Send("load", e, None) /\ ~screen'.actionLoading /\ ~screen'.reviewLoading
      BY <1>2 DEF TapCard, Open, Fresh
    <2>2. CallsHandled' /\ (\A o \in Awaited : Lasts(o)) /\ Awaiting({"load"})'
      BY <2>1, SendAwaits DEF Op
    <2> QED BY <1>1, <2>1, <2>2, SpinKept DEF SpinInv, discovery
  <1>3. CASE ToggleSave
    <2>1. /\ UNCHANGED <<tab, screen>>
          /\ \E op \in {"save", "unsave"} : Send(op, screen.event, None)
      BY <1>3 DEF ToggleSave
    <2>2. CallsHandled' /\ \A o \in Awaited : Lasts(o)
      BY <1>0, <2>1, SendAwaits DEF Op
    <2> QED BY <1>1, <2>1, <2>2, SameIsCalmer, CalmerKeeps DEF SpinInv
  <1>4. CASE OnRegister \/ OnCancelRegistration
    <2>1. /\ tab' = tab /\ tab = "event"
          /\ screen'.loading = screen.loading /\ screen'.reviewLoading = screen.reviewLoading
          /\ \E op \in {"rsvp", "cancel"} : Send(op, screen.event, None)
      BY <1>0, <1>4 DEF OnRegister, OnCancelRegistration, Showing, Screen
    <2>2. /\ CallsHandled' /\ (\A o \in Awaited : Lasts(o))
          /\ Awaiting({"rsvp", "cancel"})'
      BY <1>0, <2>1, SendAwaits DEF Op
    <2> QED BY <1>1, <2>1, <2>2, SpinKept DEF SpinInv, Awaited, discovery
  <1>5. CASE SubmitReview
    <2>1. /\ tab' = tab /\ tab = "event"
          /\ screen'.loading = screen.loading /\ screen'.actionLoading = screen.actionLoading
          /\ Send("review", screen.event, None)
      BY <1>0, <1>5 DEF SubmitReview, Showing, Screen
    <2>2. /\ CallsHandled' /\ (\A o \in Awaited : Lasts(o))
          /\ Awaiting({"review", "reload"})'
      BY <1>0, <2>1, SendAwaits DEF Op
    <2> QED BY <1>1, <2>1, <2>2, SpinKept DEF SpinInv, Awaited, discovery
  <1> QED BY <1>2, <1>3, <1>4, <1>5

(* So do the tabs. *)
LEMMA TabSendSpins ==
    ASSUME TypeInv, SpinInv,
           \/ (FocusMyEvents \/ PullMyEvents) /\ UNCHANGED discovery
           \/ PullHome \/ RunSearch
    PROVE  SpinInv'
  <1>1. CASE (FocusMyEvents \/ PullMyEvents) /\ UNCHANGED discovery
    <2>1. /\ Send("list", None, None) /\ tab' # "event"
      BY <1>1 DEF FocusMyEvents, PullMyEvents
    <2>2. CallsHandled' /\ (\A o \in Awaited : Lasts(o)) /\ Awaiting({"list"})'
      BY <2>1, SendAwaits DEF Op
    <2> QED BY <1>1, <2>1, <2>2, SpinKept DEF SpinInv, Awaited, discovery
  <1>2. CASE PullHome
    <2>1. Send("home", None, None) /\ tab' # "event" /\ UNCHANGED <<mine, search>>
      BY <1>2 DEF PullHome, app
    <2>2. CallsHandled' /\ (\A o \in Awaited : Lasts(o)) /\ Awaiting({"home"})'
      BY <2>1, SendAwaits DEF Op
    <2> QED BY <2>1, <2>2, SpinKept DEF SpinInv, Awaited
  <1>3. CASE RunSearch
    <2>1. Send("search", None, search.filter) /\ tab' # "event" /\ UNCHANGED <<mine, home>>
      BY <1>3 DEF RunSearch, app
    <2>2. search.filter \in Filters
      BY SearchesAskForFilters DEF TypeInv, TypeOK, Search
    <2>3. CallsHandled' /\ (\A o \in Awaited : Lasts(o)) /\ Awaiting({"search"})'
      BY <2>1, <2>2, SendAwaits DEF Op
    <2> QED BY <2>1, <2>3, SpinKept DEF SpinInv, Awaited
  <1> QED BY <1>1, <1>2, <1>3

(* A page that is left drops its loads, and nobody waits on it any more. *)
LEMMA GoBackSpins ==
    ASSUME TypeInv, SpinInv, GoBack, UNCHANGED discovery
    PROVE  SpinInv'
  <1>1. \A n \in CallIds :
                 \/ calls'[n].op = "none"
                 \/ calls[n].op \notin PageOps /\ calls'[n] = calls[n]
                 \/ calls[n].op \in PageOps \ EventReads /\ calls'[n].op = calls[n].op
    BY AbandonedIs, TypeOKIs DEF TypeInv, GoBack
  <1>2. CallsHandled'
    BY <1>1 DEF SpinInv, CallsHandled, GoesOn, PageOps, EventReads
  <1>3. \A n \in CallIds : calls[n].op \in {"list", "home", "search"} => calls'[n] = calls[n]
    <2>1. \A n \in CallIds : calls[n].op \in {"list", "home", "search"} =>
             Without(PageOps)[n] = calls[n]
      BY DEF Without, PageOps
    <2> QED BY <2>1 DEF GoBack, Abandoned
  <1>4. tab' # "event" /\ UNCHANGED mine
    BY DEF GoBack
  <1> QED BY <1>2, <1>3, <1>4, SpinKept DEF SpinInv, Lasts, discovery

(* The thanks come and the page is loaded again by the same callback. *)
LEMMA ReviewSpins ==
    ASSUME TypeInv, SpinInv, NEW n \in CallIds, ReviewAnswered(n), UNCHANGED discovery
    PROVE  SpinInv'
  <1>1. PICK r : r = NewCall("reload", screen.event, None)
    OBVIOUS
  <1>2. r \in Call /\ r.op = "reload" /\ r.live
    <2>1. screen.event \in Events
      BY DEF TypeInv, TypeOK, Screen
    <2> QED BY <1>1, <2>1, NewCallIs DEF Op
  <1>3. /\ \A m \in CallIds : calls'[m] = IF m = n THEN r ELSE calls[m]
        /\ calls[n].op = "review"
    BY <1>1 DEF ReviewAnswered, Settling, TypeInv, TypeOK
  <1>4. CallsHandled'
    BY <1>2, <1>3, HandledKept DEF SpinInv
  <1>5. Awaiting({"review", "reload"})'
    BY <1>2, <1>3, <1>4 DEF Awaiting, CallsHandled
  <1>6. \A o \in Awaited \ {"review"} : Lasts(o)
    BY <1>3 DEF Lasts
  <1>7. /\ UNCHANGED <<tab, mine>> /\ screen'.loading = screen.loading
        /\ screen'.actionLoading = screen.actionLoading
    BY DEF ReviewAnswered, TypeInv, TypeOK, Screen
  <1> QED BY <1>4, <1>5, <1>6, <1>7, SpinKept DEF SpinInv, Awaited, discovery

(* What sends nothing and takes nothing lets everybody wait on. *)
LEMMA IdleSpins ==
    ASSUME TypeInv, SpinInv, UNCHANGED calls, ScreenCalmer, ListsCalmer
    PROVE  SpinInv'
  <1>1. CallsHandled'
    BY DEF SpinInv, CallsHandled
  <1> QED BY <1>1, SameLasts, CalmerKeeps DEF SpinInv

LEMMA SpinStays == TypeInv /\ SpinInv /\ [Next]_vars => SpinInv'
  <1> SUFFICES ASSUME TypeInv, SpinInv, [Next]_vars PROVE SpinInv'
    OBVIOUS
  <1>1. CASE Page /\ UNCHANGED discovery
    <2>1. CASE OpenCancel \/ CloseCancel \/ OpenReview \/ CloseReview
      <3>1. UNCHANGED calls /\ ScreenCalmer /\ ListsCalmer
        BY <1>1, <2>1 DEF OpenCancel, CloseCancel, OpenReview, CloseReview, network, discovery,
                          TypeInv, TypeOK, Screen, ScreenCalmer, ListsCalmer
      <3> QED BY <3>1, IdleSpins
    <2>2. CASE LeaveMyEvents
      <3>1. UNCHANGED calls /\ ScreenCalmer /\ ListsCalmer
        BY <1>1, <2>2 DEF LeaveMyEvents, network, discovery, ScreenCalmer, ListsCalmer
      <3> QED BY <3>1, IdleSpins
    <2>3. ASSUME NEW e \in Events, CloseRegistration(e) \/ CancelEvent(e) PROVE SpinInv'
      <3>1. UNCHANGED calls /\ UNCHANGED <<tab, screen>> /\ UNCHANGED mine
        BY <2>3 DEF CloseRegistration, CancelEvent, network
      <3> QED BY <1>1, <3>1, SameIsCalmer, IdleSpins
    <2> QED BY <1>1, <2>1, <2>2, <2>3, PageSendSpins, TabSendSpins, GoBackSpins, ServedSpins
            DEF Page
  <1>2. CASE Discover
    <2>1. CASE EnterSearch \/ LeaveSearch
      <3>1. UNCHANGED calls /\ ScreenCalmer /\ ListsCalmer
        BY <2>1 DEF EnterSearch, LeaveSearch, network, ScreenCalmer, ListsCalmer
      <3> QED BY <3>1, IdleSpins
    <2>2. CASE \/ HideResults \/ ClearAll
               \/ \E c \in Categories \cup {None} : SelectCategory(c)
               \/ \E filter \in Filter : EditFilter(filter)
      <3>1. UNCHANGED calls /\ UNCHANGED <<tab, screen>> /\ ListsCalmer
        BY <2>2 DEF HideResults, ClearAll, SelectCategory, EditFilter, app, network,
                    TypeInv, TypeOK, Home, Search, ListsCalmer
      <3> QED BY <3>1, SameIsCalmer, IdleSpins
    <2> QED BY <1>2, <2>1, <2>2, TabSendSpins DEF Discover
  <1>3. ASSUME NEW n \in CallIds, PageCall(n), UNCHANGED discovery PROVE SpinInv'
    BY <1>3, TakenSpins, ReviewSpins, ServedSpins DEF PageCall, Taken
  <1>4. ASSUME NEW n \in CallIds, DiscoveryCall(n) PROVE SpinInv'
    BY <1>4, FoundSpins, ServedSpins DEF DiscoveryCall
  <1>5. CASE UNCHANGED vars
    <2>1. UNCHANGED calls /\ UNCHANGED <<tab, screen>> /\ UNCHANGED mine /\ UNCHANGED discovery
      BY <1>5 DEF vars, network, discovery
    <2> QED BY <2>1, SameIsCalmer, IdleSpins
  <1> QED BY <1>1, <1>2, <1>3, <1>4, <1>5 DEF Next, CallGoesOn

LEMMA SpinStarts == Init => SpinInv
  <1> SUFFICES ASSUME Init PROVE SpinInv
    OBVIOUS
  <1>1. LET r == NewCall("home", None, None) IN r.op = "home" /\ r.live /\ r.stage = "sent"
    BY NewCallIs DEF Op
  <1>2. 1 \in CallIds
    BY BoundsAreNatural DEF CallIds
  <1>3. /\ calls[1].op = "home" /\ calls[1].live /\ calls[1].stage = "sent"
        /\ \A n \in CallIds : calls[n] = calls[1] \/ calls[n].op = "none"
    BY <1>1, <1>2, NoCallTyped DEF Init
  <1>4. CallsHandled /\ Awaiting({"home"})
    BY <1>2, <1>3 DEF CallsHandled, Awaiting, GoesOn
  <1> QED BY <1>4 DEF Init, SpinInv, SpinnersAreAwaiting

(* However requests overlap, fail or are abandoned, no spinner turns and no
   button stays disabled but for a request that is under way, in a stage that
   somebody handles: the half of ScreenSettles that fairness does not give. *)
THEOREM SpinnersAwait == Spec => []SpinnersAreAwaiting
  <1>1. SpinInv => SpinnersAreAwaiting
    BY DEF SpinInv
  <1> QED BY <1>1, TypeStarts, TypeStays, SpinStarts, SpinStays, PTL DEF Spec

-----------------------------------------------------------------------------
(* The dates of the weekend chip. *)

(* The coming Saturday is one, and on a Sunday it is the day before. *)
LEMMA SaturdayIsSaturday == Saturday \in Int /\ Saturday % 7 = 6
  <1>1. Today \in Int
    BY DatesAreIntegers
  <1>2. CASE Today % 7 = 0
    BY <1>1, <1>2 DEF Saturday, Weekday
  <1>3. CASE Today % 7 # 0
    BY <1>1, <1>3 DEF Saturday, Weekday
  <1> QED BY <1>2, <1>3

LEMMA TwoDays ==
    ASSUME NEW d \in Int
    PROVE  {Weekday(x) : x \in d..(d + 1)} = {d % 7, (d + 1) % 7}
  <1>1. d..(d + 1) = {d, d + 1}
    OBVIOUS
  <1> QED BY <1>1 DEF Weekday

(* Whatever the day and the phone's zone, the weekend chip asks for the Saturday
   and the Sunday to come exactly on a phone that is not ahead of UTC, and for
   the Friday and the Saturday on one that is.                              *)
THEOREM WeekendAsked ==
    {Weekday(d) : d \in DateRange("weekend")} = IF Zone > 0 THEN {5, 6} ELSE {6, 0}
  <1>0. Zone \in Int
    BY DatesAreIntegers
  <1>1. CASE Zone > 0
    <2> DEFINE friday == Saturday - 1
    <2>1. friday \in Int /\ friday % 7 = 5 /\ (friday + 1) % 7 = 6 /\ friday + 1 = Saturday
      BY SaturdayIsSaturday
    <2>2. DateRange("weekend") = friday..(friday + 1)
      BY <1>1, <2>1, SaturdayIsSaturday DEF DateRange, ToYMD
    <2> HIDE DEF friday
    <2>3. {Weekday(d) : d \in friday..(friday + 1)} = {friday % 7, (friday + 1) % 7}
      BY <2>1, TwoDays
    <2> QED BY <1>1, <2>1, <2>2, <2>3
  <1>2. CASE ~(Zone > 0)
    <2>1. DateRange("weekend") = Saturday..(Saturday + 1)
      BY <1>2 DEF DateRange, ToYMD
    <2>2. (Saturday + 1) % 7 = 0
      BY SaturdayIsSaturday
    <2> QED BY <1>2, <2>1, <2>2, SaturdayIsSaturday, TwoDays
  <1> QED BY <1>1, <1>2

=============================================================================
