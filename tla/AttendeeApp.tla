----------------------------- MODULE AttendeeApp -----------------------------
(***************************************************************************)
(* The attendee's phone: Home, Search, My Events and the event page, one   *)
(* of them looked at, while the answers to what any of them sent arrive in *)
(* any order and an organizer closes and cancels events.                   *)
(***************************************************************************)
EXTENDS Discovery

(* A search may ask for whatever the filter view holds. *)
ASSUME SearchesAskForFilters == Filter \subseteq Filters

vars == <<server, tab, screen, mine, doubt, network, home, search, asked, muddled>>
discovery == <<home, search, asked, muddled>>

Init ==
    /\ status = [e \in Events |-> "published"]
    /\ rows = {}
    /\ tab = "home"
    /\ screen \in {Fresh(e) : e \in Events}
    /\ mine = [loading |-> FALSE, refreshing |-> FALSE, list |-> [f \in Lists |-> {}]]
    /\ doubt = {}
    /\ calls = [n \in CallIds |-> IF n = 1 THEN NewCall("home", None, None) ELSE NoCall]
    /\ sent = 0 /\ lost = 0
    /\ home = [loading |-> TRUE, refreshing |-> FALSE, events |-> {}, category |-> None]
    /\ search = [filter |-> NoFilter, showResults |-> FALSE, loading |-> FALSE, results |-> {}]
    /\ asked = NoFilter
    /\ muddled = TRUE

(* Cards that can be tapped. *)
OnScreen ==
    CASE tab = "home" -> HomeShows
      [] tab = "search" -> IF search.showResults /\ ~search.loading THEN search.results ELSE {}
      [] tab = "my_events" -> IF mine.loading THEN {} ELSE UNION {mine.list[f] : f \in Lists}
      [] OTHER -> {}

TapCard(e) == e \in OnScreen /\ Open(e)

Page ==
    \/ \E e \in Events : TapCard(e)
    \/ GoBack \/ ToggleSave \/ OnRegister \/ OpenCancel \/ CloseCancel
    \/ OnCancelRegistration \/ OpenReview \/ CloseReview \/ SubmitReview
    \/ FocusMyEvents \/ PullMyEvents \/ LeaveMyEvents
    \/ \E e \in Events : CloseRegistration(e) \/ CancelEvent(e)
    \/ \E n \in CallIds : CallFails(n)

Discover ==
    \/ PullHome \/ EnterSearch \/ LeaveSearch \/ RunSearch \/ HideResults \/ ClearAll
    \/ \E c \in Categories \cup {None} : SelectCategory(c)
    \/ \E filter \in Filter : EditFilter(filter)

(* The server answers call n, or the component that sent it takes the answer. *)
PageCall(n) ==
    \/ LoadAnswered(n) \/ LoadFailed(n) \/ ReloadAnswered(n) \/ ReloadFailed(n)
    \/ SaveAnswered(n) \/ SaveFailed(n) \/ RsvpAnswered(n) \/ CancelAnswered(n)
    \/ ActionFailed(n) \/ ReviewAnswered(n) \/ ReviewFailed(n) \/ ListAnswered(n)
    \/ ServeRsvp(n) \/ ServeCancel(n) \/ ServeSave(n) \/ ServeUnsave(n)
    \/ ServeReview(n) \/ ServeLoad(n) \/ ServeList(n) \/ NobodyHears(n)

DiscoveryCall(n) ==
    \/ HomeAnswered(n) \/ HomeFailed(n) \/ SearchAnswered(n) \/ SearchFailed(n)
    \/ ServeHome(n) \/ ServeSearch(n)

CallGoesOn(n) ==
    \/ PageCall(n) /\ UNCHANGED discovery
    \/ DiscoveryCall(n)

Next ==
    \/ Page /\ UNCHANGED discovery
    \/ Discover
    \/ \E n \in CallIds : CallGoesOn(n)

Spec == Init /\ [][Next]_vars

(* The network answers or gives up; the user and the organizer may stop. *)
FairSpec == Spec /\ \A n \in CallIds : WF_vars(CallGoesOn(n))

-----------------------------------------------------------------------------
TypeOK ==
    /\ status \in [Events -> EventStatus]
    /\ rows \subseteq Facts \X Events
    /\ tab \in {"home", "search", "my_events", "event"}
    /\ screen \in Screen
    /\ mine \in MyEvents
    /\ doubt \subseteq Marks
    /\ calls \in [CallIds -> Call]
    /\ sent \in 0..MaxCalls /\ lost \in 0..MaxLost
    /\ home \in Home /\ search \in Search
    /\ asked \in Filter /\ muddled \in BOOLEAN

Settled(f) == \A n \in CallIds : f \notin Writes(calls[n].op) \cup Reads(calls[n].op)

(* What is shown of a fact claims nothing that is not so, and leaves out only
   what the server failed to look up.                                      *)
Tells(shown, f) ==
    /\ shown => <<f, screen.event>> \in rows
    /\ <<f, screen.event>> \in rows => shown \/ <<"lookup", f>> \in doubt

(* Whenever no request about them is under way, the page's heart and button, and
   the user's review in its list, show what the server's rows say; a heart or a
   button may also be empty after a lookup that failed without a word.  Requests
   about one fact that overlapped since the page was read, and a write or a
   reload the phone was told has failed, may leave the page behind: the code
   orders no answers and reads nothing again.                              *)
PageTellsTheTruth ==
    Showing => \A f \in Facts :
        Settled(f) /\ <<"event", f>> \notin doubt => Tells(screen.is[f], f)

(* The same for My Events: an event is missing or left over only after an
   overlap or a failure.                                                   *)
ListsAreComplete ==
    tab = "my_events" /\ ~mine.loading => \A f \in Lists :
        Settled(f) /\ <<"list", f>> \notin doubt => mine.list[f] = {e \in Events : <<f, e>> \in rows}

(* Nobody is thanked for a review that was not stored, however often the form
   was closed and opened while it was sent.                                *)
ThanksAreDue == screen.reviewSuccess => <<"reviewed", screen.event>> \in rows

(* The results shown are those of the filters sent last, cancelled events
   aside, unless searches have overlapped or the last has failed.          *)
ResultsAnswerTheSearch ==
    tab = "search" /\ search.showResults /\ ~search.loading /\ ~muddled =>
        /\ search.results \subseteq Matches(asked)
        /\ Found(asked) \subseteq search.results

(* No spinner turns for good and no button stays disabled. *)
ScreenSettles == (screen.loading \/ screen.actionLoading \/ screen.reviewLoading)
                   /\ tab = "event" ~>
                 ~(screen.loading \/ screen.actionLoading \/ screen.reviewLoading) \/ tab # "event"

(* The stages of a request that its component has a callback for, or the server
   a step: the lists count a failure as an answer, and listings are never
   refused.                                                                *)
GoesOn(c) ==
    /\ c.op = "list" => c.stage \in {"sent", "answered"}
    /\ c.op \in {"home", "search"} => c.stage # "refused"
Awaiting(ops) == \E n \in CallIds : calls[n].op \in ops /\ calls[n].live /\ GoesOn(calls[n])

(* Whatever shows that it waits has a request of its own under way, in a stage
   that somebody handles, for a component that is still there to hear of it. *)
SpinnersAreAwaiting ==
    /\ tab = "event" =>
          /\ screen.loading => Awaiting({"load"})
          /\ screen.actionLoading => Awaiting({"rsvp", "cancel"})
          /\ screen.reviewLoading => Awaiting({"review", "reload"})
    /\ mine.loading \/ mine.refreshing => Awaiting({"list"})
    /\ home.loading \/ home.refreshing => Awaiting({"home"})
    /\ search.loading => Awaiting({"search"})

(* The comment on the date chips says that the weekend is the Saturday and the
   Sunday to come.                                                         *)
WeekendIsSaturdayAndSunday ==
    \A n \in CallIds : calls[n].op = "search" /\ calls[n].filter.dates = "weekend" =>
        {Weekday(d) : d \in DateRange("weekend")} = {6, 0}
=============================================================================
