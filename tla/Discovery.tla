------------------------------ MODULE Discovery ------------------------------
(***************************************************************************)
(* The phone's Home and Search tabs.  Home filters on the phone what it    *)
(* loaded; Search sends its filters and shows whatever answer came last.   *)
(* The category chips are taken to be loaded; recent searches, distance    *)
(* and availability, which the phone never sends, are left out.            *)
(***************************************************************************)
EXTENDS EventScreen

CONSTANTS Terms,       \* what may be typed into the search field
          Categories,  \* category ids
          Presets,     \* the date chips offered
          Mentions,    \* the events whose texts contain a term
          InCategory,  \* the events of a category
          DayOf,       \* the day of each event, day 0 being a Sunday
          Today,       \* the phone's date
          Zone         \* hours the phone is ahead of UTC

ASSUME DatesAreIntegers ==
    DayOf \in [Events -> Int] /\ Today \in Int /\ Zone \in Int
ASSUME PresetsAreKnown == Presets \subseteq {"any", "today", "tomorrow", "weekend"}

VARIABLES home,     \* HomeScreen's state
          search,   \* SearchScreen's state
          asked,    \* history: the filters of the search sent last
          muddled   \* history: searches overlapped, or the last one failed

app == <<server, tab, screen, mine, doubt>>

-----------------------------------------------------------------------------
Filter == [term: Terms \cup {None}, category: Categories \cup {None}, dates: Presets \cup {"any"}]
NoFilter == [term |-> None, category |-> None, dates |-> "any"]

Home == [loading: BOOLEAN, refreshing: BOOLEAN, events: SUBSET Events,
         category: Categories \cup {None}]
Search == [filter: Filter, showResults: BOOLEAN, loading: BOOLEAN, results: SUBSET Events]

(* toYMD prints the UTC date of a local midnight; ahead of UTC it is still the
   day before there.                                                       *)
ToYMD(day) == IF Zone > 0 THEN day - 1 ELSE day
Weekday(day) == day % 7

Saturday ==
    CASE Weekday(Today) = 0 -> Today - 1
      [] OTHER -> Today + (6 - Weekday(Today))

DateRange(preset) ==
    CASE preset = "today" -> ToYMD(Today)..ToYMD(Today)
      [] preset = "tomorrow" -> ToYMD(Today + 1)..ToYMD(Today + 1)
      [] preset = "weekend" -> ToYMD(Saturday)..ToYMD(Saturday + 1)

(* What the WHERE clause of the listing keeps. *)
Matches(filter) ==
    {e \in Events :
        /\ filter.term # None => e \in Mentions[filter.term]
        /\ filter.category # None => e \in InCategory[filter.category]
        /\ filter.dates # "any" => DayOf[e] \in DateRange(filter.dates)}

\* Mutant: the category is not put into the query.
FoundInAnyCategory(filter) == Public \cap Matches([filter EXCEPT !.category = None])
Found(filter) == Public \cap Matches(filter)

-----------------------------------------------------------------------------
(* Home loads when it is mounted and when it is pulled. *)
PullHome ==
    /\ tab = "home" /\ ~home.loading /\ ~home.refreshing
    /\ home' = [home EXCEPT !.refreshing = TRUE]
    /\ Send("home", None, None)
    /\ UNCHANGED <<app, search, asked, muddled>>

SelectCategory(c) ==
    /\ tab = "home" /\ ~home.loading
    /\ home.category # c
    /\ home' = [home EXCEPT !.category = c]
    /\ UNCHANGED <<app, network, search, asked, muddled>>

HomeAnswered(n) ==
    /\ Settling(n, "home", "answered")
    /\ home' = [home EXCEPT !.loading = FALSE, !.refreshing = FALSE,
                    !.events = {e \in Events : <<"listed", e>> \in calls[n].reply}]
    /\ Settle(n)
    /\ UNCHANGED <<app, search, asked, muddled>>

HomeFailed(n) ==
    /\ Settling(n, "home", "failed")
    /\ home' = [home EXCEPT !.loading = FALSE, !.refreshing = FALSE, !.events = {}]
    /\ Settle(n)
    /\ UNCHANGED <<app, search, asked, muddled>>

HomeShows ==
    IF home.loading THEN {}
    ELSE {e \in home.events : home.category # None => e \in InCategory[home.category]}

-----------------------------------------------------------------------------
EnterSearch ==
    /\ tab = "home"
    /\ tab' = "search"
    /\ UNCHANGED <<server, screen, mine, doubt, network, home, search, asked, muddled>>

LeaveSearch ==
    /\ tab = "search" /\ ~search.showResults
    /\ tab' = "home"
    /\ UNCHANGED <<server, screen, mine, doubt, network, home, search, asked, muddled>>

(* The filter view; in the results the term can be typed and a chip cleared. *)
EditFilter(filter) ==
    /\ tab = "search"
    /\ filter # search.filter
    /\ search.showResults =>
          /\ filter.category \in {search.filter.category, None}
          /\ filter.dates \in {search.filter.dates, "any"}
    /\ search' = [search EXCEPT !.filter = filter]
    /\ UNCHANGED <<app, network, home, asked, muddled>>

Searching == \E n \in CallIds : calls[n].op = "search"

(* Show Results, or the keyboard's search key in either view. *)
RunSearch ==
    /\ tab = "search"
    /\ search' = [search EXCEPT !.loading = TRUE, !.showResults = TRUE]
    /\ Send("search", None, search.filter)
    /\ asked' = search.filter
    /\ muddled' = Searching
    /\ UNCHANGED <<app, home>>

SearchAnswered(n) ==
    /\ Settling(n, "search", "answered")
    /\ search' = [search EXCEPT !.loading = FALSE,
                      !.results = {e \in Events : <<"listed", e>> \in calls[n].reply}]
    /\ Settle(n)
    /\ UNCHANGED <<app, home, asked, muddled>>

SearchFailed(n) ==
    /\ Settling(n, "search", "failed")
    /\ search' = [search EXCEPT !.loading = FALSE, !.results = {}]
    /\ Settle(n)
    /\ muddled' = TRUE
    /\ UNCHANGED <<app, home, asked>>

HideResults ==
    /\ tab = "search" /\ search.showResults
    /\ search' = [search EXCEPT !.showResults = FALSE]
    /\ UNCHANGED <<app, network, home, asked, muddled>>

(* In the filter view, or below an empty list of results. *)
ClearAll ==
    /\ tab = "search"
    /\ search.showResults => ~search.loading /\ search.results = {}
    /\ search' = [search EXCEPT !.filter = NoFilter, !.showResults = FALSE, !.results = {}]
    /\ UNCHANGED <<app, network, home, asked, muddled>>

-----------------------------------------------------------------------------
ServeHome(n) ==
    /\ AtServer(n) /\ calls[n].op = "home"
    /\ Answer(n, {"listed"} \X Public)
    /\ UNCHANGED <<app, home, search, asked, muddled>>

ServeSearch(n) ==
    /\ AtServer(n) /\ calls[n].op = "search"
    /\ Answer(n, {"listed"} \X Found(calls[n].filter))
    /\ UNCHANGED <<app, home, search, asked, muddled>>
=============================================================================
