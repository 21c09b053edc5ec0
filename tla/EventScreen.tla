----------------------------- MODULE EventScreen -----------------------------
(***************************************************************************)
(* The phone's event page and its My Events tab: two copies of what the    *)
(* server knows of the user, the flags of one event and two lists, kept    *)
(* up to date by whatever answers arrive.  Texts, toasts and pictures are  *)
(* left out.                                                               *)
(***************************************************************************)
EXTENDS Integers

CONSTANTS Events,     \* event ids
          Filters,    \* what a search may ask for
          None,       \* an argument that is not in use
          MaxCalls,   \* bound on the requests the phone sends
          MaxPending, \* bound on those under way at once
          MaxLost     \* bound on the requests that fail

ASSUME BoundsAreNatural ==
    MaxCalls \in Nat /\ MaxPending \in Nat \ {0} /\ MaxLost \in Nat
ASSUME NoneIsNothing == None \notin Events /\ None \notin Filters

VARIABLES calls, sent, lost,
          status,   \* table events: the status of each event
          rows,     \* the user's rows: <<fact, event>>
          tab,      \* what the user looks at
          screen,   \* EventDetailsScreen's state
          mine,     \* MyEventsScreen's state
          doubt     \* history: copies an overlap or a failure may have left wrong,
                    \* and facts whose lookup failed behind the page's back

(* What an event may be to the user. *)
Facts == {"registered", "saved", "reviewed"}

INSTANCE ClientCalls WITH
    Subjects <- Events,
    Ops <- {"load", "reload", "rsvp", "cancel", "save", "unsave", "review",
            "list", "home", "search"},
    Fetches <- {"load", "reload", "list", "home", "search"},
    Topics <- Facts \cup {"listed"}

network == <<calls, sent, lost>>
server == <<status, rows>>

-----------------------------------------------------------------------------
EventStatus == {"published", "registration_closed", "cancelled"}
Public == {e \in Events : status[e] \in {"published", "registration_closed"}}

Lists == {"registered", "saved"}
Copies == {"event", "list"}
Marks == (Copies \cup {"lookup"}) \X Facts

Screen == [event: Events, loading: BOOLEAN, found: BOOLEAN, is: [Facts -> BOOLEAN],
           actionLoading: BOOLEAN, cancelOpen: BOOLEAN, reviewOpen: BOOLEAN,
           reviewLoading: BOOLEAN, reviewSuccess: BOOLEAN]

MyEvents == [loading: BOOLEAN, refreshing: BOOLEAN, list: [Lists -> SUBSET Events]]

Fresh(e) == [event |-> e, loading |-> TRUE, found |-> FALSE, is |-> [f \in Facts |-> FALSE],
             actionLoading |-> FALSE, cancelOpen |-> FALSE, reviewOpen |-> FALSE,
             reviewLoading |-> FALSE, reviewSuccess |-> FALSE]

-----------------------------------------------------------------------------
(* History.  A write that overlaps anything about the same fact, or a read
   that overlaps a write, may leave a copy behind; so may a write the client
   was told has failed.  A read that overlaps nothing settles the matter.   *)
Writes(op) ==
    CASE op \in {"rsvp", "cancel"} -> {"registered"}
      [] op \in {"save", "unsave"} -> {"saved"}
      [] op = "review" -> {"reviewed"}
      [] OTHER -> {}

Reads(op) ==
    CASE op \in {"load", "reload"} -> Facts
      [] op = "list" -> Lists
      [] OTHER -> {}

Copy(op) == IF op = "list" THEN "list" ELSE "event"

(* Among the requests other than those in done. *)
BeingWritten(f, done) == \E n \in CallIds \ done : f \in Writes(calls[n].op)
BeingRead(c, f, done) ==
    \E n \in CallIds \ done : f \in Reads(calls[n].op) /\ Copy(calls[n].op) = c

DoubtAfterWrite(op) ==
    doubt \cup {d \in Copies \X Writes(op) :
                    BeingWritten(d[2], {}) \/ \E c \in Copies : BeingRead(c, d[2], {})}

DoubtAfterRead(op, done) ==
    {d \in Marks :
        CASE d[1] = Copy(op) /\ d[2] \in Reads(op) ->
                BeingWritten(d[2], done) \/ (d \in doubt /\ BeingRead(d[1], d[2], done))
          [] d[1] = "lookup" /\ Copy(op) = "event" ->
                d \in doubt /\ BeingRead("event", d[2], done)
          [] OTHER -> d \in doubt}

(* The answer to a write sets the page's fact whatever its lookup said. *)
NowKnown(f) == doubt \ {<<"lookup", f>>}

-----------------------------------------------------------------------------
(* The event page. *)
Showing == tab = "event" /\ ~screen.loading /\ screen.found
NoModal == ~screen.cancelOpen /\ ~screen.reviewOpen

Open(e) ==
    /\ tab' = "event"
    /\ screen' = Fresh(e)
    /\ Send("load", e, None)
    /\ doubt' = DoubtAfterRead("load", {})
    /\ UNCHANGED <<server, mine>>

PageOps == {"load", "reload", "rsvp", "cancel", "save", "unsave", "review"}

(* The header's arrow or a swipe; an open modal is in their way. *)
GoBack ==
    /\ tab = "event" /\ NoModal
    /\ tab' = "home"
    /\ Abandoned(PageOps)
    /\ screen' = Fresh(screen.event)
    /\ doubt' = doubt \cap ({"list"} \X Facts)
    /\ UNCHANGED <<server, mine>>

LoadAnswered(n) ==
    /\ Settling(n, "load", "answered")
    /\ screen' = [screen EXCEPT !.loading = FALSE, !.found = TRUE,
                      !.is = [f \in Facts |-> <<f, screen.event>> \in calls[n].reply]]
    /\ Settle(n)
    /\ UNCHANGED <<server, tab, mine, doubt>>

ReloadAnswered(n) ==
    /\ Settling(n, "reload", "answered")
    /\ screen' = [screen EXCEPT !.reviewLoading = FALSE,
                      !.is = [f \in Facts |-> <<f, screen.event>> \in calls[n].reply]]
    /\ Settle(n)
    /\ UNCHANGED <<server, tab, mine, doubt>>

(* Whichever of the three requests fails, nothing is set; the error is not
   shown.                                                                  *)
LoadFailed(n) ==
    /\ Settling(n, "load", "failed") \/ Settling(n, "load", "refused")
    /\ screen' = [screen EXCEPT !.loading = FALSE]
    /\ Settle(n)
    /\ UNCHANGED <<server, tab, mine, doubt>>

ReloadFailed(n) ==
    /\ Settling(n, "reload", "failed") \/ Settling(n, "reload", "refused")
    /\ screen' = [screen EXCEPT !.reviewLoading = FALSE]
    /\ Settle(n)
    /\ doubt' = doubt \cup {"event"} \X Facts
    /\ UNCHANGED <<server, tab, mine>>

(* Nothing disables the heart while a request is under way. *)
ToggleSave ==
    LET op == IF screen.is["saved"] THEN "unsave" ELSE "save" IN
    /\ Showing /\ NoModal
    /\ Send(op, screen.event, None)
    /\ doubt' = DoubtAfterWrite(op)
    /\ UNCHANGED <<server, tab, screen, mine>>

SaveAnswered(n) ==
    /\ \E op \in {"save", "unsave"} :
          /\ Settling(n, op, "answered")
          /\ screen' = [screen EXCEPT !.is["saved"] = (op = "save")]
    /\ Settle(n)
    /\ doubt' = NowKnown("saved")
    /\ UNCHANGED <<server, tab, mine>>

SaveFailed(n) ==
    /\ \E op \in {"save", "unsave"}, s \in {"failed", "refused"} : Settling(n, op, s)
    /\ Settle(n)
    /\ UNCHANGED <<server, tab, screen, mine, doubt>>

OnRegister ==
    /\ Showing /\ NoModal
    /\ ~screen.is["registered"] /\ ~screen.actionLoading
    /\ screen' = [screen EXCEPT !.actionLoading = TRUE]
    /\ Send("rsvp", screen.event, None)
    /\ doubt' = DoubtAfterWrite("rsvp")
    /\ UNCHANGED <<server, tab, mine>>

OpenCancel ==
    /\ Showing /\ NoModal /\ screen.is["registered"]
    /\ screen' = [screen EXCEPT !.cancelOpen = TRUE]
    /\ UNCHANGED <<server, tab, mine, doubt, network>>

CloseCancel ==
    /\ Showing /\ screen.cancelOpen
    /\ screen' = [screen EXCEPT !.cancelOpen = FALSE]
    /\ UNCHANGED <<server, tab, mine, doubt, network>>

OnCancelRegistration ==
    /\ Showing /\ screen.cancelOpen /\ ~screen.actionLoading
    /\ screen' = [screen EXCEPT !.actionLoading = TRUE]
    /\ Send("cancel", screen.event, None)
    /\ doubt' = DoubtAfterWrite("cancel")
    /\ UNCHANGED <<server, tab, mine>>

RsvpAnswered(n) ==
    /\ Settling(n, "rsvp", "answered")
    /\ screen' = [screen EXCEPT !.actionLoading = FALSE, !.is["registered"] = TRUE]
    /\ Settle(n)
    /\ doubt' = NowKnown("registered")
    /\ UNCHANGED <<server, tab, mine>>

\* Mutant: the modal closes and the page goes on calling the user registered.
CancelAnsweredForgetful(n) ==
    /\ Settling(n, "cancel", "answered")
    /\ screen' = [screen EXCEPT !.actionLoading = FALSE, !.cancelOpen = FALSE]
    /\ Settle(n)
    /\ doubt' = NowKnown("registered")
    /\ UNCHANGED <<server, tab, mine>>

CancelAnswered(n) ==
    /\ Settling(n, "cancel", "answered")
    /\ screen' = [screen EXCEPT !.actionLoading = FALSE, !.cancelOpen = FALSE,
                                !.is["registered"] = FALSE]
    /\ Settle(n)
    /\ doubt' = NowKnown("registered")
    /\ UNCHANGED <<server, tab, mine>>

\* Mutant: the flag is cleared only when the request succeeds.
ActionFailedForgetful(n) ==
    /\ \E op \in {"rsvp", "cancel"}, s \in {"failed", "refused"} : Settling(n, op, s)
    /\ Settle(n)
    /\ UNCHANGED <<server, tab, screen, mine, doubt>>

ActionFailed(n) ==
    /\ \E op \in {"rsvp", "cancel"}, s \in {"failed", "refused"} : Settling(n, op, s)
    /\ screen' = [screen EXCEPT !.actionLoading = FALSE]
    /\ Settle(n)
    /\ UNCHANGED <<server, tab, mine, doubt>>

OpenReview ==
    /\ Showing /\ NoModal
    /\ screen' = [screen EXCEPT !.reviewOpen = TRUE]
    /\ UNCHANGED <<server, tab, mine, doubt, network>>

(* The arrow, which a submission does not disable, or the way back from the
   thanks.                                                                 *)
CloseReview ==
    /\ Showing /\ screen.reviewOpen
    /\ screen' = [screen EXCEPT !.reviewOpen = FALSE, !.reviewSuccess = FALSE]
    /\ UNCHANGED <<server, tab, mine, doubt, network>>

\* Mutant: the thanks come with the request, not with its answer.
SubmitReviewHopeful ==
    /\ Showing /\ screen.reviewOpen /\ ~screen.reviewSuccess /\ ~screen.reviewLoading
    /\ screen' = [screen EXCEPT !.reviewLoading = TRUE, !.reviewSuccess = TRUE]
    /\ Send("review", screen.event, None)
    /\ doubt' = DoubtAfterWrite("review")
    /\ UNCHANGED <<server, tab, mine>>

SubmitReview ==
    /\ Showing /\ screen.reviewOpen /\ ~screen.reviewSuccess /\ ~screen.reviewLoading
    /\ screen' = [screen EXCEPT !.reviewLoading = TRUE]
    /\ Send("review", screen.event, None)
    /\ doubt' = DoubtAfterWrite("review")
    /\ UNCHANGED <<server, tab, mine>>

(* The thanks are shown at once and the page is loaded again behind them. *)
ReviewAnswered(n) ==
    /\ Settling(n, "review", "answered")
    /\ screen' = [screen EXCEPT !.reviewSuccess = TRUE]
    /\ calls' = [calls EXCEPT ![n] = NewCall("reload", screen.event, None)]
    /\ doubt' = DoubtAfterRead("reload", {n})
    /\ UNCHANGED <<server, tab, mine, sent, lost>>

ReviewFailed(n) ==
    /\ Settling(n, "review", "failed") \/ Settling(n, "review", "refused")
    /\ screen' = [screen EXCEPT !.reviewLoading = FALSE]
    /\ Settle(n)
    /\ UNCHANGED <<server, tab, mine, doubt>>

-----------------------------------------------------------------------------
\* Mutant: the tab loads when it is pulled, not when it gets focus.
FocusMyEventsIdle ==
    /\ tab \in {"home", "search"}
    /\ tab' = "my_events"
    /\ UNCHANGED <<server, screen, mine, doubt, network>>

(* The My Events tab stays mounted and loads again whenever it gets focus. *)
FocusMyEvents ==
    /\ tab \in {"home", "search"}
    /\ tab' = "my_events"
    /\ mine' = [mine EXCEPT !.loading = TRUE]
    /\ Send("list", None, None)
    /\ doubt' = DoubtAfterRead("list", {})
    /\ UNCHANGED <<server, screen>>

(* Pulling again while the indicator turns does nothing. *)
PullMyEvents ==
    /\ tab = "my_events" /\ ~mine.loading /\ ~mine.refreshing
    /\ mine' = [mine EXCEPT !.refreshing = TRUE]
    /\ Send("list", None, None)
    /\ doubt' = DoubtAfterRead("list", {})
    /\ UNCHANGED <<server, tab, screen>>

LeaveMyEvents ==
    /\ tab = "my_events"
    /\ tab' = "home"
    /\ UNCHANGED <<server, screen, mine, doubt, network>>

ListAnswered(n) ==
    /\ Settling(n, "list", "answered")
    /\ mine' = [loading |-> FALSE, refreshing |-> FALSE,
                list |-> [f \in Lists |-> {e \in Events : <<f, e>> \in calls[n].reply}]]
    /\ Settle(n)
    /\ UNCHANGED <<server, tab, screen, doubt>>

-----------------------------------------------------------------------------
(* The server's side. *)
Granted(n, changed) ==
    /\ rows' = changed
    /\ Answer(n, {})
    /\ UNCHANGED <<status, tab, screen, mine, doubt>>

Denied(n) ==
    /\ Refuse(n)
    /\ UNCHANGED <<server, tab, screen, mine, doubt>>

Of(n, f) == <<f, calls[n].about>>

(* A full event is refused, too. *)
ServeRsvp(n) ==
    /\ AtServer(n) /\ calls[n].op = "rsvp"
    /\ \/ /\ status[calls[n].about] = "published" /\ Of(n, "registered") \notin rows
          /\ Granted(n, rows \cup {Of(n, "registered")})
       \/ Denied(n)

ServeCancel(n) ==
    /\ AtServer(n) /\ calls[n].op = "cancel"
    /\ IF Of(n, "registered") \in rows THEN Granted(n, rows \ {Of(n, "registered")})
       ELSE Denied(n)

ServeSave(n) ==
    /\ AtServer(n) /\ calls[n].op = "save"
    /\ IF calls[n].about \in Public THEN Granted(n, rows \cup {Of(n, "saved")})
       ELSE Denied(n)

ServeUnsave(n) ==
    /\ AtServer(n) /\ calls[n].op = "unsave"
    /\ IF Of(n, "saved") \in rows THEN Granted(n, rows \ {Of(n, "saved")})
       ELSE Denied(n)

(* Cancelled events may be reviewed, nothing twice. *)
ServeReview(n) ==
    /\ AtServer(n) /\ calls[n].op = "review"
    /\ IF Of(n, "reviewed") \in rows THEN Denied(n)
       ELSE Granted(n, rows \cup {Of(n, "reviewed")})

(* The page's three requests, read at one instant: each fact is in one of them.
   The errors of the two lookups about the user are dropped, so the flag of one
   that failed is answered as false; a token past its time makes both so.    *)
LoadServed(n) ==
    /\ calls[n].about \in Public
    /\ \E unread \in SUBSET Lists :
          /\ lost + (IF unread = {} THEN 0 ELSE 1) <= MaxLost
          /\ lost' = lost + (IF unread = {} THEN 0 ELSE 1)
          /\ calls' = [calls EXCEPT ![n].stage = "answered",
                                    ![n].reply = {r \in rows : r[1] \notin unread}]
          /\ doubt' = doubt \cup {"lookup"} \X unread
    /\ sent' = sent

LoadRefused(n) ==
    /\ calls[n].about \notin Public
    /\ Refuse(n)
    /\ doubt' = doubt

ServeLoad(n) ==
    /\ AtServer(n) /\ calls[n].op \in {"load", "reload"}
    /\ LoadServed(n) \/ LoadRefused(n)
    /\ UNCHANGED <<server, tab, screen, mine>>

(* The two lists fail separately, and a failed one counts as an empty one. *)
ServeList(n) ==
    /\ AtServer(n) /\ calls[n].op = "list"
    /\ \E missing \in SUBSET Lists :
          /\ lost + (IF missing = {} THEN 0 ELSE 1) <= MaxLost
          /\ lost' = lost + (IF missing = {} THEN 0 ELSE 1)
          /\ calls' = [calls EXCEPT ![n].stage = "answered",
                                    ![n].reply = {r \in rows : r[1] \in Lists \ missing}]
          /\ doubt' = doubt \cup {"list"} \X missing
    /\ UNCHANGED <<server, tab, screen, mine, sent>>

CallFails(n) ==
    /\ Fail(n)
    /\ calls[n].op # "list"
    /\ doubt' = IF calls[n].live THEN doubt \cup {"event"} \X Writes(calls[n].op) ELSE doubt
    /\ UNCHANGED <<server, tab, screen, mine>>

NobodyHears(n) ==
    /\ NobodyListens(n)
    /\ Settle(n)
    /\ UNCHANGED <<server, tab, screen, mine, doubt>>

\* Mutant: a status nobody else knows.
CloseRegistrationMisspelt(e) ==
    /\ status[e] = "published"
    /\ status' = [status EXCEPT ![e] = "closed"]
    /\ UNCHANGED <<rows, tab, screen, mine, doubt, network>>

(* The organizer. *)
CloseRegistration(e) ==
    /\ status[e] = "published"
    /\ status' = [status EXCEPT ![e] = "registration_closed"]
    /\ UNCHANGED <<rows, tab, screen, mine, doubt, network>>

CancelEvent(e) ==
    /\ status[e] # "cancelled"
    /\ status' = [status EXCEPT ![e] = "cancelled"]
    /\ UNCHANGED <<rows, tab, screen, mine, doubt, network>>
=============================================================================
