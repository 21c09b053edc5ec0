---------------------------- MODULE OrganizerPages ----------------------------
(***************************************************************************)
(* The organizer's browser tab, one page of which is mounted at a time: the *)
(* forms that create and edit an event and the page of one event.  With it *)
(* come the tables both browser tabs work on.  A row of events is reduced  *)
(* to its status and to what a form sends: a category and perhaps a        *)
(* picture.  The dashboard only links to the pages.                        *)
(***************************************************************************)
EXTENDS Integers

CONSTANTS Events,     \* event ids
          Categories, \* category ids
          Names,      \* names of categories
          User,       \* the user whose account the admin looks at
          None,       \* an argument or a column that is not in use
          MaxCalls,   \* bound on the requests the tabs send
          MaxPending, \* bound on those under way at once
          MaxLost     \* bound on the requests that fail

ASSUME BoundsAreNatural ==
    MaxCalls \in Nat /\ MaxPending \in Nat \ {0} /\ MaxLost \in Nat
ASSUME NoneIsNothing == None \notin Events \cup Categories \cup Names
(* Where a form may take the organizer is told apart from the events. *)
ASSUME DashboardIsNoEvent == "dashboard" \notin Events

VARIABLES calls, sent, lost,
          events,   \* table events
          names,    \* table categories: the name of each
          account,  \* table users: the status of User
          work,     \* what the server has read for the request in each place
          org,      \* the organizer's tab
          leaving,  \* where its timers are about to take it
          doubt,    \* history: pages the tables have moved on from
          visit     \* history: what came of the form that creates

server == <<events, names, account, work>>
organizer == <<org, leaving, visit>>

-----------------------------------------------------------------------------
(* Whether a picture was chosen; the page takes no other file. *)
Picture == BOOLEAN
Form == [category: Categories, picture: Picture]
EventStatus == {"absent", "pending", "published", "registration_closed", "cancelled", "rejected"}
AccountStatus == {"active", "suspended"}
Row == [status: EventStatus, category: Categories \cup {None}, picture: BOOLEAN]
Absent == [status |-> "absent", category |-> None, picture |-> FALSE]

INSTANCE ClientCalls WITH
    Subjects <- Events \cup Categories \cup {User},
    Filters <- Form \cup Names,
    Ops <- {"options", "form", "upload", "create", "update", "details", "close", "reopen",
            "cancel", "pending", "approve", "reject", "changes", "categories", "add",
            "rename", "delete", "after_save", "after_delete", "user", "suspend", "activate"},
    Fetches <- {"options", "form", "details", "pending", "categories", "after_save",
                "after_delete", "user"},
    Topics <- EventStatus \cup Names \cup AccountStatus \cup {"in", "pictured", "offered"}

network == <<calls, sent, lost>>

(* Ids are never used again. *)
Category == Names \cup {"unused", "deleted"}
Existing == {c \in Categories : names[c] \in Names}

(* Begun: the first of a request's two statements has run. *)
Work == [begun: BOOLEAN, row: Row]
NoWork == [begun |-> FALSE, row |-> Absent]

Org == [at: {"dashboard", "create", "edit", "details"}, event: Events \cup {None},
        loading: BOOLEAN, found: BOOLEAN, shown: Row, options: SUBSET Categories,
        busy: BOOLEAN, modal: {"none", "close", "cancel"}]

Mounted(at, e) ==
    [at |-> at, event |-> e, loading |-> at \in {"edit", "details"}, found |-> FALSE,
     shown |-> Absent, options |-> {}, busy |-> FALSE, modal |-> "none"]

(* made: events; tried: a submission has succeeded or got no answer;
   repeated: the form was submitted after that.                            *)
Visit == [made: Nat, tried: BOOLEAN, repeated: BOOLEAN]
NewVisit == [made |-> 0, tried |-> FALSE, repeated |-> FALSE]

(* A row as a response carries it. *)
RowReply(row, e) ==
    {<<row.status, e>>} \cup {<<"in", c>> : c \in {row.category} \ {None}}
        \cup (IF row.picture THEN {<<"pictured", e>>} ELSE {})

RowIn(reply, e) ==
    [status |-> CHOOSE s \in EventStatus : <<s, e>> \in reply,
     category |-> IF \E c \in Categories : <<"in", c>> \in reply
                  THEN CHOOSE c \in Categories : <<"in", c>> \in reply ELSE None,
     picture |-> <<"pictured", e>> \in reply]

-----------------------------------------------------------------------------
(* Navigation. *)
FormOps == {"options", "form", "upload", "create", "update"}
DetailsOps == {"details", "close", "reopen", "cancel"}

FirstCall(at) ==
    CASE at = "create" -> "options"
      [] at = "edit" -> "form"
      [] at = "details" -> "details"

Enter(at, e) ==
    /\ org' = Mounted(at, e)
    /\ SendFrom(Without(FormOps \cup DetailsOps), FirstCall(at), e, None)
    /\ doubt' = IF at = "details" THEN doubt \cup {"details"} ELSE doubt
    /\ visit' = NewVisit

(* From the dashboard's list, or by the edit form's Cancel. *)
OpenEvent(at, e) ==
    /\ \/ org.at = "dashboard" /\ events[e].status # "absent" /\ at \in {"edit", "details"}
       \/ org.at = "edit" /\ ~org.loading /\ ~org.busy /\ at = "details" /\ e = org.event
    /\ Enter(at, e)
    /\ UNCHANGED <<server, leaving>>

OpenCreate ==
    /\ org.at # "create"
    /\ Enter("create", None)
    /\ UNCHANGED <<server, leaving>>

GoToDashboard ==
    /\ org.at # "dashboard"
    /\ org' = Mounted("dashboard", None)
    /\ Abandoned(FormOps \cup DetailsOps)
    /\ visit' = NewVisit
    /\ UNCHANGED <<server, leaving, doubt>>

(* A form's timer goes off, wherever the organizer is by then.  The page of
   another event is not mounted anew: it loads with all its state kept.     *)
Navigate(to) ==
    /\ to \in leaving
    /\ leaving' = leaving \ {to}
    /\ \/ /\ to = "dashboard"
          /\ org' = Mounted("dashboard", None)
          /\ Abandoned(FormOps \cup DetailsOps)
          /\ visit' = NewVisit
          /\ doubt' = doubt
       \/ /\ to \in Events /\ org.at # "details"
          /\ Enter("details", to)
       \/ /\ to \in Events /\ org.at = "details" /\ org.event # to
          /\ org' = [org EXCEPT !.event = to, !.loading = TRUE]
          /\ Send("details", to, None)
          /\ doubt' = doubt \cup {"details"}
          /\ visit' = visit
       \/ /\ to \in Events /\ org.at = "details" /\ org.event = to
          /\ UNCHANGED <<org, network, doubt, visit>>
    /\ UNCHANGED server

-----------------------------------------------------------------------------
(* The two forms. *)
Offered(n) == {c \in Categories : <<"offered", c>> \in calls[n].reply}

OptionsAnswered(n) ==
    /\ \/ Settling(n, "options", "answered") /\ org' = [org EXCEPT !.options = Offered(n)]
       \/ Settling(n, "options", "failed") /\ org' = [org EXCEPT !.options = {}]
    /\ Settle(n)
    /\ UNCHANGED <<server, leaving, doubt, visit>>

FormAnswered(n) ==
    /\ \/ /\ Settling(n, "form", "answered")
          /\ org' = [org EXCEPT !.loading = FALSE, !.options = Offered(n),
                                !.shown = RowIn(calls[n].reply, calls[n].about)]
       \/ Settling(n, "form", "failed") /\ org' = [org EXCEPT !.loading = FALSE]
    /\ Settle(n)
    /\ UNCHANGED <<server, leaving, doubt, visit>>

Saving(about) == IF about = None THEN "create" ELSE "update"

(* What the category field may hold. *)
Choices == org.options \cup ({org.shown.category} \ {None})

(* Filled in, validated and sent: the picture first, if one was chosen. *)
Submit(form) ==
    /\ form.category \in Choices
    /\ org' = [org EXCEPT !.busy = TRUE]
    /\ Send(IF form.picture THEN "upload" ELSE Saving(org.event), org.event, form)
    /\ visit' = [visit EXCEPT !.repeated = @ \/ visit.tried]
    /\ UNCHANGED <<server, leaving, doubt>>

\* Mutant: the button is not disabled while the form is sent.
SubmitNewEagerly(form) == org.at = "create" /\ Submit(form)

SubmitNew(form) == org.at = "create" /\ ~org.busy /\ Submit(form)

SubmitEdit(form) == org.at = "edit" /\ ~org.loading /\ ~org.busy /\ Submit(form)

(* Also when the page is no longer there. *)
UploadAnswered(n) ==
    /\ calls[n].op = "upload" /\ calls[n].stage = "answered"
    /\ calls' = [calls EXCEPT ![n].op = Saving(calls[n].about), ![n].stage = "sent"]
    /\ UNCHANGED <<server, organizer, doubt, sent, lost>>

(* The timer starts even then, and the button is enabled before it goes off. *)
Saved(n, op, to) ==
    /\ calls[n].op = op /\ calls[n].stage = "answered"
    /\ leaving' = leaving \cup {to}
    /\ IF calls[n].live
       THEN /\ org' = [org EXCEPT !.busy = FALSE]
            /\ visit' = [visit EXCEPT !.tried = TRUE]
       ELSE UNCHANGED <<org, visit>>
    /\ Settle(n)
    /\ UNCHANGED <<server, doubt>>

EventCreated(n) == Saved(n, "create", "dashboard")
EventUpdated(n) == Saved(n, "update", calls[n].about)

(* A failed upload ends the attempt. *)
SaveFailed(n) ==
    /\ \E op \in {"upload", "create", "update"}, s \in {"failed", "refused"} :
          /\ Settling(n, op, s)
          /\ org' = [org EXCEPT !.busy = FALSE]
          /\ visit' = [visit EXCEPT !.tried = @ \/ (op = "create" /\ s = "failed")]
    /\ Settle(n)
    /\ UNCHANGED <<server, leaving, doubt>>

-----------------------------------------------------------------------------
(* The page of one event. *)
OnDetails == org.at = "details" /\ org.found /\ ~org.loading

DetailsAnswered(n) ==
    /\ \/ /\ Settling(n, "details", "answered")
          /\ org' = [org EXCEPT !.loading = FALSE, !.found = TRUE,
                                !.shown = RowIn(calls[n].reply, calls[n].about)]
       \/ Settling(n, "details", "failed") /\ org' = [org EXCEPT !.loading = FALSE]
    /\ Settle(n)
    /\ UNCHANGED <<server, leaving, doubt, visit>>

OpenModal(modal) ==
    /\ OnDetails /\ org.modal = "none" /\ ~org.busy
    /\ org' = [org EXCEPT !.modal = modal]
    /\ UNCHANGED <<server, network, leaving, doubt, visit>>

OpenClose == org.shown.status = "published" /\ OpenModal("close")
OpenCancel == org.shown.status # "cancelled" /\ OpenModal("cancel")

(* Keep Open, or Keep Event. *)
KeepAsItIs ==
    /\ OnDetails /\ org.modal # "none" /\ ~org.busy
    /\ org' = [org EXCEPT !.modal = "none"]
    /\ UNCHANGED <<server, network, leaving, doubt, visit>>

Act(op, modal) ==
    /\ OnDetails /\ org.modal = modal /\ ~org.busy
    /\ org' = [org EXCEPT !.busy = TRUE]
    /\ Send(op, org.event, None)
    /\ UNCHANGED <<server, leaving, doubt, visit>>

OnCloseRegistration == Act("close", "close")
OnReopenRegistration == org.shown.status = "registration_closed" /\ Act("reopen", "none")
OnCancelEvent == Act("cancel", "cancel")

\* Mutant: the page goes on showing what it had loaded.
ActAnsweredForgetful(n) ==
    /\ \E op \in {"close", "reopen", "cancel"} : Settling(n, op, "answered")
    /\ org' = [org EXCEPT !.busy = FALSE, !.modal = "none"]
    /\ Settle(n)
    /\ UNCHANGED <<server, leaving, doubt, visit>>

(* The event becomes the one of the answer. *)
ActAnswered(n) ==
    /\ \E op \in {"close", "reopen", "cancel"} : Settling(n, op, "answered")
    /\ org' = [org EXCEPT !.busy = FALSE, !.shown = RowIn(calls[n].reply, calls[n].about),
                          !.modal = IF calls[n].op = "reopen" THEN @ ELSE "none"]
    /\ Settle(n)
    /\ UNCHANGED <<server, leaving, doubt, visit>>

(* The modal stays open over the old state. *)
ActFailed(n) ==
    /\ \E op \in {"close", "reopen", "cancel"}, s \in {"failed", "refused"} : Settling(n, op, s)
    /\ org' = [org EXCEPT !.busy = FALSE]
    /\ Settle(n)
    /\ UNCHANGED <<server, leaving, doubt, visit>>
=============================================================================
