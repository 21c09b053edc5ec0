------------------------------- MODULE WebPages -------------------------------
(***************************************************************************)
(* An organizer's and an admin's browser tab over one server.  A request   *)
(* that changes an event reads its row and later writes all of it back; a  *)
(* category is deleted by detaching its events and then deleting its row.  *)
(* Foreign keys are checked by each statement.                             *)
(***************************************************************************)
EXTENDS AdminPages

pages == <<organizer, adm>>
vars == <<server, network, pages, doubt>>

-----------------------------------------------------------------------------
(* History.  A page is in doubt from the moment the tables change under it
   until an answer that nothing else can follow has been given.             *)
CopyOf(op) ==
    CASE op \in DetailsOps -> {"details"}
      [] op \in ReviewOps -> {"review"}
      [] op \in CategoryOps -> {"list"}
      [] op \in UserOps -> {"user"}
      [] OTHER -> {}

Showing(e) == {c \in {"details", "review"} :
                  e = IF c = "details" THEN org.event ELSE adm.event}

Listening(c) == {n \in CallIds : calls[n].live /\ c \in CopyOf(calls[n].op)}

(* Another list than that of call n is on its way back to the page. *)
ListComing(n) ==
    \E m \in Listening("list") \ {n} : calls[m].op \in Loads /\ calls[m].stage = "answered"

(* What the answer of call n brings up to date: nothing else may follow it, but
   for the list, where a load or a change that the server has not run yet is
   followed by a newer list.  A review that merges the answer learns only what
   it carries.                                                             *)
Renewed(n) ==
    {c \in CopyOf(calls[n].op) :
        /\ n \in Listening(c)
        /\ (c = "list" /\ ~ListComing(n)) \/ Listening(c) = {n}
        /\ c \in {"list", "user"} \/ c \in Showing(calls[n].about)
        /\ calls[n].op \in {"approve", "reject", "changes"} =>
              Merged(adm.shown, work[n].row) = work[n].row}

(* A change of categories: the page loads again after its own, but a list that
   is on its way back is older and may be taken last.                       *)
Overtaken(n) == IF calls[n].live /\ ~ListComing(n) THEN {} ELSE {"list"}

-----------------------------------------------------------------------------
(* The server. *)
Begin(n, row) ==
    /\ work' = [work EXCEPT ![n] = [begun |-> TRUE, row |-> row]]
    /\ UNCHANGED <<names, account, network, pages>>

Finish(n) == work' = [work EXCEPT ![n] = NoWork]

Refused(n) ==
    /\ Refuse(n)
    /\ Finish(n)
    /\ UNCHANGED <<events, names, account, pages, doubt>>

Waits(n, op) == AtServer(n) /\ calls[n].op = op /\ ~work[n].begun

(* The foreign key of events.category_id. *)
Attachable(c) == c = None \/ c \in Existing

(* What each request makes of the row it reads, and when it may. *)
Allowed(op, row) ==
    CASE op \in {"approve", "reject", "changes"} -> row.status = "pending"
      [] op = "close" -> row.status = "published"
      [] op = "reopen" -> row.status = "registration_closed"
      [] op \in {"cancel", "update"} -> row.status # "cancelled"

\* Mutant: closing registration writes a status nobody else knows.
ChangedMisspelt(op, row, form) ==
    CASE op = "approve" -> [row EXCEPT !.status = "published"]
      [] op = "reject" -> [row EXCEPT !.status = "rejected"]
      [] op = "changes" -> row
      [] op = "close" -> [row EXCEPT !.status = "closed"]
      [] op = "reopen" -> [row EXCEPT !.status = "published"]
      [] op = "cancel" -> [row EXCEPT !.status = "cancelled"]
      [] op = "update" -> [row EXCEPT !.category = form.category, !.picture = form.picture]

\* Mutant: an approval writes a row of its own instead of the one it read.
ChangedAfresh(op, row, form) ==
    CASE op = "approve" -> [Absent EXCEPT !.status = "published"]
      [] op = "reject" -> [row EXCEPT !.status = "rejected"]
      [] op = "changes" -> row
      [] op = "close" -> [row EXCEPT !.status = "registration_closed"]
      [] op = "reopen" -> [row EXCEPT !.status = "published"]
      [] op = "cancel" -> [row EXCEPT !.status = "cancelled"]
      [] op = "update" -> [row EXCEPT !.category = form.category, !.picture = form.picture]

Changed(op, row, form) ==
    CASE op = "approve" -> [row EXCEPT !.status = "published"]
      [] op = "reject" -> [row EXCEPT !.status = "rejected"]
      [] op = "changes" -> row
      [] op = "close" -> [row EXCEPT !.status = "registration_closed"]
      [] op = "reopen" -> [row EXCEPT !.status = "published"]
      [] op = "cancel" -> [row EXCEPT !.status = "cancelled"]
      [] op = "update" -> [row EXCEPT !.category = form.category, !.picture = form.picture]

EventOps == {"approve", "reject", "changes", "close", "reopen", "cancel", "update"}

ReadEvent(n) ==
    LET row == events[calls[n].about] IN
    /\ \E op \in EventOps : Waits(n, op)
    /\ \/ /\ Allowed(calls[n].op, row)
          /\ Begin(n, Changed(calls[n].op, row, calls[n].filter))
          /\ UNCHANGED <<events, doubt>>
       \/ ~Allowed(calls[n].op, row) /\ Refused(n)

UpdateEvent(n) ==
    LET e == calls[n].about row == work[n].row IN
    /\ AtServer(n) /\ calls[n].op \in EventOps /\ work[n].begun
    /\ \/ /\ Attachable(row.category)
          /\ events' = [events EXCEPT ![e] = row]
          /\ Answer(n, RowReply(row, e))
          /\ Finish(n)
          /\ doubt' = (doubt \cup Showing(e)) \ Renewed(n)
          /\ UNCHANGED <<names, account, pages>>
       \/ ~Attachable(row.category) /\ Refused(n)

(* One INSERT; refused, too, when the bounds leave no id. *)
CreateEvent(n) ==
    /\ Waits(n, "create")
    /\ \/ /\ Attachable(calls[n].filter.category)
          /\ \E e \in Events :
                /\ events[e] = Absent
                /\ events' = [events EXCEPT ![e] =
                      [status |-> "pending", category |-> calls[n].filter.category,
                       picture |-> calls[n].filter.picture]]
          /\ Answer(n, {})
          /\ visit' = IF calls[n].live THEN [visit EXCEPT !.made = @ + 1] ELSE visit
          /\ UNCHANGED <<names, account, work, org, leaving, adm, doubt>>
       \/ /\ ~Attachable(calls[n].filter.category) \/ Absent \notin {events[e] : e \in Events}
          /\ Refused(n)

(* Not a picture, or too large. *)
UploadImage(n) ==
    /\ Waits(n, "upload")
    /\ Answer(n, {}) \/ Refuse(n)
    /\ UNCHANGED <<server, pages, doubt>>

GetMine(n) ==
    /\ \E op \in {"details", "form"} : Waits(n, op)
    /\ Answer(n, RowReply(events[calls[n].about], calls[n].about)
                    \cup IF calls[n].op = "form" THEN {"offered"} \X Existing ELSE {})
    /\ doubt' = doubt \ Renewed(n)
    /\ UNCHANGED <<server, pages>>

ListActive(n) ==
    /\ Waits(n, "options")
    /\ Answer(n, {"offered"} \X Existing)
    /\ UNCHANGED <<server, pages, doubt>>

ListPending(n) ==
    /\ Waits(n, "pending")
    /\ IF events[calls[n].about].status = "pending"
       THEN Answer(n, RowReply(events[calls[n].about], calls[n].about))
       ELSE Refuse(n)
    /\ doubt' = doubt \ Renewed(n)
    /\ UNCHANGED <<server, pages>>

ListAll(n) ==
    /\ \E op \in Loads : Waits(n, op)
    /\ Answer(n, {r \in Names \X Categories : names[r[2]] = r[1]})
    /\ doubt' = doubt \ Renewed(n)
    /\ UNCHANGED <<server, pages>>

-----------------------------------------------------------------------------
(* Categories.  Names are unique; ids may run out, as above. *)
Taken(name) == \E c \in Categories : names[c] = name

AddCategory(n) ==
    /\ Waits(n, "add")
    /\ \/ /\ ~Taken(calls[n].filter)
          /\ \E c \in Categories :
                /\ names[c] = "unused"
                /\ names' = [names EXCEPT ![c] = calls[n].filter]
          /\ Answer(n, {})
          /\ doubt' = doubt \cup Overtaken(n)
          /\ UNCHANGED <<events, account, work, pages>>
       \/ /\ Taken(calls[n].filter) \/ "unused" \notin {names[c] : c \in Categories}
          /\ Refused(n)

RenameCategory(n) ==
    LET c == calls[n].about  name == calls[n].filter
        ok == c \in Existing /\ (names[c] = name \/ ~Taken(name)) IN
    /\ Waits(n, "rename")
    /\ \/ /\ ok
          /\ names' = [names EXCEPT ![c] = name]
          /\ Answer(n, {})
          /\ doubt' = doubt \cup Overtaken(n)
          /\ UNCHANGED <<events, account, work, pages>>
       \/ ~ok /\ Refused(n)

DetachEvents(n) ==
    LET c == calls[n].about IN
    /\ Waits(n, "delete")
    /\ \/ /\ c \in Existing
          /\ Begin(n, Absent)
          /\ events' = [e \in Events |-> IF events[e].category = c
                                         THEN [events[e] EXCEPT !.category = None]
                                         ELSE events[e]]
          /\ doubt' = doubt \cup UNION {Showing(e) : e \in {x \in Events : events[x].category = c}}
       \/ c \notin Existing /\ Refused(n)

\* Mutant: the foreign key is not there.
DeleteRowUnchecked(n) ==
    LET c == calls[n].about IN
    /\ AtServer(n) /\ calls[n].op = "delete" /\ work[n].begun
    /\ \/ /\ c \in Existing
          /\ names' = [names EXCEPT ![c] = "deleted"]
          /\ Answer(n, {})
          /\ Finish(n)
          /\ doubt' = doubt \cup Overtaken(n)
          /\ UNCHANGED <<events, account, pages>>
       \/ c \notin Existing /\ Refused(n)

(* Refused when an event was attached in between; the others stay detached. *)
DeleteRow(n) ==
    LET c == calls[n].about
        ok == c \in Existing /\ \A e \in Events : events[e].category # c IN
    /\ AtServer(n) /\ calls[n].op = "delete" /\ work[n].begun
    /\ \/ /\ ok
          /\ names' = [names EXCEPT ![c] = "deleted"]
          /\ Answer(n, {})
          /\ Finish(n)
          /\ doubt' = doubt \cup Overtaken(n)
          /\ UNCHANGED <<events, account, pages>>
       \/ ~ok /\ Refused(n)

-----------------------------------------------------------------------------
(* The user's account; another admin may change it, too, with a request that
   counts as one of MaxCalls.                                              *)
GetUser(n) ==
    /\ Waits(n, "user")
    /\ Answer(n, {<<account, User>>})
    /\ doubt' = doubt \ Renewed(n)
    /\ UNCHANGED <<server, pages>>

SetStatus(n) ==
    /\ \E op \in {"suspend", "activate"} :
          /\ Waits(n, op)
          /\ account' = IF op = "suspend" THEN "suspended" ELSE "active"
    /\ Answer(n, {<<account', User>>})
    /\ doubt' = (doubt \cup {"user"}) \ Renewed(n)
    /\ UNCHANGED <<events, names, work, pages>>

AnotherAdmin ==
    /\ sent < MaxCalls /\ sent' = sent + 1
    /\ account' \in AccountStatus \ {account}
    /\ doubt' = doubt \cup {"user"}
    /\ UNCHANGED <<events, names, work, calls, lost, pages>>

-----------------------------------------------------------------------------
(* The client's end of the connection goes, and with it what the server has
   not done yet.                                                           *)
CallFails(n) ==
    /\ Fail(n)
    /\ Finish(n)
    /\ doubt' = IF calls[n].live THEN doubt \cup CopyOf(calls[n].op) ELSE doubt
    /\ UNCHANGED <<events, names, account, pages>>

NobodyHears(n) ==
    /\ NobodyListens(n)
    /\ calls[n].stage = "answered" => calls[n].op \notin {"upload", "create", "update"}
    /\ Settle(n)
    /\ UNCHANGED <<server, pages, doubt>>

-----------------------------------------------------------------------------
(* One category; some events wait for their review in it. *)
Init ==
    /\ \E submitted \in SUBSET Events, first \in Categories, name \in Names :
          /\ names = [c \in Categories |-> IF c = first THEN name ELSE "unused"]
          /\ events = [e \in Events |->
                          IF e \in submitted
                          THEN [status |-> "pending", category |-> first, picture |-> TRUE]
                          ELSE Absent]
    /\ account = "active"
    /\ work = [n \in CallIds |-> NoWork]
    /\ calls = [n \in CallIds |-> NoCall]
    /\ sent = 0 /\ lost = 0
    /\ org = Mounted("dashboard", None) /\ leaving = {} /\ visit = NewVisit
    /\ adm = AdmMounted("dashboard", None)
    /\ doubt = {}

Organizer ==
    \/ \E at \in {"edit", "details"}, e \in Events : OpenEvent(at, e)
    \/ OpenCreate \/ GoToDashboard \/ KeepAsItIs
    \/ \E to \in Events \cup {"dashboard"} : Navigate(to)
    \/ \E form \in Form : SubmitNew(form) \/ SubmitEdit(form)
    \/ OpenClose \/ OpenCancel
    \/ OnCloseRegistration \/ OnReopenRegistration \/ OnCancelEvent

Admin ==
    \/ \E e \in Events : OpenReview(e)
    \/ OpenCategories \/ AdmGoToDashboard \/ CloseCategoryModal \/ ConfirmDelete
    \/ OpenUser \/ OpenConfirm \/ CloseConfirm \/ OnConfirmAction
    \/ \E op \in {"approve", "reject", "changes"} : RunAction(op)
    \/ \E modal \in {"add", "rename", "delete"}, c \in Categories \cup {None} :
          OpenCategoryModal(modal, c)
    \/ \E name \in Names : SubmitCategory(name)

OrganizerCall(n) ==
    \/ OptionsAnswered(n) \/ FormAnswered(n) \/ UploadAnswered(n) \/ EventCreated(n)
    \/ EventUpdated(n) \/ SaveFailed(n) \/ DetailsAnswered(n) \/ ActAnswered(n) \/ ActFailed(n)

AdminCall(n) ==
    \/ PendingAnswered(n) \/ RunActionSettled(n) \/ CategoryChanged(n)
    \/ CategoryChangeFailed(n) \/ CategoriesLoaded(n) \/ UserAnswered(n) \/ ConfirmSettled(n)

ServerStep(n) ==
    \/ ReadEvent(n) \/ UpdateEvent(n) \/ CreateEvent(n) \/ UploadImage(n) \/ GetMine(n)
    \/ ListActive(n) \/ ListPending(n) \/ ListAll(n) \/ AddCategory(n) \/ RenameCategory(n)
    \/ DetachEvents(n) \/ DeleteRow(n) \/ GetUser(n) \/ SetStatus(n)

CallGoesOn(n) ==
    \/ OrganizerCall(n) /\ UNCHANGED adm
    \/ AdminCall(n)
    \/ ServerStep(n) \/ NobodyHears(n)

Next ==
    \/ Organizer /\ UNCHANGED adm
    \/ Admin \/ AnotherAdmin
    \/ \E n \in CallIds : CallGoesOn(n) \/ CallFails(n)

Spec == Init /\ [][Next]_vars

-----------------------------------------------------------------------------
TypeOK ==
    /\ events \in [Events -> Row]
    /\ names \in [Categories -> Category]
    /\ account \in AccountStatus
    /\ work \in [CallIds -> Work]
    /\ calls \in [CallIds -> Call]
    /\ sent \in 0..MaxCalls /\ lost \in 0..MaxLost
    /\ org \in Org /\ adm \in Adm
    /\ leaving \subseteq Events \cup {"dashboard"}
    /\ doubt \subseteq {"details", "review", "list", "user"}
    /\ visit \in Visit

(* With no answer to come, the pages of an event, of a review and of a user
   show the row they are about, unless somebody else has changed it since, a
   request of the page has failed, or the merged answer of a review left out
   what had changed.                                                       *)
Quiet(c) == c \notin doubt /\ Listening(c) = {}
PagesTellTheTruth ==
    /\ OnDetails /\ Quiet("details") => org.shown = events[org.event]
    /\ adm.at = "review" /\ adm.found /\ Quiet("review") => adm.shown = events[adm.event]
    /\ OnUser /\ Quiet("user") => adm.account = account

(* The list of categories at rest is the table, in whatever order a change, a
   deletion and the loads that follow them are sent, run and answered, unless
   a list was on its way back while the server made another change (nothing
   keeps the page from showing that older list last), a request of the page
   failed, or a change the admin walked away from was made later.           *)
CategoriesTellTheTruth ==
    OnCategories /\ Quiet("list") =>
        adm.list = [c \in Categories |-> IF c \in Existing THEN names[c] ELSE None]

(* Whatever runs between the statements of a deletion, no event is left in a
   category that is gone.                                                  *)
NoDanglingCategory == \A e \in Events : Attachable(events[e].category)

(* One visit of the form creates one event, unless it is submitted again
   after it said that it had succeeded or that no answer came.             *)
OneEventPerVisit == visit.made > 1 => visit.repeated

(* What an admin's approval publishes is what the review page showed, unless
   it was changed after the page had loaded and no answer has told the page
   the whole of it since.                                                  *)
ApprovedAsShown ==
    [][\A n \in CallIds :
          calls[n].op = "approve" /\ calls[n].live
            /\ calls[n].stage = "sent" /\ calls'[n].stage = "answered" /\ "review" \notin doubt =>
          events'[calls[n].about] = [adm.shown EXCEPT !.status = "published"]]_vars

(* Whatever is disabled or turning waits for a request that the page itself has
   under way: none of the flags outlives its request.  Nothing here says that
   the wait ends, for the web client sets no timeout and a request that is
   never answered leaves the page waiting.                                 *)
Waiting(ops) == \E n \in CallIds : calls[n].live /\ calls[n].op \in ops
WaitsHaveRequests ==
    /\ org.loading => Waiting({"form", "details"})
    /\ org.busy => Waiting({"upload", "create", "update", "close", "reopen", "cancel"})
    /\ adm.loading => Waiting({"pending", "categories", "user"})
    /\ adm.busy => Waiting({"approve", "reject", "changes", "suspend", "activate"})
    /\ adm.saving => Waiting({"add", "rename", "after_save"})
    /\ adm.deleting => Waiting({"delete", "after_delete"})
=============================================================================
