------------------------------ MODULE AdminPages ------------------------------
(***************************************************************************)
(* The admin's browser tab: the page that reviews one pending event, the   *)
(* page that keeps the categories and the page of one user.  The dashboard *)
(* and the list of users only link to them.                                *)
(***************************************************************************)
EXTENDS OrganizerPages

VARIABLE adm      \* the admin's tab

-----------------------------------------------------------------------------
(* busy: the action of a review, or actionLoading of the user's page; saving
   and deleting have flags of their own.                                   *)
Adm == [at: {"dashboard", "review", "categories", "user"}, event: Events \cup {None},
        loading: BOOLEAN, found: BOOLEAN, shown: Row, busy: BOOLEAN,
        list: [Categories -> Names \cup {None}], saving: BOOLEAN, deleting: BOOLEAN,
        modal: {"none", "add", "rename", "delete", "confirm"},
        target: Categories \cup {None}, account: AccountStatus]

AdmMounted(at, e) ==
    [at |-> at, event |-> e, loading |-> at # "dashboard", found |-> FALSE, shown |-> Absent,
     busy |-> FALSE, list |-> [c \in Categories |-> None], saving |-> FALSE,
     deleting |-> FALSE, modal |-> "none", target |-> None, account |-> "active"]

ReviewOps == {"pending", "approve", "reject", "changes"}
Loads == {"categories", "after_save", "after_delete"}
CategoryOps == Loads \cup {"add", "rename", "delete"}
UserOps == {"user", "suspend", "activate"}

AdmEnter(at, op, e) ==
    /\ adm.at = "dashboard"
    /\ adm' = AdmMounted(at, e)
    /\ Send(op, e, None)
    /\ UNCHANGED <<server, organizer>>

(* From a list that may have been loaded before the event was moderated. *)
OpenReview(e) ==
    /\ events[e].status # "absent"
    /\ AdmEnter("review", "pending", e)
    /\ doubt' = doubt \cup {"review"}

OpenCategories ==
    /\ AdmEnter("categories", "categories", None)
    /\ doubt' = doubt \cup {"list"}

OpenUser ==
    /\ AdmEnter("user", "user", None)
    /\ doubt' = doubt \cup {"user"}

AdmGoToDashboard ==
    /\ adm.at # "dashboard"
    /\ adm' = AdmMounted("dashboard", None)
    /\ Abandoned(ReviewOps \cup CategoryOps \cup UserOps)
    /\ UNCHANGED <<server, organizer, doubt>>

-----------------------------------------------------------------------------
(* ReviewEventPage: the event is looked up among the pending ones.  The page
   shows the name of its category, which stands for shown.category here.   *)
PendingAnswered(n) ==
    /\ \/ /\ Settling(n, "pending", "answered")
          /\ adm' = [adm EXCEPT !.loading = FALSE, !.found = TRUE,
                                !.shown = RowIn(calls[n].reply, calls[n].about)]
       \/ /\ Settling(n, "pending", "failed") \/ Settling(n, "pending", "refused")
          /\ adm' = [adm EXCEPT !.loading = FALSE]
    /\ Settle(n)
    /\ UNCHANGED <<server, organizer, doubt>>

(* A change request is sent with a note only. *)
RunAction(op) ==
    /\ adm.at = "review" /\ adm.found /\ ~adm.loading
    /\ adm.shown.status = "pending" /\ ~adm.busy
    /\ adm' = [adm EXCEPT !.busy = TRUE]
    /\ Send(op, adm.event, None)
    /\ UNCHANGED <<server, organizer, doubt>>

(* The answer is merged into what is shown, and keeps what it does not carry:
   the name of the category always, the picture when the row has none.      *)
Merged(shown, row) == [row EXCEPT !.category = shown.category, !.picture = @ \/ shown.picture]

RunActionSettled(n) ==
    /\ \E op \in {"approve", "reject", "changes"} :
          \/ /\ Settling(n, op, "answered")
             /\ adm' = [adm EXCEPT !.busy = FALSE,
                                   !.shown = Merged(@, RowIn(calls[n].reply, calls[n].about))]
          \/ /\ Settling(n, op, "failed") \/ Settling(n, op, "refused")
             /\ adm' = [adm EXCEPT !.busy = FALSE]
    /\ Settle(n)
    /\ UNCHANGED <<server, organizer, doubt>>

-----------------------------------------------------------------------------
(* AdminCategoriesPage. *)
OnCategories == adm.at = "categories" /\ ~adm.loading

OpenCategoryModal(modal, c) ==
    /\ OnCategories /\ adm.modal = "none"
    /\ IF modal = "add" THEN c = None ELSE c \in Categories /\ adm.list[c] # None
    /\ adm' = [adm EXCEPT !.modal = modal, !.target = c]
    /\ UNCHANGED <<server, network, organizer, doubt>>

CloseCategoryModal ==
    /\ OnCategories /\ adm.modal # "none"
    /\ IF adm.modal = "delete" THEN ~adm.deleting ELSE ~adm.saving
    /\ adm' = [adm EXCEPT !.modal = "none", !.target = None]
    /\ UNCHANGED <<server, network, organizer, doubt>>

SubmitCategory(name) ==
    /\ OnCategories /\ adm.modal \in {"add", "rename"} /\ ~adm.saving
    /\ adm' = [adm EXCEPT !.saving = TRUE]
    /\ Send(adm.modal, adm.target, name)
    /\ UNCHANGED <<server, organizer, doubt>>

ConfirmDelete ==
    /\ OnCategories /\ adm.modal = "delete" /\ ~adm.deleting
    /\ adm' = [adm EXCEPT !.deleting = TRUE]
    /\ Send("delete", adm.target, None)
    /\ UNCHANGED <<server, organizer, doubt>>

\* Mutant: the page is not loaded again after a deletion.
CategoryChangedIdle(n) ==
    /\ \E op \in {"add", "rename", "delete"} : Settling(n, op, "answered")
    /\ adm' = [adm EXCEPT !.modal = "none", !.target = None, !.saving = FALSE,
                          !.deleting = FALSE]
    /\ Settle(n)
    /\ UNCHANGED <<server, organizer, doubt>>

(* The modal closes and the page loads; only then the button is enabled. *)
CategoryChanged(n) ==
    LET reload == IF calls[n].op = "delete" THEN "after_delete" ELSE "after_save" IN
    /\ \E op \in {"add", "rename", "delete"} : Settling(n, op, "answered")
    /\ adm' = [adm EXCEPT !.modal = "none", !.target = None]
    /\ calls' = [calls EXCEPT ![n] = NewCall(reload, None, None)]
    /\ UNCHANGED <<server, organizer, doubt, sent, lost>>

(* Nothing is loaded again. *)
CategoryChangeFailed(n) ==
    /\ \E op \in {"add", "rename", "delete"} :
          /\ Settling(n, op, "failed") \/ Settling(n, op, "refused")
          /\ adm' = IF op = "delete" THEN [adm EXCEPT !.deleting = FALSE]
                    ELSE [adm EXCEPT !.saving = FALSE]
    /\ Settle(n)
    /\ UNCHANGED <<server, organizer, doubt>>

Listed(n) ==
    [c \in Categories |-> IF \E name \in Names : <<name, c>> \in calls[n].reply
                          THEN CHOOSE name \in Names : <<name, c>> \in calls[n].reply
                          ELSE None]

(* A load that fails leaves the list as it was. *)
CategoriesLoaded(n) ==
    /\ \E op \in Loads, s \in {"answered", "failed"} :
          /\ Settling(n, op, s)
          /\ adm' = [adm EXCEPT !.loading = FALSE,
                                !.list = IF s = "answered" THEN Listed(n) ELSE @,
                                !.saving = @ /\ op # "after_save",
                                !.deleting = @ /\ op # "after_delete"]
    /\ Settle(n)
    /\ UNCHANGED <<server, organizer, doubt>>

-----------------------------------------------------------------------------
(* AdminUserDetailsPage; the one user is User. *)
OnUser == adm.at = "user" /\ adm.found /\ ~adm.loading

AccountIn(n) == CHOOSE status \in AccountStatus : <<status, User>> \in calls[n].reply

UserAnswered(n) ==
    /\ \/ /\ Settling(n, "user", "answered")
          /\ adm' = [adm EXCEPT !.loading = FALSE, !.found = TRUE, !.account = AccountIn(n)]
       \/ Settling(n, "user", "failed") /\ adm' = [adm EXCEPT !.loading = FALSE]
    /\ Settle(n)
    /\ UNCHANGED <<server, organizer, doubt>>

OpenConfirm ==
    /\ OnUser /\ adm.modal = "none"
    /\ adm' = [adm EXCEPT !.modal = "confirm"]
    /\ UNCHANGED <<server, network, organizer, doubt>>

CloseConfirm ==
    /\ OnUser /\ adm.modal = "confirm" /\ ~adm.busy
    /\ adm' = [adm EXCEPT !.modal = "none"]
    /\ UNCHANGED <<server, network, organizer, doubt>>

(* Suspends whom the page shows as active and activates anybody else. *)
OnConfirmAction ==
    /\ OnUser /\ adm.modal = "confirm" /\ ~adm.busy
    /\ adm' = [adm EXCEPT !.busy = TRUE]
    /\ Send(IF adm.account = "active" THEN "suspend" ELSE "activate", None, None)
    /\ UNCHANGED <<server, organizer, doubt>>

ConfirmSettled(n) ==
    /\ \E op \in {"suspend", "activate"} :
          \/ /\ Settling(n, op, "answered")
             /\ adm' = [adm EXCEPT !.busy = FALSE, !.modal = "none", !.account = AccountIn(n)]
          \/ Settling(n, op, "failed") /\ adm' = [adm EXCEPT !.busy = FALSE]
    /\ Settle(n)
    /\ UNCHANGED <<server, organizer, doubt>>
=============================================================================
