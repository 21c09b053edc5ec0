---------------------------- MODULE WebTruthProofs ----------------------------
(***************************************************************************)
(* What the pages of the two browser tabs show against what the tables     *)
(* hold, for any number of events, categories, requests and failures.      *)
(***************************************************************************)
EXTENDS WebPagesProofs

-----------------------------------------------------------------------------
(* The events a page or a request is about exist, and a request whose first
   statement has run is still at the server.                               *)
There == {e \in Events : events[e].status # "absent"}

Sound(c, w, there) ==
    /\ c.op \in RowOps \cup {"upload"} => c.about \in there \cup {None}
    /\ w.begun => c.stage = "sent" /\ c.op \in EventOps \cup {"delete"}
    /\ w.begun /\ c.op \in EventOps => w.row.status # "absent"

AllSound == \A n \in CallIds : Sound(calls[n], work[n], There)

PagesFound ==
    /\ org.at \in {"edit", "details"} => org.event \in There
    /\ adm.at = "review" => adm.event \in There
    /\ leaving \subseteq There \cup {"dashboard"}

RowsExist == AllSound /\ PagesFound

LEMMA SoundGrows ==
    ASSUME NEW c, NEW w, NEW there, NEW more, Sound(c, w, there), there \subseteq more
    PROVE  Sound(c, w, more)
  BY DEF Sound

LEMMA NothingBegun == ~NoWork.begun
  BY DEF NoWork

LEMMA NoCallSound == ASSUME NEW w, NEW there, ~w.begun PROVE Sound(NoCall, w, there)
  BY DEF Sound, NoCall, RowOps, EventOps

LEMMA WithoutSound ==
    ASSUME CallsFit, AllSound, NEW ops
    PROVE  \A n \in CallIds : Sound(Without(ops)[n], work[n], There)
  <1> SUFFICES ASSUME NEW n \in CallIds PROVE Sound(Without(ops)[n], work[n], There)
    OBVIOUS
  <1>1. Sound(calls[n], work[n], There) /\ calls[n] \in Call
    BY DEF AllSound, CallsFit, Fitting
  <1>2. Sound([calls[n] EXCEPT !.live = FALSE], work[n], There)
    BY <1>1, CallIs DEF Sound
  <1>3. calls[n].op \in {"options", "form", "details", "pending", "categories", "after_save",
                         "after_delete", "user"} => ~work[n].begun
    BY <1>1 DEF Sound, EventOps
  <1> QED BY <1>1, <1>2, <1>3, NoCallSound DEF Without

LEMMA SendSound ==
    ASSUME NEW cs \in [CallIds -> Fitting], \A n \in CallIds : Sound(cs[n], work[n], There),
           NEW op \in Op, NEW about \in About, NEW filter \in Filter,
           SendFrom(cs, op, about, filter), UNCHANGED <<work, events>>,
           op \in RowOps \cup {"upload"} => about \in There \cup {None}
    PROVE  AllSound'
  <1>1. PICK n \in CallIds : /\ cs[n].op = "none"
                             /\ calls' = [cs EXCEPT ![n] = NewCall(op, about, filter)]
    BY DEF SendFrom
  <1>2. calls'[n] = NewCall(op, about, filter) /\ \A m \in CallIds \ {n} : calls'[m] = cs[m]
    BY <1>1
  <1>3. ~work[n].begun
    BY <1>1 DEF Sound, EventOps
  <1>4. Sound(calls'[n], work[n], There)
    BY <1>2, <1>3, NewIs DEF Sound
  <1>5. \A m \in CallIds : Sound(calls'[m], work[m], There)
    BY <1>2, <1>4
  <1>6. There' = There
    BY DEF There
  <1> QED BY <1>5, <1>6 DEF AllSound

(* One request goes on, and no event goes. *)
LEMMA OneSound ==
    ASSUME AllSound, NEW n \in CallIds, There \subseteq There',
           \A m \in CallIds \ {n} : calls'[m] = calls[m] /\ work'[m] = work[m],
           Sound(calls'[n], work'[n], There')
    PROVE  AllSound'
  <1>1. \A m \in CallIds \ {n} : Sound(calls'[m], work'[m], There')
    BY SoundGrows DEF AllSound
  <1> QED BY <1>1 DEF AllSound

LEMMA SettleSound ==
    ASSUME CallsFit, AllSound, NEW n \in CallIds, Settle(n), calls[n].stage # "sent",
           UNCHANGED <<work, events>>
    PROVE  AllSound'
  <1>1. calls'[n] = NoCall /\ \A m \in CallIds \ {n} : calls'[m] = calls[m]
    BY DEF Settle, CallsFit
  <1>2. ~work[n].begun
    BY DEF AllSound, Sound
  <1>3. Sound(calls'[n], work'[n], There')
    BY <1>1, <1>2, NoCallSound
  <1>4. There' = There
    BY DEF There
  <1> QED BY <1>1, <1>3, <1>4, OneSound

(* The organizer. *)
LEMMA EnterSound ==
    ASSUME TypeInv, AllSound, NEW at \in {"create", "edit", "details"},
           NEW e \in Events \cup {None}, at \in {"edit", "details"} => e \in There,
           Enter(at, e), UNCHANGED server
    PROVE  AllSound'
  <1>1. /\ Without(FormOps \cup DetailsOps) \in [CallIds -> Fitting]
        /\ \A n \in CallIds : Sound(Without(FormOps \cup DetailsOps)[n], work[n], There)
    BY WithoutFits, WithoutSound DEF TypeInv, NetworkTyped
  <1>2. FirstCall(at) \in Op /\ (FirstCall(at) \in RowOps \cup {"upload"} => at # "create")
    BY DEF FirstCall, Op, RowOps, EventOps
  <1>3. e \in About /\ None \in Filter
    BY DEF About, Subject, Filter
  <1> QED BY <1>1, <1>2, <1>3, SendSound DEF Enter, server

LEMMA RowsOfOrganizer ==
    ASSUME TypeInv, RowsExist, Organizer, UNCHANGED adm
    PROVE  RowsExist'
  <1>0. CallsFit /\ OrganizerTyped /\ AllSound /\ PagesFound
    BY DEF TypeInv, NetworkTyped, RowsExist
  <1>1. UNCHANGED server /\ leaving' \subseteq leaving
    BY DEF Organizer, OpenEvent, OpenCreate, GoToDashboard, Navigate, KeepAsItIs, OpenClose,
           OpenCancel, OpenModal, SubmitNew, SubmitEdit, Submit, OnCloseRegistration,
           OnReopenRegistration, OnCancelEvent, Act
  <1>2. There' = There
    BY <1>1 DEF There, server
  <1>3. ASSUME AllSound', org'.at \in {"edit", "details"} => org'.event \in There
        PROVE  RowsExist'
    BY <1>0, <1>1, <1>2, <1>3 DEF RowsExist, PagesFound
  <1>4. ASSUME NEW at \in {"create", "edit", "details"}, NEW e \in Events \cup {None},
               at \in {"edit", "details"} => e \in There, Enter(at, e)
        PROVE  RowsExist'
    BY <1>0, <1>1, <1>3, <1>4, EnterSound, MountedTyped DEF Enter
  <1>5. ASSUME NEW at \in {"edit", "details"}, NEW e \in Events, OpenEvent(at, e) PROVE RowsExist'
    <2>1. e \in There
      BY <1>0, <1>5 DEF OpenEvent, There, PagesFound
    <2> QED BY <1>4, <1>5, <2>1 DEF OpenEvent
  <1>6. CASE OpenCreate
    BY <1>4, <1>6 DEF OpenCreate
  <1>7. ASSUME Abandoned(FormOps \cup DetailsOps), org' = Mounted("dashboard", None)
        PROVE  RowsExist'
    <2>1. \A n \in CallIds : Sound(calls'[n], work[n], There)
      BY <1>0, <1>7, WithoutSound DEF Abandoned
    <2>2. AllSound'
      BY <1>1, <1>2, <2>1 DEF AllSound, server
    <2> QED BY <1>3, <1>7, <2>2, MountedTyped
  <1>8. CASE GoToDashboard
    BY <1>7, <1>8 DEF GoToDashboard
  <1>9. ASSUME UNCHANGED <<calls>>, org'.at = org.at, org'.event = org.event PROVE RowsExist'
    <2>1. AllSound'
      BY <1>0, <1>1, <1>2, <1>9 DEF AllSound, server
    <2> QED BY <1>0, <1>3, <1>9, <2>1 DEF PagesFound
  <1>10. CASE KeepAsItIs \/ OpenClose \/ OpenCancel
    <2>1. PICK modal \in {"none", "close", "cancel"} : org' = [org EXCEPT !.modal = modal]
      BY <1>10 DEF KeepAsItIs, OpenClose, OpenCancel, OpenModal
    <2>2. org'.at = org.at /\ org'.event = org.event
      BY <1>0, <2>1 DEF OrganizerTyped, Org
    <2> QED BY <1>9, <1>10, <2>2 DEF KeepAsItIs, OpenClose, OpenCancel, OpenModal, network
  <1>11. ASSUME NEW op \in Op, NEW about \in About, NEW filter \in Filter,
                Send(op, about, filter),
                op \in RowOps \cup {"upload"} => about \in There \cup {None},
                org'.at \in {"edit", "details"} => org'.event \in There
         PROVE  RowsExist'
    <2>1. AllSound'
      BY <1>0, <1>1, <1>11, SendSound DEF Send, CallsFit, AllSound, server
    <2> QED BY <1>3, <1>11, <2>1
  <1>12. ASSUME NEW to \in Events \cup {"dashboard"}, Navigate(to) PROVE RowsExist'
    <2>1. to = "dashboard" \/ to \in There
      BY <1>0, <1>12 DEF Navigate, PagesFound
    <2>2. CASE to = "dashboard"
      BY <1>7, <1>12, <2>2, DashboardIsNoEvent DEF Navigate
    <2>3. CASE to \in There /\ Enter("details", to)
      BY <1>4, <2>3 DEF There
    <2>4. CASE to \in There /\ org' = [org EXCEPT !.event = to, !.loading = TRUE]
               /\ Send("details", to, None)
      <3>1. org'.event = to
        BY <1>0, <2>4 DEF OrganizerTyped, Org
      <3>2. "details" \in Op /\ to \in About /\ None \in Filter
        BY <2>4 DEF Op, About, Subject, Filter, There
      <3> QED BY <1>11, <2>4, <3>1, <3>2
    <2>5. CASE UNCHANGED <<org, network, doubt, visit>>
      BY <1>9, <2>5 DEF network
    <2> QED BY <1>12, <2>1, <2>2, <2>3, <2>4, <2>5, DashboardIsNoEvent DEF Navigate, There
  <1>13. ASSUME org' = [org EXCEPT !.busy = TRUE], NEW op \in Op, NEW filter \in Filter,
                Send(op, org.event, filter), org.at \in {"create", "edit", "details"},
                op \in RowOps => org.at # "create"
         PROVE  RowsExist'
    <2>1. org'.at = org.at /\ org'.event = org.event
      BY <1>0, <1>13 DEF OrganizerTyped, Org
    <2>2. org.event \in About /\ org.event \in There \cup {None}
      BY <1>0, <1>13 DEF OrganizerTyped, Org, About, Subject, PagesFound
    <2> QED BY <1>0, <1>11, <1>13, <2>1, <2>2 DEF PagesFound
  <1>14. ASSUME NEW form \in Form, SubmitNew(form) \/ SubmitEdit(form) PROVE RowsExist'
    <2>1. /\ Submit(form) /\ form \in Filter /\ org.at \in {"create", "edit"}
          /\ org' = [org EXCEPT !.busy = TRUE]
      BY <1>14 DEF SubmitNew, SubmitEdit, Filter, Submit
    <2>2. PICK op \in {"upload", "create", "update"} :
             /\ Send(op, org.event, form)
             /\ op = "update" => org.event # None
      BY <2>1 DEF Submit, Saving
    <2>3. op \in Op /\ (op \in RowOps => op = "update")
      BY DEF Op, RowOps, EventOps
    <2>4. org.at = "create" => org.event = None
      BY <1>0 DEF OrganizerTyped
    <2> QED BY <1>13, <2>1, <2>2, <2>3, <2>4
  <1>15. CASE OnCloseRegistration \/ OnReopenRegistration \/ OnCancelEvent
    <2>1. PICK op \in {"close", "reopen", "cancel"}, modal \in {"none", "close", "cancel"} : Act(op, modal)
      BY <1>15 DEF OnCloseRegistration, OnReopenRegistration, OnCancelEvent
    <2>2. op \in Op /\ None \in Filter
      BY DEF Op, Filter
    <2> QED BY <1>13, <2>1, <2>2 DEF Act, OnDetails
  <1> QED BY <1>5, <1>6, <1>8, <1>10, <1>12, <1>14, <1>15 DEF Organizer

(* The admin. *)
LEMMA RowsOfAdmin ==
    ASSUME TypeInv, RowsExist, Admin \/ AnotherAdmin
    PROVE  RowsExist'
  <1>0. CallsFit /\ AdminTyped /\ AllSound /\ PagesFound
    BY DEF TypeInv, NetworkTyped, RowsExist
  <1>1. UNCHANGED <<events, work, org, leaving>>
    BY DEF Admin, OpenReview, OpenCategories, AdmGoToDashboard, CloseCategoryModal,
           ConfirmDelete, OpenUser, OpenConfirm, CloseConfirm, OnConfirmAction, RunAction,
           OpenCategoryModal, SubmitCategory, AdmEnter, AnotherAdmin, organizer, pages, server
  <1>2. There' = There
    BY <1>1 DEF There
  <1>3. ASSUME AllSound', adm'.at = "review" => adm'.event \in There
        PROVE  RowsExist'
    BY <1>0, <1>1, <1>2, <1>3 DEF RowsExist, PagesFound
  <1>4. ASSUME UNCHANGED calls PROVE AllSound'
    BY <1>0, <1>1, <1>2, <1>4 DEF AllSound
  <1>5. ASSUME NEW op \in Op, NEW about \in About, NEW filter \in Filter,
               Send(op, about, filter), op \in RowOps \cup {"upload"} => about \in There \cup {None}
        PROVE  AllSound'
    BY <1>0, <1>1, <1>5, SendSound DEF Send, CallsFit, AllSound
  <1>6. CASE AnotherAdmin
    BY <1>0, <1>3, <1>4, <1>6 DEF AnotherAdmin, pages, PagesFound
  <1>7. CASE AdmGoToDashboard
    <2>1. \A n \in CallIds : Sound(calls'[n], work[n], There)
      BY <1>0, <1>7, WithoutSound DEF AdmGoToDashboard, Abandoned
    <2>2. AllSound'
      BY <1>1, <1>2, <2>1 DEF AllSound
    <2>3. adm'.at = "dashboard"
      BY <1>7 DEF AdmGoToDashboard, AdmMounted
    <2> QED BY <1>3, <2>2, <2>3
  <1>8. CASE CloseCategoryModal \/ OpenConfirm \/ CloseConfirm
             \/ \E modal \in {"add", "rename", "delete"}, c \in Categories \cup {None} :
                   OpenCategoryModal(modal, c)
    <2>1. PICK modal, c : \/ adm' = [adm EXCEPT !.modal = modal]
                          \/ adm' = [adm EXCEPT !.modal = modal, !.target = c]
      BY <1>8 DEF CloseCategoryModal, OpenConfirm, CloseConfirm, OpenCategoryModal
    <2>2. adm'.at = adm.at /\ adm'.event = adm.event
      BY <1>0, <2>1 DEF AdminTyped, Adm
    <2>3. UNCHANGED calls
      BY <1>8 DEF CloseCategoryModal, OpenConfirm, CloseConfirm, OpenCategoryModal, network
    <2> QED BY <1>0, <1>3, <1>4, <2>2, <2>3 DEF PagesFound
  <1>9. /\ {"pending", "categories", "user", "approve", "reject", "changes", "add", "rename",
            "delete", "suspend", "activate"} \subseteq Op
        /\ Events \cup Categories \cup {None} \subseteq About
        /\ None \in Filter /\ Names \subseteq Filter
        /\ {"categories", "user", "add", "rename", "delete", "suspend", "activate"}
              \cap (RowOps \cup {"upload"}) = {}
    BY DEF Op, About, Subject, Filter, RowOps, EventOps
  <1>10. ASSUME NEW e \in Events, OpenReview(e) PROVE RowsExist'
    <2>1. e \in There
      BY <1>10 DEF OpenReview, There
    <2>2. AllSound'
      BY <1>5, <1>9, <1>10, <2>1 DEF OpenReview, AdmEnter
    <2>3. adm'.event = e
      BY <1>10 DEF OpenReview, AdmEnter, AdmMounted
    <2> QED BY <1>3, <2>1, <2>2, <2>3
  <1>11. CASE OpenCategories \/ OpenUser
    <2>1. AllSound'
      BY <1>5, <1>9, <1>11 DEF OpenCategories, OpenUser, AdmEnter
    <2>2. adm'.at # "review"
      BY <1>11 DEF OpenCategories, OpenUser, AdmEnter, AdmMounted
    <2> QED BY <1>3, <2>1, <2>2
  <1>12. CASE OnConfirmAction \/ ConfirmDelete
              \/ (\E op \in {"approve", "reject", "changes"} : RunAction(op))
              \/ \E name \in Names : SubmitCategory(name)
    <2>1. adm' \in {[adm EXCEPT !.busy = TRUE], [adm EXCEPT !.saving = TRUE],
                    [adm EXCEPT !.deleting = TRUE]}
      BY <1>12 DEF OnConfirmAction, ConfirmDelete, RunAction, SubmitCategory
    <2>2. adm'.at = adm.at /\ adm'.event = adm.event
      BY <1>0, <2>1 DEF AdminTyped, Adm
    <2>3. AllSound'
      <3>1. CASE OnConfirmAction
        BY <1>5, <1>9, <3>1 DEF OnConfirmAction
      <3>2. CASE ConfirmDelete
        BY <1>0, <1>5, <1>9, <3>2 DEF ConfirmDelete, AdminTyped, Adm
      <3>3. CASE \E op \in {"approve", "reject", "changes"} : RunAction(op)
        BY <1>0, <1>5, <1>9, <3>3 DEF RunAction, AdminTyped, PagesFound
      <3>4. CASE \E name \in Names : SubmitCategory(name)
        BY <1>0, <1>5, <1>9, <3>4 DEF SubmitCategory, AdminTyped, Adm
      <3> QED BY <1>12, <3>1, <3>2, <3>3, <3>4
    <2> QED BY <1>0, <1>3, <2>2, <2>3 DEF PagesFound
  <1> QED BY <1>6, <1>7, <1>8, <1>10, <1>11, <1>12 DEF Admin

(* The answers the tabs take. *)
LEMMA RowsOfAnswers ==
    ASSUME TypeInv, RowsExist, NEW n \in CallIds,
           (OrganizerCall(n) /\ UNCHANGED adm) \/ AdminCall(n)
    PROVE  RowsExist'
  <1>0. /\ CallsFit /\ OrganizerTyped /\ AdminTyped /\ AllSound /\ PagesFound
        /\ calls[n] \in Call /\ Fits(calls[n])
    BY DEF TypeInv, NetworkTyped, RowsExist, CallsFit, Fitting
  <1>1. UNCHANGED <<events, work>> /\ calls[n].stage # "sent"
    BY DEF OrganizerCall, OptionsAnswered, FormAnswered, UploadAnswered, EventCreated,
           EventUpdated, Saved, SaveFailed, DetailsAnswered, ActAnswered, ActFailed, AdminCall,
           PendingAnswered, RunActionSettled, CategoryChanged, CategoryChangeFailed,
           CategoriesLoaded, UserAnswered, ConfirmSettled, Settling, server
  <1>2. There' = There /\ ~work[n].begun
    BY <1>0, <1>1 DEF There, AllSound, Sound
  <1>3. AllSound'
    <2>1. CASE Settle(n)
      BY <1>0, <1>1, <2>1, SettleSound
    <2>2. CASE UploadAnswered(n)
      <3>1. /\ calls'[n] = [calls[n] EXCEPT !.op = Saving(calls[n].about), !.stage = "sent"]
            /\ \A m \in CallIds \ {n} : calls'[m] = calls[m]
            /\ calls[n].op = "upload"
        BY <1>0, <2>2 DEF UploadAnswered, CallsFit
      <3>2. calls[n].about \in There \cup {None}
        BY <1>0, <3>1 DEF AllSound, Sound
      <3>3. calls'[n].about = calls[n].about
        BY <1>0, <3>1, CallIs
      <3>4. Sound(calls'[n], work'[n], There')
        BY <1>1, <1>2, <3>2, <3>3 DEF Sound
      <3> QED BY <1>0, <1>1, <1>2, <3>1, <3>4, OneSound
    <2>3. CASE CategoryChanged(n)
      <3>1. PICK reload \in {"after_save", "after_delete"} :
               calls' = [calls EXCEPT ![n] = NewCall(reload, None, None)]
        BY <2>3 DEF CategoryChanged
      <3>2. /\ calls'[n].op = reload
            /\ \A m \in CallIds \ {n} : calls'[m] = calls[m]
        BY <1>0, <3>1, NewIs DEF Op, About, Filter, CallsFit
      <3>3. Sound(calls'[n], work'[n], There')
        BY <1>1, <1>2, <3>2 DEF Sound, RowOps, EventOps
      <3> QED BY <1>0, <1>1, <1>2, <3>2, <3>3, OneSound
    <2> QED BY <2>1, <2>2, <2>3
            DEF OrganizerCall, OptionsAnswered, FormAnswered, EventCreated,
                EventUpdated, Saved, SaveFailed, DetailsAnswered, ActAnswered, ActFailed, AdminCall,
                PendingAnswered, RunActionSettled, CategoryChangeFailed,
                CategoriesLoaded, UserAnswered, ConfirmSettled
  <1>4. org'.at = org.at /\ org'.event = org.event
    <2>1. CASE AdminCall(n)
      BY <2>1 DEF AdminCall, PendingAnswered, RunActionSettled, CategoryChanged,
                  CategoryChangeFailed, CategoriesLoaded, UserAnswered, ConfirmSettled, organizer
    <2>2. CASE OptionsAnswered(n) \/ FormAnswered(n)
      BY <1>0, <2>2 DEF OptionsAnswered, FormAnswered, OrganizerTyped, Org
    <2>3. CASE UploadAnswered(n) \/ EventCreated(n) \/ EventUpdated(n) \/ SaveFailed(n)
      BY <1>0, <2>3 DEF UploadAnswered, EventCreated, EventUpdated, Saved, SaveFailed,
                        OrganizerTyped, Org, organizer
    <2>4. CASE DetailsAnswered(n) \/ ActAnswered(n) \/ ActFailed(n)
      BY <1>0, <2>4 DEF DetailsAnswered, ActAnswered, ActFailed, OrganizerTyped, Org
    <2> QED BY <2>1, <2>2, <2>3, <2>4 DEF OrganizerCall
  <1>5. adm'.at = adm.at /\ adm'.event = adm.event
    <2>1. CASE PendingAnswered(n) \/ RunActionSettled(n) \/ CategoryChanged(n)
      BY <1>0, <2>1 DEF PendingAnswered, RunActionSettled, CategoryChanged, AdminTyped, Adm
    <2>2. CASE CategoryChangeFailed(n) \/ UserAnswered(n) \/ ConfirmSettled(n)
      BY <1>0, <2>2 DEF CategoryChangeFailed, UserAnswered, ConfirmSettled, AdminTyped, Adm
    <2>3. CASE CategoriesLoaded(n)
      BY <1>0, <2>3 DEF CategoriesLoaded, AdminTyped, Adm
    <2> QED BY <2>1, <2>2, <2>3 DEF AdminCall
  <1>6. leaving' \subseteq There \cup {"dashboard"}
    <2>1. CASE EventUpdated(n)
      <3>1. calls[n].op = "update" /\ leaving' = leaving \cup {calls[n].about}
        BY <2>1 DEF EventUpdated, Saved
      <3>2. calls[n].about \in There
        BY <1>0, <3>1, NoneIsNothing DEF AllSound, Sound, RowOps, EventOps, Fits
      <3> QED BY <1>0, <3>1, <3>2 DEF PagesFound
    <2>2. CASE EventCreated(n)
      BY <1>0, <2>2 DEF EventCreated, Saved, PagesFound
    <2>3. CASE UNCHANGED leaving
      BY <1>0, <2>3 DEF PagesFound
    <2> QED BY <2>1, <2>2, <2>3
            DEF OrganizerCall, OptionsAnswered, FormAnswered, UploadAnswered, SaveFailed,
                DetailsAnswered, ActAnswered, ActFailed, AdminCall, PendingAnswered,
                RunActionSettled, CategoryChanged, CategoryChangeFailed, CategoriesLoaded,
                UserAnswered, ConfirmSettled, organizer
  <1> QED BY <1>0, <1>2, <1>3, <1>4, <1>5, <1>6 DEF RowsExist, PagesFound

(* The server. *)
LEMMA ChangedExists ==
    ASSUME NEW op \in EventOps, NEW row \in Row, NEW form, row.status # "absent"
    PROVE  Changed(op, row, form).status # "absent"
  <1>1. \A s : [row EXCEPT !.status = s].status = s
    BY DEF Row
  <1>2. [row EXCEPT !.category = form.category, !.picture = form.picture].status = row.status
    BY DEF Row
  <1> QED BY <1>1, <1>2 DEF Changed, EventOps

LEMMA RowsOfServer ==
    ASSUME TypeInv, RowsExist, NEW n \in CallIds,
           ServerStep(n) \/ NobodyHears(n) \/ CallFails(n)
    PROVE  RowsExist'
  <1>0. /\ CallsFit /\ ServerTyped /\ AllSound /\ PagesFound
        /\ calls[n] \in Call /\ Fits(calls[n]) /\ Sound(calls[n], work[n], There)
    BY DEF TypeInv, NetworkTyped, RowsExist, CallsFit, Fitting, AllSound
  <1>1. UNCHANGED <<org, adm, leaving>>
    BY DEF ServerStep, ReadEvent, UpdateEvent, CreateEvent, UploadImage, GetMine, ListActive,
           ListPending, ListAll, AddCategory, RenameCategory, DetachEvents, DeleteRow, GetUser,
           SetStatus, NobodyHears, CallFails, Begin, Refused, pages, organizer
  <1>2. ASSUME There \subseteq There', AllSound' PROVE RowsExist'
    BY <1>0, <1>1, <1>2 DEF RowsExist, PagesFound
  <1>3. ASSUME UNCHANGED events PROVE There' = There
    BY <1>3 DEF There
  <1>4. ASSUME There \subseteq There', (\E reply : Answer(n, reply)) \/ Refuse(n) \/ Fail(n),
               \A m \in CallIds \ {n} : work'[m] = work[m], ~work'[n].begun
        PROVE  RowsExist'
    <2>1. /\ \A m \in CallIds \ {n} : calls'[m] = calls[m]
          /\ calls'[n].op = calls[n].op /\ calls'[n].about = calls[n].about
      BY <1>0, <1>4, AnsweredIs, RefusedIs, FailedIs
    <2>2. Sound(calls'[n], work'[n], There')
      BY <1>0, <1>4, <2>1 DEF Sound
    <2> QED BY <1>0, <1>2, <1>4, <2>1, <2>2, OneSound
  <1>5. ASSUME Finish(n)
        PROVE  ~work'[n].begun /\ \A m \in CallIds \ {n} : work'[m] = work[m]
    BY <1>0, <1>5, NothingBegun DEF Finish, ServerTyped
  <1>6. ASSUME Refused(n) PROVE RowsExist'
    BY <1>3, <1>4, <1>5, <1>6 DEF Refused
  <1>7. ASSUME NEW op, Waits(n, op), \E reply : Answer(n, reply), UNCHANGED work,
               There \subseteq There'
        PROVE  RowsExist'
    BY <1>4, <1>7 DEF Waits
  <1>8. ASSUME NEW row, Begin(n, row), calls[n].stage = "sent",
               calls[n].op \in EventOps \cup {"delete"},
               calls[n].op \in EventOps => row.status # "absent", There \subseteq There'
        PROVE  RowsExist'
    <2>1. /\ UNCHANGED calls /\ work'[n].begun /\ work'[n].row = row
          /\ \A m \in CallIds \ {n} : work'[m] = work[m]
      BY <1>0, <1>8 DEF Begin, network, ServerTyped
    <2>2. Sound(calls'[n], work'[n], There')
      BY <1>0, <1>8, <2>1 DEF Sound
    <2> QED BY <1>0, <1>2, <1>8, <2>1, <2>2, OneSound
  <1>9. CASE ReadEvent(n)
    <2>1. calls[n].op \in EventOps /\ calls[n].stage = "sent"
      BY <1>9 DEF ReadEvent, Waits, AtServer
    <2>2. calls[n].about \in There
      BY <1>0, <2>1, NoneIsNothing DEF Sound, Fits, RowOps
    <2>3. events[calls[n].about] \in Row /\ events[calls[n].about].status # "absent"
      BY <1>0, <2>2 DEF There, ServerTyped
    <2>4. Changed(calls[n].op, events[calls[n].about], calls[n].filter).status # "absent"
      BY <2>1, <2>3, ChangedExists
    <2>5. CASE Refused(n)
      BY <1>6, <2>5
    <2>6. CASE Begin(n, Changed(calls[n].op, events[calls[n].about], calls[n].filter))
               /\ UNCHANGED events
      BY <1>3, <1>8, <2>1, <2>4, <2>6
    <2> QED BY <1>9, <2>5, <2>6 DEF ReadEvent
  <1>10. CASE UpdateEvent(n)
    <2>1. CASE Refused(n)
      BY <1>6, <2>1
    <2>2. CASE /\ events' = [events EXCEPT ![calls[n].about] = work[n].row]
               /\ Answer(n, RowReply(work[n].row, calls[n].about)) /\ Finish(n)
      <3>1. work[n].row.status # "absent"
        BY <1>0, <1>10 DEF UpdateEvent, Sound
      <3>2. There \subseteq There'
        BY <1>0, <2>2, <3>1 DEF There, ServerTyped
      <3> QED BY <1>4, <1>5, <2>2, <3>2
    <2> QED BY <1>10, <2>1, <2>2 DEF UpdateEvent
  <1>11. CASE CreateEvent(n)
    <2>1. CASE Refused(n)
      BY <1>6, <2>1
    <2>2. CASE ~Refused(n)
      <3>1. PICK e \in Events : /\ events[e] = Absent
                                /\ \E row : events' = [events EXCEPT ![e] = row]
        BY <1>11, <2>2 DEF CreateEvent
      <3>2. events[e].status = "absent"
        BY <3>1 DEF Absent
      <3>3. There \subseteq There'
        BY <1>0, <3>1, <3>2 DEF There, ServerTyped
      <3>4. Answer(n, {}) /\ UNCHANGED work /\ Waits(n, "create")
        BY <1>11, <2>2 DEF CreateEvent
      <3> QED BY <1>7, <3>3, <3>4
    <2> QED BY <2>1, <2>2
  <1>12. CASE DetachEvents(n)
    <2>1. CASE Refused(n)
      BY <1>6, <2>1
    <2>2. CASE /\ Begin(n, Absent) /\ Waits(n, "delete")
               /\ events' = [e \in Events |-> IF events[e].category = calls[n].about
                                              THEN [events[e] EXCEPT !.category = None]
                                              ELSE events[e]]
      <3>1. \A e \in Events : events'[e].status = events[e].status
        BY <1>0, <2>2 DEF ServerTyped, Row
      <3>2. There \subseteq There'
        BY <3>1 DEF There
      <3>3. "delete" \notin EventOps
        BY DEF EventOps
      <3> QED BY <1>8, <2>2, <3>2, <3>3 DEF Waits, AtServer
    <2> QED BY <1>12, <2>1, <2>2 DEF DetachEvents
  <1>13. CASE AddCategory(n) \/ RenameCategory(n)
    BY <1>3, <1>6, <1>7, <1>13 DEF AddCategory, RenameCategory
  <1>14. CASE DeleteRow(n)
    BY <1>3, <1>4, <1>5, <1>6, <1>14 DEF DeleteRow
  <1>15. CASE UploadImage(n)
    BY <1>3, <1>4, <1>15 DEF UploadImage, Waits, server
  <1>16. CASE GetMine(n) \/ ListActive(n) \/ ListAll(n) \/ GetUser(n)
    BY <1>3, <1>7, <1>16 DEF GetMine, ListActive, ListAll, GetUser, server
  <1>17. CASE ListPending(n)
    BY <1>3, <1>4, <1>17 DEF ListPending, Waits, server
  <1>18. CASE SetStatus(n)
    BY <1>3, <1>7, <1>18 DEF SetStatus
  <1>19. CASE NobodyHears(n)
    <2>1. AllSound'
      BY <1>0, <1>19, SettleSound DEF NobodyHears, NobodyListens, server
    <2> QED BY <1>2, <1>3, <1>19, <2>1 DEF NobodyHears, server
  <1>20. CASE CallFails(n)
    BY <1>3, <1>4, <1>5, <1>20 DEF CallFails
  <1> QED BY <1>9, <1>10, <1>11, <1>12, <1>13, <1>14, <1>15, <1>16, <1>17, <1>18, <1>19, <1>20
          DEF ServerStep

LEMMA RowsStart == Init => RowsExist
  <1> SUFFICES ASSUME Init PROVE RowsExist
    OBVIOUS
  <1>1. \A n \in CallIds : calls[n] = NoCall /\ ~work[n].begun
    BY NothingBegun DEF Init
  <1>2. AllSound
    BY <1>1, NoCallSound DEF AllSound
  <1>3. org.at = "dashboard" /\ adm.at = "dashboard" /\ leaving = {}
    BY DEF Init, Mounted, AdmMounted
  <1> QED BY <1>2, <1>3 DEF RowsExist, PagesFound

LEMMA RowsStay == TypeInv /\ RowsExist /\ [Next]_vars => RowsExist'
  <1> SUFFICES ASSUME TypeInv, RowsExist, [Next]_vars PROVE RowsExist'
    OBVIOUS
  <1>1. CASE UNCHANGED vars
    BY <1>1 DEF vars, server, network, pages, organizer, RowsExist, AllSound, PagesFound, There
  <1>2. ASSUME NEW n \in CallIds, CallGoesOn(n) \/ CallFails(n) PROVE RowsExist'
    BY <1>2, RowsOfAnswers, RowsOfServer DEF CallGoesOn
  <1> QED BY <1>1, <1>2, RowsOfOrganizer, RowsOfAdmin DEF Next

-----------------------------------------------------------------------------
(* What the pages show.  A copy is true when it is what the table holds, or
   when an answer that says what the table holds is still to be taken.      *)
OrgOps == FormOps \cup DetailsOps
AdmOps == ReviewOps \cup CategoryOps \cup UserOps

Answered(c) == {n \in Listening(c) : calls[n].stage = "answered"}
Row_(n) == RowIn(calls[n].reply, calls[n].about)

(* What the review page will show once it has taken the answer of n. *)
Learned(n) == IF calls[n].op = "pending" THEN Row_(n) ELSE Merged(adm.shown, Row_(n))

LEMMA MergedWithItself == ASSUME NEW row \in Row PROVE Merged(row, row) = row
  BY DEF Merged, Row

DetailsTrue == "details" \notin doubt =>
    /\ \A n \in Listening("details") : calls[n].about = org.event
    /\ \A n \in Answered("details") : Row_(n) = events[org.event]
    /\ org.at = "details" /\ org.found =>
          org.shown = events[org.event] \/ Answered("details") # {}

(* Only the form that is mounted has asked for its event. *)
FormsAtHome == \A n \in CallIds : calls[n].live /\ calls[n].op = "form" => org.at = "edit"

OrganizerTrue == DetailsTrue /\ FormsAtHome

Published(e) == [events[e] EXCEPT !.status = "published"]

ReviewTrue == "review" \notin doubt =>
    /\ \A n \in Listening("review") :
          /\ calls[n].about = adm.event
          /\ calls[n].op = "approve" /\ work[n].begun => work[n].row = Published(adm.event)
    /\ \A n \in Answered("review") : Learned(n) = events[adm.event]
    /\ adm.at = "review" /\ adm.found =>
          adm.shown = events[adm.event] \/ Answered("review") # {}

(* The page of a review waits for one answer at a time. *)
OneReview ==
    \A n \in Listening("review") :
        /\ adm.at = "review" /\ \A m \in Listening("review") : m = n
        /\ IF calls[n].op = "pending" THEN ~adm.found ELSE adm.found /\ adm.busy

UserTrue == "user" \notin doubt =>
    /\ \A n \in Answered("user") : AccountIn(n) = account
    /\ adm.at = "user" /\ adm.found => adm.account = account \/ Answered("user") # {}

Current == [c \in Categories |-> IF c \in Existing THEN names[c] ELSE None]

(* A load that says what there is, or will, or will be sent when it is its turn. *)
Reloads(c) ==
    \/ c.op \in CategoryOps /\ c.stage = "answered"
    \/ c.op \in {"after_save", "after_delete"} /\ c.stage = "sent"

ListTrue == "list" \notin doubt =>
    /\ \A n \in Answered("list") : calls[n].op \in Loads => Listed(n) = Current
    /\ adm.at = "categories" =>
          adm.list = Current \/ \E n \in Listening("list") : Reloads(calls[n])

(* Only the page of the user asks for an account. *)
UsersAtHome == Listening("user") # {} => adm.at = "user"

AdminTrue == ReviewTrue /\ OneReview /\ UserTrue /\ UsersAtHome /\ ListTrue

LEMMA OpsAre ==
    /\ OrgOps \cap AdmOps = {} /\ "none" \notin OrgOps \cup AdmOps
    /\ ReviewOps \cap (CategoryOps \cup UserOps) = {} /\ CategoryOps \cap UserOps = {}
    /\ DetailsOps \cap FormOps = {}
  BY DEF OrgOps, AdmOps, FormOps, DetailsOps, ReviewOps, CategoryOps, Loads, UserOps

LEMMA CopyIs ==
    ASSUME NEW op
    PROVE  /\ "details" \in CopyOf(op) <=> op \in DetailsOps
           /\ "review" \in CopyOf(op) <=> op \in ReviewOps
           /\ "list" \in CopyOf(op) <=> op \in CategoryOps
           /\ "user" \in CopyOf(op) <=> op \in UserOps
  BY DEF CopyOf, DetailsOps, ReviewOps, CategoryOps, Loads, UserOps

(* Nothing happens to the requests in ops. *)
Apart(ops) == \A n \in CallIds : calls'[n] = calls[n] \/ (calls[n].op \notin ops /\ calls'[n].op \notin ops)

LEMMA DetailsKept ==
    ASSUME DetailsTrue, Apart(DetailsOps), "details" \notin doubt' => "details" \notin doubt,
           org'.event = org.event,
           "details" \notin doubt' => events'[org.event] = events[org.event],
           org'.at = "details" /\ org'.found =>
               org.at = "details" /\ org.found /\ org'.shown = org.shown
    PROVE  DetailsTrue'
  <1>1. \A n \in CallIds : n \in Listening("details") \/ n \in Listening("details")' =>
           calls'[n] = calls[n] /\ n \in Listening("details") /\ n \in Listening("details")'
    BY CopyIs DEF Apart, Listening
  <1> QED BY <1>1 DEF DetailsTrue, Answered, Listening, Row_

LEMMA ReviewKept ==
    ASSUME ReviewTrue, OneReview, Apart(ReviewOps),
           "review" \notin doubt' => "review" \notin doubt,
           adm'.event = adm.event, adm'.at = adm.at, adm'.found = adm.found,
           adm'.busy = adm.busy, adm'.shown = adm.shown,
           "review" \notin doubt' => events'[adm.event] = events[adm.event],
           \A n \in CallIds : calls[n].op \in ReviewOps => work'[n] = work[n]
    PROVE  ReviewTrue' /\ OneReview'
  <1>1. \A n \in CallIds : n \in Listening("review") \/ n \in Listening("review")' =>
           /\ calls'[n] = calls[n] /\ n \in Listening("review") /\ n \in Listening("review")'
           /\ work'[n] = work[n]
    BY CopyIs DEF Apart, Listening
  <1>2. OneReview'
    BY <1>1 DEF OneReview, Listening
  <1>3. "review" \notin doubt' => Published(adm.event)' = Published(adm.event)
    BY DEF Published
  <1>4. ReviewTrue'
    BY <1>1, <1>3 DEF ReviewTrue, Answered, Listening, Row_, Learned
  <1> QED BY <1>2, <1>4

LEMMA UserKept ==
    ASSUME UserTrue, Apart(UserOps), "user" \notin doubt' => "user" \notin doubt,
           "user" \notin doubt' => account' = account,
           adm'.at = "user" /\ adm'.found =>
               adm.at = "user" /\ adm.found /\ adm'.account = adm.account
    PROVE  UserTrue'
  <1>1. \A n \in CallIds : n \in Listening("user") \/ n \in Listening("user")' =>
           calls'[n] = calls[n] /\ n \in Listening("user") /\ n \in Listening("user")'
    BY CopyIs DEF Apart, Listening
  <1> QED BY <1>1 DEF UserTrue, Answered, Listening, AccountIn

LEMMA UsersKept ==
    ASSUME UsersAtHome, Apart(UserOps), adm'.at = adm.at \/ Listening("user") = {}
    PROVE  UsersAtHome'
  <1>1. \A n \in Listening("user")' : n \in Listening("user")
    BY CopyIs DEF Apart, Listening
  <1> QED BY <1>1 DEF UsersAtHome

LEMMA ListKept ==
    ASSUME ListTrue, Apart(CategoryOps), "list" \notin doubt' => "list" \notin doubt,
           "list" \notin doubt' => names' = names,
           adm'.at = "categories" => adm.at = "categories" /\ adm'.list = adm.list
    PROVE  ListTrue'
  <1>1. \A n \in CallIds : n \in Listening("list") \/ n \in Listening("list")' =>
           calls'[n] = calls[n] /\ n \in Listening("list") /\ n \in Listening("list")'
    BY CopyIs DEF Apart, Listening
  <1>2. "list" \notin doubt' => Current' = Current
    BY DEF Current, Existing
  <1>3. \A n \in Listening("list") : Listed(n)' = Listed(n)
    BY <1>1 DEF Listed, Listening
  <1> QED BY <1>1, <1>2, <1>3 DEF ListTrue, Answered, Listening

(* The requests of one tab leave what the other shows alone. *)
LEMMA AdminKept ==
    ASSUME AdminTrue, Apart(AdmOps), UNCHANGED <<adm, names, account>>,
           {"review", "list", "user"} \cap doubt \subseteq doubt',
           "review" \notin doubt' => events'[adm.event] = events[adm.event],
           \A n \in CallIds : calls[n].op \in ReviewOps => work'[n] = work[n]
    PROVE  AdminTrue'
  <1>1. Apart(ReviewOps) /\ Apart(UserOps) /\ Apart(CategoryOps)
    BY DEF Apart, AdmOps
  <1> QED BY <1>1, ReviewKept, UserKept, UsersKept, ListKept DEF AdminTrue

LEMMA OrganizerKept ==
    ASSUME OrganizerTrue, Apart(OrgOps), UNCHANGED org, {"details"} \cap doubt \subseteq doubt',
           "details" \notin doubt' => events'[org.event] = events[org.event]
    PROVE  OrganizerTrue'
  <1>1. Apart(DetailsOps)
    BY DEF Apart, OrgOps
  <1>2. FormsAtHome'
    BY DEF OrganizerTrue, FormsAtHome, Apart, OrgOps, FormOps
  <1> QED BY <1>1, <1>2, DetailsKept DEF OrganizerTrue

(* One request goes on. *)
Alone(n) == \A m \in CallIds \ {n} : calls'[m] = calls[m]

LEMMA DetailsStep ==
    ASSUME DetailsTrue, NEW n \in CallIds, Alone(n), org'.event = org.event,
           "details" \notin doubt' =>
              /\ \/ Listening("details") \subseteq {n}
                 \/ "details" \notin doubt /\ events'[org.event] = events[org.event]
              /\ n \in Listening("details")' => calls'[n].about = org.event
              /\ n \in Answered("details")' => Row_(n)' = events'[org.event]
              /\ org'.at = "details" /\ org'.found =>
                    \/ n \in Answered("details")' \/ org'.shown = events'[org.event]
                    \/ /\ "details" \notin doubt /\ events'[org.event] = events[org.event]
                       /\ org.at = "details" /\ org.found /\ org'.shown = org.shown
                       /\ n \notin Answered("details")
    PROVE  DetailsTrue'
  <1>1. \A m \in CallIds \ {n} : /\ m \in Listening("details")' <=> m \in Listening("details")
                                 /\ m \in Answered("details")' <=> m \in Answered("details")
                                 /\ calls'[m] = calls[m]
    BY DEF Alone, Listening, Answered
  <1> SUFFICES ASSUME "details" \notin doubt' PROVE DetailsTrue'
    BY DEF DetailsTrue
  <1>2. \A m \in Listening("details")' : m \in CallIds /\ m \in (CallIds \ {n}) \cup {n}
    BY DEF Listening
  <1>3. \A m \in Listening("details")' : calls'[m].about = org'.event
    BY <1>1, <1>2 DEF DetailsTrue
  <1>4. \A m \in Answered("details")' : Row_(m)' = events'[org.event]
    BY <1>1, <1>2 DEF DetailsTrue, Answered, Row_
  <1>5. org'.at = "details" /\ org'.found =>
           org'.shown = events'[org.event] \/ Answered("details")' # {}
    BY <1>1 DEF DetailsTrue, Answered, Listening
  <1> QED BY <1>3, <1>4, <1>5 DEF DetailsTrue

LEMMA ReviewStep ==
    ASSUME ReviewTrue, NEW n \in CallIds, Alone(n), adm'.event = adm.event,
           \A m \in CallIds \ {n} : work'[m] = work[m],
           "review" \notin doubt' =>
              /\ \/ Listening("review") \subseteq {n}
                 \/ "review" \notin doubt /\ events'[adm.event] = events[adm.event]
              /\ n \in Listening("review")' =>
                    /\ calls'[n].about = adm.event
                    /\ calls'[n].op = "approve" /\ work'[n].begun =>
                          work'[n].row = Published(adm.event)'
              /\ n \in Answered("review")' => Learned(n)' = events'[adm.event]
              /\ adm'.shown = adm.shown \/ Answered("review") \subseteq {n}
              /\ adm'.at = "review" /\ adm'.found =>
                    \/ n \in Answered("review")' \/ adm'.shown = events'[adm.event]
                    \/ /\ "review" \notin doubt /\ events'[adm.event] = events[adm.event]
                       /\ adm.at = "review" /\ adm.found /\ adm'.shown = adm.shown
                       /\ n \notin Answered("review")
    PROVE  ReviewTrue'
  <1>1. \A m \in CallIds \ {n} : /\ m \in Listening("review")' <=> m \in Listening("review")
                                 /\ m \in Answered("review")' <=> m \in Answered("review")
                                 /\ calls'[m] = calls[m]
    BY DEF Alone, Listening, Answered
  <1> SUFFICES ASSUME "review" \notin doubt' PROVE ReviewTrue'
    BY DEF ReviewTrue
  <1>2. \A m \in Listening("review")' : m \in CallIds /\ m \in (CallIds \ {n}) \cup {n}
    BY DEF Listening
  <1>3. events'[adm.event] = events[adm.event] => Published(adm.event)' = Published(adm.event)
    BY DEF Published
  <1>4. \A m \in Listening("review")' :
           /\ calls'[m].about = adm'.event
           /\ calls'[m].op = "approve" /\ work'[m].begun => work'[m].row = Published(adm.event)'
    BY <1>1, <1>2, <1>3 DEF ReviewTrue
  <1>5. \A m \in Answered("review")' : Learned(m)' = events'[adm.event]
    BY <1>1, <1>2 DEF ReviewTrue, Answered, Row_, Learned
  <1>6. adm'.at = "review" /\ adm'.found =>
           adm'.shown = events'[adm.event] \/ Answered("review")' # {}
    BY <1>1 DEF ReviewTrue, Answered, Listening
  <1> QED BY <1>4, <1>5, <1>6 DEF ReviewTrue

LEMMA UserStep ==
    ASSUME UserTrue, NEW n \in CallIds, Alone(n),
           "user" \notin doubt' =>
              /\ \/ Listening("user") \subseteq {n}
                 \/ "user" \notin doubt /\ account' = account
              /\ n \in Answered("user")' => AccountIn(n)' = account'
              /\ adm'.at = "user" /\ adm'.found =>
                    \/ n \in Answered("user")' \/ adm'.account = account'
                    \/ /\ "user" \notin doubt /\ account' = account
                       /\ adm.at = "user" /\ adm.found /\ adm'.account = adm.account
                       /\ n \notin Answered("user")
    PROVE  UserTrue'
  <1>1. \A m \in CallIds \ {n} : /\ m \in Listening("user")' <=> m \in Listening("user")
                                 /\ m \in Answered("user")' <=> m \in Answered("user")
                                 /\ AccountIn(m)' = AccountIn(m)
    BY DEF Alone, Listening, Answered, AccountIn
  <1> SUFFICES ASSUME "user" \notin doubt' PROVE UserTrue'
    BY DEF UserTrue
  <1>2. \A m \in Answered("user")' : AccountIn(m)' = account'
    BY <1>1 DEF UserTrue, Answered, Listening
  <1>3. adm'.at = "user" /\ adm'.found => adm'.account = account' \/ Answered("user")' # {}
    BY <1>1 DEF UserTrue, Answered, Listening
  <1> QED BY <1>2, <1>3 DEF UserTrue

LEMMA ListStep ==
    ASSUME ListTrue, NEW n \in CallIds, Alone(n),
           "list" \notin doubt' =>
              /\ \/ ~ListComing(n)
                 \/ "list" \notin doubt /\ names' = names
              /\ n \in Answered("list")' /\ calls'[n].op \in Loads => Listed(n)' = Current'
              /\ adm'.at = "categories" =>
                    \/ n \in Listening("list")' /\ Reloads(calls'[n])
                    \/ adm'.list = Current'
                    \/ /\ "list" \notin doubt /\ names' = names
                       /\ adm.at = "categories" /\ adm'.list = adm.list
                       /\ ~(n \in Listening("list") /\ Reloads(calls[n]))
    PROVE  ListTrue'
  <1>1. \A m \in CallIds \ {n} : /\ m \in Listening("list")' <=> m \in Listening("list")
                                 /\ m \in Answered("list")' <=> m \in Answered("list")
                                 /\ calls'[m] = calls[m] /\ Listed(m)' = Listed(m)
    BY DEF Alone, Listening, Answered, Listed
  <1>2. names' = names => Current' = Current
    BY DEF Current, Existing
  <1> SUFFICES ASSUME "list" \notin doubt' PROVE ListTrue'
    BY DEF ListTrue
  <1>3. \A m \in Answered("list")' : calls'[m].op \in Loads => Listed(m)' = Current'
    BY <1>1, <1>2 DEF ListTrue, Answered, Listening, ListComing
  <1>4. adm'.at = "categories" =>
           adm'.list = Current' \/ \E m \in Listening("list")' : Reloads(calls'[m])
    BY <1>1, <1>2 DEF ListTrue, Listening
  <1> QED BY <1>3, <1>4 DEF ListTrue

(* How the requests of a tab come and go. *)
LEMMA ApartSent ==
    ASSUME CallsFit, NEW op \in Op, NEW about \in About, NEW filter \in Filter,
           Send(op, about, filter), NEW ops, op \notin ops, "none" \notin ops
    PROVE  Apart(ops)
  BY SentIs DEF Apart

LEMMA WithoutIs ==
    ASSUME CallsFit, NEW ops, NEW m \in CallIds
    PROVE  LET c == Without(ops)[m] IN
           IF calls[m].op \in ops THEN ~c.live /\ c.op \in {calls[m].op, "none"}
           ELSE c = calls[m]
  <1>1. LET c == [calls[m] EXCEPT !.live = FALSE] IN ~c.live /\ c.op = calls[m].op
    BY CallIs DEF CallsFit, Fitting
  <1> QED BY <1>1, NoCallIsNone DEF Without

LEMMA ApartAbandoned ==
    ASSUME CallsFit, NEW ops, Abandoned(ops)
    PROVE  /\ \A others : others \cap (ops \cup {"none"}) = {} => Apart(others)
           /\ \A n \in CallIds : calls'[n].op \in ops => ~calls'[n].live
  BY WithoutIs DEF Abandoned, Apart

LEMMA EnteredIs ==
    ASSUME CallsFit, NEW at \in {"create", "edit", "details"}, NEW e \in Events \cup {None},
           Enter(at, e)
    PROVE  /\ \A n \in CallIds : calls'[n].live /\ calls'[n].op \in OrgOps =>
                 calls'[n].op = FirstCall(at)
           /\ Apart(AdmOps)
  <1> DEFINE cs == Without(FormOps \cup DetailsOps)
  <1>1. PICK n \in CallIds : /\ cs[n].op = "none"
                             /\ calls' = [cs EXCEPT ![n] = NewCall(FirstCall(at), e, None)]
    BY DEF Enter, SendFrom
  <1>2. cs \in [CallIds -> Fitting]
    BY WithoutFits
  <1>3. FirstCall(at) \in Op \cap OrgOps /\ e \in About /\ None \in Filter
    BY DEF FirstCall, Op, OrgOps, FormOps, DetailsOps, About, Subject, Filter
  <1>4. /\ calls'[n].op = FirstCall(at)
        /\ \A m \in CallIds \ {n} : calls'[m] = cs[m]
    BY <1>1, <1>2, <1>3, NewIs
  <1>5. \A m \in CallIds : IF calls[m].op \in OrgOps THEN ~cs[m].live /\ cs[m].op \in {calls[m].op, "none"}
                           ELSE cs[m] = calls[m]
    BY WithoutIs DEF OrgOps
  <1>6. calls[n].op \in OrgOps \cup {"none"}
    BY <1>1, <1>5
  <1> HIDE DEF cs
  <1>7. Apart(AdmOps)
    BY <1>3, <1>4, <1>5, <1>6, OpsAre DEF Apart
  <1> QED BY <1>4, <1>5, <1>7

LEMMA TruthOfOrganizer ==
    ASSUME TypeInv, OrganizerTrue, AdminTrue, Organizer, UNCHANGED adm
    PROVE  OrganizerTrue' /\ AdminTrue'
  <1>0. CallsFit /\ OrganizerTyped /\ DetailsTrue /\ FormsAtHome
    BY DEF TypeInv, NetworkTyped, OrganizerTrue
  <1>1. /\ UNCHANGED server /\ doubt \subseteq doubt' /\ doubt' \subseteq doubt \cup {"details"}
    BY DEF Organizer, OpenEvent, OpenCreate, GoToDashboard, Navigate, Enter, KeepAsItIs, OpenClose,
           OpenCancel, OpenModal, SubmitNew, SubmitEdit, Submit, OnCloseRegistration,
           OnReopenRegistration, OnCancelEvent, Act
  <1>2. ASSUME Apart(AdmOps) PROVE AdminTrue'
    BY <1>1, <1>2, AdminKept DEF server
  <1>3. ASSUME NEW at \in {"create", "edit", "details"}, NEW e \in Events \cup {None}, Enter(at, e)
        PROVE  OrganizerTrue' /\ AdminTrue'
    <2>1. /\ \A n \in CallIds : calls'[n].live /\ calls'[n].op \in OrgOps =>
                calls'[n].op = FirstCall(at)
          /\ Apart(AdmOps)
      BY <1>0, <1>3, EnteredIs
    <2>2. org'.at = at /\ (at = "details" => "details" \in doubt')
      BY <1>3, MountedTyped DEF Enter
    <2>3. FormsAtHome'
      BY <2>1, <2>2 DEF FormsAtHome, FirstCall, OrgOps, FormOps
    <2>4. at # "details" => Listening("details")' = {}
      BY <2>1, CopyIs DEF Listening, FirstCall, OrgOps, DetailsOps
    <2>5. DetailsTrue'
      BY <2>2, <2>4 DEF DetailsTrue, Answered
    <2> QED BY <1>2, <2>1, <2>3, <2>5 DEF OrganizerTrue
  <1>4. ASSUME Abandoned(FormOps \cup DetailsOps), org' = Mounted("dashboard", None)
        PROVE  OrganizerTrue' /\ AdminTrue'
    <2>1. /\ \A n \in CallIds : calls'[n].op \in OrgOps => ~calls'[n].live
          /\ Apart(AdmOps)
      BY <1>0, <1>4, ApartAbandoned, OpsAre DEF OrgOps
    <2>2. org'.at = "dashboard"
      BY <1>4, MountedTyped
    <2>3. FormsAtHome' /\ Listening("details")' = {}
      BY <2>1, CopyIs DEF FormsAtHome, Listening, OrgOps, FormOps
    <2> QED BY <1>2, <2>1, <2>2, <2>3 DEF OrganizerTrue, DetailsTrue, Answered
  <1>5. ASSUME UNCHANGED calls, UNCHANGED <<doubt>>, org'.event = org.event, org'.at = org.at,
               org'.found = org.found, org'.shown = org.shown
        PROVE  OrganizerTrue' /\ AdminTrue'
    <2>1. Apart(AdmOps) /\ Apart(DetailsOps)
      BY <1>5 DEF Apart
    <2>2. DetailsTrue'
      BY <1>0, <1>1, <1>5, <2>1, DetailsKept DEF server
    <2> QED BY <1>0, <1>2, <1>5, <2>1, <2>2 DEF OrganizerTrue, FormsAtHome
  <1>6. ASSUME NEW op \in Op, NEW about \in About, NEW filter \in Filter,
               Send(op, about, filter), op \in OrgOps \ {"form"}, org'.at = org.at,
               \/ "details" \in doubt'
               \/ /\ about = org.event /\ doubt' = doubt /\ org'.event = org.event
                  /\ org'.found = org.found /\ org'.shown = org.shown
        PROVE  OrganizerTrue' /\ AdminTrue'
    <2>1. Apart(AdmOps)
      BY <1>0, <1>6, ApartSent, OpsAre
    <2>2. PICK n \in CallIds :
             /\ calls[n].op = "none" /\ Alone(n)
             /\ calls'[n].op = op /\ calls'[n].about = about /\ calls'[n].stage = "sent"
      BY <1>0, <1>6, SentIs DEF Alone
    <2>3. FormsAtHome'
      BY <1>0, <1>6, <2>2 DEF FormsAtHome, Alone
    <2>4. n \notin Listening("details") /\ n \notin Answered("details")'
      BY <2>2, CopyIs DEF Listening, Answered, DetailsOps
    <2>5. CASE "details" \in doubt'
      BY <1>2, <2>1, <2>3, <2>5 DEF OrganizerTrue, DetailsTrue
    <2>6. CASE /\ about = org.event /\ doubt' = doubt /\ org'.event = org.event
               /\ org'.found = org.found /\ org'.shown = org.shown
      <3>1. DetailsTrue'
        BY <1>0, <1>1, <1>6, <2>2, <2>4, <2>6, DetailsStep DEF server, Answered
      <3> QED BY <1>2, <2>1, <2>3, <3>1 DEF OrganizerTrue
    <2> QED BY <1>6, <2>5, <2>6
  <1>7. CASE (\E at \in {"edit", "details"}, e \in Events : OpenEvent(at, e)) \/ OpenCreate
    BY <1>3, <1>7 DEF OpenEvent, OpenCreate
  <1>8. CASE GoToDashboard
    BY <1>4, <1>8 DEF GoToDashboard
  <1>9. ASSUME NEW to \in Events \cup {"dashboard"}, Navigate(to)
        PROVE  OrganizerTrue' /\ AdminTrue'
    <2>1. CASE Abandoned(FormOps \cup DetailsOps) /\ org' = Mounted("dashboard", None)
      BY <1>4, <2>1
    <2>2. CASE to \in Events /\ Enter("details", to)
      BY <1>3, <2>2
    <2>3. CASE to \in Events /\ org' = [org EXCEPT !.event = to, !.loading = TRUE]
               /\ Send("details", to, None) /\ doubt' = doubt \cup {"details"}
      <3>1. /\ "details" \in Op /\ to \in About /\ None \in Filter
            /\ "details" \in OrgOps \ {"form"}
        BY <2>3 DEF Op, About, Subject, Filter, OrgOps, DetailsOps
      <3>2. org'.at = org.at
        BY <1>0, <2>3 DEF OrganizerTyped, Org
      <3> QED BY <1>6, <2>3, <3>1, <3>2
    <2>4. CASE UNCHANGED <<org, network, doubt, visit>>
      BY <1>5, <2>4 DEF network
    <2> QED BY <1>9, <2>1, <2>2, <2>3, <2>4 DEF Navigate
  <1>10. CASE KeepAsItIs \/ OpenClose \/ OpenCancel
    <2>1. PICK modal \in {"none", "close", "cancel"} : org' = [org EXCEPT !.modal = modal]
      BY <1>10 DEF KeepAsItIs, OpenClose, OpenCancel, OpenModal
    <2>2. /\ org'.at = org.at /\ org'.event = org.event /\ org'.found = org.found
          /\ org'.shown = org.shown
      BY <1>0, <2>1 DEF OrganizerTyped, Org
    <2> QED BY <1>5, <1>10, <2>2 DEF KeepAsItIs, OpenClose, OpenCancel, OpenModal, network
  <1>11. ASSUME org' = [org EXCEPT !.busy = TRUE], NEW op \in {"upload", "create", "update",
                "close", "reopen", "cancel"}, NEW filter \in Filter, Send(op, org.event, filter),
                UNCHANGED doubt
         PROVE  OrganizerTrue' /\ AdminTrue'
    <2>1. /\ org'.at = org.at /\ org'.event = org.event /\ org'.found = org.found
          /\ org'.shown = org.shown
      BY <1>0, <1>11 DEF OrganizerTyped, Org
    <2>2. org.event \in About /\ op \in Op /\ op \in OrgOps \ {"form"}
      BY <1>0 DEF OrganizerTyped, Org, About, Subject, Op, OrgOps, FormOps, DetailsOps
    <2> QED BY <1>6, <1>11, <2>1, <2>2
  <1>12. ASSUME NEW form \in Form, SubmitNew(form) \/ SubmitEdit(form)
         PROVE  OrganizerTrue' /\ AdminTrue'
    <2>1. /\ Submit(form) /\ form \in Filter
      BY <1>12 DEF SubmitNew, SubmitEdit, Filter
    <2>2. \E op \in {"upload", "create", "update"} : Send(op, org.event, form)
      BY <2>1 DEF Submit, Saving
    <2> QED BY <1>11, <2>1, <2>2 DEF Submit
  <1>13. CASE OnCloseRegistration \/ OnReopenRegistration \/ OnCancelEvent
    <2>1. \E op \in {"close", "reopen", "cancel"}, modal \in {"none", "close", "cancel"} : Act(op, modal)
      BY <1>13 DEF OnCloseRegistration, OnReopenRegistration, OnCancelEvent
    <2> QED BY <1>11, <2>1 DEF Act, Filter
  <1> QED BY <1>7, <1>8, <1>9, <1>10, <1>12, <1>13 DEF Organizer

LEMMA SettledTo ==
    ASSUME CallsFit, NEW n \in CallIds, Settle(n)
    PROVE  Alone(n) /\ ~calls'[n].live /\ calls'[n].op = "none"
  BY NoCallIsNone DEF Settle, CallsFit, Alone

LEMMA ApartOne ==
    ASSUME NEW n \in CallIds, Alone(n), NEW ops, calls[n].op \notin ops, calls'[n].op \notin ops
    PROVE  Apart(ops)
  BY DEF Apart, Alone

LEMMA TruthOfOrganizerCalls ==
    ASSUME TypeInv, OrganizerTrue, AdminTrue, NEW n \in CallIds, OrganizerCall(n), UNCHANGED adm
    PROVE  OrganizerTrue' /\ AdminTrue'
  <1>0. CallsFit /\ OrganizerTyped /\ DetailsTrue /\ FormsAtHome /\ calls[n] \in Call
    BY DEF TypeInv, NetworkTyped, OrganizerTrue, CallsFit, Fitting
  <1>1. UNCHANGED server /\ UNCHANGED doubt /\ calls[n].stage # "sent" /\ calls[n].op \in OrgOps
    BY DEF OrganizerCall, OptionsAnswered, FormAnswered, UploadAnswered, EventCreated,
           EventUpdated, Saved, SaveFailed, DetailsAnswered, ActAnswered, ActFailed, Settling,
           OrgOps, FormOps, DetailsOps
  <1>2. CASE UploadAnswered(n)
    <2>1. /\ Alone(n) /\ calls'[n] = [calls[n] EXCEPT !.op = Saving(calls[n].about), !.stage = "sent"]
          /\ calls[n].op = "upload" /\ UNCHANGED org
      BY <1>0, <1>2 DEF UploadAnswered, CallsFit, Alone, organizer
    <2>2. calls'[n].op \in {"create", "update"}
      BY <1>0, <2>1, CallIs DEF Saving
    <2>3. Apart(AdmOps) /\ Apart(DetailsOps)
      BY <1>1, <2>1, <2>2, ApartOne, OpsAre DEF OrgOps, FormOps
    <2>4. FormsAtHome'
      BY <1>0, <2>1, <2>2 DEF FormsAtHome, Alone
    <2> QED BY <1>0, <1>1, <2>1, <2>3, <2>4, AdminKept, DetailsKept DEF server, OrganizerTrue
  <1>3. ASSUME Settle(n), org'.at = org.at, org'.event = org.event,
               \/ calls[n].op = "form" /\ calls[n].live
               \/ /\ org'.found = org.found /\ org'.shown = org.shown
                  /\ n \notin Answered("details")
               \/ n \in Answered("details") /\ org'.shown = Row_(n)
        PROVE  OrganizerTrue' /\ AdminTrue'
    <2>1. Alone(n) /\ ~calls'[n].live /\ calls'[n].op = "none"
      BY <1>0, <1>3, SettledTo
    <2>2. Apart(AdmOps)
      BY <1>1, <2>1, ApartOne, OpsAre
    <2>3. AdminTrue'
      BY <1>1, <2>2, AdminKept DEF server
    <2>4. FormsAtHome'
      BY <1>0, <1>3, <2>1 DEF FormsAtHome, Alone
    <2>5. n \notin Listening("details")' /\ n \notin Answered("details")'
      BY <2>1 DEF Listening, Answered
    <2>6. calls[n].op = "form" /\ calls[n].live => org'.at = "edit"
      BY <1>0, <1>3 DEF FormsAtHome
    <2>7. calls[n].op = "form" => n \notin Answered("details")
      BY CopyIs DEF Answered, Listening, DetailsOps
    <2>8. "details" \notin doubt /\ n \in Answered("details") => Row_(n) = events[org.event]
      BY <1>0 DEF DetailsTrue
    <2>9. DetailsTrue'
      BY <1>0, <1>1, <1>3, <2>1, <2>5, <2>6, <2>7, <2>8, DetailsStep DEF server
    <2> QED BY <2>3, <2>4, <2>9 DEF OrganizerTrue
  <1>4. calls[n].live /\ calls[n].op \in DetailsOps /\ calls[n].stage = "answered" =>
           n \in Answered("details")
    BY CopyIs DEF Answered, Listening
  <1>5. calls[n].op \notin DetailsOps \/ calls[n].stage # "answered" => n \notin Answered("details")
    BY CopyIs DEF Answered, Listening
  <1>6. CASE OptionsAnswered(n)
    <2>1. /\ org'.at = org.at /\ org'.event = org.event /\ org'.found = org.found
          /\ org'.shown = org.shown
      BY <1>0, <1>6 DEF OptionsAnswered, OrganizerTyped, Org
    <2> QED BY <1>3, <1>5, <1>6, <2>1 DEF OptionsAnswered, Settling, DetailsOps
  <1>7. CASE FormAnswered(n)
    <2>1. /\ org'.at = org.at /\ org'.event = org.event
      BY <1>0, <1>7 DEF FormAnswered, OrganizerTyped, Org
    <2> QED BY <1>3, <1>7, <2>1 DEF FormAnswered, Settling
  <1>8. CASE EventCreated(n) \/ EventUpdated(n) \/ SaveFailed(n)
    <2>1. /\ org'.at = org.at /\ org'.event = org.event /\ org'.found = org.found
          /\ org'.shown = org.shown
      BY <1>0, <1>8 DEF EventCreated, EventUpdated, Saved, SaveFailed, OrganizerTyped, Org
    <2>2. Settle(n) /\ calls[n].op \in {"upload", "create", "update"}
      BY <1>8 DEF EventCreated, EventUpdated, Saved, SaveFailed, Settling
    <2> QED BY <1>3, <1>5, <2>1, <2>2 DEF DetailsOps
  <1>9. CASE DetailsAnswered(n) /\ Settling(n, "details", "answered")
    <2>1. /\ org'.at = org.at /\ org'.event = org.event
          /\ org'.shown = RowIn(calls[n].reply, calls[n].about)
      BY <1>0, <1>9 DEF DetailsAnswered, Settling, OrganizerTyped, Org
    <2> QED BY <1>3, <1>4, <1>9, <2>1 DEF DetailsAnswered, Settling, DetailsOps, Row_
  <1>10. CASE DetailsAnswered(n) /\ Settling(n, "details", "failed")
    <2>1. /\ org'.at = org.at /\ org'.event = org.event /\ org'.found = org.found
          /\ org'.shown = org.shown
      BY <1>0, <1>10 DEF DetailsAnswered, Settling, OrganizerTyped, Org
    <2> QED BY <1>3, <1>5, <1>10, <2>1 DEF DetailsAnswered, Settling
  <1>11. CASE ActAnswered(n)
    <2>1. /\ org'.at = org.at /\ org'.event = org.event
          /\ org'.shown = RowIn(calls[n].reply, calls[n].about)
      BY <1>0, <1>11 DEF ActAnswered, OrganizerTyped, Org
    <2> QED BY <1>3, <1>4, <1>11, <2>1 DEF ActAnswered, Settling, DetailsOps, Row_
  <1>12. CASE ActFailed(n)
    <2>1. /\ org'.at = org.at /\ org'.event = org.event /\ org'.found = org.found
          /\ org'.shown = org.shown
      BY <1>0, <1>12 DEF ActFailed, OrganizerTyped, Org
    <2> QED BY <1>3, <1>5, <1>12, <2>1 DEF ActFailed, Settling
  <1>13. DetailsAnswered(n) => Settling(n, "details", "answered") \/ Settling(n, "details", "failed")
    BY DEF DetailsAnswered
  <1> QED BY <1>2, <1>6, <1>7, <1>8, <1>9, <1>10, <1>11, <1>12, <1>13 DEF OrganizerCall

(* The admin. *)
LEMMA TruthOfAdmin ==
    ASSUME TypeInv, RowsExist, OrganizerTrue, AdminTrue, Admin \/ AnotherAdmin
    PROVE  OrganizerTrue' /\ AdminTrue'
  <1>0. /\ CallsFit /\ AdminTyped /\ ReviewTrue /\ OneReview /\ UserTrue /\ ListTrue
        /\ UsersAtHome /\ AllSound
    BY DEF TypeInv, NetworkTyped, AdminTrue, RowsExist
  <1>1. UNCHANGED <<events, work, names, org>> /\ doubt \subseteq doubt'
        /\ doubt' \subseteq doubt \cup {"review", "list", "user"}
    BY DEF Admin, OpenReview, OpenCategories, AdmGoToDashboard, CloseCategoryModal,
           ConfirmDelete, OpenUser, OpenConfirm, CloseConfirm, OnConfirmAction, RunAction,
           OpenCategoryModal, SubmitCategory, AdmEnter, AnotherAdmin, organizer, pages, server
  <1>2. ASSUME Apart(OrgOps) PROVE OrganizerTrue'
    BY <1>1, <1>2, OrganizerKept
  <1>3. CASE AnotherAdmin
    <2>1. UNCHANGED <<adm, calls>> /\ doubt' = doubt \cup {"user"}
      BY <1>3 DEF AnotherAdmin, pages
    <2>2. \A ops : Apart(ops)
      BY <2>1 DEF Apart
    <2>3. ReviewTrue' /\ OneReview' /\ UsersAtHome' /\ ListTrue'
      BY <1>0, <1>1, <2>1, <2>2, ReviewKept, UsersKept, ListKept
    <2>4. UserTrue'
      BY <2>1 DEF UserTrue
    <2> QED BY <1>2, <2>2, <2>3, <2>4 DEF AdminTrue
  <1>4. CASE AdmGoToDashboard
    <2>1. /\ \A n \in CallIds : calls'[n].op \in AdmOps => ~calls'[n].live
          /\ Apart(OrgOps)
      BY <1>0, <1>4, ApartAbandoned, OpsAre DEF AdmGoToDashboard, AdmOps
    <2>2. adm'.at = "dashboard"
      BY <1>4 DEF AdmGoToDashboard, AdmMounted
    <2>3. Listening("review")' = {} /\ Listening("list")' = {} /\ Listening("user")' = {}
      BY <2>1, CopyIs DEF Listening, AdmOps
    <2> QED BY <1>2, <2>1, <2>2, <2>3
            DEF AdminTrue, ReviewTrue, OneReview, UserTrue, UsersAtHome, ListTrue, Answered
  <1>5. CASE CloseCategoryModal \/ OpenConfirm \/ CloseConfirm
             \/ \E modal \in {"add", "rename", "delete"}, c \in Categories \cup {None} :
                   OpenCategoryModal(modal, c)
    <2>1. PICK modal, c : \/ adm' = [adm EXCEPT !.modal = modal]
                          \/ adm' = [adm EXCEPT !.modal = modal, !.target = c]
      BY <1>5 DEF CloseCategoryModal, OpenConfirm, CloseConfirm, OpenCategoryModal
    <2>2. /\ adm'.at = adm.at /\ adm'.event = adm.event /\ adm'.found = adm.found
          /\ adm'.shown = adm.shown /\ adm'.busy = adm.busy /\ adm'.list = adm.list
          /\ adm'.account = adm.account
      BY <1>0, <2>1 DEF AdminTyped, Adm
    <2>3. UNCHANGED <<calls, account, doubt>>
      BY <1>5 DEF CloseCategoryModal, OpenConfirm, CloseConfirm, OpenCategoryModal, network, server
    <2>4. \A ops : Apart(ops)
      BY <2>3 DEF Apart
    <2> QED BY <1>0, <1>1, <1>2, <2>2, <2>3, <2>4, ReviewKept, UserKept, UsersKept,
           ListKept DEF AdminTrue
  <1>6. ASSUME NEW op \in Op, NEW about \in About, NEW filter \in Filter, Send(op, about, filter)
        PROVE  \A ops : op \notin ops /\ "none" \notin ops => Apart(ops)
    BY <1>0, <1>6, ApartSent
  (* A page is mounted. *)
  <1>7. ASSUME NEW at \in {"review", "categories", "user"},
               NEW op \in {"pending", "categories", "user"}, NEW e \in Events \cup {None},
               AdmEnter(at, op, e),
               at = "review" => op = "pending" /\ "review" \in doubt',
               at = "categories" => op = "categories" /\ "list" \in doubt',
               at = "user" => op = "user" /\ "user" \in doubt'
        PROVE  OrganizerTrue' /\ AdminTrue'
    <2>1. /\ adm.at = "dashboard" /\ adm'.at = at /\ ~adm'.found /\ Send(op, e, None)
          /\ UNCHANGED account
      BY <1>7 DEF AdmEnter, AdmMounted, server
    <2>2. op \in Op /\ e \in About /\ None \in Filter
      BY DEF Op, About, Subject, Filter
    <2>3. op \notin OrgOps /\ (op = "pending" <=> op \in ReviewOps)
          /\ (op = "categories" <=> op \in CategoryOps) /\ (op = "user" <=> op \in UserOps)
          /\ "none" \notin OrgOps \cup ReviewOps \cup CategoryOps \cup UserOps
      BY DEF OrgOps, FormOps, DetailsOps, ReviewOps, CategoryOps, Loads, UserOps
    <2>4. /\ Apart(OrgOps) /\ (at # "review" => Apart(ReviewOps))
          /\ (at # "categories" => Apart(CategoryOps)) /\ (at # "user" => Apart(UserOps))
      BY <1>6, <1>7, <2>1, <2>2, <2>3
    <2>5. Listening("review") = {}
      BY <1>0, <2>1 DEF OneReview
    <2>6. PICK n \in CallIds :
             /\ Alone(n) /\ calls[n].op = "none" /\ calls'[n].op = op
             /\ calls'[n].stage = "sent"
      BY <1>0, <2>1, <2>2, SentIs DEF Alone
    <2>7. Listening("review")' \subseteq {n} /\ Answered("review")' = {}
          /\ (at # "review" => Listening("review")' = {})
      BY <2>3, <2>5, <2>6, <1>7, CopyIs DEF Listening, Answered, Alone
    <2>8. OneReview'
      BY <1>7, <2>1, <2>6, <2>7 DEF OneReview
    <2>9. ReviewTrue'
      BY <1>7, <2>1, <2>7 DEF ReviewTrue
    <2>10. UserTrue'
      BY <1>0, <1>1, <1>7, <2>1, <2>4, UserKept DEF UserTrue
    <2>11. ListTrue'
      BY <1>0, <1>1, <1>7, <2>1, <2>4, ListKept DEF ListTrue
    <2>12. UsersAtHome'
      BY <1>0, <1>7, <2>1, <2>4, UsersKept DEF UsersAtHome
    <2> QED BY <1>2, <2>4, <2>8, <2>9, <2>10, <2>11, <2>12 DEF AdminTrue
  <1>8. CASE (\E e \in Events : OpenReview(e)) \/ OpenCategories \/ OpenUser
    BY <1>7, <1>8 DEF OpenReview, OpenCategories, OpenUser
  (* A request of the page that is mounted. *)
  <1>9. {"approve", "reject", "changes", "add", "rename", "delete", "suspend", "activate"} \subseteq Op
        /\ Events \cup Categories \cup {None} \subseteq About
        /\ None \in Filter /\ Names \subseteq Filter
    BY DEF Op, About, Subject, Filter
  <1>10. CASE \E op \in {"approve", "reject", "changes"} : RunAction(op)
    <2>1. PICK op \in {"approve", "reject", "changes"} : RunAction(op)
      BY <1>10
    <2>2. /\ adm.at = "review" /\ adm.found /\ ~adm.busy /\ adm' = [adm EXCEPT !.busy = TRUE]
          /\ Send(op, adm.event, None) /\ UNCHANGED <<account, doubt>>
      BY <2>1 DEF RunAction, server
    <2>3. /\ adm'.at = adm.at /\ adm'.event = adm.event /\ adm'.found = adm.found
          /\ adm'.shown = adm.shown /\ adm'.busy /\ adm'.list = adm.list
          /\ adm'.account = adm.account /\ adm.event \in About
      BY <1>0, <1>9, <2>2 DEF AdminTyped, Adm
    <2>4. Listening("review") = {}
      BY <1>0, <2>2 DEF OneReview
    <2>5. op \notin OrgOps \cup CategoryOps \cup UserOps
      BY DEF OrgOps, FormOps, DetailsOps, CategoryOps, Loads, UserOps
    <2>6. Apart(OrgOps) /\ Apart(CategoryOps) /\ Apart(UserOps)
      BY <1>6, <1>9, <2>2, <2>3, <2>5, OpsAre DEF AdmOps
    <2>7. PICK n \in CallIds :
             /\ Alone(n) /\ calls[n].op = "none" /\ calls'[n].op = op
             /\ calls'[n].about = adm.event /\ calls'[n].stage = "sent"
      BY <1>0, <1>9, <2>2, <2>3, SentIs DEF Alone
    <2>8. Listening("review")' \subseteq {n} /\ Answered("review")' = {}
      BY <2>4, <2>7 DEF Listening, Answered, Alone
    <2>9. OneReview'
      BY <2>2, <2>3, <2>7, <2>8 DEF OneReview
    <2>10. n \notin Listening("review") /\ n \notin Answered("review") /\ ~work[n].begun
      BY <1>0, <2>4, <2>7 DEF Answered, AllSound, Sound, EventOps
    <2>11. n \notin Answered("review")' /\ ~work'[n].begun
      BY <1>1, <2>8, <2>10
    <2>12. ReviewTrue'
      BY <1>0, <1>1, <2>2, <2>3, <2>4, <2>7, <2>10, <2>11, ReviewStep DEF Answered
    <2> QED BY <1>0, <1>1, <1>2, <2>2, <2>3, <2>6, <2>9, <2>12, UserKept, UsersKept, ListKept
        DEF AdminTrue
  <1>11. ASSUME NEW op \in {"add", "rename", "delete"}, NEW about \in About,
                NEW filter \in Filter, Send(op, about, filter), UNCHANGED <<account, doubt>>,
                adm' = [adm EXCEPT !.saving = TRUE] \/ adm' = [adm EXCEPT !.deleting = TRUE]
         PROVE  OrganizerTrue' /\ AdminTrue'
    <2>1. /\ adm'.at = adm.at /\ adm'.event = adm.event /\ adm'.found = adm.found
          /\ adm'.shown = adm.shown /\ adm'.busy = adm.busy /\ adm'.list = adm.list
          /\ adm'.account = adm.account
      BY <1>0, <1>11 DEF AdminTyped, Adm
    <2>2. op \in Op /\ op \notin OrgOps \cup ReviewOps \cup UserOps
      BY <1>9 DEF OrgOps, FormOps, DetailsOps, ReviewOps, UserOps
    <2>3. Apart(OrgOps) /\ Apart(ReviewOps) /\ Apart(UserOps)
      BY <1>6, <1>11, <2>2, OpsAre DEF AdmOps
    <2>4. PICK n \in CallIds :
             /\ Alone(n) /\ calls[n].op = "none" /\ calls'[n].stage = "sent"
      BY <1>0, <1>11, <2>2, SentIs DEF Alone
    <2>5. n \notin Listening("list") /\ n \notin Answered("list")'
      BY <2>4, CopyIs DEF Listening, Answered, CategoryOps, Loads
    <2>6. ListTrue'
      BY <1>0, <1>1, <1>11, <2>1, <2>4, <2>5, ListStep
    <2>7. ReviewTrue' /\ OneReview'
      BY <1>0, <1>1, <1>11, <2>1, <2>3, ReviewKept
    <2> QED BY <1>0, <1>1, <1>2, <1>11, <2>1, <2>3, <2>6, <2>7, UserKept, UsersKept
        DEF AdminTrue
  <1>12. CASE ConfirmDelete \/ \E name \in Names : SubmitCategory(name)
    <2>1. adm.target \in About
      BY <1>0, <1>9 DEF AdminTyped, Adm
    <2>2. CASE ConfirmDelete
      BY <1>9, <1>11, <2>1, <2>2 DEF ConfirmDelete, server
    <2>3. ASSUME NEW name \in Names, SubmitCategory(name) PROVE OrganizerTrue' /\ AdminTrue'
      BY <1>9, <1>11, <2>1, <2>3 DEF SubmitCategory, server
    <2> QED BY <1>12, <2>2, <2>3
  <1>13. CASE OnConfirmAction
    <2>1. PICK op \in {"suspend", "activate"} : Send(op, None, None)
      BY <1>13 DEF OnConfirmAction
    <2>2. /\ adm.at = "user" /\ adm' = [adm EXCEPT !.busy = TRUE] /\ UNCHANGED <<account, doubt>>
      BY <1>13 DEF OnConfirmAction, OnUser, server
    <2>3. /\ adm'.at = "user" /\ adm'.found = adm.found /\ adm'.account = adm.account
      BY <1>0, <2>2 DEF AdminTyped, Adm
    <2>4. op \notin OrgOps \cup ReviewOps \cup CategoryOps
      BY DEF OrgOps, FormOps, DetailsOps, ReviewOps, CategoryOps, Loads
    <2>5. Apart(OrgOps) /\ Apart(ReviewOps) /\ Apart(CategoryOps)
      BY <1>6, <1>9, <2>1, <2>4, OpsAre DEF AdmOps
    <2>6. PICK n \in CallIds :
             /\ Alone(n) /\ calls[n].op = "none" /\ calls'[n].stage = "sent"
      BY <1>0, <1>9, <2>1, SentIs DEF Alone
    <2>7. n \notin Listening("user") /\ n \notin Answered("user") /\ n \notin Answered("user")'
      BY <2>6, CopyIs DEF Listening, Answered, UserOps
    <2>8. UserTrue'
      BY <1>0, <1>1, <2>2, <2>3, <2>6, <2>7, UserStep
    <2>9. Listening("review") = {}
      BY <1>0, <2>2 DEF OneReview
    <2>10. Listening("review")' = {}
      BY <2>5, <2>9, CopyIs DEF Apart, Listening
    <2>11. ReviewTrue' /\ OneReview'
      BY <2>3, <2>10 DEF ReviewTrue, OneReview, Answered
    <2>12. ListTrue'
      BY <1>0, <1>1, <2>2, <2>3, <2>5, ListKept
    <2> QED BY <1>2, <2>3, <2>5, <2>8, <2>11, <2>12 DEF AdminTrue, UsersAtHome
  <1> QED BY <1>3, <1>4, <1>5, <1>8, <1>10, <1>12, <1>13 DEF Admin

LEMMA TruthOfAdminCalls ==
    ASSUME TypeInv, OrganizerTrue, AdminTrue, NEW n \in CallIds, AdminCall(n)
    PROVE  OrganizerTrue' /\ AdminTrue'
  <1>0. /\ CallsFit /\ AdminTyped /\ ReviewTrue /\ OneReview /\ UserTrue /\ ListTrue
        /\ UsersAtHome
    BY DEF TypeInv, NetworkTyped, AdminTrue
  <1>1. UNCHANGED <<events, work, names, account, org, doubt>>
    BY DEF AdminCall, PendingAnswered, RunActionSettled, CategoryChanged, CategoryChangeFailed,
           CategoriesLoaded, UserAnswered, ConfirmSettled, organizer, server
  <1>2. calls[n].live /\ calls[n].op \in AdmOps
    BY DEF AdminCall, PendingAnswered, RunActionSettled, CategoryChanged, CategoryChangeFailed,
           CategoriesLoaded, UserAnswered, ConfirmSettled, Settling, AdmOps, ReviewOps,
           CategoryOps, Loads, UserOps
  <1>3. ASSUME Settle(n)
        PROVE  /\ Alone(n) /\ ~calls'[n].live /\ calls'[n].op = "none"
               /\ \A ops : calls[n].op \notin ops /\ "none" \notin ops => Apart(ops)
               /\ OrganizerTrue'
    <2>1. Alone(n) /\ ~calls'[n].live /\ calls'[n].op = "none"
      BY <1>0, <1>3, SettledTo
    <2>2. \A ops : calls[n].op \notin ops /\ "none" \notin ops => Apart(ops)
      BY <2>1, ApartOne
    <2>3. Apart(OrgOps)
      BY <1>2, <2>2, OpsAre
    <2> QED BY <1>1, <2>1, <2>2, <2>3, OrganizerKept
  (* The review. *)
  <1>4. ASSUME Settle(n), calls[n].op \in ReviewOps, adm'.at = adm.at, adm'.event = adm.event,
               \/ n \in Answered("review") /\ adm'.shown = Learned(n)
               \/ /\ n \notin Answered("review")
                  /\ adm'.shown = adm.shown /\ adm'.found = adm.found
        PROVE  OrganizerTrue' /\ AdminTrue'
    <2>1. n \in Listening("review")
      BY <1>2, <1>4, CopyIs DEF Listening
    <2>2. adm.at = "review" /\ \A m \in Listening("review") : m = n
      BY <1>0, <2>1 DEF OneReview
    <2>3. Listening("review")' = {}
      BY <1>3, <1>4, <2>2 DEF Listening, Alone
    <2>4. OneReview'
      BY <2>3 DEF OneReview
    <2>5. "review" \notin doubt /\ n \in Answered("review") => Learned(n) = events[adm.event]
      BY <1>0 DEF ReviewTrue
    <2>6. n \notin Answered("review") => Answered("review") = {}
      BY <2>2 DEF Answered
    <2>7. "review" \notin doubt /\ adm'.at = "review" /\ adm'.found =>
             adm'.shown = events[adm.event]
      BY <1>0, <1>4, <2>5, <2>6 DEF ReviewTrue
    <2>8. ReviewTrue'
      BY <1>1, <1>4, <2>3, <2>7 DEF ReviewTrue, Answered
    <2>9. Apart(UserOps) /\ Apart(CategoryOps)
      BY <1>3, <1>4, OpsAre DEF AdmOps
    <2> QED BY <1>0, <1>1, <1>3, <1>4, <2>2, <2>4, <2>8, <2>9, UserKept, UsersKept, ListKept
            DEF AdminTrue
  <1>5. ASSUME calls[n].op \in ReviewOps
        PROVE  calls[n].stage = "answered" <=> n \in Answered("review")
    BY <1>2, <1>5, CopyIs DEF Answered, Listening
  <1>6. CASE PendingAnswered(n) \/ RunActionSettled(n)
    <2>1. Settle(n) /\ calls[n].op \in ReviewOps
      BY <1>6 DEF PendingAnswered, RunActionSettled, Settling, ReviewOps
    <2>2. \/ /\ calls[n].stage = "answered"
             /\ adm'.at = adm.at /\ adm'.event = adm.event /\ adm'.shown = Learned(n)
          \/ /\ calls[n].stage # "answered"
             /\ adm'.at = adm.at /\ adm'.event = adm.event /\ adm'.shown = adm.shown
             /\ adm'.found = adm.found
      <3>1. CASE PendingAnswered(n)
        BY <1>0, <3>1 DEF PendingAnswered, Settling, AdminTyped, Adm, Row_, Learned
      <3>2. CASE RunActionSettled(n)
        BY <1>0, <3>2 DEF RunActionSettled, Settling, AdminTyped, Adm, Row_, Learned
      <3> QED BY <1>6, <3>1, <3>2
    <2> QED BY <1>4, <1>5, <2>1, <2>2
  (* The categories. *)
  <1>7. ASSUME adm'.at = adm.at, adm'.event = adm.event, adm'.found = adm.found,
               adm'.shown = adm.shown, adm'.busy = adm.busy, adm'.account = adm.account,
               Apart(ReviewOps), Apart(UserOps), OrganizerTrue', ListTrue'
        PROVE  OrganizerTrue' /\ AdminTrue'
    BY <1>0, <1>1, <1>7, ReviewKept, UserKept, UsersKept DEF AdminTrue
  <1>8. CASE CategoryChanged(n)
    <2>1. /\ calls[n].op \in {"add", "rename", "delete"} /\ calls[n].stage = "answered"
          /\ adm' = [adm EXCEPT !.modal = "none", !.target = None]
      BY <1>8 DEF CategoryChanged, Settling
    <2>2. PICK reload \in {"after_save", "after_delete"} :
             calls' = [calls EXCEPT ![n] = NewCall(reload, None, None)]
      BY <1>8 DEF CategoryChanged
    <2>3. /\ calls'[n].op = reload /\ calls'[n].stage = "sent" /\ calls'[n].live /\ Alone(n)
      BY <1>0, <2>2, NewIs DEF Op, About, Filter, CallsFit, Alone
    <2>4. /\ adm'.at = adm.at /\ adm'.event = adm.event /\ adm'.found = adm.found
          /\ adm'.shown = adm.shown /\ adm'.busy = adm.busy /\ adm'.account = adm.account
      BY <1>0, <2>1 DEF AdminTyped, Adm
    <2>5. {calls[n].op, calls'[n].op} \cap (OrgOps \cup ReviewOps \cup UserOps) = {}
      BY <2>1, <2>3 DEF OrgOps, FormOps, DetailsOps, ReviewOps, UserOps
    <2>6. Apart(OrgOps) /\ Apart(ReviewOps) /\ Apart(UserOps)
      BY <2>3, <2>5, ApartOne
    <2>7. n \in Listening("list")' /\ Reloads(calls'[n]) /\ n \notin Answered("list")'
      BY <2>3, CopyIs DEF Listening, Answered, Reloads, CategoryOps, Loads
    <2>8. ListTrue'
      BY <1>0, <1>1, <2>3, <2>7, ListStep
    <2>9. OrganizerTrue'
      BY <1>1, <2>6, OrganizerKept
    <2> QED BY <1>7, <2>4, <2>6, <2>8, <2>9
  <1>9. ASSUME Settle(n), calls[n].op \in CategoryOps,
               adm'.at = adm.at, adm'.event = adm.event, adm'.found = adm.found,
               adm'.shown = adm.shown, adm'.busy = adm.busy, adm'.account = adm.account,
               \/ calls[n].stage = "answered" /\ calls[n].op \in Loads /\ adm'.list = Listed(n)
               \/ calls[n].stage \in {"failed", "refused"} /\ adm'.list = adm.list
        PROVE  OrganizerTrue' /\ AdminTrue'
    <2>1. Apart(ReviewOps) /\ Apart(UserOps)
      BY <1>3, <1>9, OpsAre DEF AdmOps
    <2>2. n \notin Listening("list")' /\ n \notin Answered("list")'
      BY <1>3, <1>9 DEF Listening, Answered
    <2>3. /\ calls[n].stage = "answered" => n \in Answered("list")
          /\ calls[n].stage \in {"failed", "refused"} => ~Reloads(calls[n])
      BY <1>2, <1>9, CopyIs DEF Listening, Answered, Reloads
    <2>4. "list" \notin doubt /\ n \in Answered("list") /\ calls[n].op \in Loads =>
             Listed(n) = Current
      BY <1>0 DEF ListTrue
    <2>5. Current' = Current
      BY <1>1 DEF Current, Existing
    <2>6. "list" \notin doubt /\ calls[n].stage = "answered" => adm'.list = Current'
      BY <1>9, <2>3, <2>4, <2>5
    <2>7. ListTrue'
      BY <1>0, <1>1, <1>3, <1>9, <2>2, <2>3, <2>6, ListStep
    <2> QED BY <1>3, <1>7, <1>9, <2>1, <2>7
  <1>10. CASE CategoryChangeFailed(n)
    <2>1. /\ Settle(n) /\ calls[n].op \in CategoryOps /\ calls[n].stage \in {"failed", "refused"}
          /\ adm' = [adm EXCEPT !.deleting = FALSE] \/ adm' = [adm EXCEPT !.saving = FALSE]
      BY <1>10 DEF CategoryChangeFailed, Settling, CategoryOps
    <2>2. /\ adm'.at = adm.at /\ adm'.event = adm.event /\ adm'.found = adm.found
          /\ adm'.shown = adm.shown /\ adm'.busy = adm.busy /\ adm'.account = adm.account
          /\ adm'.list = adm.list
      BY <1>0, <2>1 DEF AdminTyped, Adm
    <2> QED BY <1>9, <2>1, <2>2
  <1>11. CASE CategoriesLoaded(n)
    <2>1. PICK op \in Loads, s \in {"answered", "failed"} :
             /\ Settling(n, op, s)
             /\ adm' = [adm EXCEPT !.loading = FALSE,
                                   !.list = IF s = "answered" THEN Listed(n) ELSE @,
                                   !.saving = @ /\ op # "after_save",
                                   !.deleting = @ /\ op # "after_delete"]
      BY <1>11 DEF CategoriesLoaded
    <2>2. /\ adm'.at = adm.at /\ adm'.event = adm.event /\ adm'.found = adm.found
          /\ adm'.shown = adm.shown /\ adm'.busy = adm.busy /\ adm'.account = adm.account
          /\ adm'.list = IF s = "answered" THEN Listed(n) ELSE adm.list
      BY <1>0, <2>1 DEF AdminTyped, Adm
    <2>3. Settle(n) /\ calls[n].op = op /\ calls[n].stage = s /\ calls[n].op \in CategoryOps
      BY <1>11, <2>1 DEF CategoriesLoaded, Settling, CategoryOps
    <2> QED BY <1>9, <2>1, <2>2, <2>3
  (* The user. *)
  <1>12. CASE UserAnswered(n) \/ ConfirmSettled(n)
    <2>1. Settle(n) /\ calls[n].op \in UserOps
      BY <1>12 DEF UserAnswered, ConfirmSettled, Settling, UserOps
    <2>2. n \in Listening("user") /\ adm.at = "user"
      BY <1>0, <1>2, <2>1, CopyIs DEF Listening, UsersAtHome
    <2>3. \/ /\ calls[n].stage = "answered"
             /\ adm'.at = adm.at /\ adm'.account = AccountIn(n)
          \/ /\ calls[n].stage # "answered"
             /\ adm'.at = adm.at /\ adm'.account = adm.account /\ adm'.found = adm.found
      <3>1. CASE UserAnswered(n)
        BY <1>0, <3>1 DEF UserAnswered, Settling, AdminTyped, Adm
      <3>2. CASE ConfirmSettled(n)
        BY <1>0, <3>2 DEF ConfirmSettled, Settling, AdminTyped, Adm
      <3> QED BY <1>12, <3>1, <3>2
    <2>4. n \notin Answered("user")' /\ n \notin Listening("user")'
      BY <1>3, <2>1 DEF Listening, Answered
    <2>5. calls[n].stage = "answered" <=> n \in Answered("user")
      BY <2>2 DEF Answered
    <2>6. "user" \notin doubt /\ n \in Answered("user") => AccountIn(n) = account
      BY <1>0 DEF UserTrue
    <2>7. UserTrue'
      BY <1>0, <1>1, <1>3, <2>1, <2>2, <2>3, <2>4, <2>5, <2>6, UserStep
    <2>8. Apart(ReviewOps) /\ Apart(CategoryOps)
      BY <1>3, <2>1, OpsAre DEF AdmOps
    <2>9. Listening("review") = {}
      BY <1>0, <2>2 DEF OneReview
    <2>10. Listening("review")' = {}
      BY <2>8, <2>9, CopyIs DEF Apart, Listening
    <2>11. ReviewTrue' /\ OneReview'
      BY <2>2, <2>3, <2>10 DEF ReviewTrue, OneReview, Answered
    <2>12. ListTrue'
      BY <1>0, <1>1, <2>2, <2>3, <2>8, ListKept
    <2> QED BY <1>3, <2>1, <2>2, <2>3, <2>7, <2>11, <2>12 DEF AdminTrue, UsersAtHome
  <1> QED BY <1>6, <1>8, <1>10, <1>11, <1>12 DEF AdminCall

-----------------------------------------------------------------------------
(* The server.  What a step of it does to the request n, whatever it is. *)
SameCall(n) ==
    /\ calls'[n].op = calls[n].op /\ calls'[n].about = calls[n].about
    /\ calls'[n].live = calls[n].live

Served(n) ==
    /\ UNCHANGED <<org, adm>> /\ Alone(n) /\ \A m \in CallIds \ {n} : work'[m] = work[m]
    /\ \/ ~calls[n].live /\ ~calls'[n].live
       \/ SameCall(n) /\ CopyOf(calls[n].op) \subseteq doubt'
       \/ /\ SameCall(n) /\ calls[n].stage = "sent"
          /\ calls[n].op \in Loads => calls'[n].stage \in {"sent", "answered"}

(* An answer says what the tables hold once it is given. *)
SaysSo(n) ==
    calls[n].live /\ calls'[n].stage = "answered" =>
        /\ calls[n].op \in DetailsOps \cup ReviewOps => Row_(n)' = events'[calls[n].about]
        /\ calls[n].op \in UserOps => AccountIn(n)' = account'
        /\ calls[n].op \in Loads => Listed(n)' = Current'

(* An answer that brings the review page up to date loses nothing in the merge. *)
Tells(n) ==
    "review" \in Renewed(n) /\ calls'[n].stage = "answered" /\ calls[n].op # "pending" =>
        Merged(adm.shown, events'[calls[n].about]) = events'[calls[n].about]

(* A page is out of doubt, or not in it after a change, by an answer only. *)
Renews(n, c) == c \in Renewed(n) /\ calls'[n].stage = "answered"
Doubted(n) ==
    /\ \A c \in doubt \ doubt' : Renews(n, c) \/ (c = "review" /\ c \in Renewed(n) /\ calls[n].op = "pending")
    /\ \A e \in There : events'[e] # events[e] => \A c \in Showing(e) \ doubt' : Renews(n, c)
    /\ account' # account /\ "user" \notin doubt' => Renews(n, "user")
    /\ names' # names /\ "list" \notin doubt' =>
          /\ n \in Listening("list") /\ ~ListComing(n)
          /\ calls'[n].stage = "answered" /\ calls[n].op \notin Loads

Approves(n) ==
    calls[n].op = "approve" /\ calls[n].live /\ work'[n].begun =>
        work'[n].row = Published(calls[n].about)'

LEMMA DetailsServed ==
    ASSUME TypeInv, RowsExist, DetailsTrue, NEW n \in CallIds, Served(n), SaysSo(n), Doubted(n)
    PROVE  DetailsTrue'
  <1>0. /\ UNCHANGED <<org, adm>> /\ Alone(n) /\ AllSound /\ PagesFound
        /\ \A m \in CallIds : Fits(calls[m])
    BY DEF Served, RowsExist, TypeInv, NetworkTyped, CallsFit, Fitting
  <1> SUFFICES ASSUME "details" \notin doubt' PROVE DetailsTrue'
    BY DEF DetailsTrue
  <1>1. n \in Listening("details") \/ n \in Listening("details")' =>
           /\ calls[n].live /\ calls[n].op \in DetailsOps /\ calls[n].stage = "sent"
           /\ SameCall(n) /\ n \in Listening("details") /\ n \in Listening("details")'
    BY CopyIs DEF Served, SameCall, Listening
  <1>2. n \notin Answered("details")
    BY <1>1 DEF Answered
  <1>3. n \in Answered("details")' => Row_(n)' = events'[calls[n].about]
    BY <1>1 DEF Answered, SaysSo
  <1>4. CASE Renews(n, "details")
    <2>1. /\ Listening("details") = {n} /\ org.event = calls[n].about
      BY <1>4 DEF Renews, Renewed, Showing
    <2>2. n \in Answered("details")' /\ calls'[n].about = org.event
      BY <1>1, <1>4, <2>1 DEF Renews, Answered, SameCall
    <2> QED BY <1>0, <1>3, <2>1, <2>2, DetailsStep
  <1>5. CASE "details" \notin doubt /\ org.event \notin There
    <2>1. \A m \in Listening("details") : calls[m].about \in There
      <3> SUFFICES ASSUME NEW m \in Listening("details") PROVE calls[m].about \in There
        OBVIOUS
      <3>1. m \in CallIds /\ calls[m].op \in RowOps
        BY CopyIs DEF Listening, DetailsOps, RowOps, EventOps
      <3> QED BY <1>0, <3>1, NoneIsNothing DEF AllSound, Sound, Fits
    <2>2. Listening("details") = {}
      BY <1>5, <2>1 DEF DetailsTrue
    <2>3. Listening("details")' = {}
      BY <1>0, <1>1, <2>2 DEF Listening, Alone
    <2>4. org'.at # "details"
      BY <1>0, <1>5 DEF PagesFound
    <2> QED BY <2>3, <2>4 DEF DetailsTrue, Answered
  <1>6. CASE "details" \notin doubt /\ events'[org.event] = events[org.event]
    <2>1. n \in Listening("details")' => calls'[n].about = org.event /\ calls[n].about = org.event
      BY <1>1, <1>6 DEF DetailsTrue, SameCall
    <2>2. n \in Answered("details")' => Row_(n)' = events'[org.event]
      BY <1>3, <2>1 DEF Answered
    <2> QED BY <1>0, <1>2, <1>6, <2>1, <2>2, DetailsStep
  <1>7. "details" \in doubt => Renews(n, "details")
    BY DEF Doubted
  <1>8. org.event \in There /\ events'[org.event] # events[org.event] => Renews(n, "details")
    BY DEF Doubted, Showing
  <1> QED BY <1>4, <1>5, <1>6, <1>7, <1>8

LEMMA ReviewServed ==
    ASSUME TypeInv, RowsExist, ReviewTrue, OneReview, NEW n \in CallIds, Served(n), SaysSo(n),
           Doubted(n), Approves(n), Tells(n)
    PROVE  ReviewTrue' /\ OneReview'
  <1>0. /\ UNCHANGED <<org, adm>> /\ Alone(n) /\ AllSound /\ PagesFound
        /\ \A m \in CallIds \ {n} : work'[m] = work[m]
    BY DEF Served, RowsExist
  <1>1. n \in Listening("review")' =>
           calls[n].live /\ calls[n].op \in ReviewOps /\ SameCall(n) /\ n \in Listening("review")
    BY CopyIs DEF Served, SameCall, Listening
  <1>2. \A m \in Listening("review")' : m \in Listening("review") /\ calls'[m].op = calls[m].op
    BY <1>0, <1>1 DEF Listening, Alone, SameCall
  <1>3. OneReview'
    BY <1>0, <1>2 DEF OneReview
  <1> SUFFICES ASSUME "review" \notin doubt' PROVE ReviewTrue'
    BY <1>3 DEF ReviewTrue
  <1>4. n \in Listening("review") => calls[n].stage = "sent" /\ SameCall(n) /\ n \in Listening("review")'
    BY CopyIs DEF Served, SameCall, Listening
  <1>5. n \notin Answered("review")
    BY <1>4 DEF Answered
  <1>6. n \in Answered("review")' => Row_(n)' = events'[calls[n].about]
    BY <1>1 DEF Answered, SaysSo
  <1>7. n \in Listening("review")' /\ calls'[n].op = "approve" /\ work'[n].begun =>
           work'[n].row = Published(calls[n].about)'
    BY <1>1 DEF Approves, SameCall
  <1>8. CASE "review" \in Renewed(n) /\ (calls'[n].stage = "answered" \/ calls[n].op = "pending")
    <2>1. Listening("review") = {n} /\ adm.event = calls[n].about
      BY <1>8 DEF Renewed, Showing
    <2>2. /\ n \in Listening("review")' /\ calls'[n].about = adm.event
          /\ calls'[n].stage = "answered" => n \in Answered("review")'
      BY <1>4, <2>1 DEF Answered, SameCall
    <2>3. calls[n].op = "pending" => ~adm'.found
      BY <1>0, <2>1 DEF OneReview
    <2>4. n \in Answered("review")' \/ ~adm'.found
      BY <1>8, <2>2, <2>3
    <2>5. n \in Answered("review")' => Learned(n)' = events'[adm.event]
      <3> SUFFICES ASSUME n \in Answered("review")' PROVE Learned(n)' = events'[adm.event]
        OBVIOUS
      <3>1. Row_(n)' = events'[adm.event] /\ calls'[n].op = calls[n].op
        BY <1>1, <1>6, <2>1, <2>2 DEF SameCall
      <3>2. calls[n].op # "pending" => Merged(adm.shown, events'[adm.event]) = events'[adm.event]
        BY <1>8, <2>1 DEF Tells, Answered
      <3> QED BY <1>0, <3>1, <3>2 DEF Learned
    <2>6. calls'[n].op = "approve" /\ work'[n].begun => work'[n].row = Published(adm.event)'
      <3>1. Published(calls[n].about)' = Published(adm.event)'
        BY <1>0, <2>1, <2>2 DEF Published, SameCall
      <3> QED BY <1>7, <2>2, <3>1
    <2> QED BY <1>0, <2>1, <2>2, <2>4, <2>5, <2>6, ReviewStep
  <1>9. CASE "review" \notin doubt /\ adm.event \notin There
    <2>1. adm.at # "review"
      BY <1>0, <1>9 DEF PagesFound
    <2>2. Listening("review")' = {}
      BY <1>2, <2>1 DEF OneReview
    <2> QED BY <1>0, <2>1, <2>2 DEF ReviewTrue, Answered
  <1>10. CASE "review" \notin doubt /\ events'[adm.event] = events[adm.event]
    <2>1. n \in Listening("review")' => calls'[n].about = adm.event /\ calls[n].about = adm.event
      BY <1>1, <1>10 DEF ReviewTrue, SameCall
    <2>2. n \in Answered("review")' => Learned(n)' = events'[adm.event]
      <3> SUFFICES ASSUME n \in Answered("review")' PROVE Learned(n)' = events'[adm.event]
        OBVIOUS
      <3>1. Row_(n)' = events[adm.event] /\ calls'[n].op = calls[n].op /\ n \in Listening("review")
        BY <1>1, <1>6, <1>10, <2>1 DEF Answered, SameCall
      <3>2. CASE calls[n].op = "pending"
        BY <1>10, <3>1, <3>2 DEF Learned
      <3>3. CASE calls[n].op # "pending"
        <4>1. adm.at = "review" /\ adm.found /\ Answered("review") = {}
          BY <1>5, <3>1, <3>3 DEF OneReview, Answered
        <4>2. adm.shown = events[adm.event] /\ adm.shown \in Row
          BY <1>10, <4>1 DEF ReviewTrue, TypeInv, AdminTyped, Adm
        <4>3. Learned(n)' = Merged(adm.shown, events[adm.event])
          BY <1>0, <3>1, <3>3 DEF Learned
        <4> QED BY <1>10, <4>2, <4>3, MergedWithItself
      <3> QED BY <3>2, <3>3
    <2>3. n \in Listening("review")' /\ calls'[n].op = "approve" /\ work'[n].begun =>
             work'[n].row = Published(adm.event)'
      BY <1>0, <1>7, <2>1 DEF Published
    <2> QED BY <1>0, <1>5, <1>10, <2>1, <2>2, <2>3, ReviewStep
  <1>11. "review" \in doubt =>
            "review" \in Renewed(n) /\ (calls'[n].stage = "answered" \/ calls[n].op = "pending")
    BY DEF Doubted, Renews
  <1>12. adm.event \in There /\ events'[adm.event] # events[adm.event] => Renews(n, "review")
    BY DEF Doubted, Showing
  <1> QED BY <1>8, <1>9, <1>10, <1>11, <1>12 DEF Renews

LEMMA UserServed ==
    ASSUME UserTrue, UsersAtHome, NEW n \in CallIds, Served(n), SaysSo(n), Doubted(n)
    PROVE  UserTrue' /\ UsersAtHome'
  <1>0. UNCHANGED <<org, adm>> /\ Alone(n)
    BY DEF Served
  <1>1. n \in Listening("user")' =>
           calls[n].live /\ calls[n].op \in UserOps /\ SameCall(n) /\ n \in Listening("user")
    BY CopyIs DEF Served, SameCall, Listening
  <1>2. \A m \in Listening("user")' : m \in Listening("user")
    BY <1>0, <1>1 DEF Listening, Alone
  <1>3. UsersAtHome'
    BY <1>0, <1>2 DEF UsersAtHome
  <1> SUFFICES ASSUME "user" \notin doubt' PROVE UserTrue'
    BY <1>3 DEF UserTrue
  <1>4. n \in Listening("user") => calls[n].stage = "sent" /\ SameCall(n) /\ n \in Listening("user")'
    BY CopyIs DEF Served, SameCall, Listening
  <1>5. n \notin Answered("user")
    BY <1>4 DEF Answered
  <1>6. n \in Answered("user")' => AccountIn(n)' = account'
    BY <1>1 DEF Answered, SaysSo
  <1>7. CASE Renews(n, "user")
    <2>1. Listening("user") = {n}
      BY <1>7 DEF Renews, Renewed
    <2>2. n \in Answered("user")'
      BY <1>4, <1>7, <2>1 DEF Renews, Answered
    <2> QED BY <1>0, <1>6, <2>1, <2>2, UserStep
  <1>8. CASE "user" \notin doubt /\ account' = account
    BY <1>0, <1>5, <1>6, <1>8, UserStep
  <1> QED BY <1>7, <1>8 DEF Doubted

LEMMA ListServed ==
    ASSUME ListTrue, NEW n \in CallIds, Served(n), SaysSo(n), Doubted(n)
    PROVE  ListTrue'
  <1>0. UNCHANGED <<org, adm>> /\ Alone(n)
    BY DEF Served
  <1> SUFFICES ASSUME "list" \notin doubt' PROVE ListTrue'
    BY DEF ListTrue
  <1>1. n \in Listening("list") \/ n \in Listening("list")' =>
           /\ calls[n].live /\ calls[n].op \in CategoryOps /\ calls[n].stage = "sent"
           /\ SameCall(n) /\ n \in Listening("list") /\ n \in Listening("list")'
           /\ calls[n].op \in Loads => calls'[n].stage \in {"sent", "answered"}
    BY CopyIs DEF Served, SameCall, Listening
  <1>2. n \in Answered("list")' /\ calls'[n].op \in Loads => Listed(n)' = Current'
    BY <1>1 DEF Answered, SaysSo, SameCall
  <1>3. CASE n \in Listening("list") /\ ~ListComing(n) /\ calls'[n].stage = "answered"
    <2>1. n \in Listening("list")' /\ Reloads(calls'[n])
      BY <1>1, <1>3 DEF SameCall, Reloads
    <2> QED BY <1>0, <1>2, <1>3, <2>1, ListStep
  <1>4. CASE "list" \notin doubt /\ names' = names
    <2>1. n \in Listening("list") /\ Reloads(calls[n]) =>
             n \in Listening("list")' /\ Reloads(calls'[n])
      BY <1>1 DEF Reloads, SameCall, Loads
    <2>2. CASE n \in Listening("list")' /\ Reloads(calls'[n])
      BY <1>0, <1>2, <1>4, <2>2, ListStep
    <2>3. CASE ~(n \in Listening("list") /\ Reloads(calls[n]))
      BY <1>0, <1>2, <1>4, <2>3, ListStep
    <2> QED BY <2>1, <2>2, <2>3
  <1>5. "list" \in doubt => n \in Listening("list") /\ ~ListComing(n) /\ calls'[n].stage = "answered"
    <2> SUFFICES ASSUME "list" \in doubt
                 PROVE  n \in Listening("list") /\ ~ListComing(n) /\ calls'[n].stage = "answered"
      OBVIOUS
    <2>1. "list" \in Renewed(n) /\ calls'[n].stage = "answered"
      BY DEF Doubted, Renews
    <2>2. n \in Listening("list") /\ (~ListComing(n) \/ Listening("list") = {n})
      BY <2>1 DEF Renewed
    <2> QED BY <2>1, <2>2 DEF ListComing
  <1> QED BY <1>3, <1>4, <1>5 DEF Doubted

(* What an answer carries is what the client reads out of it. *)
LEMMA RowBack ==
    ASSUME NEW row \in Row, NEW e \in Events
    PROVE  RowIn(RowReply(row, e), e) = row
  <1> DEFINE reply == RowReply(row, e)
  <1>1. {"in", "pictured"} \cap EventStatus = {} /\ row.status \in EventStatus
    BY DEF EventStatus, Row
  <1>2. \A s \in EventStatus : <<s, e>> \in reply <=> s = row.status
    BY <1>1 DEF RowReply
  <1>3. \A c \in Categories : <<"in", c>> \in reply <=> c = row.category
    BY <1>1, NoneIsNothing DEF RowReply
  <1>4. <<"pictured", e>> \in reply <=> row.picture
    BY <1>1 DEF RowReply
  <1> HIDE DEF reply
  <1>5. (CHOOSE s \in EventStatus : <<s, e>> \in reply) = row.status
    BY <1>1, <1>2
  <1>6. (IF \E c \in Categories : <<"in", c>> \in reply
         THEN CHOOSE c \in Categories : <<"in", c>> \in reply ELSE None) = row.category
    <2>1. CASE row.category \in Categories
      BY <1>3, <2>1
    <2>2. CASE row.category = None
      BY <1>3, <2>2, NoneIsNothing
    <2> QED BY <2>1, <2>2 DEF Row
  <1>7. (<<"pictured", e>> \in reply) = row.picture
    BY <1>4 DEF Row
  <1>8. RowIn(reply, e) = [status |-> row.status, category |-> row.category, picture |-> row.picture]
    BY <1>5, <1>6, <1>7 DEF RowIn
  <1> QED BY <1>8 DEF Row, reply

LEMMA ReplyIs ==
    ASSUME CallsFit, NEW n \in CallIds, NEW reply, Answer(n, reply)
    PROVE  calls'[n].reply = reply
  <1>1. calls'[n] = [calls[n] EXCEPT !.stage = "answered", !.reply = reply] /\ calls[n] \in Call
    BY DEF Answer, CallsFit, Fitting
  <1> QED BY <1>1, CallIs

LEMMA AnswerServes ==
    ASSUME CallsFit, NEW n \in CallIds, calls[n].stage = "sent", UNCHANGED <<org, adm>>,
           \A m \in CallIds \ {n} : work'[m] = work[m],
           (\E reply : Answer(n, reply)) \/ (Refuse(n) /\ calls[n].op \notin Loads)
    PROVE  /\ Served(n) /\ SameCall(n)
           /\ calls'[n].stage \in {"answered", "refused"}
  <1>1. CASE Refuse(n) /\ calls[n].op \notin Loads
    BY <1>1, RefusedIs DEF Served, SameCall, Alone
  <1>2. CASE \E reply : Answer(n, reply)
    <2>1. /\ Alone(n) /\ SameCall(n) /\ calls'[n].stage = "answered"
      BY <1>2, AnsweredIs DEF SameCall, Alone
    <2> QED BY <2>1 DEF Served
  <1> QED BY <1>1, <1>2

LEMMA RefusalServes ==
    ASSUME TypeInv, NEW n \in CallIds, calls[n].stage = "sent", calls[n].op \notin Loads, Refused(n)
    PROVE  Served(n) /\ SaysSo(n) /\ Doubted(n) /\ Approves(n)
  <1>0. CallsFit /\ ServerTyped
    BY DEF TypeInv, NetworkTyped
  <1>1. ~work'[n].begun /\ \A m \in CallIds \ {n} : work'[m] = work[m]
    BY <1>0, NothingBegun DEF Refused, Finish, ServerTyped
  <1>2. Served(n)
    BY <1>0, <1>1, AnswerServes DEF Refused, pages, organizer
  <1>3. calls'[n].stage = "refused"
    BY <1>0, RefusedIs DEF Refused
  <1>4. SaysSo(n)
    BY <1>3 DEF SaysSo
  <1>5. Doubted(n)
    BY DEF Refused, Doubted
  <1> QED BY <1>1, <1>2, <1>4, <1>5 DEF Approves

LEMMA RenewedIs == ASSUME NEW n PROVE Renewed(n) \subseteq CopyOf(calls[n].op)
  BY DEF Renewed

(* The events. *)
LEMMA EventServes ==
    ASSUME TypeInv, RowsExist, NEW n \in CallIds, ReadEvent(n) \/ UpdateEvent(n) \/ CreateEvent(n)
    PROVE  Served(n) /\ SaysSo(n) /\ Doubted(n) /\ Approves(n)
  <1>0. CallsFit /\ ServerTyped /\ Fits(calls[n]) /\ calls[n].stage = "sent"
    BY DEF TypeInv, NetworkTyped, CallsFit, Fitting, ReadEvent, UpdateEvent, CreateEvent, Waits,
           AtServer
  <1>1. calls[n].op \in EventOps \cup {"create"} /\ calls[n].op \notin Loads \cup UserOps
    BY DEF ReadEvent, UpdateEvent, CreateEvent, Waits, EventOps, Loads, UserOps
  <1>2. CASE Refused(n)
    BY <1>0, <1>1, <1>2, RefusalServes
  <1>3. CASE ReadEvent(n) /\ ~Refused(n)
    <2>1. /\ work' = [work EXCEPT ![n] = [begun |-> TRUE,
                row |-> Changed(calls[n].op, events[calls[n].about], calls[n].filter)]]
          /\ UNCHANGED <<names, account, calls, org, adm, events, doubt>>
      BY <1>3 DEF ReadEvent, Begin, network, pages, organizer
    <2>2. Served(n)
      BY <1>0, <2>1 DEF Served, SameCall, Alone, ServerTyped
    <2>3. SaysSo(n)
      BY <1>0, <2>1 DEF SaysSo
    <2>4. Doubted(n)
      BY <2>1 DEF Doubted
    <2>5. calls[n].op = "approve" => work'[n].row = Published(calls[n].about)
      BY <1>0, <2>1 DEF ServerTyped, Changed, Published
    <2>6. Published(calls[n].about)' = Published(calls[n].about)
      BY <2>1 DEF Published
    <2> QED BY <2>2, <2>3, <2>4, <2>5, <2>6 DEF Approves
  <1>4. CASE UpdateEvent(n) /\ ~Refused(n)
    <2> DEFINE e == calls[n].about
               row == work[n].row
    <2>1. /\ events' = [events EXCEPT ![e] = row] /\ Answer(n, RowReply(row, e)) /\ Finish(n)
          /\ doubt' = (doubt \cup Showing(e)) \ Renewed(n)
          /\ UNCHANGED <<names, account, pages>> /\ calls[n].op \in EventOps
      BY <1>4 DEF UpdateEvent
    <2>2. e \in Events /\ row \in Row
      BY <1>0, <2>1 DEF Fits, RowOps, ServerTyped, Work
    <2>3. ~work'[n].begun /\ \A m \in CallIds \ {n} : work'[m] = work[m]
      BY <1>0, <2>1, NothingBegun DEF Finish, ServerTyped
    <2>4. calls'[n].stage = "answered" /\ calls'[n].about = e /\ calls'[n].reply = RowReply(row, e)
      BY <1>0, <2>1, AnsweredIs, ReplyIs
    <2>5. events'[e] = row /\ \A x \in Events \ {e} : events'[x] = events[x]
      BY <1>0, <2>1, <2>2 DEF ServerTyped
    <2> HIDE DEF e, row
    <2>6. Served(n)
      BY <1>0, <2>1, <2>3, AnswerServes DEF pages, organizer
    <2>7. Row_(n)' = events'[e]
      BY <2>2, <2>4, <2>5, RowBack DEF Row_
    <2>8. SaysSo(n)
      BY <1>1, <2>7 DEF SaysSo, e
    <2>9. Doubted(n)
      <3>1. \A c \in doubt \ doubt' : Renews(n, c)
        BY <2>1, <2>4 DEF Renews
      <3>2. \A x \in There : events'[x] # events[x] => \A c \in Showing(x) \ doubt' : Renews(n, c)
        BY <2>1, <2>4, <2>5 DEF Renews, There
      <3> QED BY <2>1, <3>1, <3>2 DEF Doubted
    <2> QED BY <2>3, <2>6, <2>8, <2>9 DEF Approves
  <1>5. CASE CreateEvent(n) /\ ~Refused(n)
    <2>1. /\ Answer(n, {}) /\ UNCHANGED <<names, account, work, org, adm, doubt>>
          /\ calls[n].op = "create"
      BY <1>5 DEF CreateEvent, Waits
    <2>2. PICK e \in Events : events[e] = Absent /\ \E row : events' = [events EXCEPT ![e] = row]
      BY <1>5 DEF CreateEvent
    <2>3. \A x \in There : events'[x] = events[x]
      BY <1>0, <2>2 DEF There, Absent, ServerTyped
    <2>4. Served(n)
      BY <1>0, <2>1, AnswerServes
    <2>5. SaysSo(n)
      BY <2>1 DEF SaysSo, DetailsOps, ReviewOps, UserOps, Loads
    <2>6. Doubted(n)
      BY <2>1, <2>3 DEF Doubted
    <2> QED BY <2>1, <2>4, <2>5, <2>6 DEF Approves
  <1> QED BY <1>2, <1>3, <1>4, <1>5

(* The requests that only ask for events, and the uploads. *)
LEMMA PageServes ==
    ASSUME TypeInv, NEW n \in CallIds,
           UploadImage(n) \/ GetMine(n) \/ ListActive(n) \/ ListPending(n)
    PROVE  Served(n) /\ SaysSo(n) /\ Doubted(n) /\ Approves(n)
  <1>0. CallsFit /\ ServerTyped /\ Fits(calls[n]) /\ calls[n].stage = "sent"
    BY DEF TypeInv, NetworkTyped, CallsFit, Fitting, UploadImage, GetMine, ListActive,
           ListPending, Waits, AtServer
  <1>1. /\ UNCHANGED <<events, names, account, work, org, adm>>
        /\ calls[n].op \in {"upload", "details", "form", "options", "pending"}
        /\ \E reply : Answer(n, reply) \/ Refuse(n)
    BY DEF UploadImage, GetMine, ListActive, ListPending, Waits, server, pages, organizer
  <1>2. calls[n].op \notin Loads \cup UserOps
    BY <1>1 DEF Loads, UserOps
  <1>3. /\ Served(n) /\ SameCall(n) /\ calls'[n].stage \in {"answered", "refused"}
    BY <1>0, <1>1, <1>2, AnswerServes
  <1>4. Doubted(n)
    <2>1. CASE UploadImage(n) \/ ListActive(n)
      BY <1>1, <2>1 DEF UploadImage, ListActive, Doubted
    <2>2. CASE GetMine(n)
      <3>1. calls'[n].stage = "answered" /\ doubt' = doubt \ Renewed(n)
        BY <1>0, <2>2, AnsweredIs DEF GetMine
      <3> QED BY <1>1, <3>1 DEF Doubted, Renews
    <2>3. CASE ListPending(n)
      <3>1. calls[n].op = "pending" /\ doubt' = doubt \ Renewed(n)
        BY <2>3 DEF ListPending, Waits
      <3>2. CopyOf("pending") = {"review"}
        BY DEF CopyOf, DetailsOps, ReviewOps, CategoryOps, Loads, UserOps
      <3>3. Renewed(n) \subseteq CopyOf(calls[n].op)
        BY RenewedIs
      <3> QED BY <1>1, <3>1, <3>2, <3>3 DEF Doubted
    <2> QED BY <2>1, <2>2, <2>3
  <1>5. SaysSo(n)
    <2>1. SUFFICES ASSUME calls'[n].stage = "answered", calls[n].op \in DetailsOps \cup ReviewOps
                   PROVE  Row_(n)' = events'[calls[n].about]
      BY <1>2 DEF SaysSo
    <2>2. calls[n].op \in {"details", "pending"}
      BY <1>1, <2>1 DEF DetailsOps, ReviewOps
    <2>3. calls[n].about \in Events
      BY <1>0, <2>2 DEF Fits, RowOps
    <2>4. Answer(n, RowReply(events[calls[n].about], calls[n].about))
      <3>1. CASE GetMine(n)
        <4>1. calls[n].op # "form"
          BY <2>2
        <4>2. Answer(n, RowReply(events[calls[n].about], calls[n].about) \cup {})
          BY <3>1, <4>1 DEF GetMine
        <4>3. RowReply(events[calls[n].about], calls[n].about) \cup {} =
              RowReply(events[calls[n].about], calls[n].about)
          OBVIOUS
        <4> QED BY <4>2, <4>3
      <3>2. CASE ListPending(n)
        <4>1. ~Refuse(n)
          BY <1>0, <2>1, RefusedIs
        <4> QED BY <3>2, <4>1 DEF ListPending
      <3> QED BY <2>2, <3>1, <3>2 DEF UploadImage, ListActive, Waits
    <2>5. calls'[n].reply = RowReply(events[calls[n].about], calls[n].about)
      BY <1>0, <2>4, ReplyIs
    <2>6. Row_(n)' = events[calls[n].about]
      BY <1>0, <1>3, <2>3, <2>5, RowBack DEF Row_, SameCall, ServerTyped
    <2> QED BY <1>1, <2>6
  <1>6. Approves(n)
    BY <1>1 DEF Approves
  <1> QED BY <1>3, <1>4, <1>5, <1>6

(* The categories. *)
LEMMA CategoryServes ==
    ASSUME TypeInv, NEW n \in CallIds,
           ListAll(n) \/ AddCategory(n) \/ RenameCategory(n) \/ DetachEvents(n) \/ DeleteRow(n)
    PROVE  Served(n) /\ SaysSo(n) /\ Doubted(n) /\ Approves(n)
  <1>0. CallsFit /\ ServerTyped /\ Fits(calls[n]) /\ calls[n].stage = "sent"
    BY DEF TypeInv, NetworkTyped, CallsFit, Fitting, ListAll, AddCategory, RenameCategory,
           DetachEvents, DeleteRow, Waits, AtServer
  <1>1. calls[n].op \in Loads \cup {"add", "rename", "delete"}
    BY DEF ListAll, AddCategory, RenameCategory, DetachEvents, DeleteRow, Waits
  <1>2. calls[n].op \notin DetailsOps \cup ReviewOps \cup UserOps /\ Approves(n)
    BY <1>1 DEF Loads, DetailsOps, ReviewOps, UserOps, Approves
  <1>3. CASE Refused(n)
    <2>1. calls[n].op \notin Loads
      <3>1. ~ListAll(n)
        BY <1>0, <1>3, RefusedIs, AnsweredIs DEF ListAll, Refused
      <3> QED BY <3>1 DEF AddCategory, RenameCategory, DetachEvents, DeleteRow, Waits, Loads
    <2> QED BY <1>0, <1>3, <2>1, RefusalServes
  <1>4. CASE ListAll(n)
    <2> DEFINE reply == {r \in Names \X Categories : names[r[2]] = r[1]}
    <2>1. /\ Answer(n, reply) /\ doubt' = doubt \ Renewed(n)
          /\ UNCHANGED <<events, names, account, work, org, adm>> /\ calls[n].op \in Loads
      BY <1>4 DEF ListAll, Waits, server, pages, organizer
    <2>2. Served(n)
      BY <1>0, <2>1, AnswerServes
    <2>3. calls'[n].stage = "answered" /\ calls'[n].reply = reply
      BY <1>0, <2>1, AnsweredIs, ReplyIs
    <2>4. \A c \in Categories, name \in Names : <<name, c>> \in reply <=> names[c] = name
      OBVIOUS
    <2> HIDE DEF reply
    <2>5. \A c \in Categories :
             (IF \E name \in Names : <<name, c>> \in reply
              THEN CHOOSE name \in Names : <<name, c>> \in reply ELSE None) =
             (IF c \in Existing THEN names[c] ELSE None)
      BY <2>4 DEF Existing
    <2>6. Listed(n)' = Current
      BY <2>3, <2>5 DEF Listed, Current
    <2>7. Current' = Current
      BY <2>1 DEF Current, Existing
    <2>8. SaysSo(n)
      BY <1>2, <2>6, <2>7 DEF SaysSo
    <2>9. Doubted(n)
      BY <2>1, <2>3 DEF Doubted, Renews
    <2> QED BY <1>2, <2>2, <2>8, <2>9
  <1>5. CASE DetachEvents(n) /\ ~Refused(n)
    <2> DEFINE gone == {x \in Events : events[x].category = calls[n].about}
    <2>1. /\ Begin(n, Absent)
          /\ events' = [e \in Events |-> IF events[e].category = calls[n].about
                                         THEN [events[e] EXCEPT !.category = None]
                                         ELSE events[e]]
          /\ doubt' = doubt \cup UNION {Showing(e) : e \in gone}
      BY <1>5 DEF DetachEvents
    <2>2. UNCHANGED <<names, account, calls, org, adm>>
          /\ \A m \in CallIds \ {n} : work'[m] = work[m]
      BY <1>0, <2>1 DEF Begin, network, pages, organizer, ServerTyped
    <2>3. \A x \in Events : events'[x] # events[x] => Showing(x) \subseteq doubt'
      BY <2>1
    <2>4. Served(n)
      BY <1>0, <2>2 DEF Served, SameCall, Alone
    <2>5. SaysSo(n)
      BY <1>0, <2>2 DEF SaysSo
    <2>6. Doubted(n)
      BY <2>1, <2>2, <2>3 DEF Doubted, There
    <2> QED BY <1>2, <2>4, <2>5, <2>6
  <1>6. CASE (AddCategory(n) \/ RenameCategory(n) \/ DeleteRow(n)) /\ ~Refused(n)
    <2>1. /\ Answer(n, {}) /\ doubt' = doubt \cup Overtaken(n)
          /\ UNCHANGED <<events, account, org, adm>>
          /\ calls[n].op \in {"add", "rename", "delete"}
      BY <1>6 DEF AddCategory, RenameCategory, DeleteRow, Waits, pages, organizer
    <2>2. \A m \in CallIds \ {n} : work'[m] = work[m]
      BY <1>0, <1>6 DEF AddCategory, RenameCategory, DeleteRow, Finish, ServerTyped
    <2>3. Served(n)
      BY <1>0, <2>1, <2>2, AnswerServes
    <2>4. SaysSo(n)
      BY <1>2, <2>1 DEF SaysSo, Loads
    <2>5. "list" \notin doubt' => n \in Listening("list") /\ ~ListComing(n)
      BY <2>1, CopyIs DEF Overtaken, Listening, CategoryOps
    <2>6. calls'[n].stage = "answered" /\ calls[n].op \notin Loads
      BY <1>0, <2>1, AnsweredIs DEF Loads
    <2>7. Doubted(n)
      BY <2>1, <2>5, <2>6 DEF Doubted
    <2> QED BY <1>2, <2>3, <2>4, <2>7
  <1> QED BY <1>3, <1>4, <1>5, <1>6

(* The user's account. *)
LEMMA UserServes ==
    ASSUME TypeInv, NEW n \in CallIds, GetUser(n) \/ SetStatus(n)
    PROVE  Served(n) /\ SaysSo(n) /\ Doubted(n) /\ Approves(n)
  <1>0. CallsFit /\ ServerTyped /\ calls[n].stage = "sent"
    BY DEF TypeInv, NetworkTyped, GetUser, SetStatus, Waits, AtServer
  <1>1. calls[n].op \in UserOps
    BY DEF GetUser, SetStatus, Waits, UserOps
  <1>2. calls[n].op \notin DetailsOps \cup ReviewOps \cup Loads /\ Approves(n)
    BY <1>1 DEF Loads, DetailsOps, ReviewOps, UserOps, Approves
  <1>3. /\ UNCHANGED <<events, names, work, org, adm>>
        /\ doubt \ Renewed(n) \subseteq doubt'
        /\ account' = account \/ "user" \in doubt' \cup Renewed(n)
    BY DEF GetUser, SetStatus, server, pages, organizer
  <1>4. PICK status : status = account'
    OBVIOUS
  <1>5. Answer(n, {<<status, User>>}) /\ status \in AccountStatus
    BY <1>0, <1>4 DEF GetUser, SetStatus, server, ServerTyped, AccountStatus
  <1>6. Served(n)
    BY <1>0, <1>3, <1>5, AnswerServes
  <1>7. calls'[n].stage = "answered" /\ calls'[n].reply = {<<status, User>>}
    BY <1>0, <1>5, AnsweredIs, ReplyIs
  <1>8. \A s : <<s, User>> \in {<<status, User>>} <=> s = status
    OBVIOUS
  <1>9. (CHOOSE s \in AccountStatus : <<s, User>> \in {<<status, User>>}) = status
    BY <1>5, <1>8
  <1>10. AccountIn(n)' = account'
    BY <1>4, <1>7, <1>9 DEF AccountIn
  <1>11. SaysSo(n)
    BY <1>2, <1>10 DEF SaysSo
  <1>12. Doubted(n)
    BY <1>3, <1>7 DEF Doubted, Renews
  <1> QED BY <1>2, <1>6, <1>11, <1>12

LEMMA RestServes ==
    ASSUME TypeInv, NEW n \in CallIds, NobodyHears(n) \/ CallFails(n)
    PROVE  Served(n) /\ SaysSo(n) /\ Doubted(n) /\ Approves(n)
  <1>0. CallsFit /\ ServerTyped
    BY DEF TypeInv, NetworkTyped
  <1>1. CASE NobodyHears(n)
    <2>1. Settle(n) /\ ~calls[n].live /\ UNCHANGED <<server, pages, doubt>>
      BY <1>1 DEF NobodyHears, NobodyListens
    <2>2. Alone(n) /\ ~calls'[n].live
      BY <1>0, <2>1, SettledTo
    <2> QED BY <2>1, <2>2 DEF Served, SaysSo, Doubted, Approves, server, pages, organizer
  <1>2. CASE CallFails(n)
    <2>1. /\ Fail(n) /\ Finish(n) /\ UNCHANGED <<events, names, account, org, adm>>
          /\ doubt \subseteq doubt' /\ (calls[n].live => CopyOf(calls[n].op) \subseteq doubt')
      BY <1>2 DEF CallFails, pages, organizer
    <2>2. ~work'[n].begun /\ \A m \in CallIds \ {n} : work'[m] = work[m]
      BY <1>0, <2>1, NothingBegun DEF Finish, ServerTyped
    <2>3. Alone(n) /\ SameCall(n) /\ calls'[n].stage = "failed"
      BY <1>0, <2>1, FailedIs DEF Alone, SameCall
    <2>4. Served(n)
      BY <2>1, <2>2, <2>3 DEF Served, SameCall
    <2> QED BY <2>1, <2>2, <2>3, <2>4 DEF SaysSo, Doubted, Approves
  <1> QED BY <1>1, <1>2

(* A review out of doubt after its answer is one the merge agreed with. *)
LEMMA Telling ==
    ASSUME TypeInv, NEW n \in CallIds, ServerStep(n) \/ NobodyHears(n) \/ CallFails(n)
    PROVE  Tells(n)
  <1>0. CallsFit /\ ServerTyped /\ Fits(calls[n])
    BY DEF TypeInv, NetworkTyped, CallsFit, Fitting
  <1> SUFFICES ASSUME "review" \in Renewed(n), calls'[n].stage = "answered",
                      calls[n].op # "pending"
               PROVE  Merged(adm.shown, events'[calls[n].about]) = events'[calls[n].about]
    BY DEF Tells
  <1>1. calls[n].live /\ calls[n].op \in {"approve", "reject", "changes"}
    BY RenewedIs, CopyIs DEF Renewed, Listening, ReviewOps
  <1>2. Merged(adm.shown, work[n].row) = work[n].row
    BY <1>1 DEF Renewed
  <1>3. ~NobodyHears(n) /\ ~CallFails(n) /\ ~Refused(n)
    BY <1>0, <1>1, FailedIs, RefusedIs DEF NobodyHears, NobodyListens, CallFails, Refused
  <1>4. ~ReadEvent(n)
    BY <1>3 DEF ReadEvent, Begin, Waits, AtServer, network
  <1>5. UpdateEvent(n)
    BY <1>1, <1>3, <1>4 DEF ServerStep, CreateEvent, UploadImage, GetMine, ListActive,
       ListPending, ListAll, AddCategory, RenameCategory, DetachEvents, DeleteRow, GetUser,
       SetStatus, Waits, Loads
  <1>6. events' = [events EXCEPT ![calls[n].about] = work[n].row]
    BY <1>3, <1>5 DEF UpdateEvent
  <1>7. events'[calls[n].about] = work[n].row
    BY <1>0, <1>1, <1>6 DEF Fits, RowOps, EventOps, ServerTyped
  <1> QED BY <1>2, <1>7

LEMMA TruthOfServer ==
    ASSUME TypeInv, RowsExist, OrganizerTrue, AdminTrue, NEW n \in CallIds,
           ServerStep(n) \/ NobodyHears(n) \/ CallFails(n)
    PROVE  OrganizerTrue' /\ AdminTrue'
  <1>0. /\ DetailsTrue /\ FormsAtHome /\ ReviewTrue /\ OneReview /\ UserTrue /\ UsersAtHome
        /\ ListTrue
    BY DEF OrganizerTrue, AdminTrue
  <1>1. Served(n) /\ SaysSo(n) /\ Doubted(n) /\ Approves(n) /\ Tells(n)
    BY EventServes, PageServes, CategoryServes, UserServes, RestServes, Telling DEF ServerStep
  <1>2. FormsAtHome'
    BY <1>0, <1>1 DEF FormsAtHome, Served, Alone, SameCall
  <1>3. DetailsTrue'
    BY <1>0, <1>1, DetailsServed
  <1>4. ReviewTrue' /\ OneReview'
    BY <1>0, <1>1, ReviewServed
  <1>5. UserTrue' /\ UsersAtHome'
    BY <1>0, <1>1, UserServed
  <1>6. ListTrue'
    BY <1>0, <1>1, ListServed
  <1> QED BY <1>2, <1>3, <1>4, <1>5, <1>6 DEF OrganizerTrue, AdminTrue

-----------------------------------------------------------------------------
(* Every step.  The rows the pages are about exist, and each copy is true, in
   doubt or about to be made so.                                           *)
TruthInv == TypeInv /\ RowsExist /\ OrganizerTrue /\ AdminTrue

LEMMA TruthStarts == Init => TruthInv
  <1> SUFFICES ASSUME Init PROVE TruthInv
    OBVIOUS
  <1>1. \A n \in CallIds : calls[n] = NoCall
    BY DEF Init
  <1>2. \A c : Listening(c) = {}
    BY <1>1, NoCallIsNone DEF Listening
  <1>3. org.at = "dashboard" /\ adm.at = "dashboard"
    BY DEF Init, Mounted, AdmMounted
  <1>4. OrganizerTrue
    BY <1>1, <1>2, <1>3, NoCallIsNone DEF OrganizerTrue, DetailsTrue, FormsAtHome, Answered
  <1>5. AdminTrue
    BY <1>2, <1>3 DEF AdminTrue, ReviewTrue, OneReview, UserTrue, UsersAtHome, ListTrue, Answered
  <1> QED BY <1>4, <1>5, TypesStart, RowsStart DEF TruthInv

LEMMA TruthStays == TruthInv /\ [Next]_vars => TruthInv'
  <1> SUFFICES ASSUME TruthInv, [Next]_vars PROVE TruthInv'
    OBVIOUS
  <1>0. TypeInv /\ RowsExist /\ OrganizerTrue /\ AdminTrue
    BY DEF TruthInv
  <1>1. TypeInv' /\ RowsExist'
    BY <1>0, TypesStay, RowsStay
  <1>2. CASE UNCHANGED vars
    <2>1. /\ \A ops : Apart(ops)
          /\ UNCHANGED <<org, adm, names, account, events, doubt, work>>
      BY <1>2 DEF vars, server, network, pages, organizer, Apart
    <2>2. OrganizerTrue' /\ AdminTrue'
      BY <1>0, <2>1, OrganizerKept, AdminKept
    <2> QED BY <1>1, <2>2 DEF TruthInv
  <1>3. CASE Organizer /\ UNCHANGED adm
    BY <1>0, <1>1, <1>3, TruthOfOrganizer DEF TruthInv
  <1>4. CASE Admin \/ AnotherAdmin
    BY <1>0, <1>1, <1>4, TruthOfAdmin DEF TruthInv
  <1>5. ASSUME NEW n \in CallIds, CallGoesOn(n) \/ CallFails(n) PROVE TruthInv'
    BY <1>0, <1>1, <1>5, TruthOfOrganizerCalls, TruthOfAdminCalls, TruthOfServer
       DEF CallGoesOn, TruthInv
  <1> QED BY <1>2, <1>3, <1>4, <1>5 DEF Next

LEMMA TruthHolds == Spec => []TruthInv
  BY TruthStarts, TruthStays, PTL DEF Spec

(* The pages of an event, of a review and of a user that wait for nothing and
   are not in doubt show the row they are about, for any number of requests
   in any order: an answer that could be overtaken leaves its page in doubt. *)
THEOREM PagesTruth == Spec => []PagesTellTheTruth
  <1>1. TruthInv => PagesTellTheTruth
    BY DEF TruthInv, OrganizerTrue, AdminTrue, DetailsTrue, ReviewTrue, UserTrue, Answered,
           PagesTellTheTruth, OnDetails, OnUser, Quiet
  <1> QED BY <1>1, TruthHolds, PTL

(* The list of categories that waits for nothing and is not in doubt is the
   table, for any number of categories, names and loads: the last change that
   is answered to the page is followed by a load of its own.               *)
THEOREM CategoriesTruth == Spec => []CategoriesTellTheTruth
  <1>1. TruthInv => CategoriesTellTheTruth
    BY DEF TruthInv, AdminTrue, ListTrue, CategoriesTellTheTruth, OnCategories, Quiet, Current
  <1> QED BY <1>1, TruthHolds, PTL

(* An approval is answered by the statement that writes the row. *)
LEMMA SendLeaves ==
    ASSUME CallsFit, NEW op, NEW about, NEW filter, Send(op, about, filter),
           NEW n \in CallIds, calls[n].op # "none"
    PROVE  calls'[n] = calls[n]
  BY DEF Send, SendFrom, CallsFit

LEMMA TabsLeave ==
    ASSUME TypeInv, (Organizer /\ UNCHANGED adm) \/ Admin \/ AnotherAdmin,
           NEW n \in CallIds, calls[n].op = "approve"
    PROVE  calls'[n].stage = calls[n].stage
  <1>0. CallsFit /\ calls[n] \in Call
    BY DEF TypeInv, NetworkTyped, CallsFit, Fitting
  <1>1. "approve" \in AdmOps /\ "approve" \notin OrgOps
    BY DEF AdmOps, ReviewOps, OrgOps, FormOps, DetailsOps
  <1>2. ASSUME NEW at \in {"create", "edit", "details"}, NEW e \in Events \cup {None}, Enter(at, e)
        PROVE  calls'[n] = calls[n]
    BY <1>0, <1>1, <1>2, EnteredIs DEF Apart
  <1>3. ASSUME NEW ops, Abandoned(ops), ops = OrgOps \/ ops = AdmOps
        PROVE  calls'[n].stage = calls[n].stage
    <2>1. [calls[n] EXCEPT !.live = FALSE].stage = calls[n].stage
      BY <1>0, CallIs
    <2>2. calls' = Without(ops)
      BY <1>3 DEF Abandoned
    <2> QED BY <2>1, <2>2 DEF Without
  <1>4. ASSUME NEW op, NEW about, NEW filter, Send(op, about, filter)
        PROVE  calls'[n] = calls[n]
    BY <1>0, <1>4, SendLeaves
  <1>5. CASE Organizer
    <2>1. CASE \E at \in {"edit", "details"}, e \in Events : OpenEvent(at, e)
      BY <1>2, <2>1 DEF OpenEvent
    <2>2. CASE OpenCreate
      BY <1>2, <2>2 DEF OpenCreate
    <2>3. CASE GoToDashboard
      BY <1>3, <2>3 DEF GoToDashboard, OrgOps
    <2>4. CASE KeepAsItIs \/ OpenClose \/ OpenCancel
      BY <2>4 DEF KeepAsItIs, OpenClose, OpenCancel, OpenModal, network
    <2>5. ASSUME NEW to \in Events \cup {"dashboard"}, Navigate(to)
          PROVE  calls'[n].stage = calls[n].stage
      BY <1>2, <1>3, <1>4, <2>5 DEF Navigate, OrgOps, network
    <2>6. CASE \E form \in Form : SubmitNew(form) \/ SubmitEdit(form)
      BY <1>4, <2>6 DEF SubmitNew, SubmitEdit, Submit
    <2>7. CASE OnCloseRegistration \/ OnReopenRegistration \/ OnCancelEvent
      BY <1>4, <2>7 DEF OnCloseRegistration, OnReopenRegistration, OnCancelEvent, Act
    <2> QED BY <1>5, <2>1, <2>2, <2>3, <2>4, <2>5, <2>6, <2>7 DEF Organizer
  <1>6. CASE Admin
    <2>1. CASE AdmGoToDashboard
      BY <1>3, <2>1 DEF AdmGoToDashboard, AdmOps
    <2>2. CASE \/ CloseCategoryModal \/ OpenConfirm \/ CloseConfirm
               \/ \E modal \in {"add", "rename", "delete"}, c \in Categories \cup {None} :
                     OpenCategoryModal(modal, c)
      BY <2>2 DEF CloseCategoryModal, OpenConfirm, CloseConfirm, OpenCategoryModal, network
    <2>3. CASE (\E e \in Events : OpenReview(e)) \/ OpenCategories \/ OpenUser
      BY <1>4, <2>3 DEF OpenReview, OpenCategories, OpenUser, AdmEnter
    <2>4. CASE \/ ConfirmDelete \/ OnConfirmAction
               \/ \E op \in {"approve", "reject", "changes"} : RunAction(op)
               \/ \E name \in Names : SubmitCategory(name)
      BY <1>4, <2>4 DEF ConfirmDelete, OnConfirmAction, RunAction, SubmitCategory
    <2> QED BY <1>6, <2>1, <2>2, <2>3, <2>4 DEF Admin
  <1>7. CASE AnotherAdmin
    BY <1>7 DEF AnotherAdmin
  <1> QED BY <1>5, <1>6, <1>7

LEMMA ApprovalBy ==
    ASSUME TruthInv, [Next]_vars, NEW n \in CallIds, calls[n].op = "approve",
           calls[n].stage = "sent", calls'[n].stage = "answered"
    PROVE  UpdateEvent(n)
  <1>0. TypeInv /\ RowsExist /\ CallsFit
    BY DEF TruthInv, TypeInv, NetworkTyped
  <1>1. PICK m \in CallIds : CallGoesOn(m) \/ CallFails(m)
    BY <1>0, TabsLeave DEF Next, vars, network
  <1>2. CASE m # n
    <2>1. ServerStep(m) \/ NobodyHears(m) \/ CallFails(m) => Alone(m)
      BY <1>0, EventServes, PageServes, CategoryServes, UserServes, RestServes
         DEF ServerStep, Served
    <2>2. OrganizerCall(m) \/ AdminCall(m) => Alone(m)
      <3>1. Settle(m) \/ (\E c : calls' = [calls EXCEPT ![m] = c]) => Alone(m)
        BY <1>0, SettledTo DEF CallsFit, Alone
      <3>2. UploadAnswered(m) => Alone(m)
        BY <1>0 DEF UploadAnswered, CallsFit, Alone
      <3>3. OrganizerCall(m) => Settle(m) \/ UploadAnswered(m)
        BY DEF OrganizerCall, OptionsAnswered, FormAnswered, EventCreated, EventUpdated, Saved,
               SaveFailed, DetailsAnswered, ActAnswered, ActFailed
      <3>4. AdminCall(m) => Settle(m) \/ CategoryChanged(m)
        BY DEF AdminCall, PendingAnswered, RunActionSettled, CategoryChangeFailed,
               CategoriesLoaded, UserAnswered, ConfirmSettled
      <3>5. CategoryChanged(m) => \E c : calls' = [calls EXCEPT ![m] = c]
        BY DEF CategoryChanged
      <3> QED BY <3>1, <3>2, <3>3, <3>4, <3>5
    <2> QED BY <1>1, <1>2, <2>1, <2>2 DEF CallGoesOn, Alone
  <1>3. CASE m = n
    <2>1. ~OrganizerCall(n) /\ ~AdminCall(n) /\ ~NobodyHears(n)
      BY DEF OrganizerCall, OptionsAnswered, FormAnswered, UploadAnswered, EventCreated,
             EventUpdated, Saved, SaveFailed, DetailsAnswered, ActAnswered, ActFailed, AdminCall,
             PendingAnswered, RunActionSettled, CategoryChanged, CategoryChangeFailed,
             CategoriesLoaded, UserAnswered, ConfirmSettled, Settling, NobodyHears, NobodyListens
    <2>2. ~CallFails(n)
      BY <1>0, FailedIs DEF CallFails
    <2>3. ~ReadEvent(n)
      BY <1>0, RefusedIs DEF ReadEvent, Begin, Refused, network
    <2>4. ServerStep(n) => ReadEvent(n) \/ UpdateEvent(n)
      BY DEF ServerStep, CreateEvent, UploadImage, GetMine, ListActive, ListPending, ListAll,
             AddCategory, RenameCategory, DetachEvents, DeleteRow, GetUser, SetStatus, Waits, Loads
    <2> QED BY <1>1, <1>3, <2>1, <2>2, <2>3, <2>4 DEF CallGoesOn
  <1> QED BY <1>2, <1>3

LEMMA ApprovalIs ==
    ASSUME TruthInv, [Next]_vars, NEW n \in CallIds, calls[n].op = "approve", calls[n].live,
           calls[n].stage = "sent", calls'[n].stage = "answered", "review" \notin doubt
    PROVE  events'[calls[n].about] = [adm.shown EXCEPT !.status = "published"]
  <1>0. /\ TypeInv /\ CallsFit /\ ServerTyped /\ ReviewTrue /\ OneReview /\ calls[n] \in Call
        /\ Fits(calls[n])
    BY DEF TruthInv, TypeInv, NetworkTyped, AdminTrue, CallsFit, Fitting
  <1>1. n \in Listening("review")
    BY CopyIs DEF Listening, ReviewOps
  <1>2. /\ adm.at = "review" /\ adm.found /\ \A m \in Listening("review") : m = n
    BY <1>0, <1>1 DEF OneReview
  <1>3. adm.shown = events[adm.event]
    BY <1>0, <1>2 DEF ReviewTrue, Answered
  <1>4. calls[n].about = adm.event
    BY <1>0, <1>1 DEF ReviewTrue
  <1>5. UpdateEvent(n)
    BY <1>0, ApprovalBy
  <1>6. work[n].begun /\ events' = [events EXCEPT ![calls[n].about] = work[n].row]
    BY <1>0, <1>5, RefusedIs DEF UpdateEvent, Refused
  <1>7. work[n].row = Published(adm.event)
    BY <1>0, <1>1, <1>6 DEF ReviewTrue
  <1>8. calls[n].about \in Events
    BY <1>0 DEF Fits, RowOps, EventOps
  <1> QED BY <1>0, <1>3, <1>4, <1>6, <1>7, <1>8 DEF Published, ServerTyped

(* What an approval publishes is what the review page shows when the answer
   is given, for any number of events and requests: nobody has changed the
   row between the statement that read it and the one that writes it, or the
   page is in doubt.                                                       *)
THEOREM ApprovalAsShown == Spec => ApprovedAsShown
  <1>1. TruthInv /\ [Next]_vars =>
           \A n \in CallIds :
              calls[n].op = "approve" /\ calls[n].live
                /\ calls[n].stage = "sent" /\ calls'[n].stage = "answered"
                /\ "review" \notin doubt =>
              events'[calls[n].about] = [adm.shown EXCEPT !.status = "published"]
    BY ApprovalIs
  <1> QED BY <1>1, TruthHolds, PTL DEF Spec, ApprovedAsShown
=============================================================================
