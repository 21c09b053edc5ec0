---------------------------- MODULE WebPagesProofs ----------------------------
(***************************************************************************)
(* What the two browser tabs and their server keep true for any number of  *)
(* events, categories, names, requests and failures.                       *)
(***************************************************************************)
EXTENDS WebPages, TLAPS

-----------------------------------------------------------------------------
(* Requests that fit what they are about. *)
RowOps == EventOps \cup {"form", "details", "pending"}

(* An answer about an event carries its row, one about the user the status. *)
HasRow(reply, e) == \E s \in EventStatus : <<s, e>> \in reply
HasAccount(reply) == \E s \in AccountStatus : <<s, User>> \in reply

Fits(c) ==
    /\ c.op \in RowOps => c.about \in Events
    /\ c.op = "upload" => c.about \in Events \cup {None}
    /\ c.op \in {"upload", "create", "update"} => c.filter \in Form
    /\ c.op \in {"add", "rename"} => c.filter \in Names
    /\ c.stage = "answered" /\ c.op \in RowOps => HasRow(c.reply, c.about)
    /\ c.stage = "answered" /\ c.op \in UserOps => HasAccount(c.reply)

Fitting == {c \in Call : Fits(c)}

CallsFit == calls \in [CallIds -> Fitting]

(* The types by parts. *)
ServerTyped ==
    /\ events \in [Events -> Row] /\ names \in [Categories -> Category]
    /\ account \in AccountStatus /\ work \in [CallIds -> Work]
NetworkTyped == CallsFit /\ sent \in 0..MaxCalls /\ lost \in 0..MaxLost
OrganizerTyped ==
    /\ org \in Org /\ visit \in Visit /\ leaving \subseteq Events \cup {"dashboard"}
    /\ org.at \in {"edit", "details"} => org.event \in Events
    /\ org.at = "create" => org.event = None
AdminTyped == adm \in Adm /\ (adm.at = "review" => adm.event \in Events)
DoubtTyped == doubt \subseteq {"details", "review", "list", "user"}

TypeInv == ServerTyped /\ NetworkTyped /\ OrganizerTyped /\ AdminTyped /\ DoubtTyped

LEMMA TypeInvTypes == TypeInv => TypeOK
  BY DEF TypeInv, TypeOK, CallsFit, Fitting, ServerTyped, NetworkTyped, OrganizerTyped,
         AdminTyped, DoubtTyped

Op == {"options", "form", "upload", "create", "update", "details", "close", "reopen",
       "cancel", "pending", "approve", "reject", "changes", "categories", "add", "rename",
       "delete", "after_save", "after_delete", "user", "suspend", "activate"}
Subject == Events \cup Categories \cup {User}
Topic == EventStatus \cup Names \cup AccountStatus \cup {"in", "pictured", "offered"}
Reply == SUBSET (Topic \X Subject)
About == Subject \cup {None}
Filter == Form \cup Names \cup {None}
OpOrNone == Op \cup {"none"}

(* Call without what its fields hold. *)
LEMMA CallIs ==
    Call = [op: OpOrNone, about: About, filter: Filter, live: BOOLEAN, stage: Stage,
            reply: Reply]
  BY DEF Call, OpOrNone, Op, About, Filter, Reply, Topic, Subject

LEMMA StageIs == {"sent", "answered", "refused", "failed"} = Stage
  BY DEF Stage

LEMMA NothingRepliedIs == {} \in Reply
  BY DEF Reply

(* A record of these fields fits if it is about what it has to be. *)
LEMMA FittingIs ==
    ASSUME NEW op \in OpOrNone, NEW about \in About, NEW filter \in Filter,
           NEW live \in BOOLEAN, NEW stage \in Stage, NEW reply \in Reply,
           op \in RowOps => about \in Events,
           op = "upload" => about \in Events \cup {None},
           op \in {"upload", "create", "update"} => filter \in Form,
           op \in {"add", "rename"} => filter \in Names,
           stage = "answered" /\ op \in RowOps => HasRow(reply, about),
           stage = "answered" /\ op \in UserOps => HasAccount(reply)
    PROVE  [op |-> op, about |-> about, filter |-> filter, live |-> live, stage |-> stage,
            reply |-> reply] \in Fitting
  BY CallIs DEF Fitting, Fits

LEMMA NoCallFits == NoCall \in Fitting
  <1>1. "none" \in OpOrNone /\ None \in About /\ None \in Filter /\ "sent" \in Stage
    BY DEF OpOrNone, About, Filter, Stage
  <1>2. "none" \notin RowOps /\ "none" \notin UserOps
    BY DEF RowOps, EventOps, UserOps
  <1> QED BY <1>1, <1>2, NothingRepliedIs, FittingIs DEF NoCall

LEMMA NewFits ==
    ASSUME NEW op \in Op, NEW about \in About, NEW filter \in Filter,
           op \in RowOps => about \in Events,
           op = "upload" => about \in Events \cup {None},
           op \in {"upload", "create", "update"} => filter \in Form,
           op \in {"add", "rename"} => filter \in Names
    PROVE  NewCall(op, about, filter) \in Fitting
  <1>1. NoCall \in Call /\ NoCall.stage = "sent"
    BY NoCallFits DEF Fitting, NoCall
  <1>2. op \in OpOrNone
    BY DEF OpOrNone
  <1>3. NewCall(op, about, filter) \in Call
    BY <1>1, <1>2, CallIs DEF NewCall
  <1>4. LET c == NewCall(op, about, filter) IN
        c.op = op /\ c.about = about /\ c.filter = filter /\ c.stage = "sent"
    BY <1>1, CallIs DEF NewCall
  <1> QED BY <1>3, <1>4 DEF Fitting, Fits

(* A request on its way: at another stage, refused, failed, without its page. *)
LEMMA RefusedFits ==
    ASSUME NEW c \in Fitting
    PROVE  [c EXCEPT !.stage = "refused"] \in Fitting
  BY CallIs, StageIs DEF Fitting, Fits

LEMMA FailedFits ==
    ASSUME NEW c \in Fitting
    PROVE  [c EXCEPT !.stage = "failed", !.reply = {}] \in Fitting
  BY CallIs, StageIs, NothingRepliedIs DEF Fitting, Fits

LEMMA UnheardFits ==
    ASSUME NEW c \in Fitting
    PROVE  [c EXCEPT !.live = FALSE] \in Fitting
  BY CallIs DEF Fitting, Fits

LEMMA AnsweredFits ==
    ASSUME NEW c \in Fitting, NEW reply \in Reply,
           c.op \in RowOps => HasRow(reply, c.about),
           c.op \in UserOps => HasAccount(reply)
    PROVE  [c EXCEPT !.stage = "answered", !.reply = reply] \in Fitting
  BY CallIs, StageIs DEF Fitting, Fits

LEMMA RowReplyTyped ==
    ASSUME NEW row \in Row, NEW e \in Events
    PROVE  RowReply(row, e) \in Reply /\ HasRow(RowReply(row, e), e)
  BY DEF RowReply, HasRow, Row, Reply, Topic, Subject

LEMMA RowInTyped ==
    ASSUME NEW reply, NEW e, HasRow(reply, e)
    PROVE  RowIn(reply, e) \in Row
  <1>1. (CHOOSE s \in EventStatus : <<s, e>> \in reply) \in EventStatus
    BY DEF HasRow
  <1>2. (\E c \in Categories : <<"in", c>> \in reply) =>
           (CHOOSE c \in Categories : <<"in", c>> \in reply) \in Categories
    OBVIOUS
  <1>3. (<<"pictured", e>> \in reply) \in BOOLEAN
    OBVIOUS
  <1> QED BY <1>1, <1>2, <1>3 DEF RowIn, Row

-----------------------------------------------------------------------------
(* The steps of a request. *)
LEMMA SendFromFits ==
    ASSUME NEW cs \in [CallIds -> Fitting], NEW op \in Op, NEW about \in About,
           NEW filter \in Filter, NewCall(op, about, filter) \in Fitting,
           SendFrom(cs, op, about, filter)
    PROVE  CallsFit'
  BY DEF SendFrom, CallsFit

LEMMA WithoutFits ==
    ASSUME CallsFit, NEW ops
    PROVE  Without(ops) \in [CallIds -> Fitting]
  <1>1. \A n \in CallIds : [calls[n] EXCEPT !.live = FALSE] \in Fitting
    BY UnheardFits DEF CallsFit
  <1>2. \A n \in CallIds : Without(ops)[n] \in Fitting
    BY <1>1, NoCallFits DEF Without, CallsFit
  <1> QED BY <1>2 DEF Without

LEMMA SettleFits ==
    ASSUME CallsFit, NEW n \in CallIds, Settle(n)
    PROVE  CallsFit'
  BY NoCallFits DEF Settle, CallsFit

LEMMA RefuseFits ==
    ASSUME CallsFit, NEW n \in CallIds, Refuse(n)
    PROVE  CallsFit'
  <1>1. calls' = [calls EXCEPT ![n] = [calls[n] EXCEPT !.stage = "refused"]]
    BY DEF Refuse, CallsFit
  <1> QED BY <1>1, RefusedFits DEF CallsFit

LEMMA FailFits ==
    ASSUME CallsFit, NEW n \in CallIds, Fail(n)
    PROVE  CallsFit'
  <1>1. calls' = [calls EXCEPT ![n] = [calls[n] EXCEPT !.stage = "failed", !.reply = {}]]
    BY DEF Fail, CallsFit
  <1> QED BY <1>1, FailedFits DEF CallsFit

LEMMA AnswerFits ==
    ASSUME CallsFit, NEW n \in CallIds, NEW reply \in Reply, Answer(n, reply),
           calls[n].op \in RowOps => HasRow(reply, calls[n].about),
           calls[n].op \in UserOps => HasAccount(reply)
    PROVE  CallsFit'
  <1>1. calls' = [calls EXCEPT ![n] = [calls[n] EXCEPT !.stage = "answered", !.reply = reply]]
    BY DEF Answer, CallsFit
  <1> QED BY <1>1, AnsweredFits DEF CallsFit

-----------------------------------------------------------------------------
(* The organizer. *)
LEMMA MountedTyped ==
    ASSUME NEW at \in {"dashboard", "create", "edit", "details"}, NEW e \in Events \cup {None}
    PROVE  /\ Mounted(at, e) \in Org
           /\ Mounted(at, e).at = at /\ Mounted(at, e).event = e
           /\ ~Mounted(at, e).busy /\ (Mounted(at, e).loading => at \in {"edit", "details"})
  <1>1. Absent \in Row
    BY DEF Absent, Row, EventStatus
  <1>2. (at \in {"edit", "details"}) \in BOOLEAN
    OBVIOUS
  <1> QED BY <1>1, <1>2 DEF Mounted, Org

LEMMA NewVisitTyped == NewVisit \in Visit
  BY DEF NewVisit, Visit

LEMMA SendTyped ==
    ASSUME NetworkTyped, NEW cs \in [CallIds -> Fitting], NEW op \in Op, NEW about \in About,
           NEW filter \in Filter, SendFrom(cs, op, about, filter),
           op \in RowOps => about \in Events,
           op = "upload" => about \in Events \cup {None},
           op \in {"upload", "create", "update"} => filter \in Form,
           op \in {"add", "rename"} => filter \in Names
    PROVE  NetworkTyped'
  <1>1. CallsFit'
    BY NewFits, SendFromFits
  <1>2. sent' \in 0..MaxCalls /\ lost' = lost
    BY BoundsAreNatural DEF SendFrom, NetworkTyped
  <1> QED BY <1>1, <1>2 DEF NetworkTyped

LEMMA SettleTyped ==
    ASSUME NetworkTyped, NEW n \in CallIds, Settle(n)
    PROVE  NetworkTyped'
  BY SettleFits DEF NetworkTyped, Settle

LEMMA AbandonTyped ==
    ASSUME NetworkTyped, NEW ops, Abandoned(ops)
    PROVE  NetworkTyped'
  BY WithoutFits DEF NetworkTyped, Abandoned, CallsFit

LEMMA EnterTyped ==
    ASSUME TypeInv, NEW at \in {"create", "edit", "details"}, NEW e \in Events \cup {None},
           at \in {"edit", "details"} => e \in Events, at = "create" => e = None,
           Enter(at, e)
    PROVE  /\ NetworkTyped' /\ DoubtTyped'
           /\ org' \in Org /\ visit' \in Visit
           /\ org'.at = at /\ org'.event = e
  <1>1. Without(FormOps \cup DetailsOps) \in [CallIds -> Fitting]
    BY WithoutFits DEF TypeInv, NetworkTyped
  <1>2. FirstCall(at) \in Op \ {"upload", "create", "update", "add", "rename"}
        /\ (FirstCall(at) \in RowOps => at # "create")
    BY DEF FirstCall, Op, RowOps, EventOps
  <1>3. e \in About /\ None \in Filter
    BY DEF About, Subject, Filter
  <1>4. NetworkTyped'
    BY <1>1, <1>2, <1>3, SendTyped DEF Enter, TypeInv
  <1>5. DoubtTyped'
    BY DEF Enter, TypeInv, DoubtTyped
  <1> QED BY <1>4, <1>5, MountedTyped, NewVisitTyped DEF Enter

LEMMA NavigationTyped ==
    ASSUME TypeInv, UNCHANGED adm,
           \/ \E at \in {"edit", "details"}, e \in Events : OpenEvent(at, e)
           \/ OpenCreate \/ GoToDashboard
           \/ \E to \in Events \cup {"dashboard"} : Navigate(to)
    PROVE  TypeInv'
  <1>0. ServerTyped /\ NetworkTyped /\ OrganizerTyped /\ AdminTyped /\ DoubtTyped
    BY DEF TypeInv
  <1>1. AdminTyped'
    BY <1>0 DEF AdminTyped
  <1>2. ASSUME NEW at \in {"create", "edit", "details"}, NEW e \in Events \cup {None},
               at \in {"edit", "details"} => e \in Events, at = "create" => e = None,
               Enter(at, e), UNCHANGED server, leaving' \subseteq leaving
        PROVE  TypeInv'
    <2>1. /\ NetworkTyped' /\ DoubtTyped' /\ org' \in Org /\ visit' \in Visit
          /\ org'.at = at /\ org'.event = e
      BY <1>2, EnterTyped
    <2>2. OrganizerTyped'
      BY <1>0, <1>2, <2>1 DEF OrganizerTyped
    <2>3. ServerTyped'
      BY <1>0, <1>2 DEF ServerTyped, server
    <2> QED BY <1>1, <2>1, <2>2, <2>3 DEF TypeInv
  <1>3. ASSUME Abandoned(FormOps \cup DetailsOps), org' = Mounted("dashboard", None),
               visit' = NewVisit, UNCHANGED <<server, doubt>>, leaving' \subseteq leaving
        PROVE  TypeInv'
    <2>1. NetworkTyped'
      BY <1>0, <1>3, AbandonTyped
    <2>2. OrganizerTyped'
      <3>1. org' \in Org /\ org'.at = "dashboard"
        BY <1>3, MountedTyped
      <3> QED BY <1>0, <1>3, <3>1, NewVisitTyped DEF OrganizerTyped
    <2>3. ServerTyped' /\ DoubtTyped'
      BY <1>0, <1>3 DEF ServerTyped, DoubtTyped, server
    <2> QED BY <1>1, <2>1, <2>2, <2>3 DEF TypeInv
  <1>4. ASSUME NEW to \in Events, to \in leaving, leaving' = leaving \ {to}, UNCHANGED server,
               org.at = "details", org' = [org EXCEPT !.event = to, !.loading = TRUE],
               Send("details", to, None), doubt' = doubt \cup {"details"}, visit' = visit
        PROVE  TypeInv'
    <2>1. to \in About /\ None \in Filter /\ "details" \in Op
      BY DEF About, Subject, Filter, Op
    <2>2. NetworkTyped'
      BY <1>0, <1>4, <2>1, SendTyped DEF Send, NetworkTyped, CallsFit
    <2>3. org' \in Org /\ org'.at = "details" /\ org'.event = to
      BY <1>0, <1>4 DEF OrganizerTyped, Org
    <2>4. OrganizerTyped'
      BY <1>0, <1>4, <2>3 DEF OrganizerTyped
    <2>5. ServerTyped' /\ DoubtTyped'
      BY <1>0, <1>4 DEF ServerTyped, DoubtTyped, server
    <2> QED BY <1>1, <2>2, <2>4, <2>5 DEF TypeInv
  <1>5. ASSUME UNCHANGED <<server, org, network, doubt, visit>>, leaving' \subseteq leaving
        PROVE  TypeInv'
    BY <1>0, <1>1, <1>5 DEF TypeInv, ServerTyped, NetworkTyped, CallsFit, OrganizerTyped,
                            DoubtTyped, server, network
  <1>6. ASSUME NEW at \in {"edit", "details"}, NEW e \in Events, OpenEvent(at, e) PROVE TypeInv'
    BY <1>2, <1>6 DEF OpenEvent
  <1>7. CASE OpenCreate
    BY <1>2, <1>7 DEF OpenCreate
  <1>8. CASE GoToDashboard
    BY <1>3, <1>8 DEF GoToDashboard
  <1>9. ASSUME NEW to \in Events \cup {"dashboard"}, Navigate(to) PROVE TypeInv'
    <2>1. leaving' \subseteq leaving /\ UNCHANGED server
      BY <1>9 DEF Navigate
    <2>2. CASE to = "dashboard" /\ org' = Mounted("dashboard", None)
                 /\ Abandoned(FormOps \cup DetailsOps) /\ visit' = NewVisit /\ doubt' = doubt
      BY <1>3, <2>1, <2>2
    <2>3. CASE to \in Events /\ Enter("details", to)
      BY <1>2, <2>1, <2>3
    <2>4. CASE to \in Events /\ org.at = "details"
                 /\ org' = [org EXCEPT !.event = to, !.loading = TRUE]
                 /\ Send("details", to, None) /\ doubt' = doubt \cup {"details"}
                 /\ visit' = visit
      BY <1>4, <1>9, <2>4 DEF Navigate
    <2>5. CASE UNCHANGED <<org, network, doubt, visit>>
      BY <1>5, <2>1, <2>5
    <2> QED BY <1>9, <2>2, <2>3, <2>4, <2>5 DEF Navigate
  <1> QED BY <1>6, <1>7, <1>8, <1>9

(* What the organizer does on a page. *)
LEMMA OrganizerActsTyped ==
    ASSUME TypeInv, UNCHANGED adm,
           \/ KeepAsItIs \/ OpenClose \/ OpenCancel
           \/ \E form \in Form : SubmitNew(form) \/ SubmitEdit(form)
           \/ OnCloseRegistration \/ OnReopenRegistration \/ OnCancelEvent
    PROVE  TypeInv'
  <1>0. ServerTyped /\ NetworkTyped /\ OrganizerTyped /\ AdminTyped /\ DoubtTyped
    BY DEF TypeInv
  <1>1. AdminTyped'
    BY <1>0 DEF AdminTyped
  <1>2. CASE KeepAsItIs \/ OpenClose \/ OpenCancel
    <2>1. PICK modal \in {"none", "close", "cancel"} : org' = [org EXCEPT !.modal = modal]
      BY <1>2 DEF KeepAsItIs, OpenClose, OpenCancel, OpenModal
    <2>2. org' \in Org /\ org'.at = org.at /\ org'.event = org.event
      BY <1>0, <2>1 DEF OrganizerTyped, Org
    <2>3. UNCHANGED <<server, network, leaving, doubt, visit>>
      BY <1>2 DEF KeepAsItIs, OpenClose, OpenCancel, OpenModal
    <2> QED BY <1>0, <1>1, <2>2, <2>3
            DEF TypeInv, ServerTyped, NetworkTyped, CallsFit, OrganizerTyped, DoubtTyped, server,
                network
  <1>3. ASSUME NEW form \in Form, SubmitNew(form) \/ SubmitEdit(form) PROVE TypeInv'
    <2>1. /\ Submit(form) /\ form \in Filter /\ org.event \in Events \cup {None}
          /\ org.event \in About /\ {"upload", "create", "update"} \subseteq Op
      BY <1>0, <1>3 DEF SubmitNew, SubmitEdit, Filter, OrganizerTyped, Org, About, Subject, Op
    <2>2. /\ Saving(org.event) \in {"create", "update"}
          /\ Saving(org.event) = "update" => org.event \in Events
      BY <2>1 DEF Saving
    <2>3. {"upload", "create"} \cap RowOps = {}
      BY DEF RowOps, EventOps
    <2>4. NetworkTyped'
      BY <1>0, <2>1, <2>2, <2>3, SendTyped DEF Submit, Send, NetworkTyped, CallsFit
    <2>5. org' \in Org /\ org'.at = org.at /\ org'.event = org.event
      BY <1>0, <2>1 DEF OrganizerTyped, Org, Submit
    <2>6. visit' \in Visit
      <3>1. (visit.repeated \/ visit.tried) \in BOOLEAN
        OBVIOUS
      <3> QED BY <1>0, <2>1, <3>1 DEF Submit, OrganizerTyped, Visit
    <2>7. UNCHANGED <<server, leaving, doubt>>
      BY <2>1 DEF Submit
    <2> QED BY <1>0, <1>1, <2>4, <2>5, <2>6, <2>7
            DEF TypeInv, ServerTyped, OrganizerTyped, DoubtTyped, server
  <1>4. CASE OnCloseRegistration \/ OnReopenRegistration \/ OnCancelEvent
    <2>1. PICK op \in {"close", "reopen", "cancel"}, modal \in {"none", "close", "cancel"} : Act(op, modal)
      BY <1>4 DEF OnCloseRegistration, OnReopenRegistration, OnCancelEvent
    <2>2. /\ op \in Op \ {"upload", "create", "update", "add", "rename"} /\ org.event \in Events
          /\ org.event \in About /\ None \in Filter
      BY <1>0, <2>1 DEF Op, Act, OnDetails, OrganizerTyped, About, Subject, Filter
    <2>3. NetworkTyped'
      BY <1>0, <2>1, <2>2, SendTyped DEF Act, Send, NetworkTyped, CallsFit
    <2>4. org' \in Org /\ org'.at = org.at /\ org'.event = org.event
      BY <1>0, <2>1 DEF OrganizerTyped, Org, Act
    <2>5. UNCHANGED <<server, leaving, doubt, visit>>
      BY <2>1 DEF Act
    <2> QED BY <1>0, <1>1, <2>3, <2>4, <2>5
            DEF TypeInv, ServerTyped, OrganizerTyped, DoubtTyped, server
  <1> QED BY <1>2, <1>3, <1>4

(* The answers to what the organizer's pages asked for. *)
LEMMA SavingFits ==
    ASSUME NEW c \in Fitting, c.op = "upload"
    PROVE  [c EXCEPT !.op = Saving(c.about), !.stage = "sent"] \in Fitting
  <1>1. Saving(c.about) \in OpOrNone /\ (Saving(c.about) = "update" => c.about \in Events)
        /\ Saving(c.about) \notin UserOps \cup {"add", "rename", "upload"}
        /\ (Saving(c.about) \in RowOps => Saving(c.about) = "update")
    BY DEF Saving, OpOrNone, Op, Fitting, Fits, UserOps, RowOps, EventOps
  <1> QED BY <1>1, CallIs, StageIs DEF Fitting, Fits

LEMMA OrganizerCallTyped ==
    ASSUME TypeInv, UNCHANGED adm, NEW n \in CallIds, OrganizerCall(n)
    PROVE  TypeInv'
  <1>0. ServerTyped /\ NetworkTyped /\ OrganizerTyped /\ AdminTyped /\ DoubtTyped
    BY DEF TypeInv
  <1>1. AdminTyped'
    BY <1>0 DEF AdminTyped
  <1>2. calls[n] \in Fitting /\ Fits(calls[n]) /\ calls[n].about \in About
    BY <1>0, CallIs DEF NetworkTyped, CallsFit, Fitting
  <1>3. ASSUME Settle(n), UNCHANGED <<server, doubt>>, org' \in Org, visit' \in Visit,
               org'.at = org.at, org'.event = org.event,
               leaving' \subseteq leaving \cup Events \cup {"dashboard"}
        PROVE  TypeInv'
    <2>1. NetworkTyped'
      BY <1>0, <1>3, SettleTyped
    <2> QED BY <1>0, <1>1, <1>3, <2>1
            DEF TypeInv, ServerTyped, OrganizerTyped, DoubtTyped, server
  <1>4. CASE OptionsAnswered(n)
    <2>1. PICK options \in SUBSET Categories : org' = [org EXCEPT !.options = options]
      BY <1>4 DEF OptionsAnswered, Offered
    <2>2. org' \in Org /\ org'.at = org.at /\ org'.event = org.event
      BY <1>0, <2>1 DEF OrganizerTyped, Org
    <2> QED BY <1>0, <1>3, <1>4, <2>2 DEF OptionsAnswered, OrganizerTyped
  <1>5. CASE FormAnswered(n)
    <2>1. calls[n].stage = "answered" => RowIn(calls[n].reply, calls[n].about) \in Row
      BY <1>2, <1>5, RowInTyped DEF FormAnswered, Settling, Fits, RowOps
    <2>2. Offered(n) \in SUBSET Categories
      BY DEF Offered
    <2>3. org' \in Org /\ org'.at = org.at /\ org'.event = org.event
      BY <1>0, <1>5, <2>1, <2>2 DEF FormAnswered, Settling, OrganizerTyped, Org
    <2> QED BY <1>0, <1>3, <1>5, <2>3 DEF FormAnswered, OrganizerTyped
  <1>6. CASE UploadAnswered(n)
    <2>1. calls' = [calls EXCEPT ![n] = [calls[n] EXCEPT !.op = Saving(calls[n].about),
                                                          !.stage = "sent"]]
      BY <1>0, <1>6 DEF UploadAnswered, NetworkTyped, CallsFit
    <2>2. CallsFit'
      BY <1>0, <1>2, <1>6, <2>1, SavingFits DEF UploadAnswered, NetworkTyped, CallsFit
    <2>3. UNCHANGED <<server, organizer, doubt, sent, lost>>
      BY <1>6 DEF UploadAnswered
    <2> QED BY <1>0, <1>1, <2>2, <2>3
            DEF TypeInv, ServerTyped, NetworkTyped, OrganizerTyped, DoubtTyped, server, organizer
  <1>7. ASSUME NEW op, NEW to \in Events \cup {"dashboard"}, Saved(n, op, to) PROVE TypeInv'
    <2>1. org' \in Org /\ org'.at = org.at /\ org'.event = org.event
      BY <1>0, <1>7 DEF Saved, OrganizerTyped, Org
    <2>2. visit' \in Visit
      BY <1>0, <1>7 DEF Saved, OrganizerTyped, Visit
    <2> QED BY <1>0, <1>3, <1>7, <2>1, <2>2 DEF Saved, OrganizerTyped
  <1>8. CASE EventCreated(n) \/ EventUpdated(n)
    <2>1. EventUpdated(n) => calls[n].about \in Events
      BY <1>2 DEF EventUpdated, Saved, Fits, RowOps, EventOps
    <2> QED BY <1>7, <1>8, <2>1 DEF EventCreated, EventUpdated
  <1>9. CASE SaveFailed(n)
    <2>1. org' \in Org /\ org'.at = org.at /\ org'.event = org.event
      BY <1>0, <1>9 DEF SaveFailed, OrganizerTyped, Org
    <2>2. PICK op, s : visit' = [visit EXCEPT !.tried = visit.tried \/ (op = "create" /\ s = "failed")]
      BY <1>9 DEF SaveFailed
    <2>3. (visit.tried \/ (op = "create" /\ s = "failed")) \in BOOLEAN
      OBVIOUS
    <2>4. visit' \in Visit
      BY <1>0, <2>2, <2>3 DEF OrganizerTyped, Visit
    <2> QED BY <1>0, <1>3, <1>9, <2>1, <2>4 DEF SaveFailed, OrganizerTyped
  <1>10. CASE DetailsAnswered(n)
    <2>1. calls[n].stage = "answered" => RowIn(calls[n].reply, calls[n].about) \in Row
      BY <1>2, <1>10, RowInTyped DEF DetailsAnswered, Settling, Fits, RowOps
    <2>2. org' \in Org /\ org'.at = org.at /\ org'.event = org.event
      BY <1>0, <1>10, <2>1 DEF DetailsAnswered, Settling, OrganizerTyped, Org
    <2> QED BY <1>0, <1>3, <1>10, <2>2 DEF DetailsAnswered, OrganizerTyped
  <1>11. CASE ActAnswered(n)
    <2>1. RowIn(calls[n].reply, calls[n].about) \in Row
      BY <1>2, <1>11, RowInTyped DEF ActAnswered, Settling, Fits, RowOps, EventOps
    <2>2. org' \in Org /\ org'.at = org.at /\ org'.event = org.event
      BY <1>0, <1>11, <2>1 DEF ActAnswered, OrganizerTyped, Org
    <2> QED BY <1>0, <1>3, <1>11, <2>2 DEF ActAnswered, OrganizerTyped
  <1>12. CASE ActFailed(n)
    <2>1. org' \in Org /\ org'.at = org.at /\ org'.event = org.event
      BY <1>0, <1>12 DEF ActFailed, OrganizerTyped, Org
    <2> QED BY <1>0, <1>3, <1>12, <2>1 DEF ActFailed, OrganizerTyped
  <1> QED BY <1>4, <1>5, <1>6, <1>8, <1>9, <1>10, <1>11, <1>12 DEF OrganizerCall

-----------------------------------------------------------------------------
(* The admin. *)
LEMMA AdmMountedTyped ==
    ASSUME NEW at \in {"dashboard", "review", "categories", "user"},
           NEW e \in Events \cup {None}
    PROVE  /\ AdmMounted(at, e) \in Adm
           /\ AdmMounted(at, e).at = at /\ AdmMounted(at, e).event = e
  <1>1. Absent \in Row /\ "active" \in AccountStatus
    BY DEF Absent, Row, EventStatus, AccountStatus
  <1>2. (at # "dashboard") \in BOOLEAN
    OBVIOUS
  <1> QED BY <1>1, <1>2 DEF AdmMounted, Adm

LEMMA AdminActsTyped ==
    ASSUME TypeInv, Admin
    PROVE  TypeInv'
  <1>0. ServerTyped /\ NetworkTyped /\ OrganizerTyped /\ AdminTyped /\ DoubtTyped
    BY DEF TypeInv
  <1>1. ASSUME UNCHANGED <<server, organizer>>, doubt' \subseteq doubt \cup {"review", "list", "user"},
               adm' \in Adm, adm'.at = "review" => adm'.event \in Events, NetworkTyped'
        PROVE  TypeInv'
    BY <1>0, <1>1 DEF TypeInv, ServerTyped, OrganizerTyped, AdminTyped, DoubtTyped, server,
                      organizer
  <1>2. ASSUME NEW op \in Op, NEW about \in About, NEW filter \in Filter, Send(op, about, filter),
               op \in RowOps => about \in Events, op \in {"add", "rename"} => filter \in Names,
               op \notin {"upload", "create", "update"}
        PROVE  NetworkTyped'
    BY <1>0, <1>2, SendTyped DEF Send, NetworkTyped, CallsFit
  <1>3. {"pending", "categories", "user", "approve", "reject", "changes", "add", "rename",
         "delete", "suspend", "activate"} \subseteq Op /\ Events \cup Categories \cup {None} \subseteq About
        /\ None \in Filter /\ Names \subseteq Filter
    BY DEF Op, About, Subject, Filter
  <1>4. {"categories", "user", "add", "rename", "delete", "suspend", "activate"} \cap RowOps = {}
    BY DEF RowOps, EventOps
  <1>5. ASSUME NEW at \in {"review", "categories", "user"},
               NEW op \in {"pending", "categories", "user"}, NEW e \in Events \cup {None},
               AdmEnter(at, op, e), at = "review" \/ op = "pending" => e \in Events,
               doubt' \subseteq doubt \cup {"review", "list", "user"}
        PROVE  TypeInv'
    <2>1. adm' \in Adm /\ adm'.at = at /\ adm'.event = e
      BY <1>5, AdmMountedTyped DEF AdmEnter
    <2>2. NetworkTyped'
      BY <1>2, <1>3, <1>4, <1>5 DEF AdmEnter
    <2> QED BY <1>1, <1>5, <2>1, <2>2 DEF AdmEnter
  <1>6. CASE (\E e \in Events : OpenReview(e)) \/ OpenCategories \/ OpenUser
    BY <1>5, <1>6 DEF OpenReview, OpenCategories, OpenUser
  <1>7. CASE AdmGoToDashboard
    <2>1. adm' \in Adm /\ adm'.at = "dashboard"
      BY <1>7, AdmMountedTyped DEF AdmGoToDashboard
    <2>2. NetworkTyped'
      BY <1>0, <1>7, AbandonTyped DEF AdmGoToDashboard
    <2> QED BY <1>1, <1>7, <2>1, <2>2 DEF AdmGoToDashboard
  <1>8. CASE CloseCategoryModal \/ OpenConfirm \/ CloseConfirm
             \/ \E modal \in {"add", "rename", "delete"}, c \in Categories \cup {None} :
                   OpenCategoryModal(modal, c)
    <2>1. PICK modal \in {"none", "add", "rename", "delete", "confirm"},
               c \in Categories \cup {None} :
               \/ adm' = [adm EXCEPT !.modal = modal]
               \/ adm' = [adm EXCEPT !.modal = modal, !.target = c]
      BY <1>8 DEF CloseCategoryModal, OpenConfirm, CloseConfirm, OpenCategoryModal
    <2>2. adm' \in Adm /\ adm'.at = adm.at /\ adm'.event = adm.event
      BY <1>0, <2>1 DEF AdminTyped, Adm
    <2>3. UNCHANGED <<server, network, organizer, doubt>>
      BY <1>8 DEF CloseCategoryModal, OpenConfirm, CloseConfirm, OpenCategoryModal
    <2> QED BY <1>0, <1>1, <2>2, <2>3 DEF NetworkTyped, CallsFit, AdminTyped, network
  <1>9. CASE OnConfirmAction \/ ConfirmDelete
             \/ (\E op \in {"approve", "reject", "changes"} : RunAction(op))
             \/ \E name \in Names : SubmitCategory(name)
    <2>1. adm' \in {[adm EXCEPT !.busy = TRUE], [adm EXCEPT !.saving = TRUE],
                    [adm EXCEPT !.deleting = TRUE]}
      BY <1>9 DEF OnConfirmAction, ConfirmDelete, RunAction, SubmitCategory
    <2>2. adm' \in Adm /\ adm'.at = adm.at /\ adm'.event = adm.event
      BY <1>0, <2>1 DEF AdminTyped, Adm
    <2>3. UNCHANGED <<server, organizer, doubt>>
      BY <1>9 DEF OnConfirmAction, ConfirmDelete, RunAction, SubmitCategory
    <2>4. NetworkTyped'
      <3>1. CASE OnConfirmAction
        BY <1>2, <1>3, <1>4, <3>1 DEF OnConfirmAction
      <3>2. CASE ConfirmDelete
        BY <1>0, <1>2, <1>3, <1>4, <3>2 DEF ConfirmDelete, AdminTyped, Adm
      <3>3. CASE \E op \in {"approve", "reject", "changes"} : RunAction(op)
        BY <1>0, <1>2, <1>3, <3>3 DEF RunAction, AdminTyped
      <3>4. CASE \E name \in Names : SubmitCategory(name)
        BY <1>0, <1>2, <1>3, <1>4, <3>4 DEF SubmitCategory, AdminTyped, Adm
      <3> QED BY <1>9, <3>1, <3>2, <3>3, <3>4
    <2> QED BY <1>0, <1>1, <2>2, <2>3, <2>4 DEF AdminTyped
  <1> QED BY <1>6, <1>7, <1>8, <1>9 DEF Admin

(* The answers to what the admin's pages asked for. *)
LEMMA AdminCallTyped ==
    ASSUME TypeInv, NEW n \in CallIds, AdminCall(n)
    PROVE  TypeInv'
  <1>0. ServerTyped /\ NetworkTyped /\ OrganizerTyped /\ AdminTyped /\ DoubtTyped
    BY DEF TypeInv
  <1>1. calls[n] \in Fitting /\ Fits(calls[n])
    BY <1>0 DEF NetworkTyped, CallsFit, Fitting
  <1>2. UNCHANGED <<server, organizer, doubt>>
    BY DEF AdminCall, PendingAnswered, RunActionSettled, CategoryChanged, CategoryChangeFailed,
           CategoriesLoaded, UserAnswered, ConfirmSettled
  <1>3. ASSUME NetworkTyped', adm' \in Adm, adm'.at = adm.at, adm'.event = adm.event
        PROVE  TypeInv'
    BY <1>0, <1>2, <1>3 DEF TypeInv, ServerTyped, OrganizerTyped, AdminTyped, DoubtTyped, server,
                            organizer
  <1>4. ASSUME Settle(n) PROVE NetworkTyped'
    BY <1>0, <1>4, SettleTyped
  <1>5. calls[n].stage = "answered" /\ calls[n].op \in RowOps =>
           RowIn(calls[n].reply, calls[n].about) \in Row
    BY <1>1, RowInTyped DEF Fits
  <1>6. calls[n].stage = "answered" /\ calls[n].op \in UserOps => AccountIn(n) \in AccountStatus
    BY <1>1 DEF Fits, HasAccount, AccountIn
  <1>7. CASE PendingAnswered(n)
    <2>1. adm' \in Adm /\ adm'.at = adm.at /\ adm'.event = adm.event
      BY <1>0, <1>5, <1>7 DEF PendingAnswered, Settling, RowOps, AdminTyped, Adm
    <2> QED BY <1>3, <1>4, <1>7, <2>1 DEF PendingAnswered
  <1>8. CASE RunActionSettled(n)
    <2>1. /\ adm' = [adm EXCEPT !.busy = FALSE]
             \/ adm' = [adm EXCEPT !.busy = FALSE,
                                   !.shown = Merged(@, RowIn(calls[n].reply, calls[n].about))]
          /\ calls[n].stage = "answered" \/ adm' = [adm EXCEPT !.busy = FALSE]
          /\ calls[n].op \in RowOps
      BY <1>8 DEF RunActionSettled, Settling, RowOps, EventOps
    <2>2. ASSUME NEW row \in Row PROVE Merged(adm.shown, row) \in Row
      <3>1. adm.shown \in Row
        BY <1>0 DEF AdminTyped, Adm
      <3> QED BY <3>1 DEF Merged, Row
    <2>3. calls[n].stage = "answered" =>
             Merged(adm.shown, RowIn(calls[n].reply, calls[n].about)) \in Row
      BY <1>5, <2>1, <2>2
    <2>4. adm' \in Adm /\ adm'.at = adm.at /\ adm'.event = adm.event
      BY <1>0, <2>1, <2>3 DEF AdminTyped, Adm
    <2> QED BY <1>3, <1>4, <1>8, <2>4 DEF RunActionSettled
  <1>9. CASE CategoryChanged(n)
    <2>1. PICK op \in {"after_save", "after_delete"} :
             calls' = [calls EXCEPT ![n] = NewCall(op, None, None)]
      BY <1>9 DEF CategoryChanged
    <2>2. op \in Op /\ op \notin RowOps /\ None \in About /\ None \in Filter
      BY DEF Op, RowOps, EventOps, About, Filter
    <2>3. NewCall(op, None, None) \in Fitting
      BY <2>2, NewFits
    <2>4. NetworkTyped'
      BY <1>0, <1>9, <2>1, <2>3 DEF CategoryChanged, NetworkTyped, CallsFit
    <2>5. adm' \in Adm /\ adm'.at = adm.at /\ adm'.event = adm.event
      BY <1>0, <1>9 DEF CategoryChanged, AdminTyped, Adm
    <2> QED BY <1>3, <2>4, <2>5
  <1>10. CASE CategoryChangeFailed(n)
    <2>1. adm' \in Adm /\ adm'.at = adm.at /\ adm'.event = adm.event
      BY <1>0, <1>10 DEF CategoryChangeFailed, AdminTyped, Adm
    <2> QED BY <1>3, <1>4, <1>10, <2>1 DEF CategoryChangeFailed
  <1>11. CASE CategoriesLoaded(n)
    <2>1. Listed(n) \in [Categories -> Names \cup {None}]
      BY DEF Listed
    <2>2. PICK op \in Loads, s \in {"answered", "failed"} :
             adm' = [adm EXCEPT !.loading = FALSE,
                                !.list = IF s = "answered" THEN Listed(n) ELSE adm.list,
                                !.saving = adm.saving /\ op # "after_save",
                                !.deleting = adm.deleting /\ op # "after_delete"]
      BY <1>11 DEF CategoriesLoaded
    <2>3. PICK list, saving, deleting :
             /\ list = IF s = "answered" THEN Listed(n) ELSE adm.list
             /\ saving = (adm.saving /\ op # "after_save")
             /\ deleting = (adm.deleting /\ op # "after_delete")
      OBVIOUS
    <2>4. list \in [Categories -> Names \cup {None}]
      BY <1>0, <2>1, <2>3 DEF AdminTyped, Adm
    <2>5. saving \in BOOLEAN /\ deleting \in BOOLEAN
      BY <2>3
    <2>6. adm' = [adm EXCEPT !.loading = FALSE, !.list = list, !.saving = saving,
                             !.deleting = deleting]
      BY <2>2, <2>3
    <2>7. adm' \in Adm /\ adm'.at = adm.at /\ adm'.event = adm.event
      BY <1>0, <2>4, <2>5, <2>6 DEF AdminTyped, Adm
    <2> QED BY <1>3, <1>4, <1>11, <2>7 DEF CategoriesLoaded
  <1>12. CASE UserAnswered(n)
    <2>1. adm' \in Adm /\ adm'.at = adm.at /\ adm'.event = adm.event
      BY <1>0, <1>6, <1>12 DEF UserAnswered, Settling, UserOps, AdminTyped, Adm
    <2> QED BY <1>3, <1>4, <1>12, <2>1 DEF UserAnswered
  <1>13. CASE ConfirmSettled(n)
    <2>1. adm' \in Adm /\ adm'.at = adm.at /\ adm'.event = adm.event
      BY <1>0, <1>6, <1>13 DEF ConfirmSettled, Settling, UserOps, AdminTyped, Adm
    <2> QED BY <1>3, <1>4, <1>13, <2>1 DEF ConfirmSettled
  <1> QED BY <1>7, <1>8, <1>9, <1>10, <1>11, <1>12, <1>13 DEF AdminCall

-----------------------------------------------------------------------------
(* The server. *)
LEMMA ChangedTyped ==
    ASSUME NEW op \in EventOps, NEW row \in Row, NEW form, op = "update" => form \in Form
    PROVE  Changed(op, row, form) \in Row
  <1>1. {"published", "rejected", "registration_closed", "cancelled"} \subseteq EventStatus
    BY DEF EventStatus
  <1>2. \A s \in EventStatus : [row EXCEPT !.status = s] \in Row
    BY DEF Row
  <1>3. op = "update" => [row EXCEPT !.category = form.category, !.picture = form.picture] \in Row
    BY DEF Row, Form, Picture
  <1> QED BY <1>1, <1>2, <1>3 DEF Changed, EventOps

LEMMA NoWorkTyped == NoWork \in Work /\ Absent \in Row
  BY DEF NoWork, Work, Absent, Row, EventStatus

LEMMA FinishTyped ==
    ASSUME NEW n \in CallIds, work \in [CallIds -> Work], Finish(n)
    PROVE  work' \in [CallIds -> Work]
  BY NoWorkTyped DEF Finish

LEMMA RefusedTyped ==
    ASSUME TypeInv, NEW n \in CallIds, Refused(n)
    PROVE  TypeInv'
  <1>0. ServerTyped /\ NetworkTyped /\ OrganizerTyped /\ AdminTyped /\ DoubtTyped
    BY DEF TypeInv
  <1>1. NetworkTyped'
    BY <1>0, RefuseFits DEF Refused, NetworkTyped, Refuse
  <1>2. work' \in [CallIds -> Work]
    BY <1>0, FinishTyped DEF Refused, ServerTyped
  <1>3. UNCHANGED <<events, names, account, pages, doubt>>
    BY DEF Refused
  <1> QED BY <1>0, <1>1, <1>2, <1>3
          DEF TypeInv, ServerTyped, OrganizerTyped, AdminTyped, DoubtTyped, pages, organizer

LEMMA DoubtIs ==
    ASSUME NEW n \in CallIds
    PROVE  /\ Overtaken(n) \subseteq {"list"}
           /\ CopyOf(calls[n].op) \subseteq {"details", "review", "list", "user"}
           /\ \A e : Showing(e) \subseteq {"details", "review"}
  BY DEF Overtaken, CopyOf, Showing

(* A step of the server that leaves the tabs alone. *)
LEMMA ServerOnlyTyped ==
    ASSUME TypeInv, NEW n \in CallIds, ServerTyped', NetworkTyped',
           UNCHANGED <<org, leaving, adm>>, visit' \in Visit,
           doubt' \subseteq doubt \cup {"details", "review", "list", "user"}
    PROVE  TypeInv'
  BY DEF TypeInv, OrganizerTyped, AdminTyped, DoubtTyped

LEMMA EventServedTyped ==
    ASSUME TypeInv, NEW n \in CallIds,
           ReadEvent(n) \/ UpdateEvent(n) \/ CreateEvent(n) \/ DetachEvents(n)
    PROVE  TypeInv'
  <1>0. ServerTyped /\ NetworkTyped /\ OrganizerTyped /\ AdminTyped /\ DoubtTyped
    BY DEF TypeInv
  <1>1. calls[n] \in Fitting /\ Fits(calls[n])
    BY <1>0 DEF NetworkTyped, CallsFit, Fitting
  <1>2. CASE Refused(n)
    BY <1>2, RefusedTyped
  <1>3. ASSUME NEW row \in Row, Begin(n, row), UNCHANGED doubt \/ DetachEvents(n),
               events' \in [Events -> Row]
        PROVE  TypeInv'
    <2>1. ServerTyped' /\ NetworkTyped'
      BY <1>0, <1>3 DEF Begin, ServerTyped, NetworkTyped, CallsFit, Work, network
    <2>2. UNCHANGED <<org, leaving, adm, visit>>
      BY <1>3 DEF Begin, pages, organizer
    <2>3. DoubtTyped'
      <3>1. CASE UNCHANGED doubt
        BY <1>0, <3>1 DEF DoubtTyped
      <3>2. CASE DetachEvents(n)
        <4>1. CASE Refused(n)
          BY <1>0, <4>1 DEF Refused, DoubtTyped
        <4>2. CASE doubt' = doubt \cup UNION {Showing(e) : e \in {x \in Events :
                                                 events[x].category = calls[n].about}}
          BY <1>0, <4>2, DoubtIs DEF DoubtTyped
        <4> QED BY <3>2, <4>1, <4>2 DEF DetachEvents
      <3> QED BY <1>3, <3>1, <3>2
    <2> QED BY <1>0, <2>1, <2>2, <2>3 DEF TypeInv, OrganizerTyped, AdminTyped
  <1>4. CASE ReadEvent(n)
    <2>1. calls[n].op \in EventOps /\ calls[n].about \in Events
      BY <1>1, <1>4 DEF ReadEvent, Waits, Fits, RowOps
    <2>2. Changed(calls[n].op, events[calls[n].about], calls[n].filter) \in Row
      BY <1>0, <1>1, <2>1, ChangedTyped DEF ServerTyped, Fits
    <2> QED BY <1>0, <1>2, <1>3, <1>4, <2>2 DEF ReadEvent, ServerTyped
  <1>5. CASE UpdateEvent(n)
    <2>1. SUFFICES ASSUME ~Refused(n) PROVE TypeInv'
      BY <1>2
    <2>2. calls[n].op \in EventOps /\ calls[n].about \in Events /\ work[n].row \in Row
      BY <1>0, <1>1, <1>5 DEF UpdateEvent, Fits, RowOps, ServerTyped, Work
    <2>3. calls[n].op \notin UserOps
      BY <2>2 DEF EventOps, UserOps
    <2>4. NetworkTyped'
      <3>1. Answer(n, RowReply(work[n].row, calls[n].about))
        BY <1>5, <2>1 DEF UpdateEvent
      <3>2. CallsFit'
        BY <1>0, <2>2, <2>3, <3>1, AnswerFits, RowReplyTyped DEF NetworkTyped
      <3> QED BY <1>0, <3>1, <3>2 DEF Answer, NetworkTyped
    <2>5. ServerTyped'
      <3>1. work' \in [CallIds -> Work]
        BY <1>0, <1>5, <2>1, FinishTyped DEF UpdateEvent, ServerTyped
      <3> QED BY <1>0, <1>5, <2>1, <2>2, <3>1 DEF UpdateEvent, ServerTyped
    <2>6. doubt' \subseteq doubt \cup {"details", "review", "list", "user"}
      BY <1>5, <2>1, DoubtIs DEF UpdateEvent
    <2> QED BY <1>0, <1>5, <2>1, <2>4, <2>5, <2>6, ServerOnlyTyped
            DEF UpdateEvent, OrganizerTyped, pages, organizer
  <1>6. CASE CreateEvent(n)
    <2>1. SUFFICES ASSUME ~Refused(n) PROVE TypeInv'
      BY <1>2
    <2>2. calls[n].op = "create" /\ calls[n].filter \in Form
      BY <1>1, <1>6 DEF CreateEvent, Waits, Fits
    <2>3. "create" \notin RowOps /\ "create" \notin UserOps
      BY DEF RowOps, EventOps, UserOps
    <2>4. NetworkTyped'
      <3>1. Answer(n, {})
        BY <1>6, <2>1 DEF CreateEvent
      <3>2. CallsFit'
        BY <1>0, <2>2, <2>3, <3>1, AnswerFits, NothingRepliedIs DEF NetworkTyped
      <3> QED BY <1>0, <3>1, <3>2 DEF Answer, NetworkTyped
    <2>5. [status |-> "pending", category |-> calls[n].filter.category,
           picture |-> calls[n].filter.picture] \in Row
      BY <2>2 DEF Form, Picture, Row, EventStatus
    <2>6. ServerTyped'
      BY <1>0, <1>6, <2>1, <2>5 DEF CreateEvent, ServerTyped
    <2>7. visit' \in Visit
      <3>1. visit.made + 1 \in Nat
        BY <1>0 DEF OrganizerTyped, Visit
      <3> QED BY <1>0, <1>6, <2>1, <3>1 DEF CreateEvent, OrganizerTyped, Visit
    <2> QED BY <1>0, <1>6, <2>1, <2>4, <2>6, <2>7, ServerOnlyTyped DEF CreateEvent
  <1>7. CASE DetachEvents(n)
    <2>1. SUFFICES ASSUME ~Refused(n) PROVE TypeInv'
      BY <1>2
    <2>2. \A e \in Events : [events[e] EXCEPT !.category = None] \in Row
      BY <1>0 DEF ServerTyped, Row
    <2>3. events' \in [Events -> Row]
      BY <1>0, <1>7, <2>1, <2>2 DEF DetachEvents, ServerTyped
    <2> QED BY <1>3, <1>7, <2>1, <2>3, NoWorkTyped DEF DetachEvents
  <1> QED BY <1>4, <1>5, <1>6, <1>7

LEMMA AnswerTyped ==
    ASSUME NetworkTyped, NEW n \in CallIds, NEW reply \in Reply, Answer(n, reply),
           calls[n].op \in RowOps => HasRow(reply, calls[n].about),
           calls[n].op \in UserOps => HasAccount(reply)
    PROVE  NetworkTyped'
  BY AnswerFits DEF NetworkTyped, Answer

LEMMA PageServedTyped ==
    ASSUME TypeInv, NEW n \in CallIds,
           UploadImage(n) \/ GetMine(n) \/ ListActive(n) \/ ListPending(n) \/ ListAll(n) \/ GetUser(n)
    PROVE  TypeInv'
  <1>0. ServerTyped /\ NetworkTyped /\ OrganizerTyped /\ AdminTyped /\ DoubtTyped
    BY DEF TypeInv
  <1>1. calls[n] \in Fitting /\ Fits(calls[n])
    BY <1>0 DEF NetworkTyped, CallsFit, Fitting
  <1>2. ASSUME NetworkTyped' PROVE TypeInv'
    <2>1. UNCHANGED <<server, pages>> /\ doubt' \subseteq doubt
      BY DEF UploadImage, GetMine, ListActive, ListPending, ListAll, GetUser
    <2> QED BY <1>0, <1>2, <2>1
            DEF TypeInv, ServerTyped, OrganizerTyped, AdminTyped, DoubtTyped, pages, organizer, server
  <1>3. ASSUME NEW reply \in Reply, Answer(n, reply), calls[n].op \notin RowOps \cup UserOps
        PROVE  TypeInv'
    BY <1>0, <1>2, <1>3, AnswerTyped
  <1>4. ASSUME Refuse(n) PROVE TypeInv'
    BY <1>0, <1>2, <1>4, RefuseFits DEF NetworkTyped, Refuse
  <1>5. {"upload", "options"} \cup Loads \subseteq Op \ (RowOps \cup UserOps)
    BY DEF Op, RowOps, EventOps, UserOps, Loads
  <1>6. {"offered"} \X Existing \in Reply
    BY DEF Reply, Topic, Subject, Existing
  <1>7. CASE UploadImage(n)
    BY <1>3, <1>4, <1>5, <1>7, NothingRepliedIs DEF UploadImage, Waits
  <1>8. CASE ListActive(n)
    BY <1>3, <1>5, <1>6, <1>8 DEF ListActive, Waits
  <1>9. CASE ListAll(n)
    <2>1. {r \in Names \X Categories : names[r[2]] = r[1]} \in Reply
      BY DEF Reply, Topic, Subject
    <2> QED BY <1>3, <1>5, <1>9, <2>1 DEF ListAll, Waits
  <1>10. CASE GetMine(n) \/ ListPending(n)
    <2>1. calls[n].op \in {"details", "form", "pending"} /\ calls[n].about \in Events
      BY <1>1, <1>10 DEF GetMine, ListPending, Waits, Fits, RowOps
    <2>2. calls[n].op \notin UserOps /\ events[calls[n].about] \in Row
      BY <1>0, <2>1 DEF UserOps, ServerTyped
    <2>3. ASSUME NEW more \in Reply, Answer(n, RowReply(events[calls[n].about], calls[n].about) \cup more)
          PROVE  TypeInv'
      <3>1. PICK reply : reply = RowReply(events[calls[n].about], calls[n].about) \cup more
        OBVIOUS
      <3>2. reply \in Reply /\ HasRow(reply, calls[n].about)
        BY <2>1, <2>2, <3>1, RowReplyTyped DEF Reply, HasRow
      <3> QED BY <1>0, <1>2, <2>2, <2>3, <3>1, <3>2, AnswerTyped
    <2>4. CASE GetMine(n)
      BY <1>6, <2>3, <2>4, NothingRepliedIs DEF GetMine
    <2>5. CASE ListPending(n)
      <3>1. RowReply(events[calls[n].about], calls[n].about) =
            RowReply(events[calls[n].about], calls[n].about) \cup {}
        OBVIOUS
      <3> QED BY <1>4, <2>3, <2>5, <3>1, NothingRepliedIs DEF ListPending
    <2> QED BY <1>10, <2>4, <2>5
  <1>11. CASE GetUser(n)
    <2>1. {<<account, User>>} \in Reply /\ HasAccount({<<account, User>>})
      BY <1>0 DEF ServerTyped, Reply, Topic, Subject, HasAccount
    <2>2. calls[n].op \notin RowOps
      BY <1>11 DEF GetUser, Waits, RowOps, EventOps
    <2> QED BY <1>0, <1>2, <1>11, <2>1, <2>2, AnswerTyped DEF GetUser
  <1> QED BY <1>7, <1>8, <1>9, <1>10, <1>11

LEMMA CategoryServedTyped ==
    ASSUME TypeInv, NEW n \in CallIds,
           AddCategory(n) \/ RenameCategory(n) \/ DeleteRow(n) \/ SetStatus(n)
    PROVE  TypeInv'
  <1>0. ServerTyped /\ NetworkTyped /\ OrganizerTyped /\ AdminTyped /\ DoubtTyped
    BY DEF TypeInv
  <1>1. calls[n] \in Fitting /\ Fits(calls[n])
    BY <1>0 DEF NetworkTyped, CallsFit, Fitting
  <1>2. SUFFICES ASSUME ~Refused(n) PROVE TypeInv'
    BY RefusedTyped
  <1>3. CASE AddCategory(n) \/ RenameCategory(n) \/ DeleteRow(n)
    <2>1. calls[n].op \in {"add", "rename", "delete"} /\ Answer(n, {})
      BY <1>2, <1>3 DEF AddCategory, RenameCategory, DeleteRow, Waits
    <2>2. calls[n].op \notin RowOps \cup UserOps
      BY <2>1 DEF RowOps, EventOps, UserOps
    <2>3. NetworkTyped'
      BY <1>0, <2>1, <2>2, AnswerTyped, NothingRepliedIs
    <2>4. names' \in [Categories -> Category]
      BY <1>0, <1>1, <1>2, <1>3
         DEF AddCategory, RenameCategory, DeleteRow, Waits, Fits, ServerTyped, Category
    <2>5. UNCHANGED <<events, account, pages>> /\ work' \in [CallIds -> Work]
      BY <1>0, <1>2, <1>3, FinishTyped DEF AddCategory, RenameCategory, DeleteRow, ServerTyped
    <2>6. doubt' \subseteq doubt \cup {"list"}
      BY <1>2, <1>3, DoubtIs DEF AddCategory, RenameCategory, DeleteRow
    <2> QED BY <1>0, <2>3, <2>4, <2>5, <2>6
            DEF TypeInv, ServerTyped, OrganizerTyped, AdminTyped, DoubtTyped, pages, organizer
  <1>4. CASE SetStatus(n)
    <2>1. account' \in AccountStatus /\ calls[n].op \in {"suspend", "activate"}
      BY <1>4 DEF SetStatus, Waits, AccountStatus
    <2>2. PICK status : status = account'
      OBVIOUS
    <2>3. {<<status, User>>} \in Reply /\ HasAccount({<<status, User>>})
      BY <2>1, <2>2 DEF Reply, Topic, Subject, HasAccount
    <2>4. calls[n].op \notin RowOps
      BY <2>1 DEF RowOps, EventOps
    <2>5. NetworkTyped'
      BY <1>0, <1>4, <2>2, <2>3, <2>4, AnswerTyped DEF SetStatus
    <2>6. UNCHANGED <<events, names, work, pages>> /\ doubt' \subseteq doubt \cup {"user"}
      BY <1>4 DEF SetStatus
    <2> QED BY <1>0, <2>1, <2>5, <2>6
            DEF TypeInv, ServerTyped, OrganizerTyped, AdminTyped, DoubtTyped, pages, organizer
  <1> QED BY <1>3, <1>4

LEMMA RestTyped ==
    ASSUME TypeInv, AnotherAdmin \/ \E n \in CallIds : CallFails(n) \/ NobodyHears(n)
    PROVE  TypeInv'
  <1>0. ServerTyped /\ NetworkTyped /\ OrganizerTyped /\ AdminTyped /\ DoubtTyped
    BY DEF TypeInv
  <1>1. CASE AnotherAdmin
    <2>1. sent' \in 0..MaxCalls
      BY <1>0, <1>1, BoundsAreNatural DEF AnotherAdmin, NetworkTyped
    <2> QED BY <1>0, <1>1, <2>1
            DEF AnotherAdmin, TypeInv, ServerTyped, NetworkTyped, CallsFit, OrganizerTyped,
                AdminTyped, DoubtTyped, pages, organizer
  <1>2. ASSUME NEW n \in CallIds, CallFails(n) PROVE TypeInv'
    <2>1. NetworkTyped'
      <3>1. CallsFit'
        BY <1>0, <1>2, FailFits DEF CallFails, NetworkTyped
      <3>2. sent' \in 0..MaxCalls /\ lost' \in 0..MaxLost
        BY <1>0, <1>2, BoundsAreNatural DEF CallFails, NetworkTyped, Fail
      <3> QED BY <3>1, <3>2 DEF NetworkTyped
    <2>2. work' \in [CallIds -> Work]
      BY <1>0, <1>2, FinishTyped DEF CallFails, ServerTyped
    <2>3. DoubtTyped'
      BY <1>0, <1>2, DoubtIs DEF CallFails, DoubtTyped
    <2> QED BY <1>0, <1>2, <2>1, <2>2, <2>3
            DEF CallFails, TypeInv, ServerTyped, OrganizerTyped, AdminTyped, pages, organizer
  <1>3. ASSUME NEW n \in CallIds, NobodyHears(n) PROVE TypeInv'
    <2>1. NetworkTyped'
      BY <1>0, <1>3, SettleTyped DEF NobodyHears
    <2> QED BY <1>0, <1>3, <2>1
            DEF NobodyHears, TypeInv, ServerTyped, OrganizerTyped, AdminTyped, DoubtTyped, pages,
                organizer, server
  <1> QED BY <1>1, <1>2, <1>3

LEMMA TypesStart == Init => TypeInv
  <1> SUFFICES ASSUME Init PROVE TypeInv
    OBVIOUS
  <1>1. ServerTyped
    BY NoWorkTyped DEF Init, ServerTyped, Row, Absent, EventStatus, Category, AccountStatus
  <1>2. NetworkTyped
    BY NoCallFits, BoundsAreNatural DEF Init, NetworkTyped, CallsFit
  <1>3. OrganizerTyped
    BY MountedTyped, NewVisitTyped DEF Init, OrganizerTyped
  <1>4. AdminTyped
    BY AdmMountedTyped DEF Init, AdminTyped
  <1> QED BY <1>1, <1>2, <1>3, <1>4 DEF TypeInv, DoubtTyped, Init

LEMMA TypesStay == TypeInv /\ [Next]_vars => TypeInv'
  <1> SUFFICES ASSUME TypeInv, [Next]_vars PROVE TypeInv'
    OBVIOUS
  <1>1. CASE Organizer /\ UNCHANGED adm
    BY <1>1, NavigationTyped, OrganizerActsTyped DEF Organizer
  <1>2. CASE Admin
    BY <1>2, AdminActsTyped
  <1>3. ASSUME NEW n \in CallIds, CallGoesOn(n) PROVE TypeInv'
    BY <1>3, OrganizerCallTyped, AdminCallTyped, EventServedTyped, PageServedTyped,
       CategoryServedTyped, RestTyped DEF CallGoesOn, ServerStep
  <1>4. CASE AnotherAdmin \/ \E n \in CallIds : CallFails(n)
    BY <1>4, RestTyped
  <1>5. CASE UNCHANGED vars
    BY <1>5 DEF vars, server, network, pages, organizer, TypeInv, ServerTyped, NetworkTyped,
                CallsFit, OrganizerTyped, AdminTyped, DoubtTyped
  <1> QED BY <1>1, <1>2, <1>3, <1>4, <1>5 DEF Next

(* Both tabs, their requests, the tables and what the server has read are
   type correct in every reachable state: a page that reads a row out of an
   answer finds one there.                                                 *)
THEOREM PagesTyped == Spec => []TypeOK
  BY TypesStart, TypesStay, TypeInvTypes, PTL DEF Spec

-----------------------------------------------------------------------------
(* Categories. *)

(* No event is in a category that is gone: each statement that attaches one
   checks the key, and the deletion does so last of all.                   *)
LEMMA NothingDangles == TypeInv /\ NoDanglingCategory /\ [Next]_vars => NoDanglingCategory'
  <1> SUFFICES ASSUME TypeInv, NoDanglingCategory, [Next]_vars PROVE NoDanglingCategory'
    OBVIOUS
  <1>0. /\ events \in [Events -> Row] /\ names \in [Categories -> Category]
        /\ \A n \in CallIds : Fits(calls[n])
    BY DEF TypeInv, ServerTyped, NetworkTyped, CallsFit, Fitting
  <1>1. CASE UNCHANGED <<events, names>>
    BY <1>1 DEF NoDanglingCategory, Attachable, Existing
  <1>2. ASSUME NEW n \in CallIds, UpdateEvent(n), ~UNCHANGED <<events, names>>
        PROVE  NoDanglingCategory'
    <2>1. /\ Attachable(work[n].row.category) /\ names' = names
          /\ events' = [events EXCEPT ![calls[n].about] = work[n].row]
      BY <1>2 DEF UpdateEvent, Refused
    <2> QED BY <1>0, <2>1 DEF NoDanglingCategory, Attachable, Existing
  <1>3. ASSUME NEW n \in CallIds, CreateEvent(n), ~UNCHANGED <<events, names>>
        PROVE  NoDanglingCategory'
    <2>1. PICK e \in Events : \E row : /\ events' = [events EXCEPT ![e] = row]
                                      /\ row.category = calls[n].filter.category
      BY <1>3 DEF CreateEvent, Refused
    <2>3. PICK row : /\ events' = [events EXCEPT ![e] = row]
                     /\ row.category = calls[n].filter.category
      BY <2>1
    <2>2. Attachable(calls[n].filter.category) /\ names' = names
      BY <1>3 DEF CreateEvent, Refused
    <2> QED BY <1>0, <2>2, <2>3 DEF NoDanglingCategory, Attachable, Existing
  <1>4. ASSUME NEW n \in CallIds, DetachEvents(n), ~UNCHANGED <<events, names>>
        PROVE  NoDanglingCategory'
    <2>1. names' = names
      BY <1>4 DEF DetachEvents, Begin, Refused
    <2>2. \A e \in Events : events'[e].category \in {None, events[e].category}
      BY <1>0, <1>4 DEF DetachEvents, Refused, Row
    <2> QED BY <2>1, <2>2 DEF NoDanglingCategory, Attachable, Existing
  <1>5. ASSUME NEW n \in CallIds, AddCategory(n) \/ RenameCategory(n),
               ~UNCHANGED <<events, names>>
        PROVE  NoDanglingCategory'
    <2>1. PICK c : names' = [names EXCEPT ![c] = calls[n].filter]
      BY <1>5 DEF AddCategory, RenameCategory, Refused
    <2>2. calls[n].filter \in Names /\ events' = events
      BY <1>0, <1>5 DEF AddCategory, RenameCategory, Refused, Waits, Fits
    <2> QED BY <1>0, <2>1, <2>2 DEF NoDanglingCategory, Attachable, Existing
  <1>6. ASSUME NEW n \in CallIds, DeleteRow(n), ~UNCHANGED <<events, names>>
        PROVE  NoDanglingCategory'
    <2>1. /\ names' = [names EXCEPT ![calls[n].about] = "deleted"] /\ events' = events
          /\ \A e \in Events : events[e].category # calls[n].about
      BY <1>6 DEF DeleteRow, Refused
    <2> QED BY <1>0, <2>1 DEF NoDanglingCategory, Attachable, Existing
  <1>7. CASE (Organizer /\ UNCHANGED adm) \/ Admin \/ AnotherAdmin
    <2>1. UNCHANGED <<events, names>>
      BY <1>7
         DEF Organizer, OpenEvent, OpenCreate, GoToDashboard, KeepAsItIs, Navigate, SubmitNew,
             SubmitEdit, Submit, OpenClose, OpenCancel, OpenModal, OnCloseRegistration,
             OnReopenRegistration, OnCancelEvent, Act, Admin, OpenReview, OpenCategories,
             AdmGoToDashboard, CloseCategoryModal, ConfirmDelete, OpenUser, OpenConfirm,
             CloseConfirm, OnConfirmAction, RunAction, OpenCategoryModal, SubmitCategory,
             AdmEnter, AnotherAdmin, server
    <2> QED BY <1>1, <2>1
  <1>8. ASSUME NEW n \in CallIds, CallGoesOn(n) \/ CallFails(n), ~UNCHANGED <<events, names>>
        PROVE  \/ UpdateEvent(n) \/ CreateEvent(n) \/ DetachEvents(n)
               \/ AddCategory(n) \/ RenameCategory(n) \/ DeleteRow(n)
    BY <1>8
       DEF CallGoesOn, CallFails, OrganizerCall, OptionsAnswered, FormAnswered, UploadAnswered,
           EventCreated, EventUpdated, Saved, SaveFailed, DetailsAnswered, ActAnswered,
           ActFailed, AdminCall, PendingAnswered, RunActionSettled, CategoryChanged,
           CategoryChangeFailed, CategoriesLoaded, UserAnswered, ConfirmSettled, ServerStep,
           ReadEvent, Begin, Refused, UploadImage, GetMine, ListActive, ListPending, ListAll,
           GetUser, SetStatus, NobodyHears, server
  <1>9. CASE UNCHANGED vars
    BY <1>1, <1>9 DEF vars, server
  <1> QED BY <1>1, <1>2, <1>3, <1>4, <1>5, <1>6, <1>7, <1>8, <1>9 DEF Next

(* Whatever the requests that save an event and the two statements of a
   deletion do in between one another, no event is left in a category that
   has been deleted.                                                       *)
THEOREM CategoriesHold == Spec => []NoDanglingCategory
  <1>1. Init => NoDanglingCategory
    <2> SUFFICES ASSUME Init PROVE NoDanglingCategory
      OBVIOUS
    <2>1. PICK submitted \in SUBSET Events, first \in Categories, name \in Names :
             /\ names = [c \in Categories |-> IF c = first THEN name ELSE "unused"]
             /\ events = [e \in Events |->
                             IF e \in submitted
                             THEN [status |-> "pending", category |-> first, picture |-> TRUE]
                             ELSE Absent]
      BY DEF Init
    <2>2. \A e \in Events : events[e].category \in {first, None}
      BY <2>1 DEF Absent
    <2>3. first \in Existing
      BY <2>1 DEF Existing
    <2> QED BY <2>2, <2>3 DEF NoDanglingCategory, Attachable
  <1>2. TypeInv /\ NoDanglingCategory /\ [Next]_vars => TypeInv' /\ NoDanglingCategory'
    BY TypesStay, NothingDangles
  <1> QED BY <1>1, <1>2, TypesStart, PTL DEF Spec

-----------------------------------------------------------------------------
(* The form that creates an event. *)

(* A request of the form, whose page is there to hear of it. *)
Creating(c) == c.live /\ (c.op = "create" \/ (c.op = "upload" /\ c.about = None))

(* A request that changes an event and belongs to another page. *)
Elsewhere(c) ==
    c.live /\ (c.op \in {"update", "close", "reopen", "cancel"} \/ (c.op = "upload" /\ c.about # None))

(* What of a request the form's page may still hear, at most. *)
Uncreated(c) == c.op = "upload" \/ c.stage \in {"sent", "refused"}

(* Until it is submitted once more after it has succeeded or got no answer,
   one request at most is under way, and it has yet to create the event that
   is not there.                                                           *)
OneAtATime ==
    \A m, n \in CallIds : Creating(calls[m]) /\ Creating(calls[n]) => m = n
CreatedOnce ==
    /\ visit.made \in {0, 1}
    /\ OneAtATime
    /\ \A n \in CallIds : Creating(calls[n]) =>
          /\ org.at = "create" /\ org.busy /\ ~visit.tried
          /\ Uncreated(calls[n]) => visit.made = 0
    /\ visit.made = 1 => visit.tried \/ \E n \in CallIds : Creating(calls[n])
PagesApart == org.at = "create" => \A n \in CallIds : ~Elsewhere(calls[n])

VisitInv == PagesApart /\ (~visit.repeated => CreatedOnce)

(* A step that the form's own requests do not notice. *)
LEMMA VisitKept ==
    ASSUME VisitInv, visit' = visit,
           org'.at = "create" => org.at = "create" /\ \A n \in CallIds : Elsewhere(calls'[n]) => Elsewhere(calls[n]),
           \A n \in CallIds : /\ Creating(calls'[n]) <=> Creating(calls[n])
                              /\ Creating(calls'[n]) /\ Uncreated(calls'[n]) => Uncreated(calls[n]),
           (\A n \in CallIds : ~Creating(calls[n])) \/ (org'.at = org.at /\ org'.busy = org.busy)
    PROVE  VisitInv'
  <1>1. PagesApart'
    BY DEF VisitInv, PagesApart, Elsewhere
  <1>2. ASSUME CreatedOnce PROVE CreatedOnce'
    <2>1. \A n \in CallIds : Creating(calls[n])' <=> Creating(calls[n])
      BY DEF Creating
    <2>2. \A n \in CallIds : Creating(calls[n])' /\ Uncreated(calls[n])' => Uncreated(calls[n])
      BY DEF Creating, Uncreated
    <2>3. OneAtATime'
      BY <1>2, <2>1 DEF CreatedOnce, OneAtATime
    <2>4. ASSUME NEW n \in CallIds, Creating(calls[n])'
          PROVE  org'.at = "create" /\ org'.busy /\ ~visit'.tried /\ (Uncreated(calls[n])' => visit'.made = 0)
      <3>1. Creating(calls[n])
        BY <2>1, <2>4
      <3>2. org.at = "create" /\ org.busy /\ ~visit.tried /\ (Uncreated(calls[n]) => visit.made = 0)
        BY <1>2, <3>1 DEF CreatedOnce
      <3>3. org'.at = org.at /\ org'.busy = org.busy
        BY <3>1
      <3> QED BY <2>2, <2>4, <3>2, <3>3
    <2>5. visit'.made = 1 => visit'.tried \/ \E n \in CallIds : Creating(calls[n])'
      BY <1>2, <2>1 DEF CreatedOnce
    <2>6. visit'.made \in {0, 1}
      BY <1>2 DEF CreatedOnce
    <2> QED BY <2>3, <2>4, <2>5, <2>6 DEF CreatedOnce
  <1> QED BY <1>1, <1>2 DEF VisitInv

(* A page that is opened has no request of another one to listen to. *)
LEMMA VisitAnew ==
    ASSUME visit' = NewVisit, \A n \in CallIds : ~Creating(calls'[n]) /\ ~Elsewhere(calls'[n])
    PROVE  VisitInv'
  <1>1. \A n \in CallIds : ~Creating(calls[n])' /\ ~Elsewhere(calls[n])'
    BY DEF Creating, Elsewhere
  <1>2. visit'.made = 0
    BY DEF NewVisit
  <1> QED BY <1>1, <1>2 DEF VisitInv, PagesApart, CreatedOnce, OneAtATime

LEMMA WithoutForms ==
    ASSUME CallsFit
    PROVE  \A n \in CallIds : LET c == Without(FormOps \cup DetailsOps)[n] IN
               ~Creating(c) /\ ~Elsewhere(c)
  <1>1. \A n \in CallIds : [calls[n] EXCEPT !.live = FALSE].live = FALSE
    BY CallIs DEF CallsFit, Fitting
  <1> QED BY <1>1 DEF Without, FormOps, DetailsOps, Creating, Elsewhere, NoCall

LEMMA NewIs ==
    ASSUME NEW op \in Op, NEW about \in About, NEW filter \in Filter
    PROVE  LET c == NewCall(op, about, filter) IN
           c.op = op /\ c.about = about /\ c.stage = "sent" /\ c.live
  BY DEF NewCall, NoCall

LEMMA VisitOfNavigation ==
    ASSUME TypeInv, VisitInv, UNCHANGED adm,
           \/ \E at \in {"edit", "details"}, e \in Events : OpenEvent(at, e)
           \/ OpenCreate \/ GoToDashboard
           \/ \E to \in Events \cup {"dashboard"} : Navigate(to)
    PROVE  VisitInv'
  <1>0. CallsFit
    BY DEF TypeInv, NetworkTyped
  <1>1. ASSUME NEW at \in {"create", "edit", "details"}, NEW e \in Events \cup {None}, Enter(at, e)
        PROVE  VisitInv'
    <2>1. PICK n \in CallIds :
             calls' = [Without(FormOps \cup DetailsOps) EXCEPT ![n] = NewCall(FirstCall(at), e, None)]
      BY <1>1 DEF Enter, SendFrom
    <2>2. FirstCall(at) \in {"options", "form", "details"} /\ FirstCall(at) \in Op
      BY DEF FirstCall, Op
    <2>3. NewCall(FirstCall(at), e, None).op = FirstCall(at)
      BY <2>2, NewIs DEF About, Subject, Filter
    <2>4. \A m \in CallIds : calls'[m] \in {Without(FormOps \cup DetailsOps)[m],
                                            NewCall(FirstCall(at), e, None)}
      BY <1>0, <2>1, WithoutFits
    <2>5. \A m \in CallIds : ~Creating(calls'[m]) /\ ~Elsewhere(calls'[m])
      BY <1>0, <2>2, <2>3, <2>4, WithoutForms DEF Creating, Elsewhere
    <2> QED BY <1>1, <2>5, VisitAnew DEF Enter
  <1>2. ASSUME Abandoned(FormOps \cup DetailsOps), visit' = NewVisit PROVE VisitInv'
    BY <1>0, <1>2, WithoutForms, VisitAnew DEF Abandoned
  <1>3. ASSUME NEW to \in Events, org.at = "details", Send("details", to, None), visit' = visit,
               org' = [org EXCEPT !.event = to, !.loading = TRUE]
        PROVE  VisitInv'
    <2>1. PICK n \in CallIds : /\ calls[n].op = "none"
                               /\ calls' = [calls EXCEPT ![n] = NewCall("details", to, None)]
      BY <1>3 DEF Send, SendFrom
    <2>2. NewCall("details", to, None).op = "details"
      BY NewIs DEF About, Subject, Filter, Op
    <2>3. \A m \in CallIds : calls'[m] = calls[m] \/ (m = n /\ calls'[m] = NewCall("details", to, None))
      BY <1>0, <2>1 DEF CallsFit
    <2>4. org'.at = "details"
      BY <1>3 DEF TypeInv, OrganizerTyped, Org
    <2>5. \A m \in CallIds : Creating(calls'[m]) <=> Creating(calls[m])
      BY <2>1, <2>2, <2>3 DEF Creating
    <2>6. \A m \in CallIds : Creating(calls'[m]) => calls'[m] = calls[m]
      BY <2>2, <2>3 DEF Creating
    <2>7. visit.repeated \/ \A m \in CallIds : ~Creating(calls[m])
      BY <1>3 DEF VisitInv, CreatedOnce
    <2>8. CASE visit.repeated
      BY <1>3, <2>4, <2>8 DEF VisitInv, PagesApart
    <2>9. CASE \A m \in CallIds : ~Creating(calls[m])
      BY <1>3, <2>4, <2>5, <2>6, <2>9, VisitKept
    <2> QED BY <2>7, <2>8, <2>9
  <1>4. ASSUME UNCHANGED <<org, network, visit>> PROVE VisitInv'
    BY <1>4 DEF network, VisitInv, PagesApart, CreatedOnce, OneAtATime, Creating, Elsewhere, Uncreated
  <1>5. ASSUME NEW to \in Events \cup {"dashboard"}, Navigate(to) PROVE VisitInv'
    <2>1. \/ Abandoned(FormOps \cup DetailsOps) /\ visit' = NewVisit
          \/ Enter("details", to) /\ to \in Events
          \/ /\ to \in Events /\ org.at = "details" /\ Send("details", to, None) /\ visit' = visit
             /\ org' = [org EXCEPT !.event = to, !.loading = TRUE]
          \/ UNCHANGED <<org, network, visit>>
      BY <1>5 DEF Navigate
    <2> QED BY <1>1, <1>2, <1>3, <1>4, <2>1
  <1> QED BY <1>1, <1>2, <1>5 DEF OpenEvent, OpenCreate, GoToDashboard

(* A step of one request that the form's own requests do not notice. *)
LEMMA VisitKeptBy ==
    ASSUME VisitInv, visit' = visit, org'.at = org.at, org'.busy = org.busy, NEW n \in CallIds,
           \A m \in CallIds \ {n} : calls'[m] = calls[m],
           Creating(calls'[n]) <=> Creating(calls[n]),
           Elsewhere(calls'[n]) => Elsewhere(calls[n]),
           Creating(calls'[n]) /\ Uncreated(calls'[n]) => Uncreated(calls[n])
    PROVE  VisitInv'
  <1>1. \A m \in CallIds : /\ Creating(calls'[m]) <=> Creating(calls[m])
                           /\ Elsewhere(calls'[m]) => Elsewhere(calls[m])
                           /\ Creating(calls'[m]) /\ Uncreated(calls'[m]) => Uncreated(calls[m])
    OBVIOUS
  <1> QED BY <1>1, VisitKept

(* A step of another page than the form. *)
LEMMA VisitElsewhere ==
    ASSUME VisitInv, org.at # "create", org'.at = org.at, visit'.made = visit.made,
           visit.tried => visit'.tried, visit.repeated => visit'.repeated,
           \A m \in CallIds : Creating(calls'[m]) => Creating(calls[m])
    PROVE  VisitInv'
  <1>1. PagesApart'
    BY DEF PagesApart
  <1>2. ASSUME ~visit'.repeated PROVE CreatedOnce'
    <2>1. CreatedOnce /\ \A m \in CallIds : ~Creating(calls[m])
      BY <1>2 DEF VisitInv, CreatedOnce
    <2>2. \A m \in CallIds : ~Creating(calls[m])'
      BY <2>1 DEF Creating
    <2> QED BY <2>1, <2>2 DEF CreatedOnce, OneAtATime
  <1> QED BY <1>1, <1>2 DEF VisitInv

(* Requests of the admin's pages are not the form's, nor of a page of the
   organizer's.                                                            *)
LEMMA NotTheForm ==
    ASSUME NEW c, c.op \notin {"upload", "create", "update", "close", "reopen", "cancel"}
    PROVE  ~Creating(c) /\ ~Elsewhere(c)
  BY DEF Creating, Elsewhere

LEMMA NoCallIsNone == NoCall.op = "none" /\ ~NoCall.live
  BY DEF NoCall

(* A request that takes a free place. *)
LEMMA SentIs ==
    ASSUME CallsFit, NEW op \in Op, NEW about \in About, NEW filter \in Filter,
           Send(op, about, filter)
    PROVE  \E n \in CallIds :
              /\ calls[n].op = "none"
              /\ \A m \in CallIds \ {n} : calls'[m] = calls[m]
              /\ calls'[n].op = op /\ calls'[n].about = about /\ calls'[n].stage = "sent"
              /\ calls'[n].live
  <1>1. PICK n \in CallIds : /\ calls[n].op = "none"
                             /\ calls' = [calls EXCEPT ![n] = NewCall(op, about, filter)]
    BY DEF Send, SendFrom
  <1>2. calls'[n] = NewCall(op, about, filter) /\ \A m \in CallIds \ {n} : calls'[m] = calls[m]
    BY <1>1 DEF CallsFit
  <1> QED BY <1>1, <1>2, NewIs

LEMMA VisitOfActs ==
    ASSUME TypeInv, VisitInv,
           \/ KeepAsItIs \/ OpenClose \/ OpenCancel
           \/ \E form \in Form : SubmitNew(form) \/ SubmitEdit(form)
           \/ OnCloseRegistration \/ OnReopenRegistration \/ OnCancelEvent
    PROVE  VisitInv'
  <1>0. CallsFit /\ OrganizerTyped
    BY DEF TypeInv, NetworkTyped
  <1>1. CASE KeepAsItIs \/ OpenClose \/ OpenCancel
    <2>1. PICK modal : org' = [org EXCEPT !.modal = modal]
      BY <1>1 DEF KeepAsItIs, OpenClose, OpenCancel, OpenModal
    <2>2. org.at = "details" /\ UNCHANGED <<calls, visit>>
      BY <1>1 DEF KeepAsItIs, OpenClose, OpenCancel, OpenModal, OnDetails, network
    <2>3. org'.at = org.at
      BY <1>0, <2>1 DEF OrganizerTyped, Org
    <2> QED BY <2>2, <2>3, VisitElsewhere
  <1>2. ASSUME NEW form \in Form, SubmitNew(form) PROVE VisitInv'
    <2>1. org.at = "create" /\ ~org.busy /\ Submit(form) /\ org.event = None
      BY <1>0, <1>2 DEF SubmitNew, OrganizerTyped
    <2>2. PICK op \in {"upload", "create"} : Send(op, None, form)
      BY <2>1 DEF Submit, Saving
    <2>3. op \in Op /\ None \in About /\ form \in Filter
      BY DEF Op, About, Filter
    <2>4. PICK n \in CallIds :
              /\ calls[n].op = "none"
              /\ \A m \in CallIds \ {n} : calls'[m] = calls[m]
              /\ calls'[n].op = op /\ calls'[n].about = None /\ calls'[n].stage = "sent"
      BY <1>0, <2>2, <2>3, SentIs
    <2>5. ~Elsewhere(calls'[n])
      BY <2>4 DEF Elsewhere
    <2>6. PagesApart'
      BY <2>1, <2>4, <2>5 DEF VisitInv, PagesApart, Elsewhere
    <2>7. org'.at = "create" /\ org'.busy
      BY <1>0, <2>1 DEF Submit, OrganizerTyped, Org
    <2>8. /\ visit'.made = visit.made /\ visit'.tried = visit.tried
          /\ visit'.repeated = (visit.repeated \/ visit.tried)
      BY <1>0, <2>1 DEF Submit, OrganizerTyped, Visit
    <2>9. ASSUME ~visit'.repeated PROVE CreatedOnce'
      <3>1. CreatedOnce /\ ~visit.tried
        BY <2>8, <2>9 DEF VisitInv
      <3>2. \A m \in CallIds : ~Creating(calls[m])
        BY <2>1, <3>1 DEF CreatedOnce
      <3>3. visit.made = 0
        BY <3>1, <3>2 DEF CreatedOnce
      <3>4. \A m \in CallIds : Creating(calls[m])' => m = n
        BY <2>4, <3>2 DEF Creating
      <3> QED BY <2>7, <2>8, <3>1, <3>3, <3>4 DEF CreatedOnce, OneAtATime
    <2> QED BY <2>6, <2>9 DEF VisitInv
  <1>3. ASSUME NEW form \in Form, SubmitEdit(form) PROVE VisitInv'
    <2>1. org.at = "edit" /\ Submit(form) /\ org.event \in Events
      BY <1>0, <1>3 DEF SubmitEdit, OrganizerTyped
    <2>2. PICK op \in {"upload", "update"} : Send(op, org.event, form)
      BY <2>1, NoneIsNothing DEF Submit, Saving
    <2>3. op \in Op /\ org.event \in About /\ form \in Filter
      BY <2>1 DEF Op, About, Subject, Filter
    <2>4. PICK n \in CallIds :
              /\ \A m \in CallIds \ {n} : calls'[m] = calls[m]
              /\ calls'[n].op = op /\ calls'[n].about = org.event
      BY <1>0, <2>2, <2>3, SentIs
    <2>5. ~Creating(calls'[n])
      BY <2>1, <2>4, NoneIsNothing DEF Creating
    <2>6. org'.at = org.at
      BY <1>0, <2>1 DEF Submit, OrganizerTyped, Org
    <2>7. /\ visit'.made = visit.made /\ visit'.tried = visit.tried
          /\ visit'.repeated = (visit.repeated \/ visit.tried)
      BY <1>0, <2>1 DEF Submit, OrganizerTyped, Visit
    <2>8. \A m \in CallIds : Creating(calls'[m]) => Creating(calls[m])
      BY <2>4, <2>5
    <2> QED BY <2>1, <2>6, <2>7, <2>8, VisitElsewhere
  <1>4. CASE OnCloseRegistration \/ OnReopenRegistration \/ OnCancelEvent
    <2>1. PICK op \in {"close", "reopen", "cancel"}, modal \in {"none", "close", "cancel"} : Act(op, modal)
      BY <1>4 DEF OnCloseRegistration, OnReopenRegistration, OnCancelEvent
    <2>2. org.at = "details" /\ org.event \in Events /\ op \in Op /\ org.event \in About
          /\ None \in Filter
      BY <1>0, <2>1 DEF Act, OnDetails, OrganizerTyped, Op, About, Subject, Filter
    <2>3. PICK n \in CallIds : /\ \A m \in CallIds \ {n} : calls'[m] = calls[m]
                               /\ calls'[n].op = op
      BY <1>0, <2>1, <2>2, SentIs DEF Act
    <2>4. ~Creating(calls'[n])
      BY <2>3 DEF Creating
    <2>5. org'.at = org.at /\ visit' = visit
      BY <1>0, <2>1 DEF Act, OrganizerTyped, Org
    <2>6. \A m \in CallIds : Creating(calls'[m]) => Creating(calls[m])
      BY <2>3, <2>4
    <2> QED BY <2>2, <2>5, <2>6, VisitElsewhere
  <1> QED BY <1>1, <1>2, <1>3, <1>4

LEMMA SettledIs ==
    ASSUME CallsFit, NEW n \in CallIds, Settle(n)
    PROVE  /\ \A m \in CallIds \ {n} : calls'[m] = calls[m]
           /\ ~Creating(calls'[n]) /\ ~Elsewhere(calls'[n])
  <1>1. calls'[n] = NoCall /\ \A m \in CallIds \ {n} : calls'[m] = calls[m]
    BY DEF Settle, CallsFit
  <1> QED BY <1>1, NoCallIsNone DEF Creating, Elsewhere

LEMMA VisitOfAnswers ==
    ASSUME TypeInv, VisitInv, NEW n \in CallIds, OrganizerCall(n)
    PROVE  VisitInv'
  <1>0. CallsFit /\ OrganizerTyped
    BY DEF TypeInv, NetworkTyped
  <1>1. CASE OptionsAnswered(n) \/ FormAnswered(n) \/ DetailsAnswered(n)
    <2>1. Settle(n) /\ visit' = visit /\ calls[n].op \in {"options", "form", "details"}
      BY <1>1 DEF OptionsAnswered, FormAnswered, DetailsAnswered, Settling
    <2>2. org'.at = org.at /\ org'.busy = org.busy
      BY <1>0, <1>1 DEF OptionsAnswered, FormAnswered, DetailsAnswered, OrganizerTyped, Org
    <2>3. ~Creating(calls[n])
      BY <2>1 DEF Creating
    <2> QED BY <1>0, <2>1, <2>2, <2>3, SettledIs, VisitKeptBy
  <1>2. CASE UploadAnswered(n)
    <2>1. /\ calls[n].op = "upload" /\ calls[n].stage = "answered" /\ UNCHANGED <<org, visit>>
          /\ calls' = [calls EXCEPT ![n].op = Saving(calls[n].about), ![n].stage = "sent"]
      BY <1>2 DEF UploadAnswered, organizer
    <2>2. calls[n] \in Call
      BY <1>0 DEF CallsFit, Fitting
    <2>3. /\ \A m \in CallIds \ {n} : calls'[m] = calls[m]
          /\ calls'[n].op = Saving(calls[n].about) /\ calls'[n].about = calls[n].about
          /\ calls'[n].live = calls[n].live
      BY <1>0, <2>1, <2>2, CallIs DEF CallsFit
    <2>4. /\ Creating(calls'[n]) <=> Creating(calls[n])
          /\ Elsewhere(calls'[n]) => Elsewhere(calls[n])
          /\ Uncreated(calls[n])
      BY <2>1, <2>3 DEF Creating, Elsewhere, Uncreated, Saving
    <2> QED BY <2>1, <2>3, <2>4, VisitKeptBy
  <1>3. CASE EventCreated(n) \/ EventUpdated(n)
    <2>1. Settle(n) /\ calls[n].op \in {"create", "update"}
      BY <1>3 DEF EventCreated, EventUpdated, Saved
    <2>2. CASE ~calls[n].live
      <3>1. UNCHANGED <<org, visit>>
        BY <1>3, <2>2 DEF EventCreated, EventUpdated, Saved
      <3>2. ~Creating(calls[n])
        BY <2>2 DEF Creating
      <3> QED BY <1>0, <2>1, <3>1, <3>2, SettledIs, VisitKeptBy
    <2>3. CASE calls[n].live
      <3>1. org' = [org EXCEPT !.busy = FALSE] /\ visit' = [visit EXCEPT !.tried = TRUE]
        BY <1>3, <2>3 DEF EventCreated, EventUpdated, Saved
      <3>2. /\ org'.at = org.at /\ visit'.made = visit.made /\ visit'.tried
            /\ visit'.repeated = visit.repeated
        BY <1>0, <3>1 DEF OrganizerTyped, Org, Visit
      <3>3. \A m \in CallIds : /\ Creating(calls'[m]) => Creating(calls[m]) /\ m # n
                               /\ Elsewhere(calls'[m]) => Elsewhere(calls[m])
        BY <1>0, <2>1, SettledIs
      <3>4. CASE calls[n].op = "update"
        <4>1. org.at # "create"
          BY <2>3, <3>4 DEF VisitInv, PagesApart, Elsewhere
        <4> QED BY <3>2, <3>3, <4>1, VisitElsewhere
      <3>5. CASE calls[n].op = "create"
        <4>1. PagesApart'
          BY <3>2, <3>3 DEF VisitInv, PagesApart, Elsewhere
        <4>2. ASSUME ~visit'.repeated PROVE CreatedOnce'
          <5>1. CreatedOnce /\ Creating(calls[n])
            BY <2>3, <3>2, <3>5, <4>2 DEF VisitInv, Creating
          <5>2. \A m \in CallIds : ~Creating(calls'[m])
            BY <3>3, <5>1 DEF CreatedOnce, OneAtATime
          <5>3. \A m \in CallIds : ~Creating(calls[m])'
            BY <5>2 DEF Creating
          <5> QED BY <3>2, <5>1, <5>3 DEF CreatedOnce, OneAtATime
        <4> QED BY <4>1, <4>2 DEF VisitInv
      <3> QED BY <2>1, <3>4, <3>5
    <2> QED BY <2>2, <2>3
  <1>4. CASE SaveFailed(n)
    <2>1. PICK op \in {"upload", "create", "update"}, s \in {"failed", "refused"} :
              /\ Settling(n, op, s) /\ org' = [org EXCEPT !.busy = FALSE]
              /\ visit' = [visit EXCEPT !.tried = @ \/ (op = "create" /\ s = "failed")]
      BY <1>4 DEF SaveFailed
    <2>2. /\ org'.at = org.at /\ visit'.made = visit.made /\ visit'.repeated = visit.repeated
          /\ visit.tried => visit'.tried
      BY <1>0, <2>1 DEF OrganizerTyped, Org, Visit
    <2>9. op = "create" /\ s = "failed" => visit'.tried
      BY <1>0, <2>1 DEF OrganizerTyped, Visit
    <2>3. \A m \in CallIds : /\ Creating(calls'[m]) => Creating(calls[m]) /\ m # n
                             /\ Elsewhere(calls'[m]) => Elsewhere(calls[m])
      BY <1>0, <1>4, SettledIs DEF SaveFailed
    <2>4. calls[n].op = op /\ calls[n].stage = s /\ calls[n].live
      BY <2>1 DEF Settling
    <2>5. CASE Elsewhere(calls[n])
      <3>1. org.at # "create"
        BY <2>5 DEF VisitInv, PagesApart
      <3> QED BY <2>2, <2>3, <3>1, VisitElsewhere
    <2>6. CASE ~Elsewhere(calls[n])
      <3>1. Creating(calls[n])
        BY <2>4, <2>6 DEF Creating, Elsewhere
      <3>2. PagesApart'
        BY <2>2, <2>3 DEF VisitInv, PagesApart, Elsewhere
      <3>3. ASSUME ~visit'.repeated PROVE CreatedOnce'
        <4>1. CreatedOnce
          BY <2>2, <3>3 DEF VisitInv
        <4>2. \A m \in CallIds : ~Creating(calls'[m])
          BY <2>3, <3>1, <4>1 DEF CreatedOnce, OneAtATime
        <4>3. \A m \in CallIds : ~Creating(calls[m])'
          BY <4>2 DEF Creating
        <4>4. visit.made = 0 \/ (op = "create" /\ s = "failed")
          BY <2>4, <3>1, <4>1 DEF CreatedOnce, Uncreated, Creating
        <4>5. visit'.made \in {0, 1}
          BY <2>2, <4>1 DEF CreatedOnce
        <4>6. visit'.made = 1 => visit'.tried
          BY <2>2, <2>9, <4>4
        <4> QED BY <4>3, <4>5, <4>6 DEF CreatedOnce, OneAtATime
      <3> QED BY <3>2, <3>3 DEF VisitInv
    <2> QED BY <2>5, <2>6
  <1>5. CASE ActAnswered(n) \/ ActFailed(n)
    <2>1. /\ Settle(n) /\ visit' = visit /\ calls[n].live
          /\ calls[n].op \in {"close", "reopen", "cancel"}
      BY <1>5 DEF ActAnswered, ActFailed, Settling
    <2>2. org'.at = org.at
      BY <1>0, <1>5 DEF ActAnswered, ActFailed, OrganizerTyped, Org
    <2>3. org.at # "create"
      BY <2>1 DEF VisitInv, PagesApart, Elsewhere
    <2>4. \A m \in CallIds : Creating(calls'[m]) => Creating(calls[m])
      BY <1>0, <2>1, SettledIs
    <2> QED BY <2>1, <2>2, <2>3, <2>4, VisitElsewhere
  <1> QED BY <1>1, <1>2, <1>3, <1>4, <1>5 DEF OrganizerCall

(* The requests of the organizer's pages that change something. *)
OrganizerChanges == {"upload", "create", "update", "close", "reopen", "cancel"}

LEMMA VisitOfOthers ==
    ASSUME VisitInv, UNCHANGED <<org, visit>>,
           \A m \in CallIds : \/ calls'[m] = calls[m]
                              \/ {calls[m].op, calls'[m].op} \cap OrganizerChanges = {}
    PROVE  VisitInv'
  <1>1. \A m \in CallIds : /\ Creating(calls'[m]) <=> Creating(calls[m])
                           /\ Elsewhere(calls'[m]) <=> Elsewhere(calls[m])
                           /\ Creating(calls'[m]) => calls'[m] = calls[m]
    BY DEF Creating, Elsewhere, OrganizerChanges
  <1> QED BY <1>1, VisitKept

LEMMA VisitOfAdmin ==
    ASSUME TypeInv, VisitInv, Admin \/ AnotherAdmin
    PROVE  VisitInv'
  <1>0. CallsFit /\ AdminTyped
    BY DEF TypeInv, NetworkTyped
  <1>1. UNCHANGED <<org, visit>>
    BY DEF Admin, OpenReview, OpenCategories, AdmGoToDashboard, CloseCategoryModal,
           ConfirmDelete, OpenUser, OpenConfirm, CloseConfirm, OnConfirmAction, RunAction,
           OpenCategoryModal, SubmitCategory, AdmEnter, AnotherAdmin, organizer, pages
  <1>2. CASE AdmGoToDashboard
    <2>1. calls' = Without(ReviewOps \cup CategoryOps \cup UserOps)
      BY <1>2 DEF AdmGoToDashboard, Abandoned
    <2>2. (ReviewOps \cup CategoryOps \cup UserOps) \cap OrganizerChanges = {}
      BY DEF ReviewOps, CategoryOps, Loads, UserOps, OrganizerChanges
    <2>3. \A m \in CallIds : [calls[m] EXCEPT !.live = FALSE].op = calls[m].op
      BY <1>0, CallIs DEF CallsFit, Fitting
    <2>4. NoCall.op \notin OrganizerChanges
      BY NoCallIsNone DEF OrganizerChanges
    <2>5. \A m \in CallIds : \/ calls'[m] = calls[m]
                             \/ {calls[m].op, calls'[m].op} \cap OrganizerChanges = {}
      BY <2>1, <2>2, <2>3, <2>4 DEF Without
    <2> QED BY <1>1, <2>5, VisitOfOthers
  <1>3. ASSUME NEW op \in Op \ OrganizerChanges, NEW about \in About, NEW filter \in Filter,
               Send(op, about, filter)
        PROVE  VisitInv'
    <2>1. PICK n \in CallIds : /\ calls[n].op = "none"
                               /\ \A m \in CallIds \ {n} : calls'[m] = calls[m]
                               /\ calls'[n].op = op
      BY <1>0, <1>3, SentIs
    <2>2. \A m \in CallIds : \/ calls'[m] = calls[m]
                             \/ {calls[m].op, calls'[m].op} \cap OrganizerChanges = {}
      BY <2>1 DEF OrganizerChanges
    <2> QED BY <1>1, <2>2, VisitOfOthers
  <1>4. {"pending", "categories", "user", "approve", "reject", "changes", "add", "rename",
         "delete", "suspend", "activate"} \subseteq Op \ OrganizerChanges
    BY DEF Op, OrganizerChanges
  <1>5. Events \cup Categories \cup {None} \subseteq About /\ None \in Filter /\ Names \subseteq Filter
    BY DEF About, Subject, Filter
  <1>6. adm.event \in Events \cup {None} /\ adm.target \in Categories \cup {None}
    BY <1>0 DEF AdminTyped, Adm
  <1>7. CASE UNCHANGED calls
    BY <1>1, <1>7, VisitOfOthers
  <1>8. CASE (\E e \in Events : OpenReview(e)) \/ OpenCategories \/ OpenUser
    BY <1>3, <1>4, <1>5, <1>8 DEF OpenReview, OpenCategories, OpenUser, AdmEnter
  <1>9. CASE OnConfirmAction \/ ConfirmDelete
             \/ (\E op \in {"approve", "reject", "changes"} : RunAction(op))
    BY <1>3, <1>4, <1>5, <1>6, <1>9 DEF OnConfirmAction, ConfirmDelete, RunAction
  <1>10. CASE \E name \in Names : SubmitCategory(name)
    <2>1. PICK name \in Names : SubmitCategory(name)
      BY <1>10
    <2>2. adm.modal \in {"add", "rename"} /\ Send(adm.modal, adm.target, name)
      BY <2>1 DEF SubmitCategory
    <2> QED BY <1>3, <1>4, <1>5, <1>6, <2>2
  <1>11. CASE CloseCategoryModal \/ OpenConfirm \/ CloseConfirm \/ AnotherAdmin
              \/ \E modal \in {"add", "rename", "delete"}, c \in Categories \cup {None} :
                    OpenCategoryModal(modal, c)
    BY <1>7, <1>11
       DEF CloseCategoryModal, OpenConfirm, CloseConfirm, AnotherAdmin, OpenCategoryModal, network
  <1> QED BY <1>2, <1>8, <1>9, <1>10, <1>11 DEF Admin

LEMMA VisitOfAdminCalls ==
    ASSUME TypeInv, VisitInv, NEW n \in CallIds, AdminCall(n)
    PROVE  VisitInv'
  <1>0. CallsFit
    BY DEF TypeInv, NetworkTyped
  <1>1. UNCHANGED <<org, visit>>
    BY DEF AdminCall, PendingAnswered, RunActionSettled, CategoryChanged, CategoryChangeFailed,
           CategoriesLoaded, UserAnswered, ConfirmSettled, organizer
  <1>2. calls[n].op \notin OrganizerChanges
    BY DEF AdminCall, PendingAnswered, RunActionSettled, CategoryChanged, CategoryChangeFailed,
           CategoriesLoaded, UserAnswered, ConfirmSettled, Settling, Loads, OrganizerChanges
  <1>3. \E op \in {"none", "after_save", "after_delete"} : calls'[n].op = op
    <2>1. CASE CategoryChanged(n)
      <3>1. PICK op \in {"after_save", "after_delete"} :
               calls' = [calls EXCEPT ![n] = NewCall(op, None, None)]
        BY <2>1 DEF CategoryChanged
      <3>2. NewCall(op, None, None).op = op
        BY NewIs DEF Op, About, Filter
      <3> QED BY <1>0, <3>1, <3>2 DEF CallsFit
    <2>2. CASE Settle(n)
      BY <1>0, <2>2, NoCallIsNone DEF Settle, CallsFit
    <2> QED BY <2>1, <2>2
            DEF AdminCall, PendingAnswered, RunActionSettled, CategoryChangeFailed,
                CategoriesLoaded, UserAnswered, ConfirmSettled
  <1>4. \A m \in CallIds \ {n} : calls'[m] = calls[m]
    BY <1>0 DEF AdminCall, PendingAnswered, RunActionSettled, CategoryChanged,
                CategoryChangeFailed, CategoriesLoaded, UserAnswered, ConfirmSettled, Settle, CallsFit
  <1>5. \A m \in CallIds : \/ calls'[m] = calls[m]
                           \/ {calls[m].op, calls'[m].op} \cap OrganizerChanges = {}
    BY <1>2, <1>3, <1>4 DEF OrganizerChanges
  <1> QED BY <1>1, <1>5, VisitOfOthers

(* A request that the server answers or refuses, or that fails, stays what it
   is.                                                                     *)
LEMMA AnsweredIs ==
    ASSUME CallsFit, NEW n \in CallIds, NEW reply, Answer(n, reply)
    PROVE  /\ \A m \in CallIds \ {n} : calls'[m] = calls[m]
           /\ calls'[n].op = calls[n].op /\ calls'[n].about = calls[n].about
           /\ calls'[n].live = calls[n].live /\ calls'[n].stage = "answered"
  <1>1. /\ \A m \in CallIds \ {n} : calls'[m] = calls[m]
        /\ calls'[n] = [calls[n] EXCEPT !.stage = "answered", !.reply = reply]
    BY DEF Answer, CallsFit
  <1>2. calls[n] \in Call
    BY DEF CallsFit, Fitting
  <1> QED BY <1>1, <1>2, CallIs

LEMMA RefusedIs ==
    ASSUME CallsFit, NEW n \in CallIds, Refuse(n)
    PROVE  /\ \A m \in CallIds \ {n} : calls'[m] = calls[m]
           /\ calls'[n].op = calls[n].op /\ calls'[n].about = calls[n].about
           /\ calls'[n].live = calls[n].live /\ calls'[n].stage = "refused"
  <1>1. /\ \A m \in CallIds \ {n} : calls'[m] = calls[m]
        /\ calls'[n] = [calls[n] EXCEPT !.stage = "refused"]
    BY DEF Refuse, CallsFit
  <1>2. calls[n] \in Call
    BY DEF CallsFit, Fitting
  <1> QED BY <1>1, <1>2, CallIs

LEMMA FailedIs ==
    ASSUME CallsFit, NEW n \in CallIds, Fail(n)
    PROVE  /\ \A m \in CallIds \ {n} : calls'[m] = calls[m]
           /\ calls'[n].op = calls[n].op /\ calls'[n].about = calls[n].about
           /\ calls'[n].live = calls[n].live /\ calls'[n].stage = "failed"
  <1>1. /\ \A m \in CallIds \ {n} : calls'[m] = calls[m]
        /\ calls'[n] = [calls[n] EXCEPT !.stage = "failed", !.reply = {}]
    BY DEF Fail, CallsFit
  <1>2. calls[n] \in Call
    BY DEF CallsFit, Fitting
  <1> QED BY <1>1, <1>2, CallIs

LEMMA VisitOfServed ==
    ASSUME TypeInv, VisitInv, NEW n \in CallIds, UNCHANGED <<org, visit>>,
           \/ (calls[n].stage = "sent" /\ ((\E reply : Answer(n, reply)) \/ Refuse(n)))
           \/ Fail(n) \/ UNCHANGED calls \/ (Settle(n) /\ ~calls[n].live)
    PROVE  VisitInv'
  <1>0. CallsFit
    BY DEF TypeInv, NetworkTyped
  <1>1. CASE UNCHANGED calls
    BY <1>1, VisitKeptBy
  <1>2. CASE Settle(n) /\ ~calls[n].live
    BY <1>0, <1>2, SettledIs, VisitKeptBy DEF Creating
  <1>3. CASE calls[n].stage = "sent" /\ Refuse(n)
    BY <1>0, <1>3, RefusedIs, VisitKeptBy DEF Creating, Elsewhere, Uncreated
  <1>4. CASE calls[n].stage = "sent" /\ \E reply : Answer(n, reply)
    BY <1>0, <1>4, AnsweredIs, VisitKeptBy DEF Creating, Elsewhere, Uncreated
  <1>5. CASE Fail(n)
    BY <1>0, <1>5, FailedIs, VisitKeptBy DEF Creating, Elsewhere, Uncreated
  <1> QED BY <1>1, <1>2, <1>3, <1>4, <1>5

LEMMA VisitOfCreation ==
    ASSUME TypeInv, VisitInv, NEW n \in CallIds, CreateEvent(n)
    PROVE  VisitInv'
  <1>0. CallsFit /\ OrganizerTyped
    BY DEF TypeInv, NetworkTyped
  <1>1. CASE UNCHANGED visit
    BY <1>1, VisitOfServed DEF CreateEvent, Waits, AtServer, Refused, pages, organizer
  <1>2. CASE visit' = [visit EXCEPT !.made = @ + 1] /\ calls[n].live /\ Answer(n, {})
    <2>1. calls[n].op = "create" /\ calls[n].stage = "sent"
      BY DEF CreateEvent, Waits, AtServer
    <2>2. UNCHANGED org
      BY DEF CreateEvent, Refused, pages, organizer
    <2>3. /\ \A m \in CallIds \ {n} : calls'[m] = calls[m]
          /\ calls'[n].op = "create" /\ calls'[n].about = calls[n].about
          /\ calls'[n].live /\ calls'[n].stage = "answered"
      BY <1>0, <1>2, <2>1, AnsweredIs
    <2>4. visit'.made = visit.made + 1 /\ visit'.tried = visit.tried
          /\ visit'.repeated = visit.repeated
      BY <1>0, <1>2 DEF OrganizerTyped, Visit
    <2>5. \A m \in CallIds : /\ Creating(calls'[m]) <=> Creating(calls[m])
                             /\ Elsewhere(calls'[m]) <=> Elsewhere(calls[m])
      BY <1>2, <2>1, <2>3 DEF Creating, Elsewhere
    <2>6. PagesApart'
      BY <2>2, <2>5 DEF VisitInv, PagesApart, Elsewhere
    <2>7. ASSUME ~visit'.repeated PROVE CreatedOnce'
      <3>1. CreatedOnce /\ Creating(calls[n]) /\ Uncreated(calls[n])
        BY <1>2, <2>1, <2>4, <2>7 DEF VisitInv, Creating, Uncreated
      <3>2. visit'.made = 1
        BY <2>4, <3>1 DEF CreatedOnce
      <3>3. \A m \in CallIds : Creating(calls[m])' <=> m = n
        BY <2>5, <3>1 DEF Creating, CreatedOnce, OneAtATime
      <3>4. ~Uncreated(calls[n])'
        BY <2>3 DEF Uncreated
      <3>5. org'.at = "create" /\ org'.busy /\ ~visit'.tried
        BY <2>2, <2>4, <3>1 DEF CreatedOnce
      <3> QED BY <3>2, <3>3, <3>4, <3>5 DEF CreatedOnce, OneAtATime
    <2> QED BY <2>6, <2>7 DEF VisitInv
  <1> QED BY <1>1, <1>2 DEF CreateEvent, Refused, pages, organizer

LEMMA VisitOfServer ==
    ASSUME TypeInv, VisitInv, NEW n \in CallIds,
           ServerStep(n) \/ NobodyHears(n) \/ CallFails(n)
    PROVE  VisitInv'
  <1>1. CASE CreateEvent(n)
    BY <1>1, VisitOfCreation
  <1>2. CASE NobodyHears(n)
    BY <1>2, VisitOfServed DEF NobodyHears, NobodyListens, pages, organizer
  <1>3. CASE CallFails(n)
    BY <1>3, VisitOfServed DEF CallFails, pages, organizer
  <1>4. CASE ServerStep(n) /\ ~CreateEvent(n)
    <2>1. UNCHANGED <<org, visit>>
      BY <1>4
         DEF ServerStep, ReadEvent, UpdateEvent, UploadImage, GetMine, ListActive, ListPending,
             ListAll, AddCategory, RenameCategory, DetachEvents, DeleteRow, GetUser, SetStatus,
             Begin, Refused, pages, organizer
    <2>2. calls[n].stage = "sent"
      BY <1>4
         DEF ServerStep, ReadEvent, UpdateEvent, UploadImage, GetMine, ListActive, ListPending,
             ListAll, AddCategory, RenameCategory, DetachEvents, DeleteRow, GetUser, SetStatus,
             Waits, AtServer
    <2>3. (\E reply : Answer(n, reply)) \/ Refuse(n) \/ UNCHANGED calls
      BY <1>4
         DEF ServerStep, ReadEvent, UpdateEvent, UploadImage, GetMine, ListActive, ListPending,
             ListAll, AddCategory, RenameCategory, DetachEvents, DeleteRow, GetUser, SetStatus,
             Begin, Refused, network
    <2> QED BY <2>1, <2>2, <2>3, VisitOfServed
  <1> QED BY <1>1, <1>2, <1>3, <1>4

LEMMA VisitStays == TypeInv /\ VisitInv /\ [Next]_vars => VisitInv'
  <1> SUFFICES ASSUME TypeInv, VisitInv, [Next]_vars PROVE VisitInv'
    OBVIOUS
  <1>1. CASE Organizer /\ UNCHANGED adm
    BY <1>1, VisitOfNavigation, VisitOfActs DEF Organizer
  <1>2. CASE Admin \/ AnotherAdmin
    BY <1>2, VisitOfAdmin
  <1>3. ASSUME NEW n \in CallIds, CallGoesOn(n) \/ CallFails(n) PROVE VisitInv'
    BY <1>3, VisitOfAnswers, VisitOfAdminCalls, VisitOfServer DEF CallGoesOn
  <1>4. CASE UNCHANGED vars
    BY <1>4 DEF vars, network, pages, organizer, VisitInv, PagesApart, CreatedOnce, OneAtATime,
                Creating, Elsewhere, Uncreated
  <1> QED BY <1>1, <1>2, <1>3, <1>4 DEF Next

(* One visit of the form creates one event at most, through whatever failures
   and however the admin interferes, unless the organizer submits the form
   again after it has succeeded or got no answer.                          *)
THEOREM EventsOnce == Spec => []OneEventPerVisit
  <1>1. Init => VisitInv
    <2> SUFFICES ASSUME Init PROVE VisitInv
      OBVIOUS
    <2>1. visit.made = 0 /\ org.at = "dashboard"
      BY DEF Init, NewVisit, Mounted
    <2>2. \A n \in CallIds : ~Creating(calls[n])
      BY NoCallIsNone DEF Init, Creating
    <2> QED BY <2>1, <2>2 DEF VisitInv, PagesApart, CreatedOnce, OneAtATime
  <1>2. VisitInv => OneEventPerVisit
    BY DEF VisitInv, CreatedOnce, OneEventPerVisit
  <1>3. TypeInv /\ VisitInv /\ [Next]_vars => TypeInv' /\ VisitInv'
    BY TypesStay, VisitStays
  <1> QED BY <1>1, <1>2, <1>3, TypesStart, PTL DEF Spec

-----------------------------------------------------------------------------
(* What is disabled or turning waits for an answer: WaitsHaveRequests is inductive
   with the types.  What each flag waits for:                              *)
OrgLoads == {"form", "details"}
OrgSaves == {"upload", "create", "update", "close", "reopen", "cancel"}
AdmLoads == {"pending", "categories", "user"}
AdmActs == {"approve", "reject", "changes", "suspend", "activate"}
AdmSaves == {"add", "rename", "after_save"}
AdmDeletes == {"delete", "after_delete"}

(* Requests in other places than n go on. *)
Others(n) ==
    \A m \in CallIds \ {n} : calls[m].live /\ calls[m].op # "none" =>
        calls'[m].live /\ calls'[m].op = calls[m].op

(* What is waited for is still waited for, or is what place n now holds. *)
Covers(n, flag, ops) ==
    \/ flag /\ (calls[n].live /\ calls[n].op \in ops => calls'[n].live /\ calls'[n].op \in ops)
    \/ calls'[n].live /\ calls'[n].op \in ops

LEMMA Covered ==
    ASSUME NEW n \in CallIds, Others(n), NEW flag, NEW ops, flag => Waiting(ops),
           "none" \notin ops, Covers(n, flag, ops)
    PROVE  Waiting(ops)'
  <1>1. CASE calls'[n].live /\ calls'[n].op \in ops
    BY <1>1 DEF Waiting
  <1>2. CASE ~(calls'[n].live /\ calls'[n].op \in ops)
    <2>1. PICK m \in CallIds : calls[m].live /\ calls[m].op \in ops
      BY <1>2 DEF Waiting, Covers
    <2>2. m # n
      BY <1>2, <2>1 DEF Covers
    <2>3. calls'[m].live /\ calls'[m].op \in ops
      BY <2>1, <2>2 DEF Others
    <2> QED BY <2>3 DEF Waiting
  <1> QED BY <1>1, <1>2

LEMMA HangsByParts ==
    WaitsHaveRequests <=> /\ org.loading => Waiting(OrgLoads)
                          /\ org.busy => Waiting(OrgSaves)
                          /\ adm.loading => Waiting(AdmLoads)
                          /\ adm.busy => Waiting(AdmActs)
                          /\ adm.saving => Waiting(AdmSaves)
                          /\ adm.deleting => Waiting(AdmDeletes)
  BY DEF WaitsHaveRequests, OrgLoads, OrgSaves, AdmLoads, AdmActs, AdmSaves, AdmDeletes

LEMMA HangsStep ==
    ASSUME WaitsHaveRequests, NEW n \in CallIds, Others(n),
           org'.loading => Covers(n, org.loading, OrgLoads),
           org'.busy => Covers(n, org.busy, OrgSaves),
           adm'.loading => Covers(n, adm.loading, AdmLoads),
           adm'.busy => Covers(n, adm.busy, AdmActs),
           adm'.saving => Covers(n, adm.saving, AdmSaves),
           adm'.deleting => Covers(n, adm.deleting, AdmDeletes)
    PROVE  WaitsHaveRequests'
  <1>1. "none" \notin OrgLoads \cup OrgSaves \cup AdmLoads \cup AdmActs \cup AdmSaves \cup AdmDeletes
    BY DEF OrgLoads, OrgSaves, AdmLoads, AdmActs, AdmSaves, AdmDeletes
  <1>2. org'.loading => Waiting(OrgLoads)'
    BY <1>1, Covered, HangsByParts
  <1>3. org'.busy => Waiting(OrgSaves)'
    BY <1>1, Covered, HangsByParts
  <1>4. adm'.loading => Waiting(AdmLoads)'
    BY <1>1, Covered, HangsByParts
  <1>5. adm'.busy => Waiting(AdmActs)'
    BY <1>1, Covered, HangsByParts
  <1>6. adm'.saving => Waiting(AdmSaves)'
    BY <1>1, Covered, HangsByParts
  <1>7. adm'.deleting => Waiting(AdmDeletes)'
    BY <1>1, Covered, HangsByParts
  <1> QED BY <1>2, <1>3, <1>4, <1>5, <1>6, <1>7
          DEF WaitsHaveRequests, OrgLoads, OrgSaves, AdmLoads, AdmActs, AdmSaves, AdmDeletes, Waiting

(* The requests go on, or one does that nobody listens to. *)
LEMMA HangsServed ==
    ASSUME WaitsHaveRequests, UNCHANGED <<org, adm>>, NEW n \in CallIds, Others(n),
           calls[n].live => calls'[n].live /\ calls'[n].op = calls[n].op
    PROVE  WaitsHaveRequests'
  BY HangsStep DEF Covers

LEMMA HangsSent ==
    ASSUME WaitsHaveRequests, CallsFit, NEW op \in Op, NEW about \in About, NEW filter \in Filter,
           Send(op, about, filter),
           org'.loading => org.loading \/ op \in OrgLoads,
           org'.busy => org.busy \/ op \in OrgSaves,
           adm'.loading => adm.loading \/ op \in AdmLoads,
           adm'.busy => adm.busy \/ op \in AdmActs,
           adm'.saving => adm.saving \/ op \in AdmSaves,
           adm'.deleting => adm.deleting \/ op \in AdmDeletes
    PROVE  WaitsHaveRequests'
  <1>1. PICK n \in CallIds : /\ calls[n].op = "none"
                             /\ \A m \in CallIds \ {n} : calls'[m] = calls[m]
                             /\ calls'[n].op = op /\ calls'[n].live
    BY SentIs
  <1>2. Others(n)
    BY <1>1 DEF Others
  <1>3. \A ops \in {OrgLoads, OrgSaves, AdmLoads, AdmActs, AdmSaves, AdmDeletes} : "none" \notin ops
    BY DEF OrgLoads, OrgSaves, AdmLoads, AdmActs, AdmSaves, AdmDeletes
  <1>4. org'.loading => Covers(n, org.loading, OrgLoads)
    BY <1>1, <1>3 DEF Covers
  <1>5. org'.busy => Covers(n, org.busy, OrgSaves)
    BY <1>1, <1>3 DEF Covers
  <1>6. adm'.loading => Covers(n, adm.loading, AdmLoads)
    BY <1>1, <1>3 DEF Covers
  <1>7. adm'.busy => Covers(n, adm.busy, AdmActs)
    BY <1>1, <1>3 DEF Covers
  <1>8. adm'.saving => Covers(n, adm.saving, AdmSaves)
    BY <1>1, <1>3 DEF Covers
  <1>9. adm'.deleting => Covers(n, adm.deleting, AdmDeletes)
    BY <1>1, <1>3 DEF Covers
  <1> QED BY <1>2, <1>4, <1>5, <1>6, <1>7, <1>8, <1>9, HangsStep

(* A request settles: the flags that waited for it are cleared. *)
LEMMA HangsSettled ==
    ASSUME WaitsHaveRequests, CallsFit, NEW n \in CallIds, Settle(n),
           org'.loading => org.loading /\ calls[n].op \notin OrgLoads,
           org'.busy => org.busy /\ calls[n].op \notin OrgSaves,
           adm'.loading => adm.loading /\ calls[n].op \notin AdmLoads,
           adm'.busy => adm.busy /\ calls[n].op \notin AdmActs,
           adm'.saving => adm.saving /\ calls[n].op \notin AdmSaves,
           adm'.deleting => adm.deleting /\ calls[n].op \notin AdmDeletes
    PROVE  WaitsHaveRequests'
  <1>1. Others(n)
    BY SettledIs DEF Others
  <1> QED BY <1>1, HangsStep DEF Covers

LEMMA Unflagged ==
    \A at, e : /\ ~Mounted(at, e).busy
               /\ ~AdmMounted(at, e).busy /\ ~AdmMounted(at, e).saving
               /\ ~AdmMounted(at, e).deleting
  BY DEF Mounted, AdmMounted

(* A page that opens or closes drops what its own tab had asked for. *)
LEMMA HangsAbandoned ==
    ASSUME WaitsHaveRequests,
           \/ /\ ~org'.loading /\ ~org'.busy /\ UNCHANGED adm
              /\ Abandoned(FormOps \cup DetailsOps)
           \/ /\ ~adm'.loading /\ ~adm'.busy /\ ~adm'.saving /\ ~adm'.deleting /\ UNCHANGED org
              /\ Abandoned(ReviewOps \cup CategoryOps \cup UserOps)
    PROVE  WaitsHaveRequests'
  <1>1. ASSUME NEW ops, NEW left, Abandoned(left), ops \cap left = {}, Waiting(ops)
        PROVE  Waiting(ops)'
    <2>1. PICK m \in CallIds : calls[m].live /\ calls[m].op \in ops
      BY <1>1 DEF Waiting
    <2>2. calls'[m] = calls[m]
      BY <1>1, <2>1 DEF Abandoned, Without
    <2> QED BY <2>1, <2>2 DEF Waiting
  <1>2. CASE ~org'.loading /\ ~org'.busy /\ UNCHANGED adm /\ Abandoned(FormOps \cup DetailsOps)
    <2>1. \A ops \in {AdmLoads, AdmActs, AdmSaves, AdmDeletes} :
             ops \cap (FormOps \cup DetailsOps) = {}
      BY DEF AdmLoads, AdmActs, AdmSaves, AdmDeletes, FormOps, DetailsOps
    <2>2. /\ adm'.loading => Waiting(AdmLoads)'
          /\ adm'.busy => Waiting(AdmActs)'
      BY <1>1, <1>2, <2>1, HangsByParts
    <2>3. /\ adm'.saving => Waiting(AdmSaves)'
          /\ adm'.deleting => Waiting(AdmDeletes)'
      BY <1>1, <1>2, <2>1, HangsByParts
    <2> QED BY <1>2, <2>2, <2>3
            DEF WaitsHaveRequests, AdmLoads, AdmActs, AdmSaves, AdmDeletes, Waiting
  <1>3. CASE /\ ~adm'.loading /\ ~adm'.busy /\ ~adm'.saving /\ ~adm'.deleting /\ UNCHANGED org
             /\ Abandoned(ReviewOps \cup CategoryOps \cup UserOps)
    <2>1. \A ops \in {OrgLoads, OrgSaves} :
             ops \cap (ReviewOps \cup CategoryOps \cup UserOps) = {}
      BY DEF OrgLoads, OrgSaves, ReviewOps, CategoryOps, Loads, UserOps
    <2>2. org'.loading => Waiting(OrgLoads)'
      BY <1>1, <1>3, <2>1, HangsByParts
    <2>3. org'.busy => Waiting(OrgSaves)'
      BY <1>1, <1>3, <2>1, HangsByParts
    <2> QED BY <1>3, <2>2, <2>3 DEF WaitsHaveRequests, OrgLoads, OrgSaves, Waiting
  <1> QED BY <1>2, <1>3

LEMMA HangsEntered ==
    ASSUME TypeInv, WaitsHaveRequests, UNCHANGED adm, NEW at \in {"create", "edit", "details"},
           NEW e \in Events \cup {None}, Enter(at, e)
    PROVE  WaitsHaveRequests'
  <1>0. CallsFit
    BY DEF TypeInv, NetworkTyped
  <1> DEFINE cs == Without(FormOps \cup DetailsOps)
  <1>1. PICK n \in CallIds : /\ cs[n].op = "none"
                             /\ calls' = [cs EXCEPT ![n] = NewCall(FirstCall(at), e, None)]
    BY DEF Enter, SendFrom
  <1>2. cs \in [CallIds -> Fitting]
    BY <1>0, WithoutFits
  <1>3. FirstCall(at) \in Op /\ e \in About /\ None \in Filter
    BY DEF FirstCall, Op, About, Subject, Filter
  <1>4. /\ calls'[n].live /\ calls'[n].op = FirstCall(at)
        /\ \A m \in CallIds \ {n} : calls'[m] = cs[m]
    BY <1>1, <1>2, <1>3, NewIs
  <1>5. ASSUME NEW ops, ops \cap (FormOps \cup DetailsOps) = {}, "none" \notin ops, Waiting(ops)
        PROVE  Waiting(ops)'
    <2>1. PICK m \in CallIds : calls[m].live /\ calls[m].op \in ops
      BY <1>5 DEF Waiting
    <2>2. cs[m] = calls[m]
      BY <1>5, <2>1 DEF Without
    <2>3. m # n
      BY <1>1, <1>5, <2>1, <2>2
    <2> QED BY <1>4, <2>1, <2>2, <2>3 DEF Waiting
  <1>6. \A ops \in {AdmLoads, AdmActs, AdmSaves, AdmDeletes} :
           ops \cap (FormOps \cup DetailsOps) = {} /\ "none" \notin ops
    BY DEF AdmLoads, AdmActs, AdmSaves, AdmDeletes, FormOps, DetailsOps
  <1>7. /\ adm'.loading => Waiting(AdmLoads)'
        /\ adm'.busy => Waiting(AdmActs)'
    BY <1>5, <1>6, HangsByParts
  <1>8. /\ adm'.saving => Waiting(AdmSaves)'
        /\ adm'.deleting => Waiting(AdmDeletes)'
    BY <1>5, <1>6, HangsByParts
  <1>9. ~org'.busy /\ (org'.loading => at \in {"edit", "details"})
    BY MountedTyped DEF Enter
  <1>10. org'.loading => Waiting(OrgLoads)'
    <2>1. at \in {"edit", "details"} => FirstCall(at) \in OrgLoads
      BY DEF FirstCall, OrgLoads
    <2> QED BY <1>4, <1>9, <2>1 DEF Waiting
  <1> QED BY <1>7, <1>8, <1>9, <1>10
          DEF WaitsHaveRequests, OrgLoads, AdmLoads, AdmActs, AdmSaves, AdmDeletes, Waiting

LEMMA HangsOfOrganizer ==
    ASSUME TypeInv, WaitsHaveRequests, Organizer, UNCHANGED adm
    PROVE  WaitsHaveRequests'
  <1>0. CallsFit /\ OrganizerTyped
    BY DEF TypeInv, NetworkTyped
  <1>1. ASSUME org' = Mounted("dashboard", None), Abandoned(FormOps \cup DetailsOps)
        PROVE  WaitsHaveRequests'
    BY <1>1, MountedTyped, HangsAbandoned
  <1>2. CASE (\E at \in {"edit", "details"}, e \in Events : OpenEvent(at, e))
             \/ OpenCreate \/ GoToDashboard
    BY <1>1, <1>2, HangsEntered DEF OpenEvent, OpenCreate, GoToDashboard
  <1>3. ASSUME NEW op \in Op, NEW about \in About, NEW filter \in Filter, Send(op, about, filter),
               org'.loading => org.loading \/ op \in OrgLoads,
               org'.busy => org.busy \/ op \in OrgSaves
        PROVE  WaitsHaveRequests'
    BY <1>0, <1>3, HangsSent
  <1>4. ASSUME NEW to \in Events \cup {"dashboard"}, Navigate(to) PROVE WaitsHaveRequests'
    <2>1. CASE org' = [org EXCEPT !.event = to, !.loading = TRUE] /\ Send("details", to, None)
               /\ to \in Events
      <3>1. "details" \in Op \cap OrgLoads /\ to \in About /\ None \in Filter
        BY <2>1 DEF Op, OrgLoads, About, Subject, Filter
      <3>2. org'.busy = org.busy
        BY <1>0, <2>1 DEF OrganizerTyped, Org
      <3> QED BY <1>3, <2>1, <3>1, <3>2
    <2>2. CASE UNCHANGED <<org, network>>
      BY <2>2 DEF network, WaitsHaveRequests, Waiting
    <2> QED BY <1>1, <1>4, <2>1, <2>2, HangsEntered DEF Navigate
  <1>5. CASE KeepAsItIs \/ OpenClose \/ OpenCancel
    <2>1. PICK modal : org' = [org EXCEPT !.modal = modal]
      BY <1>5 DEF KeepAsItIs, OpenClose, OpenCancel, OpenModal
    <2>2. org'.loading = org.loading /\ org'.busy = org.busy
      BY <1>0, <2>1 DEF OrganizerTyped, Org
    <2>3. UNCHANGED calls
      BY <1>5 DEF KeepAsItIs, OpenClose, OpenCancel, OpenModal, network
    <2> QED BY <2>2, <2>3 DEF WaitsHaveRequests, Waiting
  <1>6. ASSUME org' = [org EXCEPT !.busy = TRUE], NEW op \in OrgSaves, NEW filter \in Filter,
               Send(op, org.event, filter)
        PROVE  WaitsHaveRequests'
    <2>1. org.event \in About /\ op \in Op
      BY <1>0, <1>6 DEF OrganizerTyped, Org, About, Subject, OrgSaves, Op
    <2>2. org'.loading = org.loading
      BY <1>0, <1>6 DEF OrganizerTyped, Org
    <2> QED BY <1>3, <1>6, <2>1, <2>2
  <1>7. ASSUME NEW form \in Form, SubmitNew(form) \/ SubmitEdit(form) PROVE WaitsHaveRequests'
    <2>1. Submit(form) /\ form \in Filter
      BY <1>7 DEF SubmitNew, SubmitEdit, Filter
    <2>2. PICK op \in OrgSaves : Send(op, org.event, form)
      BY <2>1 DEF Submit, Saving, OrgSaves
    <2> QED BY <1>6, <2>1, <2>2 DEF Submit
  <1>8. CASE OnCloseRegistration \/ OnReopenRegistration \/ OnCancelEvent
    <2>1. PICK op \in OrgSaves, modal \in {"none", "close", "cancel"} : Act(op, modal)
      BY <1>8 DEF OnCloseRegistration, OnReopenRegistration, OnCancelEvent, OrgSaves
    <2>2. None \in Filter
      BY DEF Filter
    <2> QED BY <1>6, <2>1, <2>2 DEF Act
  <1> QED BY <1>2, <1>4, <1>5, <1>7, <1>8 DEF Organizer

LEMMA HangsOfAdmin ==
    ASSUME TypeInv, WaitsHaveRequests, Admin \/ AnotherAdmin
    PROVE  WaitsHaveRequests'
  <1>0. CallsFit /\ AdminTyped
    BY DEF TypeInv, NetworkTyped
  <1>1. UNCHANGED org
    BY DEF Admin, OpenReview, OpenCategories, AdmGoToDashboard, CloseCategoryModal,
           ConfirmDelete, OpenUser, OpenConfirm, CloseConfirm, OnConfirmAction, RunAction,
           OpenCategoryModal, SubmitCategory, AdmEnter, AnotherAdmin, organizer, pages
  <1>2. CASE AdmGoToDashboard
    <2>1. ~adm'.loading /\ ~adm'.busy /\ ~adm'.saving /\ ~adm'.deleting
      BY <1>2 DEF AdmGoToDashboard, AdmMounted
    <2> QED BY <1>1, <1>2, <2>1, HangsAbandoned DEF AdmGoToDashboard
  <1>3. CASE CloseCategoryModal \/ OpenConfirm \/ CloseConfirm
             \/ \E modal \in {"add", "rename", "delete"}, c \in Categories \cup {None} :
                   OpenCategoryModal(modal, c)
    <2>1. PICK modal, c : \/ adm' = [adm EXCEPT !.modal = modal]
                          \/ adm' = [adm EXCEPT !.modal = modal, !.target = c]
      BY <1>3 DEF CloseCategoryModal, OpenConfirm, CloseConfirm, OpenCategoryModal
    <2>2. adm'.loading = adm.loading /\ adm'.busy = adm.busy /\ adm'.saving = adm.saving
          /\ adm'.deleting = adm.deleting
      BY <1>0, <2>1 DEF AdminTyped, Adm
    <2>3. UNCHANGED calls
      BY <1>3 DEF CloseCategoryModal, OpenConfirm, CloseConfirm, OpenCategoryModal, network
    <2> QED BY <1>1, <2>2, <2>3 DEF WaitsHaveRequests, Waiting
  <1>4. CASE AnotherAdmin
    BY <1>4 DEF AnotherAdmin, pages, WaitsHaveRequests, Waiting, organizer
  <1>5. /\ adm.event \in About /\ adm.target \in About /\ None \in About /\ None \in Filter
        /\ Names \subseteq Filter /\ Events \subseteq About
    BY <1>0 DEF AdminTyped, Adm, About, Subject, Filter
  <1>6. ASSUME NEW at, NEW op \in AdmLoads, NEW e \in About, AdmEnter(at, op, e)
        PROVE  WaitsHaveRequests'
    <2>1. ~adm'.busy /\ ~adm'.saving /\ ~adm'.deleting
      BY <1>6 DEF AdmEnter, AdmMounted
    <2>2. op \in Op
      BY DEF AdmLoads, Op
    <2>3. Send(op, e, None)
      BY <1>6 DEF AdmEnter
    <2> QED BY <1>0, <1>1, <1>5, <2>1, <2>2, <2>3, HangsSent
  <1>7. CASE (\E e \in Events : OpenReview(e)) \/ OpenCategories \/ OpenUser
    BY <1>5, <1>6, <1>7 DEF OpenReview, OpenCategories, OpenUser, AdmLoads
  <1>8. CASE OnConfirmAction \/ \E op \in {"approve", "reject", "changes"} : RunAction(op)
    <2>1. PICK op \in AdmActs, about \in {None, adm.event} : Send(op, about, None)
      BY <1>8 DEF OnConfirmAction, RunAction, AdmActs
    <2>2. /\ adm'.loading = adm.loading /\ adm'.saving = adm.saving
          /\ adm'.deleting = adm.deleting
      BY <1>0, <1>8 DEF OnConfirmAction, RunAction, AdminTyped, Adm
    <2>3. op \in Op
      BY DEF AdmActs, Op
    <2> QED BY <1>0, <1>1, <1>5, <2>1, <2>2, <2>3, HangsSent
  <1>9. CASE \E name \in Names : SubmitCategory(name)
    <2>1. PICK name \in Names : SubmitCategory(name)
      BY <1>9
    <2>2. /\ adm'.loading = adm.loading /\ adm'.busy = adm.busy
          /\ adm'.deleting = adm.deleting
      BY <1>0, <2>1 DEF SubmitCategory, AdminTyped, Adm
    <2>3. adm.modal \in Op \cap AdmSaves /\ Send(adm.modal, adm.target, name)
      BY <2>1 DEF SubmitCategory, AdmSaves, Op
    <2> QED BY <1>0, <1>1, <1>5, <2>2, <2>3, HangsSent
  <1>10. CASE ConfirmDelete
    <2>1. /\ adm'.loading = adm.loading /\ adm'.busy = adm.busy /\ adm'.saving = adm.saving
          /\ Send("delete", adm.target, None)
      BY <1>0, <1>10 DEF ConfirmDelete, AdminTyped, Adm
    <2>2. "delete" \in Op \cap AdmDeletes
      BY DEF Op, AdmDeletes
    <2> QED BY <1>0, <1>1, <1>5, <2>1, <2>2, HangsSent
  <1> QED BY <1>2, <1>3, <1>4, <1>7, <1>8, <1>9, <1>10 DEF Admin

LEMMA HangsOfAnswers ==
    ASSUME TypeInv, WaitsHaveRequests, UNCHANGED adm, NEW n \in CallIds, OrganizerCall(n)
    PROVE  WaitsHaveRequests'
  <1>0. CallsFit /\ OrganizerTyped
    BY DEF TypeInv, NetworkTyped
  <1> USE DEF OrgLoads, OrgSaves, AdmLoads, AdmActs, AdmSaves, AdmDeletes
  <1>1. ASSUME Settle(n), calls[n].op \in FormOps \cup DetailsOps,
               org'.loading => org.loading /\ calls[n].op \notin OrgLoads,
               org'.busy => org.busy /\ calls[n].op \notin OrgSaves
        PROVE  WaitsHaveRequests'
    BY <1>0, <1>1, HangsSettled DEF FormOps, DetailsOps
  <1>2. CASE OptionsAnswered(n)
    <2>1. org'.loading = org.loading /\ org'.busy = org.busy
      BY <1>0, <1>2 DEF OptionsAnswered, OrganizerTyped, Org
    <2> QED BY <1>1, <1>2, <2>1 DEF OptionsAnswered, Settling, FormOps
  <1>3. CASE FormAnswered(n) \/ DetailsAnswered(n)
    <2>1. ~org'.loading /\ org'.busy = org.busy
      BY <1>0, <1>3 DEF FormAnswered, DetailsAnswered, OrganizerTyped, Org
    <2>2. Settle(n) /\ calls[n].op \in {"form", "details"}
      BY <1>3 DEF FormAnswered, DetailsAnswered, Settling
    <2> QED BY <1>1, <2>1, <2>2 DEF FormOps, DetailsOps
  <1>4. CASE UploadAnswered(n)
    <2>1. /\ calls[n].op = "upload" /\ UNCHANGED org
          /\ calls' = [calls EXCEPT ![n].op = Saving(calls[n].about), ![n].stage = "sent"]
      BY <1>4 DEF UploadAnswered, organizer
    <2>2. calls[n] \in Call
      BY <1>0 DEF CallsFit, Fitting
    <2>3. /\ \A m \in CallIds \ {n} : calls'[m] = calls[m]
          /\ calls'[n].op = Saving(calls[n].about) /\ calls'[n].live = calls[n].live
      BY <1>0, <2>1, <2>2, CallIs DEF CallsFit
    <2>4. Saving(calls[n].about) \in OrgSaves
      BY DEF Saving
    <2>5. Others(n)
      BY <2>3 DEF Others
    <2>6. Covers(n, org.busy, OrgSaves) <=> org.busy \/ calls'[n].live
      BY <2>1, <2>3, <2>4 DEF Covers
    <2> QED BY <2>1, <2>5, <2>6, HangsStep DEF Covers
  <1>5. CASE EventCreated(n) \/ EventUpdated(n)
    <2>1. Settle(n) /\ calls[n].op \in {"create", "update"}
      BY <1>5 DEF EventCreated, EventUpdated, Saved
    <2>2. CASE ~calls[n].live
      <3>1. UNCHANGED org /\ Others(n)
        BY <1>0, <1>5, <2>1, <2>2, SettledIs DEF EventCreated, EventUpdated, Saved, Others
      <3> QED BY <2>2, <3>1, HangsServed
    <2>3. CASE calls[n].live
      <3>1. org' = [org EXCEPT !.busy = FALSE]
        BY <1>5, <2>3 DEF EventCreated, EventUpdated, Saved
      <3>2. ~org'.busy /\ org'.loading = org.loading
        BY <1>0, <3>1 DEF OrganizerTyped, Org
      <3> QED BY <1>1, <2>1, <3>2 DEF FormOps
    <2> QED BY <2>2, <2>3
  <1>6. CASE SaveFailed(n) \/ ActAnswered(n) \/ ActFailed(n)
    <2>1. ~org'.busy /\ org'.loading = org.loading
      BY <1>0, <1>6 DEF SaveFailed, ActAnswered, ActFailed, OrganizerTyped, Org
    <2>2. /\ Settle(n)
          /\ calls[n].op \in {"upload", "create", "update", "close", "reopen", "cancel"}
      BY <1>6 DEF SaveFailed, ActAnswered, ActFailed, Settling
    <2> QED BY <1>1, <2>1, <2>2 DEF FormOps, DetailsOps
  <1> QED BY <1>2, <1>3, <1>4, <1>5, <1>6 DEF OrganizerCall

LEMMA HangsOfAdminCalls ==
    ASSUME TypeInv, WaitsHaveRequests, NEW n \in CallIds, AdminCall(n)
    PROVE  WaitsHaveRequests'
  <1>0. CallsFit /\ AdminTyped
    BY DEF TypeInv, NetworkTyped
  <1> USE DEF OrgLoads, OrgSaves, AdmLoads, AdmActs, AdmSaves, AdmDeletes
  <1>1. UNCHANGED org
    BY DEF AdminCall, PendingAnswered, RunActionSettled, CategoryChanged, CategoryChangeFailed,
           CategoriesLoaded, UserAnswered, ConfirmSettled, organizer
  <1>2. ASSUME Settle(n), calls[n].op \notin OrgLoads \cup OrgSaves,
               adm'.loading => adm.loading /\ calls[n].op \notin AdmLoads,
               adm'.busy => adm.busy /\ calls[n].op \notin AdmActs,
               adm'.saving => adm.saving /\ calls[n].op \notin AdmSaves,
               adm'.deleting => adm.deleting /\ calls[n].op \notin AdmDeletes
        PROVE  WaitsHaveRequests'
    BY <1>0, <1>1, <1>2, HangsSettled
  <1>3. CASE PendingAnswered(n) \/ UserAnswered(n)
    <2>1. /\ ~adm'.loading /\ adm'.busy = adm.busy /\ adm'.saving = adm.saving
          /\ adm'.deleting = adm.deleting
      BY <1>0, <1>3 DEF PendingAnswered, UserAnswered, AdminTyped, Adm
    <2>2. Settle(n) /\ calls[n].op \in {"pending", "user"}
      BY <1>3 DEF PendingAnswered, UserAnswered, Settling
    <2> QED BY <1>2, <2>1, <2>2
  <1>4. CASE RunActionSettled(n) \/ ConfirmSettled(n)
    <2>1. /\ ~adm'.busy /\ adm'.loading = adm.loading /\ adm'.saving = adm.saving
          /\ adm'.deleting = adm.deleting
      BY <1>0, <1>4 DEF RunActionSettled, ConfirmSettled, AdminTyped, Adm
    <2>2. Settle(n) /\ calls[n].op \in AdmActs
      BY <1>4 DEF RunActionSettled, ConfirmSettled, Settling
    <2> QED BY <1>2, <2>1, <2>2
  <1>5. CASE CategoryChanged(n)
    <2>1. PICK op \in {"add", "rename", "delete"} : Settling(n, op, "answered")
      BY <1>5 DEF CategoryChanged
    <2>2. PICK reload \in {"after_save", "after_delete"} :
             /\ reload = IF op = "delete" THEN "after_delete" ELSE "after_save"
             /\ calls' = [calls EXCEPT ![n] = NewCall(reload, None, None)]
      BY <1>5, <2>1 DEF CategoryChanged, Settling
    <2>3. NewCall(reload, None, None).op = reload /\ NewCall(reload, None, None).live
      BY NewIs DEF Op, About, Filter
    <2>4. /\ calls[n].op = op /\ calls'[n].op = reload /\ calls'[n].live
          /\ \A m \in CallIds \ {n} : calls'[m] = calls[m]
      BY <1>0, <2>1, <2>2, <2>3 DEF CallsFit, Settling
    <2>5. /\ adm'.loading = adm.loading /\ adm'.busy = adm.busy /\ adm'.saving = adm.saving
          /\ adm'.deleting = adm.deleting
      BY <1>0, <1>5 DEF CategoryChanged, AdminTyped, Adm
    <2>6. Others(n)
      BY <2>4 DEF Others
    <2>7. adm.saving => Covers(n, adm.saving, AdmSaves)
      BY <2>2, <2>4 DEF Covers
    <2>8. adm.deleting => Covers(n, adm.deleting, AdmDeletes)
      BY <2>2, <2>4 DEF Covers
    <2>9. /\ org.loading => Covers(n, org.loading, OrgLoads)
          /\ org.busy => Covers(n, org.busy, OrgSaves)
      BY <2>4 DEF Covers
    <2>10. /\ adm.loading => Covers(n, adm.loading, AdmLoads)
           /\ adm.busy => Covers(n, adm.busy, AdmActs)
      BY <2>4 DEF Covers
    <2> QED BY <1>1, <2>5, <2>6, <2>7, <2>8, <2>9, <2>10, HangsStep
  <1>6. CASE CategoryChangeFailed(n)
    <2>1. PICK op \in {"add", "rename", "delete"} :
             /\ calls[n].op = op
             /\ adm' = IF op = "delete" THEN [adm EXCEPT !.deleting = FALSE]
                       ELSE [adm EXCEPT !.saving = FALSE]
      BY <1>6 DEF CategoryChangeFailed, Settling
    <2>2. /\ adm'.busy = adm.busy /\ adm'.loading = adm.loading
          /\ IF op = "delete" THEN ~adm'.deleting /\ adm'.saving = adm.saving
             ELSE ~adm'.saving /\ adm'.deleting = adm.deleting
      BY <1>0, <2>1 DEF AdminTyped, Adm
    <2> QED BY <1>2, <1>6, <2>1, <2>2 DEF CategoryChangeFailed
  <1>7. CASE CategoriesLoaded(n)
    <2>1. PICK op \in Loads, s \in {"answered", "failed"} :
             /\ calls[n].op = op
             /\ adm' = [adm EXCEPT !.loading = FALSE,
                                   !.list = IF s = "answered" THEN Listed(n) ELSE @,
                                   !.saving = @ /\ op # "after_save",
                                   !.deleting = @ /\ op # "after_delete"]
      BY <1>7 DEF CategoriesLoaded, Settling
    <2>2. ~adm'.loading /\ adm'.busy = adm.busy
      BY <1>0, <2>1 DEF AdminTyped, Adm
    <2>3. adm'.saving => adm.saving /\ op # "after_save"
      BY <1>0, <2>1 DEF AdminTyped, Adm
    <2>4. adm'.deleting => adm.deleting /\ op # "after_delete"
      BY <1>0, <2>1 DEF AdminTyped, Adm
    <2>5. Settle(n)
      BY <1>7 DEF CategoriesLoaded
    <2> QED BY <1>2, <2>1, <2>2, <2>3, <2>4, <2>5 DEF Loads
  <1> QED BY <1>3, <1>4, <1>5, <1>6, <1>7 DEF AdminCall

LEMMA HangsOfServer ==
    ASSUME TypeInv, WaitsHaveRequests, NEW n \in CallIds,
           ServerStep(n) \/ NobodyHears(n) \/ CallFails(n)
    PROVE  WaitsHaveRequests'
  <1>0. CallsFit
    BY DEF TypeInv, NetworkTyped
  <1>1. UNCHANGED <<org, adm>>
    BY DEF ServerStep, ReadEvent, UpdateEvent, CreateEvent, UploadImage, GetMine, ListActive,
           ListPending, ListAll, AddCategory, RenameCategory, DetachEvents, DeleteRow, GetUser,
           SetStatus, NobodyHears, CallFails, Begin, Refused, pages, organizer
  <1>2. \/ (\E reply : Answer(n, reply)) \/ Refuse(n) \/ Fail(n) \/ UNCHANGED calls
        \/ Settle(n) /\ ~calls[n].live
    BY DEF ServerStep, ReadEvent, UpdateEvent, CreateEvent, UploadImage, GetMine, ListActive,
           ListPending, ListAll, AddCategory, RenameCategory, DetachEvents, DeleteRow, GetUser,
           SetStatus, NobodyHears, NobodyListens, CallFails, Begin, Refused, network
  <1>3. /\ \A m \in CallIds \ {n} : calls'[m] = calls[m]
        /\ calls[n].live => calls'[n].live /\ calls'[n].op = calls[n].op
    BY <1>0, <1>2, AnsweredIs, RefusedIs, FailedIs, SettledIs
  <1> QED BY <1>1, <1>3, HangsServed DEF Others

(* No button of either tab stays disabled and no spinner turns without a
   request of its own page that is still to be answered or to fail.        *)
THEOREM NothingWaitsForNothing == Spec => []WaitsHaveRequests
  <1>1. Init => WaitsHaveRequests
    <2> SUFFICES ASSUME Init PROVE WaitsHaveRequests
      OBVIOUS
    <2>1. org = Mounted("dashboard", None) /\ adm = AdmMounted("dashboard", None)
      BY DEF Init
    <2>2. ~org.loading /\ ~org.busy
      BY <2>1, MountedTyped
    <2>3. ~adm.loading
      BY <2>1 DEF AdmMounted
    <2> QED BY <2>1, <2>2, <2>3, Unflagged DEF WaitsHaveRequests
  <1>2. TypeInv /\ WaitsHaveRequests /\ [Next]_vars => TypeInv' /\ WaitsHaveRequests'
    <2> SUFFICES ASSUME TypeInv, WaitsHaveRequests, [Next]_vars PROVE WaitsHaveRequests'
      BY TypesStay
    <2>1. ASSUME NEW n \in CallIds, CallGoesOn(n) \/ CallFails(n) PROVE WaitsHaveRequests'
      BY <2>1, HangsOfAnswers, HangsOfAdminCalls, HangsOfServer DEF CallGoesOn
    <2>2. CASE UNCHANGED vars
      BY <2>2 DEF vars, network, pages, organizer, WaitsHaveRequests, Waiting
    <2> QED BY <2>1, <2>2, HangsOfOrganizer, HangsOfAdmin DEF Next
  <1> QED BY <1>1, <1>2, TypesStart, PTL DEF Spec
=============================================================================
