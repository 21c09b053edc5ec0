----------------------------- MODULE ClientCalls -----------------------------
(***************************************************************************)
(* The requests a client has under way.  axios sends each one at once and  *)
(* settles a promise later; nothing orders the answers, and a request that *)
(* fails for the client (a dropped connection, the phone's 15 s timeout)   *)
(* may have been carried out all the same.  The server runs a request in   *)
(* one step here: its own statements are those of EventRequests.           *)
(***************************************************************************)
EXTENDS Integers

CONSTANTS Subjects,   \* what a request may be about
          Filters,    \* what a search may ask for
          Ops,        \* the requests there are
          Fetches,    \* those that only read
          Topics,     \* what an answer says of its subjects
          None,       \* an argument that is not in use
          MaxCalls,   \* bound on the requests a client sends
          MaxPending, \* bound on those under way at once
          MaxLost     \* bound on the requests that fail

VARIABLES calls,      \* the requests under way, with what came back
          sent,       \* bound: requests sent after the first page's
          lost        \* bound: requests that failed

CallIds == 1..MaxPending
Stage == {"sent", "answered", "refused", "failed"}

(* live: the component that sent it is still mounted. *)
Call == [op: Ops \cup {"none"}, about: Subjects \cup {None}, filter: Filters \cup {None},
         live: BOOLEAN, stage: Stage, reply: SUBSET (Topics \X Subjects)]

NoCall == [op |-> "none", about |-> None, filter |-> None, live |-> FALSE,
           stage |-> "sent", reply |-> {}]

NewCall(op, about, filter) ==
    [NoCall EXCEPT !.op = op, !.about = about, !.filter = filter, !.live = TRUE]

-----------------------------------------------------------------------------
Pending(n) == calls[n].op # "none"
AtServer(n) == Pending(n) /\ calls[n].stage = "sent"
(* The promise of call n is about to settle for a component still there. *)
Settling(n, op, stage) ==
    calls[n].op = op /\ calls[n].stage = stage /\ calls[n].live

(* cs with one more, in the first place that is free. *)
SendFrom(cs, op, about, filter) ==
    /\ sent < MaxCalls
    /\ sent' = sent + 1
    /\ \E n \in CallIds :
          /\ cs[n].op = "none" /\ \A m \in 1..(n - 1) : cs[m].op # "none"
          /\ calls' = [cs EXCEPT ![n] = NewCall(op, about, filter)]
    /\ lost' = lost

Send(op, about, filter) == SendFrom(calls, op, about, filter)

Settle(n) ==
    /\ calls' = [calls EXCEPT ![n] = NoCall]
    /\ UNCHANGED <<sent, lost>>

Answer(n, reply) ==
    /\ calls' = [calls EXCEPT ![n].stage = "answered", ![n].reply = reply]
    /\ UNCHANGED <<sent, lost>>

Refuse(n) ==
    /\ calls' = [calls EXCEPT ![n].stage = "refused"]
    /\ UNCHANGED <<sent, lost>>

(* Before or after the server carried it out. *)
Fail(n) ==
    /\ lost < MaxLost
    /\ lost' = lost + 1
    /\ Pending(n) /\ calls[n].stage \in {"sent", "answered"}
    /\ calls' = [calls EXCEPT ![n].stage = "failed", ![n].reply = {}]
    /\ sent' = sent

(* The component unmounts; what it sent goes on without it, and what it only
   asked for makes no difference any more.                                 *)
Without(ops) ==
    [n \in CallIds |-> CASE calls[n].op \in ops \cap Fetches -> NoCall
                        [] calls[n].op \in ops \ Fetches -> [calls[n] EXCEPT !.live = FALSE]
                        [] OTHER -> calls[n]]

Abandoned(ops) ==
    /\ calls' = Without(ops)
    /\ UNCHANGED <<sent, lost>>

NobodyListens(n) == Pending(n) /\ calls[n].stage # "sent" /\ ~calls[n].live
=============================================================================
