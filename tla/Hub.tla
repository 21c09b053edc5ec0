--------------------------------- MODULE Hub ---------------------------------
(***************************************************************************)
(* The API server's websocket hub, for the connections of one user: each   *)
(* connection has a handler goroutine that registers it, reads until the   *)
(* line breaks and unregisters it; the requests that notify the user write *)
(* to every registered connection.  They share a sync.RWMutex: handlers    *)
(* lock it, senders only read-lock it, and a handler that waits for it     *)
(* keeps further senders out.                                              *)
(***************************************************************************)
EXTENDS Integers, FiniteSets

CONSTANTS Conns,      \* connections the user's clients may open
          Page,       \* the one whose messages are followed
          Notices,    \* notifications of the user
          Senders,    \* requests that notify the user at the same time
          None,       \* a field of a sender that is not in use
          MaxFaults   \* bound on stalls, broken lines and failed requests

ASSUME FaultsAreNatural == MaxFaults \in Nat
ASSUME PageConnects == Page \in Conns
ASSUME NoneIsNothing == None \notin Conns /\ None \notin Notices

VARIABLES conns,      \* Hub.conns
          handler,    \* where each connection's handler is
          line,       \* the TCP connection below each
          wire,       \* written to Page and not yet received
          sender,     \* what each sending request holds
          faults      \* bound: what has gone wrong

hub == <<conns, handler, line, wire, sender, faults>>

HandlerAt == {"none", "lock_register", "reading", "lock_unregister"}
Sender == [pc: {"idle", "rlock", "write"}, notice: Notices \cup {None},
           todo: SUBSET Conns, writing: Conns \cup {None}]
NotSending == [pc |-> "idle", notice |-> None, todo |-> {}, writing |-> None]

HubTypeOK ==
    /\ conns \subseteq Conns
    /\ handler \in [Conns -> HandlerAt]
    /\ line \in [Conns -> {"none", "open", "stalled", "broken"}]
    /\ wire \subseteq Notices
    /\ sender \in [Senders -> Sender]
    /\ faults \in 0..MaxFaults

(* Connected: the page of an organizer, found registered. *)
HubInit(connected) ==
    /\ conns = connected
    /\ handler = [c \in Conns |-> IF c \in connected THEN "reading" ELSE "none"]
    /\ line = [c \in Conns |-> IF c \in connected THEN "open" ELSE "none"]
    /\ wire = {}
    /\ sender = [s \in Senders |-> NotSending]
    /\ faults = 0

-----------------------------------------------------------------------------
ReadLocked == \E s \in Senders : sender[s].pc = "write"
WriterWaits == \E c \in Conns : handler[c] \in {"lock_register", "lock_unregister"}

(* Stream: the token is valid and the connection is upgraded. *)
Upgrade(c) ==
    /\ handler[c] = "none"
    /\ handler' = [handler EXCEPT ![c] = "lock_register"]
    /\ line' = [line EXCEPT ![c] = "open"]
    /\ UNCHANGED <<conns, wire, sender, faults>>

Register(c) ==
    /\ handler[c] = "lock_register" /\ ~ReadLocked
    /\ handler' = [handler EXCEPT ![c] = "reading"]
    /\ conns' = conns \cup {c}
    /\ UNCHANGED <<line, wire, sender, faults>>

ReadMessageFails(c) ==
    /\ handler[c] = "reading" /\ line[c] = "broken"
    /\ handler' = [handler EXCEPT ![c] = "lock_unregister"]
    /\ UNCHANGED <<conns, line, wire, sender, faults>>

\* Mutant: Unregister does not take the lock.
UnregisterUnlocked(c) ==
    /\ handler[c] = "lock_unregister"
    /\ handler' = [handler EXCEPT ![c] = "none"]
    /\ conns' = conns \ {c}
    /\ line' = [line EXCEPT ![c] = "none"]
    /\ UNCHANGED <<wire, sender, faults>>

Unregister(c) ==
    /\ handler[c] = "lock_unregister" /\ ~ReadLocked
    /\ handler' = [handler EXCEPT ![c] = "none"]
    /\ conns' = conns \ {c}
    /\ line' = [line EXCEPT ![c] = "none"]
    /\ UNCHANGED <<wire, sender, faults>>

-----------------------------------------------------------------------------
(* SendToUser, from the read lock to the deferred unlock. *)
Writing(r) == [r EXCEPT !.pc = "write", !.todo = conns]
Skipping(r, c) == [r EXCEPT !.todo = @ \ {c}]
Done(r) == [r EXCEPT !.writing = None]
UnlockedIfDone(r) == IF r.todo = {} /\ r.writing = None THEN NotSending ELSE r

RLock(s) ==
    /\ sender[s].pc = "rlock" /\ ~WriterWaits
    /\ sender' = [sender EXCEPT ![s] = UnlockedIfDone(Writing(@))]
    /\ UNCHANGED <<conns, handler, line, wire, faults>>

BeingWritten(c) == \E s \in Senders : sender[s].writing = c

WriteMessage(s, c) ==
    /\ c \in sender[s].todo /\ sender[s].writing = None /\ ~BeingWritten(c)
    /\ sender' = [sender EXCEPT ![s].writing = c, ![s].todo = @ \ {c}]
    /\ UNCHANGED <<conns, handler, line, wire, faults>>

(* Two writers on one connection, which the library forbids: the second
   panics, which net/http recovers after the deferred unlock, or spoils its
   own message; either may spoil the first one's, whose buffer it shares.
   Senders are requests: nothing recovers the reminder goroutine, and the same
   panic there ends the process, the crash that Reminders has at any step.  *)
Collide(s, t, c) ==
    /\ c \in sender[s].todo /\ sender[s].writing = None
    /\ sender[t].writing = c
    /\ \E panics, spoilt \in BOOLEAN :
          sender' = [sender EXCEPT
                        ![s] = IF panics THEN NotSending ELSE UnlockedIfDone(Skipping(@, c)),
                        ![t] = IF spoilt THEN UnlockedIfDone(Done(@)) ELSE @]
    /\ UNCHANGED <<conns, handler, line, wire, faults>>

\* Mutant: a write to a dead client waits for it.
WrittenWhenAlive(s) ==
    LET c == sender[s].writing IN
    /\ c # None /\ line[c] = "open"
    /\ wire' = IF c = Page THEN wire \cup {sender[s].notice} ELSE wire
    /\ sender' = [sender EXCEPT ![s] = UnlockedIfDone(Done(@))]
    /\ UNCHANGED <<conns, handler, line, faults>>

(* There is no deadline: the write waits for a stalled client. *)
Written(s) ==
    LET c == sender[s].writing IN
    /\ c # None /\ line[c] # "stalled"
    /\ wire' = IF c = Page /\ line[c] = "open" THEN wire \cup {sender[s].notice} ELSE wire
    /\ sender' = [sender EXCEPT ![s] = UnlockedIfDone(Done(@))]
    /\ UNCHANGED <<conns, handler, line, faults>>

-----------------------------------------------------------------------------
(* The network and the clients. *)
Disturb == faults < MaxFaults /\ faults' = faults + 1

Stall(c) ==
    /\ line[c] = "open"
    /\ Disturb
    /\ line' = [line EXCEPT ![c] = "stalled"]
    /\ UNCHANGED <<conns, handler, wire, sender>>

Resume(c) ==
    /\ line[c] = "stalled"
    /\ line' = [line EXCEPT ![c] = "open"]
    /\ UNCHANGED <<conns, handler, wire, sender, faults>>

(* What was on its way is lost. *)
Cut(c) ==
    /\ line' = [line EXCEPT ![c] = "broken"]
    /\ wire' = IF c = Page THEN {} ELSE wire
    /\ UNCHANGED <<conns, handler, sender>>

Break(c) == line[c] = "open" /\ Disturb /\ Cut(c)

(* TCP retransmits to a client that does not drain for some time only. *)
GiveUp(c) == line[c] = "stalled" /\ Cut(c) /\ faults' = faults
=============================================================================
