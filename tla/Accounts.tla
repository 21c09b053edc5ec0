------------------------------- MODULE Accounts -------------------------------
(***************************************************************************)
(* User accounts: registration, login, password recovery, profiles, and    *)
(* the admins' suspensions, as the SQL statements they are made of, side   *)
(* by side.  A session is a signed token that the server does not keep, so *)
(* nothing can be done to it once it is issued.                            *)
(***************************************************************************)
EXTENDS Integers, FiniteSets

CONSTANTS Users,          \* account ids, drawn by uuid.New
          Emails,
          Passwords,
          Tokens,         \* ids of password reset tokens
          AdminEmail,     \* the configured email, in the normal form of the others
          Workers,        \* request goroutines
          None,           \* a field that is not in use
          SessionLife,    \* how long a session is valid
          ResetLife,      \* how long a reset token is valid
          RequestLimit,   \* bound: the longest a request takes
          LastClock,      \* bound on the clock
          MaxRequests,    \* bound on the requests begun
          MaxFaults       \* bound on crashes and disconnects

ASSUME TheAdminHasAnEmail == AdminEmail \in Emails
ASSUME NoneIsNoEmail == None \notin Emails
ASSUME WorkersAreFinite == IsFiniteSet(Workers)
ASSUME LivesAreNatural == SessionLife \in Nat /\ ResetLife \in Nat /\ RequestLimit \in Nat

VARIABLES accounts,      \* table users
          resets,        \* table password_reset_tokens
          sessions,      \* when the last session issued to a user expires
          requests,      \* what each goroutine holds
          up,            \* the server serves requests
          clock,
          issued,        \* bound: requests begun
          faults,        \* bound: faults injected
          suspendedAt,   \* history: when a user was last suspended
          uses           \* history: passwords set with a reset token

tables == <<accounts, resets>>
bounds == <<issued, faults>>
history == <<suspendedAt, uses>>
vars == <<tables, sessions, requests, up, clock, bounds, history>>

Role == {"attendee", "organizer", "admin"}
Account == [email : Emails, password : Passwords, role : Role, status : {"active", "suspended"}]
NoRow == [email |-> None, password |-> None, role |-> "none", status |-> "none"]
Reset == [user : Users, expires : Nat, used : BOOLEAN]
NoReset == [user |-> None, expires |-> 0, used |-> FALSE]

-----------------------------------------------------------------------------
(* Statements of UserRepository. *)
Exists(u) == accounts[u] # NoRow
EmailExists(e) == \E u \in Users : accounts[u].email = e

(* The UNIQUE constraint on users.email. *)
UniqueEmail(u, e) == \A v \in Users \ {u} : accounts[v].email # e

NewUser(e, p, role) == [email |-> e, password |-> p, role |-> role, status |-> "active"]

ValidReset(t) == resets[t] # NoReset /\ ~resets[t].used /\ clock <= resets[t].expires

(* Suspended at an instant it was active until. *)
StatusWritten(u, status) ==
    suspendedAt' = IF status = "suspended" /\ accounts[u].status = "active"
                   THEN [suspendedAt EXCEPT ![u] = clock] ELSE suspendedAt

-----------------------------------------------------------------------------
(* A request holds its next statement, the user it is about, the struct it
   read and changed, the reset token it was sent, and when it began.       *)
Idle == [pc |-> "idle", user |-> None, account |-> NoRow, token |-> None, since |-> 0]

Begin(w, pc, u, account, t) ==
    /\ up /\ requests[w] = Idle
    /\ issued < MaxRequests /\ issued' = issued + 1
    /\ requests' = [requests EXCEPT ![w] =
           [pc |-> pc, user |-> u, account |-> account, token |-> t, since |-> clock]]
    /\ UNCHANGED <<tables, sessions, up, clock, faults, history>>

At(w, pc) == requests[w].pc = pc
Go(w, pc) == requests' = [requests EXCEPT ![w].pc = pc]
Done(w) == requests' = [requests EXCEPT ![w] = Idle]

LoggedIn(u) == clock < sessions[u]

(* Registration, as an attendee or an organizer. *)
Register(w, e, p, role) ==
    /\ role \in {"attendee", "organizer"}
    /\ ~EmailExists(e)
    /\ Begin(w, "create", None, NewUser(e, p, role), None)

\* Mutant: the table has no UNIQUE constraint on emails.
CreateAnyEmail(w, u) ==
    /\ At(w, "create") /\ ~Exists(u)
    /\ accounts' = [accounts EXCEPT ![u] = requests[w].account]
    /\ requests' = [requests EXCEPT ![w].pc = "generate", ![w].user = u]
    /\ UNCHANGED <<resets, sessions, up, clock, bounds, history>>

Create(w, u) ==
    /\ At(w, "create") /\ ~Exists(u)
    /\ UniqueEmail(u, requests[w].account.email)
    /\ accounts' = [accounts EXCEPT ![u] = requests[w].account]
    /\ requests' = [requests EXCEPT ![w].pc = "generate", ![w].user = u]
    /\ UNCHANGED <<resets, sessions, up, clock, bounds, history>>

CreateRefused(w) ==
    /\ At(w, "create") /\ EmailExists(requests[w].account.email)
    /\ Done(w)
    /\ UNCHANGED <<tables, sessions, up, clock, bounds, history>>

\* Mutant: the status is not looked at.
LoginSuspended(w, u, p) ==
    /\ accounts[u].password = p
    /\ Begin(w, "generate", u, accounts[u], None)

(* The status is that of the row read, whatever happens to it next. *)
Login(w, u, p) ==
    /\ accounts[u].status = "active" /\ accounts[u].password = p
    /\ Begin(w, "generate", u, accounts[u], None)

(* TokenManager.Generate.  Roles are written once, so that the role in the
   session is the user's.                                                  *)
Generate(w) ==
    /\ At(w, "generate")
    /\ sessions' = [sessions EXCEPT ![requests[w].user] = clock + SessionLife]
    /\ Done(w)
    /\ UNCHANGED <<tables, up, clock, bounds, history>>

(* Password recovery is open to suspended users, and a user may have several
   tokens.                                                                 *)
ForgotPassword(w, u) ==
    /\ Exists(u)
    /\ Begin(w, "save", u, accounts[u], None)

SavePasswordResetToken(w, t) ==
    /\ At(w, "save") /\ resets[t] = NoReset
    /\ resets' = [resets EXCEPT ![t] =
           [user |-> requests[w].user, expires |-> clock + ResetLife, used |-> FALSE]]
    /\ Done(w)
    /\ UNCHANGED <<accounts, sessions, up, clock, bounds, history>>

\* Mutant: the expiry is not compared.
ResetPasswordAnyTime(w, t, p) ==
    /\ resets[t] # NoReset /\ ~resets[t].used
    /\ Begin(w, "password", resets[t].user, [NoRow EXCEPT !.password = p], t)

ResetPassword(w, t, p) ==
    /\ ValidReset(t)
    /\ Begin(w, "password", resets[t].user, [NoRow EXCEPT !.password = p], t)

UpdatePassword(w) ==
    LET r == requests[w] IN
    /\ At(w, "password")
    /\ accounts' = [accounts EXCEPT ![r.user].password = r.account.password]
    /\ uses' = [uses EXCEPT ![r.token] = @ + 1]
    /\ Go(w, "mark")
    /\ UNCHANGED <<resets, sessions, up, clock, bounds, suspendedAt>>

\* Mutant: the token stays valid until it expires.
MarkNothing(w) ==
    /\ At(w, "mark")
    /\ Done(w)
    /\ UNCHANGED <<tables, sessions, up, clock, bounds, history>>

MarkPasswordResetTokenUsed(w) ==
    /\ At(w, "mark")
    /\ resets' = [resets EXCEPT ![requests[w].token].used = TRUE]
    /\ Done(w)
    /\ UNCHANGED <<accounts, sessions, up, clock, bounds, history>>

-----------------------------------------------------------------------------
(* A profile edit: read, check the email if it is a new one, write the name,
   the email and the picture.                                              *)
UpdateProfile(w, u, e) ==
    /\ LoggedIn(u) /\ Exists(u)
    /\ Begin(w, IF e = accounts[u].email THEN "profile" ELSE "check_email",
             u, [accounts[u] EXCEPT !.email = e], None)

CheckEmail(w) ==
    /\ At(w, "check_email")
    /\ IF EmailExists(requests[w].account.email) THEN Done(w) ELSE Go(w, "profile")
    /\ UNCHANGED <<tables, sessions, up, clock, bounds, history>>

\* Mutant: every column is written, as EventRepository.Update does.
WriteWholeAccount(w) ==
    LET r == requests[w] IN
    /\ At(w, "profile")
    /\ accounts' = IF UniqueEmail(r.user, r.account.email)
                   THEN [accounts EXCEPT ![r.user] = r.account] ELSE accounts
    /\ Done(w)
    /\ UNCHANGED <<resets, sessions, up, clock, bounds, history>>

WriteProfile(w) ==
    LET r == requests[w] IN
    /\ At(w, "profile")
    /\ accounts' = IF UniqueEmail(r.user, r.account.email)
                   THEN [accounts EXCEPT ![r.user].email = r.account.email] ELSE accounts
    /\ Done(w)
    /\ UNCHANGED <<resets, sessions, up, clock, bounds, history>>

-----------------------------------------------------------------------------
(* Suspension and activation by an admin, of anybody but admins. *)
IsAdmin(a) == LoggedIn(a) /\ accounts[a].role = "admin"

\* Mutant: admins can be suspended too.
SetStatusOfAnyone(w, u, status) ==
    /\ \E a \in Users : IsAdmin(a)
    /\ Exists(u)
    /\ Begin(w, "status", u, [accounts[u] EXCEPT !.status = status], None)

SetStatus(w, u, status) ==
    /\ \E a \in Users : IsAdmin(a)
    /\ Exists(u) /\ accounts[u].role # "admin"
    /\ Begin(w, "status", u, [accounts[u] EXCEPT !.status = status], None)

\* Mutant: the route's word instead of the one the CHECK constraint knows.
UpdateStatusMisspelt(w) ==
    LET r == requests[w] IN
    /\ At(w, "status")
    /\ accounts' = [accounts EXCEPT ![r.user].status =
                        IF r.account.status = "suspended" THEN "suspend" ELSE "activate"]
    /\ StatusWritten(r.user, r.account.status)
    /\ Done(w)
    /\ UNCHANGED <<resets, sessions, up, clock, bounds, uses>>

UpdateStatus(w) ==
    LET r == requests[w] IN
    /\ At(w, "status")
    /\ accounts' = [accounts EXCEPT ![r.user].status = r.account.status]
    /\ StatusWritten(r.user, r.account.status)
    /\ Done(w)
    /\ UNCHANGED <<resets, sessions, up, clock, bounds, uses>>

(* The server seeds the admin, unless the email is taken, before it serves. *)
EnsureAdmin ==
    /\ ~up /\ up' = TRUE
    /\ \/ EmailExists(AdminEmail) /\ UNCHANGED accounts
       \/ /\ ~EmailExists(AdminEmail)
          /\ \E u \in Users, p \in Passwords :
                ~Exists(u) /\ accounts' = [accounts EXCEPT ![u] = NewUser(AdminEmail, p, "admin")]
    /\ UNCHANGED <<resets, sessions, requests, clock, bounds, history>>

-----------------------------------------------------------------------------
Tick ==
    /\ clock < LastClock
    /\ \A w \in Workers : requests[w] # Idle => clock < requests[w].since + RequestLimit
    /\ clock' = clock + 1
    /\ UNCHANGED <<tables, sessions, requests, up, bounds, history>>

Fault == faults < MaxFaults /\ faults' = faults + 1

(* A disconnect cancels the request's context, or a statement fails. *)
Abandon(w) ==
    /\ Fault
    /\ requests[w] # Idle
    /\ Done(w)
    /\ UNCHANGED <<tables, sessions, up, clock, issued, history>>

Crash ==
    /\ Fault
    /\ up /\ up' = FALSE
    /\ requests' = [w \in Workers |-> Idle]
    /\ UNCHANGED <<tables, sessions, clock, issued, history>>

-----------------------------------------------------------------------------
Init ==
    /\ accounts = [u \in Users |-> NoRow]
    /\ resets = [t \in Tokens |-> NoReset]
    /\ sessions = [u \in Users |-> 0]
    /\ requests = [w \in Workers |-> Idle]
    /\ up = FALSE
    /\ clock = 0
    /\ issued = 0
    /\ faults = 0
    /\ suspendedAt = [u \in Users |-> 0]
    /\ uses = [t \in Tokens |-> 0]

Accept(w) ==
    \/ \E e \in Emails, p \in Passwords, role \in Role : Register(w, e, p, role)
    \/ \E u \in Users, p \in Passwords : Login(w, u, p)
    \/ \E u \in Users : ForgotPassword(w, u)
    \/ \E t \in Tokens, p \in Passwords : ResetPassword(w, t, p)
    \/ \E u \in Users, e \in Emails : UpdateProfile(w, u, e)
    \/ \E u \in Users, status \in {"active", "suspended"} : SetStatus(w, u, status)

Continue(w) ==
    \/ \E u \in Users : Create(w, u)
    \/ CreateRefused(w) \/ Generate(w)
    \/ \E t \in Tokens : SavePasswordResetToken(w, t)
    \/ UpdatePassword(w) \/ MarkPasswordResetTokenUsed(w)
    \/ CheckEmail(w) \/ WriteProfile(w) \/ UpdateStatus(w)

Next ==
    \/ \E w \in Workers : Accept(w) \/ Continue(w) \/ Abandon(w)
    \/ EnsureAdmin \/ Tick \/ Crash

Spec == Init /\ [][Next]_vars

-----------------------------------------------------------------------------
AfterRead == {"generate", "save", "password", "mark", "check_email", "profile", "status"}

Held == [email : Emails \cup {None}, password : Passwords \cup {None}, role : Role \cup {"none"},
         status : {"active", "suspended", "none"}]

(* Every table, request, clock and bound holds a value of its type. *)
TypeOK ==
    /\ accounts \in [Users -> Account \cup {NoRow}]
    /\ resets \in [Tokens -> Reset \cup {NoReset}]
    /\ sessions \in [Users -> Nat]
    /\ requests \in [Workers -> [pc : {"idle", "create"} \cup AfterRead, user : Users \cup {None},
                                 account : Held, token : Tokens \cup {None},
                                 since : Nat]]
    /\ up \in BOOLEAN /\ clock \in Nat /\ issued \in Nat /\ faults \in Nat
    /\ suspendedAt \in [Users -> Nat]
    /\ uses \in [Tokens -> Nat]

(* The inductive strengthening.  What a request holds at each statement is of
   use to it: the user it read exists still, for no statement deletes one, and
   a status is only written to a user that is no admin.                    *)
WellFormed(w) ==
    LET r == requests[w] IN
    /\ r.pc \in AfterRead => r.user \in Users /\ Exists(r.user)
    /\ r.pc = "create" => r.account \in Account /\ r.account.role # "admin"
                                                 /\ r.account.status = "active"
    /\ r.pc \in {"check_email", "profile"} => r.account.email \in Emails
    /\ r.pc = "status" => r.account.status \in {"active", "suspended"}
                          /\ accounts[r.user].role # "admin"
    /\ r.pc \in {"password", "mark"} => r.token \in Tokens /\ resets[r.token] # NoReset
    /\ r.pc = "password" => r.account.password \in Passwords
                            /\ r.since <= resets[r.token].expires

RequestsWellFormed == \A w \in Workers : WellFormed(w)

ResetsBelong == \A t \in Tokens : resets[t] # NoReset => Exists(resets[t].user)

RequestsAreShort ==
    \A w \in Workers :
        requests[w] # Idle => requests[w].since <= clock /\ clock <= requests[w].since + RequestLimit

(* Requests that are about to use a token are counted as uses, and those that
   have used it but not marked it keep a worker busy.                      *)
About(t) == {w \in Workers : At(w, "password") /\ requests[w].token = t}
Unmarked(t) == {w \in Workers : At(w, "mark") /\ requests[w].token = t}

UsesCounted ==
    \A t \in Tokens :
        LET W == Cardinality(Workers) IN
        /\ uses[t] + Cardinality(About(t)) <= W * faults + W
        /\ ~resets[t].used => uses[t] <= W * faults + Cardinality(Unmarked(t))
        /\ resets[t] = NoReset => uses[t] = 0

(* A login in progress for a suspended user read the row before.  A session is
   never good for longer than one life from now.                           *)
SessionsCounted ==
    /\ \A u \in Users : sessions[u] <= clock + SessionLife /\ suspendedAt[u] <= clock
    /\ \A w \in Workers :
          LET r == requests[w] IN
          At(w, "generate") /\ accounts[r.user].status = "suspended" => r.since <= suspendedAt[r.user]

AdminsAreActive == \A u \in Users : accounts[u].role = "admin" => accounts[u].status = "active"
DownIsIdle == ~up => \A w \in Workers : requests[w] = Idle
AdminSeeded ==
    up \/ (\E u \in Users : Exists(u)) => \E u \in Users : accounts[u].role = "admin"

(* No two accounts share an email, though registration and profile edits check
   it in one statement and write it in another.                            *)
OneAccountPerEmail ==
    \A u, v \in Users : Exists(u) /\ u # v => accounts[u].email # accounts[v].email

(* A password reset, a suspension or an activation is never undone by another
   operation that read the account before it: status and password change only
   by the statements that are about them, and the role never.              *)
EditsUndoNothing ==
    [][\A u \in Users : Exists(u) =>
          /\ accounts'[u].role = accounts[u].role
          /\ accounts'[u].status # accounts[u].status =>
                \E w \in Workers : At(w, "status") /\ requests[w].user = u
          /\ accounts'[u].password # accounts[u].password =>
                \E w \in Workers : At(w, "password") /\ requests[w].user = u]_vars

(* A reset token sets one password; requests side by side, and crashes before
   it is marked, may add one use per request in progress each.             *)
ResetUsesBounded ==
    \A t \in Tokens : uses[t] <= Cardinality(Workers) * (1 + faults)

(* No reset is later than its token's life and the time the request took. *)
ResetsAreTimely ==
    [][\A t \in Tokens : uses'[t] # uses[t] => clock <= resets[t].expires + RequestLimit]_vars

(* A suspended user's sessions end: at most one session's life, and the time
   of a login that was in progress, after the suspension.                  *)
SuspensionEndsSessions ==
    \A u \in Users :
        accounts[u].status = "suspended" =>
            sessions[u] <= suspendedAt[u] + RequestLimit + SessionLife

(* While the server serves requests, some admin can log in: nobody can suspend
   the last one, and a restart finds it even if it changed its email.      *)
AdminReady ==
    up => \E u \in Users : accounts[u].role = "admin" /\ accounts[u].status = "active"

AccountsInv ==
    /\ TypeOK /\ RequestsWellFormed /\ ResetsBelong /\ RequestsAreShort
    /\ OneAccountPerEmail /\ UsesCounted
    /\ SessionsCounted /\ SuspensionEndsSessions
    /\ AdminsAreActive /\ DownIsIdle /\ AdminSeeded
=============================================================================
