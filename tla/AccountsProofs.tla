---------------------------- MODULE AccountsProofs ----------------------------
(***************************************************************************)
(* What account operations side by side keep true for every number of      *)
(* users, emails, reset tokens and requests in progress.                   *)
(***************************************************************************)
EXTENDS Accounts, FiniteSetTheorems, TLAPS

Shape == TypeOK /\ RequestsWellFormed /\ ResetsBelong

(* What a request may begin with. *)
Sound(pc, u, a, t) ==
    /\ pc \in {"create", "generate", "save", "password", "check_email", "profile", "status"}
    /\ u \in Users \cup {None} /\ a \in Held /\ t \in Tokens \cup {None}
    /\ pc # "create" => u \in Users /\ Exists(u)
    /\ pc = "create" => a \in Account /\ a.role # "admin" /\ a.status = "active"
    /\ pc = "generate" => accounts[u].status = "active"
    /\ pc \in {"check_email", "profile"} => a.email \in Emails
    /\ pc = "status" => a.status \in {"active", "suspended"} /\ accounts[u].role # "admin"
    /\ pc = "password" => t \in Tokens /\ ValidReset(t) /\ a.password \in Passwords

Begins(w) ==
    \E pc \in {"create"} \cup AfterRead, u \in Users \cup {None}, a \in Held, t \in Tokens \cup {None} :
        Sound(pc, u, a, t) /\ Begin(w, pc, u, a, t)

LEMMA RowIsAnAccount ==
    ASSUME TypeOK, NEW u \in Users
    PROVE  /\ Exists(u) => accounts[u] \in Account
           /\ accounts[u] \in Held
           /\ accounts[u].status \in {"active", "suspended"} => Exists(u)
           /\ accounts[u].role = "admin" => Exists(u)
           /\ accounts[u].email \in Emails => Exists(u)
  BY NoneIsNoEmail DEF TypeOK, Exists, NoRow, Account, Held, Role

(* Every operation begins soundly. *)
LEMMA AcceptBegins ==
    ASSUME Shape, NEW w \in Workers, Accept(w)
    PROVE  Begins(w)
  <1> USE DEF Shape
  <1>1. CASE \E e \in Emails, p \in Passwords, role \in Role : Register(w, e, p, role)
    <2>1. PICK e \in Emails, p \in Passwords, role \in Role : Register(w, e, p, role)
      BY <1>1
    <2> DEFINE a == NewUser(e, p, role)
    <2>2. a \in Account /\ a \in Held /\ a.role # "admin" /\ a.status = "active"
      BY <2>1 DEF Register, NewUser, Account, Held, Role
    <2>3. Begin(w, "create", None, a, None)
      BY <2>1 DEF Register
    <2> HIDE DEF a
    <2>4. Sound("create", None, a, None)
      BY <2>2 DEF Sound
    <2> QED BY <2>2, <2>3, <2>4 DEF Begins
  <1>2. CASE \E u \in Users, p \in Passwords : Login(w, u, p)
    <2>1. PICK u \in Users, p \in Passwords : Login(w, u, p)
      BY <1>2
    <2>2. Sound("generate", u, accounts[u], None)
      BY <2>1, RowIsAnAccount DEF Sound, Login
    <2> QED BY <2>1, <2>2, RowIsAnAccount DEF Begins, Login, AfterRead
  <1>3. CASE \E u \in Users : ForgotPassword(w, u)
    <2>1. PICK u \in Users : ForgotPassword(w, u)
      BY <1>3
    <2>2. Sound("save", u, accounts[u], None)
      BY <2>1, RowIsAnAccount DEF Sound, ForgotPassword
    <2> QED BY <2>1, <2>2, RowIsAnAccount DEF Begins, ForgotPassword, AfterRead
  <1>4. CASE \E t \in Tokens, p \in Passwords : ResetPassword(w, t, p)
    <2>1. PICK t \in Tokens, p \in Passwords : ResetPassword(w, t, p)
      BY <1>4
    <2> DEFINE a == [NoRow EXCEPT !.password = p]
               u == resets[t].user
    <2>2. a \in Held /\ a.password \in Passwords
      BY DEF NoRow, Held
    <2>3. u \in Users /\ Exists(u)
      BY <2>1 DEF ResetPassword, ValidReset, TypeOK, Reset, ResetsBelong
    <2>4. Begin(w, "password", u, a, t) /\ ValidReset(t)
      BY <2>1 DEF ResetPassword
    <2> HIDE DEF a, u
    <2>5. Sound("password", u, a, t)
      BY <2>2, <2>3, <2>4 DEF Sound
    <2> QED BY <2>2, <2>3, <2>4, <2>5 DEF Begins, AfterRead
  <1>5. CASE \E u \in Users, e \in Emails : UpdateProfile(w, u, e)
    <2>1. PICK u \in Users, e \in Emails : UpdateProfile(w, u, e)
      BY <1>5
    <2> DEFINE a == [accounts[u] EXCEPT !.email = e]
               pc == IF e = accounts[u].email THEN "profile" ELSE "check_email"
    <2>2. a \in Held /\ a.email \in Emails
      BY RowIsAnAccount DEF Held
    <2>3. Begin(w, pc, u, a, None)
      BY <2>1 DEF UpdateProfile
    <2>4. pc \in {"profile", "check_email"}
      OBVIOUS
    <2>5. Exists(u)
      BY <2>1 DEF UpdateProfile
    <2> HIDE DEF a, pc
    <2>6. Sound(pc, u, a, None)
      BY <2>2, <2>4, <2>5 DEF Sound
    <2> QED BY <2>2, <2>3, <2>4, <2>6 DEF Begins, AfterRead
  <1>6. CASE \E u \in Users, status \in {"active", "suspended"} : SetStatus(w, u, status)
    <2>1. PICK u \in Users, status \in {"active", "suspended"} : SetStatus(w, u, status)
      BY <1>6
    <2> DEFINE a == [accounts[u] EXCEPT !.status = status]
    <2>2. a \in Held /\ a.status \in {"active", "suspended"}
      BY RowIsAnAccount DEF Held
    <2>3. Begin(w, "status", u, a, None) /\ Exists(u) /\ accounts[u].role # "admin"
      BY <2>1 DEF SetStatus
    <2> HIDE DEF a
    <2>4. Sound("status", u, a, None)
      BY <2>2, <2>3 DEF Sound
    <2> QED BY <2>2, <2>3, <2>4 DEF Begins, AfterRead
  <1> QED BY <1>1, <1>2, <1>3, <1>4, <1>5, <1>6 DEF Accept

(* Account rows stay, with their roles. *)
LEMMA RowsStay ==
    ASSUME Shape, [Next]_vars, NEW u \in Users, Exists(u)
    PROVE  Exists(u)' /\ accounts'[u].role = accounts[u].role
  <1>0. accounts[u] \in Account /\ accounts \in [Users -> Account \cup {NoRow}]
    BY RowIsAnAccount DEF Shape, TypeOK
  <1>1. CASE accounts' = accounts
    BY <1>1 DEF Exists
  <1>2. CASE \E w \in Workers, v \in Users : Create(w, v)
    BY <1>0, <1>2 DEF Create, Exists
  <1>3. CASE \E w \in Workers : UpdatePassword(w) \/ WriteProfile(w) \/ UpdateStatus(w)
    <2>1. PICK w \in Workers : UpdatePassword(w) \/ WriteProfile(w) \/ UpdateStatus(w)
      BY <1>3
    <2>2. requests[w].user \in Users
      BY <2>1 DEF Shape, RequestsWellFormed, WellFormed, AfterRead, At, UpdatePassword, WriteProfile, UpdateStatus
    <2>3. accounts'[u].role = accounts[u].role
      BY <1>0, <2>1, <2>2 DEF UpdatePassword, WriteProfile, UpdateStatus, Account
    <2> QED BY <1>0, <2>3 DEF Exists, NoRow, Account, Role
  <1>4. CASE EnsureAdmin
    BY <1>0, <1>4 DEF EnsureAdmin, Exists
  <1>5. CASE \E w \in Workers : Accept(w)
    BY <1>1, <1>5, AcceptBegins DEF Begins, Begin, tables
  <1> QED
    BY <1>1, <1>2, <1>3, <1>4, <1>5
    DEF Next, Continue, CreateRefused, Generate, SavePasswordResetToken, MarkPasswordResetTokenUsed,
        CheckEmail, Abandon, Tick, Crash, tables, vars

(* Writing one column of an account leaves an account. *)
LEMMA ColumnWritten ==
    ASSUME TypeOK, NEW u \in Users, Exists(u)
    PROVE  /\ \A e \in Emails : [accounts EXCEPT ![u].email = e] \in [Users -> Account \cup {NoRow}]
           /\ \A p \in Passwords : [accounts EXCEPT ![u].password = p] \in [Users -> Account \cup {NoRow}]
           /\ \A st \in {"active", "suspended"} :
                 [accounts EXCEPT ![u].status = st] \in [Users -> Account \cup {NoRow}]
  <1>1. accounts \in [Users -> Account \cup {NoRow}] /\ accounts[u] \in Account
    BY RowIsAnAccount DEF TypeOK
  <1>2. /\ \A e \in Emails : [accounts[u] EXCEPT !.email = e] \in Account
        /\ \A p \in Passwords : [accounts[u] EXCEPT !.password = p] \in Account
        /\ \A st \in {"active", "suspended"} : [accounts[u] EXCEPT !.status = st] \in Account
    BY <1>1 DEF Account
  <1> QED BY <1>1, <1>2

LEMMA TypesStep ==
    ASSUME Shape, [Next]_vars
    PROVE  TypeOK'
  <1> USE DEF Shape
  <1>1. ASSUME NEW w \in Workers, Accept(w) PROVE TypeOK'
    <2>1. PICK pc \in {"create"} \cup AfterRead, u \in Users \cup {None}, a \in Held, t \in Tokens \cup {None} :
              Sound(pc, u, a, t) /\ Begin(w, pc, u, a, t)
      BY <1>1, AcceptBegins DEF Begins
    <2> QED BY <2>1 DEF TypeOK, Begin, tables, history
  <1>2. ASSUME NEW w \in Workers, NEW u \in Users, Create(w, u) PROVE TypeOK'
    <2>1. requests[w].account \in Account
      BY <1>2 DEF Create, RequestsWellFormed, WellFormed, At
    <2> QED BY <1>2, <2>1 DEF Create, TypeOK, AfterRead, bounds, history
  <1>3. Idle \in [pc : {"idle", "create"} \cup AfterRead, user : Users \cup {None},
                 account : Held, token : Tokens \cup {None}, since : Nat]
    BY DEF Idle, Held, NoRow
  <1>4. ASSUME NEW w \in Workers, CreateRefused(w) \/ Abandon(w) PROVE TypeOK'
    BY <1>3, <1>4 DEF CreateRefused, Abandon, Fault, Done, TypeOK, tables, bounds, history
  <1>5. ASSUME NEW w \in Workers, Generate(w) PROVE TypeOK'
    <2>1. clock + SessionLife \in Nat
      BY LivesAreNatural DEF TypeOK
    <2> QED BY <1>3, <1>5, <2>1 DEF Generate, Done, TypeOK, tables, bounds, history
  <1>6. ASSUME NEW w \in Workers, NEW t \in Tokens, SavePasswordResetToken(w, t) PROVE TypeOK'
    <2>1. requests[w].user \in Users /\ clock + ResetLife \in Nat
      BY <1>6, LivesAreNatural DEF SavePasswordResetToken, At, RequestsWellFormed, WellFormed, AfterRead, TypeOK
    <2>2. resets' \in [Tokens -> Reset \cup {NoReset}]
      BY <1>6, <2>1 DEF SavePasswordResetToken, TypeOK, Reset
    <2> QED BY <1>3, <1>6, <2>2 DEF SavePasswordResetToken, Done, TypeOK, bounds, history
  <1>7. ASSUME NEW w \in Workers, UpdatePassword(w) PROVE TypeOK'
    <2>1. /\ requests[w].user \in Users /\ Exists(requests[w].user)
          /\ requests[w].account.password \in Passwords /\ requests[w].token \in Tokens
      BY <1>7 DEF UpdatePassword, At, RequestsWellFormed, WellFormed, AfterRead
    <2>2. accounts' \in [Users -> Account \cup {NoRow}]
      BY <1>7, <2>1, ColumnWritten DEF UpdatePassword
    <2> QED BY <1>7, <2>1, <2>2 DEF UpdatePassword, Go, TypeOK, AfterRead, bounds
  <1>8. ASSUME NEW w \in Workers, MarkPasswordResetTokenUsed(w) PROVE TypeOK'
    <2>1. requests[w].token \in Tokens /\ resets[requests[w].token] \in Reset
      BY <1>8 DEF MarkPasswordResetTokenUsed, At, RequestsWellFormed, WellFormed, AfterRead, TypeOK
    <2>2. resets' \in [Tokens -> Reset \cup {NoReset}]
      BY <1>8, <2>1 DEF MarkPasswordResetTokenUsed, TypeOK, Reset
    <2> QED BY <1>3, <1>8, <2>2 DEF MarkPasswordResetTokenUsed, Done, TypeOK, bounds, history
  <1>9. ASSUME NEW w \in Workers, CheckEmail(w) PROVE TypeOK'
    BY <1>3, <1>9 DEF CheckEmail, Done, Go, TypeOK, AfterRead, tables, bounds, history
  <1>10. ASSUME NEW w \in Workers, WriteProfile(w) PROVE TypeOK'
    <2>1. /\ requests[w].user \in Users /\ Exists(requests[w].user)
          /\ requests[w].account.email \in Emails
      BY <1>10 DEF WriteProfile, At, RequestsWellFormed, WellFormed, AfterRead
    <2>2. accounts' \in [Users -> Account \cup {NoRow}]
      BY <1>10, <2>1, ColumnWritten DEF WriteProfile, TypeOK
    <2> QED BY <1>3, <1>10, <2>2 DEF WriteProfile, Done, TypeOK, bounds, history
  <1>11. ASSUME NEW w \in Workers, UpdateStatus(w) PROVE TypeOK'
    <2>1. /\ requests[w].user \in Users /\ Exists(requests[w].user)
          /\ requests[w].account.status \in {"active", "suspended"}
      BY <1>11 DEF UpdateStatus, At, RequestsWellFormed, WellFormed, AfterRead
    <2>2. accounts' \in [Users -> Account \cup {NoRow}]
      BY <1>11, <2>1, ColumnWritten DEF UpdateStatus
    <2>3. suspendedAt' \in [Users -> Nat]
      BY <1>11, <2>1 DEF UpdateStatus, StatusWritten, TypeOK
    <2> QED BY <1>3, <1>11, <2>2, <2>3 DEF UpdateStatus, Done, TypeOK, bounds
  <1>12. CASE EnsureAdmin
    <2>1. \A p \in Passwords : NewUser(AdminEmail, p, "admin") \in Account
      BY TheAdminHasAnEmail DEF NewUser, Account, Role
    <2> QED BY <1>12, <2>1 DEF EnsureAdmin, TypeOK, bounds, history
  <1>13. CASE Tick
    BY <1>13 DEF Tick, TypeOK, tables, bounds, history
  <1>14. CASE Crash
    <2>1. up' \in BOOLEAN
      BY <1>14 DEF Crash
    <2>2. faults' \in Nat
      BY <1>14 DEF Crash, Fault, TypeOK
    <2>3. requests' = [w \in Workers |-> Idle] /\ UNCHANGED <<tables, sessions, clock, issued, history>>
      BY <1>14 DEF Crash
    <2> QED BY <1>3, <2>1, <2>2, <2>3 DEF TypeOK, tables, history
  <1>15. CASE UNCHANGED vars
    BY <1>15 DEF vars, tables, bounds, history, TypeOK
  <1>16. ASSUME NEW w \in Workers, Continue(w) PROVE TypeOK'
    BY <1>2, <1>4, <1>5, <1>6, <1>7, <1>8, <1>9, <1>10, <1>11, <1>16 DEF Continue
  <1>17. CASE \E w \in Workers : Accept(w) \/ Continue(w) \/ Abandon(w)
    BY <1>1, <1>4, <1>16, <1>17
  <1> QED BY <1>12, <1>13, <1>14, <1>15, <1>17 DEF Next

(* A token, once saved, keeps its user and its expiry. *)
LEMMA ResetsStay ==
    ASSUME Shape, [Next]_vars, NEW t \in Tokens, resets[t] # NoReset
    PROVE  /\ resets'[t] # NoReset /\ resets[t] \in Reset
           /\ resets'[t].user = resets[t].user /\ resets'[t].expires = resets[t].expires
           /\ resets[t].used => resets'[t].used
  <1>0. resets[t] \in Reset /\ resets \in [Tokens -> Reset \cup {NoReset}]
    BY DEF Shape, TypeOK
  <1>1. CASE resets' = resets
    BY <1>0, <1>1
  <1>2. CASE \E w \in Workers, s \in Tokens : SavePasswordResetToken(w, s)
    BY <1>0, <1>2 DEF SavePasswordResetToken
  <1>3. CASE \E w \in Workers : MarkPasswordResetTokenUsed(w)
    <2>1. PICK w \in Workers : MarkPasswordResetTokenUsed(w)
      BY <1>3
    <2>2. requests[w].token \in Tokens
      BY <2>1 DEF Shape, RequestsWellFormed, WellFormed, At, MarkPasswordResetTokenUsed
    <2>3. CASE requests[w].token = t
      <3>1. resets'[t] = [resets[t] EXCEPT !.used = TRUE]
        BY <1>0, <2>1, <2>3 DEF MarkPasswordResetTokenUsed
      <3> QED BY <1>0, <3>1 DEF Reset, NoReset
    <2>4. CASE requests[w].token # t
      BY <1>0, <2>1, <2>2, <2>4 DEF MarkPasswordResetTokenUsed
    <2> QED BY <2>3, <2>4
  <1>4. CASE \E w \in Workers : Accept(w)
    BY <1>1, <1>4, AcceptBegins DEF Begins, Begin, tables
  <1> QED
    BY <1>1, <1>2, <1>3, <1>4
    DEF Next, Continue, Create, CreateRefused, Generate, UpdatePassword, CheckEmail, WriteProfile,
        UpdateStatus, EnsureAdmin, Abandon, Tick, Crash, tables, vars

(* What a step makes of a worker's request. *)
LEMMA Moves ==
    ASSUME Shape, [Next]_vars, NEW w \in Workers
    PROVE  \/ requests'[w] = requests[w]
           \/ requests'[w] = Idle
           \/ Begins(w)
           \/ \E u \in Users : Create(w, u)
           \/ UpdatePassword(w)
           \/ CheckEmail(w) /\ requests'[w] = [requests[w] EXCEPT !.pc = "profile"]
  <1>0. requests[w] = requests[w] /\ w \in DOMAIN requests /\ DOMAIN requests = Workers
    BY DEF Shape, TypeOK
  <1>1. CASE requests' = requests
    BY <1>1
  <1>2. ASSUME NEW v \in Workers, Done(v) PROVE requests'[w] \in {requests[w], Idle}
    BY <1>0, <1>2 DEF Done
  <1>3. ASSUME NEW v \in Workers, NEW u \in Users, Create(v, u)
        PROVE  v = w \/ requests'[w] = requests[w]
    BY <1>0, <1>3 DEF Create
  <1>4. ASSUME NEW v \in Workers, UpdatePassword(v) PROVE v = w \/ requests'[w] = requests[w]
    BY <1>0, <1>4 DEF UpdatePassword, Go
  <1>5. ASSUME NEW v \in Workers, CheckEmail(v)
        PROVE  \/ requests'[w] \in {requests[w], Idle}
               \/ v = w /\ requests'[w] = [requests[w] EXCEPT !.pc = "profile"]
    BY <1>0, <1>2, <1>5 DEF CheckEmail, Go
  <1>6. ASSUME NEW v \in Workers, Accept(v) PROVE Begins(w) \/ requests'[w] = requests[w]
    <2>1. Begins(v)
      BY <1>6, AcceptBegins
    <2> QED BY <1>0, <2>1 DEF Begins, Begin
  <1>7. CASE Crash
    BY <1>7 DEF Crash
  <1>8. ASSUME NEW v \in Workers,
               CreateRefused(v) \/ Generate(v) \/ (\E t \in Tokens : SavePasswordResetToken(v, t))
               \/ MarkPasswordResetTokenUsed(v) \/ WriteProfile(v) \/ UpdateStatus(v) \/ Abandon(v)
        PROVE  Done(v)
    BY <1>8 DEF CreateRefused, Generate, SavePasswordResetToken, MarkPasswordResetTokenUsed,
                WriteProfile, UpdateStatus, Abandon
  <1>9. CASE EnsureAdmin \/ Tick \/ UNCHANGED vars
    BY <1>1, <1>9 DEF EnsureAdmin, Tick, vars
  <1>10. ASSUME NEW v \in Workers, Continue(v) \/ Abandon(v)
         PROVE  \/ requests'[w] \in {requests[w], Idle}
                \/ \E u \in Users : Create(w, u)
                \/ UpdatePassword(w)
                \/ CheckEmail(w) /\ requests'[w] = [requests[w] EXCEPT !.pc = "profile"]
    BY <1>2, <1>3, <1>4, <1>5, <1>8, <1>10 DEF Continue
  <1> QED BY <1>6, <1>7, <1>9, <1>10 DEF Next

LEMMA WellFormedStep ==
    ASSUME Shape, [Next]_vars
    PROVE  RequestsWellFormed'
  <1> SUFFICES ASSUME NEW w \in Workers PROVE WellFormed(w)'
    BY DEF RequestsWellFormed
  <1>0. WellFormed(w) /\ TypeOK /\ TypeOK'
    BY TypesStep DEF Shape, RequestsWellFormed
  <1>1. ASSUME NEW u \in Users, Exists(u) PROVE Exists(u)' /\ accounts'[u].role = accounts[u].role
    BY <1>1, RowsStay
  <1>2. ASSUME NEW t \in Tokens, resets[t] # NoReset
        PROVE  resets'[t] # NoReset /\ resets'[t].expires = resets[t].expires
    BY <1>2, ResetsStay
  <1>3. CASE requests'[w] = requests[w]
    BY <1>0, <1>1, <1>2, <1>3 DEF WellFormed, AfterRead
  <1>4. CASE requests'[w] = Idle
    BY <1>4 DEF WellFormed, Idle, AfterRead
  <1>5. CASE Begins(w)
    <2>1. PICK pc \in {"create"} \cup AfterRead, u \in Users \cup {None}, a \in Held, t \in Tokens \cup {None} :
              Sound(pc, u, a, t) /\ Begin(w, pc, u, a, t)
      BY <1>5 DEF Begins
    <2>2. requests'[w] = [pc |-> pc, user |-> u, account |-> a, token |-> t, since |-> clock]
      BY <1>0, <2>1 DEF Begin, TypeOK
    <2>3. accounts' = accounts /\ resets' = resets
      BY <2>1 DEF Begin, tables
    <2> QED BY <2>1, <2>2, <2>3 DEF WellFormed, Sound, AfterRead, Exists, ValidReset
  <1>6. CASE \E u \in Users : Create(w, u)
    <2>1. PICK u \in Users : Create(w, u)
      BY <1>6
    <2>2. requests'[w].pc = "generate" /\ requests'[w].user = u
      BY <1>0, <2>1 DEF Create, TypeOK
    <2>3. accounts'[u] \in Account
      BY <1>0, <2>1 DEF Create, TypeOK, WellFormed, At
    <2>4. Exists(u)'
      BY <2>3 DEF Exists, NoRow, Account, Role
    <2> QED BY <2>2, <2>4 DEF WellFormed, AfterRead
  <1>7. CASE UpdatePassword(w)
    <2>1. requests'[w] = [requests[w] EXCEPT !.pc = "mark"] /\ requests[w].pc = "password"
      BY <1>0, <1>7 DEF UpdatePassword, Go, At, TypeOK
    <2>2. requests'[w].pc = "mark" /\ requests'[w].user = requests[w].user
          /\ requests'[w].token = requests[w].token
      BY <1>0, <2>1 DEF TypeOK
    <2> QED BY <1>0, <1>1, <1>2, <2>1, <2>2 DEF WellFormed, AfterRead
  <1>8. CASE CheckEmail(w) /\ requests'[w] = [requests[w] EXCEPT !.pc = "profile"]
    <2>1. requests'[w].pc = "profile" /\ requests'[w].user = requests[w].user
          /\ requests'[w].account = requests[w].account /\ requests[w].pc = "check_email"
      BY <1>0, <1>8 DEF TypeOK, CheckEmail, At
    <2> QED BY <1>0, <1>1, <2>1 DEF WellFormed, AfterRead
  <1> QED BY <1>3, <1>4, <1>5, <1>6, <1>7, <1>8, Moves

LEMMA ResetsBelongStep ==
    ASSUME Shape, [Next]_vars
    PROVE  ResetsBelong'
  <1> SUFFICES ASSUME NEW t \in Tokens, resets'[t] # NoReset PROVE Exists(resets[t].user)'
    BY DEF ResetsBelong
  <1>1. CASE resets[t] # NoReset
    BY <1>1, ResetsStay, RowsStay DEF Shape, ResetsBelong, Reset, TypeOK
  <1>2. CASE resets[t] = NoReset
    <2>1. PICK w \in Workers : \E s \in Tokens : SavePasswordResetToken(w, s)
                              \/ MarkPasswordResetTokenUsed(w)
      BY <1>2, AcceptBegins
      DEF Next, Continue, Begins, Begin, Create, CreateRefused, Generate, UpdatePassword, CheckEmail,
          WriteProfile, UpdateStatus, EnsureAdmin, Abandon, Tick, Crash, tables, vars
    <2>2. WellFormed(w) /\ resets \in [Tokens -> Reset \cup {NoReset}]
      BY DEF Shape, RequestsWellFormed, TypeOK
    <2>3. CASE MarkPasswordResetTokenUsed(w)
      BY <1>2, <2>2, <2>3 DEF MarkPasswordResetTokenUsed, At, WellFormed
    <2>4. CASE \E s \in Tokens : SavePasswordResetToken(w, s)
      <3>1. resets'[t].user = requests[w].user /\ accounts' = accounts
        BY <1>2, <2>2, <2>4 DEF SavePasswordResetToken
      <3>2. Exists(requests[w].user) /\ requests[w].user \in Users
        BY <2>2, <2>4 DEF SavePasswordResetToken, At, WellFormed, AfterRead
      <3> QED BY <3>1, <3>2 DEF Exists
    <2> QED BY <2>1, <2>3, <2>4
  <1> QED BY <1>1, <1>2

LEMMA ShapeStep ==
    ASSUME Shape, [Next]_vars
    PROVE  Shape'
  BY TypesStep, WellFormedStep, ResetsBelongStep DEF Shape

-----------------------------------------------------------------------------
(* What a step makes of the accounts. *)
Inserted(u, a) ==
    /\ ~Exists(u) /\ a \in Account /\ a.status = "active" /\ UniqueEmail(u, a.email)
    /\ accounts' = [accounts EXCEPT ![u] = a]
    /\ UNCHANGED <<sessions, clock, suspendedAt>>

LEMMA AccountsMove ==
    ASSUME Shape, [Next]_vars
    PROVE  \/ accounts' = accounts /\ (up' => up \/ EmailExists(AdminEmail))
           \/ \E u \in Users, a \in Account :
                 Inserted(u, a) /\ (a.role = "admin" \/ \E w \in Workers : requests[w] # Idle)
           \/ \E w \in Workers : UpdatePassword(w) \/ WriteProfile(w) \/ UpdateStatus(w)
  <1>1. ASSUME NEW w \in Workers, NEW u \in Users, Create(w, u)
        PROVE  \E a \in Account : Inserted(u, a) /\ requests[w] # Idle
    <2> DEFINE a == requests[w].account
    <2>1. a \in Account /\ a.status = "active" /\ requests[w] # Idle
      BY <1>1 DEF Create, Shape, RequestsWellFormed, WellFormed, At, Idle
    <2>2. Inserted(u, a)
      BY <1>1, <2>1 DEF Create, Inserted, history
    <2> QED BY <2>1, <2>2
  <1>2. CASE EnsureAdmin
    <2>1. CASE EmailExists(AdminEmail) /\ UNCHANGED accounts
      BY <2>1
    <2>2. CASE ~EmailExists(AdminEmail)
      <3>1. PICK u \in Users, p \in Passwords :
                ~Exists(u) /\ accounts' = [accounts EXCEPT ![u] = NewUser(AdminEmail, p, "admin")]
        BY <1>2, <2>2 DEF EnsureAdmin
      <3> DEFINE a == NewUser(AdminEmail, p, "admin")
      <3>2. a \in Account /\ a.status = "active" /\ a.email = AdminEmail /\ a.role = "admin"
        BY TheAdminHasAnEmail DEF NewUser, Account, Role
      <3>3. UniqueEmail(u, AdminEmail)
        BY <2>2 DEF UniqueEmail, EmailExists
      <3>4. accounts' = [accounts EXCEPT ![u] = a]
        BY <3>1
      <3> HIDE DEF a
      <3>5. Inserted(u, a)
        BY <1>2, <3>1, <3>2, <3>3, <3>4 DEF Inserted, EnsureAdmin, history
      <3> QED BY <3>2, <3>5
    <2> QED BY <1>2, <2>1, <2>2 DEF EnsureAdmin
  <1>3. ASSUME NEW w \in Workers, Accept(w) PROVE accounts' = accounts /\ up' = up
    BY <1>3, AcceptBegins DEF Begins, Begin, tables
  <1>4. CASE Crash
    BY <1>4 DEF Crash, tables
  <1> QED
    BY <1>1, <1>2, <1>3, <1>4
    DEF Next, Continue, CreateRefused, Generate, SavePasswordResetToken, MarkPasswordResetTokenUsed,
        CheckEmail, Abandon, Tick, tables, vars

(* Emails stay different: an insert and a profile edit pass the constraint. *)
LEMMA EmailsStep ==
    ASSUME Shape, OneAccountPerEmail, [Next]_vars
    PROVE  OneAccountPerEmail'
  <1> USE DEF Shape
  <1>0. /\ accounts \in [Users -> Account \cup {NoRow}]
        /\ \A u \in Users : Exists(u) => accounts[u] \in Account
    BY RowIsAnAccount DEF TypeOK
  <1>1. CASE accounts' = accounts
    BY <1>1 DEF OneAccountPerEmail, Exists
  <1>2. CASE \E u \in Users, a \in Account : Inserted(u, a)
    <2>1. PICK u \in Users, a \in Account : Inserted(u, a)
      BY <1>2
    <2>2. a.email \in Emails /\ accounts' = [accounts EXCEPT ![u] = a]
          /\ \A v \in Users \ {u} : accounts[v].email # a.email
      BY <2>1 DEF Account, Inserted, UniqueEmail
    <2> SUFFICES ASSUME NEW v \in Users, NEW x \in Users, Exists(v)', v # x
                 PROVE  accounts'[v].email # accounts'[x].email
      BY DEF OneAccountPerEmail
    <2> QED BY <1>0, <2>2 DEF OneAccountPerEmail, Exists
  <1>3. CASE \E w \in Workers : UpdatePassword(w) \/ UpdateStatus(w)
    <2>1. PICK w \in Workers : UpdatePassword(w) \/ UpdateStatus(w)
      BY <1>3
    <2>2. requests[w].user \in Users /\ Exists(requests[w].user)
      BY <2>1 DEF RequestsWellFormed, WellFormed, AfterRead, At, UpdatePassword, UpdateStatus
    <2>3. ASSUME NEW v \in Users
          PROVE  accounts'[v].email = accounts[v].email /\ (Exists(v)' => Exists(v))
      BY <1>0, <2>1, <2>2 DEF UpdatePassword, UpdateStatus, Account, Exists
    <2> QED BY <2>3 DEF OneAccountPerEmail
  <1>4. CASE \E w \in Workers : WriteProfile(w)
    <2>1. PICK w \in Workers : WriteProfile(w)
      BY <1>4
    <2> DEFINE u == requests[w].user
               e == requests[w].account.email
    <2>2. u \in Users /\ Exists(u) /\ e \in Emails
      BY <2>1 DEF RequestsWellFormed, WellFormed, AfterRead, At, WriteProfile
    <2>3. CASE UniqueEmail(u, e)
      <3>1. accounts' = [accounts EXCEPT ![u].email = e]
        BY <2>1, <2>3 DEF WriteProfile
      <3>2. accounts'[u].email = e /\ \A v \in Users \ {u} : accounts'[v] = accounts[v] /\ accounts[v].email # e
        BY <1>0, <2>2, <2>3, <3>1 DEF UniqueEmail, Account
      <3> HIDE DEF u, e
      <3> SUFFICES ASSUME NEW v \in Users, NEW x \in Users, Exists(v)', v # x
                   PROVE  accounts'[v].email # accounts'[x].email
        BY DEF OneAccountPerEmail
      <3> QED BY <2>2, <3>2 DEF OneAccountPerEmail, Exists
    <2>4. CASE ~UniqueEmail(u, e)
      BY <1>1, <2>1, <2>4 DEF WriteProfile
    <2> QED BY <2>3, <2>4
  <1> QED BY <1>1, <1>2, <1>3, <1>4, AccountsMove

-----------------------------------------------------------------------------
(* A server that is down has no requests, for a restart finds none. *)
LEMMA DownStep ==
    ASSUME Shape, DownIsIdle, [Next]_vars
    PROVE  DownIsIdle'
  <1>1. CASE requests' = requests /\ (up' = up \/ EnsureAdmin)
    BY <1>1 DEF DownIsIdle, EnsureAdmin
  <1>2. ASSUME NEW w \in Workers, requests[w] # Idle, up' = up PROVE DownIsIdle'
    <2>1. up
      BY <1>2 DEF DownIsIdle
    <2> QED BY <1>2, <2>1 DEF DownIsIdle
  <1>3. ASSUME NEW w \in Workers, Continue(w) \/ Abandon(w) PROVE requests[w] # Idle /\ up' = up
    BY <1>3
    DEF Continue, Create, CreateRefused, Generate, SavePasswordResetToken, UpdatePassword,
        MarkPasswordResetTokenUsed, CheckEmail, WriteProfile, UpdateStatus, Abandon, At, Idle
  <1>4. ASSUME NEW w \in Workers, Accept(w) PROVE DownIsIdle'
    <2>1. up /\ up' = up
      BY <1>4, AcceptBegins DEF Begins, Begin
    <2> QED BY <2>1 DEF DownIsIdle
  <1>5. CASE Crash
    BY <1>5 DEF Crash, DownIsIdle
  <1>6. CASE EnsureAdmin \/ Tick \/ UNCHANGED vars
    BY <1>1, <1>6 DEF EnsureAdmin, Tick, vars
  <1> QED BY <1>2, <1>3, <1>4, <1>5, <1>6 DEF Next

(* Admins stay active, and there is one as soon as there is an account. *)
LEMMA AdminsStep ==
    ASSUME Shape, AdminsAreActive, DownIsIdle, AdminSeeded, [Next]_vars
    PROVE  AdminsAreActive' /\ AdminSeeded'
  <1> USE DEF Shape
  <1>0. /\ accounts \in [Users -> Account \cup {NoRow}]
        /\ \A u \in Users : Exists(u) => accounts[u] \in Account
        /\ \A u \in Users : accounts[u].role = "admin" => Exists(u)
        /\ \A u \in Users : accounts[u].email \in Emails => Exists(u)
    BY RowIsAnAccount DEF TypeOK
  <1>1. ASSUME NEW u \in Users, accounts[u].role = "admin" PROVE accounts'[u].role = "admin"
    BY <1>0, <1>1, RowsStay
  <1>2. AdminsAreActive'
    <2>1. CASE accounts' = accounts
      BY <2>1 DEF AdminsAreActive
    <2>2. CASE \E u \in Users, a \in Account : Inserted(u, a)
      BY <1>0, <2>2 DEF Inserted, AdminsAreActive
    <2>3. CASE \E w \in Workers : UpdatePassword(w) \/ WriteProfile(w) \/ UpdateStatus(w)
      <3>1. PICK w \in Workers : UpdatePassword(w) \/ WriteProfile(w) \/ UpdateStatus(w)
        BY <2>3
      <3>2. /\ requests[w].user \in Users /\ Exists(requests[w].user)
            /\ UpdateStatus(w) => accounts[requests[w].user].role # "admin"
        BY <3>1 DEF RequestsWellFormed, WellFormed, AfterRead, At, UpdatePassword, WriteProfile, UpdateStatus
      <3>3. ASSUME NEW v \in Users
            PROVE  /\ accounts'[v].role = accounts[v].role
                   /\ accounts'[v].status = accounts[v].status \/ accounts[v].role # "admin"
        BY <1>0, <3>1, <3>2 DEF UpdatePassword, WriteProfile, UpdateStatus, Account
      <3> QED BY <3>3 DEF AdminsAreActive
    <2> QED BY <2>1, <2>2, <2>3, AccountsMove
  <1>3. CASE \E u \in Users : accounts[u].role = "admin"
    BY <1>1, <1>2, <1>3 DEF AdminSeeded
  <1>4. CASE ~\E u \in Users : accounts[u].role = "admin"
    <2>1. ~up /\ \A u \in Users : ~Exists(u)
      BY <1>4 DEF AdminSeeded
    <2>2. \A w \in Workers : requests[w] = Idle
      BY <2>1 DEF DownIsIdle
    <2>3. ~EmailExists(AdminEmail)
      BY <1>0, <2>1, TheAdminHasAnEmail DEF EmailExists
    <2>4. CASE \E u \in Users, a \in Account : Inserted(u, a) /\ a.role = "admin"
      BY <1>0, <1>2, <2>4 DEF Inserted, AdminSeeded
    <2>5. ASSUME NEW w \in Workers, UpdatePassword(w) \/ WriteProfile(w) \/ UpdateStatus(w) PROVE FALSE
      BY <2>2, <2>5 DEF At, Idle, UpdatePassword, WriteProfile, UpdateStatus
    <2>6. CASE accounts' = accounts /\ (up' => up \/ EmailExists(AdminEmail))
      BY <1>2, <2>1, <2>3, <2>6 DEF AdminSeeded, Exists
    <2> QED BY <2>2, <2>4, <2>5, <2>6, AccountsMove
  <1> QED BY <1>3, <1>4

-----------------------------------------------------------------------------
(* Time, sessions and suspensions. *)
LEMMA ClockMoves ==
    ASSUME Shape, [Next]_vars
    PROVE  clock' = clock \/ Tick
  <1>1. ASSUME NEW w \in Workers, Accept(w) PROVE clock' = clock
    BY <1>1, AcceptBegins DEF Begins, Begin
  <1> QED
    BY <1>1
    DEF Next, Continue, Create, CreateRefused, Generate, SavePasswordResetToken, UpdatePassword,
        MarkPasswordResetTokenUsed, CheckEmail, WriteProfile, UpdateStatus, EnsureAdmin, Abandon,
        Crash, vars

LEMMA ShortStep ==
    ASSUME Shape, RequestsAreShort, [Next]_vars
    PROVE  RequestsAreShort'
  <1> SUFFICES ASSUME NEW w \in Workers, requests'[w] # Idle
               PROVE  requests'[w].since <= clock' /\ clock' <= requests'[w].since + RequestLimit
    BY DEF RequestsAreShort
  <1>0. /\ clock \in Nat /\ RequestLimit \in Nat /\ requests[w].since \in Nat
        /\ requests[w] # Idle => requests[w].since <= clock /\ clock <= requests[w].since + RequestLimit
    BY LivesAreNatural DEF Shape, TypeOK, RequestsAreShort
  <1>1. CASE Tick
    BY <1>0, <1>1 DEF Tick
  <1>2. CASE clock' = clock
    <2>1. CASE requests'[w] = requests[w]
      BY <1>0, <1>2, <2>1
    <2>2. CASE Begins(w)
      <3>1. requests'[w].since = clock
        BY <2>2 DEF Begins, Begin, Shape, TypeOK
      <3> QED BY <1>0, <1>2, <3>1
    <2>3. CASE (\E u \in Users : Create(w, u)) \/ UpdatePassword(w) \/ CheckEmail(w)
      <3>1. requests[w] # Idle
        BY <2>3 DEF Create, UpdatePassword, CheckEmail, At, Idle
      <3>2. requests'[w].since = requests[w].since
        BY <2>3 DEF Create, UpdatePassword, CheckEmail, Go, Done, Shape, TypeOK
      <3> QED BY <1>0, <1>2, <3>1, <3>2
    <2> QED BY <2>1, <2>2, <2>3, Moves
  <1> QED BY <1>1, <1>2, ClockMoves

(* The status of an account and the instant it was suspended change together. *)
LEMMA StatusMoves ==
    ASSUME Shape, [Next]_vars, NEW u \in Users
    PROVE  /\ suspendedAt'[u] \in {suspendedAt[u], clock}
           /\ accounts'[u].status = "suspended" =>
                 \/ accounts[u].status = "suspended" /\ suspendedAt'[u] = suspendedAt[u]
                 \/ suspendedAt'[u] = clock /\ sessions' = sessions /\ clock' = clock
  <1> USE DEF Shape
  <1>0. accounts \in [Users -> Account \cup {NoRow}] /\ suspendedAt \in [Users -> Nat]
        /\ \A v \in Users : Exists(v) => accounts[v] \in Account
    BY RowIsAnAccount DEF TypeOK
  <1>1. CASE suspendedAt' = suspendedAt /\ accounts' = accounts
    BY <1>1
  <1>2. CASE \E v \in Users, a \in Account : Inserted(v, a)
    BY <1>0, <1>2 DEF Inserted
  <1>3. CASE \E w \in Workers : UpdatePassword(w) \/ WriteProfile(w)
    <2>1. PICK w \in Workers : UpdatePassword(w) \/ WriteProfile(w)
      BY <1>3
    <2>2. requests[w].user \in Users /\ Exists(requests[w].user)
      BY <2>1 DEF RequestsWellFormed, WellFormed, AfterRead, At, UpdatePassword, WriteProfile
    <2>3. accounts'[u].status = accounts[u].status
      BY <1>0, <2>1, <2>2 DEF UpdatePassword, WriteProfile, Account
    <2> QED BY <2>1, <2>3 DEF UpdatePassword, WriteProfile, history
  <1>4. CASE \E w \in Workers : UpdateStatus(w)
    <2>1. PICK w \in Workers : UpdateStatus(w)
      BY <1>4
    <2> DEFINE v == requests[w].user
               st == requests[w].account.status
    <2>2. v \in Users /\ Exists(v) /\ st \in {"active", "suspended"}
      BY <2>1 DEF RequestsWellFormed, WellFormed, AfterRead, At, UpdateStatus
    <2>3. /\ accounts' = [accounts EXCEPT ![v].status = st]
          /\ suspendedAt' = IF st = "suspended" /\ accounts[v].status = "active"
                            THEN [suspendedAt EXCEPT ![v] = clock] ELSE suspendedAt
          /\ sessions' = sessions /\ clock' = clock
      BY <2>1 DEF UpdateStatus, StatusWritten
    <2>4. accounts[v] \in Account /\ accounts[v].status \in {"active", "suspended"}
      BY <1>0, <2>2 DEF Account
    <2> HIDE DEF v, st
    <2>5. CASE u = v
      <3>1. accounts'[u].status = st
        BY <1>0, <2>2, <2>3, <2>4, <2>5 DEF Account
      <3> QED BY <1>0, <2>2, <2>3, <2>4, <2>5, <3>1
    <2>6. CASE u # v
      BY <1>0, <2>2, <2>3, <2>6
    <2> QED BY <2>5, <2>6
  <1>5. suspendedAt' = suspendedAt \/ \E w \in Workers : UpdateStatus(w)
    <2>1. ASSUME NEW w \in Workers, Accept(w) PROVE suspendedAt' = suspendedAt
      BY <2>1, AcceptBegins DEF Begins, Begin, history
    <2> QED
      BY <2>1
      DEF Next, Continue, Create, CreateRefused, Generate, SavePasswordResetToken, UpdatePassword,
          MarkPasswordResetTokenUsed, CheckEmail, WriteProfile, EnsureAdmin, Abandon, Tick, Crash,
          history, vars
  <1> QED BY <1>1, <1>2, <1>3, <1>4, <1>5, AccountsMove

LEMMA SessionMoves ==
    ASSUME Shape, [Next]_vars, NEW u \in Users
    PROVE  \/ sessions'[u] = sessions[u]
           \/ \E w \in Workers : /\ At(w, "generate") /\ requests[w].user = u
                                 /\ sessions'[u] = clock + SessionLife /\ clock' = clock
  <1>1. CASE sessions' = sessions
    BY <1>1
  <1>2. ASSUME NEW w \in Workers, Generate(w)
        PROVE  \/ sessions'[u] = sessions[u]
               \/ /\ At(w, "generate") /\ requests[w].user = u
                  /\ sessions'[u] = clock + SessionLife /\ clock' = clock
    BY <1>2 DEF Generate, Shape, TypeOK
  <1>3. ASSUME NEW w \in Workers, Accept(w) PROVE sessions' = sessions
    BY <1>3, AcceptBegins DEF Begins, Begin
  <1> QED
    BY <1>1, <1>2, <1>3
    DEF Next, Continue, Create, CreateRefused, SavePasswordResetToken, UpdatePassword,
        MarkPasswordResetTokenUsed, CheckEmail, WriteProfile, UpdateStatus, EnsureAdmin, Abandon,
        Tick, Crash, vars

LEMMA SessionsStep ==
    ASSUME Shape, RequestsAreShort, SessionsCounted, SuspensionEndsSessions, [Next]_vars
    PROVE  SessionsCounted' /\ SuspensionEndsSessions'
  <1>0. /\ SessionLife \in Nat /\ RequestLimit \in Nat /\ clock \in Nat
        /\ \A u \in Users : sessions[u] \in Nat /\ suspendedAt[u] \in Nat
        /\ \A w \in Workers : requests[w].since \in Nat
    BY LivesAreNatural DEF Shape, TypeOK
  <1>1. clock' \in {clock, clock + 1}
    BY ClockMoves DEF Tick
  <1>2. ASSUME NEW u \in Users
        PROVE  sessions'[u] <= clock' + SessionLife /\ suspendedAt'[u] <= clock'
    <2>1. sessions[u] <= clock + SessionLife /\ suspendedAt[u] <= clock
      BY DEF SessionsCounted
    <2>2. suspendedAt'[u] <= clock'
      BY <1>0, <1>1, <2>1, StatusMoves
    <2>3. sessions'[u] = sessions[u] \/ sessions'[u] = clock + SessionLife
      BY SessionMoves
    <2> QED BY <1>0, <1>1, <2>1, <2>2, <2>3
  <1>3. ASSUME NEW w \in Workers, requests'[w].pc = "generate",
               accounts'[requests'[w].user].status = "suspended"
        PROVE  requests'[w].since <= suspendedAt'[requests'[w].user]
    <2>1. CASE requests'[w] = requests[w]
      <3> DEFINE u == requests[w].user
      <3>1. u \in Users /\ requests[w] # Idle
        BY <1>3, <2>1 DEF Shape, RequestsWellFormed, WellFormed, AfterRead, Idle
      <3>2. requests[w].since <= clock
        BY <3>1 DEF RequestsAreShort
      <3>3. accounts[u].status = "suspended" => requests[w].since <= suspendedAt[u]
        BY <1>3, <2>1 DEF SessionsCounted, At
      <3>4. \/ accounts[u].status = "suspended" /\ suspendedAt'[u] = suspendedAt[u]
            \/ suspendedAt'[u] = clock
        BY <1>3, <2>1, <3>1, StatusMoves
      <3> QED BY <2>1, <3>2, <3>3, <3>4
    <2>2. CASE requests'[w] = Idle
      BY <1>3, <2>2 DEF Idle
    <2>3. CASE Begins(w)
      <3>1. PICK pc \in {"create"} \cup AfterRead, u \in Users \cup {None}, a \in Held, t \in Tokens \cup {None} :
                Sound(pc, u, a, t) /\ Begin(w, pc, u, a, t)
        BY <2>3 DEF Begins
      <3>2. requests'[w].pc = pc /\ requests'[w].user = u /\ accounts' = accounts
        BY <3>1 DEF Begin, Shape, TypeOK, tables
      <3> QED BY <1>3, <3>1, <3>2 DEF Sound
    <2>4. CASE \E u \in Users : Create(w, u)
      <3>1. PICK u \in Users : Create(w, u)
        BY <2>4
      <3>2. requests'[w].user = u /\ accounts'[u] = requests[w].account
        BY <3>1 DEF Create, Shape, TypeOK
      <3>3. requests[w].account.status = "active"
        BY <3>1 DEF Create, At, Shape, RequestsWellFormed, WellFormed
      <3> QED BY <1>3, <3>2, <3>3
    <2>5. CASE UpdatePassword(w)
      BY <1>3, <2>5 DEF UpdatePassword, Go, Shape, TypeOK
    <2>6. CASE CheckEmail(w) /\ requests'[w] = [requests[w] EXCEPT !.pc = "profile"]
      BY <1>3, <2>6 DEF Shape, TypeOK
    <2> QED BY <2>1, <2>2, <2>3, <2>4, <2>5, <2>6, Moves
  <1>4. ASSUME NEW u \in Users, accounts'[u].status = "suspended"
        PROVE  sessions'[u] <= suspendedAt'[u] + RequestLimit + SessionLife
    <2>1. CASE suspendedAt'[u] = clock /\ sessions' = sessions
      <3>1. sessions[u] <= clock + SessionLife
        BY DEF SessionsCounted
      <3> QED BY <1>0, <2>1, <3>1
    <2>2. CASE accounts[u].status = "suspended" /\ suspendedAt'[u] = suspendedAt[u]
      <3>1. sessions[u] <= suspendedAt[u] + RequestLimit + SessionLife
        BY <2>2 DEF SuspensionEndsSessions
      <3>2. ASSUME NEW w \in Workers, At(w, "generate"), requests[w].user = u
            PROVE  clock + SessionLife <= suspendedAt[u] + RequestLimit + SessionLife
        <4>1. requests[w].since <= suspendedAt[u]
          BY <2>2, <3>2 DEF SessionsCounted
        <4>2. clock <= requests[w].since + RequestLimit
          BY <3>2 DEF RequestsAreShort, At, Idle
        <4> QED BY <1>0, <4>1, <4>2
      <3> QED BY <2>2, <3>1, <3>2, SessionMoves
    <2> QED BY <1>4, <2>1, <2>2, StatusMoves
  <1> QED BY <1>2, <1>3, <1>4 DEF SessionsCounted, SuspensionEndsSessions, At

-----------------------------------------------------------------------------
(* Counting the uses of a token. *)
LEMMA Sizes ==
    ASSUME NEW A \in SUBSET Workers, NEW M \in SUBSET Workers, A \cap M = {}
    PROVE  /\ Cardinality(Workers) \in Nat
           /\ IsFiniteSet(A) /\ IsFiniteSet(M) /\ Cardinality(A) \in Nat /\ Cardinality(M) \in Nat
           /\ Cardinality(A) + Cardinality(M) <= Cardinality(Workers)
  <1>1. A \cup M \subseteq Workers
    OBVIOUS
  <1>2. /\ IsFiniteSet(A) /\ IsFiniteSet(M) /\ IsFiniteSet(A \cup M)
        /\ Cardinality(A \cup M) <= Cardinality(Workers)
    BY <1>1, WorkersAreFinite, FS_Subset
  <1>3. /\ Cardinality(A) \in Nat /\ Cardinality(M) \in Nat /\ Cardinality(Workers) \in Nat
        /\ Cardinality(A \cup M) \in Nat
    BY <1>2, WorkersAreFinite, FS_CardinalityType
  <1>4. Cardinality(A \cup M) = Cardinality(A) + Cardinality(M) - Cardinality(A \cap M)
    BY <1>2, FS_Union
  <1>5. Cardinality(A \cap M) = 0
    BY FS_EmptySet
  <1> QED BY <1>2, <1>3, <1>4, <1>5

(* A fault allows one more use per worker. *)
LEMMA OneMoreFault ==
    ASSUME NEW W \in Nat, NEW f \in Nat
    PROVE  W * f \in Nat /\ W * (f + 1) = W * f + W
  OBVIOUS

LEMMA UsesStep ==
    ASSUME Shape, UsesCounted, [Next]_vars
    PROVE  UsesCounted'
  <1> DEFINE W == Cardinality(Workers)
             P == W * faults
             Counted(t) == /\ uses[t] + Cardinality(About(t)) <= P + W
                           /\ ~resets[t].used => uses[t] <= P + Cardinality(Unmarked(t))
                           /\ resets[t] = NoReset => uses[t] = 0
  <1> SUFFICES ASSUME NEW t \in Tokens PROVE Counted(t)'
    BY DEF UsesCounted
  <1> PICK A : A = About(t)
    OBVIOUS
  <1> PICK M : M = Unmarked(t)
    OBVIOUS
  <1> PICK A1 : A1 = About(t)'
    OBVIOUS
  <1> PICK M1 : M1 = Unmarked(t)'
    OBVIOUS
  <1>1. Counted(t) /\ TypeOK /\ TypeOK'
    BY TypesStep DEF UsesCounted, Shape
  <1>2. /\ A \subseteq Workers /\ M \subseteq Workers /\ A1 \subseteq Workers /\ M1 \subseteq Workers
        /\ \A w \in Workers : /\ w \in A <=> At(w, "password") /\ requests[w].token = t
                              /\ w \in M <=> At(w, "mark") /\ requests[w].token = t
                              /\ w \in A1 <=> (At(w, "password") /\ requests[w].token = t)'
                              /\ w \in M1 <=> (At(w, "mark") /\ requests[w].token = t)'
    BY DEF About, Unmarked
  <1>3. /\ W \in Nat /\ IsFiniteSet(A) /\ IsFiniteSet(M)
        /\ Cardinality(A) \in Nat /\ Cardinality(M) \in Nat /\ Cardinality(A) + Cardinality(M) <= W
        /\ Cardinality(A1) \in Nat /\ Cardinality(A1) + Cardinality(M1) <= W
    <2>1. A \cap M = {} /\ A1 \cap M1 = {}
      BY <1>2 DEF At
    <2> QED BY <1>2, <2>1, Sizes
  <1>4. faults \in Nat /\ uses[t] \in Nat /\ P \in Nat /\ W * (faults + 1) = P + W
    BY <1>1, <1>3, OneMoreFault DEF TypeOK
  <1> DEFINE Goal == /\ uses'[t] + Cardinality(A1) <= W * faults' + W
                     /\ ~resets'[t].used => uses'[t] <= W * faults' + Cardinality(M1)
                     /\ resets'[t] = NoReset => uses'[t] = 0
  <1>5. SUFFICES Goal
    OBVIOUS
  <1>6. /\ uses[t] + Cardinality(A) <= P + W
        /\ ~resets[t].used => uses[t] <= P + Cardinality(M)
        /\ resets[t] = NoReset => uses[t] = 0
    BY <1>1
  <1> HIDE DEF Counted
  (* Nothing about the token but, at most, its row being inserted. *)
  <1>7. ASSUME A1 = A, M1 = M, uses' = uses, faults' = faults,
               resets'[t] = resets[t] \/ resets[t] = NoReset
        PROVE  Goal
    BY <1>3, <1>4, <1>6, <1>7 DEF NoReset
  <1>8. CASE \E w \in Workers : UpdatePassword(w)
    <2>1. PICK w \in Workers : UpdatePassword(w)
      BY <1>8
    <2>2. requests'[w].pc = "mark" /\ requests'[w].token = requests[w].token
          /\ requests[w].pc = "password" /\ \A v \in Workers \ {w} : requests'[v] = requests[v]
      BY <1>1, <2>1 DEF UpdatePassword, Go, At, TypeOK
    <2>3. faults' = faults /\ resets' = resets
      BY <2>1 DEF UpdatePassword, bounds
    <2>4. requests[w].token \in Tokens /\ resets[requests[w].token] # NoReset
      BY <2>2 DEF Shape, RequestsWellFormed, WellFormed
    <2>5. CASE requests[w].token = t
      <3>1. w \in A /\ w \notin M /\ A1 = A \ {w} /\ M1 = M \cup {w}
        BY <1>2, <2>2, <2>5 DEF At
      <3>2. Cardinality(A1) = Cardinality(A) - 1 /\ Cardinality(M1) = Cardinality(M) + 1
        <4>1. Cardinality(M \cup {w}) = Cardinality(M) + 1
          BY <1>3, <3>1, FS_AddElement
        <4>2. Cardinality(A \ {w}) = Cardinality(A) - 1
          BY <1>3, <3>1, FS_RemoveElement
        <4> QED BY <3>1, <4>1, <4>2
      <3>3. uses'[t] = uses[t] + 1
        BY <1>1, <2>1, <2>5 DEF UpdatePassword, TypeOK
      <3> QED BY <1>3, <1>4, <1>6, <2>3, <2>4, <2>5, <3>2, <3>3
    <2>6. CASE requests[w].token # t
      <3>1. A1 = A /\ M1 = M
        BY <1>2, <2>2, <2>6 DEF At
      <3>2. uses'[t] = uses[t]
        BY <1>1, <2>1, <2>4, <2>6 DEF UpdatePassword, TypeOK
      <3> QED BY <1>3, <1>4, <1>6, <2>3, <3>1, <3>2
    <2> QED BY <2>5, <2>6
  <1>9. CASE \E w \in Workers : MarkPasswordResetTokenUsed(w)
    <2>1. PICK w \in Workers : MarkPasswordResetTokenUsed(w)
      BY <1>9
    <2>2. requests'[w].pc = "idle" /\ requests[w].pc = "mark"
          /\ \A v \in Workers \ {w} : requests'[v] = requests[v]
      BY <1>1, <2>1 DEF MarkPasswordResetTokenUsed, Done, Idle, At, TypeOK
    <2>3. faults' = faults /\ uses' = uses
      BY <2>1 DEF MarkPasswordResetTokenUsed, bounds, history
    <2>4. requests[w].token \in Tokens /\ resets[requests[w].token] \in Reset
      BY <1>1, <2>2 DEF Shape, RequestsWellFormed, WellFormed, TypeOK
    <2>5. A1 = A
      BY <1>2, <2>2 DEF At
    <2>6. CASE requests[w].token = t
      <3>1. resets'[t] = [resets[t] EXCEPT !.used = TRUE]
        BY <1>1, <2>1, <2>6 DEF MarkPasswordResetTokenUsed, TypeOK
      <3>2. resets'[t].used /\ resets'[t] # NoReset
        BY <2>4, <2>6, <3>1 DEF Reset, NoReset
      <3> QED BY <1>3, <1>4, <1>6, <2>3, <2>5, <3>2
    <2>7. CASE requests[w].token # t
      <3>1. M1 = M
        BY <1>2, <2>2, <2>7 DEF At
      <3>2. resets'[t] = resets[t]
        BY <1>1, <2>1, <2>4, <2>7 DEF MarkPasswordResetTokenUsed, TypeOK
      <3> QED BY <1>7, <2>3, <2>5, <3>1, <3>2
    <2> QED BY <2>6, <2>7
  <1>10. CASE \E w \in Workers : Accept(w)
    <2>1. PICK w \in Workers : Begins(w)
      BY <1>10, AcceptBegins
    <2>2. PICK pc \in {"create"} \cup AfterRead, u \in Users \cup {None}, a \in Held, s \in Tokens \cup {None} :
              Sound(pc, u, a, s) /\ Begin(w, pc, u, a, s)
      BY <2>1 DEF Begins
    <2>3. requests'[w].pc = pc /\ requests'[w].token = s /\ requests[w].pc = "idle"
          /\ \A v \in Workers \ {w} : requests'[v] = requests[v]
      BY <1>1, <2>2 DEF Begin, Idle, TypeOK
    <2>4. resets' = resets /\ uses' = uses /\ faults' = faults
      BY <2>2 DEF Begin, tables, history
    <2>5. pc # "mark" /\ (pc = "password" => ValidReset(s))
      BY <2>2 DEF Sound
    <2>6. M1 = M /\ w \notin A /\ w \notin M
      BY <1>2, <2>3, <2>5 DEF At
    <2>7. CASE pc = "password" /\ s = t
      <3>1. A1 = A \cup {w}
        BY <1>2, <2>3, <2>7 DEF At
      <3>2. Cardinality(A1) = Cardinality(A) + 1
        BY <1>3, <2>6, <3>1, FS_AddElement
      <3>3. ~resets[t].used
        BY <2>5, <2>7 DEF ValidReset
      <3> QED BY <1>3, <1>4, <1>6, <2>4, <2>6, <3>2, <3>3
    <2>8. CASE ~(pc = "password" /\ s = t)
      <3>1. A1 = A
        BY <1>2, <2>3, <2>8 DEF At
      <3> QED BY <1>7, <2>4, <2>6, <3>1
    <2> QED BY <2>7, <2>8
  <1>11. CASE Crash \/ \E w \in Workers : Abandon(w)
    <2>1. /\ \A v \in Workers : requests'[v] \in {requests[v], Idle}
          /\ faults' = faults + 1 /\ uses' = uses /\ resets' = resets
      BY <1>1, <1>11 DEF Crash, Abandon, Done, Fault, TypeOK, tables, history
    <2>2. A1 \subseteq A /\ M1 \subseteq M
      BY <1>2, <2>1 DEF At, Idle
    <2>3. IsFiniteSet(M1) /\ Cardinality(A1) <= Cardinality(A) /\ Cardinality(A1) \in Nat
          /\ Cardinality(M1) \in Nat
      BY <1>3, <2>2, FS_Subset, FS_CardinalityType
    <2> QED BY <1>3, <1>4, <1>6, <2>1, <2>3
  <1>12. ASSUME NEW w \in Workers,
                \/ \E u \in Users : Create(w, u)
                \/ CreateRefused(w) \/ Generate(w) \/ CheckEmail(w) \/ WriteProfile(w) \/ UpdateStatus(w)
                \/ \E s \in Tokens : SavePasswordResetToken(w, s)
         PROVE  Goal
    <2>1. /\ requests[w].pc \notin {"password", "mark"} /\ requests'[w].pc \notin {"password", "mark"}
          /\ \A v \in Workers \ {w} : requests'[v] = requests[v]
      BY <1>1, <1>12 DEF Create, CreateRefused, Generate, CheckEmail, WriteProfile, UpdateStatus,
         SavePasswordResetToken, At, Go, Done, Idle, TypeOK
    <2>2. A1 = A /\ M1 = M
      BY <1>2, <2>1 DEF At
    <2>3. /\ uses' = uses /\ faults' = faults
          /\ resets'[t] = resets[t] \/ resets[t] = NoReset
      BY <1>1, <1>12 DEF Create, CreateRefused, Generate, CheckEmail, WriteProfile, UpdateStatus,
         SavePasswordResetToken, tables, bounds, history, TypeOK
    <2> QED BY <1>7, <2>2, <2>3
  <1>13. CASE EnsureAdmin \/ Tick \/ UNCHANGED vars
    <2>1. requests' = requests /\ uses' = uses /\ faults' = faults /\ resets' = resets
      BY <1>13 DEF EnsureAdmin, Tick, tables, bounds, history, vars
    <2>2. A1 = A /\ M1 = M
      BY <1>2, <2>1 DEF At
    <2> QED BY <1>7, <2>1, <2>2
  <1> QED BY <1>8, <1>9, <1>10, <1>11, <1>12, <1>13 DEF Next, Continue

-----------------------------------------------------------------------------
LEMMA InitialAccounts == Init => AccountsInv
  <1> SUFFICES ASSUME Init PROVE AccountsInv
    OBVIOUS
  <1>1. \A w \in Workers : requests[w].pc = "idle" /\ requests[w] = Idle
    BY DEF Init, Idle
  <1>2. TypeOK
    <2>1. Idle \in [pc : {"idle", "create"} \cup AfterRead, user : Users \cup {None},
                   account : Held, token : Tokens \cup {None}, since : Nat]
      BY DEF Idle, Held, NoRow
    <2> QED BY <2>1 DEF Init, TypeOK
  <1>3. RequestsWellFormed /\ RequestsAreShort /\ DownIsIdle
    BY <1>1 DEF RequestsWellFormed, WellFormed, AfterRead, RequestsAreShort, DownIsIdle
  <1>4. ResetsBelong /\ OneAccountPerEmail /\ AdminsAreActive /\ AdminSeeded /\ SuspensionEndsSessions
    BY DEF Init, ResetsBelong, OneAccountPerEmail, AdminsAreActive, AdminSeeded, SuspensionEndsSessions,
           Exists, NoRow
  <1>5. SessionsCounted
    BY <1>1, LivesAreNatural DEF Init, SessionsCounted, At
  <1>6. UsesCounted
    <2> SUFFICES ASSUME NEW t \in Tokens
                 PROVE  LET W == Cardinality(Workers) IN
                        /\ uses[t] + Cardinality(About(t)) <= W * faults + W
                        /\ ~resets[t].used => uses[t] <= W * faults + Cardinality(Unmarked(t))
                        /\ resets[t] = NoReset => uses[t] = 0
      BY DEF UsesCounted
    <2>1. About(t) = {} /\ Unmarked(t) = {} /\ uses[t] = 0 /\ faults = 0
      BY <1>1 DEF Init, About, Unmarked, At
    <2>2. Cardinality({}) = 0 /\ Cardinality(Workers) \in Nat
      BY FS_EmptySet, WorkersAreFinite, FS_CardinalityType
    <2> QED BY <2>1, <2>2
  <1> QED BY <1>2, <1>3, <1>4, <1>5, <1>6 DEF AccountsInv

LEMMA AccountsInductive == AccountsInv /\ [Next]_vars => AccountsInv'
  BY ShapeStep, EmailsStep, ShortStep, UsesStep, SessionsStep, DownStep, AdminsStep
  DEF AccountsInv, Shape

LEMMA AccountsInvariant == Spec => []AccountsInv
  BY InitialAccounts, AccountsInductive, PTL DEF Spec

(* Every reachable state of the account tables and requests is type correct. *)
THEOREM AccountsTyped == Spec => []TypeOK
  BY AccountsInvariant, PTL DEF AccountsInv

(* Registrations and profile edits side by side never share an email. *)
THEOREM EmailsAreUnique == Spec => []OneAccountPerEmail
  BY AccountsInvariant, PTL DEF AccountsInv

(* A reset token is used once, and again only for requests side by side and
   for faults before it is marked.                                         *)
THEOREM ResetTokensWearOut == Spec => []ResetUsesBounded
  <1>1. AccountsInv => ResetUsesBounded
    <2> SUFFICES ASSUME AccountsInv, NEW t \in Tokens
                 PROVE  uses[t] <= Cardinality(Workers) * (1 + faults)
      BY DEF ResetUsesBounded
    <2> PICK A : A = About(t)
      OBVIOUS
    <2>1. uses[t] \in Nat /\ faults \in Nat
      BY DEF AccountsInv, TypeOK
    <2>2. Cardinality(Workers) \in Nat /\ Cardinality(A) \in Nat
      <3>1. A \subseteq Workers
        BY DEF About
      <3> QED BY <3>1, WorkersAreFinite, FS_Subset, FS_CardinalityType
    <2>3. uses[t] + Cardinality(A) <= Cardinality(Workers) * faults + Cardinality(Workers)
      BY DEF AccountsInv, UsesCounted
    <2>4. Cardinality(Workers) * faults \in Nat
          /\ Cardinality(Workers) * (1 + faults) = Cardinality(Workers) * faults + Cardinality(Workers)
      BY <2>1, <2>2, OneMoreFault
    <2> QED BY <2>1, <2>2, <2>3, <2>4
  <1> QED BY <1>1, AccountsInvariant, PTL

(* Sessions of a suspended user end in time. *)
THEOREM SessionsEnd == Spec => []SuspensionEndsSessions
  BY AccountsInvariant, PTL DEF AccountsInv

(* A server that serves has an admin who is not suspended. *)
THEOREM AdminsRemain == Spec => []AdminReady
  <1>1. AccountsInv => AdminReady
    BY DEF AccountsInv, AdminSeeded, AdminsAreActive, AdminReady
  <1> QED BY <1>1, AccountsInvariant, PTL

(* No operation undoes another's write to status, password or role. *)
THEOREM NothingIsUndone == Spec => EditsUndoNothing
  <1> DEFINE Kept(u) ==
        Exists(u) =>
          /\ accounts'[u].role = accounts[u].role
          /\ accounts'[u].status # accounts[u].status =>
                \E w \in Workers : At(w, "status") /\ requests[w].user = u
          /\ accounts'[u].password # accounts[u].password =>
                \E w \in Workers : At(w, "password") /\ requests[w].user = u
  <1>1. ASSUME AccountsInv, [Next]_vars, NEW u \in Users PROVE Kept(u)
    <2> SUFFICES ASSUME Exists(u) PROVE Kept(u)
      OBVIOUS
    <2>1. Shape /\ accounts \in [Users -> Account \cup {NoRow}] /\ accounts[u] \in Account
      BY <1>1, RowIsAnAccount DEF AccountsInv, Shape, TypeOK
    <2>2. accounts'[u].role = accounts[u].role
      BY <1>1, <2>1, RowsStay
    <2>3. CASE accounts' = accounts
      BY <2>3
    <2>4. CASE \E v \in Users, a \in Account : Inserted(v, a)
      BY <2>1, <2>2, <2>4 DEF Inserted
    <2>5. CASE \E w \in Workers : UpdatePassword(w) \/ WriteProfile(w) \/ UpdateStatus(w)
      <3>1. PICK w \in Workers : UpdatePassword(w) \/ WriteProfile(w) \/ UpdateStatus(w)
        BY <2>5
      <3>2. CASE UpdatePassword(w)
        <4>1. accounts'[u].status = accounts[u].status
              /\ (requests[w].user = u \/ accounts'[u] = accounts[u])
          BY <2>1, <3>2 DEF UpdatePassword, Account
        <4> QED BY <2>2, <3>2, <4>1 DEF UpdatePassword
      <3>3. CASE WriteProfile(w)
        <4>1. accounts'[u].status = accounts[u].status /\ accounts'[u].password = accounts[u].password
          BY <2>1, <3>3 DEF WriteProfile, Account
        <4> QED BY <2>2, <4>1
      <3>4. CASE UpdateStatus(w)
        <4>1. accounts'[u].password = accounts[u].password
              /\ (requests[w].user = u \/ accounts'[u] = accounts[u])
          BY <2>1, <3>4 DEF UpdateStatus, Account
        <4> QED BY <2>2, <3>4, <4>1 DEF UpdateStatus
      <3> QED BY <3>1, <3>2, <3>3, <3>4
    <2> QED BY <1>1, <2>1, <2>3, <2>4, <2>5, AccountsMove
  <1>2. AccountsInv /\ [Next]_vars => [\A u \in Users : Kept(u)]_vars
    BY <1>1
  <1> QED BY <1>2, AccountsInvariant, PTL DEF Spec, EditsUndoNothing

(* No password is set long after its token expired. *)
THEOREM ResetsKeepTime == Spec => ResetsAreTimely
  <1> DEFINE Timely(t) == uses'[t] # uses[t] => clock <= resets[t].expires + RequestLimit
  <1>1. ASSUME AccountsInv, [Next]_vars, NEW t \in Tokens PROVE Timely(t)
    <2>1. CASE uses' = uses
      BY <2>1
    <2>2. CASE \E w \in Workers : UpdatePassword(w)
      <3>1. PICK w \in Workers : UpdatePassword(w)
        BY <2>2
      <3>2. requests[w].token \in Tokens /\ requests[w].since <= resets[requests[w].token].expires
            /\ resets[requests[w].token] # NoReset
        BY <1>1, <3>1 DEF AccountsInv, RequestsWellFormed, WellFormed, UpdatePassword, At
      <3>3. clock <= requests[w].since + RequestLimit
        BY <1>1, <3>1 DEF AccountsInv, RequestsAreShort, UpdatePassword, At, Idle
      <3>4. /\ clock \in Nat /\ RequestLimit \in Nat /\ requests[w].since \in Nat
            /\ resets[requests[w].token].expires \in Nat
        BY <1>1, <3>2, LivesAreNatural DEF AccountsInv, TypeOK, Reset
      <3>5. uses'[t] # uses[t] => t = requests[w].token
        BY <1>1, <3>1 DEF UpdatePassword, AccountsInv, TypeOK
      <3> QED BY <3>2, <3>3, <3>4, <3>5
    <2>3. ASSUME NEW w \in Workers, Accept(w) PROVE uses' = uses
      BY <1>1, <2>3, AcceptBegins DEF Begins, Begin, history, AccountsInv, Shape
    <2> QED
      BY <1>1, <2>1, <2>2, <2>3
      DEF Next, Continue, Create, CreateRefused, Generate, SavePasswordResetToken,
          MarkPasswordResetTokenUsed, CheckEmail, WriteProfile, UpdateStatus, EnsureAdmin, Abandon,
          Tick, Crash, history, vars
  <1>2. AccountsInv /\ [Next]_vars => [\A t \in Tokens : Timely(t)]_vars
    BY <1>1
  <1> QED BY <1>2, AccountsInvariant, PTL DEF Spec, ResetsAreTimely
=============================================================================
