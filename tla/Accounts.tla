------------------------------- MODULE Accounts -------------------------------
(***************************************************************************)
(* Accounts: registration, confirmation links, linked addresses, sessions, *)
(* passwords and tokens (pkg/web/auth.go, session.go, profile.go, pkg/db), *)
(* the commands of pw admin user and the garbage collection of pw admin gc.*)
(*                                                                         *)
(* A POST is one transaction and one action.  The link of a confirmation   *)
(* is a GET, without a transaction: its statements are steps of their own, *)
(* between which other requests run, the server may stop, or one may fail. *)
(* So are the two halves of a login, whose session is inserted outside of  *)
(* the request's transaction.                                              *)
(***************************************************************************)
EXTENDS Naturals, FiniteSets

CONSTANTS
  Users,           \* accounts, by id
  Addresses,       \* addresses as typed
  Lower,           \* the address in lower case
  Confirmations,   \* keys of confirmation links
  Sessions,        \* session keys
  Workers,         \* connections that serve links and logins
  MaxEpoch,        \* bound: password changes of an account
  Null

VARIABLES
  user,        \* table auth_user: [active, address, password], or Null; with
               \* the last password that the web interface set
  conf,        \* table email_confirmation: [type, user, address, active, old]
  person,      \* table person: the linked user, Null if there is none, or
               \* "absent"; by the address as it is stored
  session,     \* table session: [user, expired], or Null; with the password
               \* it was opened with, and whether the web interface had
               \* replaced that already
  token,       \* users with a row in auth_token
  worker,      \* what a worker is in the middle of, or Null
  spent,       \* ids and keys that were given out
  done         \* history: links whose work was done to the end

vars == <<user, conf, person, session, token, worker, spent, done>>

ActiveUsers == {u \in Users : user[u] # Null /\ user[u].active}

IsValid(c) == c # Null /\ c.active /\ ~c.old

NewConfirmation(c, type, u, a) ==
  /\ c \notin spent
  /\ conf' = [conf EXCEPT ![c] = [type |-> type, user |-> u, address |-> a,
                                  active |-> TRUE, old |-> FALSE]]
  /\ spent' = spent \cup {c, u}

NewUser(active, a) == [active |-> active, address |-> a, password |-> 0, web |-> 0]

\* The user of a session that has not expired.
GetSessionUser(s) ==
  IF session[s] # Null /\ ~session[s].expired /\ session[s].user \in ActiveUsers
  THEN session[s].user ELSE Null

\* Mutant: the sessions are left alone.
MutantDeleteUserSessions(u) == session

DeleteUserSessions(u) ==
  [s \in Sessions |-> IF session[s] # Null /\ session[s].user = u
                      THEN Null ELSE session[s]]

NewSession(u, password, late) ==
  [user |-> u, expired |-> FALSE, password |-> password, late |-> late]

-----------------------------------------------------------------------------
(* Registration and links                                                  *)

RegisterSubmit(u, a, c) ==
  /\ u \notin spent
  /\ user' = [user EXCEPT ![u] = NewUser(FALSE, a)]
  /\ NewConfirmation(c, "registration", u, a)
  /\ UNCHANGED <<person, session, token, worker, done>>

LinkEmail(s, a, c) ==
  /\ GetSessionUser(s) # Null
  /\ NewConfirmation(c, "userperson", GetSessionUser(s), a)
  /\ UNCHANGED <<user, person, session, token, worker, done>>

\* To the first active account of that address, whatever its case.
PasswordReset(u, a, c) ==
  /\ u \in ActiveUsers /\ Lower[user[u].address] = Lower[a]
  /\ NewConfirmation(c, "password_reset", u, a)
  /\ UNCHANGED <<user, person, session, token, worker, done>>

Busy(step, c) == [step |-> step, conf |-> c, user |-> conf[c].user,
                  address |-> conf[c].address]

ConfirmHandler(w, c) ==
  /\ worker[w] = Null
  /\ IsValid(conf[c]) /\ conf[c].type \in {"registration", "userperson"}
  /\ worker' = [worker EXCEPT ![w] =
       Busy(IF conf[c].type = "registration" THEN "activate" ELSE "link", c)]
  /\ UNCHANGED <<user, conf, person, session, token, spent, done>>

At(w, step) == worker[w] # Null /\ worker[w].step = step

Goto(w, step) == worker' = [worker EXCEPT ![w].step = step]

Leave(w) == worker' = [worker EXCEPT ![w] = Null]

\* Mutant: the link is used up before the address is linked.
MutantAfter(step) == IF step = "activate" THEN "use up" ELSE "link"

\* The steps of a confirmation.
After(step) == IF step = "activate" THEN "link" ELSE "use up"

\* No row changes when the account is gone.
Activate(w) ==
  /\ At(w, "activate")
  /\ user' = IF user[worker[w].user] = Null THEN user
             ELSE [user EXCEPT ![worker[w].user].active = TRUE]
  /\ Goto(w, After("activate"))
  /\ UNCHANGED <<conf, person, session, token, spent, done>>

\* The person of the address whatever its case, else a new one under the
\* address as it was typed; the foreign key fails when the account is gone.
Link(w) ==
  LET r     == worker[w]
      found == {a \in Addresses : person[a] # "absent" /\ Lower[a] = Lower[r.address]}
  IN /\ At(w, "link")
     /\ \E a \in IF found = {} THEN {r.address} ELSE found :
          IF user[r.user] = Null
          THEN /\ person' = IF found = {} THEN [person EXCEPT ![a] = Null] ELSE person
               /\ Leave(w)
               /\ UNCHANGED done
          ELSE /\ person' = [person EXCEPT ![a] = r.user]
               /\ Goto(w, After("link"))
               /\ done' = done \cup {r.conf}
     /\ UNCHANGED <<user, conf, session, token, spent>>

UseUp(w) ==
  /\ At(w, "use up")
  /\ conf' = IF conf[worker[w].conf] = Null THEN conf
             ELSE [conf EXCEPT ![worker[w].conf].active = FALSE]
  /\ Leave(w)
  /\ UNCHANGED <<user, person, session, token, spent, done>>

\* A statement fails or the server stops: what was done before it stays.
Stop(w) ==
  /\ worker[w] # Null
  /\ Leave(w)
  /\ UNCHANGED <<user, conf, person, session, token, spent, done>>

\* The user's own address cannot be unlinked.
UnlinkEmail(s, a) ==
  LET u == GetSessionUser(s)
  IN /\ u # Null
     /\ person[a] = u /\ a # user[u].address
     /\ person' = [person EXCEPT ![a] = Null]
     /\ UNCHANGED <<user, conf, session, token, worker, spent, done>>

\* A mail arrives; its sender is stored in lower case.
GetOrCreatePerson(a) ==
  /\ person' = [person EXCEPT ![Lower[a]] = IF @ = "absent" THEN Null ELSE @]
  /\ UNCHANGED <<user, conf, session, token, worker, spent, done>>

-----------------------------------------------------------------------------
(* Sessions, passwords, tokens                                             *)

\* The password was right.
LoginSubmit(w, u) ==
  /\ worker[w] = Null
  /\ u \in ActiveUsers
  /\ worker' = [worker EXCEPT ![w] =
       [step |-> "login", user |-> u, password |-> user[u].password]]
  /\ UNCHANGED <<user, conf, person, session, token, spent, done>>

\* The foreign key fails when the account is gone; the password may have been
\* changed since it was compared.
CreateSession(w, s) ==
  LET r == worker[w]
      u == user[r.user]
  IN /\ At(w, "login")
     /\ session[s] = Null
     /\ session' = IF u = Null THEN session
                   ELSE [session EXCEPT ![s] =
                           NewSession(r.user, r.password, r.password < u.web)]
     /\ Leave(w)
     /\ UNCHANGED <<user, conf, person, token, spent, done>>

LogoutSubmit(s) ==
  /\ session[s] # Null
  /\ session' = [session EXCEPT ![s] = Null]
  /\ UNCHANGED <<user, conf, person, token, worker, spent, done>>

NextPassword(u) == user[u].password + 1

Reset(u) == [user EXCEPT ![u].password = NextPassword(u), ![u].web = NextPassword(u)]

\* The old password was right; the new session is for this device.
ChangePassword(s, new) ==
  LET u == GetSessionUser(s)
  IN /\ u # Null
     /\ user[u].password < MaxEpoch
     /\ user' = Reset(u)
     /\ DeleteUserSessions(u)[new] = Null
     /\ session' = [DeleteUserSessions(u) EXCEPT ![new] =
                      NewSession(u, NextPassword(u), FALSE)]
     /\ UNCHANGED <<conf, person, token, worker, spent, done>>

PasswordResetConfirm(c) ==
  LET u == conf[c].user
  IN /\ IsValid(conf[c]) /\ conf[c].type = "password_reset"
     /\ user[u].password < MaxEpoch
     /\ user' = Reset(u)
     /\ session' = DeleteUserSessions(u)
     /\ conf' = [conf EXCEPT ![c].active = FALSE]
     /\ done' = done \cup {c}
     /\ UNCHANGED <<person, token, worker, spent>>

\* The token before it is deleted.
GenerateToken(s) ==
  /\ GetSessionUser(s) # Null
  /\ token' = token \cup {GetSessionUser(s)}
  /\ UNCHANGED <<user, conf, person, session, worker, spent, done>>

-----------------------------------------------------------------------------
(* Administration                                                          *)

UserCreate(u, a) ==
  /\ u \notin spent
  /\ user' = [user EXCEPT ![u] = NewUser(TRUE, a)]
  /\ spent' = spent \cup {u}
  /\ UNCHANGED <<conf, person, session, token, worker, done>>

\* DELETE FROM auth_user, when the links left are c and the sessions t.  The
\* foreign keys take an account's links, sessions and token; addresses stay.
Delete(gone, c, t) ==
  /\ user' = [u \in Users |-> IF u \in gone THEN Null ELSE user[u]]
  /\ conf' = [k \in Confirmations |->
                IF c[k] # Null /\ c[k].user \in gone THEN Null ELSE c[k]]
  /\ person' = [a \in Addresses |-> IF person[a] \in gone THEN Null ELSE person[a]]
  /\ session' = [s \in Sessions |->
                   IF t[s] # Null /\ t[s].user \in gone THEN Null ELSE t[s]]
  /\ token' = token \ gone
  /\ UNCHANGED <<worker, spent, done>>

UserDelete(u) == u \in ActiveUsers /\ Delete({u}, conf, session)

\* The sessions stay, and so do the links and the token.
UserPasswd(u) ==
  /\ u \in ActiveUsers
  /\ user[u].password < MaxEpoch
  /\ user' = [user EXCEPT ![u].password = NextPassword(u)]
  /\ UNCHANGED <<conf, person, session, token, worker, spent, done>>

\* Mutant: links that can still be used go as well.
MutantCleanExpiredConfirmations == [c \in Confirmations |-> Null]

CleanExpiredConfirmations ==
  [c \in Confirmations |-> IF IsValid(conf[c]) THEN conf[c] ELSE Null]

CleanExpiredSessions ==
  [s \in Sessions |-> IF session[s] # Null /\ session[s].expired
                      THEN Null ELSE session[s]]

\* Accounts that never became active and have no link among those left.
InactiveUsers(left) ==
  {u \in Users : /\ user[u] # Null /\ ~user[u].active
                 /\ \A c \in Confirmations : left[c] # Null => left[c].user # u}

Gc ==
  Delete(InactiveUsers(CleanExpiredConfirmations),
         CleanExpiredConfirmations, CleanExpiredSessions)

-----------------------------------------------------------------------------
\* Seven days for a link, fourteen for a session.
TimePasses ==
  \/ \E c \in Confirmations :
       /\ conf[c] # Null
       /\ conf' = [conf EXCEPT ![c].old = TRUE]
       /\ UNCHANGED <<user, person, session, token, worker, spent, done>>
  \/ \E s \in Sessions :
       /\ session[s] # Null
       /\ session' = [session EXCEPT ![s].expired = TRUE]
       /\ UNCHANGED <<user, conf, person, token, worker, spent, done>>

Init ==
  /\ user = [u \in Users |-> Null]
  /\ conf = [c \in Confirmations |-> Null]
  /\ person = [a \in Addresses |-> "absent"]
  /\ session = [s \in Sessions |-> Null]
  /\ token = {}
  /\ worker = [w \in Workers |-> Null]
  /\ spent = {}
  /\ done = {}

Next ==
  \/ \E u \in Users, a \in Addresses, c \in Confirmations :
       RegisterSubmit(u, a, c) \/ PasswordReset(u, a, c)
  \/ \E s \in Sessions, a \in Addresses, c \in Confirmations : LinkEmail(s, a, c)
  \/ \E w \in Workers, c \in Confirmations : ConfirmHandler(w, c)
  \/ \E w \in Workers : Activate(w) \/ Link(w) \/ UseUp(w) \/ Stop(w)
  \/ \E s \in Sessions, a \in Addresses : UnlinkEmail(s, a)
  \/ \E a \in Addresses : GetOrCreatePerson(a)
  \/ \E w \in Workers, u \in Users : LoginSubmit(w, u)
  \/ \E w \in Workers, s \in Sessions : CreateSession(w, s)
  \/ \E s \in Sessions : LogoutSubmit(s) \/ GenerateToken(s)
  \/ \E s, new \in Sessions : ChangePassword(s, new)
  \/ \E c \in Confirmations : PasswordResetConfirm(c)
  \/ \E u \in Users, a \in Addresses : UserCreate(u, a)
  \/ \E u \in Users : UserDelete(u) \/ UserPasswd(u)
  \/ Gc
  \/ TimePasses

Spec == Init /\ [][Next]_vars

-----------------------------------------------------------------------------
(* Properties                                                              *)

Existing == {u \in Users : user[u] # Null}

TypeOK ==
  /\ user \in [Users -> [active: BOOLEAN, address: Addresses,
                         password: 0..MaxEpoch, web: 0..MaxEpoch] \cup {Null}]
  /\ conf \in [Confirmations ->
                 [type: {"registration", "userperson", "password_reset"},
                  user: Existing, address: Addresses,
                  active: BOOLEAN, old: BOOLEAN] \cup {Null}]
  /\ person \in [Addresses -> Existing \cup {Null, "absent"}]
  /\ session \in [Sessions -> [user: Existing, expired: BOOLEAN,
                               password: 0..MaxEpoch, late: BOOLEAN] \cup {Null}]
  /\ token \subseteq Existing

\* A confirmation link is used up only after everything it stands for was
\* done: wherever a confirmation stops, and whatever runs between its steps,
\* the user can open the link again.
UsedUpMeansDone ==
  \A c \in Confirmations : conf[c] # Null /\ ~conf[c].active => c \in done

\* No session was opened with a password that the web interface has replaced: a
\* change and a reset end all there are, those that pw admin user passwd left
\* included.  That command replaces a password and ends no session, so what it
\* replaces is not counted here.  The exception is a login that had compared
\* the old password before the change and stored its session after it.
NoSessionOutlivesAChange ==
  \A s \in Sessions : session[s] # Null /\ ~session[s].late =>
    session[s].password >= user[session[s].user].web

\* An account that is waiting for its registration to be confirmed is not
\* collected while the link it was sent can be used.
SparedIfPending ==
  \A u \in Users :
    user[u] # Null /\ ~user[u].active /\ user'[u] = Null
      => \A c \in Confirmations : ~(IsValid(conf[c]) /\ conf[c].user = u)

PendingIsSpared == [][SparedIfPending]_vars
=============================================================================
