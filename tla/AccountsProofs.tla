----------------------------- MODULE AccountsProofs ---------------------------
(***************************************************************************)
(* Proofs about accounts: types and references between the tables, that no *)
(* session outlives a change of its password, and that a link is used up   *)
(* only after its work was done.                                           *)
(***************************************************************************)
EXTENDS Accounts, TLAPS

UserRows == [active: BOOLEAN, address: Addresses, password: 0..MaxEpoch,
             web: 0..MaxEpoch]

ConfRows == [type: {"registration", "userperson", "password_reset"}, user: Users,
             address: Addresses, active: BOOLEAN, old: BOOLEAN]

SessionRows == [user: Users, expired: BOOLEAN, password: 0..MaxEpoch, late: BOOLEAN]

LinkSteps == [step: {"activate", "link", "use up"}, conf: Confirmations, user: Users,
              address: Addresses]

LoginSteps == [step: {"login"}, user: Users, password: 0..MaxEpoch]

\* What the proofs assume of the constants.
Registry ==
  /\ Null \notin UserRows \cup ConfRows \cup SessionRows \cup LinkSteps \cup LoginSteps
  /\ Null \notin Users /\ "absent" \notin Users
  /\ Lower \in [Addresses -> Addresses]
  /\ MaxEpoch \in Nat

(***************************************************************************)
(* The inductive invariant: the rows of the tables, the foreign keys, the  *)
(* ids that are never given out twice, and what a connection that is about *)
(* to use a link up has done before.                                       *)
(***************************************************************************)

Rows ==
  /\ user \in [Users -> UserRows \cup {Null}]
  /\ conf \in [Confirmations -> ConfRows \cup {Null}]
  /\ person \in [Addresses -> Users \cup {Null, "absent"}]
  /\ session \in [Sessions -> SessionRows \cup {Null}]
  /\ token \subseteq Users
  /\ worker \in [Workers -> LinkSteps \cup LoginSteps \cup {Null}]

ForeignKeys ==
  /\ \A c \in Confirmations : conf[c] # Null => user[conf[c].user] # Null
  /\ \A a \in Addresses : person[a] \in Users => user[person[a]] # Null
  /\ \A s \in Sessions : session[s] # Null => user[session[s].user] # Null
  /\ \A u \in token : user[u] # Null

IdsAreSpent == \A u \in Users : user[u] # Null => u \in spent

DoneBeforeUsed == \A w \in Workers : At(w, "use up") => worker[w].conf \in done

AccountInvariant ==
  /\ Rows /\ ForeignKeys /\ IdsAreSpent /\ DoneBeforeUsed
  /\ NoSessionOutlivesAChange /\ UsedUpMeansDone

LEMMA AccountInit ==
  ASSUME Registry
  PROVE  Init => AccountInvariant
BY DEF Registry, Init, AccountInvariant, Rows, ForeignKeys, IdsAreSpent, DoneBeforeUsed,
       At, NoSessionOutlivesAChange, UsedUpMeansDone

(***************************************************************************)
(* What a step keeps because it leaves the tables alone.                   *)
(***************************************************************************)

LEMMA SameAccounts ==
  ASSUME AccountInvariant, UNCHANGED <<user, session>>, spent \subseteq spent'
  PROVE  IdsAreSpent' /\ NoSessionOutlivesAChange'
BY DEF AccountInvariant, IdsAreSpent, NoSessionOutlivesAChange

LEMMA SameLinks ==
  ASSUME AccountInvariant, UNCHANGED conf, done \subseteq done'
  PROVE  UsedUpMeansDone'
BY DEF AccountInvariant, UsedUpMeansDone

LEMMA SameWorkers ==
  ASSUME AccountInvariant, UNCHANGED worker, done \subseteq done'
  PROVE  DoneBeforeUsed'
BY DEF AccountInvariant, DoneBeforeUsed, At

\* No account disappears, and what the rows refer to is an account that is there.
LEMMA KeysHold ==
  ASSUME AccountInvariant,
         \A u \in Users : user[u] # Null => user'[u] # Null,
         \A c \in Confirmations : conf'[c] # Null =>
           /\ conf'[c].user \in Users
           /\ \/ conf[c] # Null /\ conf'[c].user = conf[c].user
              \/ user'[conf'[c].user] # Null,
         \A a \in Addresses : person'[a] \in Users =>
           person'[a] = person[a] \/ user'[person'[a]] # Null,
         \A s \in Sessions : session'[s] # Null =>
           /\ session'[s].user \in Users
           /\ \/ session[s] # Null /\ session'[s].user = session[s].user
              \/ user'[session'[s].user] # Null,
         token' \subseteq Users, \A u \in token' \ token : user'[u] # Null
  PROVE  ForeignKeys'
<1>1. \A c \in Confirmations : conf[c] # Null => user[conf[c].user] # Null
  BY DEF AccountInvariant, ForeignKeys
<1>2. \A a \in Addresses : person[a] \in Users => user[person[a]] # Null
  BY DEF AccountInvariant, ForeignKeys
<1>3. \A s \in Sessions : session[s] # Null => user[session[s].user] # Null
  BY DEF AccountInvariant, ForeignKeys
<1>4. \A u \in token : user[u] # Null
  BY DEF AccountInvariant, ForeignKeys
<1> QED BY <1>1, <1>2, <1>3, <1>4 DEF ForeignKeys

\* The rows refer to accounts.
LEMMA RowFacts ==
  ASSUME AccountInvariant
  PROVE  /\ \A c \in Confirmations : conf[c] # Null =>
              conf[c] \in ConfRows /\ conf[c].user \in Users
         /\ \A s \in Sessions : session[s] # Null =>
              session[s] \in SessionRows /\ session[s].user \in Users
         /\ \A w \in Workers : worker[w] # Null =>
              worker[w] \in LinkSteps \cup LoginSteps /\ worker[w].user \in Users
         /\ \A u \in Users : user[u] # Null => user[u] \in UserRows
BY DEF AccountInvariant, Rows, ConfRows, SessionRows, LinkSteps, LoginSteps

(***************************************************************************)
(* Links.                                                                  *)
(***************************************************************************)

\* A new link has not been used, and its id is new.
LEMMA NewConfirmationKeeps ==
  ASSUME Registry, AccountInvariant, NEW u \in Users, NEW a \in Addresses,
         NEW c \in Confirmations,
         NEW type \in {"registration", "userperson", "password_reset"},
         NewConfirmation(c, type, u, a), user[u] # Null,
         UNCHANGED <<user, person, session, token, worker, done>>
  PROVE  AccountInvariant'
<1> DEFINE row == [type |-> type, user |-> u, address |-> a, active |-> TRUE, old |-> FALSE]
<1>1. conf' = [conf EXCEPT ![c] = row] /\ spent' = spent \cup {c, u}
  BY DEF NewConfirmation
<1>2. row \in ConfRows /\ row.user = u /\ row.active = TRUE
  BY DEF ConfRows
<1> HIDE DEF row
<1>3. Rows'
  BY <1>1, <1>2 DEF AccountInvariant, Rows
<1>4. ForeignKeys'
  <2>1. \A k \in Confirmations : conf'[k] # Null =>
          /\ conf'[k].user \in Users
          /\ \/ conf[k] # Null /\ conf'[k].user = conf[k].user
             \/ user'[conf'[k].user] # Null
    BY <1>1, <1>2, RowFacts DEF AccountInvariant, Rows
  <2> QED BY <2>1, KeysHold, RowFacts DEF AccountInvariant, Rows
<1>5. UsedUpMeansDone'
  BY <1>1, <1>2 DEF AccountInvariant, Rows, UsedUpMeansDone
<1> QED BY <1>1, <1>3, <1>4, <1>5, SameAccounts, SameWorkers DEF AccountInvariant

LEMMA GetSessionUserFacts ==
  ASSUME AccountInvariant, NEW s \in Sessions, GetSessionUser(s) # Null
  PROVE  GetSessionUser(s) \in Users /\ user[GetSessionUser(s)] # Null
BY DEF GetSessionUser, ActiveUsers

LEMMA LinkEmailKeeps ==
  ASSUME Registry, AccountInvariant, NEW s \in Sessions, NEW a \in Addresses,
         NEW c \in Confirmations, LinkEmail(s, a, c)
  PROVE  AccountInvariant'
BY GetSessionUserFacts, NewConfirmationKeeps DEF LinkEmail

LEMMA PasswordResetKeeps ==
  ASSUME Registry, AccountInvariant, NEW u \in Users, NEW a \in Addresses,
         NEW c \in Confirmations, PasswordReset(u, a, c)
  PROVE  AccountInvariant'
BY NewConfirmationKeeps DEF PasswordReset, ActiveUsers

\* No session and no link refers to an id that was never given out.
LEMMA NewAccount ==
  ASSUME Registry, AccountInvariant, NEW u \in Users, u \notin spent,
         NEW row \in UserRows, user' = [user EXCEPT ![u] = row]
  PROVE  /\ user' \in [Users -> UserRows \cup {Null}] /\ user'[u] # Null
         /\ \A v \in Users : user[v] # Null => user'[v] # Null
         /\ \A v \in Users : user'[v] # Null => v \in spent \/ v = u
         /\ UNCHANGED session => NoSessionOutlivesAChange'
<1>1. user[u] = Null
  BY DEF AccountInvariant, IdsAreSpent
<1>2. row # Null /\ user \in [Users -> UserRows \cup {Null}]
  BY DEF Registry, AccountInvariant, Rows
<1>3. ASSUME UNCHANGED session PROVE NoSessionOutlivesAChange'
  <2>1. \A s \in Sessions : session[s] # Null => session[s].user # u
    BY <1>1, RowFacts DEF AccountInvariant, ForeignKeys
  <2> QED BY <1>2, <1>3, <2>1, RowFacts DEF AccountInvariant, NoSessionOutlivesAChange
<1> QED BY <1>1, <1>2, <1>3 DEF AccountInvariant, IdsAreSpent

LEMMA RegisterSubmitKeeps ==
  ASSUME Registry, AccountInvariant, NEW u \in Users, NEW a \in Addresses,
         NEW c \in Confirmations, RegisterSubmit(u, a, c)
  PROVE  AccountInvariant'
<1> DEFINE new == NewUser(FALSE, a)
           row == [type |-> "registration", user |-> u, address |-> a,
                   active |-> TRUE, old |-> FALSE]
<1>1. /\ u \notin spent /\ user' = [user EXCEPT ![u] = new]
      /\ conf' = [conf EXCEPT ![c] = row] /\ spent' = spent \cup {c, u}
      /\ UNCHANGED <<person, session, token, worker, done>>
  BY DEF RegisterSubmit, NewConfirmation
<1>2. new \in UserRows /\ row \in ConfRows /\ row.user = u /\ row.active = TRUE
  BY DEF Registry, NewUser, UserRows, ConfRows
<1> HIDE DEF new, row
<1>3. /\ user' \in [Users -> UserRows \cup {Null}] /\ user'[u] # Null
      /\ \A v \in Users : user[v] # Null => user'[v] # Null
      /\ \A v \in Users : user'[v] # Null => v \in spent \/ v = u
      /\ NoSessionOutlivesAChange'
  BY <1>1, <1>2, NewAccount
<1>4. Rows'
  BY <1>1, <1>2, <1>3 DEF AccountInvariant, Rows
<1>5. ForeignKeys'
  <2>1. \A k \in Confirmations : conf'[k] # Null =>
          /\ conf'[k].user \in Users
          /\ \/ conf[k] # Null /\ conf'[k].user = conf[k].user
             \/ user'[conf'[k].user] # Null
    BY <1>1, <1>2, <1>3, RowFacts DEF AccountInvariant, Rows
  <2> QED BY <1>1, <1>3, <2>1, KeysHold, RowFacts DEF AccountInvariant, Rows
<1>6. IdsAreSpent'
  BY <1>1, <1>3 DEF IdsAreSpent
<1>7. UsedUpMeansDone'
  BY <1>1, <1>2 DEF AccountInvariant, Rows, UsedUpMeansDone
<1> QED BY <1>1, <1>3, <1>4, <1>5, <1>6, <1>7, SameWorkers DEF AccountInvariant

LEMMA UserCreateKeeps ==
  ASSUME Registry, AccountInvariant, NEW u \in Users, NEW a \in Addresses, UserCreate(u, a)
  PROVE  AccountInvariant'
<1> DEFINE new == NewUser(TRUE, a)
<1>1. /\ u \notin spent /\ user' = [user EXCEPT ![u] = new] /\ spent' = spent \cup {u}
      /\ UNCHANGED <<conf, person, session, token, worker, done>>
  BY DEF UserCreate
<1>2. new \in UserRows
  BY DEF Registry, NewUser, UserRows
<1> HIDE DEF new
<1>3. /\ user' \in [Users -> UserRows \cup {Null}]
      /\ \A v \in Users : user[v] # Null => user'[v] # Null
      /\ \A v \in Users : user'[v] # Null => v \in spent \/ v = u
      /\ NoSessionOutlivesAChange'
  BY <1>1, <1>2, NewAccount
<1>4. Rows'
  BY <1>1, <1>3 DEF AccountInvariant, Rows
<1>5. ForeignKeys'
  BY <1>1, <1>3, KeysHold, RowFacts DEF AccountInvariant, Rows
<1>6. IdsAreSpent'
  BY <1>1, <1>3 DEF IdsAreSpent
<1> QED BY <1>1, <1>3, <1>4, <1>5, <1>6, SameLinks, SameWorkers DEF AccountInvariant

(***************************************************************************)
(* The steps of a confirmation.                                            *)
(***************************************************************************)

\* Steps that only begin or end the work of a connection.
LEMMA OnlyWorker ==
  ASSUME AccountInvariant, UNCHANGED <<user, conf, person, session, token, spent, done>>,
         NEW w \in Workers, NEW r \in LinkSteps \cup LoginSteps \cup {Null},
         worker' = [worker EXCEPT ![w] = r], r # Null => r.step # "use up"
  PROVE  AccountInvariant'
<1>1. Rows'
  BY DEF AccountInvariant, Rows
<1>2. ForeignKeys'
  BY DEF AccountInvariant, ForeignKeys
<1>3. DoneBeforeUsed'
  BY DEF AccountInvariant, Rows, DoneBeforeUsed, At
<1> QED BY <1>1, <1>2, <1>3, SameAccounts, SameLinks DEF AccountInvariant

LEMMA ConfirmHandlerKeeps ==
  ASSUME AccountInvariant, NEW w \in Workers, NEW c \in Confirmations, ConfirmHandler(w, c)
  PROVE  AccountInvariant'
<1> DEFINE r == Busy(IF conf[c].type = "registration" THEN "activate" ELSE "link", c)
<1>1. conf[c] \in ConfRows
  BY RowFacts DEF ConfirmHandler, IsValid
<1>2. r \in LinkSteps /\ r.step # "use up"
  BY <1>1 DEF Busy, ConfRows, LinkSteps
<1>3. worker' = [worker EXCEPT ![w] = r]
  BY DEF ConfirmHandler
<1> HIDE DEF r
<1> QED BY <1>2, <1>3, OnlyWorker DEF ConfirmHandler

LEMMA LoginSubmitKeeps ==
  ASSUME AccountInvariant, NEW w \in Workers, NEW u \in Users, LoginSubmit(w, u)
  PROVE  AccountInvariant'
<1> DEFINE r == [step |-> "login", user |-> u, password |-> user[u].password]
<1>1. user[u] \in UserRows
  BY RowFacts DEF LoginSubmit, ActiveUsers
<1>2. r \in LoginSteps /\ r.step # "use up"
  BY <1>1 DEF UserRows, LoginSteps
<1>3. worker' = [worker EXCEPT ![w] = r]
  BY DEF LoginSubmit
<1> HIDE DEF r
<1> QED BY <1>2, <1>3, OnlyWorker DEF LoginSubmit

LEMMA StopKeeps ==
  ASSUME AccountInvariant, NEW w \in Workers, Stop(w)
  PROVE  AccountInvariant'
BY OnlyWorker DEF Stop, Leave

\* The next step of a confirmation that is in one.
LEMMA GotoFacts ==
  ASSUME Registry, AccountInvariant, NEW w \in Workers,
         NEW here \in {"activate", "link", "use up"}, At(w, here),
         NEW step \in {"link", "use up"}, Goto(w, step)
  PROVE  /\ worker[w] \in LinkSteps
         /\ worker' \in [Workers -> LinkSteps \cup LoginSteps \cup {Null}]
         /\ worker'[w].step = step /\ worker'[w].conf = worker[w].conf
         /\ \A v \in Workers : v # w => worker'[v] = worker[v]
<1>1. worker[w] \in LinkSteps
  BY RowFacts DEF At, LoginSteps
<1>2. worker \in [Workers -> LinkSteps \cup LoginSteps \cup {Null}]
  BY DEF AccountInvariant, Rows
<1>3. worker' = [worker EXCEPT ![w].step = step]
  BY DEF Goto
<1>4. /\ worker'[w] \in LinkSteps
      /\ worker'[w].step = step /\ worker'[w].conf = worker[w].conf
      /\ \A v \in Workers : v # w => worker'[v] = worker[v]
  BY <1>1, <1>2, <1>3 DEF LinkSteps
<1> QED BY <1>1, <1>2, <1>3, <1>4

LEMMA ActivateKeeps ==
  ASSUME Registry, AccountInvariant, NEW w \in Workers, Activate(w)
  PROVE  AccountInvariant'
<1> DEFINE u == worker[w].user
<1>1. /\ worker[w] \in LinkSteps
      /\ worker' \in [Workers -> LinkSteps \cup LoginSteps \cup {Null}]
      /\ worker'[w].step = "link"
      /\ \A v \in Workers : v # w => worker'[v] = worker[v]
  BY GotoFacts DEF Activate, After
<1>2. u \in Users /\ UNCHANGED <<conf, person, session, token, spent, done>>
      /\ user \in [Users -> UserRows \cup {Null}]
  BY <1>1 DEF Activate, LinkSteps, AccountInvariant, Rows
<1>3. user' = IF user[u] = Null THEN user ELSE [user EXCEPT ![u].active = TRUE]
  BY DEF Activate
<1> HIDE DEF u
<1>4. /\ user' \in [Users -> UserRows \cup {Null}]
      /\ \A v \in Users : /\ user'[v] = Null <=> user[v] = Null
                          /\ user[v] # Null => user'[v].web = user[v].web
  <2>1. CASE user[u] = Null
    BY <1>2, <1>3, <2>1
  <2>2. CASE user[u] # Null
    <3>1. user'[u] \in UserRows /\ user'[u].web = user[u].web
      BY <1>2, <1>3, <2>2 DEF UserRows
    <3>2. \A v \in Users : v # u => user'[v] = user[v]
      BY <1>2, <1>3, <2>2
    <3>3. user' \in [Users -> UserRows \cup {Null}]
      BY <1>2, <1>3, <2>2 DEF UserRows
    <3> QED BY <1>2, <2>2, <3>1, <3>2, <3>3 DEF Registry
  <2> QED BY <2>1, <2>2
<1>5. Rows'
  BY <1>1, <1>2, <1>4 DEF AccountInvariant, Rows
<1>6. ForeignKeys'
  BY <1>2, <1>4, KeysHold, RowFacts DEF AccountInvariant, Rows
<1>7. IdsAreSpent'
  BY <1>2, <1>4 DEF AccountInvariant, IdsAreSpent
<1>8. NoSessionOutlivesAChange'
  BY <1>2, <1>4, RowFacts DEF AccountInvariant, ForeignKeys, NoSessionOutlivesAChange
<1>9. DoneBeforeUsed'
  BY <1>1, <1>2 DEF AccountInvariant, DoneBeforeUsed, At
<1> QED BY <1>2, <1>5, <1>6, <1>7, <1>8, <1>9, SameLinks DEF AccountInvariant

LEMMA LinkKeeps ==
  ASSUME Registry, AccountInvariant, NEW w \in Workers, Link(w)
  PROVE  AccountInvariant'
<1> DEFINE r     == worker[w]
           found == {a \in Addresses : person[a] # "absent"
                                       /\ Lower[a] = Lower[r.address]}
<1>1. /\ UNCHANGED <<user, conf, session, token, spent>> /\ done \subseteq done'
      /\ At(w, "link")
  BY DEF Link
<1>2. r \in LinkSteps /\ r.user \in Users /\ r.address \in Addresses
  BY <1>1, RowFacts DEF At, LinkSteps, LoginSteps
<1>3. PICK a \in IF found = {} THEN {r.address} ELSE found :
        IF user[r.user] = Null
        THEN /\ person' = IF found = {} THEN [person EXCEPT ![a] = Null] ELSE person
             /\ Leave(w)
             /\ UNCHANGED done
        ELSE /\ person' = [person EXCEPT ![a] = r.user]
             /\ Goto(w, After("link"))
             /\ done' = done \cup {r.conf}
  BY DEF Link
<1>4. a \in Addresses /\ person \in [Addresses -> Users \cup {Null, "absent"}]
      /\ worker \in [Workers -> LinkSteps \cup LoginSteps \cup {Null}]
  BY <1>2, <1>3 DEF AccountInvariant, Rows
<1> HIDE DEF found
<1>5. CASE user[r.user] = Null
  <2>1. /\ person' \in [Addresses -> Users \cup {Null, "absent"}]
        /\ \A b \in Addresses : person'[b] = person[b] \/ person'[b] = Null
    BY <1>3, <1>4, <1>5
  <2>2. worker' = [worker EXCEPT ![w] = Null] /\ done' = done
    BY <1>3, <1>5 DEF Leave
  <2>3. Rows'
    BY <1>1, <1>4, <2>1, <2>2 DEF AccountInvariant, Rows
  <2>4. ForeignKeys'
    BY <1>1, <2>1, KeysHold, RowFacts DEF Registry, AccountInvariant, Rows
  <2>5. DoneBeforeUsed'
    BY <1>4, <2>2 DEF AccountInvariant, DoneBeforeUsed, At
  <2> QED BY <1>1, <2>3, <2>4, <2>5, SameAccounts, SameLinks DEF AccountInvariant
<1>6. CASE user[r.user] # Null
  <2>1. /\ person' = [person EXCEPT ![a] = r.user]
        /\ Goto(w, "use up") /\ done' = done \cup {r.conf}
    BY <1>3, <1>6 DEF After
  <2>2. /\ worker' \in [Workers -> LinkSteps \cup LoginSteps \cup {Null}]
        /\ worker'[w].conf = r.conf
        /\ \A v \in Workers : v # w => worker'[v] = worker[v]
    BY <1>1, <2>1, GotoFacts
  <2>3. Rows'
    BY <1>1, <1>2, <1>4, <2>1, <2>2 DEF AccountInvariant, Rows
  <2>4. ForeignKeys'
    BY <1>1, <1>4, <1>6, <2>1, KeysHold, RowFacts DEF AccountInvariant, Rows
  <2>5. DoneBeforeUsed'
    BY <2>1, <2>2 DEF AccountInvariant, DoneBeforeUsed, At
  <2> QED BY <1>1, <2>3, <2>4, <2>5, SameAccounts, SameLinks DEF AccountInvariant
<1> QED BY <1>5, <1>6

\* The work of the link is done, since the connection got this far.
LEMMA UseUpKeeps ==
  ASSUME Registry, AccountInvariant, NEW w \in Workers, UseUp(w)
  PROVE  AccountInvariant'
<1> DEFINE c == worker[w].conf
<1>1. /\ UNCHANGED <<user, person, session, token, spent, done>> /\ At(w, "use up")
      /\ conf' = IF conf[c] = Null THEN conf ELSE [conf EXCEPT ![c].active = FALSE]
      /\ worker' = [worker EXCEPT ![w] = Null]
  BY DEF UseUp, Leave
<1>2. c \in Confirmations /\ c \in done
      /\ conf \in [Confirmations -> ConfRows \cup {Null}]
  BY <1>1, RowFacts DEF At, LinkSteps, LoginSteps, AccountInvariant, Rows, DoneBeforeUsed
<1> HIDE DEF c
<1>3. /\ conf' \in [Confirmations -> ConfRows \cup {Null}]
      /\ \A k \in Confirmations :
           /\ k # c => conf'[k] = conf[k]
           /\ conf'[k] # Null => conf[k] # Null /\ conf'[k].user = conf[k].user
  <2>1. CASE conf[c] = Null
    BY <1>1, <1>2, <2>1
  <2>2. CASE conf[c] # Null
    <3>1. conf'[c] \in ConfRows /\ conf'[c].user = conf[c].user
      BY <1>1, <1>2, <2>2 DEF ConfRows
    <3>2. \A k \in Confirmations : k # c => conf'[k] = conf[k]
      BY <1>1, <1>2, <2>2
    <3>3. conf' \in [Confirmations -> ConfRows \cup {Null}]
      BY <1>1, <1>2, <2>2 DEF ConfRows
    <3> QED BY <1>2, <2>2, <3>1, <3>2, <3>3
  <2> QED BY <2>1, <2>2
<1>4. Rows'
  BY <1>1, <1>3 DEF AccountInvariant, Rows
<1>5. ForeignKeys'
  BY <1>1, <1>3, KeysHold, RowFacts DEF AccountInvariant, Rows
<1>6. DoneBeforeUsed'
  BY <1>1 DEF AccountInvariant, Rows, DoneBeforeUsed, At
<1>7. UsedUpMeansDone'
  BY <1>1, <1>2, <1>3 DEF AccountInvariant, UsedUpMeansDone
<1> QED BY <1>1, <1>4, <1>5, <1>6, <1>7, SameAccounts DEF AccountInvariant

(***************************************************************************)
(* Addresses, tokens and sessions.                                         *)
(***************************************************************************)

LEMMA PersonKeeps ==
  ASSUME Registry, AccountInvariant,
         \/ \E s \in Sessions, a \in Addresses : UnlinkEmail(s, a)
         \/ \E a \in Addresses : GetOrCreatePerson(a)
  PROVE  AccountInvariant'
<1>1. UNCHANGED <<user, conf, session, token, worker, spent, done>>
  BY DEF UnlinkEmail, GetOrCreatePerson
<1>2. /\ person' \in [Addresses -> Users \cup {Null, "absent"}]
      /\ \A b \in Addresses : person'[b] = person[b] \/ person'[b] = Null
  BY DEF UnlinkEmail, GetOrCreatePerson, Registry, AccountInvariant, Rows
<1>3. Rows'
  BY <1>1, <1>2 DEF AccountInvariant, Rows
<1>4. ForeignKeys'
  BY <1>1, <1>2, KeysHold, RowFacts DEF Registry, AccountInvariant, Rows
<1> QED BY <1>1, <1>3, <1>4, SameAccounts, SameLinks, SameWorkers DEF AccountInvariant

LEMMA GenerateTokenKeeps ==
  ASSUME AccountInvariant, NEW s \in Sessions, GenerateToken(s)
  PROVE  AccountInvariant'
<1>1. /\ UNCHANGED <<user, conf, person, session, worker, spent, done>>
      /\ token' = token \cup {GetSessionUser(s)}
      /\ GetSessionUser(s) \in Users /\ user[GetSessionUser(s)] # Null
  BY GetSessionUserFacts DEF GenerateToken
<1>2. Rows'
  BY <1>1 DEF AccountInvariant, Rows
<1>3. ForeignKeys'
  BY <1>1, KeysHold, RowFacts DEF AccountInvariant, Rows
<1> QED BY <1>1, <1>2, <1>3, SameAccounts, SameLinks, SameWorkers DEF AccountInvariant

LEMMA LogoutSubmitKeeps ==
  ASSUME AccountInvariant, NEW s \in Sessions, LogoutSubmit(s)
  PROVE  AccountInvariant'
<1>1. /\ UNCHANGED <<user, conf, person, token, worker, spent, done>>
      /\ session' = [session EXCEPT ![s] = Null]
  BY DEF LogoutSubmit
<1>2. Rows'
  BY <1>1 DEF AccountInvariant, Rows
<1>3. ForeignKeys'
  BY <1>1, KeysHold, RowFacts DEF AccountInvariant, Rows
<1>4. IdsAreSpent' /\ NoSessionOutlivesAChange'
  BY <1>1 DEF AccountInvariant, Rows, IdsAreSpent, NoSessionOutlivesAChange
<1> QED BY <1>1, <1>2, <1>3, <1>4, SameLinks, SameWorkers DEF AccountInvariant

LEMMA CreateSessionKeeps ==
  ASSUME Registry, AccountInvariant, NEW w \in Workers, NEW s \in Sessions,
         CreateSession(w, s)
  PROVE  AccountInvariant'
<1> DEFINE r   == worker[w]
           u   == user[r.user]
           new == NewSession(r.user, r.password, r.password < u.web)
<1>1. /\ UNCHANGED <<user, conf, person, token, spent, done>> /\ At(w, "login")
      /\ session' = IF u = Null THEN session ELSE [session EXCEPT ![s] = new]
      /\ worker' = [worker EXCEPT ![w] = Null]
  BY DEF CreateSession, Leave
<1>2. r.user \in Users /\ r.password \in 0..MaxEpoch
  BY <1>1, RowFacts DEF At, LinkSteps, LoginSteps
<1>3. ASSUME u # Null
      PROVE  /\ new \in SessionRows /\ new.user = r.user
             /\ ~new.late => new.password >= u.web
  <2>1. r.password \in Nat /\ u.web \in Nat /\ (r.password < u.web) \in BOOLEAN
    BY <1>2, <1>3, RowFacts DEF UserRows, Registry
  <2>2. \A late \in BOOLEAN : /\ NewSession(r.user, r.password, late) \in SessionRows
                             /\ NewSession(r.user, r.password, late).user = r.user
                             /\ NewSession(r.user, r.password, late).password = r.password
                             /\ NewSession(r.user, r.password, late).late = late
    BY <1>2 DEF NewSession, SessionRows
  <2>3. /\ new \in SessionRows /\ new.user = r.user /\ new.password = r.password
        /\ new.late = (r.password < u.web)
    BY <2>1, <2>2
  <2>4. ~(r.password < u.web) => r.password >= u.web
    BY <2>1
  <2> HIDE DEF new
  <2> QED BY <2>3, <2>4
<1> HIDE DEF new
<1>4. \A t \in Sessions : session'[t] = session[t] \/ (session'[t] = new /\ u # Null)
  BY <1>1 DEF AccountInvariant, Rows
<1>5. Rows'
  BY <1>1, <1>3 DEF AccountInvariant, Rows
<1>6. ForeignKeys'
  BY <1>1, <1>2, <1>3, <1>4, KeysHold, RowFacts DEF AccountInvariant, Rows
<1>7. IdsAreSpent'
  BY <1>1 DEF AccountInvariant, IdsAreSpent
<1>8. NoSessionOutlivesAChange'
  BY <1>1, <1>3, <1>4 DEF AccountInvariant, NoSessionOutlivesAChange
<1>9. DoneBeforeUsed'
  BY <1>1 DEF AccountInvariant, Rows, DoneBeforeUsed, At
<1> QED BY <1>1, <1>5, <1>6, <1>7, <1>8, <1>9, SameLinks DEF AccountInvariant

(***************************************************************************)
(* Passwords.                                                              *)
(***************************************************************************)

\* A new password for u: no other account changes, and u's sessions are gone.
LEMMA ResetFacts ==
  ASSUME Registry, AccountInvariant, NEW u \in Users, user[u] # Null,
         user[u].password < MaxEpoch
  PROVE  /\ Reset(u) \in [Users -> UserRows \cup {Null}]
         /\ Reset(u)[u] # Null /\ Reset(u)[u].web = NextPassword(u)
         /\ NextPassword(u) \in 0..MaxEpoch
         /\ \A v \in Users : v # u => Reset(u)[v] = user[v]
<1> DEFINE n == NextPassword(u)
           row == [user[u] EXCEPT !.password = n, !.web = n]
<1>1. user[u] \in UserRows /\ user \in [Users -> UserRows \cup {Null}]
  BY RowFacts DEF AccountInvariant, Rows
<1>2. n \in 0..MaxEpoch
  BY <1>1 DEF UserRows, Registry, NextPassword
<1>3. Reset(u) = [user EXCEPT ![u] = row]
  BY <1>1 DEF Reset
<1> HIDE DEF n
<1>4. row \in UserRows /\ row.web = n
  BY <1>1, <1>2 DEF UserRows
<1> HIDE DEF row
<1>5. row # Null
  BY <1>4 DEF Registry
<1> QED BY <1>1, <1>2, <1>3, <1>4, <1>5 DEF n

LEMMA DeletedSessions ==
  ASSUME AccountInvariant, NEW u \in Users
  PROVE  /\ DeleteUserSessions(u) \in [Sessions -> SessionRows \cup {Null}]
         /\ \A s \in Sessions : DeleteUserSessions(u)[s] # Null =>
              DeleteUserSessions(u)[s] = session[s] /\ session[s].user # u
BY DEF DeleteUserSessions, AccountInvariant, Rows

LEMMA ChangePasswordKeeps ==
  ASSUME Registry, AccountInvariant, NEW s \in Sessions, NEW new \in Sessions,
         ChangePassword(s, new)
  PROVE  AccountInvariant'
<1> DEFINE u   == GetSessionUser(s)
           row == NewSession(u, NextPassword(u), FALSE)
<1>1. /\ UNCHANGED <<conf, person, token, worker, spent, done>>
      /\ u \in Users /\ user[u] # Null /\ user[u].password < MaxEpoch
      /\ user' = Reset(u)
      /\ session' = [DeleteUserSessions(u) EXCEPT ![new] = row]
  BY GetSessionUserFacts DEF ChangePassword
<1> HIDE DEF u
<1>2. /\ user' \in [Users -> UserRows \cup {Null}] /\ user'[u] # Null
      /\ NextPassword(u) \in 0..MaxEpoch /\ user'[u].web = NextPassword(u)
      /\ \A v \in Users : v # u => user'[v] = user[v]
  BY <1>1, ResetFacts
<1>3. row \in SessionRows /\ row.user = u /\ row.password = user'[u].web
  BY <1>1, <1>2 DEF NewSession, SessionRows
<1> HIDE DEF row
<1>4. /\ session' \in [Sessions -> SessionRows \cup {Null}]
      /\ \A t \in Sessions : session'[t] # Null =>
           \/ session'[t] = row
           \/ session'[t] = session[t] /\ session[t].user # u
  BY <1>1, <1>3, DeletedSessions
<1>5. Rows'
  BY <1>1, <1>2, <1>4 DEF AccountInvariant, Rows
<1>6. ForeignKeys'
  BY <1>1, <1>2, <1>3, <1>4, KeysHold, RowFacts DEF AccountInvariant, Rows
<1>7. IdsAreSpent'
  BY <1>1, <1>2 DEF AccountInvariant, IdsAreSpent
<1>8. NoSessionOutlivesAChange'
  <2>1. row.password >= user'[u].web
    BY <1>2, <1>3
  <2> QED
    BY <1>2, <1>3, <1>4, <2>1, RowFacts DEF AccountInvariant, NoSessionOutlivesAChange
<1> QED BY <1>1, <1>5, <1>6, <1>7, <1>8, SameLinks, SameWorkers DEF AccountInvariant

LEMMA PasswordResetConfirmKeeps ==
  ASSUME Registry, AccountInvariant, NEW c \in Confirmations, PasswordResetConfirm(c)
  PROVE  AccountInvariant'
<1> DEFINE u == conf[c].user
<1>1. /\ UNCHANGED <<person, token, worker, spent>> /\ conf[c] # Null
      /\ user[u].password < MaxEpoch /\ user' = Reset(u)
      /\ session' = DeleteUserSessions(u) /\ done' = done \cup {c}
      /\ conf' = [conf EXCEPT ![c].active = FALSE]
  BY DEF PasswordResetConfirm, IsValid
<1>2. u \in Users /\ user[u] # Null /\ conf[c] \in ConfRows
      /\ conf \in [Confirmations -> ConfRows \cup {Null}]
  BY <1>1, RowFacts DEF AccountInvariant, ForeignKeys, Rows
<1>3. /\ conf' \in [Confirmations -> ConfRows \cup {Null}]
      /\ conf'[c].user = u
      /\ \A k \in Confirmations : k # c => conf'[k] = conf[k]
  BY <1>1, <1>2 DEF ConfRows
<1> HIDE DEF u
<1>4. /\ user' \in [Users -> UserRows \cup {Null}] /\ user'[u] # Null
      /\ \A v \in Users : v # u => user'[v] = user[v]
  BY <1>1, <1>2, ResetFacts
<1>5. /\ session' \in [Sessions -> SessionRows \cup {Null}]
      /\ \A t \in Sessions : session'[t] # Null =>
           session'[t] = session[t] /\ session[t].user # u
  BY <1>1, <1>2, DeletedSessions
<1>6. Rows'
  BY <1>1, <1>3, <1>4, <1>5 DEF AccountInvariant, Rows
<1>7. ForeignKeys'
  <2>1. \A k \in Confirmations : conf'[k] # Null =>
          conf[k] # Null /\ conf'[k].user = conf[k].user /\ conf[k].user \in Users
    BY <1>1, <1>2, <1>3, RowFacts DEF u
  <2> QED BY <1>1, <1>4, <1>5, <2>1, KeysHold, RowFacts DEF AccountInvariant, Rows
<1>8. IdsAreSpent'
  BY <1>1, <1>2, <1>4 DEF AccountInvariant, IdsAreSpent
<1>9. NoSessionOutlivesAChange'
  BY <1>4, <1>5, RowFacts DEF AccountInvariant, NoSessionOutlivesAChange
<1>10. UsedUpMeansDone'
  BY <1>1, <1>3 DEF AccountInvariant, UsedUpMeansDone
<1> QED BY <1>1, <1>6, <1>7, <1>8, <1>9, <1>10, SameWorkers DEF AccountInvariant

(***************************************************************************)
(* Accounts that are deleted or collected, and time.                       *)
(***************************************************************************)

\* Links and sessions may be collected before, accounts go with their rows.
LEMMA DeleteKeeps ==
  ASSUME Registry, AccountInvariant, NEW gone \in SUBSET Users,
         NEW c, NEW t, Delete(gone, c, t),
         \A k \in Confirmations : c[k] \in {conf[k], Null},
         \A s \in Sessions : t[s] \in {session[s], Null}
  PROVE  AccountInvariant'
<1>1. /\ UNCHANGED <<worker, spent, done>>
      /\ user' = [u \in Users |-> IF u \in gone THEN Null ELSE user[u]]
      /\ token' = token \ gone
      /\ \A k \in Confirmations : conf'[k] # Null =>
           conf'[k] = conf[k] /\ conf[k].user \notin gone
      /\ \A s \in Sessions : session'[s] # Null =>
           session'[s] = session[s] /\ session[s].user \notin gone
      /\ \A a \in Addresses : \/ person'[a] = person[a] /\ person[a] \notin gone
                             \/ person'[a] = Null
  BY DEF Delete
<1>2. /\ conf' \in [Confirmations -> ConfRows \cup {Null}]
      /\ session' \in [Sessions -> SessionRows \cup {Null}]
      /\ person' \in [Addresses -> Users \cup {Null, "absent"}]
  BY DEF Delete, AccountInvariant, Rows
<1>3. Rows'
  BY <1>1, <1>2 DEF AccountInvariant, Rows
<1>4. ForeignKeys'
  <2>1. \A k \in Confirmations : conf'[k] # Null => user'[conf'[k].user] # Null
    BY <1>1, RowFacts DEF AccountInvariant, ForeignKeys
  <2>2. \A s \in Sessions : session'[s] # Null => user'[session'[s].user] # Null
    BY <1>1, RowFacts DEF AccountInvariant, ForeignKeys
  <2>3. \A a \in Addresses : person'[a] \in Users => user'[person'[a]] # Null
    BY <1>1 DEF Registry, AccountInvariant, ForeignKeys
  <2>4. \A u \in token' : user'[u] # Null
    BY <1>1 DEF AccountInvariant, Rows, ForeignKeys
  <2> QED BY <2>1, <2>2, <2>3, <2>4 DEF ForeignKeys
<1>5. IdsAreSpent'
  BY <1>1 DEF AccountInvariant, IdsAreSpent
<1>6. NoSessionOutlivesAChange'
  BY <1>1, RowFacts DEF AccountInvariant, NoSessionOutlivesAChange
<1>7. UsedUpMeansDone'
  BY <1>1 DEF AccountInvariant, UsedUpMeansDone
<1> QED BY <1>1, <1>3, <1>4, <1>5, <1>6, <1>7, SameWorkers DEF AccountInvariant

\* What the web interface set stays as it was, and so do the sessions.
LEMMA UserPasswdKeeps ==
  ASSUME Registry, AccountInvariant, NEW u \in Users, UserPasswd(u)
  PROVE  AccountInvariant'
<1> DEFINE n == NextPassword(u)
           row == [user[u] EXCEPT !.password = n]
<1>1. /\ UNCHANGED <<conf, person, session, token, worker, spent, done>>
      /\ user[u] \in UserRows /\ user \in [Users -> UserRows \cup {Null}]
      /\ user[u] # Null /\ user[u].password < MaxEpoch
      /\ user' = [user EXCEPT ![u] = row]
  BY RowFacts DEF UserPasswd, ActiveUsers, AccountInvariant, Rows
<1>2. n \in 0..MaxEpoch
  BY <1>1 DEF UserRows, Registry, NextPassword
<1> HIDE DEF n
<1>3. row \in UserRows /\ row.web = user[u].web
  BY <1>1, <1>2 DEF UserRows
<1> HIDE DEF row
<1>4. /\ user' \in [Users -> UserRows \cup {Null}]
      /\ \A v \in Users : user'[v] # Null <=> user[v] # Null
      /\ \A v \in Users : user'[v].web = user[v].web
  BY <1>1, <1>3 DEF Registry
<1>5. Rows'
  BY <1>1, <1>4 DEF AccountInvariant, Rows
<1>6. ForeignKeys'
  BY <1>1, <1>4, KeysHold, RowFacts DEF AccountInvariant, Rows
<1>7. IdsAreSpent'
  BY <1>1, <1>4 DEF AccountInvariant, IdsAreSpent
<1>8. NoSessionOutlivesAChange'
  BY <1>1, <1>4, RowFacts DEF AccountInvariant, NoSessionOutlivesAChange
<1> QED BY <1>1, <1>5, <1>6, <1>7, <1>8, SameLinks, SameWorkers DEF AccountInvariant

LEMMA UserDeleteKeeps ==
  ASSUME Registry, AccountInvariant, NEW u \in Users, UserDelete(u)
  PROVE  AccountInvariant'
BY DeleteKeeps DEF UserDelete

LEMMA GcKeeps ==
  ASSUME Registry, AccountInvariant, Gc
  PROVE  AccountInvariant'
<1>1. InactiveUsers(CleanExpiredConfirmations) \in SUBSET Users
  BY DEF InactiveUsers
<1>2. \A k \in Confirmations : CleanExpiredConfirmations[k] \in {conf[k], Null}
  BY DEF CleanExpiredConfirmations
<1>3. \A s \in Sessions : CleanExpiredSessions[s] \in {session[s], Null}
  BY DEF CleanExpiredSessions
<1> QED BY <1>1, <1>2, <1>3, DeleteKeeps DEF Gc

LEMMA TimePassesKeeps ==
  ASSUME Registry, AccountInvariant, TimePasses
  PROVE  AccountInvariant'
<1>1. ASSUME NEW c \in Confirmations, conf[c] # Null,
             conf' = [conf EXCEPT ![c].old = TRUE],
             UNCHANGED <<user, person, session, token, worker, spent, done>>
      PROVE  AccountInvariant'
  <2>1. conf \in [Confirmations -> ConfRows \cup {Null}] /\ conf[c] \in ConfRows
    BY <1>1, RowFacts DEF AccountInvariant, Rows
  <2>2. /\ conf' \in [Confirmations -> ConfRows \cup {Null}]
        /\ conf'[c].user = conf[c].user /\ conf'[c].active = conf[c].active
        /\ \A k \in Confirmations : k # c => conf'[k] = conf[k]
    BY <1>1, <2>1 DEF ConfRows
  <2>3. Rows'
    BY <1>1, <2>2 DEF AccountInvariant, Rows
  <2>4. ForeignKeys'
    BY <1>1, <2>2, KeysHold, RowFacts DEF AccountInvariant, Rows
  <2>5. UsedUpMeansDone'
    BY <1>1, <2>2 DEF AccountInvariant, UsedUpMeansDone
  <2> QED BY <1>1, <2>3, <2>4, <2>5, SameAccounts, SameWorkers DEF AccountInvariant
<1>2. ASSUME NEW s \in Sessions, session[s] # Null,
             session' = [session EXCEPT ![s].expired = TRUE],
             UNCHANGED <<user, conf, person, token, worker, spent, done>>
      PROVE  AccountInvariant'
  <2>1. session \in [Sessions -> SessionRows \cup {Null}] /\ session[s] \in SessionRows
    BY <1>2, RowFacts DEF AccountInvariant, Rows
  <2>2. /\ session' \in [Sessions -> SessionRows \cup {Null}]
        /\ session'[s].user = session[s].user /\ session'[s].late = session[s].late
        /\ session'[s].password = session[s].password
        /\ \A t \in Sessions : t # s => session'[t] = session[t]
    BY <1>2, <2>1 DEF SessionRows
  <2>3. Rows'
    BY <1>2, <2>2 DEF AccountInvariant, Rows
  <2>4. ForeignKeys'
    BY <1>2, <2>2, KeysHold, RowFacts DEF AccountInvariant, Rows
  <2>5. IdsAreSpent'
    BY <1>2 DEF AccountInvariant, IdsAreSpent
  <2>6. NoSessionOutlivesAChange'
    BY <1>2, <2>2 DEF AccountInvariant, NoSessionOutlivesAChange
  <2> QED BY <1>2, <2>3, <2>4, <2>5, <2>6, SameLinks, SameWorkers DEF AccountInvariant
<1> QED BY <1>1, <1>2 DEF TimePasses

(***************************************************************************)
(* The results.                                                            *)
(***************************************************************************)

LEMMA AccountStep ==
  ASSUME Registry, AccountInvariant, [Next]_vars
  PROVE  AccountInvariant'
<1>1. CASE UNCHANGED vars
  BY <1>1 DEF vars, AccountInvariant, Rows, ForeignKeys, IdsAreSpent, DoneBeforeUsed, At,
              NoSessionOutlivesAChange, UsedUpMeansDone
<1>2. CASE \E u \in Users, a \in Addresses, c \in Confirmations :
             RegisterSubmit(u, a, c) \/ PasswordReset(u, a, c)
  BY <1>2, RegisterSubmitKeeps, PasswordResetKeeps
<1>3. CASE \E w \in Workers : \/ \E c \in Confirmations : ConfirmHandler(w, c)
                             \/ Activate(w) \/ Link(w) \/ UseUp(w) \/ Stop(w)
  BY <1>3, ConfirmHandlerKeeps, ActivateKeeps, LinkKeeps, UseUpKeeps, StopKeeps
<1>4. CASE \/ \E s \in Sessions, a \in Addresses : UnlinkEmail(s, a)
           \/ \E a \in Addresses : GetOrCreatePerson(a)
  BY <1>4, PersonKeeps
<1>5. CASE \/ \E w \in Workers, u \in Users : LoginSubmit(w, u)
           \/ \E w \in Workers, s \in Sessions : CreateSession(w, s)
           \/ \E s \in Sessions : LogoutSubmit(s) \/ GenerateToken(s)
  BY <1>5, LoginSubmitKeeps, CreateSessionKeeps, LogoutSubmitKeeps, GenerateTokenKeeps
<1>6. CASE \/ \E s, new \in Sessions : ChangePassword(s, new)
           \/ \E c \in Confirmations : PasswordResetConfirm(c)
  BY <1>6, ChangePasswordKeeps, PasswordResetConfirmKeeps
<1>7. CASE \/ \E u \in Users, a \in Addresses : UserCreate(u, a)
           \/ \E u \in Users : UserDelete(u) \/ UserPasswd(u)
           \/ Gc \/ TimePasses
  BY <1>7, UserCreateKeeps, UserDeleteKeeps, UserPasswdKeeps, GcKeeps, TimePassesKeeps
<1>8. CASE \E s \in Sessions, a \in Addresses, c \in Confirmations : LinkEmail(s, a, c)
  BY <1>8, LinkEmailKeeps
<1> QED BY <1>1, <1>2, <1>3, <1>4, <1>5, <1>6, <1>7, <1>8 DEF Next

LEMMA AccountIsInvariant ==
  ASSUME Registry
  PROVE  Spec => []AccountInvariant
<1>1. Init => AccountInvariant
  BY AccountInit
<1>2. AccountInvariant /\ [Next]_vars => AccountInvariant'
  BY AccountStep
<1> QED BY <1>1, <1>2, PTL DEF Spec

\* The tables keep their types, and every link, linked address, session and
\* token belongs to an account that exists, whatever is registered, confirmed,
\* deleted and collected in between (the handlers, pw admin user, pw admin gc).
THEOREM AccountTypes ==
  ASSUME Registry
  PROVE  Spec => []TypeOK
<1>1. AccountInvariant => TypeOK
  <2> SUFFICES ASSUME AccountInvariant PROVE TypeOK
    OBVIOUS
  <2>1. /\ user \in [Users -> UserRows \cup {Null}] /\ token \subseteq Existing
    BY DEF AccountInvariant, Rows, ForeignKeys, Existing
  <2>2. \A c \in Confirmations : conf[c] # Null =>
          conf[c] \in ConfRows /\ conf[c].user \in Existing
    BY RowFacts DEF AccountInvariant, ForeignKeys, Existing
  <2>3. \A s \in Sessions : session[s] # Null =>
          session[s] \in SessionRows /\ session[s].user \in Existing
    BY RowFacts DEF AccountInvariant, ForeignKeys, Existing
  <2>4. conf \in [Confirmations ->
                    [type: {"registration", "userperson", "password_reset"},
                     user: Existing, address: Addresses,
                     active: BOOLEAN, old: BOOLEAN] \cup {Null}]
    BY <2>2 DEF AccountInvariant, Rows, ConfRows
  <2>5. session \in [Sessions -> [user: Existing, expired: BOOLEAN,
                                 password: 0..MaxEpoch, late: BOOLEAN] \cup {Null}]
    BY <2>3 DEF AccountInvariant, Rows, SessionRows
  <2>6. person \in [Addresses -> Existing \cup {Null, "absent"}]
    BY DEF AccountInvariant, Rows, ForeignKeys, Existing
  <2> QED BY <2>1, <2>4, <2>5, <2>6 DEF TypeOK, UserRows
<1> QED BY <1>1, AccountIsInvariant, PTL

\* No session survives a change of its password through the web interface, but
\* one of a login that was under way (changePassword, passwordResetConfirm,
\* loginSubmit).  Of a change by pw admin user passwd it says nothing but that
\* the next one through the web interface ends what that left.  It takes that
\* the id of a deleted account is not given out again.
THEOREM ChangesEndSessions ==
  ASSUME Registry
  PROVE  Spec => []NoSessionOutlivesAChange
<1>1. AccountInvariant => NoSessionOutlivesAChange
  BY DEF AccountInvariant
<1> QED BY <1>1, AccountIsInvariant, PTL

\* A link that is used up has done all its work, though the handler has no
\* transaction and may stop after each statement (confirmHandler).
THEOREM LinksDoTheirWork ==
  ASSUME Registry
  PROVE  Spec => []UsedUpMeansDone
<1>1. AccountInvariant => UsedUpMeansDone
  BY DEF AccountInvariant
<1> QED BY <1>1, AccountIsInvariant, PTL

(***************************************************************************)
(* Who deletes accounts.                                                   *)
(***************************************************************************)

\* The handlers do not: an account is created under a new id, made active, or
\* gets another password.
LEMMA HandlersKeepAccounts ==
  ASSUME Registry, AccountInvariant, Next, ~Gc, \A v \in Users : ~UserDelete(v),
         NEW u \in Users, user[u] # Null
  PROVE  user'[u] # Null
<1> USE DEF AccountInvariant, Rows
<1>1. CASE \/ \E v \in Users, a \in Addresses, c \in Confirmations :
                RegisterSubmit(v, a, c)
           \/ \E v \in Users, a \in Addresses : UserCreate(v, a)
  BY <1>1 DEF RegisterSubmit, UserCreate, IdsAreSpent
<1>2. CASE \E w \in Workers : Activate(w)
  <2> PICK w \in Workers : Activate(w)
    BY <1>2
  <2>1. At(w, "activate") /\ worker[w].user \in Users
    BY DEF Activate, At, LinkSteps, LoginSteps
  <2>2. CASE user[worker[w].user] = Null
    BY <2>2 DEF Activate
  <2>3. CASE user[worker[w].user] # Null
    <3> DEFINE v == worker[w].user
    <3>1. user' = [user EXCEPT ![v].active = TRUE] /\ v \in Users /\ user[v] \in UserRows
      BY <2>1, <2>3 DEF Activate
    <3> HIDE DEF v
    <3>2. user'[v] \in UserRows /\ \A x \in Users : x # v => user'[x] = user[x]
      BY <3>1 DEF UserRows
    <3> QED BY <3>2 DEF Registry
  <2> QED BY <2>2, <2>3
<1>3. CASE \E s, new \in Sessions : ChangePassword(s, new)
  <2> PICK s \in Sessions, new \in Sessions : ChangePassword(s, new)
    BY <1>3
  <2> DEFINE v == GetSessionUser(s)
  <2>1. v \in Users /\ user[v] # Null /\ user[v].password < MaxEpoch /\ user' = Reset(v)
    BY GetSessionUserFacts DEF ChangePassword
  <2> HIDE DEF v
  <2> QED BY <2>1, ResetFacts
<1>4. CASE \E c \in Confirmations : PasswordResetConfirm(c)
  <2> PICK c \in Confirmations : PasswordResetConfirm(c)
    BY <1>4
  <2> DEFINE v == conf[c].user
  <2>1. v \in Users /\ user[v] # Null /\ user[v].password < MaxEpoch /\ user' = Reset(v)
    BY RowFacts DEF PasswordResetConfirm, IsValid, ForeignKeys
  <2> HIDE DEF v
  <2> QED BY <2>1, ResetFacts
<1>5. CASE \E v \in Users : UserPasswd(v)
  <2> PICK v \in Users : UserPasswd(v)
    BY <1>5
  <2>1. user'[v] = [user[v] EXCEPT !.password = NextPassword(v)]
        /\ user[v] \in UserRows /\ NextPassword(v) \in 0..MaxEpoch
        /\ \A x \in Users : x # v => user'[x] = user[x]
    BY RowFacts DEF UserPasswd, ActiveUsers, UserRows, NextPassword, Registry
  <2>2. user'[v] \in UserRows
    BY <2>1 DEF UserRows
  <2> QED BY <2>1, <2>2 DEF Registry
<1>6. CASE UNCHANGED user
  BY <1>6
<1> QED
  BY <1>1, <1>2, <1>3, <1>4, <1>5, <1>6
  DEF Next, PasswordReset, LinkEmail, ConfirmHandler, Link, UseUp, Stop, UnlinkEmail,
      GetOrCreatePerson, LoginSubmit, CreateSession, LogoutSubmit, GenerateToken,
      TimePasses

\* An account that has not confirmed its registration is only deleted by the
\* collector, and not while its link, or any other of its links, can be used
\* (pw admin gc; pw admin user delete takes active accounts).
THEOREM PendingAccountsAreSpared ==
  ASSUME Registry
  PROVE  Spec => PendingIsSpared
<1>1. AccountInvariant /\ [Next]_vars => [SparedIfPending]_vars
  <2> SUFFICES ASSUME AccountInvariant, Next PROVE SparedIfPending
    OBVIOUS
  <2> SUFFICES ASSUME NEW u \in Users, user[u] # Null, ~user[u].active, user'[u] = Null,
                      NEW c \in Confirmations, IsValid(conf[c]), conf[c].user = u
               PROVE  FALSE
    BY DEF SparedIfPending
  <2>1. CASE Gc
    <3>1. CleanExpiredConfirmations[c] = conf[c]
      BY DEF CleanExpiredConfirmations
    <3>2. u \notin InactiveUsers(CleanExpiredConfirmations)
      BY <3>1 DEF InactiveUsers, IsValid
    <3> QED BY <2>1, <3>2 DEF Gc, Delete
  <2>2. CASE \E v \in Users : UserDelete(v)
    BY <2>2 DEF UserDelete, Delete, ActiveUsers
  <2> QED BY <2>1, <2>2, HandlersKeepAccounts
<1> QED BY <1>1, AccountIsInvariant, PTL DEF Spec, PendingIsSpared
=============================================================================
