-------------------------------- MODULE Checks --------------------------------
(***************************************************************************)
(* CI checks (pkg/api/checks.go, pkg/db/check.go): reports on a patch, at  *)
(* most one per patch, context and user, that a second report overwrites.  *)
(*                                                                         *)
(* The handler looks for the report and then updates or inserts it, so     *)
(* that the requests of several sessions overlap; the unique key of the    *)
(* table ci_check refuses a second row and the request fails with 400.     *)
(***************************************************************************)
EXTENDS Patchwork, Naturals, FiniteSets

CONSTANTS
  Contexts,
  Maintains,          \* the patches a user maintains
  MaxRequests         \* bound: requests made

CheckStates == {"pending", "success", "warning", "fail"}

Keys == [patch: Patches, context: Contexts, user: Users]

VARIABLES
  check,      \* table ci_check: the state of a report, Null where there is none
  report,     \* what a session is about to write, or Null
  created,    \* how many events check-created told of a key
  made        \* requests made so far

checkVars == <<check, report, created, made>>

\* A maintainer reports: the handler looks for a report of theirs.
Look(s, u, p, context, state) ==
  LET key == [patch |-> p, context |-> context, user |-> u]
  IN /\ made < MaxRequests
     /\ report[s] = Null
     /\ p \in Maintains[u]
     /\ report' = [report EXCEPT ![s] =
                      [key |-> key, state |-> state, found |-> check[key] # Null]]
     /\ made' = made + 1
     /\ UNCHANGED <<check, created>>

\* Mutant: without the unique key.
MutantRefused(r) == FALSE

\* The unique key on patch, context and user.
Refused(r) == ~r.found /\ check[r.key] # Null

CreateCheck(s) ==
  LET r == report[s]
  IN /\ r # Null
     /\ IF Refused(r) THEN UNCHANGED <<check, created>>
        ELSE /\ check' = [check EXCEPT ![r.key] = r.state]
             /\ created' = IF r.found THEN created
                           ELSE [created EXCEPT ![r.key] = @ + 1]
     /\ report' = [report EXCEPT ![s] = Null]
     /\ UNCHANGED made

\* Any maintainer of the patch may overwrite any report on it.
UpdateCheck(u, key, state) ==
  /\ made < MaxRequests
  /\ key.patch \in Maintains[u]
  /\ check[key] # Null
  /\ check' = [check EXCEPT ![key] = state]
  /\ made' = made + 1
  /\ UNCHANGED <<report, created>>

-----------------------------------------------------------------------------
ChecksInit ==
  /\ check = [key \in Keys |-> Null]
  /\ report = [s \in Sessions |-> Null]
  /\ created = [key \in Keys |-> 0]
  /\ made = 0

ChecksNext ==
  \/ \E s \in Sessions, u \in Users, p \in Patches, context \in Contexts,
        state \in CheckStates : Look(s, u, p, context, state)
  \/ \E s \in Sessions : CreateCheck(s)
  \/ \E u \in Users, key \in Keys, state \in CheckStates :
       UpdateCheck(u, key, state)

ChecksSpec == ChecksInit /\ [][ChecksNext]_checkVars

Reports == [key: Keys, state: CheckStates, found: BOOLEAN]

\* Every variable has its type.
ChecksTypeOK ==
  /\ check \in [Keys -> CheckStates \cup {Null}]
  /\ report \in [Sessions -> Reports \cup {Null}]
  /\ created \in [Keys -> Nat]
  /\ made \in 0..MaxRequests

\* However the requests overlap, a report is announced as created exactly once,
\* by the request that inserted its row.
CreatedOnce ==
  \A key \in Keys : created[key] = IF check[key] = Null THEN 0 ELSE 1

=============================================================================
