--------------------------- MODULE EventDelivery ---------------------------
(***************************************************************************)
(* What the event log and the webhooks promise, whoever produces events    *)
(* and whoever delivers them: an event comes from a committed transaction, *)
(* enters the log once, and is posted to a subscriber only after it is in  *)
(* the log, and at most once.  Nothing is promised of a process that stops:*)
(* events may then miss the log, and subscribers miss events.              *)
(***************************************************************************)
EXTENDS Naturals

CONSTANTS
  Events,      \* the events transactions emit
  Hooks,       \* the webhooks
  Subscribed   \* the webhooks that are to hear of an event

VARIABLES
  promised,  \* the events of committed transactions
  logged,    \* the events in the log
  posted     \* how often an event was posted to a webhook

vars == <<promised, logged, posted>>

Init ==
  /\ promised = {}
  /\ logged = {}
  /\ posted = [k \in Events \X Hooks |-> 0]

Promise ==
  /\ \E E \in SUBSET (Events \ promised) : promised' = promised \cup E
  /\ UNCHANGED <<logged, posted>>

Log ==
  /\ \E e \in promised \ logged : logged' = logged \cup {e}
  /\ UNCHANGED <<promised, posted>>

Post ==
  /\ \E e \in logged : \E h \in Subscribed[e] :
       /\ posted[<<e, h>>] = 0
       /\ posted' = [posted EXCEPT ![<<e, h>>] = 1]
  /\ UNCHANGED <<promised, logged>>

Next == Promise \/ Log \/ Post

Spec == Init /\ [][Next]_vars
=============================================================================
