------------------------------ MODULE EventBus ------------------------------
(***************************************************************************)
(* From the commit of a transaction to the webhooks: Queries.Commit hands  *)
(* the events a transaction buffered to Bus.Enqueue, which writes each to  *)
(* the log and, if the project has active webhooks, sends it through a     *)
(* channel to the workers that post it (pkg/db/db.go, pkg/events/bus.go).  *)
(*                                                                         *)
(* The processes are the sessions (an SMTP or HTTP handler each, or the    *)
(* reader of an mbox), the workers of the bus, and the main goroutine,     *)
(* which runs Shutdown when its server returns.  A signal cancels the      *)
(* context of the bus at any moment.                                       *)
(***************************************************************************)
EXTENDS Naturals, Sequences, FiniteSets, Functions

CONSTANTS
  Sessions,    \* goroutines that run one transaction each
  Workers,     \* the 4 worker goroutines
  Events,      \* the events transactions emit, each of one transaction
  NoEvent,     \* what a worker has received before its first item
  Hooks,       \* the webhooks
  Watched,     \* the events whose project has an active webhook
  Subscribed,  \* those of the webhooks that match the event's category
  Faulty,      \* the events on which a query may fail without a signal
  Capacity,    \* of the channel, 512
  Processes    \* what may be run: a server, or the reader of stdin or of an
               \* mbox; the events the transaction of each session buffers, in
               \* order; and the sessions before it in an mbox

\* An event is emitted once, by one transaction.
EmittedOnce(emitted) ==
  \A x, y \in Sessions :
    \A i \in DOMAIN emitted[x] : \A j \in DOMAIN emitted[y] :
      emitted[x][i] = emitted[y][j] => x = y /\ i = j

ASSUME ProcessesAssumption ==
  \A p \in Processes :
    /\ p.server \in BOOLEAN
    /\ p.emitted \in [Sessions -> Seq(Events)]
    /\ EmittedOnce(p.emitted)
    /\ p.before \in [Sessions -> SUBSET Sessions]
    /\ p.server => \A x \in Sessions : p.before[x] = {}

\* GetActiveWebhooks finds the hooks that MatchesEvent chooses from.
ASSUME SubscribedAssumption ==
  /\ Subscribed \in [Events -> SUBSET Hooks]
  /\ \A e \in Events \ Watched : Subscribed[e] = {}

ASSUME NoEventAssumption  == NoEvent \notin Events
ASSUME CapacityAssumption == Capacity \in Nat \ {0}

VARIABLES
  process,    \* the process that was started
  pc,         \* where a session is
  buffered,   \* pendingEvents that are not handed over yet
  logged,     \* table event
  webhooks,   \* the channel
  worker,     \* what a worker is doing
  event,      \* the item it has received
  todo,       \* the webhooks it has to post it to
  posted,     \* the requests sent, per event and webhook
  cancelled,  \* the context of the bus is cancelled
  main        \* serving, waiting in Shutdown, or exited with the process

sessionVars == <<process, pc, buffered, logged>>
workerVars  == <<worker, event, todo, posted>>
vars == <<sessionVars, webhooks, workerVars, cancelled, main>>

Daemon  == process.server
Emitted == process.emitted
Before  == process.before

\* Shutdown closes the channel before it waits.
Closed == main # "serving"

Running == main # "exited"

-----------------------------------------------------------------------------
(* Sessions                                                                *)

Finished(x) ==
  \/ pc[x] \in {"refused", "failed", "panicked"}
  \/ pc[x] = "logging" /\ buffered[x] = <<>>

\* The reader takes a mail when it is done with those before it.
Open(x) ==
  /\ Running
  /\ pc[x] = "open"
  /\ \A y \in Before[x] : Finished(y) /\ pc[y] # "failed"

\* A mail that fails ends the loop of the reader: those behind it stay unread.
Unread(x) == pc[x] = "open" /\ \E y \in Before[x] : pc[y] = "failed"

Commit(x) ==
  /\ Open(x)
  /\ pc' = [pc EXCEPT ![x] = "logging"]
  /\ UNCHANGED <<process, buffered, logged, webhooks, workerVars, cancelled, main>>

\* A transaction is refused for what it was asked (a duplicate mail, one that
\* cannot be parsed), or it fails: an error of a query or of the commit, a
\* context cancelled before it.
Rollback(x) ==
  /\ Open(x)
  /\ \E end \in {"refused", "failed"} : pc' = [pc EXCEPT ![x] = end]
  /\ buffered' = [buffered EXCEPT ![x] = <<>>]
  /\ UNCHANGED <<process, logged, webhooks, workerVars, cancelled, main>>

\* Enqueue up to the channel: the insert, then the query for active webhooks.
Log(x) ==
  LET e == Head(buffered[x])
  IN /\ Running
     /\ pc[x] = "logging"
     /\ buffered[x] # <<>>
     /\ ~cancelled
     /\ logged' = logged \cup {e}
     /\ IF e \in Watched
        THEN /\ pc' = [pc EXCEPT ![x] = "sending"]
             /\ UNCHANGED buffered
        ELSE /\ buffered' = [buffered EXCEPT ![x] = Tail(@)]
             /\ UNCHANGED pc
     /\ UNCHANGED <<process, webhooks, workerVars, cancelled, main>>

\* A query of Enqueue fails: the insert, or the one for active webhooks after it.
LogFails(x) ==
  LET e == Head(buffered[x])
  IN /\ Running
     /\ pc[x] = "logging"
     /\ buffered[x] # <<>>
     /\ cancelled \/ e \in Faulty
     /\ logged' \in {logged, logged \cup {e}}
     /\ buffered' = [buffered EXCEPT ![x] = Tail(@)]
     /\ UNCHANGED <<process, pc, webhooks, workerVars, cancelled, main>>

\* Mutant: the channel grows.
MutantSend(x) ==
  /\ Running
  /\ pc[x] = "sending"
  /\ ~Closed
  /\ webhooks' = Append(webhooks, Head(buffered[x]))
  /\ pc' = [pc EXCEPT ![x] = "logging"]
  /\ buffered' = [buffered EXCEPT ![x] = Tail(@)]
  /\ UNCHANGED <<process, logged, workerVars, cancelled, main>>

Send(x) ==
  /\ Running
  /\ pc[x] = "sending"
  /\ ~Closed
  /\ Len(webhooks) < Capacity
  /\ webhooks' = Append(webhooks, Head(buffered[x]))
  /\ pc' = [pc EXCEPT ![x] = "logging"]
  /\ buffered' = [buffered EXCEPT ![x] = Tail(@)]
  /\ UNCHANGED <<process, logged, workerVars, cancelled, main>>

\* Enqueue does not take the lock of Shutdown: a send to the closed channel
\* panics, and with it the handler, which the server recovers from.
Panic(x) ==
  /\ Running
  /\ pc[x] = "sending"
  /\ Closed
  /\ pc' = [pc EXCEPT ![x] = "panicked"]
  /\ UNCHANGED <<process, buffered, logged, webhooks, workerVars, cancelled, main>>

-----------------------------------------------------------------------------
(* Workers                                                                 *)

\* Mutant: the item stays in the channel.
MutantReceive(w) ==
  /\ Running
  /\ worker[w] = "idle"
  /\ webhooks # <<>>
  /\ event' = [event EXCEPT ![w] = Head(webhooks)]
  /\ worker' = [worker EXCEPT ![w] = "loading"]
  /\ UNCHANGED <<sessionVars, webhooks, todo, posted, cancelled, main>>

Receive(w) ==
  /\ Running
  /\ worker[w] = "idle"
  /\ webhooks # <<>>
  /\ event' = [event EXCEPT ![w] = Head(webhooks)]
  /\ webhooks' = Tail(webhooks)
  /\ worker' = [worker EXCEPT ![w] = "loading"]
  /\ UNCHANGED <<sessionVars, todo, posted, cancelled, main>>

\* The range over the channel ends.
Leave(w) ==
  /\ Running
  /\ worker[w] = "idle"
  /\ webhooks = <<>>
  /\ Closed
  /\ worker' = [worker EXCEPT ![w] = "gone"]
  /\ UNCHANGED <<sessionVars, webhooks, event, todo, posted, cancelled, main>>

\* Mutant: an item that matches no hook ends the worker, not the iteration.
MutantLoad(w) ==
  LET hooks == Subscribed[event[w]]
  IN /\ Running
     /\ worker[w] = "loading"
     /\ ~cancelled
     /\ todo' = [todo EXCEPT ![w] = hooks]
     /\ worker' = [worker EXCEPT ![w] = IF hooks = {} THEN "gone" ELSE "posting"]
     /\ UNCHANGED <<sessionVars, webhooks, event, posted, cancelled, main>>

\* The project and the payload are loaded; hooks that do not match are skipped.
Load(w) ==
  LET hooks == Subscribed[event[w]]
  IN /\ Running
     /\ worker[w] = "loading"
     /\ ~cancelled
     /\ todo' = [todo EXCEPT ![w] = hooks]
     /\ worker' = [worker EXCEPT ![w] = IF hooks = {} THEN "idle" ELSE "posting"]
     /\ UNCHANGED <<sessionVars, webhooks, event, posted, cancelled, main>>

\* Mutant: the worker tries again for ever.
MutantFail(w) ==
  /\ Running
  /\ worker[w] = "loading"
  /\ cancelled \/ event[w] \in Faulty
  /\ UNCHANGED vars

\* A failed query returns from the worker, not from the iteration.
Fail(w) ==
  /\ Running
  /\ worker[w] = "loading"
  /\ cancelled \/ event[w] \in Faulty
  /\ worker' = [worker EXCEPT ![w] = "gone"]
  /\ UNCHANGED <<sessionVars, webhooks, event, todo, posted, cancelled, main>>

\* postWebhook: with a cancelled context no request is sent; the answer, an
\* error and the timeout of 10 seconds all end it.
Post(w) ==
  /\ Running
  /\ worker[w] = "posting"
  /\ \E h \in todo[w] :
       /\ todo' = [todo EXCEPT ![w] = @ \ {h}]
       /\ posted' = IF cancelled THEN posted
                    ELSE [posted EXCEPT ![<<event[w], h>>] = @ + 1]
       /\ worker' = [worker EXCEPT ![w] = IF todo[w] = {h} THEN "idle" ELSE @]
  /\ UNCHANGED <<sessionVars, webhooks, event, cancelled, main>>

-----------------------------------------------------------------------------
(* The main goroutine                                                      *)

Signal ==
  /\ Running
  /\ ~cancelled
  /\ cancelled' = TRUE
  /\ UNCHANGED <<sessionVars, webhooks, workerVars, main>>

\* Run returns, and Shutdown closes the channel: a server returns as soon as
\* it is told to stop, and does not wait for its handlers; the reader returns
\* after its last mail, or after one that failed.
Close ==
  /\ main = "serving"
  /\ IF Daemon THEN cancelled ELSE \A x \in Sessions : Finished(x) \/ Unread(x)
  /\ main' = "waiting"
  /\ UNCHANGED <<sessionVars, webhooks, workerVars, cancelled>>

\* Mutant: the workers are not waited for.
MutantExit ==
  /\ main = "waiting"
  /\ main' = "exited"
  /\ UNCHANGED <<sessionVars, webhooks, workerVars, cancelled>>

\* wg.Wait returns, and the process ends with whatever is still running.
Exit ==
  /\ main = "waiting"
  /\ \A w \in Workers : worker[w] = "gone"
  /\ main' = "exited"
  /\ UNCHANGED <<sessionVars, webhooks, workerVars, cancelled>>

-----------------------------------------------------------------------------
Init ==
  /\ process \in Processes
  /\ pc = [x \in Sessions |-> "open"]
  /\ buffered = Emitted
  /\ logged = {}
  /\ webhooks = <<>>
  /\ worker = [w \in Workers |-> "idle"]
  /\ event = [w \in Workers |-> NoEvent]
  /\ todo = [w \in Workers |-> {}]
  /\ posted = [k \in Events \X Hooks |-> 0]
  /\ cancelled = FALSE
  /\ main = "serving"

Session(x) ==
  Commit(x) \/ Rollback(x) \/ Log(x) \/ LogFails(x) \/ Send(x) \/ Panic(x)

Worker(w) == Receive(w) \/ Leave(w) \/ Load(w) \/ Fail(w) \/ Post(w)

Next ==
  \/ \E x \in Sessions : Session(x)
  \/ \E w \in Workers : Worker(w)
  \/ Signal
  \/ Close
  \/ Exit

\* The scheduler runs every goroutine that can run; a request to a webhook
\* ends by its timeout.  Signals may never come.
Fairness ==
  /\ \A x \in Sessions : WF_vars(Session(x))
  /\ \A w \in Workers : WF_vars(Worker(w))
  /\ WF_vars(Close)
  /\ WF_vars(Exit)

Spec == Init /\ [][Next]_vars /\ Fairness

-----------------------------------------------------------------------------
(* Properties                                                              *)

\* Every variable has its type, and the channel stays within its capacity.
TypeOK ==
  /\ process \in Processes
  /\ pc \in [Sessions -> {"open", "logging", "sending", "refused", "failed", "panicked"}]
  /\ buffered \in [Sessions -> Seq(Events)]
  /\ logged \in SUBSET Events
  /\ webhooks \in Seq(Events) /\ Len(webhooks) <= Capacity
  /\ worker \in [Workers -> {"idle", "loading", "posting", "gone"}]
  /\ event \in [Workers -> Events \cup {NoEvent}]
  /\ todo \in [Workers -> SUBSET Hooks]
  /\ posted \in [Events \X Hooks -> Nat]
  /\ cancelled \in BOOLEAN
  /\ main \in {"serving", "waiting", "exited"}

Committed(x) == pc[x] \notin {"open", "refused", "failed"}

Promised == UNION {Range(Emitted[x]) : x \in {y \in Sessions : Committed(y)}}

Delivery == INSTANCE EventDelivery WITH promised <- Promised

\* The bus keeps the promises of the event log: an event reaches the log only
\* from a transaction that committed, and a webhook only from the log, once,
\* and only if it subscribed to it (Commit, Enqueue, worker).
PromisesKept == Delivery!Spec

Heard(e) == \A h \in Subscribed[e] : posted[<<e, h>>] = 1

\* "Shutdown closes the channel and waits for the worker to drain all pending
\* events" (comment of Shutdown).  It does so when no signal came: every event
\* of a committed transaction whose queries work has been heard of before the
\* reader of an mbox ends, though the failing queries of others have cost it
\* some of its workers.
ReaderDrains ==
  ~Daemon /\ main = "exited" /\ ~cancelled => \A e \in Promised \ Faulty : Heard(e)

\* "Read all emails in mbox format from stdin" (help of --mbox): unless a signal
\* comes, or a mail fails for a reason that is not in the mail, the reader gets
\* to the end of its mails.
ReaderReads ==
  <>(\/ Daemon \/ cancelled
     \/ \E x \in Sessions : pc[x] = "failed"
     \/ \A x \in Sessions : Finished(x))

\* A signal ends a server, whatever its handlers and its workers are doing.
ServerStops == Daemon /\ cancelled ~> main = "exited"

\* An event of a transaction a server committed is posted to all its
\* subscribers, though the queries for other events fail, unless a signal comes.
ServerIsHeard ==
  \A e \in Events \ Faulty :
    Daemon /\ e \in Promised ~> (cancelled \/ Heard(e))
=============================================================================
