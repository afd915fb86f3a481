---------------------------- MODULE EventBusProofs ----------------------------
(***************************************************************************)
(* Proofs about the event bus: its types and the capacity of the channel,  *)
(* that it implements EventDelivery, and that the reader of an mbox drains *)
(* the channel if fewer queries fail than there are workers.               *)
(***************************************************************************)
EXTENDS EventBus, FiniteSetTheorems, TLAPS

(***************************************************************************)
(* Queues without repetitions.                                             *)
(***************************************************************************)

LEMMA TailFacts ==
  ASSUME NEW S, NEW s \in Seq(S), s # <<>>
  PROVE  /\ Head(s) \in S /\ Tail(s) \in Seq(S) /\ Len(Tail(s)) = Len(s) - 1
         /\ Range(s) = Range(Tail(s)) \cup {Head(s)}
         /\ IsInjective(s) => IsInjective(Tail(s)) /\ Head(s) \notin Range(Tail(s))
<1>1. Len(s) \in Nat \ {0} /\ s \in [1..Len(s) -> S]
  OBVIOUS
<1>2. /\ Tail(s) \in Seq(S) /\ Len(Tail(s)) = Len(s) - 1
      /\ \A i \in 1..(Len(s) - 1) : Tail(s)[i] = s[i + 1]
      /\ Head(s) = s[1]
  BY <1>1
<1>3. DOMAIN s = 1..Len(s) /\ DOMAIN Tail(s) = 1..(Len(s) - 1)
  BY <1>1, <1>2
<1>4. \A i \in 1..Len(s) : i = 1 \/ (i - 1 \in 1..(Len(s) - 1) /\ s[i] = Tail(s)[i - 1])
  BY <1>1, <1>2
<1>5. Range(s) = Range(Tail(s)) \cup {Head(s)}
  <2>1. ASSUME NEW i \in 1..Len(s) PROVE s[i] \in Range(Tail(s)) \cup {Head(s)}
    BY <1>2, <1>3, <1>4 DEF Range
  <2>2. ASSUME NEW i \in 1..(Len(s) - 1) PROVE Tail(s)[i] \in Range(s)
    <3>1. i + 1 \in DOMAIN s /\ Tail(s)[i] = s[i + 1]
      BY <1>1, <1>2, <1>3
    <3> QED BY <3>1 DEF Range
  <2>3. Head(s) \in Range(s)
    <3>1. 1 \in DOMAIN s
      BY <1>1, <1>3
    <3> QED BY <3>1, <1>2 DEF Range
  <2> QED BY <1>3, <2>1, <2>2, <2>3 DEF Range
<1>6. ASSUME IsInjective(s)
      PROVE  IsInjective(Tail(s)) /\ Head(s) \notin Range(Tail(s))
  <2>1. \A i, j \in 1..Len(s) : s[i] = s[j] => i = j
    BY <1>3, <1>6 DEF IsInjective
  <2>2. \A i \in 1..(Len(s) - 1) : i + 1 \in 1..Len(s) /\ i + 1 # 1
    BY <1>1
  <2>3. \A i, j \in 1..(Len(s) - 1) : Tail(s)[i] = Tail(s)[j] => i = j
    <3> SUFFICES ASSUME NEW i \in 1..(Len(s) - 1), NEW j \in 1..(Len(s) - 1),
                        Tail(s)[i] = Tail(s)[j]
                 PROVE  i = j
      OBVIOUS
    <3>1. s[i + 1] = s[j + 1]
      BY <1>2
    <3>2. i + 1 = j + 1
      BY <2>1, <2>2, <3>1
    <3> QED BY <3>2
  <2>4. \A i \in 1..(Len(s) - 1) : Tail(s)[i] # Head(s)
    <3> SUFFICES ASSUME NEW i \in 1..(Len(s) - 1), Tail(s)[i] = Head(s) PROVE FALSE
      OBVIOUS
    <3>1. s[i + 1] = s[1] /\ 1 \in 1..Len(s)
      BY <1>1, <1>2
    <3> QED BY <2>1, <2>2, <3>1
  <2> QED BY <1>3, <2>3, <2>4 DEF Range, IsInjective
<1> QED BY <1>1, <1>2, <1>5, <1>6

LEMMA AppendFacts ==
  ASSUME NEW S, NEW s \in Seq(S), NEW e \in S
  PROVE  /\ Append(s, e) \in Seq(S) /\ Len(Append(s, e)) = Len(s) + 1
         /\ Range(Append(s, e)) = Range(s) \cup {e}
         /\ IsInjective(s) /\ e \notin Range(s) => IsInjective(Append(s, e))
<1>1. /\ Len(s) \in Nat /\ Append(s, e) \in Seq(S)
      /\ DOMAIN s = 1..Len(s) /\ DOMAIN Append(s, e) = 1..(Len(s) + 1)
      /\ Len(Append(s, e)) = Len(s) + 1
      /\ \A i \in 1..Len(s) : Append(s, e)[i] = s[i]
      /\ Append(s, e)[Len(s) + 1] = e
  OBVIOUS
<1>2. \A i \in 1..(Len(s) + 1) : i \in 1..Len(s) \/ i = Len(s) + 1
  BY <1>1
<1>3. Range(Append(s, e)) = Range(s) \cup {e}
  BY <1>1, <1>2 DEF Range
<1>4. ASSUME IsInjective(s), e \notin Range(s) PROVE IsInjective(Append(s, e))
  BY <1>1, <1>2, <1>4 DEF Range, IsInjective
<1> QED BY <1>1, <1>3, <1>4

(***************************************************************************)
(* The inductive invariant.  An event waits in its session, is in the      *)
(* channel or with the worker that received it, in this order and in one   *)
(* place at a time; and it is posted from the last one only.               *)
(***************************************************************************)

SessionsInOrder ==
  \A x \in Sessions :
    /\ IsInjective(buffered[x]) /\ Range(buffered[x]) \subseteq Range(Emitted[x])
    /\ pc[x] = "open" => buffered[x] = Emitted[x]
    /\ pc[x] \in {"refused", "failed"} => buffered[x] = <<>>
    /\ pc[x] = "sending" => buffered[x] # <<>> /\ Head(buffered[x]) \in logged

Unposted(e) == \A h \in Hooks : posted[<<e, h>>] = 0

Untaken(e) == \A w \in Workers : event[w] # e

InOnePlace ==
  /\ \A x \in Sessions : \A e \in Range(buffered[x]) :
       e \notin Range(webhooks) /\ Untaken(e) /\ Unposted(e)
  /\ IsInjective(webhooks)
  /\ \A e \in Range(webhooks) : e \in logged /\ Untaken(e) /\ Unposted(e)
  /\ \A v, w \in Workers : event[v] = event[w] => v = w \/ event[w] = NoEvent

WorkersInOrder ==
  \A w \in Workers :
    /\ worker[w] = "loading" => event[w] \in logged /\ Unposted(event[w])
    /\ worker[w] = "posting"
         => /\ event[w] \in logged
            /\ todo[w] \subseteq Subscribed[event[w]]
            /\ \A h \in todo[w] : posted[<<event[w], h>>] = 0

BusInvariant ==
  /\ TypeOK /\ SessionsInOrder /\ InOnePlace /\ WorkersInOrder
  /\ logged \subseteq Promised

\* What the process that was started emits, which is the same in every state.
LEMMA EmittedFacts ==
  ASSUME process \in Processes
  PROVE  Emitted \in [Sessions -> Seq(Events)] /\ EmittedOnce(Emitted)
BY ProcessesAssumption DEF Emitted

LEMMA EmittedStays ==
  ASSUME UNCHANGED process
  PROVE  Emitted' = Emitted
BY DEF Emitted

\* Two sessions have no event in common.
LEMMA SessionsDisjoint ==
  ASSUME process \in Processes, NEW x \in Sessions, NEW y \in Sessions, NEW e \in Range(Emitted[x]),
         e \in Range(Emitted[y])
  PROVE  x = y
<1>1. PICK i \in DOMAIN Emitted[x] : e = Emitted[x][i]
  BY DEF Range
<1>2. PICK j \in DOMAIN Emitted[y] : e = Emitted[y][j]
  BY DEF Range
<1> QED BY <1>1, <1>2, EmittedFacts DEF EmittedOnce

LEMMA PromisedFacts ==
  ASSUME process \in Processes
  PROVE  /\ \A e : e \in Promised
              <=> \E x \in Sessions : Committed(x) /\ e \in Range(Emitted[x])
         /\ Promised \subseteq Events
<1>1. \A e : e \in Promised
        <=> \E x \in Sessions : Committed(x) /\ e \in Range(Emitted[x])
  BY DEF Promised
<1>2. \A x \in Sessions : Range(Emitted[x]) \subseteq Events
  BY EmittedFacts DEF Range
<1> QED BY <1>1, <1>2

LEMMA BusInit == Init => BusInvariant
<1> SUFFICES ASSUME Init PROVE BusInvariant
  OBVIOUS
<1> USE DEF Init
<1>1. TypeOK
  <2>1. webhooks \in Seq(Events) /\ Len(webhooks) <= Capacity
    BY CapacityAssumption
  <2> QED BY <2>1, EmittedFacts DEF TypeOK
<1>2. SessionsInOrder
  <2>1. \A x \in Sessions : IsInjective(Emitted[x])
    BY EmittedFacts DEF EmittedOnce, IsInjective
  <2> QED BY <2>1 DEF SessionsInOrder
<1>3. InOnePlace
  <2>1. Range(webhooks) = {} /\ IsInjective(webhooks)
    BY DEF Range, IsInjective
  <2>2. \A x \in Sessions : \A e \in Range(buffered[x]) : e \in Events
    BY EmittedFacts DEF Range
  <2>3. \A e \in Events : Untaken(e) /\ Unposted(e)
    BY NoEventAssumption DEF Untaken, Unposted
  <2> QED BY <2>1, <2>2, <2>3 DEF InOnePlace
<1>4. WorkersInOrder
  BY DEF WorkersInOrder
<1> QED BY <1>1, <1>2, <1>3, <1>4 DEF BusInvariant

(***************************************************************************)
(* Steps of the sessions.                                                  *)
(***************************************************************************)

(***************************************************************************)
(* Types.                                                                  *)
(***************************************************************************)

LEMMA SessionTypes ==
  ASSUME BusInvariant, NEW x \in Sessions, Session(x)
  PROVE  TypeOK'
<1> USE DEF BusInvariant, TypeOK
<1>1. CASE Commit(x)
  BY <1>1 DEF Commit, Open, workerVars
<1>2. CASE Rollback(x)
  BY <1>2 DEF Rollback, Open, workerVars
<1>3. CASE Log(x)
  <2>1. Head(buffered[x]) \in Events /\ Tail(buffered[x]) \in Seq(Events)
    BY <1>3, TailFacts DEF Log
  <2> QED BY <1>3, <2>1 DEF Log, workerVars
<1>4. CASE LogFails(x)
  <2>1. Head(buffered[x]) \in Events /\ Tail(buffered[x]) \in Seq(Events)
    BY <1>4, TailFacts DEF LogFails
  <2> QED BY <1>4, <2>1 DEF LogFails, workerVars
<1>5. CASE Send(x)
  <2>1. Head(buffered[x]) \in Events /\ Tail(buffered[x]) \in Seq(Events)
    BY <1>5, TailFacts DEF Send, SessionsInOrder
  <2>2. /\ Append(webhooks, Head(buffered[x])) \in Seq(Events)
        /\ Len(Append(webhooks, Head(buffered[x]))) <= Capacity
    BY <1>5, <2>1, AppendFacts, CapacityAssumption DEF Send
  <2> QED BY <1>5, <2>1, <2>2 DEF Send, workerVars
<1>6. CASE Panic(x)
  BY <1>6 DEF Panic, workerVars
<1> QED BY <1>1, <1>2, <1>3, <1>4, <1>5, <1>6 DEF Session

LEMMA WorkerTypes ==
  ASSUME BusInvariant, NEW w \in Workers, Worker(w)
  PROVE  TypeOK'
<1> USE DEF BusInvariant, TypeOK
<1>1. CASE Receive(w)
  <2>1. /\ Head(webhooks) \in Events /\ Tail(webhooks) \in Seq(Events)
        /\ Len(Tail(webhooks)) <= Capacity
    BY <1>1, TailFacts, CapacityAssumption DEF Receive
  <2> QED BY <1>1, <2>1 DEF Receive, sessionVars
<1>2. CASE Leave(w)
  BY <1>2 DEF Leave, sessionVars
<1>3. CASE Load(w)
  <2>1. Subscribed[event[w]] \in SUBSET Hooks
    BY <1>3, SubscribedAssumption DEF Load, WorkersInOrder
  <2> QED BY <1>3, <2>1 DEF Load, sessionVars
<1>4. CASE Fail(w)
  BY <1>4 DEF Fail, sessionVars
<1>5. CASE Post(w)
  <2>1. PICK h \in todo[w] :
          /\ todo' = [todo EXCEPT ![w] = @ \ {h}]
          /\ posted' = IF cancelled THEN posted
                       ELSE [posted EXCEPT ![<<event[w], h>>] = @ + 1]
          /\ worker' = [worker EXCEPT ![w] = IF todo[w] = {h} THEN "idle" ELSE @]
    BY <1>5 DEF Post
  <2>2. <<event[w], h>> \in Events \X Hooks
    BY <1>5, <2>1 DEF Post, WorkersInOrder
  <2>3. posted' \in [Events \X Hooks -> Nat]
    BY <2>1, <2>2
  <2> QED BY <1>5, <2>1, <2>3 DEF Post, sessionVars
<1> QED BY <1>1, <1>2, <1>3, <1>4, <1>5 DEF Worker

LEMMA MainTypes ==
  ASSUME BusInvariant, Signal \/ Close \/ Exit
  PROVE  TypeOK'
BY DEF BusInvariant, TypeOK, Signal, Close, Exit, sessionVars, workerVars

(***************************************************************************)
(* Steps of the sessions.                                                  *)
(***************************************************************************)

\* Sessions that only drop events disturb neither the channel nor the workers.
LEMMA DroppingIsHarmless ==
  ASSUME BusInvariant, UNCHANGED <<webhooks, workerVars>>, logged \subseteq logged',
         \A y \in Sessions : Range(buffered'[y]) \subseteq Range(buffered[y])
  PROVE  InOnePlace' /\ WorkersInOrder'
<1>1. UNCHANGED <<webhooks, worker, event, todo, posted>>
  BY DEF workerVars
<1>2. InOnePlace'
  BY <1>1 DEF BusInvariant, InOnePlace, Untaken, Unposted
<1>3. WorkersInOrder'
  BY <1>1 DEF BusInvariant, WorkersInOrder, Unposted
<1> QED BY <1>2, <1>3

\* The order of one session is kept if its own step keeps it.
LEMMA OthersStayInOrder ==
  ASSUME BusInvariant, UNCHANGED process, NEW x \in Sessions, logged \subseteq logged',
         \A y \in Sessions : y # x => pc'[y] = pc[y] /\ buffered'[y] = buffered[y],
         IsInjective(buffered'[x]), Range(buffered'[x]) \subseteq Range(Emitted[x]),
         pc'[x] # "open", pc'[x] \in {"refused", "failed"} => buffered'[x] = <<>>,
         pc'[x] = "sending" => buffered'[x] # <<>> /\ Head(buffered'[x]) \in logged'
  PROVE  SessionsInOrder'
<1> SUFFICES ASSUME NEW y \in Sessions
             PROVE  /\ IsInjective(buffered'[y])
                    /\ Range(buffered'[y]) \subseteq Range(Emitted[y])
                    /\ pc'[y] = "open" => buffered'[y] = Emitted[y]
                    /\ pc'[y] \in {"refused", "failed"} => buffered'[y] = <<>>
                    /\ pc'[y] = "sending" => /\ buffered'[y] # <<>>
                                            /\ Head(buffered'[y]) \in logged'
  BY EmittedStays DEF SessionsInOrder
<1>1. CASE y = x
  BY <1>1
<1>2. CASE y # x
  BY <1>2 DEF BusInvariant, SessionsInOrder
<1> QED BY <1>1, <1>2

\* What is promised stays promised, so that the log holds promised events only.
LEMMA PromisesStay ==
  ASSUME BusInvariant, UNCHANGED process,
         \A y \in Sessions : Committed(y) => Committed(y)',
         logged' \subseteq Promised
  PROVE  (logged \subseteq Promised)'
<1> SUFFICES ASSUME NEW f \in logged' PROVE f \in Promised'
  OBVIOUS
<1>1. f \in Promised
  OBVIOUS
<1>2. PICK y \in Sessions : Committed(y) /\ f \in Range(Emitted[y])
  BY <1>1, PromisedFacts DEF BusInvariant, TypeOK
<1>3. Committed(y)'
  BY <1>2
<1> QED BY <1>2, <1>3, EmittedStays DEF Promised

LEMMA CommitKeeps ==
  ASSUME BusInvariant, NEW x \in Sessions, Commit(x) \/ Rollback(x) \/ Panic(x)
  PROVE  /\ SessionsInOrder' /\ InOnePlace' /\ WorkersInOrder'
         /\ (logged \subseteq Promised)'
<1>1. /\ UNCHANGED <<process, logged, webhooks, workerVars>>
      /\ pc \in [Sessions -> {"open", "logging", "sending", "refused", "failed", "panicked"}]
      /\ buffered \in [Sessions -> Seq(Events)]
  BY DEF Commit, Open, Rollback, Panic, BusInvariant, TypeOK
<1>2. /\ \A y \in Sessions : y # x => pc'[y] = pc[y] /\ buffered'[y] = buffered[y]
      /\ \/ buffered'[x] = buffered[x] /\ pc'[x] \in {"logging", "panicked"}
         \/ buffered'[x] = <<>> /\ pc'[x] \in {"refused", "failed"} /\ pc[x] = "open"
      /\ pc[x] \in {"open", "sending"}
      /\ pc[x] = "sending" => pc'[x] = "panicked"
  BY <1>1 DEF Commit, Open, Rollback, Panic
<1>3. IsInjective(<<>>) /\ Range(<<>>) = {}
  BY DEF IsInjective, Range
<1>4. \A y \in Sessions : Range(buffered'[y]) \subseteq Range(buffered[y])
  BY <1>2, <1>3
<1>5. IsInjective(buffered[x]) /\ Range(buffered[x]) \subseteq Range(Emitted[x])
  BY DEF BusInvariant, SessionsInOrder
<1>6. SessionsInOrder'
  BY <1>1, <1>2, <1>3, <1>5, OthersStayInOrder
<1>7. InOnePlace' /\ WorkersInOrder'
  BY <1>1, <1>4, DroppingIsHarmless
<1>8. \A y \in Sessions : Committed(y) => Committed(y)'
  BY <1>2 DEF Committed
<1>9. (logged \subseteq Promised)'
  BY <1>1, <1>8, PromisesStay DEF BusInvariant
<1> QED BY <1>6, <1>7, <1>9

LEMMA LogKeeps ==
  ASSUME BusInvariant, NEW x \in Sessions, Log(x) \/ LogFails(x)
  PROVE  /\ SessionsInOrder' /\ InOnePlace' /\ WorkersInOrder'
         /\ (logged \subseteq Promised)'
<1> DEFINE e == Head(buffered[x])
<1>1. /\ UNCHANGED <<process, webhooks, workerVars>>
      /\ pc \in [Sessions -> {"open", "logging", "sending", "refused", "failed", "panicked"}]
      /\ buffered \in [Sessions -> Seq(Events)]
      /\ buffered[x] # <<>> /\ pc[x] = "logging"
      /\ logged \subseteq logged' /\ logged' \subseteq logged \cup {e}
  BY DEF Log, LogFails, BusInvariant, TypeOK
<1>2. /\ \A y \in Sessions : y # x => pc'[y] = pc[y] /\ buffered'[y] = buffered[y]
      /\ \/ buffered'[x] = buffered[x] /\ pc'[x] = "sending" /\ e \in logged'
         \/ buffered'[x] = Tail(buffered[x]) /\ pc'[x] = "logging"
  BY <1>1 DEF Log, LogFails
<1>3. IsInjective(buffered[x]) /\ Range(buffered[x]) \subseteq Range(Emitted[x])
  BY DEF BusInvariant, SessionsInOrder
<1>4. /\ Range(buffered[x]) = Range(Tail(buffered[x])) \cup {e}
      /\ IsInjective(Tail(buffered[x]))
  BY <1>1, <1>3, TailFacts
<1>5. \A y \in Sessions : Range(buffered'[y]) \subseteq Range(buffered[y])
  BY <1>2, <1>4
<1>6. SessionsInOrder'
  BY <1>1, <1>2, <1>3, <1>4, OthersStayInOrder
<1>7. InOnePlace' /\ WorkersInOrder'
  BY <1>1, <1>5, DroppingIsHarmless
<1>8. (logged \subseteq Promised)'
  <2>1. \A y \in Sessions : Committed(y) => Committed(y)'
    BY <1>2 DEF Committed
  <2>2. Committed(x) /\ e \in Range(Emitted[x])
    BY <1>1, <1>3, <1>4 DEF Committed
  <2>3. logged' \subseteq Promised
    BY <1>1, <2>2, PromisedFacts DEF BusInvariant, TypeOK
  <2> QED BY <1>1, <2>1, <2>3, PromisesStay
<1> QED BY <1>6, <1>7, <1>8

LEMMA SendKeeps ==
  ASSUME BusInvariant, NEW x \in Sessions, Send(x)
  PROVE  /\ SessionsInOrder' /\ InOnePlace' /\ WorkersInOrder'
         /\ (logged \subseteq Promised)'
<1> DEFINE e == Head(buffered[x])
<1>1. /\ UNCHANGED <<process, logged, worker, event, todo, posted>>
      /\ pc \in [Sessions -> {"open", "logging", "sending", "refused", "failed", "panicked"}]
      /\ buffered \in [Sessions -> Seq(Events)] /\ webhooks \in Seq(Events)
      /\ pc[x] = "sending" /\ webhooks' = Append(webhooks, e)
      /\ pc' = [pc EXCEPT ![x] = "logging"]
      /\ buffered' = [buffered EXCEPT ![x] = Tail(@)]
  BY DEF Send, BusInvariant, TypeOK, workerVars
<1>2. /\ buffered[x] # <<>> /\ e \in logged
      /\ IsInjective(buffered[x]) /\ Range(buffered[x]) \subseteq Range(Emitted[x])
  BY <1>1 DEF BusInvariant, SessionsInOrder
<1>3. /\ \A y \in Sessions : y # x => pc'[y] = pc[y] /\ buffered'[y] = buffered[y]
      /\ buffered'[x] = Tail(buffered[x]) /\ pc'[x] = "logging"
  BY <1>1
<1>4. /\ Range(buffered[x]) = Range(Tail(buffered[x])) \cup {e} /\ e \in Events
      /\ IsInjective(Tail(buffered[x])) /\ e \notin Range(Tail(buffered[x]))
  BY <1>1, <1>2, TailFacts
<1>5. /\ e \notin Range(webhooks) /\ Untaken(e) /\ Unposted(e)
      /\ IsInjective(webhooks)
  BY <1>4 DEF BusInvariant, InOnePlace
<1>6. Range(webhooks') = Range(webhooks) \cup {e} /\ IsInjective(webhooks')
  BY <1>1, <1>4, <1>5, AppendFacts
<1>7. SessionsInOrder'
  BY <1>1, <1>2, <1>3, <1>4, OthersStayInOrder
<1>8. ASSUME NEW y \in Sessions, NEW f \in Range(buffered'[y])
      PROVE  f \in Range(buffered[y]) /\ f # e
  <2>1. f \in Range(buffered[y])
    BY <1>3, <1>4
  <2>2. CASE y = x
    BY <1>3, <1>4, <2>1, <2>2
  <2>3. CASE y # x
    <3>1. f \in Range(Emitted[y]) /\ e \in Range(Emitted[x])
      BY <1>2, <1>4, <2>1 DEF BusInvariant, SessionsInOrder
    <3> QED BY <2>1, <2>3, <3>1, SessionsDisjoint DEF BusInvariant, TypeOK
  <2> QED BY <2>2, <2>3
<1>9. InOnePlace'
  <2>1. \A y \in Sessions : \A f \in Range(buffered'[y]) :
          f \notin Range(webhooks') /\ Untaken(f)' /\ Unposted(f)'
    <3> SUFFICES ASSUME NEW y \in Sessions, NEW f \in Range(buffered'[y])
                 PROVE  f \notin Range(webhooks') /\ Untaken(f)' /\ Unposted(f)'
      OBVIOUS
    <3>1. f \notin Range(webhooks) /\ Untaken(f) /\ Unposted(f)
      BY <1>8 DEF BusInvariant, InOnePlace
    <3> QED BY <1>1, <1>6, <1>8, <3>1 DEF Untaken, Unposted
  <2>2. \A f \in Range(webhooks') : f \in logged' /\ Untaken(f)' /\ Unposted(f)'
    <3> SUFFICES ASSUME NEW f \in Range(webhooks')
                 PROVE  f \in logged' /\ Untaken(f)' /\ Unposted(f)'
      OBVIOUS
    <3>1. f \in logged /\ Untaken(f) /\ Unposted(f)
      BY <1>2, <1>5, <1>6 DEF BusInvariant, InOnePlace
    <3> QED BY <1>1, <3>1 DEF Untaken, Unposted
  <2>3. \A v, w \in Workers : event'[v] = event'[w] => v = w \/ event'[w] = NoEvent
    BY <1>1 DEF BusInvariant, InOnePlace
  <2> QED BY <1>6, <2>1, <2>2, <2>3 DEF InOnePlace
<1>10. WorkersInOrder'
  BY <1>1 DEF BusInvariant, WorkersInOrder, Unposted
<1>11. (logged \subseteq Promised)'
  <2>1. \A y \in Sessions : Committed(y) => Committed(y)'
    BY <1>3 DEF Committed
  <2> QED BY <1>1, <2>1, PromisesStay DEF BusInvariant
<1> QED BY <1>7, <1>9, <1>10, <1>11

(***************************************************************************)
(* Steps of the workers and of the main goroutine.                         *)
(***************************************************************************)

\* Steps that change neither the sessions nor the log.
LEMMA SessionsUntouched ==
  ASSUME BusInvariant, UNCHANGED sessionVars
  PROVE  SessionsInOrder' /\ (logged \subseteq Promised)'
BY EmittedStays DEF BusInvariant, SessionsInOrder, sessionVars, Promised, Committed

LEMMA MainKeeps ==
  ASSUME BusInvariant, Signal \/ Close \/ Exit
  PROVE  InOnePlace' /\ WorkersInOrder' /\ UNCHANGED sessionVars
<1>1. UNCHANGED <<sessionVars, webhooks, workerVars>>
  BY DEF Signal, Close, Exit
<1> QED BY <1>1
  DEF BusInvariant, InOnePlace, WorkersInOrder, Untaken, Unposted, sessionVars, workerVars

LEMMA ReceiveKeeps ==
  ASSUME BusInvariant, NEW w \in Workers, Receive(w)
  PROVE  InOnePlace' /\ WorkersInOrder' /\ UNCHANGED sessionVars
<1> DEFINE e == Head(webhooks)
<1>1. /\ UNCHANGED <<process, pc, buffered, logged, todo, posted>>
      /\ webhooks \in Seq(Events) /\ webhooks # <<>> /\ webhooks' = Tail(webhooks)
      /\ event \in [Workers -> Events \cup {NoEvent}]
      /\ event' = [event EXCEPT ![w] = e]
      /\ \A v \in Workers : worker'[v] = IF v = w THEN "loading" ELSE worker[v]
  BY DEF Receive, BusInvariant, TypeOK, sessionVars
<1>2. \A v \in Workers : event'[v] = IF v = w THEN e ELSE event[v]
  BY <1>1
<1>3. IsInjective(webhooks)
  BY DEF BusInvariant, InOnePlace
<1>4. /\ Range(webhooks) = Range(webhooks') \cup {e} /\ e \in Events
      /\ IsInjective(webhooks') /\ e \notin Range(webhooks')
  BY <1>1, <1>3, TailFacts
<1>5. e \in logged /\ Untaken(e) /\ Unposted(e)
  BY <1>4 DEF BusInvariant, InOnePlace
<1>6. ASSUME NEW f, f # e, Untaken(f) PROVE Untaken(f)'
  BY <1>2, <1>6 DEF Untaken
<1>7. \A x \in Sessions : \A f \in Range(buffered'[x]) :
        f \notin Range(webhooks') /\ Untaken(f)' /\ Unposted(f)'
  <2> SUFFICES ASSUME NEW x \in Sessions, NEW f \in Range(buffered'[x])
               PROVE  f \notin Range(webhooks') /\ Untaken(f)' /\ Unposted(f)'
    OBVIOUS
  <2>1. f \notin Range(webhooks) /\ Untaken(f) /\ Unposted(f)
    BY <1>1 DEF BusInvariant, InOnePlace
  <2>2. Unposted(f)'
    BY <1>1, <2>1 DEF Unposted
  <2> QED BY <1>4, <1>6, <2>1, <2>2
<1>8. \A f \in Range(webhooks') : f \in logged' /\ Untaken(f)' /\ Unposted(f)'
  <2> SUFFICES ASSUME NEW f \in Range(webhooks')
               PROVE  f \in logged' /\ Untaken(f)' /\ Unposted(f)'
    OBVIOUS
  <2>1. f # e /\ f \in logged /\ Untaken(f) /\ Unposted(f)
    BY <1>4 DEF BusInvariant, InOnePlace
  <2>2. f \in logged' /\ Unposted(f)'
    BY <1>1, <2>1 DEF Unposted
  <2> QED BY <1>6, <2>1, <2>2
<1>9. \A u, v \in Workers : event'[u] = event'[v] => u = v \/ event'[v] = NoEvent
  BY <1>2, <1>5 DEF BusInvariant, InOnePlace, Untaken
<1>10. InOnePlace'
  BY <1>4, <1>7, <1>8, <1>9 DEF InOnePlace
<1>11. WorkersInOrder'
  <2>1. \A v \in Workers :
          /\ worker'[v] = "loading" => event'[v] \in logged' /\ Unposted(event'[v])
          /\ worker'[v] = "posting" => v # w
    BY <1>1, <1>2, <1>5 DEF BusInvariant, WorkersInOrder
  <2> QED BY <1>1, <1>2, <2>1 DEF BusInvariant, WorkersInOrder, Unposted
<1> QED BY <1>1, <1>10, <1>11 DEF sessionVars

LEMMA LoadKeeps ==
  ASSUME BusInvariant, NEW w \in Workers, Leave(w) \/ Load(w) \/ Fail(w)
  PROVE  InOnePlace' /\ WorkersInOrder' /\ UNCHANGED sessionVars
<1>1. /\ UNCHANGED <<sessionVars, webhooks, event, posted>>
      /\ worker \in [Workers -> {"idle", "loading", "posting", "gone"}]
      /\ todo \in [Workers -> SUBSET Hooks]
  BY DEF Leave, Load, Fail, BusInvariant, TypeOK
<1>2. InOnePlace'
  BY <1>1 DEF BusInvariant, InOnePlace, Untaken, Unposted, sessionVars
<1>3. /\ \A v \in Workers : v # w => worker'[v] = worker[v] /\ todo'[v] = todo[v]
      /\ \/ worker'[w] \in {"idle", "gone"}
         \/ /\ worker[w] = "loading" /\ worker'[w] = "posting"
            /\ todo'[w] = Subscribed[event[w]]
  BY <1>1 DEF Leave, Load, Fail
<1>4. WorkersInOrder'
  <2> SUFFICES ASSUME NEW v \in Workers
               PROVE  /\ worker'[v] = "loading"
                           => event'[v] \in logged' /\ Unposted(event[v])'
                      /\ worker'[v] = "posting"
                           => /\ event'[v] \in logged'
                              /\ todo'[v] \subseteq Subscribed[event'[v]]
                              /\ \A h \in todo'[v] : posted'[<<event'[v], h>>] = 0
    BY DEF WorkersInOrder
  <2>1. CASE v # w
    BY <1>1, <1>3, <2>1 DEF BusInvariant, WorkersInOrder, Unposted, sessionVars
  <2>2. CASE v = w /\ worker'[w] \in {"idle", "gone"}
    BY <2>2
  <2>3. CASE v = w /\ worker[w] = "loading" /\ worker'[w] = "posting"
    <3>1. event[w] \in logged /\ Unposted(event[w]) /\ logged \subseteq Events
      BY <2>3 DEF BusInvariant, WorkersInOrder, TypeOK
    <3>2. Subscribed[event[w]] \subseteq Hooks
      BY <3>1, SubscribedAssumption
    <3> QED BY <1>1, <1>3, <2>3, <3>1, <3>2 DEF Unposted, sessionVars
  <2> QED BY <1>3, <2>1, <2>2, <2>3
<1> QED BY <1>1, <1>2, <1>4

LEMMA PostKeeps ==
  ASSUME BusInvariant, NEW w \in Workers, Post(w)
  PROVE  InOnePlace' /\ WorkersInOrder' /\ UNCHANGED sessionVars
<1> DEFINE e == event[w]
<1>1. /\ UNCHANGED <<process, pc, buffered, logged, webhooks, event>>
      /\ worker \in [Workers -> {"idle", "loading", "posting", "gone"}]
      /\ todo \in [Workers -> SUBSET Hooks]
      /\ posted \in [Events \X Hooks -> Nat]
      /\ worker[w] = "posting"
  BY DEF Post, BusInvariant, TypeOK, sessionVars
<1>2. PICK h \in todo[w] :
        /\ todo' = [todo EXCEPT ![w] = @ \ {h}]
        /\ posted' = IF cancelled THEN posted
                     ELSE [posted EXCEPT ![<<event[w], h>>] = @ + 1]
        /\ worker' = [worker EXCEPT ![w] = IF todo[w] = {h} THEN "idle" ELSE @]
  BY DEF Post
<1>3. e \in logged /\ e \in Events /\ e # NoEvent
  BY <1>1, NoEventAssumption DEF BusInvariant, TypeOK, WorkersInOrder
<1>4. \A f \in Events : \A k \in Hooks :
        <<f, k>> # <<e, h>> => posted'[<<f, k>>] = posted[<<f, k>>]
  BY <1>1, <1>2
<1>5. ASSUME NEW f \in Events, f # e, Unposted(f) PROVE Unposted(f)'
  BY <1>4, <1>5 DEF Unposted
<1>6. \A x \in Sessions : \A f \in Range(buffered'[x]) :
        f \notin Range(webhooks') /\ Untaken(f)' /\ Unposted(f)'
  <2> SUFFICES ASSUME NEW x \in Sessions, NEW f \in Range(buffered'[x])
               PROVE  f \notin Range(webhooks') /\ Untaken(f)' /\ Unposted(f)'
    OBVIOUS
  <2>1. f \notin Range(webhooks) /\ Untaken(f) /\ Unposted(f)
    BY <1>1 DEF BusInvariant, InOnePlace
  <2>2. f \in Events /\ f # e
    <3>1. buffered[x] \in Seq(Events) /\ f \in Range(buffered[x])
      BY <1>1 DEF BusInvariant, TypeOK
    <3>2. f \in Events
      BY <3>1 DEF Range
    <3> QED BY <2>1, <3>2 DEF Untaken
  <2>3. Untaken(f)'
    BY <1>1, <2>1 DEF Untaken
  <2> QED BY <1>1, <1>5, <2>1, <2>2, <2>3
<1>7. \A f \in Range(webhooks') : f \in logged' /\ Untaken(f)' /\ Unposted(f)'
  <2> SUFFICES ASSUME NEW f \in Range(webhooks')
               PROVE  f \in logged' /\ Untaken(f)' /\ Unposted(f)'
    OBVIOUS
  <2>1. f \in logged /\ Untaken(f) /\ Unposted(f)
    BY <1>1 DEF BusInvariant, InOnePlace
  <2>2. f \in Events /\ f # e
    BY <2>1 DEF BusInvariant, TypeOK, Untaken
  <2>3. Untaken(f)'
    BY <1>1, <2>1 DEF Untaken
  <2> QED BY <1>1, <1>5, <2>1, <2>2, <2>3
<1>8. InOnePlace'
  BY <1>1, <1>6, <1>7 DEF BusInvariant, InOnePlace
<1>9. WorkersInOrder'
  <2> SUFFICES ASSUME NEW v \in Workers
               PROVE  /\ worker'[v] = "loading"
                           => event'[v] \in logged' /\ Unposted(event[v])'
                      /\ worker'[v] = "posting"
                           => /\ event'[v] \in logged'
                              /\ todo'[v] \subseteq Subscribed[event'[v]]
                              /\ \A k \in todo'[v] : posted'[<<event'[v], k>>] = 0
    BY DEF WorkersInOrder
  <2>1. CASE v # w
    <3>1. worker'[v] = worker[v] /\ todo'[v] = todo[v] /\ event'[v] = event[v]
      BY <1>1, <1>2, <2>1
    <3>2. event[v] # e
      BY <1>3, <2>1 DEF BusInvariant, InOnePlace
    <3>3. worker[v] \in {"loading", "posting"} => event[v] \in logged /\ event[v] \in Events
      BY DEF BusInvariant, TypeOK, WorkersInOrder
    <3>4. CASE worker[v] = "loading"
      BY <1>1, <1>5, <3>1, <3>2, <3>3, <3>4 DEF BusInvariant, WorkersInOrder
    <3>5. CASE worker[v] = "posting"
      <4>1. /\ todo[v] \subseteq Subscribed[event[v]]
            /\ \A k \in todo[v] : k \in Hooks /\ posted[<<event[v], k>>] = 0
        BY <1>1, <3>5 DEF BusInvariant, WorkersInOrder
      <4> QED BY <1>1, <1>4, <3>1, <3>2, <3>3, <3>5, <4>1
    <3> QED BY <3>1, <3>4, <3>5
  <2>2. CASE v = w
    <3>1. /\ todo[w] \subseteq Subscribed[e]
          /\ \A k \in todo[w] : k \in Hooks /\ posted[<<e, k>>] = 0
      BY <1>1 DEF BusInvariant, WorkersInOrder
    <3>2. todo'[w] = todo[w] \ {h} /\ worker'[w] # "loading" /\ event'[w] = e
      BY <1>1, <1>2
    <3>3. \A k \in todo'[w] : posted'[<<e, k>>] = 0
      BY <1>3, <1>4, <3>1, <3>2
    <3> QED BY <1>1, <1>3, <2>2, <3>1, <3>2, <3>3
  <2> QED BY <2>1, <2>2
<1> QED BY <1>1, <1>8, <1>9 DEF sessionVars

(***************************************************************************)
(* The results.                                                            *)
(***************************************************************************)

LEMMA SessionKeeps ==
  ASSUME BusInvariant, NEW x \in Sessions, Session(x)
  PROVE  BusInvariant'
<1>1. TypeOK'
  BY SessionTypes
<1>2. /\ SessionsInOrder' /\ InOnePlace' /\ WorkersInOrder'
      /\ (logged \subseteq Promised)'
  BY CommitKeeps, LogKeeps, SendKeeps DEF Session
<1> QED BY <1>1, <1>2 DEF BusInvariant

LEMMA WorkerKeeps ==
  ASSUME BusInvariant, NEW w \in Workers, Worker(w)
  PROVE  BusInvariant' /\ UNCHANGED sessionVars
<1>1. TypeOK'
  BY WorkerTypes
<1>2. InOnePlace' /\ WorkersInOrder' /\ UNCHANGED sessionVars
  BY ReceiveKeeps, LoadKeeps, PostKeeps DEF Worker
<1>3. SessionsInOrder' /\ (logged \subseteq Promised)'
  BY <1>2, SessionsUntouched
<1> QED BY <1>1, <1>2, <1>3 DEF BusInvariant

LEMMA BusStep ==
  ASSUME BusInvariant, [Next]_vars
  PROVE  BusInvariant'
<1>1. CASE \E x \in Sessions : Session(x)
  BY <1>1, SessionKeeps
<1>2. CASE \E w \in Workers : Worker(w)
  BY <1>2, WorkerKeeps
<1>3. CASE Signal \/ Close \/ Exit
  BY <1>3, MainTypes, MainKeeps, SessionsUntouched DEF BusInvariant
<1>4. CASE UNCHANGED vars
  BY <1>4, EmittedStays
  DEF vars, sessionVars, workerVars, BusInvariant, TypeOK, SessionsInOrder, InOnePlace,
      WorkersInOrder, Untaken, Unposted, Promised, Committed
<1> QED BY <1>1, <1>2, <1>3, <1>4 DEF Next

LEMMA BusIsInvariant == Spec => []BusInvariant
<1> QED BY BusInit, BusStep, PTL DEF Spec

\* The variables keep their types and the channel its capacity, whatever the
\* transactions emit, the webhooks subscribe to and the queries that fail
\* (Enqueue, worker, Shutdown).
THEOREM BusTypes == Spec => []TypeOK
<1>1. BusInvariant => TypeOK
  BY DEF BusInvariant
<1> QED BY <1>1, BusIsInvariant, PTL

(***************************************************************************)
(* The refinement: a commit promises, the insert logs, the request posts;  *)
(* every other step changes nothing that EventDelivery speaks of.          *)
(***************************************************************************)

LEMMA PromisesInit == Init => Delivery!Init
<1> SUFFICES ASSUME Init PROVE Delivery!Init
  OBVIOUS
<1>1. \A e : e \notin Promised
  BY DEF Init, Committed, Promised
<1> QED BY <1>1 DEF Init, Delivery!Init

LEMMA CommitPromises ==
  ASSUME BusInvariant, NEW x \in Sessions, Commit(x)
  PROVE  Delivery!Promise
<1> DEFINE E == Range(Emitted[x])
<1>1. UNCHANGED <<process, logged, posted>> /\ process \in Processes
  BY DEF Commit, Open, workerVars, BusInvariant, TypeOK
<1>2. \A y \in Sessions : Committed(y)' <=> Committed(y) \/ y = x
  BY DEF Commit, Open, Committed, BusInvariant, TypeOK
<1>3. ~Committed(x)
  BY DEF Commit, Open, Committed
<1>4. E \in SUBSET (Events \ Promised)
  <2>1. E \subseteq Events
    BY <1>1, EmittedFacts DEF Range
  <2>2. ASSUME NEW e \in E, e \in Promised PROVE FALSE
    <3>1. PICK y \in Sessions : Committed(y) /\ e \in Range(Emitted[y])
      BY <1>1, <2>2, PromisedFacts
    <3>2. x = y
      BY <1>1, <2>2, <3>1, SessionsDisjoint
    <3> QED BY <1>3, <3>1, <3>2
  <2> QED BY <2>1, <2>2
<1>5. Promised' = Promised \cup E
  BY <1>1, <1>2, EmittedStays DEF Promised
<1> QED BY <1>1, <1>4, <1>5 DEF Delivery!Promise

LEMMA SameCommits ==
  ASSUME UNCHANGED process, \A y \in Sessions : Committed(y)' <=> Committed(y)
  PROVE  Promised' = Promised
BY EmittedStays DEF Promised

LEMMA LogLogs ==
  ASSUME BusInvariant, NEW x \in Sessions, Log(x) \/ LogFails(x)
  PROVE  [Delivery!Log]_Delivery!vars
<1> DEFINE e == Head(buffered[x])
<1>1. UNCHANGED <<process, posted>> /\ buffered[x] # <<>> /\ pc[x] = "logging"
  BY DEF Log, LogFails, workerVars
<1>2. \A y \in Sessions : Committed(y)' <=> Committed(y)
  BY DEF Log, LogFails, Committed, BusInvariant, TypeOK
<1>3. Promised' = Promised
  BY <1>1, <1>2, SameCommits
<1>4. logged' = logged \/ logged' = logged \cup {e}
  BY DEF Log, LogFails
<1>5. e \in Promised
  <2>1. e \in Range(buffered[x])
    BY <1>1, TailFacts DEF BusInvariant, TypeOK
  <2>2. e \in Range(Emitted[x])
    BY <2>1 DEF BusInvariant, SessionsInOrder
  <2> QED BY <1>1, <2>2, PromisedFacts DEF Committed, BusInvariant, TypeOK
<1> QED BY <1>1, <1>3, <1>4, <1>5 DEF Delivery!Log, Delivery!vars

LEMMA PostPosts ==
  ASSUME BusInvariant, NEW w \in Workers, Post(w)
  PROVE  [Delivery!Post]_Delivery!vars
<1>1. UNCHANGED <<process, pc, logged>> /\ worker[w] = "posting"
  BY DEF Post, sessionVars
<1>2. Promised' = Promised
  BY <1>1, SameCommits DEF Committed
<1>3. PICK h \in todo[w] :
        posted' = IF cancelled THEN posted
                  ELSE [posted EXCEPT ![<<event[w], h>>] = @ + 1]
  BY DEF Post
<1>4. /\ event[w] \in logged /\ h \in Subscribed[event[w]]
      /\ posted[<<event[w], h>>] = 0
  BY <1>1, <1>3 DEF BusInvariant, WorkersInOrder
<1>5. CASE cancelled
  BY <1>1, <1>2, <1>3, <1>5 DEF Delivery!vars
<1>6. CASE ~cancelled
  <2>1. posted' = [posted EXCEPT ![<<event[w], h>>] = @ + 1]
    BY <1>3, <1>6
  <2>2. posted' = [posted EXCEPT ![<<event[w], h>>] = 1]
    BY <2>1, <1>4
  <2> QED BY <1>1, <1>2, <1>4, <2>2 DEF Delivery!Post
<1> QED BY <1>5, <1>6

LEMMA OthersStutter ==
  ASSUME BusInvariant,
         \/ \E x \in Sessions : Rollback(x) \/ Send(x) \/ Panic(x)
         \/ \E w \in Workers : Receive(w) \/ Leave(w) \/ Load(w) \/ Fail(w)
         \/ Signal \/ Close \/ Exit \/ UNCHANGED vars
  PROVE  UNCHANGED Delivery!vars
<1>1. UNCHANGED <<process, logged, posted>>
  BY DEF Rollback, Open, Send, Panic, Receive, Leave, Load, Fail, Signal, Close, Exit, vars,
         sessionVars, workerVars
<1>2. \A y \in Sessions : Committed(y)' <=> Committed(y)
  <2>1. CASE \E x \in Sessions : Rollback(x) \/ Send(x) \/ Panic(x)
    BY <2>1 DEF Rollback, Open, Send, Panic, Committed, BusInvariant, TypeOK
  <2>2. CASE UNCHANGED pc
    BY <2>2 DEF Committed
  <2>3. \/ \E x \in Sessions : Rollback(x) \/ Send(x) \/ Panic(x)
        \/ UNCHANGED pc
    BY DEF Receive, Leave, Load, Fail, Signal, Close, Exit, vars, sessionVars
  <2> QED BY <2>1, <2>2, <2>3
<1>3. Promised' = Promised
  BY <1>1, <1>2, SameCommits
<1> QED BY <1>1, <1>3 DEF Delivery!vars

LEMMA PromisesStep ==
  ASSUME BusInvariant, [Next]_vars
  PROVE  [Delivery!Next]_Delivery!vars
<1>1. CASE \E x \in Sessions : Commit(x)
  BY <1>1, CommitPromises DEF Delivery!Next
<1>2. CASE \E x \in Sessions : Log(x) \/ LogFails(x)
  BY <1>2, LogLogs DEF Delivery!Next
<1>3. CASE \E w \in Workers : Post(w)
  BY <1>3, PostPosts DEF Delivery!Next
<1>4. CASE \/ \E x \in Sessions : Rollback(x) \/ Send(x) \/ Panic(x)
           \/ \E w \in Workers : Receive(w) \/ Leave(w) \/ Load(w) \/ Fail(w)
           \/ Signal \/ Close \/ Exit \/ UNCHANGED vars
  BY <1>4, OthersStutter
<1> QED BY <1>1, <1>2, <1>3, <1>4 DEF Next, Session, Worker

\* The bus implements EventDelivery: whatever sessions, workers and signals do,
\* the log has events of committed transactions only, and a webhook hears, at
\* most once, of a logged event it subscribed to (Commit, Enqueue, worker).
THEOREM BusKeepsPromises == Spec => PromisesKept
<1>1. BusInvariant /\ [Next]_vars => [Delivery!Next]_Delivery!vars
  BY PromisesStep
<1>2. Init /\ []BusInvariant /\ [][Next]_vars => Delivery!Spec
  BY <1>1, PromisesInit, PTL DEF Delivery!Spec
<1> QED BY <1>2, BusIsInvariant, PTL DEF Spec, PromisesKept

(***************************************************************************)
(* Draining.  As long as no signal comes, an event of a committed          *)
(* transaction is on its way or heard of, unless its own queries fail; the *)
(* sessions are done when the channel is closed; and a worker is gone      *)
(* because the channel is drained, or because of a failure of its own.     *)
(***************************************************************************)

\* More workers than events whose queries fail.
FewFailures ==
  /\ Faulty \subseteq Events /\ IsFiniteSet(Faulty) /\ IsFiniteSet(Workers)
  /\ Cardinality(Faulty) < Cardinality(Workers)

\* Worker w has e, and posted it to the webhooks that are not left to do.
Has(w, e) ==
  /\ event[w] = e
  /\ \/ worker[w] = "loading"
     \/ /\ worker[w] = "posting"
        /\ \A h \in Subscribed[e] \ todo[w] : posted[<<e, h>>] = 1

OnItsWay(x, e) ==
  \/ e \in Range(buffered[x])
  \/ e \in Range(webhooks)
  \/ \E w \in Workers : Has(w, e)
  \/ Heard(e)

NothingIsLost ==
  \A x \in Sessions : Committed(x) =>
    \A e \in Range(Emitted[x]) \ Faulty : OnItsWay(x, e)

SessionsEnd ==
  \A x \in Sessions :
    /\ pc[x] # "panicked"
    /\ Closed => Finished(x) \/ Unread(x)

WorkersEnd ==
  /\ \A w \in Workers : worker[w] = "gone"
       => (Closed /\ webhooks = <<>>) \/ event[w] \in Faulty
  /\ main = "exited" => \A w \in Workers : worker[w] = "gone"

Draining == NothingIsLost /\ SessionsEnd /\ WorkersEnd

DrainInvariant == ~Daemon /\ ~cancelled => Draining

LEMMA DrainInit == Init => DrainInvariant
BY DEF Init, DrainInvariant, Draining, NothingIsLost, Committed, SessionsEnd, WorkersEnd,
       Closed

\* What an event needs to stay on its way through a step of session x.
LEMMA DrainOfSession ==
  ASSUME BusInvariant, Draining, NEW x \in Sessions,
         UNCHANGED <<process, worker, event, todo, posted>>,
         Range(webhooks) \subseteq Range(webhooks'),
         \A y \in Sessions : y # x => pc'[y] = pc[y] /\ buffered'[y] = buffered[y],
         \A e \in Range(buffered[x]) \ Faulty :
           e \in Range(buffered'[x]) \/ e \in Range(webhooks') \/ Heard(e),
         Committed(x)' => \/ Committed(x)
                         \/ Range(buffered[x]) = Range(Emitted[x])
  PROVE  NothingIsLost'
<1> SUFFICES ASSUME NEW y \in Sessions, Committed(y)',
                    NEW e \in Range(Emitted[y]) \ Faulty
             PROVE  OnItsWay(y, e)'
  BY EmittedStays DEF NothingIsLost
<1>1. Heard(e) => Heard(e)'
  BY DEF Heard
<1>2. ASSUME NEW w \in Workers, Has(w, e) PROVE Has(w, e)'
  BY <1>2 DEF Has
<1>3. CASE y = x /\ Range(buffered[x]) = Range(Emitted[x])
  BY <1>1, <1>3 DEF OnItsWay
<1>4. CASE OnItsWay(y, e)
  <2>1. CASE e \in Range(buffered[y])
    <3>1. CASE y = x
      BY <1>1, <2>1, <3>1 DEF OnItsWay
    <3>2. CASE y # x
      BY <2>1, <3>2 DEF OnItsWay
    <3> QED BY <3>1, <3>2
  <2>2. CASE e \in Range(webhooks)
    BY <2>2 DEF OnItsWay
  <2>3. CASE \E w \in Workers : Has(w, e)
    BY <1>2, <2>3 DEF OnItsWay
  <2>4. CASE Heard(e)
    BY <1>1, <2>4 DEF OnItsWay
  <2> QED BY <1>4, <2>1, <2>2, <2>3, <2>4 DEF OnItsWay
<1>5. Committed(y) => OnItsWay(y, e)
  BY DEF Draining, NothingIsLost
<1>6. y # x => Committed(y)
  BY DEF Committed
<1> QED BY <1>3, <1>4, <1>5, <1>6

LEMMA SessionDrains ==
  ASSUME BusInvariant, Draining, ~cancelled, NEW x \in Sessions, Session(x)
  PROVE  Draining'
<1>1. /\ pc \in [Sessions -> {"open", "logging", "sending", "refused", "failed", "panicked"}]
      /\ buffered \in [Sessions -> Seq(Events)] /\ webhooks \in Seq(Events)
      /\ IsInjective(buffered[x])
      /\ pc[x] = "open" => buffered[x] = Emitted[x]
      /\ pc[x] = "sending" => buffered[x] # <<>>
  BY DEF BusInvariant, TypeOK, SessionsInOrder
<1>2. UNCHANGED <<process, worker, event, todo, posted, main, cancelled>>
  BY DEF Session, Open, Commit, Rollback, Log, LogFails, Send, Panic, workerVars
<1>3. /\ \A y \in Sessions : y # x => pc'[y] = pc[y] /\ buffered'[y] = buffered[y]
      /\ \/ /\ pc[x] = "open" /\ pc'[x] = "logging" /\ buffered'[x] = buffered[x]
            /\ webhooks' = webhooks
         \/ /\ pc[x] = "open" /\ pc'[x] \in {"refused", "failed"}
            /\ webhooks' = webhooks
         \/ /\ pc[x] = "logging" /\ buffered[x] # <<>> /\ webhooks' = webhooks
            /\ \/ pc'[x] = "sending" /\ buffered'[x] = buffered[x]
               \/ /\ pc'[x] = "logging" /\ buffered'[x] = Tail(buffered[x])
                  /\ Head(buffered[x]) \notin Watched \/ Head(buffered[x]) \in Faulty
         \/ /\ pc[x] = "sending" /\ pc'[x] = "logging" /\ ~Closed
            /\ buffered'[x] = Tail(buffered[x])
            /\ webhooks' = Append(webhooks, Head(buffered[x]))
  <2>1. CASE Commit(x)
    BY <1>1, <2>1 DEF Commit, Open
  <2>2. CASE Rollback(x)
    BY <1>1, <2>2 DEF Rollback, Open
  <2>3. CASE Log(x)
    BY <1>1, <2>3 DEF Log
  <2>4. CASE LogFails(x)
    BY <1>1, <2>4 DEF LogFails
  <2>5. CASE Send(x)
    BY <1>1, <2>5 DEF Send
  <2>6. ~Panic(x)
    BY DEF Panic, Open, Draining, SessionsEnd, Finished, Unread, BusInvariant, SessionsInOrder
  <2> QED BY <2>1, <2>2, <2>3, <2>4, <2>5, <2>6 DEF Session
<1>4. buffered[x] # <<>> =>
        /\ Head(buffered[x]) \in Events
        /\ Range(buffered[x]) = Range(Tail(buffered[x])) \cup {Head(buffered[x])}
  BY <1>1, TailFacts
<1>5. buffered[x] # <<>> =>
        Range(Append(webhooks, Head(buffered[x]))) = Range(webhooks) \cup {Head(buffered[x])}
  BY <1>1, <1>4, AppendFacts
<1>6. \A e \in Events \ Watched : Heard(e)
  BY SubscribedAssumption DEF Heard
<1>7. NothingIsLost'
  <2>1. CASE pc'[x] \in {"refused", "failed"}
    <3> SUFFICES ASSUME NEW y \in Sessions, Committed(y)',
                        NEW e \in Range(Emitted[y]) \ Faulty
                 PROVE  OnItsWay(y, e)'
      BY <1>2, EmittedStays DEF NothingIsLost
    <3>1. y # x /\ Committed(y) /\ buffered'[y] = buffered[y] /\ webhooks' = webhooks
      BY <1>3, <2>1 DEF Committed
    <3>2. OnItsWay(y, e)
      BY <3>1 DEF Draining, NothingIsLost
    <3> QED BY <1>2, <3>1, <3>2 DEF OnItsWay, Has, Heard
  <2>2. CASE pc'[x] \notin {"refused", "failed"}
    <3>1. Range(webhooks) \subseteq Range(webhooks')
      BY <1>1, <1>3, <1>5
    <3>2. \A e \in Range(buffered[x]) \ Faulty :
            e \in Range(buffered'[x]) \/ e \in Range(webhooks') \/ Heard(e)
      BY <1>1, <1>3, <1>4, <1>5, <1>6, <2>2
    <3>3. Committed(x) \/ Range(buffered[x]) = Range(Emitted[x])
      BY <1>1, <1>3 DEF Committed
    <3> QED BY <1>2, <1>3, <3>1, <3>2, <3>3, DrainOfSession
  <2> QED BY <2>1, <2>2
<1>8. SessionsEnd'
  <2>1. ~Closed
    <3> SUFFICES ASSUME Closed PROVE FALSE
      OBVIOUS
    <3>1. Finished(x) \/ Unread(x)
      BY DEF Draining, SessionsEnd
    <3>2. pc[x] # "panicked"
      BY DEF Draining, SessionsEnd
    <3>3. ~Finished(x)
      BY <1>3, <3>2 DEF Finished
    <3>4. ~Unread(x)
      BY <1>3, <3>1, <3>3 DEF Unread, Session, Commit, Rollback, Log, LogFails, Send, Panic,
                              Open
    <3> QED BY <3>1, <3>3, <3>4
  <2>2. ~Closed'
    BY <1>2, <2>1 DEF Closed
  <2>3. \A y \in Sessions : pc'[y] # "panicked"
    BY <1>3 DEF Draining, SessionsEnd
  <2> QED BY <2>2, <2>3 DEF SessionsEnd
<1>9. WorkersEnd'
  BY <1>2, <1>3 DEF Draining, WorkersEnd, Closed
<1> QED BY <1>7, <1>8, <1>9 DEF Draining

\* What an event needs to stay on its way through a step of worker w.
LEMMA DrainOfWorker ==
  ASSUME BusInvariant, Draining, UNCHANGED sessionVars,
         \A x \in Sessions : \A e \in Range(Emitted[x]) \ Faulty :
           OnItsWay(x, e) => OnItsWay(x, e)'
  PROVE  NothingIsLost'
<1> SUFFICES ASSUME NEW x \in Sessions, Committed(x)',
                    NEW e \in Range(Emitted[x]) \ Faulty
             PROVE  OnItsWay(x, e)'
  BY EmittedStays DEF NothingIsLost, sessionVars
<1>1. Committed(x)
  BY DEF Committed, sessionVars
<1>2. OnItsWay(x, e)
  BY <1>1 DEF Draining, NothingIsLost
<1> QED BY <1>2

LEMMA ReceiveDrains ==
  ASSUME BusInvariant, Draining, NEW w \in Workers, Receive(w)
  PROVE  NothingIsLost'
<1>1. /\ UNCHANGED <<pc, buffered, logged, todo, posted>> /\ UNCHANGED sessionVars
      /\ webhooks \in Seq(Events) /\ webhooks # <<>> /\ webhooks' = Tail(webhooks)
      /\ worker[w] = "idle"
      /\ \A v \in Workers : v # w => event'[v] = event[v] /\ worker'[v] = worker[v]
      /\ event'[w] = Head(webhooks) /\ worker'[w] = "loading"
  BY DEF Receive, BusInvariant, TypeOK, sessionVars
<1>2. Range(webhooks) = Range(webhooks') \cup {Head(webhooks)}
  BY <1>1, TailFacts
<1>3. ASSUME NEW x \in Sessions, NEW e, OnItsWay(x, e) PROVE OnItsWay(x, e)'
  <2>1. CASE e \in Range(buffered[x]) \/ Heard(e)
    BY <1>1, <2>1 DEF OnItsWay, Heard
  <2>2. CASE e \in Range(webhooks)
    <3>1. CASE e = Head(webhooks)
      BY <1>1, <3>1 DEF OnItsWay, Has
    <3>2. CASE e # Head(webhooks)
      BY <1>2, <2>2, <3>2 DEF OnItsWay
    <3> QED BY <3>1, <3>2
  <2>3. ASSUME NEW v \in Workers, Has(v, e) PROVE OnItsWay(x, e)'
    <3>1. v # w
      BY <1>1, <2>3 DEF Has
    <3>2. Has(v, e)'
      BY <1>1, <2>3, <3>1 DEF Has
    <3> QED BY <3>2 DEF OnItsWay
  <2> QED BY <1>3, <2>1, <2>2, <2>3 DEF OnItsWay
<1> QED BY <1>1, <1>3, DrainOfWorker

LEMMA LoadDrains ==
  ASSUME BusInvariant, Draining, ~cancelled, NEW w \in Workers,
         Leave(w) \/ Load(w) \/ Fail(w)
  PROVE  NothingIsLost'
<1>1. /\ UNCHANGED <<sessionVars, webhooks, event, posted>> /\ UNCHANGED buffered
      /\ worker \in [Workers -> {"idle", "loading", "posting", "gone"}]
      /\ todo \in [Workers -> SUBSET Hooks]
  BY DEF Leave, Load, Fail, BusInvariant, TypeOK, sessionVars
<1>2. /\ \A v \in Workers : v # w => worker'[v] = worker[v] /\ todo'[v] = todo[v]
      /\ \/ worker[w] = "idle"
         \/ worker[w] = "loading" /\ event[w] \in Faulty
         \/ worker[w] = "loading" /\ Subscribed[event[w]] = {}
         \/ worker'[w] = "posting" /\ todo'[w] = Subscribed[event[w]]
  BY <1>1 DEF Leave, Load, Fail
<1>3. ASSUME NEW x \in Sessions, NEW e \in Range(Emitted[x]) \ Faulty, OnItsWay(x, e)
      PROVE  OnItsWay(x, e)'
  <2>1. CASE e \in Range(buffered[x]) \/ e \in Range(webhooks) \/ Heard(e)
    BY <1>1, <2>1 DEF OnItsWay, Heard
  <2>2. ASSUME NEW v \in Workers, Has(v, e) PROVE OnItsWay(x, e)'
    <3>1. CASE v # w
      <4>1. Has(v, e)'
        BY <1>1, <1>2, <2>2, <3>1 DEF Has
      <4> QED BY <4>1 DEF OnItsWay
    <3>2. CASE v = w
      <4>1. event[w] = e /\ worker[w] # "idle" /\ e \notin Faulty
        BY <2>2, <3>2 DEF Has
      <4>2. CASE Subscribed[e] = {}
        BY <4>2 DEF OnItsWay, Heard
      <4>3. CASE worker'[w] = "posting" /\ todo'[w] = Subscribed[e]
        <5>1. Has(w, e)'
          BY <1>1, <4>1, <4>3 DEF Has
        <5> QED BY <5>1 DEF OnItsWay
      <4> QED BY <1>2, <4>1, <4>2, <4>3
    <3> QED BY <3>1, <3>2
  <2> QED BY <1>3, <2>1, <2>2 DEF OnItsWay
<1> QED BY <1>1, <1>3, DrainOfWorker

LEMMA PostDrains ==
  ASSUME BusInvariant, Draining, ~cancelled, NEW w \in Workers, Post(w)
  PROVE  NothingIsLost'
<1> DEFINE d == event[w]
<1>1. /\ UNCHANGED <<pc, buffered, logged, webhooks, event>> /\ UNCHANGED sessionVars
      /\ worker \in [Workers -> {"idle", "loading", "posting", "gone"}]
      /\ todo \in [Workers -> SUBSET Hooks]
      /\ posted \in [Events \X Hooks -> Nat]
      /\ logged \subseteq Events /\ worker[w] = "posting"
  BY DEF Post, BusInvariant, TypeOK, sessionVars
<1>2. PICK h \in todo[w] :
        /\ todo' = [todo EXCEPT ![w] = @ \ {h}]
        /\ posted' = [posted EXCEPT ![<<event[w], h>>] = @ + 1]
        /\ worker' = [worker EXCEPT ![w] = IF todo[w] = {h} THEN "idle" ELSE @]
  BY DEF Post
<1>3. /\ d \in Events /\ todo[w] \subseteq Subscribed[d] /\ h \in Hooks
      /\ posted[<<d, h>>] = 0
  BY <1>1, <1>2 DEF BusInvariant, WorkersInOrder
<1>4. /\ posted'[<<d, h>>] = 1
      /\ \A f \in Events : \A k \in Hooks :
           posted[<<f, k>>] = 1 => posted'[<<f, k>>] = 1
  BY <1>1, <1>2, <1>3
<1>5. ASSUME NEW x \in Sessions, NEW e \in Range(Emitted[x]) \ Faulty, OnItsWay(x, e)
      PROVE  OnItsWay(x, e)'
  <2>1. e \in Events /\ Subscribed[e] \subseteq Hooks
    BY EmittedFacts, SubscribedAssumption DEF Range, BusInvariant, TypeOK
  <2>2. CASE e \in Range(buffered[x]) \/ e \in Range(webhooks)
    BY <1>1, <2>2 DEF OnItsWay
  <2>3. CASE Heard(e)
    BY <1>4, <2>1, <2>3 DEF OnItsWay, Heard
  <2>4. ASSUME NEW v \in Workers, Has(v, e) PROVE OnItsWay(x, e)'
    <3>1. CASE v # w
      <4>1. worker'[v] = worker[v] /\ todo'[v] = todo[v] /\ event'[v] = event[v]
        BY <1>1, <1>2, <3>1
      <4>2. Has(v, e)'
        BY <1>4, <2>1, <2>4, <4>1 DEF Has
      <4> QED BY <4>2 DEF OnItsWay
    <3>2. CASE v = w
      <4>1. e = d /\ \A k \in Subscribed[e] \ todo[w] : posted[<<e, k>>] = 1
        BY <1>1, <2>4, <3>2 DEF Has
      <4>2. todo'[w] = todo[w] \ {h} /\ event'[w] = e
        BY <1>1, <1>2, <4>1
      <4>3. \A k \in Subscribed[e] \ todo'[w] : posted'[<<e, k>>] = 1
        BY <1>4, <2>1, <4>1, <4>2
      <4>4. CASE todo[w] = {h}
        BY <4>2, <4>3, <4>4 DEF OnItsWay, Heard
      <4>5. CASE todo[w] # {h}
        <5>1. worker'[w] = "posting"
          BY <1>1, <1>2, <4>5
        <5>2. Has(w, e)'
          BY <4>2, <4>3, <5>1 DEF Has
        <5> QED BY <5>2 DEF OnItsWay
      <4> QED BY <4>4, <4>5
    <3> QED BY <3>1, <3>2
  <2> QED BY <1>5, <2>2, <2>3, <2>4 DEF OnItsWay
<1> QED BY <1>1, <1>5, DrainOfWorker

LEMMA WorkerDrains ==
  ASSUME BusInvariant, Draining, ~cancelled, NEW w \in Workers, Worker(w)
  PROVE  Draining'
<1>1. NothingIsLost'
  BY ReceiveDrains, LoadDrains, PostDrains DEF Worker
<1>2. UNCHANGED <<process, pc, buffered, main>> /\ Running
  BY DEF Worker, Receive, Leave, Load, Fail, Post, sessionVars
<1>3. SessionsEnd'
  BY <1>2 DEF Draining, SessionsEnd, Closed, Finished, Unread, Before
<1>4. /\ worker \in [Workers -> {"idle", "loading", "posting", "gone"}]
      /\ event \in [Workers -> Events \cup {NoEvent}]
  BY DEF BusInvariant, TypeOK
<1>5. WorkersEnd'
  <2> SUFFICES ASSUME NEW v \in Workers, worker'[v] = "gone"
               PROVE  (Closed /\ webhooks' = <<>>) \/ event'[v] \in Faulty
    BY <1>2 DEF WorkersEnd, Closed, Running
  <2>1. webhooks = <<>> => webhooks' = <<>>
    BY DEF Worker, Receive, Leave, Load, Fail, Post
  <2>2. CASE worker[v] = "gone"
    <3>1. event'[v] = event[v]
      BY <1>4, <2>2 DEF Worker, Receive, Leave, Load, Fail, Post
    <3> QED BY <2>1, <2>2, <3>1 DEF Draining, WorkersEnd
  <2>3. CASE worker[v] # "gone"
    <3>1. CASE Leave(w)
      BY <1>4, <2>3, <3>1 DEF Leave
    <3>2. CASE Fail(w)
      BY <1>4, <2>3, <3>2 DEF Fail
    <3>3. CASE Receive(w) \/ Load(w) \/ Post(w)
      BY <1>4, <2>3, <3>3 DEF Receive, Load, Post
    <3> QED BY <3>1, <3>2, <3>3 DEF Worker
  <2> QED BY <2>2, <2>3
<1> QED BY <1>1, <1>3, <1>5 DEF Draining

LEMMA MainDrains ==
  ASSUME BusInvariant, Draining, ~Daemon, ~cancelled, Close \/ Exit \/ UNCHANGED vars
  PROVE  Draining'
<1>1. UNCHANGED <<process, pc, buffered, webhooks, worker, event, todo, posted>>
  BY DEF Close, Exit, vars, sessionVars, workerVars
<1>2. NothingIsLost'
  BY <1>1, EmittedStays DEF Draining, NothingIsLost, Committed, OnItsWay, Has, Heard
<1>3. CASE Close
  <2>1. \A x \in Sessions : Finished(x) \/ Unread(x)
    BY <1>3 DEF Close, Daemon
  <2>2. SessionsEnd'
    BY <1>1, <2>1 DEF Draining, SessionsEnd, Finished, Unread, Before
  <2>3. main = "serving" /\ main' = "waiting"
    BY <1>3 DEF Close
  <2>4. WorkersEnd'
    BY <1>1, <2>3 DEF Draining, WorkersEnd, Closed
  <2> QED BY <1>2, <2>2, <2>4 DEF Draining
<1>4. CASE Exit
  BY <1>1, <1>2, <1>4 DEF Exit, Draining, SessionsEnd, WorkersEnd, Closed, Finished,
                          Unread, Before
<1>5. CASE UNCHANGED vars
  BY <1>1, <1>2, <1>5 DEF vars, Draining, SessionsEnd, WorkersEnd, Closed, Finished,
                          Unread, Before
<1> QED BY <1>3, <1>4, <1>5

LEMMA DrainStep ==
  ASSUME BusInvariant, DrainInvariant, [Next]_vars
  PROVE  DrainInvariant'
<1> SUFFICES ASSUME ~Daemon', ~cancelled' PROVE Draining'
  BY DEF DrainInvariant
<1>1. ~Daemon /\ ~cancelled
  BY DEF Daemon, sessionVars, Next, Session, Open, Commit, Rollback, Log, LogFails, Send, Panic, Worker, Receive,
         Leave, Load, Fail, Post, Signal, Close, Exit, vars
<1>2. Draining
  BY <1>1 DEF DrainInvariant
<1>3. ~Signal
  BY DEF Signal
<1> QED BY <1>1, <1>2, <1>3, SessionDrains, WorkerDrains, MainDrains DEF Next

LEMMA AllDrained ==
  ASSUME BusInvariant, DrainInvariant, FewFailures
  PROVE  ReaderDrains
<1> SUFFICES ASSUME ~Daemon, main = "exited", ~cancelled, NEW e \in Promised \ Faulty
             PROVE  Heard(e)
  BY DEF ReaderDrains
<1>1. NothingIsLost /\ SessionsEnd /\ WorkersEnd
  BY DEF DrainInvariant, Draining
<1>2. \A w \in Workers : worker[w] = "gone"
  BY <1>1 DEF WorkersEnd
<1>3. PICK w \in Workers : event[w] \notin Faulty
  <2> SUFFICES ASSUME \A w \in Workers : event[w] \in Faulty PROVE FALSE
    OBVIOUS
  <2> DEFINE f == [w \in Workers |-> event[w]]
  <2>1. f \in [Workers -> Faulty]
    OBVIOUS
  <2>2. \E u, v \in Workers : u # v /\ f[u] = f[v]
    <3> HIDE DEF f
    <3>1. /\ IsFiniteSet(Workers) /\ IsFiniteSet(Faulty)
          /\ Cardinality(Faulty) < Cardinality(Workers)
      BY DEF FewFailures
    <3> QED BY <2>1, <3>1, FS_PigeonHole, Zenon
  <2>3. NoEvent \notin Faulty
    BY NoEventAssumption DEF FewFailures
  <2> QED BY <2>2, <2>3 DEF BusInvariant, InOnePlace
<1>4. webhooks = <<>> /\ Closed
  BY <1>1, <1>2, <1>3 DEF WorkersEnd
<1>5. PICK x \in Sessions : Committed(x) /\ e \in Range(Emitted[x])
  BY PromisedFacts DEF BusInvariant, TypeOK
<1>6. buffered[x] = <<>>
  BY <1>1, <1>4, <1>5 DEF SessionsEnd, Committed, Finished, Unread
<1>7. Range(<<>>) = {}
  BY DEF Range
<1>8. OnItsWay(x, e)
  BY <1>1, <1>5 DEF NothingIsLost
<1>9. \A v \in Workers : ~Has(v, e)
  BY <1>2 DEF Has
<1> QED BY <1>4, <1>6, <1>7, <1>8, <1>9 DEF OnItsWay

\* The reader of an mbox ends only after every event that no failing query
\* keeps from its subscribers has been posted to all of them, if no signal
\* comes and fewer events fail than there are workers: a failure costs the bus
\* the worker it happens in, for good (worker, Shutdown).
THEOREM ReaderDrainsTheChannel ==
  ASSUME FewFailures
  PROVE  Spec => []ReaderDrains
<1>1. Init => DrainInvariant
  BY DrainInit
<1>2. BusInvariant /\ DrainInvariant /\ [Next]_vars => DrainInvariant'
  BY DrainStep
<1>3. BusInvariant /\ DrainInvariant => ReaderDrains
  BY AllDrained
<1> QED BY <1>1, <1>2, <1>3, BusIsInvariant, PTL DEF Spec
=============================================================================
