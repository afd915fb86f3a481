------------------------------ MODULE MCEventBus -----------------------------
(***************************************************************************)
(* Two processes, of which an initial state starts one: two handlers of a  *)
(* server, and the reader of an mbox with two mails.                       *)
(* The channel holds one item instead of 512, so that it is full while     *)
(* there are more; two workers instead of four, of which one event with    *)
(* failing queries may end one.                                            *)
(***************************************************************************)
EXTENDS EventBus, TLC

CONSTANTS s1, s2, e1, e2, e3, e4, e5, h1, h2

MCEvents == {e1, e2, e3, e4, e5}

\* The project of e5 has no active webhook; that of e4 has, for other events.
MCWatched == {e1, e2, e3, e4}

MCSubscribed ==
  (e1 :> {h1, h2}) @@ (e2 :> {h1}) @@ (e3 :> {h2}) @@ (e4 :> {}) @@ (e5 :> {})

Server ==
  [server  |-> TRUE,
   emitted |-> (s1 :> <<e2, e1>>) @@ (s2 :> <<e5, e4, e3>>),
   before  |-> (s1 :> {}) @@ (s2 :> {})]

Mbox ==
  [server  |-> FALSE,
   emitted |-> (s1 :> <<e2, e4>>) @@ (s2 :> <<e5, e1, e3>>),
   before  |-> (s1 :> {}) @@ (s2 :> {s1})]

MCProcesses == {Server, Mbox}
=============================================================================
