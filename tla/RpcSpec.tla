------------------------------- MODULE RpcSpec -------------------------------
(***************************************************************************)
(* What a caller of ez.rpc is promised: a call that was started ends at    *)
(* most once, and what it ends with was produced by an execution of that   *)
(* very call on the server, unless the request could not be sent, in which *)
(* case the server does not execute it.                                    *)
(***************************************************************************)
CONSTANTS
  Calls,        (* the invocations                                         *)
  Outcome(_)    (* what an execution of a call gives its caller            *)

VARIABLES
  started,      (* calls the client has made                               *)
  executed,     (* calls the server has answered at least once             *)
  outcome       (* how each call ended, "none" while it has not            *)

specVars == <<started, executed, outcome>>

Init ==
  /\ started = {}
  /\ executed = {}
  /\ outcome = [c \in Calls |-> "none"]

Start(c) ==
  /\ c \notin started
  /\ started' = started \union {c}
  /\ UNCHANGED <<executed, outcome>>

(* The server answers the calls E; it may answer several at once.          *)
Execute(E) ==
  /\ E # {} /\ E \subseteq started \ executed
  /\ \A c \in E : outcome[c] = "none"
  /\ executed' = executed \union E
  /\ UNCHANGED <<started, outcome>>

Return(c) ==
  /\ c \in executed
  /\ outcome[c] = "none"
  /\ outcome' = [outcome EXCEPT ![c] = Outcome(c)]
  /\ UNCHANGED <<started, executed>>

FailToSend(c) ==
  /\ c \in started \ executed
  /\ outcome[c] = "none"
  /\ outcome' = [outcome EXCEPT ![c] = "sendFailed"]
  /\ UNCHANGED <<started, executed>>

Next ==
  \/ \E c \in Calls : Start(c) \/ Return(c) \/ FailToSend(c)
  \/ \E E \in SUBSET Calls : Execute(E)

Spec == Init /\ [][Next]_specVars
=============================================================================
