---------------------------- MODULE RpcTransport ----------------------------
(***************************************************************************)
(* The transport between a remote service (the client) and a service (the  *)
(* server) of ez.rpc, as the interface rpc/headers/ez/rpc/Transport.hpp    *)
(* declares it: send() is a coroutine that reports success or failure,     *)
(* receive() hands out one arrived message or returns false.  The          *)
(* interface promises neither order nor exactly-once delivery, so the      *)
(* messages in flight are a set: a transport may delay and reorder them,   *)
(* deliver a request several times (MaxCopies) or lose a message (Lossy).  *)
(*                                                                         *)
(* Calls identifies the invocations of remote functions; make_request_id   *)
(* draws a fresh UUID for each, so a call is its own request id.  A        *)
(* message <<c, n>> is the n-th delivered copy of the request of call c,   *)
(* or the reply to that copy.                                              *)
(***************************************************************************)
EXTENDS Naturals

CONSTANTS
  Calls,      (* the invocations of remote functions, by request id        *)
  Kind,       (* what becomes of each call on the server, see Kinds        *)
  MaxCopies,  (* bound: how many copies of one request may be delivered    *)
  Lossy       (* may the transport lose a message?                         *)

(***************************************************************************)
(* "value"     the implementation returns a value the client can parse     *)
(* "badValue"  it returns bytes the client's type does not parse           *)
(* "rpcError"  it throws rpc::Error                                        *)
(* "exception" it throws something else than rpc::Error                    *)
(* "badArgs"   an argument does not parse on the server                    *)
(* "unknown"   no schema of the service has the function                   *)
(***************************************************************************)
Kinds == {"value", "badValue", "rpcError", "exception", "badArgs", "unknown"}

ASSUME TransportAssumption ==
  /\ Kind \in [Calls -> Kinds]
  /\ MaxCopies \in Nat \ {0}
  /\ Lossy \in BOOLEAN

VARIABLES
  toServer,   (* requests in flight                                        *)
  toClient    (* replies in flight                                         *)

Messages == Calls \X (1..MaxCopies)

TransportTypeOK ==
  /\ toServer \subseteq Messages
  /\ toClient \subseteq Messages

TransportInit ==
  /\ toServer = {}
  /\ toClient = {}

(* The transport takes over the request of call c: one or more copies of   *)
(* it will travel.                                                         *)
SendRequest(c) ==
  \E k \in 1..MaxCopies : toServer' = toServer \union {<<c, n>> : n \in 1..k}

(* The transport takes over the reply m.                                   *)
SendReply(m) == toClient' = toClient \union {m}

(* receive(), called until it returns false, yields the messages S of      *)
(* those in flight.                                                        *)
Receive(S, inFlight) == S # {} /\ S \subseteq inFlight

(* A message disappears.                                                   *)
Lose ==
  /\ Lossy
  /\ \/ \E m \in toServer : toServer' = toServer \ {m} /\ UNCHANGED toClient
     \/ \E m \in toClient : toClient' = toClient \ {m} /\ UNCHANGED toServer
=============================================================================
