------------------------------ MODULE RpcClient ------------------------------
(***************************************************************************)
(* The client half of ez.rpc: RemoteServiceBaseImpl and the coroutine      *)
(* AbstractFunction::invoke_remote.  Every invocation is a coroutine on    *)
(* the client's io_context, whose one thread also runs the poll timer's    *)
(* handler and the wake-ups that handler posts.                            *)
(*                                                                         *)
(* The coroutine's frame owns the reply; queries holds a raw pointer to it *)
(* and the callback that resumes the coroutine.  What can go wrong is the  *)
(* life of that entry against the life of the frame.                       *)
(*                                                                         *)
(* A definition without a comment that precedes another one is a variant   *)
(* of it with a plausible mistake; the README's table of mutants says      *)
(* which property finds it.                                                *)
(***************************************************************************)
EXTENDS RpcTransport

CONSTANTS
  SyncSend,     (* does Client::send complete without suspending?          *)
  SendFailure   (* may send report failure: "never", only for a request    *)
                (* that will not be delivered ("undelivered"), or for any  *)
                (* request ("any")                                         *)

ASSUME ClientAssumption ==
  /\ SyncSend \in BOOLEAN
  /\ SendFailure \in {"never", "undelivered", "any"}

VARIABLES
  pc,       (* where the coroutine of each call is                         *)
  slot,     (* RawReply reply, the local the frame owns: 0, or the number  *)
            (* of the copy of the request it is the reply to               *)
  result,   (* what the caller of the remote function was given            *)
  queries,  (* RemoteServiceBaseImpl::queries                              *)
  wakes,    (* posted handlers: <<call, was the callback set?>>            *)
  fault     (* the undefined behaviour or escaped exception met, if any    *)

clientVars == <<pc, slot, result, queries, wakes, fault>>

Results == {"none", "value", "threw", "error", "internalError", "notFound", "sendFailed"}
Faults == {"none", "emptyWake", "nullReply", "danglingReply"}

(* A Query: does `reply` point to a frame, and is `wake` set?              *)
Query == [reply : {"frame", "null"}, wake : BOOLEAN]

ClientTypeOK ==
  /\ pc \in [Calls -> {"idle", "sending", "sent", "waiting", "returned"}]
  /\ slot \in [Calls -> 0..MaxCopies]
  /\ result \in [Calls -> Results]
  /\ DOMAIN queries \subseteq Calls
  /\ \A c \in DOMAIN queries : queries[c] \in Query
  /\ wakes \subseteq Calls \X BOOLEAN
  /\ fault \in Faults

ClientInit ==
  /\ pc = [c \in Calls |-> "idle"]
  /\ slot = [c \in Calls |-> 0]
  /\ result = [c \in Calls |-> "none"]
  /\ queries = [c \in {} |-> [reply |-> "null", wake |-> FALSE]]
  /\ wakes = {}
  /\ fault = "none"

-----------------------------------------------------------------------------
InSend(c) == pc[c] \in {"sending", "sent"}

(* The io_context's thread can start a handler: it did not fault, and no   *)
(* send that does not suspend holds it.                                    *)
ThreadFree ==
  /\ fault = "none"
  /\ SyncSend => \A c \in Calls : ~InSend(c)

(* queries[c] = q *)
PutQuery(c, q) ==
  queries' = [d \in DOMAIN queries \union {c} |-> IF d = c THEN q ELSE queries[d]]

(* What the caller is given for the reply to call c: the error poll stored *)
(* or, by get_return_value, the value, whose value() throws when it does   *)
(* not parse.                                                              *)
CallResult(c) ==
  LET given == [value |-> "value", exception |-> "value", badValue |-> "threw",
                rpcError |-> "error", badArgs |-> "internalError",
                unknown |-> "notFound"]
  IN  given[Kind[c]]

-----------------------------------------------------------------------------
(* invoke: the id is drawn, the query inserted, transport->send called.    *)
Invoke(c) ==
  /\ ThreadFree
  /\ pc[c] = "idle"
  /\ PutQuery(c, [reply |-> "frame", wake |-> FALSE])
  /\ pc' = [pc EXCEPT ![c] = "sending"]
  /\ UNCHANGED <<slot, result, wakes, fault, toServer, toClient>>

(* The request leaves.  The transport does this on its own, so the client  *)
(* need not be free.                                                       *)
Transmit(c) ==
  /\ pc[c] = "sending"
  /\ SendRequest(c)
  /\ pc' = [pc EXCEPT ![c] = "sent"]
  /\ UNCHANGED <<slot, result, queries, wakes, fault, toClient>>

SetResponseCallbackAnew(c) == PutQuery(c, [reply |-> "null", wake |-> TRUE])

(* set_response_callback, through operator[], which inserts a query when   *)
(* there is none.                                                          *)
SetResponseCallback(c) ==
  PutQuery(c, IF c \in DOMAIN queries
              THEN [reply |-> queries[c].reply, wake |-> TRUE]
              ELSE [reply |-> "null", wake |-> TRUE])

(* send reports success: invoke returns the id, invoke_remote suspends and *)
(* installs the callback that resumes it.                                  *)
SendCompletes(c) ==
  /\ fault = "none"
  /\ pc[c] = "sent"
  /\ SetResponseCallback(c)
  /\ pc' = [pc EXCEPT ![c] = "waiting"]
  /\ UNCHANGED <<slot, result, wakes, fault, toServer, toClient>>

(* send reports failure: both coroutines return Fail, which destroys the   *)
(* frame that owns the reply.  Nothing takes the query out of queries.     *)
SendFails(c) ==
  /\ fault = "none"
  /\ \/ SendFailure # "never" /\ pc[c] = "sending"
     \/ SendFailure = "any" /\ pc[c] = "sent"
  /\ result' = [result EXCEPT ![c] = "sendFailed"]
  /\ pc' = [pc EXCEPT ![c] = "returned"]
  /\ UNCHANGED <<slot, queries, wakes, fault, toServer, toClient>>

(* The queries whose reply is among the parsed messages R; a message       *)
(* without a query is skipped.                                             *)
Answered(R) == {c \in DOMAIN queries : \E m \in R : m[1] = c}

(* *query.reply = ..., where the pointer leads to a live frame.  Of several *)
(* replies to one call the first is stored: its query is gone by then.     *)
StoreReplies(R) ==
  LET stores == {c \in Answered(R) : queries[c].reply = "frame" /\ pc[c] # "returned"}
  IN  slot' \in {f \in [Calls -> 0..MaxCopies] :
                   \A c \in Calls : IF c \in stores THEN <<c, f[c]>> \in R
                                    ELSE f[c] = slot[c]}

(* Where it does not, the store is undefined behaviour.                    *)
StoreFault(R) ==
  fault' = IF \E c \in Answered(R) : queries[c].reply = "null" THEN "nullReply"
           ELSE IF \E c \in Answered(R) : pc[c] = "returned" THEN "danglingReply"
           ELSE fault

PostWakesOfAll(R) == wakes' = wakes \union {<<c, queries[c].wake>> : c \in DOMAIN queries}
PostOneWake(R) ==
  IF Answered(R) = {} THEN UNCHANGED wakes
  ELSE \E c \in Answered(R) : wakes' = wakes \union {<<c, queries[c].wake>>}

(* post(context, query.wake)                                               *)
PostWakes(R) == wakes' = wakes \union {<<c, queries[c].wake>> : c \in Answered(R)}

EraseNoQueries(R) == UNCHANGED queries

(* queries.erase(request_id)                                               *)
EraseQueries(R) == queries' = [c \in DOMAIN queries \ Answered(R) |-> queries[c]]

(* poll, run by the timer's handler, which start() re-arms: drains the     *)
(* transport, skips the messages that do not parse (garbled), stores each  *)
(* reply, posts the callback of its query and erases the query.            *)
ClientPoll(S, garbled) ==
  /\ ThreadFree
  /\ Receive(S, toClient)
  /\ garbled \subseteq S /\ (garbled = {} \/ Lossy)
  /\ toClient' = toClient \ S
  /\ StoreReplies(S \ garbled)
  /\ StoreFault(S \ garbled)
  /\ PostWakes(S \ garbled)
  /\ EraseQueries(S \ garbled)
  /\ UNCHANGED <<pc, result, toServer>>

(* The io_context runs a posted callback: an empty std::function throws    *)
(* out of io_context::run, a set one resumes invoke_remote, which returns  *)
(* the reply.                                                              *)
RunWake(c, set) ==
  /\ ThreadFree
  /\ <<c, set>> \in wakes
  /\ wakes' = wakes \ {<<c, set>>}
  /\ IF set
     THEN /\ result' = [result EXCEPT ![c] = CallResult(c)]
          /\ pc' = [pc EXCEPT ![c] = "returned"]
          /\ UNCHANGED fault
     ELSE /\ fault' = "emptyWake"
          /\ UNCHANGED <<result, pc>>
  /\ UNCHANGED <<slot, queries, toServer, toClient>>

ClientNext ==
  \/ \E c \in Calls : Invoke(c)
  \/ \E c \in Calls : Transmit(c)
  \/ \E c \in Calls : SendCompletes(c)
  \/ \E c \in Calls : SendFails(c)
  \/ \E S \in SUBSET toClient : \E garbled \in SUBSET S : ClientPoll(S, garbled)
  \/ \E c \in Calls, set \in BOOLEAN : RunWake(c, set)
=============================================================================
