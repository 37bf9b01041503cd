--------------------------------- MODULE Rpc ---------------------------------
(***************************************************************************)
(* A client and a service of ez.rpc joined by a transport.                 *)
(***************************************************************************)
EXTENDS RpcClient, RpcServer

vars == <<clientVars, serverVars, toServer, toClient>>

Init ==
  /\ TransportInit
  /\ ClientInit
  /\ ServerInit

Next ==
  \/ ClientNext /\ UNCHANGED serverVars
  \/ ServerNext /\ UNCHANGED clientVars
  \/ Lose /\ UNCHANGED <<clientVars, serverVars>>

(* Both io_contexts are run by a thread that takes every ready handler in  *)
(* turn, the poll timers are re-armed, and a send coroutine goes on.       *)
Fairness ==
  /\ \A c \in Calls : WF_vars(Transmit(c) /\ UNCHANGED serverVars)
  /\ \A c \in Calls : WF_vars(SendCompletes(c) /\ UNCHANGED serverVars)
  /\ \A c \in Calls : WF_vars(RunWake(c, TRUE) /\ UNCHANGED serverVars)
  /\ \A m \in Messages : WF_vars(/\ \E S \in SUBSET toClient : m \in S /\ ClientPoll(S, {})
                                 /\ UNCHANGED serverVars)
  /\ \A m \in Messages : WF_vars(/\ \E S \in SUBSET toServer : m \in S /\ ServerPoll(S, {})
                                 /\ UNCHANGED clientVars)
  /\ \A m \in Messages : WF_vars((StartExec(m) \/ FinishInvoke(m) \/ ReplyAndFinish(m))
                                 /\ UNCHANGED clientVars)

Spec == Init /\ [][Next]_vars

FairSpec == Spec /\ Fairness

-----------------------------------------------------------------------------
TypeOK ==
  /\ TransportTypeOK
  /\ ClientTypeOK
  /\ ServerTypeOK

(* The server produced the reply to copy m: exec finished, or the "not     *)
(* found" task of a request it received ran.                               *)
Produced(m) == task[m] = "done" \/ (~HasFunction(m) /\ task[m] # "none")

(* The client never runs an empty callback and never stores a reply        *)
(* through a null pointer or into a frame that is gone                     *)
(* (RemoteService.cpp:83-88).                                              *)
ClientSafe == fault = "none"

(* Whatever the transport does, a reply is only stored through a null      *)
(* pointer where a call, whose first reply overtook the completion of its  *)
(* send, gets a second one, to another copy of its request; and it only    *)
(* misses its frame where a send that failed has ended a call whose query  *)
(* stays (RemoteService.cpp:54, 60, 83).                                   *)
RepliesLandInFrames ==
  /\ fault = "nullReply" =>
       \E c \in Calls, n \in 1..MaxCopies : slot[c] \notin {0, n} /\ Produced(<<c, n>>)
  /\ fault = "danglingReply" => \E c \in Calls : result[c] = "sendFailed"

(* queries has an entry for exactly the calls that still wait for a reply, *)
(* and one for each call whose send failed, which nothing erases           *)
(* (RemoteService.cpp:45, 54, 89).                                         *)
QueryPerPendingCall ==
  fault = "none" =>
    DOMAIN queries = {c \in Calls : \/ InSend(c)
                                    \/ pc[c] = "waiting" /\ slot[c] = 0
                                    \/ result[c] = "sendFailed"}

(* No wake-up is lost: a suspended call whose reply is stored has its      *)
(* callback posted (RemoteService.cpp:83-89, Function.cpp:25).             *)
NoLostWakeup ==
  fault = "none" =>
    \A c \in Calls : pc[c] = "waiting" /\ slot[c] # 0 => <<c, TRUE>> \in wakes

(* A posted callback finds its coroutine suspended with the reply stored   *)
(* (RemoteService.cpp:88).                                                 *)
WakeFindsReply ==
  \A c \in Calls : <<c, TRUE>> \in wakes => pc[c] = "waiting" /\ slot[c] # 0

(* No call returns a value nobody computed: the reply in its frame was     *)
(* produced for the very call (RemoteService.cpp:77-86).                   *)
OutcomeWasComputed ==
  \A c \in Calls :
    /\ slot[c] # 0 => Produced(<<c, slot[c]>>)
    /\ result[c] \notin {"none", "sendFailed"} => slot[c] # 0

(* A reply, once stored in the frame, is not overwritten by the reply to   *)
(* another copy of the request (RemoteService.cpp:79, 89).                 *)
ReplyStoredOnce ==
  [][\A c \in Calls : slot[c] # 0 => slot'[c] = slot[c]]_vars

(* A transport whose send does not suspend and reports failure only for a  *)
(* request that will not arrive.  Over it the client is safe.              *)
SafeTransport == SyncSend /\ SendFailure # "any"

(* Where the messages of a call can be, whatever the transport.            *)
MessageInv ==
  \A m \in Messages :
    /\ m \in toServer => task[m] = "none"
    /\ pc[m[1]] \in {"idle", "sending"} => task[m] = "none" /\ m \notin toServer
    /\ m \in notFound => ~HasFunction(m) /\ task[m] # "none"
    /\ m \in toClient => Produced(m)

(* Stored replies were produced, and callbacks and results follow them.    *)
ReplyInv ==
  \A c \in Calls :
    /\ slot[c] # 0 => Produced(<<c, slot[c]>>)
    /\ fault = "none" /\ <<c, TRUE>> \in wakes => slot[c] # 0
    /\ result[c] \notin {"none", "sendFailed"} => slot[c] # 0

(* A reply, once sent or stored, is not sent again, and a stored one has   *)
(* left the transport; exec never gets far with an unknown function.       *)
SpentInv ==
  \A m \in Messages :
    /\ ~HasFunction(m) => task[m] \in {"none", "queued"}
    /\ m \in toClient \/ slot[m[1]] = m[2] => m \notin notFound
    /\ slot[m[1]] = m[2] => m \notin toClient

(* A message only goes where the service or the client sent it: requests   *)
(* are executed after they arrived, replies come from executions, and      *)
(* callbacks and results follow the replies (Service.cpp:19-48,            *)
(* RemoteService.cpp:72-89).                                               *)
CausalInv == MessageInv /\ ReplyInv

(* The life of the query and the callback of call c against its reply,     *)
(* whatever the transport: a query points to the frame until the reply is  *)
(* stored, and one inserted anew, for a call whose reply was stored while  *)
(* its send was suspended, points nowhere.                                 *)
Entry(c) ==
  /\ pc[c] = "idle" => slot[c] = 0 /\ c \notin DOMAIN queries
  /\ InSend(c) /\ c \notin DOMAIN queries => slot[c] # 0
  /\ c \in DOMAIN queries =>
       /\ (queries[c].reply = "frame") <=> (slot[c] = 0)
       /\ queries[c].wake = TRUE => pc[c] = "waiting"
       /\ pc[c] = "returned" => result[c] = "sendFailed"
  /\ <<c, TRUE>> \in wakes =>
       pc[c] = "waiting" /\ slot[c] # 0 /\ c \notin DOMAIN queries

EntryInv == \A c \in Calls : Entry(c)

(* The life of call c over a safe transport: it has a query exactly while  *)
(* it waits for a reply or after its send failed, and a callback is posted *)
(* when the reply is stored.                                               *)
Pending(c) ==
  /\ c \in DOMAIN queries <=> \/ InSend(c)
                              \/ pc[c] = "waiting" /\ slot[c] = 0
                              \/ result[c] = "sendFailed"
  /\ c \in DOMAIN queries /\ pc[c] = "waiting" => queries[c].wake = TRUE
  /\ InSend(c) => slot[c] = 0
  /\ pc[c] # "returned" => result[c] = "none"
  /\ result[c] = "sendFailed" => slot[c] = 0
  /\ pc[c] = "waiting" /\ slot[c] # 0 => <<c, TRUE>> \in wakes
  /\ <<c, FALSE>> \notin wakes

(* Over a safe transport the client is safe, and a call whose send failed  *)
(* has no request.                                                         *)
QueryInv ==
  /\ fault = "none"
  /\ \A c \in Calls : Pending(c)
  /\ \A m \in Messages :
       result[m[1]] = "sendFailed" => task[m] = "none" /\ m \notin toServer

(* Nothing is left that could bring call c its reply: no copy of its       *)
(* request and no reply is in flight or in the server's hands, and the     *)
(* frame has none.                                                         *)
Lost(c) ==
  /\ pc[c] = "waiting" /\ slot[c] = 0
  /\ \A n \in 1..MaxCopies :
       /\ <<c, n>> \notin toServer \union toClient
       /\ task[<<c, n>>] \in {"none", "done"}

(* A call that was started comes back, unless its implementation answers   *)
(* nothing or every copy of its request, or of the reply, was lost: the    *)
(* client never leaves a call waiting on its own account                   *)
(* (RemoteService.cpp:64-101, Function.cpp:14-42).                         *)
CallsReturn ==
  \A c \in Calls :
    Kind[c] # "exception" => (pc[c] # "idle" ~> pc[c] = "returned" \/ Lost(c))

(* A request for a function no schema has is reported to its caller: the   *)
(* service answers FunctionNotFound (messages.proto:16, Service.cpp:28)    *)
(* and goes on.                                                            *)
UnknownFunctionIsReported == crashed # "nullCall"

-----------------------------------------------------------------------------
(* The system implements RpcSpec: a call is executed when its first copy   *)
(* has been answered.                                                      *)
Abstract == INSTANCE RpcSpec WITH
  Outcome <- CallResult,
  started <- {c \in Calls : pc[c] # "idle"},
  executed <- {c \in Calls : \E n \in 1..MaxCopies : Produced(<<c, n>>)},
  outcome <- result

(* A call ends at most once, with the outcome of an execution of its own   *)
(* request or a failure to send it.                                        *)
ImplementsRpcSpec == Abstract!Spec
=============================================================================
