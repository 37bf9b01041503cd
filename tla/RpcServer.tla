------------------------------ MODULE RpcServer ------------------------------
(***************************************************************************)
(* The server half of ez.rpc: AbstractService.  poll, run by a timer on    *)
(* the service's io_context, pushes one task per request to the task pool, *)
(* and each task runs exec: invoke the function, send the reply.  The task *)
(* pool is taken by what it promises here, that a pushed task runs.        *)
(***************************************************************************)
EXTENDS RpcTransport

VARIABLES
  task,       (* the exec task of each request received                    *)
  notFound,   (* requests whose "not found" task is queued                 *)
  crashed     (* what undefined behaviour the service met, if any          *)

serverVars == <<task, notFound, crashed>>

ServerTypeOK ==
  /\ task \in [Messages -> {"none", "queued", "invoking", "replying", "done"}]
  /\ notFound \subseteq Messages
  /\ crashed \in {"no", "nullCall", "deadClosure"}

ServerInit ==
  /\ task = [m \in Messages |-> "none"]
  /\ notFound = {}
  /\ crashed = "no"

-----------------------------------------------------------------------------
(* find_function finds a field of one of the schemas.                      *)
HasFunction(m) == Kind[m[1]] # "unknown"

(* poll: every request that parses gets an exec task.  When the function   *)
(* is unknown a task that reports it is queued first, and the code goes on *)
(* to queue exec with the null function all the same.                      *)
ServerPoll(S, garbled) ==
  LET requests == S \ garbled
  IN  /\ crashed = "no"
      /\ Receive(S, toServer)
      /\ garbled \subseteq S /\ (garbled = {} \/ Lossy)
      /\ toServer' = toServer \ S
      /\ task' = [m \in Messages |-> IF m \in requests THEN "queued" ELSE task[m]]
      /\ notFound' = notFound \union {m \in requests : ~HasFunction(m)}
      /\ UNCHANGED <<crashed, toClient>>

(* The task that reports an unknown function.  It is the body of a lambda  *)
(* whose closure, which holds `this`, died with poll's statement, before   *)
(* the task first ran: reading it finds the service or does not.           *)
ReportNotFound(m) ==
  /\ crashed = "no"
  /\ m \in notFound
  /\ notFound' = notFound \ {m}
  /\ \/ SendReply(m) /\ UNCHANGED crashed
     \/ crashed' = "deadClosure" /\ UNCHANGED toClient
  /\ UNCHANGED <<task, toServer>>

(* exec begins.  f->invoke parses the arguments; when one does not parse   *)
(* it yields an internal error at once, else the implementation starts.    *)
(* With the null function of an unknown name the call itself is undefined; *)
(* the "not found" task of the request may still be suspended in its send. *)
StartExec(m) ==
  /\ crashed = "no"
  /\ task[m] = "queued"
  /\ IF HasFunction(m)
     THEN /\ task' = [task EXCEPT ![m] = IF Kind[m[1]] = "badArgs"
                                         THEN "replying" ELSE "invoking"]
          /\ UNCHANGED crashed
     ELSE /\ crashed' = "nullCall"
          /\ UNCHANGED task
  /\ UNCHANGED <<notFound, toServer, toClient>>

(* The implementation returns or throws.  Function::invoke catches only    *)
(* rpc::Error; any other exception ends exec with no reply.                *)
FinishInvoke(m) ==
  /\ crashed = "no"
  /\ task[m] = "invoking"
  /\ task' = [task EXCEPT ![m] = IF Kind[m[1]] = "exception"
                                 THEN "done" ELSE "replying"]
  /\ UNCHANGED <<notFound, crashed, toServer, toClient>>

(* exec sends the value, or send_error the error (after which value() on   *)
(* the failed result throws and ends the task): one reply either way.      *)
ReplyAndFinish(m) ==
  /\ crashed = "no"
  /\ task[m] = "replying"
  /\ SendReply(m)
  /\ task' = [task EXCEPT ![m] = "done"]
  /\ UNCHANGED <<notFound, crashed, toServer>>

ServerNext ==
  \/ \E S \in SUBSET toServer : \E garbled \in SUBSET S : ServerPoll(S, garbled)
  \/ \E m \in Messages : ReportNotFound(m)
  \/ \E m \in Messages : StartExec(m)
  \/ \E m \in Messages : FinishInvoke(m)
  \/ \E m \in Messages : ReplyAndFinish(m)
=============================================================================
