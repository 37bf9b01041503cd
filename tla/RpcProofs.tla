------------------------------ MODULE RpcProofs ------------------------------
(***************************************************************************)
(* Theorems about Rpc for every set of calls, fate of each call, number of *)
(* copies and loss.  Over every transport a caller is only given a reply   *)
(* to its call, a stored reply stays, a set callback finds its reply, and  *)
(* it is said when a reply can miss its frame.  Over a transport whose     *)
(* send does not suspend and reports failure only for requests that are    *)
(* not delivered, the client is safe, no wake-up is lost, and client and   *)
(* service implement RpcSpec.                                              *)
(***************************************************************************)
EXTENDS Rpc, TLAPS

LEMMA InitTypeOK == Init => TypeOK
  BY TransportAssumption
     DEF Init, TypeOK, TransportInit, ClientInit, ServerInit, TransportTypeOK,
         ClientTypeOK, ServerTypeOK, Results, Faults

LEMMA CallResultType ==
  ASSUME NEW c \in Calls PROVE CallResult(c) \in Results \ {"none", "sendFailed"}
  BY TransportAssumption DEF CallResult, Results, Kinds

(* Every handler of the client keeps the types of its state.               *)
LEMMA ClientKeepsTypes ==
  TypeOK /\ ClientNext /\ UNCHANGED serverVars => TypeOK'
  <1> SUFFICES ASSUME TypeOK, ClientNext, UNCHANGED serverVars PROVE TypeOK'
    OBVIOUS
  <1>0. ServerTypeOK'
    BY DEF TypeOK, ServerTypeOK, serverVars
  <1> USE TransportAssumption DEF TypeOK, TransportTypeOK, ClientTypeOK, Messages,
          Query, Faults
  <1>1. ASSUME NEW c \in Calls, Invoke(c) PROVE TypeOK'
    BY <1>0, <1>1 DEF Invoke, PutQuery
  <1>2. ASSUME NEW c \in Calls, Transmit(c) PROVE TypeOK'
    BY <1>0, <1>2 DEF Transmit, SendRequest
  <1>3. ASSUME NEW c \in Calls, SendCompletes(c) PROVE TypeOK'
    BY <1>0, <1>3 DEF SendCompletes, SetResponseCallback, PutQuery
  <1>4. ASSUME NEW c \in Calls, SendFails(c) PROVE TypeOK'
    BY <1>0, <1>4 DEF SendFails, Results
  <1>5. ASSUME NEW S \in SUBSET toClient, NEW garbled \in SUBSET S, ClientPoll(S, garbled)
        PROVE TypeOK'
    BY <1>0, <1>5 DEF ClientPoll, StoreReplies, StoreFault, PostWakes, EraseQueries, Answered
  <1>6. ASSUME NEW c \in Calls, NEW set \in BOOLEAN, RunWake(c, set) PROVE TypeOK'
    BY <1>0, <1>6, CallResultType DEF RunWake
  <1> QED
    BY <1>1, <1>2, <1>3, <1>4, <1>5, <1>6 DEF ClientNext

(* Every handler of the service keeps the types of its state.              *)
LEMMA ServerKeepsTypes ==
  TypeOK /\ ServerNext /\ UNCHANGED clientVars => TypeOK'
  <1> SUFFICES ASSUME TypeOK, ServerNext, UNCHANGED clientVars PROVE TypeOK'
    OBVIOUS
  <1>0. ClientTypeOK'
    BY DEF TypeOK, ClientTypeOK, clientVars
  <1> USE DEF TypeOK, TransportTypeOK, ServerTypeOK
  <1>1. ASSUME NEW S \in SUBSET toServer, NEW garbled \in SUBSET S, ServerPoll(S, garbled)
        PROVE TypeOK'
    BY <1>0, <1>1 DEF ServerPoll, Receive
  <1>2. ASSUME NEW m \in Messages, ReportNotFound(m) PROVE TypeOK'
    BY <1>0, <1>2 DEF ReportNotFound, SendReply
  <1>3. ASSUME NEW m \in Messages, StartExec(m) PROVE TypeOK'
    BY <1>0, <1>3 DEF StartExec
  <1>4. ASSUME NEW m \in Messages, FinishInvoke(m) PROVE TypeOK'
    BY <1>0, <1>4 DEF FinishInvoke
  <1>5. ASSUME NEW m \in Messages, ReplyAndFinish(m) PROVE TypeOK'
    BY <1>0, <1>5 DEF ReplyAndFinish, SendReply
  <1> QED
    BY <1>1, <1>2, <1>3, <1>4, <1>5 DEF ServerNext

LEMMA NextTypeOK == TypeOK /\ [Next]_vars => TypeOK'
  <1>1. TypeOK /\ Lose /\ UNCHANGED <<clientVars, serverVars>> => TypeOK'
    BY DEF Lose, TypeOK, TransportTypeOK, ClientTypeOK, ServerTypeOK, clientVars, serverVars
  <1>2. TypeOK /\ UNCHANGED vars => TypeOK'
    BY DEF vars, TypeOK, TransportTypeOK, ClientTypeOK, ServerTypeOK, clientVars, serverVars
  <1> QED
    BY <1>1, <1>2, ClientKeepsTypes, ServerKeepsTypes DEF Next

(* The state of client, service and transport keeps its type, whatever the *)
(* transport does.                                                         *)
THEOREM TypesHold == Spec => []TypeOK
  BY InitTypeOK, NextTypeOK, PTL DEF Spec

-----------------------------------------------------------------------------
LEMMA MessageType ==
  /\ \A m \in Messages : m[1] \in Calls
  /\ \A c \in Calls, n \in 0..MaxCopies : n # 0 => <<c, n>> \in Messages
  BY TransportAssumption DEF Messages

LEMMA InitCausal == Init => CausalInv
  BY MessageType
     DEF Init, TransportInit, ClientInit, ServerInit, CausalInv, MessageInv, ReplyInv

(* Transmit is the only handler of the client that adds a message, and it  *)
(* adds requests of a call that had none.                                  *)
LEMMA ClientKeepsMessages ==
  TypeOK /\ MessageInv /\ ClientNext /\ UNCHANGED serverVars => MessageInv'
  <1> SUFFICES ASSUME TypeOK, MessageInv, ClientNext, UNCHANGED serverVars PROVE MessageInv'
    OBVIOUS
  <1>0. pc \in [Calls -> {"idle", "sending", "sent", "waiting", "returned"}]
    BY DEF TypeOK, ClientTypeOK
  <1>1. ASSUME NEW c \in Calls, Transmit(c) PROVE MessageInv'
    <2>1. ASSUME NEW m \in Messages, m \in toServer' PROVE m \in toServer \/ m[1] = c
      <3>1. PICK k \in 1..MaxCopies : toServer' = toServer \union {<<c, n>> : n \in 1..k}
        BY <1>1 DEF Transmit, SendRequest
      <3> QED
        BY <2>1, <3>1
    <2> QED
      BY <1>0, <1>1, <2>1, MessageType
         DEF Transmit, MessageInv, Produced, HasFunction, serverVars
  <1>2. ASSUME UNCHANGED toServer, toClient' \subseteq toClient,
               \A c \in Calls : pc'[c] \in {"idle", "sending"} => pc[c] \in {"idle", "sending"}
        PROVE MessageInv'
    BY <1>2, MessageType DEF MessageInv, Produced, HasFunction, serverVars
  <1>3. ASSUME NEW c \in Calls, Invoke(c) \/ SendCompletes(c) \/ SendFails(c)
        PROVE MessageInv'
    BY <1>0, <1>2, <1>3 DEF Invoke, SendCompletes, SendFails
  <1>4. ASSUME NEW S \in SUBSET toClient, NEW garbled \in SUBSET S, ClientPoll(S, garbled)
        PROVE MessageInv'
    BY <1>2, <1>4 DEF ClientPoll, StoreReplies, StoreFault, PostWakes, EraseQueries
  <1>5. ASSUME NEW c \in Calls, NEW set \in BOOLEAN, RunWake(c, set) PROVE MessageInv'
    BY <1>0, <1>2, <1>5 DEF RunWake
  <1> QED
    BY <1>1, <1>3, <1>4, <1>5 DEF ClientNext

(* ClientPoll stores only replies it received; RunWake gives the caller a  *)
(* stored one.                                                             *)
LEMMA ClientKeepsReplies ==
  TypeOK /\ CausalInv /\ ClientNext /\ UNCHANGED serverVars => ReplyInv'
  <1> SUFFICES ASSUME TypeOK, MessageInv, ReplyInv, ClientNext, UNCHANGED serverVars
               PROVE ReplyInv'
    BY DEF CausalInv
  <1>0. ClientTypeOK
    BY DEF TypeOK
  <1>1. ASSUME NEW c \in Calls, Invoke(c) \/ Transmit(c) \/ SendCompletes(c) \/ SendFails(c)
        PROVE ReplyInv'
    <2>1. UNCHANGED <<slot, wakes, fault>>
      BY <1>1 DEF Invoke, Transmit, SendCompletes, SendFails
    <2>2. \A d \in Calls : result'[d] \in {result[d], "sendFailed"}
      BY <1>0, <1>1 DEF Invoke, Transmit, SendCompletes, SendFails, ClientTypeOK
    <2> QED
      BY <2>1, <2>2 DEF ReplyInv, Produced, HasFunction, serverVars
  <1>2. ASSUME NEW S \in SUBSET toClient, NEW garbled \in SUBSET S, ClientPoll(S, garbled)
        PROVE ReplyInv'
    <2> DEFINE hits == Answered(S \ garbled)
               stores == {c \in hits : queries[c].reply = "frame" /\ pc[c] # "returned"}
    <2>1. \A m \in toClient : Produced(m)
      BY DEF MessageInv, TypeOK, TransportTypeOK
    <2>3. ASSUME NEW c \in Calls, slot'[c] # 0 PROVE Produced(<<c, slot[c]>>)'
      <3>1. CASE c \in stores
        <4>1. <<c, slot'[c]>> \in toClient
          BY <1>2, <3>1 DEF ClientPoll, StoreReplies, StoreFault, PostWakes, EraseQueries
        <4>2. task[<<c, slot'[c]>>] = "done" \/ (~HasFunction(<<c, slot'[c]>>) /\ task[<<c, slot'[c]>>] # "none")
          BY <2>1, <4>1 DEF Produced
        <4> QED
          BY <4>2 DEF Produced, HasFunction, serverVars
      <3>2. CASE c \notin stores
        <4>1. slot'[c] = slot[c]
          BY <1>2, <3>2 DEF ClientPoll, StoreReplies, StoreFault, PostWakes, EraseQueries
        <4> QED
          BY <2>3, <4>1 DEF ReplyInv, Produced, HasFunction, serverVars
      <3> QED
        BY <3>1, <3>2
    <2>4. ASSUME NEW c \in Calls, fault' = "none", <<c, TRUE>> \in wakes'
          PROVE slot'[c] # 0
      <3>1. CASE c \in hits
        <4>1. c \in stores
          BY <1>0, <1>2, <2>4, <3>1 DEF ClientPoll, StoreReplies, StoreFault, PostWakes, EraseQueries, ClientTypeOK, Query, Answered
        <4>2. <<c, slot'[c]>> \in Messages
          BY <1>2, <4>1 DEF ClientPoll, StoreReplies, StoreFault, PostWakes, EraseQueries, TypeOK, TransportTypeOK
        <4> QED
          BY <4>2 DEF Messages
      <3>2. CASE c \notin hits
        <4>1. slot'[c] = slot[c] /\ <<c, TRUE>> \in wakes /\ fault = "none"
          BY <1>2, <2>4, <3>2 DEF ClientPoll, StoreReplies, StoreFault, PostWakes, EraseQueries, ThreadFree
        <4> QED
          BY <4>1 DEF ReplyInv
      <3> QED
        BY <3>1, <3>2
    <2>5. ASSUME NEW c \in Calls, result'[c] \notin {"none", "sendFailed"}
          PROVE slot'[c] # 0
      <3>1. result[c] = result'[c]
        BY <1>2 DEF ClientPoll, StoreReplies, StoreFault, PostWakes, EraseQueries
      <3>2. CASE c \in stores
        <4>1. <<c, slot'[c]>> \in Messages
          BY <1>2, <3>2 DEF ClientPoll, StoreReplies, StoreFault, PostWakes, EraseQueries, TypeOK, TransportTypeOK
        <4> QED
          BY <4>1 DEF Messages
      <3>3. CASE c \notin stores
        BY <1>2, <2>5, <3>1, <3>3 DEF ClientPoll, StoreReplies, StoreFault, PostWakes, EraseQueries, ReplyInv
      <3> QED
        BY <3>2, <3>3
    <2> QED
      BY <2>3, <2>4, <2>5 DEF ReplyInv
  <1>3. ASSUME NEW c \in Calls, NEW set \in BOOLEAN, RunWake(c, set) PROVE ReplyInv'
    BY <1>0, <1>3
       DEF RunWake, ThreadFree, ClientTypeOK, ReplyInv, Produced, HasFunction, serverVars
  <1> QED
    BY <1>1, <1>2, <1>3 DEF ClientNext

(* A request is received once, and every reply is sent by the step that    *)
(* makes it Produced, or after it.                                         *)
LEMMA ServerKeepsCausal ==
  TypeOK /\ CausalInv /\ ServerNext /\ UNCHANGED clientVars => CausalInv'
  <1> SUFFICES ASSUME TypeOK, MessageInv, ReplyInv, ServerNext, UNCHANGED clientVars
               PROVE MessageInv' /\ ReplyInv'
    BY DEF CausalInv
  <1>0. /\ toServer \subseteq Messages /\ toClient \subseteq Messages
        /\ ServerTypeOK
        /\ slot \in [Calls -> 0..MaxCopies]
    BY DEF TypeOK, TransportTypeOK, ClientTypeOK
  <1>1. ASSUME \A m \in Messages : Produced(m) => Produced(m)' PROVE ReplyInv'
    BY <1>0, <1>1, MessageType DEF ReplyInv, clientVars
  <1>2. ASSUME NEW S \in SUBSET toServer, NEW garbled \in SUBSET S, ServerPoll(S, garbled)
        PROVE MessageInv' /\ ReplyInv'
    <2>1. \A m \in Messages : Produced(m) => Produced(m)'
      BY <1>0, <1>2 DEF ServerPoll, MessageInv, Produced, HasFunction
    <2>2. MessageInv'
      BY <1>0, <1>2, <2>1 DEF ServerPoll, MessageInv, HasFunction, clientVars
    <2> QED
      BY <1>1, <2>1, <2>2
  <1>3. ASSUME NEW m \in Messages, ReportNotFound(m) PROVE MessageInv' /\ ReplyInv'
    <2>1. \A k \in Messages : Produced(k) => Produced(k)'
      BY <1>3 DEF ReportNotFound, Produced, HasFunction
    <2>2. MessageInv'
      BY <1>0, <1>3, <2>1 DEF ReportNotFound, SendReply, MessageInv, Produced, HasFunction, clientVars
    <2> QED
      BY <1>1, <2>1, <2>2
  <1>4. ASSUME NEW m \in Messages, StartExec(m) \/ FinishInvoke(m)
        PROVE MessageInv' /\ ReplyInv'
    <2>1. \A k \in Messages : Produced(k) => Produced(k)'
      BY <1>0, <1>4 DEF StartExec, FinishInvoke, Produced, HasFunction, ServerTypeOK
    <2>2. MessageInv'
      BY <1>0, <1>4, <2>1
         DEF StartExec, FinishInvoke, MessageInv, HasFunction, clientVars, ServerTypeOK
    <2> QED
      BY <1>1, <2>1, <2>2
  <1>5. ASSUME NEW m \in Messages, ReplyAndFinish(m) PROVE MessageInv' /\ ReplyInv'
    <2>1. \A k \in Messages : Produced(k) => Produced(k)'
      BY <1>0, <1>5 DEF ReplyAndFinish, Produced, HasFunction, ServerTypeOK
    <2>2. MessageInv'
      BY <1>0, <1>5, <2>1
         DEF ReplyAndFinish, SendReply, MessageInv, Produced, HasFunction, clientVars, ServerTypeOK
    <2> QED
      BY <1>1, <2>1, <2>2
  <1> QED
    BY <1>2, <1>3, <1>4, <1>5 DEF ServerNext

LEMMA NextCausal == TypeOK /\ CausalInv /\ [Next]_vars => CausalInv'
  <1>1. CausalInv /\ Lose /\ UNCHANGED <<clientVars, serverVars>> => CausalInv'
    BY DEF Lose, CausalInv, MessageInv, ReplyInv, Produced, HasFunction, clientVars, serverVars
  <1>2. CausalInv /\ UNCHANGED vars => CausalInv'
    BY DEF vars, CausalInv, MessageInv, ReplyInv, Produced, HasFunction, clientVars, serverVars
  <1> QED
    BY <1>1, <1>2, ClientKeepsMessages, ClientKeepsReplies, ServerKeepsCausal DEF Next, CausalInv

(* Over every transport, one that loses, repeats, delays and reorders      *)
(* messages or fails to send included, a caller is only ever given a reply *)
(* the server produced for its call.                                       *)
THEOREM OutcomesAreComputed == Spec => []OutcomeWasComputed
  <1>1. CausalInv => OutcomeWasComputed
    BY DEF CausalInv, ReplyInv, OutcomeWasComputed
  <1> QED
    BY <1>1, InitCausal, NextCausal, TypesHold, PTL DEF Spec

-----------------------------------------------------------------------------
LEMMA InitSpent == Init => SpentInv
  BY MessageType DEF Init, TransportInit, ClientInit, ServerInit, SpentInv, Messages

(* The client stores only replies it takes off the transport.              *)
LEMMA ClientKeepsSpent ==
  ASSUME TypeOK, SpentInv, ClientNext, UNCHANGED serverVars
  PROVE  SpentInv'
  <1>1. ASSUME toClient' \subseteq toClient,
               \A m \in Messages : slot'[m[1]] = m[2] =>
                 m \notin toClient' /\ (m \in toClient \/ slot[m[1]] = m[2])
        PROVE SpentInv'
    BY <1>1 DEF SpentInv, HasFunction, serverVars
  <1>2. ASSUME NEW c \in Calls,
               \/ Invoke(c) \/ Transmit(c) \/ SendCompletes(c) \/ SendFails(c)
               \/ \E set \in BOOLEAN : RunWake(c, set)
        PROVE SpentInv'
    <2>1. UNCHANGED <<slot, toClient>>
      BY <1>2 DEF Invoke, Transmit, SendCompletes, SendFails, RunWake
    <2> QED
      BY <1>1, <2>1 DEF SpentInv
  <1>3. ASSUME NEW S \in SUBSET toClient, NEW garbled \in SUBSET S, ClientPoll(S, garbled)
        PROVE SpentInv'
    <2>1. toClient' = toClient \ S
      BY <1>3 DEF ClientPoll
    <2>2. ASSUME NEW m \in Messages, slot'[m[1]] = m[2], slot[m[1]] # m[2] PROVE m \in S
      <3>1. m[1] \in Calls /\ m = <<m[1], m[2]>>
        BY DEF Messages
      <3>2. slot'[m[1]] = slot[m[1]] \/ <<m[1], slot'[m[1]]>> \in S
        BY <1>3, <3>1 DEF ClientPoll, StoreReplies
      <3> QED
        BY <2>2, <3>1, <3>2
    <2>3. ASSUME NEW m \in Messages, slot'[m[1]] = m[2]
          PROVE  m \notin toClient' /\ (m \in toClient \/ slot[m[1]] = m[2])
      BY <2>1, <2>2, <2>3 DEF SpentInv
    <2> QED
      BY <1>1, <2>1, <2>3
  <1> QED
    BY <1>2, <1>3 DEF ClientNext

(* A reply is sent by the step that makes it Produced, or by the one task   *)
(* that reports an unknown function.                                       *)
LEMMA ServerKeepsSpent ==
  ASSUME TypeOK, CausalInv, SpentInv, ServerNext, UNCHANGED clientVars
  PROVE  SpentInv'
  <1>0. /\ toServer \subseteq Messages /\ toClient \subseteq Messages
        /\ ServerTypeOK
    BY DEF TypeOK, TransportTypeOK
  <1>1. \A m \in Messages : m \in toClient \/ slot[m[1]] = m[2] => Produced(m)
    <2>1. ASSUME NEW m \in Messages, slot[m[1]] = m[2] PROVE Produced(m)
      <3>1. m[1] \in Calls /\ m = <<m[1], m[2]>> /\ m[2] # 0
        BY DEF Messages
      <3> QED
        BY <2>1, <3>1 DEF CausalInv, ReplyInv
    <2> QED
      BY <2>1 DEF CausalInv, MessageInv
  <1>2. slot' = slot
    BY DEF clientVars
  <1>3. ASSUME NEW S \in SUBSET toServer, NEW garbled \in SUBSET S, ServerPoll(S, garbled)
        PROVE SpentInv'
    <2>1. \A m \in S : task[m] = "none"
      BY <1>0 DEF CausalInv, MessageInv
    <2>2. /\ UNCHANGED toClient
          /\ notFound' = notFound \union {m \in S \ garbled : ~HasFunction(m)}
          /\ \A m \in Messages : task'[m] = IF m \in S \ garbled THEN "queued" ELSE task[m]
      BY <1>3 DEF ServerPoll
    <2>3. \A m \in Messages : ~HasFunction(m) => task'[m] \in {"none", "queued"}
      BY <2>2 DEF SpentInv
    <2>4. \A m \in Messages : m \in toClient \/ slot[m[1]] = m[2] => m \notin notFound'
      BY <1>1, <2>1, <2>2 DEF SpentInv, Produced
    <2> QED
      BY <1>2, <2>2, <2>3, <2>4 DEF SpentInv, HasFunction
  <1>4. ASSUME NEW m \in Messages, ReportNotFound(m) PROVE SpentInv'
    <2>1. /\ m \in notFound /\ notFound' = notFound \ {m} /\ task' = task
          /\ toClient' \in {toClient, toClient \union {m}}
      BY <1>4 DEF ReportNotFound, SendReply
    <2>2. slot[m[1]] # m[2]
      BY <2>1 DEF SpentInv
    <2> QED
      BY <1>2, <2>1, <2>2 DEF SpentInv, HasFunction
  <1>5. ASSUME NEW m \in Messages, StartExec(m) \/ FinishInvoke(m) PROVE SpentInv'
    <2>1. UNCHANGED <<notFound, toClient>>
      BY <1>5 DEF StartExec, FinishInvoke
    <2>2. \A k \in Messages : ~HasFunction(k) => task'[k] = task[k]
      BY <1>0, <1>5 DEF StartExec, FinishInvoke, SpentInv, ServerTypeOK
    <2> QED
      BY <1>2, <2>1, <2>2 DEF SpentInv, HasFunction
  <1>6. ASSUME NEW m \in Messages, ReplyAndFinish(m) PROVE SpentInv'
    <2>1. /\ task[m] = "replying" /\ UNCHANGED notFound
          /\ toClient' = toClient \union {m}
          /\ \A k \in Messages : k # m => task'[k] = task[k]
      BY <1>0, <1>6 DEF ReplyAndFinish, SendReply, ServerTypeOK
    <2>2. HasFunction(m)
      BY <2>1 DEF SpentInv
    <2>3. m \notin notFound /\ slot[m[1]] # m[2]
      BY <1>1, <2>1, <2>2 DEF CausalInv, MessageInv, Produced
    <2> QED
      BY <1>2, <2>1, <2>2, <2>3 DEF SpentInv, HasFunction
  <1> QED
    BY <1>3, <1>4, <1>5, <1>6 DEF ServerNext

LEMMA NextSpent == TypeOK /\ CausalInv /\ SpentInv /\ [Next]_vars => SpentInv'
  <1>1. SpentInv /\ Lose /\ UNCHANGED <<clientVars, serverVars>> => SpentInv'
    BY DEF Lose, SpentInv, HasFunction, clientVars, serverVars
  <1>2. SpentInv /\ UNCHANGED vars => SpentInv'
    BY DEF vars, SpentInv, HasFunction, clientVars, serverVars
  <1> QED
    BY <1>1, <1>2, ClientKeepsSpent, ServerKeepsSpent DEF Next

-----------------------------------------------------------------------------
(* A step leaves call d with its query and its callbacks as they were.     *)
SameCall(d) ==
  /\ pc'[d] = pc[d] /\ slot'[d] = slot[d] /\ result'[d] = result[d]
  /\ d \in DOMAIN queries' <=> d \in DOMAIN queries
  /\ d \in DOMAIN queries => queries'[d] = queries[d]
  /\ \A set \in BOOLEAN : <<d, set>> \in wakes' <=> <<d, set>> \in wakes

LEMMA SameEntry ==
  ASSUME NEW d \in Calls, SameCall(d), Entry(d) PROVE Entry(d)'
  BY DEF SameCall, Entry, InSend

LEMMA SamePending ==
  ASSUME NEW d \in Calls, SameCall(d), Pending(d) PROVE Pending(d)'
  BY DEF SameCall, Pending, InSend

(* What each handler of the client does to its call.                       *)
LEMMA InvokeEffect ==
  ASSUME ClientTypeOK, NEW c \in Calls, Invoke(c)
  PROVE  /\ pc[c] = "idle" /\ pc'[c] = "sending" /\ UNCHANGED <<slot, result, wakes, fault>>
         /\ c \in DOMAIN queries' /\ queries'[c] = [reply |-> "frame", wake |-> FALSE]
         /\ \A d \in Calls \ {c} : SameCall(d)
  BY DEF Invoke, PutQuery, ClientTypeOK, SameCall

LEMMA TransmitEffect ==
  ASSUME ClientTypeOK, NEW c \in Calls, Transmit(c)
  PROVE  /\ pc[c] = "sending" /\ pc'[c] = "sent"
         /\ UNCHANGED <<slot, result, queries, wakes, fault>>
         /\ \A d \in Calls \ {c} : SameCall(d)
  BY DEF Transmit, ClientTypeOK, SameCall

LEMMA SendCompletesEffect ==
  ASSUME ClientTypeOK, NEW c \in Calls, SendCompletes(c)
  PROVE  /\ pc[c] = "sent" /\ pc'[c] = "waiting" /\ UNCHANGED <<slot, result, wakes, fault>>
         /\ c \in DOMAIN queries' /\ queries'[c].wake = TRUE
         /\ queries'[c].reply = IF c \in DOMAIN queries THEN queries[c].reply ELSE "null"
         /\ \A d \in Calls \ {c} : SameCall(d)
  BY DEF SendCompletes, SetResponseCallback, PutQuery, ClientTypeOK, SameCall

LEMMA SendFailsEffect ==
  ASSUME ClientTypeOK, NEW c \in Calls, SendFails(c)
  PROVE  /\ InSend(c) /\ pc'[c] = "returned" /\ result'[c] = "sendFailed"
         /\ UNCHANGED <<slot, queries, wakes, fault>>
         /\ \A d \in Calls \ {c} : SameCall(d)
  BY DEF SendFails, InSend, ClientTypeOK, SameCall

LEMMA RunSetWake ==
  ASSUME ClientTypeOK, NEW c \in Calls, RunWake(c, TRUE)
  PROVE  /\ <<c, TRUE>> \in wakes /\ <<c, TRUE>> \notin wakes'
         /\ <<c, FALSE>> \in wakes' => <<c, FALSE>> \in wakes
         /\ UNCHANGED <<slot, queries, fault>>
         /\ pc'[c] = "returned" /\ result'[c] = CallResult(c)
         /\ \A d \in Calls \ {c} : SameCall(d)
  BY DEF RunWake, ClientTypeOK, SameCall

LEMMA RunEmptyWake ==
  ASSUME ClientTypeOK, NEW c \in Calls, RunWake(c, FALSE)
  PROVE  /\ <<c, FALSE>> \in wakes
         /\ <<c, TRUE>> \in wakes' => <<c, TRUE>> \in wakes
         /\ UNCHANGED <<pc, slot, result, queries>> /\ fault' = "emptyWake"
         /\ \A d \in Calls \ {c} : SameCall(d)
  BY DEF RunWake, ClientTypeOK, SameCall

(* poll leaves the calls without a parsed reply alone.                     *)
LEMMA PollSkips ==
  ASSUME ClientTypeOK, NEW S \in SUBSET toClient, NEW garbled \in SUBSET S,
         ClientPoll(S, garbled), NEW d \in Calls, d \notin Answered(S \ garbled)
  PROVE  SameCall(d)
  <1>1. slot'[d] = slot[d]
    BY DEF ClientPoll, StoreReplies
  <1>2. \A set \in BOOLEAN : <<d, set>> \in wakes' <=> <<d, set>> \in wakes
    BY DEF ClientPoll, PostWakes
  <1>3. /\ d \in DOMAIN queries' <=> d \in DOMAIN queries
        /\ d \in DOMAIN queries => queries'[d] = queries[d]
    BY DEF ClientPoll, EraseQueries
  <1> QED
    BY <1>1, <1>2, <1>3 DEF ClientPoll, SameCall

(* For the others it stores the reply where the query points to a live     *)
(* frame, and erases the query.                                            *)
LEMMA PollStores ==
  ASSUME TypeOK, NEW S \in SUBSET toClient, NEW garbled \in SUBSET S,
         ClientPoll(S, garbled), NEW d \in Answered(S \ garbled)
  PROVE  /\ d \in Calls /\ d \in DOMAIN queries /\ d \notin DOMAIN queries'
         /\ pc'[d] = pc[d] /\ result'[d] = result[d]
         /\ queries[d].reply = "frame" /\ pc[d] # "returned" => slot'[d] # 0
         /\ queries[d].reply # "frame" \/ pc[d] = "returned" => slot'[d] = slot[d]
  <1>0. d \in DOMAIN queries /\ d \in Calls
    BY DEF Answered, TypeOK, ClientTypeOK
  <1>1. d \notin DOMAIN queries' /\ pc'[d] = pc[d] /\ result'[d] = result[d]
    BY DEF ClientPoll, EraseQueries
  <1>2. ASSUME queries[d].reply = "frame" /\ pc[d] # "returned" PROVE slot'[d] # 0
    <2>1. <<d, slot'[d]>> \in S \ garbled
      BY <1>0, <1>2 DEF ClientPoll, StoreReplies
    <2>2. <<d, slot'[d]>> \in Messages
      BY <2>1 DEF TypeOK, TransportTypeOK
    <2> QED
      BY <2>2 DEF Messages
  <1>3. ASSUME queries[d].reply # "frame" \/ pc[d] = "returned" PROVE slot'[d] = slot[d]
    BY <1>0, <1>3 DEF ClientPoll, StoreReplies
  <1> QED
    BY <1>0, <1>1, <1>2, <1>3

(* And it posts the callback of the query.                                 *)
LEMMA PollPosts ==
  ASSUME NEW S \in SUBSET toClient, NEW garbled \in SUBSET S,
         ClientPoll(S, garbled), NEW d \in Answered(S \ garbled)
  PROVE  /\ <<d, queries[d].wake>> \in wakes'
         /\ \A set \in BOOLEAN \ {queries[d].wake} : <<d, set>> \in wakes' => <<d, set>> \in wakes
  BY DEF ClientPoll, PostWakes

-----------------------------------------------------------------------------
LEMMA InitEntry == Init => EntryInv
  <1>1. ASSUME Init, NEW c \in Calls PROVE Entry(c)
    <2>1. pc[c] = "idle" /\ slot[c] = 0 /\ c \notin DOMAIN queries /\ wakes = {}
      BY <1>1 DEF Init, ClientInit
    <2> QED
      BY <2>1 DEF Entry, InSend
  <1> QED
    BY <1>1 DEF EntryInv

(* Whatever the transport, every handler of the client keeps the queries   *)
(* and callbacks in step with the frames.                                  *)
LEMMA ClientKeepsEntries ==
  ASSUME TypeOK, EntryInv, ClientNext
  PROVE  EntryInv'
  <1>0. ClientTypeOK
    BY DEF TypeOK
  <1>1. ASSUME NEW c \in Calls, Entry(c)', \A d \in Calls \ {c} : SameCall(d) PROVE EntryInv'
    BY <1>1, SameEntry DEF EntryInv
  <1>2. ASSUME NEW c \in Calls, Invoke(c) PROVE EntryInv'
    <2>1. Entry(c)
      BY DEF EntryInv
    <2>2. Entry(c)'
      BY <1>0, <1>2, <2>1, InvokeEffect DEF Entry, InSend
    <2> QED
      BY <1>0, <1>1, <1>2, <2>2, InvokeEffect
  <1>3. ASSUME NEW c \in Calls, Transmit(c) PROVE EntryInv'
    <2>1. Entry(c)
      BY DEF EntryInv
    <2>2. Entry(c)'
      BY <1>0, <1>3, <2>1, TransmitEffect DEF Entry, InSend
    <2> QED
      BY <1>0, <1>1, <1>3, <2>2, TransmitEffect
  <1>4. ASSUME NEW c \in Calls, SendCompletes(c) PROVE EntryInv'
    <2>1. Entry(c)
      BY DEF EntryInv
    <2>2. Entry(c)'
      BY <1>0, <1>4, <2>1, SendCompletesEffect DEF Entry, InSend
    <2> QED
      BY <1>0, <1>1, <1>4, <2>2, SendCompletesEffect
  <1>5. ASSUME NEW c \in Calls, SendFails(c) PROVE EntryInv'
    <2>1. Entry(c)
      BY DEF EntryInv
    <2>2. Entry(c)'
      BY <1>0, <1>5, <2>1, SendFailsEffect DEF Entry, InSend
    <2> QED
      BY <1>0, <1>1, <1>5, <2>2, SendFailsEffect
  <1>6. ASSUME NEW c \in Calls, NEW set \in BOOLEAN, RunWake(c, set) PROVE EntryInv'
    <2>1. Entry(c)
      BY DEF EntryInv
    <2>2. CASE RunWake(c, TRUE)
      BY <1>0, <1>1, <2>1, <2>2, RunSetWake DEF Entry, InSend
    <2>3. CASE RunWake(c, FALSE)
      <3>1. Entry(c)'
        BY <1>0, <2>1, <2>3, RunEmptyWake DEF Entry, InSend
      <3> QED
        BY <1>0, <1>1, <2>3, <3>1, RunEmptyWake
    <2> QED
      BY <1>6, <2>2, <2>3
  <1>7. ASSUME NEW S \in SUBSET toClient, NEW garbled \in SUBSET S, ClientPoll(S, garbled)
        PROVE EntryInv'
    <2>1. ASSUME NEW d \in Calls, d \in Answered(S \ garbled) PROVE Entry(d)'
      <3>1. Entry(d) /\ queries[d] \in Query
        BY <1>0, <1>7, <2>1, PollStores DEF EntryInv, ClientTypeOK
      <3>2. pc[d] # "returned" => slot'[d] # 0
        BY <1>7, <2>1, <3>1, PollStores DEF Entry
      <3>3. ASSUME <<d, TRUE>> \in wakes' PROVE pc[d] = "waiting"
        <4>1. queries[d].wake = TRUE \/ <<d, TRUE>> \in wakes
          BY <1>7, <2>1, <3>3, PollPosts
        <4> QED
          BY <1>7, <2>1, <3>1, <4>1, PollStores DEF Entry
      <3> QED
        BY <1>7, <2>1, <3>1, <3>2, <3>3, PollStores DEF Entry, InSend
    <2>2. ASSUME NEW d \in Calls, d \notin Answered(S \ garbled) PROVE Entry(d)'
      BY <1>0, <1>7, <2>2, PollSkips, SameEntry DEF EntryInv
    <2> QED
      BY <2>1, <2>2 DEF EntryInv
  <1> QED
    BY <1>2, <1>3, <1>4, <1>5, <1>6, <1>7 DEF ClientNext

LEMMA NextEntry == TypeOK /\ EntryInv /\ [Next]_vars => EntryInv'
  <1>1. EntryInv /\ UNCHANGED clientVars => EntryInv'
    BY SameEntry DEF EntryInv, SameCall, clientVars
  <1> QED
    BY <1>1, ClientKeepsEntries DEF Next, vars

(* Over every transport, a set callback that is posted finds its coroutine *)
(* suspended and the reply in its frame (RemoteService.cpp:88,             *)
(* Function.cpp:40).                                                       *)
THEOREM WakesFindReplies == Spec => []WakeFindsReply
  <1>1. EntryInv => WakeFindsReply
    BY DEF EntryInv, Entry, WakeFindsReply
  <1> QED
    BY <1>1, InitEntry, NextEntry, TypesHold, PTL DEF Spec

(* Over every transport, the reply in a frame is not overwritten by the    *)
(* reply to another copy of the request (RemoteService.cpp:79, 83, 89).    *)
THEOREM RepliesStay == Spec => ReplyStoredOnce
  <1>1. ASSUME TypeOK, EntryInv, ClientNext, NEW c \in Calls, slot[c] # 0
        PROVE  slot'[c] = slot[c]
    <2>1. ASSUME NEW S \in SUBSET toClient, NEW garbled \in SUBSET S, ClientPoll(S, garbled)
          PROVE  slot'[c] = slot[c]
      <3>1. CASE c \in Answered(S \ garbled)
        <4>1. queries[c].reply # "frame"
          BY <1>1, <2>1, <3>1, PollStores DEF EntryInv, Entry
        <4> QED
          BY <1>1, <2>1, <3>1, <4>1, PollStores
      <3>2. CASE c \notin Answered(S \ garbled)
        BY <1>1, <2>1, <3>2, PollSkips DEF SameCall, TypeOK
      <3> QED
        BY <3>1, <3>2
    <2>2. CASE UNCHANGED slot
      BY <2>2
    <2> QED
      BY <1>1, <2>1, <2>2
         DEF ClientNext, Invoke, Transmit, SendCompletes, SendFails, RunWake
  <1>2. TypeOK /\ EntryInv /\ [Next]_vars
          => [\A c \in Calls : slot[c] # 0 => slot'[c] = slot[c]]_vars
    BY <1>1 DEF Next, vars, clientVars
  <1> QED
    BY <1>2, InitEntry, NextEntry, TypesHold, PTL DEF Spec, ReplyStoredOnce

(* The faults of poll: a null pointer is met for a call that has a reply,  *)
(* a dangling one for a call whose send failed.                            *)
LEMMA FaultsOfPoll ==
  ASSUME TypeOK, CausalInv, SpentInv, EntryInv, fault = "none",
         NEW S \in SUBSET toClient, NEW garbled \in SUBSET S, ClientPoll(S, garbled)
  PROVE  /\ fault' \in {"none", "nullReply", "danglingReply"}
         /\ fault' = "nullReply" =>
              \E c \in Calls, n \in 1..MaxCopies :
                /\ slot[c] \notin {0, n} /\ slot'[c] = slot[c] /\ Produced(<<c, n>>)
         /\ fault' = "danglingReply" => \E c \in Calls : result[c] = "sendFailed"
  <1>1. ASSUME NEW c \in Answered(S \ garbled)
        PROVE  /\ c \in Calls /\ c \in DOMAIN queries /\ queries[c] \in Query /\ Entry(c)
               /\ \E n \in 1..MaxCopies : <<c, n>> \in toClient
    <2>1. c \in Calls /\ c \in DOMAIN queries /\ queries[c] \in Query /\ Entry(c)
      BY DEF Answered, TypeOK, ClientTypeOK, EntryInv
    <2>2. PICK m \in S \ garbled : m[1] = c
      BY DEF Answered
    <2>3. m \in toClient /\ m \in Messages
      BY <2>2 DEF TypeOK, TransportTypeOK
    <2>4. m = <<c, m[2]>> /\ m[2] \in 1..MaxCopies
      BY <2>2, <2>3 DEF Messages
    <2> QED
      BY <2>1, <2>3, <2>4
  <1>2. CASE \E c \in Answered(S \ garbled) : queries[c].reply = "null"
    <2>1. PICK c \in Answered(S \ garbled) : queries[c].reply = "null"
      BY <1>2
    <2>2. slot[c] # 0 /\ slot'[c] = slot[c]
      BY <1>1, <2>1, PollStores DEF Entry
    <2>3. PICK n \in 1..MaxCopies : <<c, n>> \in toClient
      BY <1>1
    <2>4. c \in Calls /\ <<c, n>> \in Messages
      BY <1>1, <2>3 DEF Messages
    <2>5. Produced(<<c, n>>)
      BY <2>3, <2>4 DEF CausalInv, MessageInv
    <2>6. slot[c] # n
      BY <2>3, <2>4 DEF SpentInv
    <2>7. fault' = "nullReply"
      BY <1>2 DEF ClientPoll, StoreFault
    <2> QED
      BY <2>2, <2>4, <2>5, <2>6, <2>7
  <1>3. CASE /\ ~ \E c \in Answered(S \ garbled) : queries[c].reply = "null"
             /\ \E c \in Answered(S \ garbled) : pc[c] = "returned"
    <2>1. PICK c \in Answered(S \ garbled) : pc[c] = "returned"
      BY <1>3
    <2>2. c \in Calls /\ result[c] = "sendFailed"
      BY <1>1, <2>1 DEF Entry
    <2>3. fault' = "danglingReply"
      BY <1>3 DEF ClientPoll, StoreFault
    <2> QED
      BY <2>2, <2>3
  <1>4. CASE /\ ~ \E c \in Answered(S \ garbled) : queries[c].reply = "null"
             /\ ~ \E c \in Answered(S \ garbled) : pc[c] = "returned"
    BY <1>4 DEF ClientPoll, StoreFault
  <1> QED
    BY <1>2, <1>3, <1>4

(* A client that met a bad pointer is stuck there.                         *)
LEMMA FaultsEndTheClient ==
  ASSUME ClientNext, fault # "none"
  PROVE  UNCHANGED <<slot, result, fault>>
  BY DEF ClientNext, Invoke, Transmit, SendCompletes, SendFails, ClientPoll, RunWake, ThreadFree

LEMMA ProducedStays ==
  ASSUME TypeOK, CausalInv, [Next]_vars, NEW m \in Messages, Produced(m)
  PROVE  Produced(m)'
  <1>0. ServerTypeOK /\ toServer \subseteq Messages
    BY DEF TypeOK, TransportTypeOK
  <1>1. CASE UNCHANGED serverVars
    BY <1>1 DEF Produced, HasFunction, serverVars
  <1>2. ASSUME NEW S \in SUBSET toServer, NEW garbled \in SUBSET S, ServerPoll(S, garbled)
        PROVE  Produced(m)'
    BY <1>0, <1>2 DEF ServerPoll, CausalInv, MessageInv, Produced, HasFunction
  <1>3. ASSUME NEW k \in Messages, ReportNotFound(k) \/ StartExec(k)
        PROVE  Produced(m)'
    BY <1>0, <1>3 DEF ReportNotFound, StartExec, ServerTypeOK, Produced, HasFunction
  <1>4. ASSUME NEW k \in Messages, FinishInvoke(k) \/ ReplyAndFinish(k)
        PROVE  Produced(m)'
    BY <1>0, <1>4 DEF FinishInvoke, ReplyAndFinish, ServerTypeOK, Produced, HasFunction
  <1> QED
    BY <1>1, <1>2, <1>3, <1>4 DEF Next, ServerNext, vars

(* Over every transport, a null pointer is only met where a call gets a    *)
(* second reply, and a dangling one only where a send failed               *)
(* (RemoteService.cpp:54, 60, 83).                                         *)
THEOREM RepliesLand == Spec => []RepliesLandInFrames
  <1>1. Init => RepliesLandInFrames
    BY DEF Init, ClientInit, RepliesLandInFrames
  <1>2. ASSUME TypeOK, CausalInv, SpentInv, EntryInv, RepliesLandInFrames, [Next]_vars
        PROVE  RepliesLandInFrames'
    <2>1. \A c \in Calls, n \in 1..MaxCopies : Produced(<<c, n>>) => Produced(<<c, n>>)'
      BY <1>2, ProducedStays DEF Messages
    <2>2. CASE UNCHANGED <<slot, result, fault>>
      BY <1>2, <2>1, <2>2 DEF RepliesLandInFrames
    <2>3. CASE ClientNext /\ fault = "none"
      <3>1. ASSUME NEW S \in SUBSET toClient, NEW garbled \in SUBSET S, ClientPoll(S, garbled)
            PROVE  RepliesLandInFrames'
        <4>1. result' = result
          BY <3>1 DEF ClientPoll
        <4>2. ASSUME fault' = "nullReply"
              PROVE  \E c \in Calls, n \in 1..MaxCopies :
                       slot'[c] \notin {0, n} /\ Produced(<<c, n>>)'
          <5>1. PICK c \in Calls, n \in 1..MaxCopies :
                       slot[c] \notin {0, n} /\ slot'[c] = slot[c] /\ Produced(<<c, n>>)
            BY <1>2, <2>3, <3>1, <4>2, FaultsOfPoll
          <5> QED
            BY <2>1, <5>1
        <4>3. fault' = "danglingReply" => \E c \in Calls : result'[c] = "sendFailed"
          BY <1>2, <2>3, <3>1, <4>1, FaultsOfPoll
        <4> QED
          BY <4>2, <4>3 DEF RepliesLandInFrames
      <3>2. CASE fault' \in {"none", "emptyWake"}
        BY <3>2 DEF RepliesLandInFrames
      <3>3. ASSUME NEW c \in Calls,
                   \/ Invoke(c) \/ Transmit(c) \/ SendCompletes(c) \/ SendFails(c)
                   \/ \E set \in BOOLEAN : RunWake(c, set)
            PROVE  fault' \in {"none", "emptyWake"}
        BY <2>3, <3>3 DEF Invoke, Transmit, SendCompletes, SendFails, RunWake
      <3> QED
        BY <2>3, <3>1, <3>2, <3>3 DEF ClientNext
    <2> QED
      BY <1>2, <2>2, <2>3, FaultsEndTheClient DEF Next, vars, clientVars
  <1> QED
    BY <1>1, <1>2, InitCausal, NextCausal, InitSpent, NextSpent, InitEntry, NextEntry,
       TypesHold, PTL DEF Spec

-----------------------------------------------------------------------------
LEMMA InitQuery == Init => QueryInv
  <1>1. ASSUME Init, NEW c \in Calls PROVE Pending(c)
    <2>1. /\ pc[c] = "idle" /\ slot[c] = 0 /\ result[c] = "none"
          /\ c \notin DOMAIN queries /\ wakes = {}
      BY <1>1 DEF Init, ClientInit
    <2> QED
      BY <2>1 DEF Pending, InSend
  <1>2. ASSUME Init, NEW m \in Messages PROVE result[m[1]] # "sendFailed"
    BY <1>2, MessageType DEF Init, ClientInit
  <1> QED
    BY <1>1, <1>2 DEF Init, ClientInit, QueryInv

(* A reply in flight belongs to a call whose send did not fail.            *)
LEMMA RepliesOfSentCalls ==
  TypeOK /\ CausalInv /\ QueryInv => \A m \in toClient : result[m[1]] # "sendFailed"
  BY DEF TypeOK, TransportTypeOK, CausalInv, MessageInv, QueryInv, Produced

(* Over a safe transport every reply that is stored finds its query and    *)
(* the coroutine that waits for it.                                        *)
LEMMA AnsweredWait ==
  ASSUME SafeTransport, TypeOK, CausalInv, EntryInv, QueryInv,
         NEW S \in SUBSET toClient, NEW garbled \in SUBSET S, ClientPoll(S, garbled),
         NEW c \in Answered(S \ garbled)
  PROVE  /\ c \in Calls /\ pc[c] = "waiting" /\ slot[c] = 0 /\ result[c] # "sendFailed"
         /\ queries[c].wake = TRUE /\ queries[c].reply = "frame"
  <1>1. c \in Calls /\ c \in DOMAIN queries /\ Entry(c) /\ Pending(c)
    BY DEF Answered, TypeOK, ClientTypeOK, EntryInv, QueryInv
  <1>2. result[c] # "sendFailed"
    BY RepliesOfSentCalls DEF Answered
  <1>3. ~InSend(c)
    BY <1>1 DEF ClientPoll, ThreadFree, SafeTransport
  <1>4. pc[c] = "waiting" /\ slot[c] = 0 /\ queries[c].wake = TRUE
    BY <1>1, <1>2, <1>3 DEF Pending
  <1> QED
    BY <1>1, <1>2, <1>4 DEF Entry

LEMMA ClientKeepsQueries ==
  ASSUME SafeTransport, TypeOK, CausalInv, EntryInv, QueryInv, ClientNext, UNCHANGED serverVars
  PROVE  QueryInv'
  <1>0. ClientTypeOK /\ MessageInv /\ task' = task
    BY DEF TypeOK, CausalInv, serverVars
  <1>1. ASSUME NEW c \in Calls, Pending(c)', \A d \in Calls \ {c} : SameCall(d)
        PROVE  \A d \in Calls : Pending(d)'
    BY <1>1, SamePending DEF QueryInv
  <1>2. ASSUME \A c \in Calls : result'[c] = "sendFailed" => result[c] = "sendFailed",
               fault' = "none", toServer' = toServer, \A c \in Calls : Pending(c)'
        PROVE  QueryInv'
    BY <1>0, <1>2, MessageType DEF QueryInv
  <1>3. \A c \in Calls : Pending(c) /\ Entry(c)
    BY DEF QueryInv, EntryInv
  <1>4. ASSUME NEW c \in Calls, Invoke(c) PROVE QueryInv'
    <2>1. Pending(c)'
      BY <1>0, <1>3, <1>4, InvokeEffect DEF Pending, Entry, InSend
    <2>2. toServer' = toServer
      BY <1>4 DEF Invoke
    <2> QED
      BY <1>0, <1>1, <1>2, <1>4, <2>1, <2>2, InvokeEffect DEF QueryInv
  <1>5. ASSUME NEW c \in Calls, Transmit(c) PROVE QueryInv'
    <2>1. Pending(c)'
      BY <1>0, <1>3, <1>5, TransmitEffect DEF Pending, InSend
    <2>2. \A d \in Calls : Pending(d)'
      BY <1>0, <1>1, <1>5, <2>1, TransmitEffect
    <2>3. result[c] # "sendFailed" /\ result' = result /\ fault' = fault
      BY <1>0, <1>3, <1>5, TransmitEffect DEF Pending
    <2>4. ASSUME NEW m \in Messages, m \in toServer' PROVE m \in toServer \/ m[1] = c
      <3>1. PICK k \in 1..MaxCopies : toServer' = toServer \union {<<c, n>> : n \in 1..k}
        BY <1>5 DEF Transmit, SendRequest
      <3> QED
        BY <2>4, <3>1
    <2> QED
      BY <1>0, <2>2, <2>3, <2>4 DEF QueryInv
  <1>6. ASSUME NEW c \in Calls, SendCompletes(c) PROVE QueryInv'
    <2>0. c \in DOMAIN queries /\ slot[c] = 0
      BY <1>0, <1>3, <1>6, SendCompletesEffect DEF Pending, Entry, InSend
    <2>1. Pending(c)'
      BY <1>0, <1>3, <1>6, <2>0, SendCompletesEffect DEF Pending, InSend
    <2>2. toServer' = toServer
      BY <1>6 DEF SendCompletes
    <2> QED
      BY <1>0, <1>1, <1>2, <1>6, <2>1, <2>2, SendCompletesEffect DEF QueryInv
  <1>7. ASSUME NEW c \in Calls, SendFails(c) PROVE QueryInv'
    <2>1. pc[c] = "sending" /\ c \in DOMAIN queries /\ slot[c] = 0
      BY <1>3, <1>7 DEF SendFails, SafeTransport, Pending, InSend, Entry
    <2>2. Pending(c)'
      BY <1>0, <1>3, <1>7, <2>1, SendFailsEffect DEF Pending, InSend
    <2>3. \A d \in Calls : Pending(d)'
      BY <1>0, <1>1, <1>7, <2>2, SendFailsEffect
    <2>4. \A m \in Messages : m[1] = c => task[m] = "none" /\ m \notin toServer
      BY <1>0, <2>1 DEF MessageInv
    <2>5. /\ fault' = "none" /\ toServer' = toServer
          /\ \A d \in Calls \ {c} : result'[d] = result[d]
      BY <1>0, <1>7 DEF SendFails, QueryInv, ClientTypeOK
    <2> QED
      BY <1>0, <2>3, <2>4, <2>5, MessageType DEF QueryInv
  <1>8. ASSUME NEW S \in SUBSET toClient, NEW garbled \in SUBSET S, ClientPoll(S, garbled)
        PROVE QueryInv'
    <2>1. ASSUME NEW c \in Calls, c \in Answered(S \ garbled) PROVE Pending(c)'
      <3>1. pc[c] = "waiting" /\ result[c] # "sendFailed" /\ Pending(c)
        BY <1>3, <1>8, <2>1, AnsweredWait
      <3>2. queries[c].wake = TRUE /\ queries[c].reply = "frame"
        BY <1>8, <2>1, AnsweredWait
      <3>3. /\ pc'[c] = "waiting" /\ result'[c] = result[c] /\ slot'[c] # 0
            /\ c \notin DOMAIN queries'
        BY <1>8, <2>1, <3>1, <3>2, PollStores
      <3>4. <<c, TRUE>> \in wakes' /\ (<<c, FALSE>> \in wakes' => <<c, FALSE>> \in wakes)
        BY <1>8, <2>1, <3>2, PollPosts
      <3> QED
        BY <3>1, <3>3, <3>4 DEF Pending, InSend
    <2>2. ASSUME NEW c \in Calls, c \notin Answered(S \ garbled) PROVE Pending(c)'
      BY <1>0, <1>3, <1>8, <2>2, PollSkips, SamePending
    <2>3. fault' = "none"
      <3>1. \A c \in Answered(S \ garbled) : queries[c].reply # "null" /\ pc[c] # "returned"
        BY <1>8, AnsweredWait
      <3> QED
        BY <1>8, <3>1 DEF ClientPoll, StoreFault, QueryInv
    <2>4. result' = result /\ toServer' = toServer
      BY <1>8 DEF ClientPoll
    <2> QED
      BY <1>2, <2>1, <2>2, <2>3, <2>4
  <1>9. ASSUME NEW c \in Calls, NEW set \in BOOLEAN, RunWake(c, set) PROVE QueryInv'
    <2>1. CASE RunWake(c, FALSE)
      BY <1>0, <1>3, <2>1, RunEmptyWake DEF Pending
    <2>2. CASE RunWake(c, TRUE)
      <3>1. CallResult(c) # "sendFailed"
        BY CallResultType
      <3>2. Pending(c)'
        BY <1>0, <1>3, <2>2, <3>1, RunSetWake DEF Pending, Entry, InSend
      <3>3. fault' = "none" /\ toServer' = toServer
        BY <1>0, <2>2, RunSetWake DEF RunWake, QueryInv
      <3>4. \A d \in Calls \ {c} : SameCall(d)
        BY <1>0, <2>2, RunSetWake
      <3>5. \A d \in Calls : result'[d] = "sendFailed" => result[d] = "sendFailed"
        BY <1>0, <2>2, <3>1, <3>4, RunSetWake DEF SameCall
      <3> QED
        BY <1>1, <1>2, <3>2, <3>3, <3>4, <3>5
    <2> QED
      BY <1>9, <2>1, <2>2
  <1> QED
    BY <1>4, <1>5, <1>6, <1>7, <1>8, <1>9 DEF ClientNext

(* The service touches only tasks of calls that were sent.                 *)
LEMMA ServerKeepsQueries ==
  ASSUME TypeOK, CausalInv, QueryInv, ServerNext, UNCHANGED clientVars
  PROVE  QueryInv'
  <1>0. UNCHANGED <<pc, slot, result, queries, wakes, fault>>
    BY DEF clientVars
  <1>1. ASSUME \A m \in Messages : result[m[1]] = "sendFailed"
                 => task'[m] = "none" /\ m \notin toServer'
        PROVE QueryInv'
    <2>1. \A c \in Calls : Pending(c)'
      BY <1>0 DEF QueryInv, Pending, InSend
    <2> QED
      BY <1>0, <1>1, <2>1 DEF QueryInv
  <1>2. ASSUME NEW S \in SUBSET toServer, NEW garbled \in SUBSET S, ServerPoll(S, garbled)
        PROVE QueryInv'
    BY <1>1, <1>2 DEF ServerPoll, QueryInv
  <1>3. ASSUME NEW m \in Messages, ReportNotFound(m) PROVE QueryInv'
    BY <1>1, <1>3 DEF ReportNotFound, QueryInv
  <1>4. ASSUME NEW m \in Messages, StartExec(m) \/ FinishInvoke(m) \/ ReplyAndFinish(m)
        PROVE QueryInv'
    <2>1. task[m] # "none" /\ toServer' = toServer
      BY <1>4 DEF StartExec, FinishInvoke, ReplyAndFinish
    <2>2. \A k \in Messages : k # m => task'[k] = task[k]
      BY <1>4 DEF StartExec, FinishInvoke, ReplyAndFinish, TypeOK, ServerTypeOK
    <2>3. \A k \in Messages : result[k[1]] = "sendFailed" => task[k] = "none" /\ k \notin toServer
      BY DEF QueryInv
    <2> QED
      BY <1>1, <2>1, <2>2, <2>3
  <1> QED
    BY <1>2, <1>3, <1>4 DEF ServerNext

LEMMA NextQuery ==
  ASSUME SafeTransport, TypeOK, CausalInv, EntryInv, QueryInv, [Next]_vars
  PROVE  QueryInv'
  <1>1. ASSUME UNCHANGED <<clientVars, serverVars>>, toServer' \subseteq toServer
        PROVE  QueryInv'
    <2>1. UNCHANGED <<pc, slot, result, queries, wakes, fault, task>>
      BY <1>1 DEF clientVars, serverVars
    <2>2. \A c \in Calls : Pending(c)'
      BY <2>1 DEF QueryInv, Pending, InSend
    <2> QED
      BY <1>1, <2>1, <2>2 DEF QueryInv
  <1>2. CASE Lose /\ UNCHANGED <<clientVars, serverVars>>
    BY <1>1, <1>2 DEF Lose
  <1>3. CASE UNCHANGED vars
    BY <1>1, <1>3 DEF vars
  <1> QED
    BY <1>2, <1>3, ClientKeepsQueries, ServerKeepsQueries DEF Next

(* Over a safe transport the inductive invariant of the client holds.      *)
LEMMA QueriesHold ==
  ASSUME SafeTransport PROVE Spec => []QueryInv
  <1>1. TypeOK /\ CausalInv /\ EntryInv /\ QueryInv /\ [Next]_vars => QueryInv'
    BY NextQuery
  <1> QED
    BY <1>1, InitQuery, InitEntry, NextEntry, InitCausal, NextCausal, TypesHold, PTL DEF Spec

(* Over a safe transport no reply is stored through a dead or null pointer *)
(* and no empty callback runs, and queries holds exactly the calls that    *)
(* wait for a reply and those whose send failed (RemoteService.cpp:45-89). *)
THEOREM ClientIsSafe ==
  ASSUME SafeTransport
  PROVE  Spec => [](ClientSafe /\ QueryPerPendingCall)
  <1>1. TypeOK /\ QueryInv => ClientSafe /\ QueryPerPendingCall
    BY DEF TypeOK, ClientTypeOK, QueryInv, Pending, ClientSafe, QueryPerPendingCall
  <1> QED
    BY <1>1, QueriesHold, TypesHold, PTL

(* Over a safe transport every reply that is stored wakes its caller: the  *)
(* coroutine it belongs to is suspended and has its callback posted        *)
(* (RemoteService.cpp:83-89).                                              *)
THEOREM NoWakeupIsLost ==
  ASSUME SafeTransport
  PROVE  Spec => []NoLostWakeup
  <1>1. QueryInv => NoLostWakeup
    BY DEF QueryInv, Pending, NoLostWakeup
  <1> QED
    BY <1>1, QueriesHold, PTL

-----------------------------------------------------------------------------
started == {c \in Calls : pc[c] # "idle"}
executed == {c \in Calls : \E n \in 1..MaxCopies : Produced(<<c, n>>)}

LEMMA InitImplements == Init => Abstract!Init
  <1> SUFFICES ASSUME Init PROVE Abstract!Init
    OBVIOUS
  <1>1. pc = [c \in Calls |-> "idle"] /\ result = [c \in Calls |-> "none"]
    BY DEF Init, ClientInit
  <1>2. \A c \in Calls, n \in 1..MaxCopies : ~Produced(<<c, n>>)
    BY DEF Init, ServerInit, Messages, Produced, HasFunction
  <1> QED
    BY <1>1, <1>2 DEF Abstract!Init

(* The client never makes a reply Produced; it starts, ends or leaves      *)
(* alone one call.                                                         *)
LEMMA ClientImplements ==
  ASSUME SafeTransport, TypeOK, CausalInv, EntryInv, QueryInv, ClientNext, UNCHANGED serverVars
  PROVE  [Abstract!Next]_Abstract!specVars
  <1>0. /\ pc \in [Calls -> {"idle", "sending", "sent", "waiting", "returned"}]
        /\ slot \in [Calls -> 0..MaxCopies]
        /\ result \in [Calls -> Results]
    BY DEF TypeOK, ClientTypeOK
  <1>1. executed' = executed
    BY DEF executed, Produced, HasFunction, serverVars
  <1>2. ASSUME started' = started, result' = result PROVE UNCHANGED Abstract!specVars
    BY <1>1, <1>2 DEF Abstract!specVars, started, executed
  <1>3. ASSUME NEW c \in Calls, Invoke(c) PROVE Abstract!Start(c)
    BY <1>0, <1>1, <1>3 DEF Invoke, Abstract!Start, executed
  <1>4. ASSUME NEW c \in Calls, Transmit(c) \/ SendCompletes(c)
        PROVE UNCHANGED Abstract!specVars
    BY <1>0, <1>2, <1>4 DEF Transmit, SendCompletes, started
  <1>5. ASSUME NEW c \in Calls, SendFails(c) PROVE Abstract!FailToSend(c)
    <2>1. pc[c] = "sending" /\ result[c] = "none"
      BY <1>5 DEF SendFails, SafeTransport, QueryInv, Pending
    <2>2. \A n \in 1..MaxCopies : task[<<c, n>>] = "none"
      BY <2>1, MessageType DEF CausalInv, MessageInv
    <2>3. c \in started \ executed
      BY <2>1, <2>2 DEF started, executed, Produced
    <2>4. started' = started
      BY <1>0, <1>5, <2>1 DEF SendFails, started
    <2> QED
      BY <1>1, <1>5, <2>1, <2>3, <2>4
         DEF SendFails, Abstract!FailToSend, started, executed
  <1>6. ASSUME NEW S \in SUBSET toClient, NEW garbled \in SUBSET S, ClientPoll(S, garbled)
        PROVE UNCHANGED Abstract!specVars
    BY <1>2, <1>6 DEF ClientPoll, StoreReplies, StoreFault, PostWakes, EraseQueries, started
  <1>7. ASSUME NEW c \in Calls, NEW set \in BOOLEAN, RunWake(c, set) PROVE Abstract!Return(c)
    <2>0. Entry(c) /\ Pending(c)
      BY DEF EntryInv, QueryInv
    <2>1. set = TRUE
      BY <1>7, <2>0 DEF RunWake, Pending
    <2>2. pc[c] = "waiting" /\ slot[c] # 0 /\ result[c] = "none"
      BY <1>7, <2>0, <2>1 DEF RunWake, Entry, Pending
    <2>3. slot[c] \in 1..MaxCopies
      BY <1>0, <2>2, TransportAssumption
    <2>4. c \in executed
      BY <2>2, <2>3 DEF CausalInv, ReplyInv, executed
    <2>5. started' = started /\ result' = [result EXCEPT ![c] = CallResult(c)]
      BY <1>0, <1>7, <2>1, <2>2 DEF RunWake, started
    <2> QED
      BY <1>1, <2>2, <2>4, <2>5 DEF Abstract!Return, started, executed
  <1> QED
    BY <1>3, <1>4, <1>5, <1>6, <1>7 DEF ClientNext, Abstract!Next

(* The server only ever adds to the calls it executed, and only calls that *)
(* were started and did not fail to be sent.                               *)
LEMMA ServerImplements ==
  ASSUME TypeOK, CausalInv, CausalInv', QueryInv, QueryInv', ServerNext, UNCHANGED clientVars
  PROVE  [Abstract!Next]_Abstract!specVars
  <1>0. ServerTypeOK /\ toServer \subseteq Messages
    BY DEF TypeOK, TransportTypeOK
  <1>1. started' = started /\ result' = result
    BY DEF started, clientVars
  <1>2. \A m \in Messages : Produced(m) => Produced(m)'
    <2>1. ASSUME NEW S \in SUBSET toServer, NEW garbled \in SUBSET S, ServerPoll(S, garbled),
                 NEW m \in Messages, Produced(m)
          PROVE Produced(m)'
      BY <1>0, <2>1 DEF ServerPoll, CausalInv, MessageInv, Produced, HasFunction
    <2>2. ASSUME NEW k \in Messages, NEW m \in Messages, Produced(m),
                 ReportNotFound(k) \/ StartExec(k) \/ FinishInvoke(k) \/ ReplyAndFinish(k)
          PROVE Produced(m)'
      BY <1>0, <2>2
         DEF ReportNotFound, StartExec, FinishInvoke, ReplyAndFinish, ServerTypeOK,
             Produced, HasFunction
    <2> QED
      BY <2>1, <2>2 DEF ServerNext
  <1>3. executed \subseteq executed'
    BY <1>2, MessageType DEF executed
  <1>4. ASSUME NEW c \in executed' \ executed
        PROVE  c \in started /\ result[c] = "none"
    <2>1. PICK n \in 1..MaxCopies : Produced(<<c, n>>)'
      BY DEF executed
    <2>2. <<c, n>> \in Messages /\ c \in Calls
      BY MessageType DEF executed, Messages
    <2>3. task'[<<c, n>>] # "none"
      BY <2>1 DEF Produced
    <2>4. pc'[c] \notin {"idle", "sending"} /\ result'[c] # "sendFailed"
      BY <2>2, <2>3 DEF CausalInv, MessageInv, QueryInv
    <2>5. pc[c] # "idle" /\ result[c] # "sendFailed"
      BY <1>1, <2>4 DEF clientVars
    <2>6. result[c] = "none"
      <3>1. SUFFICES ASSUME result[c] # "none" PROVE FALSE
        OBVIOUS
      <3>2. slot[c] # 0 /\ Produced(<<c, slot[c]>>)
        BY <2>2, <2>5, <3>1 DEF CausalInv, ReplyInv
      <3>3. slot[c] \in 1..MaxCopies
        BY <2>2, <3>2, TransportAssumption DEF TypeOK, ClientTypeOK
      <3> QED
        BY <2>2, <3>2, <3>3 DEF executed
    <2> QED
      BY <2>2, <2>5, <2>6 DEF started
  <1>5. CASE executed' = executed
    BY <1>1, <1>5 DEF Abstract!specVars, started, executed
  <1>6. CASE executed' # executed
    <2>1. Abstract!Execute(executed' \ executed)
      BY <1>1, <1>3, <1>4, <1>6 DEF Abstract!Execute, started, executed
    <2>2. executed' \ executed \in SUBSET Calls
      BY DEF executed
    <2> QED
      BY <2>1, <2>2 DEF Abstract!Next
  <1> QED
    BY <1>5, <1>6

(* Over a safe transport the client and the server implement RpcSpec.      *)
THEOREM Implementation ==
  ASSUME SafeTransport
  PROVE  Spec => ImplementsRpcSpec
  <1>1. Lose /\ UNCHANGED <<clientVars, serverVars>> => UNCHANGED Abstract!specVars
    BY DEF Lose, Abstract!specVars, Produced, HasFunction, clientVars, serverVars
  <1>2. UNCHANGED vars => UNCHANGED Abstract!specVars
    BY DEF vars, Abstract!specVars, Produced, HasFunction, clientVars, serverVars
  <1>3. TypeOK /\ CausalInv /\ CausalInv' /\ EntryInv /\ QueryInv /\ QueryInv' /\ [Next]_vars
          => [Abstract!Next]_Abstract!specVars
    BY <1>1, <1>2, ClientImplements, ServerImplements DEF Next
  <1> QED
    BY <1>3, QueriesHold, InitCausal, NextCausal, InitEntry, NextEntry, TypesHold,
       InitImplements, PTL
       DEF Spec, ImplementsRpcSpec, Abstract!Spec
=============================================================================
