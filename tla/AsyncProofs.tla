----------------------------- MODULE AsyncProofs -----------------------------
(***************************************************************************)
(* Proofs about Async for any tasks with any number of children: what      *)
(* sync_wait returns, what race leaves waiting, and what a pool keeps.     *)
(***************************************************************************)
EXTENDS Async, FiniteSetTheorems, TLAPS

(* A sequence, of whatever.                                                *)
IsQueue(q) == \E S : q \in Seq(S)

(* What the entries of the queue refer to is there.  A task is started     *)
(* once, and what sync_wait has scheduled is resumed once.                 *)
QueueInv ==
  /\ IsQueue(queue)
  /\ \A k \in 1..Len(queue) : queue[k][1] \in {"start", "fire", "abort"} => queue[k][2] \in Tasks
  /\ \A k \in 1..Len(queue) : queue[k][1] = "fire" => queue[k][3] \in Children
  /\ \A k \in 1..Len(queue) : queue[k][1] = "start" => state[queue[k][2]] = "pushed"
  /\ \A j, k \in 1..Len(queue) :
       queue[j][1] = "start" /\ queue[k][1] = "start" /\ queue[j][2] = queue[k][2] => j = k
  /\ \A j, k \in 1..Len(queue) : queue[j][1] = "scheduled" /\ queue[k][1] = "scheduled" => j = k

Scheduled == \E k \in 1..Len(queue) : queue[k][1] = "scheduled"

(* The event is set when the outcome is there, and by nothing else.        *)
WaitInv ==
  /\ main \in {"idle", "started", "asleep", "valueNotSet", "returned", "threw"}
  /\ received \in {"empty", "value", "exception"}
  /\ event \in BOOLEAN
  /\ event => received # "empty"
  /\ main \in {"valueNotSet", "returned", "threw"} => event /\ main = Get[received]
  /\ event \/ main = "idle" => ~ Scheduled
  /\ main = "idle" => ~ event

(* A task that was not started has not gone on, and one that went on has   *)
(* neither children nor delays left.                                       *)
ChildrenInv ==
  /\ state \in [Tasks -> TaskStates]
  /\ child \in [Tasks -> [Children -> ChildStates]]
  /\ timer \in [Tasks -> [Children -> TimerStates]]
  /\ resumed \in [Tasks -> Nat]
  /\ \A t \in Tasks : state[t] \in {"new", "pushed"} =>
       resumed[t] = 0 /\ \A i \in Children : child[t][i] = "created"
  /\ \A t \in Tasks, i \in Children :
       resumed[t] > 0 => child[t][i] = "destroyed" /\ timer[t][i] # "armed"

Sweeping == \E k \in 1..Len(queue) : queue[k] = <<"cleanup">>

SweptInv ==
  /\ pool \subseteq Tasks
  /\ \A t \in pool : state[t] = "ended" /\ fault = "none" => Sweeping

AsyncInv == QueueInv /\ WaitInv /\ ChildrenInv /\ SweptInv

------------------------------------------------------------------------------
(* The queue after a handler: the rest of it, and what the handler posted. *)

NewEntry(h) == h = <<"cleanup">> \/ (h[1] = "abort" /\ h[2] \in Tasks)

Consumed(q2, q) ==
  /\ IsQueue(q2)
  /\ \A k \in 1..Len(q2) : (k + 1 \in 1..Len(q) /\ q2[k] = q[k + 1]) \/ NewEntry(q2[k])
  /\ \A k \in 2..Len(q) : k - 1 \in 1..Len(q2) /\ q2[k - 1] = q[k]

LEMMA TailConsumes ==
  ASSUME NEW q, IsQueue(q), q # << >>
  PROVE  Consumed(Tail(q), q)
<1>1. PICK S : q \in Seq(S)
  BY DEF IsQueue
<1>2. /\ Tail(q) \in Seq(S) /\ Len(Tail(q)) = Len(q) - 1 /\ Len(q) \in Nat
      /\ \A k \in 1..Len(q) - 1 : Tail(q)[k] = q[k + 1]
  BY <1>1
<1> QED BY <1>2 DEF Consumed, IsQueue

(* Sequences one after the other.                                          *)
LEMMA Joins ==
  ASSUME NEW U, NEW u \in Seq(U), NEW v \in Seq(U), NEW w, w = u \o v
  PROVE  /\ w \in Seq(U) /\ Len(w) = Len(u) + Len(v)
         /\ Len(u) \in Nat /\ Len(v) \in Nat
         /\ \A k \in 1..Len(u) : w[k] = u[k]
         /\ \A k \in 1..Len(v) : w[Len(u) + k] = v[k]
<1>1. Len(u) \in Nat /\ Len(v) \in Nat
  OBVIOUS
<1>2. w \in Seq(U) /\ Len(w) = Len(u) + Len(v)
  OBVIOUS
<1>3. \A k \in 1..Len(u) : w[k] = u[k]
  OBVIOUS
<1>4. \A k \in 1..Len(v) : w[Len(u) + k] = v[k]
  OBVIOUS
<1> QED BY <1>1, <1>2, <1>3, <1>4

(* p is r, a and c in a row, all of elements of U.                         *)
InARow(p, r, a, c, U) ==
  /\ p \in Seq(U) /\ Len(p) = Len(r) + Len(a) + Len(c)
  /\ Len(r) \in Nat /\ Len(a) \in Nat /\ Len(c) \in Nat
  /\ \A k \in 1..Len(r) : p[k] = r[k]
  /\ \A k \in 1..Len(a) : p[Len(r) + k] = a[k]
  /\ \A k \in 1..Len(c) : p[Len(r) + Len(a) + k] = c[k]

LEMMA JoinsTwice ==
  ASSUME NEW U, NEW r \in Seq(U), NEW a \in Seq(U), NEW c \in Seq(U)
  PROVE  InARow(r \o a \o c, r, a, c, U)
<1>0. PICK p : p = r \o a \o c
  OBVIOUS
<1>1. PICK u : u = r \o a
  OBVIOUS
<1>2. /\ u \in Seq(U) /\ Len(u) = Len(r) + Len(a)
      /\ Len(r) \in Nat /\ Len(a) \in Nat
      /\ \A k \in 1..Len(r) : u[k] = r[k]
      /\ \A k \in 1..Len(a) : u[Len(r) + k] = a[k]
  BY <1>1, Joins
<1>3. u \in Seq(U) /\ p = u \o c
  BY <1>0, <1>1, <1>2
<1>4. /\ p \in Seq(U) /\ Len(p) = Len(u) + Len(c)
      /\ Len(c) \in Nat
      /\ \A k \in 1..Len(u) : p[k] = u[k]
      /\ \A k \in 1..Len(c) : p[Len(u) + k] = c[k]
  BY <1>3, Joins
<1>5. \A k \in 1..Len(r) : p[k] = r[k]
  BY <1>2, <1>4
<1>6. \A k \in 1..Len(a) : p[Len(r) + k] = a[k]
  BY <1>2, <1>4
<1>7. InARow(p, r, a, c, U)
  BY <1>2, <1>4, <1>5, <1>6 DEF InARow
<1> QED BY <1>0, <1>7

(* The handlers p is posted with; one of them is a cleanup.                *)
Posted(p) == IsQueue(p) /\ \A k \in 1..Len(p) : NewEntry(p[k])
Cleans(p) == \E k \in 1..Len(p) : p[k] = <<"cleanup">>

(* p is the queue q after the handler at its head has posted a, then c.    *)
AfterHead(p, q, a, c) == p = Tail(q) \o a \o c

LEMMA PostsAfterTail ==
  ASSUME NEW q, IsQueue(q), q # << >>, NEW a, Posted(a), NEW c, Posted(c),
         NEW p, AfterHead(p, q, a, c)
  PROVE  Consumed(p, q) /\ (Cleans(c) => Cleans(p))
<1>1. PICK S : q \in Seq(S)
  BY DEF IsQueue
<1>2. PICK A : a \in Seq(A)
  BY DEF Posted, IsQueue
<1>3. PICK C : c \in Seq(C)
  BY DEF Posted, IsQueue
<1>4. PICK r : r = Tail(q)
  OBVIOUS
<1>5. /\ r \in Seq(S) /\ Len(r) = Len(q) - 1 /\ Len(q) \in Nat
      /\ \A k \in 1..Len(r) : r[k] = q[k + 1]
  BY <1>1, <1>4
<1>6. p = r \o a \o c
  BY <1>4 DEF AfterHead
<1>7. PICK U : U = S \union A \union C
  OBVIOUS
<1>8. r \in Seq(U) /\ a \in Seq(U) /\ c \in Seq(U)
  <2>1. S \subseteq U /\ A \subseteq U /\ C \subseteq U
    BY <1>7
  <2> QED BY <1>2, <1>3, <1>5, <2>1
<1>9. /\ p \in Seq(U) /\ Len(p) = Len(r) + Len(a) + Len(c)
      /\ Len(r) \in Nat /\ Len(a) \in Nat /\ Len(c) \in Nat
      /\ \A k \in 1..Len(r) : p[k] = r[k]
      /\ \A k \in 1..Len(a) : p[Len(r) + k] = a[k]
      /\ \A k \in 1..Len(c) : p[Len(r) + Len(a) + k] = c[k]
  <2>1. InARow(r \o a \o c, r, a, c, U)
    BY <1>8, JoinsTwice
  <2> QED BY <1>6, <2>1 DEF InARow
<1>10. ASSUME NEW k \in 1..Len(p), k \notin 1..Len(r) PROVE NewEntry(p[k])
  <2>1. CASE k <= Len(r) + Len(a)
    <3>1. k - Len(r) \in 1..Len(a) /\ Len(r) + (k - Len(r)) = k
      BY <1>9, <1>10, <2>1
    <3>2. p[k] = a[k - Len(r)]
      BY <1>9, <3>1
    <3> QED BY <3>1, <3>2 DEF Posted
  <2>2. CASE ~ (k <= Len(r) + Len(a))
    <3>1. /\ k - Len(r) - Len(a) \in 1..Len(c)
          /\ Len(r) + Len(a) + (k - Len(r) - Len(a)) = k
      BY <1>9, <1>10, <2>2
    <3>2. p[k] = c[k - Len(r) - Len(a)]
      BY <1>9, <3>1
    <3> QED BY <3>1, <3>2 DEF Posted
  <2> QED BY <2>1, <2>2
<1>11. Consumed(p, q)
  <2>1. ASSUME NEW k \in 1..Len(p), k \in 1..Len(r)
        PROVE  k + 1 \in 1..Len(q) /\ p[k] = q[k + 1]
    BY <1>5, <1>9, <2>1
  <2>2. ASSUME NEW k \in 2..Len(q) PROVE k - 1 \in 1..Len(p) /\ p[k - 1] = q[k]
    <3>1. k - 1 \in 1..Len(r) /\ (k - 1) + 1 = k /\ Len(r) <= Len(p)
      BY <1>5, <1>9
    <3> QED BY <1>5, <1>9, <3>1
  <2> QED BY <1>9, <1>10, <2>1, <2>2 DEF Consumed, IsQueue
<1>12. ASSUME NEW k \in 1..Len(c), c[k] = <<"cleanup">> PROVE Cleans(p)
  <2>1. PICK m : m = Len(r) + Len(a) + k
    OBVIOUS
  <2>2. m \in 1..Len(p)
    BY <1>9, <2>1
  <2>3. p[m] = c[k]
    BY <1>9, <2>1
  <2> QED BY <1>12, <2>2, <2>3 DEF Cleans
<1> QED BY <1>11, <1>12 DEF Cleans

(* No entry but the head's is gone, and none is new that anything resumes. *)
LEMMA QueueKept ==
  ASSUME QueueInv, Consumed(queue', queue),
         \A k \in 2..Len(queue) : queue[k][1] = "start" => state'[queue[k][2]] = "pushed"
  PROVE  QueueInv' /\ (Scheduled' => Scheduled)
<1> DEFINE L == Len(queue)
           M == Len(queue')
<1>1. L \in Nat /\ M \in Nat
  BY DEF QueueInv, Consumed, IsQueue
<1>2. ASSUME NEW k \in 1..M, queue'[k][1] \in {"start", "scheduled", "fire"}
      PROVE  k + 1 \in 2..L /\ k + 1 \in 1..L /\ queue'[k] = queue[k + 1]
  <2>1. ~ NewEntry(queue'[k])
    BY <1>2 DEF NewEntry
  <2> QED BY <1>1, <2>1 DEF Consumed
<1>3. ASSUME NEW k \in 1..M, queue'[k][1] \in {"start", "fire", "abort"} PROVE queue'[k][2] \in Tasks
  <2>1. (k + 1 \in 1..L /\ queue'[k] = queue[k + 1]) \/ NewEntry(queue'[k])
    BY DEF Consumed
  <2>2. CASE NewEntry(queue'[k])
    BY <1>3, <2>2 DEF NewEntry
  <2>3. CASE k + 1 \in 1..L /\ queue'[k] = queue[k + 1]
    BY <1>3, <2>3 DEF QueueInv
  <2> QED BY <2>1, <2>2, <2>3
<1>4. ASSUME NEW k \in 1..M, queue'[k][1] = "start" PROVE state'[queue'[k][2]] = "pushed"
  BY <1>2, <1>4
<1>5. ASSUME NEW j \in 1..M, NEW k \in 1..M,
             queue'[j][1] = "start", queue'[k][1] = "start", queue'[j][2] = queue'[k][2]
      PROVE  j = k
  <2>1. j + 1 \in 1..L /\ k + 1 \in 1..L /\ queue'[j] = queue[j + 1] /\ queue'[k] = queue[k + 1]
    BY <1>2, <1>5
  <2>2. j + 1 = k + 1
    BY <1>5, <2>1 DEF QueueInv
  <2> QED BY <1>1, <2>2
<1>6. ASSUME NEW j \in 1..M, NEW k \in 1..M,
             queue'[j][1] = "scheduled", queue'[k][1] = "scheduled"
      PROVE  j = k
  <2>1. j + 1 \in 1..L /\ k + 1 \in 1..L /\ queue'[j] = queue[j + 1] /\ queue'[k] = queue[k + 1]
    BY <1>2, <1>6
  <2>2. j + 1 = k + 1
    BY <1>6, <2>1 DEF QueueInv
  <2> QED BY <1>1, <2>2
<1>7. QueueInv'
  <2>1. \A k \in 1..M : queue'[k][1] = "fire" => queue'[k][3] \in Children
    BY <1>2 DEF QueueInv
  <2> QED BY <1>3, <1>4, <1>5, <1>6, <2>1 DEF QueueInv, Consumed
<1>8. Scheduled' => Scheduled
  BY <1>2 DEF Scheduled
<1> QED BY <1>7, <1>8

LEMMA WaitKept ==
  ASSUME WaitInv, UNCHANGED waitVars, Scheduled' => Scheduled
  PROVE  WaitInv'
  BY DEF WaitInv, waitVars

(* A cleanup that is not at the head of the queue stays.                   *)
LEMMA SweepStays ==
  ASSUME QueueInv, Consumed(queue', queue), Head(queue) # <<"cleanup">>, queue # << >>, Sweeping
  PROVE  Sweeping'
<1>1. PICK k \in 1..Len(queue) : queue[k] = <<"cleanup">>
  BY DEF Sweeping
<1>2. PICK S : queue \in Seq(S)
  BY DEF QueueInv, IsQueue
<1>3. k # 1 /\ k \in 2..Len(queue)
  BY <1>1, <1>2
<1> QED BY <1>1, <1>3 DEF Consumed, Sweeping

------------------------------------------------------------------------------
(* The two ways on of a task whose handler ran                             *)

(* The head of the queue is of t, which is in the pool's hands.            *)
Handles(t) ==
  /\ queue # << >> /\ Head(queue) # <<"cleanup">>
  /\ t \in Tasks
  /\ (Head(queue)[1] = "start" /\ Head(queue)[2] = t) \/ state[t] # "pushed"

LEMMA OthersStayPushed ==
  ASSUME QueueInv, NEW t, Handles(t), \A u \in Tasks : u # t => state'[u] = state[u]
  PROVE  \A k \in 2..Len(queue) : queue[k][1] = "start" => state'[queue[k][2]] = "pushed"
<1> SUFFICES ASSUME NEW k \in 2..Len(queue), queue[k][1] = "start"
             PROVE  state'[queue[k][2]] = "pushed"
  OBVIOUS
<1>1. PICK S : queue \in Seq(S)
  BY DEF QueueInv, IsQueue
<1>2. /\ k \in 1..Len(queue) /\ 1 \in 1..Len(queue) /\ k # 1 /\ queue[1] = Head(queue)
  BY <1>1 DEF Handles
<1>3. state[queue[k][2]] = "pushed" /\ queue[k][2] \in Tasks
  BY <1>2 DEF QueueInv
<1>4. queue[k][2] # t
  <2>1. CASE Head(queue)[1] = "start" /\ Head(queue)[2] = t
    <3>1. queue[1][1] = "start" /\ queue[1][2] = t
      BY <1>2, <2>1
    <3> QED BY <1>2, <3>1 DEF QueueInv
  <2>2. CASE state[t] # "pushed"
    BY <1>3, <2>2
  <2> QED BY <2>1, <2>2 DEF Handles
<1> QED BY <1>3, <1>4

LEMMA ContinueKeeps ==
  ASSUME AsyncInv, NEW t, Handles(t), NEW ch, NEW tm \in [Children -> TimerStates],
         NEW times \in {1, 2}, Continue(t, ch, tm, Tail(queue), times),
         fault = "none", UNCHANGED <<pool, waitVars>>
  PROVE  AsyncInv'
<1> DEFINE failed == Has(ch, "failed") # {}
           A == Cancelled(tm)
           a == [k \in 1..Cardinality(A) |-> <<"abort", t, InOrder(A)[k]>>]
           c == IF failed THEN << >> ELSE PostCleanup(t)
<1>1. /\ resumed' = [resumed EXCEPT ![t] = @ + times]
      /\ state' = [state EXCEPT ![t] = IF failed THEN "threw" ELSE "ended"]
      /\ child' = [child EXCEPT ![t] = [i \in Children |-> "destroyed"]]
      /\ timer' = [timer EXCEPT ![t] = [i \in Children |-> IF i \in A THEN "queued" ELSE tm[i]]]
      /\ queue' = Tail(queue) \o a \o c
  BY DEF Continue
<1>2. t \in Tasks /\ queue # << >> /\ IsQueue(queue)
  BY DEF Handles, AsyncInv, QueueInv
<1>3. IsQueue(a) /\ \A k \in 1..Len(a) : NewEntry(a[k])
  <2>1. Cardinality(A) \in Nat
    BY AsyncAssumption, FS_Subset, FS_CardinalityType DEF Cancelled
  <2> DEFINE n == Cardinality(A)
             E == {a[k] : k \in 1..n}
  <2>2. a = [k \in 1..n |-> a[k]] /\ \A k \in 1..n : a[k] \in E
    OBVIOUS
  <2>3. \A k \in 1..n : a[k][1] = "abort" /\ a[k][2] = t
    OBVIOUS
  <2> HIDE DEF a, n, E
  <2>4. a \in [1..n -> E] /\ n \in Nat
    BY <2>1, <2>2 DEF n
  <2>5. a \in Seq(E) /\ Len(a) = n
    BY <2>4
  <2> QED BY <1>2, <2>3, <2>5 DEF IsQueue, NewEntry
<1>4. IsQueue(c) /\ (\A k \in 1..Len(c) : NewEntry(c[k])) /\ (~ failed => c = <<<<"cleanup">>>>)
  <2>1. CASE failed
    <3>1. c = << >> /\ << >> \in Seq({}) /\ Len(<< >>) = 0
      BY <2>1
    <3> HIDE DEF c, failed
    <3> QED BY <2>1, <3>1 DEF IsQueue
  <2>2. CASE ~ failed
    <3>1. c = <<<<"cleanup">>>>
      BY <2>2 DEF PostCleanup
    <3> HIDE DEF c, failed
    <3>2. c \in Seq({<<"cleanup">>}) /\ Len(c) = 1 /\ c[1] = <<"cleanup">>
      BY <3>1
    <3>3. NewEntry(c[1]) /\ \A k \in 1..Len(c) : k = 1
      BY <3>2 DEF NewEntry
    <3>4. \A k \in 1..Len(c) : NewEntry(c[k])
      BY <3>3
    <3> QED BY <3>1, <3>2, <3>4 DEF IsQueue
  <2> QED BY <2>1, <2>2
<1> HIDE DEF a, c
<1>5. Consumed(queue', queue) /\ (~ failed => Sweeping')
  <2>1. PICK q, x, y, p : q = queue /\ x = a /\ y = c /\ p = Tail(q) \o x \o y
    OBVIOUS
  <2>2. IsQueue(q) /\ q # << >> /\ Posted(x) /\ Posted(y) /\ AfterHead(p, q, x, y)
    BY <1>2, <1>3, <1>4, <2>1 DEF Posted, AfterHead
  <2>3. Consumed(p, q) /\ (Cleans(y) => Cleans(p))
    BY <2>2, PostsAfterTail
  <2>4. queue' = p /\ (~ failed => Cleans(y))
    <3>1. Cleans(<<<<"cleanup">>>>)
      BY DEF Cleans
    <3> QED BY <1>1, <1>4, <2>1, <3>1
  <2> QED BY <2>1, <2>3, <2>4 DEF Sweeping, Cleans
<1> HIDE DEF failed, A
<1>6. /\ state \in [Tasks -> TaskStates] /\ timer \in [Tasks -> [Children -> TimerStates]]
      /\ child \in [Tasks -> [Children -> ChildStates]] /\ resumed \in [Tasks -> Nat]
  BY DEF AsyncInv, ChildrenInv
<1>7. QueueInv' /\ (Scheduled' => Scheduled)
  <2>1. \A u \in Tasks : u # t => state'[u] = state[u]
    BY <1>1, <1>6
  <2> QED BY <1>5, <2>1, OthersStayPushed, QueueKept DEF AsyncInv
<1>8. WaitInv'
  BY <1>7, WaitKept DEF AsyncInv
<1>9. ChildrenInv'
  <2>1. /\ state' \in [Tasks -> TaskStates] /\ state'[t] \in {"threw", "ended"}
    BY <1>1, <1>2, <1>6 DEF TaskStates
  <2>2. child' \in [Tasks -> [Children -> ChildStates]]
    BY <1>1, <1>6 DEF ChildStates
  <2> DEFINE tt == [i \in Children |-> IF i \in A THEN "queued" ELSE tm[i]]
  <2>3. tt \in [Children -> TimerStates] /\ \A i \in Children : tt[i] # "armed"
    BY DEF TimerStates, A, Cancelled
  <2> HIDE DEF tt
  <2>4. timer' = [timer EXCEPT ![t] = tt]
    BY <1>1 DEF tt
  <2>5. timer' \in [Tasks -> [Children -> TimerStates]] /\ timer'[t] = tt
    BY <1>2, <1>6, <2>3, <2>4
  <2>6. resumed' \in [Tasks -> Nat]
    BY <1>1, <1>2, <1>6
  <2>7. ASSUME NEW u \in Tasks, state'[u] \in {"new", "pushed"}
        PROVE  resumed'[u] = 0 /\ \A i \in Children : child'[u][i] = "created"
    <3>1. u # t /\ state'[u] = state[u] /\ resumed'[u] = resumed[u] /\ child'[u] = child[u]
      BY <1>1, <1>6, <2>1, <2>7
    <3> QED BY <2>7, <3>1 DEF AsyncInv, ChildrenInv
  <2>8. ASSUME NEW u \in Tasks, NEW i \in Children, resumed'[u] > 0
        PROVE  child'[u][i] = "destroyed" /\ timer'[u][i] # "armed"
    <3>1. CASE u = t
      <4>1. child'[t] = [j \in Children |-> "destroyed"]
        BY <1>1, <1>2, <1>6
      <4> QED BY <2>3, <2>5, <3>1, <4>1
    <3>2. CASE u # t
      <4>1. resumed'[u] = resumed[u] /\ child'[u] = child[u] /\ timer'[u] = timer[u]
        BY <1>1, <1>6, <2>4, <3>2
      <4> QED BY <2>8, <4>1 DEF AsyncInv, ChildrenInv
    <3> QED BY <3>1, <3>2
  <2> QED BY <2>1, <2>2, <2>5, <2>6, <2>7, <2>8 DEF ChildrenInv
<1>10. SweptInv'
  <2>1. ASSUME NEW u \in pool, state'[u] = "ended" PROVE Sweeping'
    <3>1. CASE u = t
      <4>1. ~ failed
        BY <1>1, <1>2, <1>6, <2>1, <3>1
      <4> QED BY <1>5, <4>1
    <3>2. CASE u # t
      <4>1. state[u] = "ended"
        BY <1>1, <1>6, <2>1, <3>2 DEF AsyncInv, SweptInv
      <4>2. Sweeping
        BY <4>1 DEF AsyncInv, SweptInv
      <4> QED BY <1>5, <4>2, SweepStays DEF AsyncInv, Handles
    <3> QED BY <3>1, <3>2
  <2> QED BY <2>1 DEF SweptInv, AsyncInv
<1> QED BY <1>7, <1>8, <1>9, <1>10 DEF AsyncInv

LEMMA WaitKeeps ==
  ASSUME AsyncInv, NEW t, Handles(t), NEW ch \in [Children -> ChildStates],
         NEW tm \in [Children -> TimerStates], Wait(t, ch, tm, Tail(queue)),
         resumed[t] = 0, UNCHANGED <<pool, waitVars>>
  PROVE  AsyncInv'
<1>1. /\ child' = [child EXCEPT ![t] = ch] /\ timer' = [timer EXCEPT ![t] = tm]
      /\ state' = [state EXCEPT ![t] = "awaiting"] /\ queue' = Tail(queue)
      /\ UNCHANGED <<resumed, fault>>
  BY DEF Wait
<1>2. t \in Tasks /\ queue # << >> /\ Consumed(queue', queue)
  BY <1>1, TailConsumes DEF Handles, AsyncInv, QueueInv
<1>3. /\ state \in [Tasks -> TaskStates] /\ timer \in [Tasks -> [Children -> TimerStates]]
      /\ child \in [Tasks -> [Children -> ChildStates]] /\ resumed \in [Tasks -> Nat]
  BY DEF AsyncInv, ChildrenInv
<1>4. QueueInv' /\ (Scheduled' => Scheduled)
  <2>1. \A u \in Tasks : u # t => state'[u] = state[u]
    BY <1>1, <1>3
  <2> QED BY <1>2, <2>1, OthersStayPushed, QueueKept DEF AsyncInv
<1>5. WaitInv'
  BY <1>4, WaitKept DEF AsyncInv
<1>6. ChildrenInv'
  <2>1. /\ state' \in [Tasks -> TaskStates] /\ timer' \in [Tasks -> [Children -> TimerStates]]
        /\ child' \in [Tasks -> [Children -> ChildStates]] /\ resumed' \in [Tasks -> Nat]
    BY <1>1, <1>3 DEF TaskStates
  <2>2. /\ state'[t] = "awaiting" /\ resumed'[t] = 0
        /\ \A u \in Tasks : u # t => /\ state'[u] = state[u] /\ child'[u] = child[u]
                                     /\ timer'[u] = timer[u] /\ resumed'[u] = resumed[u]
    BY <1>1, <1>2, <1>3
  <2>3. ASSUME NEW u \in Tasks, state'[u] \in {"new", "pushed"}
        PROVE  resumed'[u] = 0 /\ \A i \in Children : child'[u][i] = "created"
    BY <2>2, <2>3 DEF AsyncInv, ChildrenInv
  <2>4. ASSUME NEW u \in Tasks, NEW i \in Children, resumed'[u] > 0
        PROVE  child'[u][i] = "destroyed" /\ timer'[u][i] # "armed"
    BY <2>2, <2>4 DEF AsyncInv, ChildrenInv
  <2> QED BY <2>1, <2>3, <2>4 DEF ChildrenInv
<1>7. SweptInv'
  <2>1. ASSUME NEW u \in pool, state'[u] = "ended", fault = "none" PROVE Sweeping'
    <3>1. u # t /\ state[u] = "ended"
      BY <1>1, <1>2, <1>3, <2>1 DEF AsyncInv, SweptInv
    <3>2. Sweeping
      BY <2>1, <3>1 DEF AsyncInv, SweptInv
    <3> QED BY <1>2, <3>2, SweepStays DEF AsyncInv, Handles
  <2> QED BY <1>1, <2>1 DEF SweptInv, AsyncInv
<1> QED BY <1>4, <1>5, <1>6, <1>7 DEF AsyncInv

LEMMA DieKeeps ==
  ASSUME AsyncInv, queue # << >>, queue' = Tail(queue), Die("deadFrame"),
         UNCHANGED <<pool, waitVars>>
  PROVE  AsyncInv'
<1>1. fault' = "deadFrame" /\ UNCHANGED <<state, child, timer, resumed>>
  BY DEF Die
<1>2. Consumed(queue', queue)
  BY TailConsumes DEF AsyncInv, QueueInv
<1>3. \A k \in 2..Len(queue) : queue[k][1] = "start" => state'[queue[k][2]] = "pushed"
  <2>1. Len(queue) \in Nat
    BY DEF AsyncInv, QueueInv, IsQueue
  <2> QED BY <1>1, <2>1 DEF AsyncInv, QueueInv
<1>4. QueueInv' /\ (Scheduled' => Scheduled)
  BY <1>2, <1>3, QueueKept DEF AsyncInv
<1>5. WaitInv'
  BY <1>4, WaitKept DEF AsyncInv
<1>6. ChildrenInv'
  BY <1>1 DEF AsyncInv, ChildrenInv
<1>7. SweptInv'
  BY <1>1 DEF AsyncInv, SweptInv
<1> QED BY <1>4, <1>5, <1>6, <1>7 DEF AsyncInv

------------------------------------------------------------------------------
(* The handlers of the pool and of timers                                  *)

LEMMA StartKeeps ==
  ASSUME AsyncInv, queue # << >>, Head(queue)[1] = "start", fault = "none", UNCHANGED waitVars,
         NEW ready \in SUBSET Children, NEW failing \in SUBSET ready,
         Start(Head(queue)[2], ready, failing)
  PROVE  AsyncInv'
<1>0. PICK t : t = Head(queue)[2]
  OBVIOUS
<1> DEFINE ch == [i \in Children |-> CASE i \in failing         -> "failed"
                                       [] i \in ready \ failing -> "done"
                                       [] i \notin ready         -> "suspended"]
           tm == [i \in Children |-> IF i \in ready THEN "none" ELSE "armed"]
<1>1. PICK S : queue \in Seq(S)
  BY DEF AsyncInv, QueueInv, IsQueue
<1>2. 1 \in 1..Len(queue) /\ queue[1] = Head(queue)
  BY <1>1
<1>3. t \in Tasks /\ state[t] = "pushed"
  BY <1>0, <1>2 DEF AsyncInv, QueueInv
<1>4. Handles(t)
  <2>1. Head(queue) # <<"cleanup">>
    <3>1. <<"cleanup">>[1] = "cleanup"
      OBVIOUS
    <3> QED BY <3>1
  <2> QED BY <1>0, <1>3, <2>1 DEF Handles
<1>5. ch \in [Children -> ChildStates] /\ tm \in [Children -> TimerStates]
  <2>1. ASSUME NEW i \in Children PROVE ch[i] \in ChildStates
    <3>1. CASE i \in failing
      BY <3>1 DEF ChildStates
    <3>2. CASE i \in ready \ failing
      BY <3>2 DEF ChildStates
    <3>3. CASE i \notin ready
      BY <3>3 DEF ChildStates
    <3> QED BY <3>1, <3>2, <3>3
  <2> QED BY <2>1 DEF TimerStates
<1>6. resumed[t] = 0
  BY <1>3 DEF AsyncInv, ChildrenInv
<1>7. /\ UNCHANGED pool
      /\ \/ Continue(t, ch, tm, Tail(queue), 2)
         \/ Wait(t, ch, tm, Tail(queue))
         \/ queue' = Tail(queue) /\ Die("deadFrame")
  BY <1>0 DEF Start
<1> HIDE DEF ch, tm
<1> QED BY <1>4, <1>5, <1>6, <1>7, ContinueKeeps, WaitKeeps, DieKeeps

LEMMA FireKeeps ==
  ASSUME AsyncInv, queue # << >>, Head(queue)[1] = "fire", fault = "none", UNCHANGED waitVars,
         NEW outcome \in {"done", "failed"}, Fire(Head(queue)[2], Head(queue)[3], outcome)
  PROVE  AsyncInv'
<1>0. PICK t, i : t = Head(queue)[2] /\ i = Head(queue)[3]
  OBVIOUS
<1> DEFINE ch == [child[t] EXCEPT ![i] = outcome]
           tm == [timer[t] EXCEPT ![i] = "spent"]
<1>1. PICK S : queue \in Seq(S)
  BY DEF AsyncInv, QueueInv, IsQueue
<1>2. 1 \in 1..Len(queue) /\ queue[1] = Head(queue)
  BY <1>1
<1>3. t \in Tasks /\ i \in Children
  BY <1>0, <1>2 DEF AsyncInv, QueueInv
<1>4. /\ child[t] \in [Children -> ChildStates] /\ timer[t] \in [Children -> TimerStates]
      /\ resumed[t] \in Nat
  BY <1>3 DEF AsyncInv, ChildrenInv
<1>5. ch \in [Children -> ChildStates] /\ tm \in [Children -> TimerStates]
  BY <1>4 DEF ChildStates, TimerStates
<1>6. /\ UNCHANGED pool
      /\ \/ queue' = Tail(queue) /\ Die("deadFrame")
         \/ /\ child[t][i] = "suspended"
            /\ \/ Continue(t, ch, tm, Tail(queue), 1)
               \/ Wait(t, ch, tm, Tail(queue))
  BY <1>0 DEF Fire
<1> HIDE DEF ch, tm
<1>7. CASE queue' = Tail(queue) /\ Die("deadFrame")
  BY <1>6, <1>7, DieKeeps
<1>8. CASE child[t][i] = "suspended" /\ (Continue(t, ch, tm, Tail(queue), 1) \/ Wait(t, ch, tm, Tail(queue)))
  <2>1. state[t] # "pushed" /\ resumed[t] = 0
    BY <1>3, <1>4, <1>8 DEF AsyncInv, ChildrenInv
  <2>2. Handles(t)
    <3>1. Head(queue) # <<"cleanup">>
      <4>1. <<"cleanup">>[1] = "cleanup"
        OBVIOUS
      <4> QED BY <4>1
    <3> QED BY <1>3, <2>1, <3>1 DEF Handles
  <2> QED BY <1>5, <1>6, <1>8, <2>1, <2>2, ContinueKeeps, WaitKeeps
<1> QED BY <1>6, <1>7, <1>8

LEMMA AbortKeeps ==
  ASSUME AsyncInv, queue # << >>, Head(queue)[1] = "abort", UNCHANGED waitVars,
         NEW t, NEW i, Abort(t, i)
  PROVE  AsyncInv'
<1>1. /\ timer' = [timer EXCEPT ![t] = [timer[t] EXCEPT ![i] = "spent"]] /\ queue' = Tail(queue)
      /\ UNCHANGED <<pool, state, child, resumed, fault>>
  BY Zenon DEF Abort
<1>2. Consumed(queue', queue)
  BY <1>1, TailConsumes DEF AsyncInv, QueueInv
<1>3. \A k \in 2..Len(queue) : queue[k][1] = "start" => state'[queue[k][2]] = "pushed"
  <2>1. Len(queue) \in Nat
    BY DEF AsyncInv, QueueInv, IsQueue
  <2> QED BY <1>1, <2>1 DEF AsyncInv, QueueInv
<1>4. QueueInv' /\ (Scheduled' => Scheduled)
  BY <1>2, <1>3, QueueKept DEF AsyncInv
<1>5. WaitInv'
  BY <1>4, WaitKept DEF AsyncInv
<1>6. ChildrenInv'
  <2> DEFINE tm == [timer[t] EXCEPT ![i] = "spent"]
  <2>1. t \in Tasks => /\ tm \in [Children -> TimerStates]
                       /\ \A j \in Children : tm[j] = "armed" => timer[t][j] = "armed"
    <3>1. timer \in [Tasks -> [Children -> TimerStates]]
      BY DEF AsyncInv, ChildrenInv
    <3>2. ASSUME NEW f \in [Children -> TimerStates]
          PROVE  /\ [f EXCEPT ![i] = "spent"] \in [Children -> TimerStates]
                 /\ \A j \in Children : [f EXCEPT ![i] = "spent"][j] = "armed" => f[j] = "armed"
      BY DEF TimerStates
    <3> QED BY <3>1, <3>2
  <2> HIDE DEF tm
  <2>2. timer' = [timer EXCEPT ![t] = tm] /\ timer \in [Tasks -> [Children -> TimerStates]]
    BY <1>1 DEF tm, AsyncInv, ChildrenInv
  <2>3. /\ timer' \in [Tasks -> [Children -> TimerStates]]
        /\ \A u \in Tasks, j \in Children : timer'[u][j] = "armed" => timer[u][j] = "armed"
    BY <2>1, <2>2
  <2> QED BY <1>1, <2>3 DEF AsyncInv, ChildrenInv
<1>7. SweptInv'
  <2>1. Head(queue) # <<"cleanup">>
    <3>1. <<"cleanup">>[1] = "cleanup"
      OBVIOUS
    <3> QED BY <3>1
  <2>2. Sweeping => Sweeping'
    BY <1>2, <2>1, SweepStays DEF AsyncInv
  <2> QED BY <1>1, <2>2 DEF AsyncInv, SweptInv
<1> QED BY <1>4, <1>5, <1>6, <1>7 DEF AsyncInv

LEMMA CleanupKeeps ==
  ASSUME AsyncInv, queue # << >>, UNCHANGED waitVars, Cleanup
  PROVE  AsyncInv'
<1>1. /\ pool' = {t \in pool : ~ Done(t)} /\ queue' = Tail(queue)
      /\ UNCHANGED <<state, child, timer, resumed, fault>>
  BY DEF Cleanup
<1>2. Consumed(queue', queue)
  BY <1>1, TailConsumes DEF AsyncInv, QueueInv
<1>3. \A k \in 2..Len(queue) : queue[k][1] = "start" => state'[queue[k][2]] = "pushed"
  <2>1. Len(queue) \in Nat
    BY DEF AsyncInv, QueueInv, IsQueue
  <2> QED BY <1>1, <2>1 DEF AsyncInv, QueueInv
<1>4. QueueInv' /\ (Scheduled' => Scheduled)
  BY <1>2, <1>3, QueueKept DEF AsyncInv
<1>5. WaitInv'
  BY <1>4, WaitKept DEF AsyncInv
<1>6. ChildrenInv'
  BY <1>1 DEF AsyncInv, ChildrenInv
<1>7. SweptInv'
  BY <1>1 DEF AsyncInv, SweptInv, Done
<1> QED BY <1>4, <1>5, <1>6, <1>7 DEF AsyncInv

------------------------------------------------------------------------------
(* What is posted                                                          *)

LEMMA Posts ==
  ASSUME NEW q, IsQueue(q), NEW h
  PROVE  /\ IsQueue(Append(q, h)) /\ Len(Append(q, h)) = Len(q) + 1 /\ Len(q) \in Nat
         /\ Append(q, h)[Len(q) + 1] = h
         /\ \A k \in 1..Len(q) : Append(q, h)[k] = q[k]
<1>1. PICK S : q \in Seq(S)
  BY DEF IsQueue
<1> DEFINE U == S \union {h}
<1>2. q \in Seq(U) /\ h \in U
  BY <1>1
<1> HIDE DEF U
<1>3. Append(q, h) \in Seq(U)
  BY <1>2
<1> QED BY <1>2, <1>3 DEF IsQueue

(* A cleanup that is queued stays when something is posted.                *)
LEMMA SweepStaysQueued ==
  ASSUME QueueInv, NEW h, queue' = Append(queue, h), Sweeping
  PROVE  Sweeping'
  BY Posts DEF QueueInv, Sweeping

LEMMA PushKeeps ==
  ASSUME AsyncInv, NEW t \in Tasks, Push(t), UNCHANGED waitVars
  PROVE  AsyncInv'
<1> DEFINE h == <<"start", t>>
           L == Len(queue)
<1>1. /\ state[t] = "new" /\ state' = [state EXCEPT ![t] = "pushed"]
      /\ pool' = pool \union {t} /\ queue' = Append(queue, h)
      /\ UNCHANGED <<child, timer, resumed, fault>>
  BY DEF Push
<1>2. h[1] = "start" /\ h[2] = t
  OBVIOUS
<1> HIDE DEF h
<1>3. /\ IsQueue(queue') /\ Len(queue') = L + 1 /\ L \in Nat /\ queue'[L + 1] = h
      /\ \A k \in 1..L : queue'[k] = queue[k]
  BY <1>1, Posts DEF AsyncInv, QueueInv
<1> HIDE DEF L
<1>4. \A k \in 1..Len(queue') : k = L + 1 \/ k \in 1..L
  BY <1>3
<1>5. state \in [Tasks -> TaskStates] /\ state' \in [Tasks -> TaskStates] /\ state'[t] = "pushed"
      /\ \A u \in Tasks : u # t => state'[u] = state[u]
  BY <1>1 DEF AsyncInv, ChildrenInv, TaskStates
<1>6. \A k \in 1..L : queue[k][1] = "start" => queue[k][2] # t
  BY <1>1 DEF AsyncInv, QueueInv, L
<1>7. QueueInv'
  <2>1. ASSUME NEW k \in 1..Len(queue')
        PROVE  /\ queue'[k][1] \in {"start", "fire", "abort"} => queue'[k][2] \in Tasks
               /\ queue'[k][1] = "fire" => queue'[k][3] \in Children
               /\ queue'[k][1] = "start" => state'[queue'[k][2]] = "pushed"
    <3>1. CASE k = L + 1
      BY <1>2, <1>3, <1>5, <3>1
    <3>2. CASE k \in 1..L
      BY <1>3, <1>5, <1>6, <3>2 DEF AsyncInv, QueueInv, L
    <3> QED BY <1>4, <3>1, <3>2
  <2>2. ASSUME NEW j \in 1..Len(queue'), NEW k \in 1..Len(queue'),
               queue'[j][1] = "start", queue'[k][1] = "start", queue'[j][2] = queue'[k][2]
        PROVE  j = k
    <3>1. CASE j \in 1..L /\ k \in 1..L
      BY <1>3, <2>2, <3>1 DEF AsyncInv, QueueInv, L
    <3>2. CASE j = L + 1 \/ k = L + 1
      BY <1>2, <1>3, <1>4, <1>6, <2>2, <3>2
    <3> QED BY <1>4, <3>1, <3>2
  <2>3. ASSUME NEW j \in 1..Len(queue'), NEW k \in 1..Len(queue'),
               queue'[j][1] = "scheduled", queue'[k][1] = "scheduled"
        PROVE  j = k
    <3>1. j \in 1..L /\ k \in 1..L
      BY <1>2, <1>3, <1>4, <2>3
    <3> QED BY <1>3, <2>3, <3>1 DEF AsyncInv, QueueInv, L
  <2> QED BY <1>3, <2>1, <2>2, <2>3 DEF QueueInv
<1>8. Scheduled' => Scheduled
  BY <1>2, <1>3, <1>4 DEF Scheduled, L
<1>9. WaitInv'
  BY <1>8, WaitKept DEF AsyncInv
<1>10. ChildrenInv'
  BY <1>1, <1>5 DEF AsyncInv, ChildrenInv
<1>11. SweptInv'
  <2>1. ASSUME NEW u \in pool', state'[u] = "ended", fault' = "none" PROVE Sweeping'
    <3>1. u # t /\ u \in pool /\ u \in Tasks
      BY <1>1, <1>5, <2>1 DEF AsyncInv, SweptInv
    <3>2. Sweeping
      BY <1>1, <1>5, <2>1, <3>1 DEF AsyncInv, SweptInv
    <3> QED BY <1>1, <3>2, SweepStaysQueued DEF AsyncInv
  <2> QED BY <1>1, <2>1 DEF AsyncInv, SweptInv
<1> QED BY <1>7, <1>9, <1>10, <1>11 DEF AsyncInv

LEMMA ExpireKeeps ==
  ASSUME AsyncInv, NEW t \in Tasks, NEW i \in Children, Expire(t, i), UNCHANGED waitVars
  PROVE  AsyncInv'
<1> DEFINE h == <<"fire", t, i>>
           L == Len(queue)
           tm == [timer[t] EXCEPT ![i] = "queued"]
<1>1. /\ timer' = [timer EXCEPT ![t] = tm] /\ queue' = Append(queue, h)
      /\ UNCHANGED <<pool, state, child, resumed, fault>>
  BY Zenon DEF Expire
<1>2. h[1] = "fire" /\ h[2] = t /\ h[3] = i
  OBVIOUS
<1> HIDE DEF h
<1>3. /\ IsQueue(queue') /\ Len(queue') = L + 1 /\ L \in Nat /\ queue'[L + 1] = h
      /\ \A k \in 1..L : queue'[k] = queue[k]
  BY <1>1, Posts DEF AsyncInv, QueueInv
<1> HIDE DEF L
<1>4. \A k \in 1..Len(queue') : k = L + 1 \/ k \in 1..L
  BY <1>3
<1>5. QueueInv'
  <2>1. ASSUME NEW k \in 1..Len(queue')
        PROVE  /\ queue'[k][1] \in {"start", "fire", "abort"} => queue'[k][2] \in Tasks
               /\ queue'[k][1] = "fire" => queue'[k][3] \in Children
               /\ queue'[k][1] = "start" => state'[queue'[k][2]] = "pushed"
    <3>1. CASE k = L + 1
      BY <1>2, <1>3, <3>1
    <3>2. CASE k \in 1..L
      BY <1>1, <1>3, <3>2 DEF AsyncInv, QueueInv, L
    <3> QED BY <1>4, <3>1, <3>2
  <2>2. ASSUME NEW k \in 1..Len(queue'), queue'[k][1] \in {"start", "scheduled"}
        PROVE  k \in 1..L /\ queue'[k] = queue[k]
    BY <1>2, <1>3, <1>4, <2>2
  <2> QED BY <1>3, <2>1, <2>2 DEF AsyncInv, QueueInv, L
<1>6. Scheduled' => Scheduled
  BY <1>2, <1>3, <1>4 DEF Scheduled, L
<1>7. WaitInv'
  BY <1>6, WaitKept DEF AsyncInv
<1>8. ChildrenInv'
  <2>1. tm \in [Children -> TimerStates] /\ \A j \in Children : tm[j] = "armed" => timer[t][j] = "armed"
    BY DEF AsyncInv, ChildrenInv, TimerStates
  <2> HIDE DEF tm
  <2>2. timer \in [Tasks -> [Children -> TimerStates]]
    BY DEF AsyncInv, ChildrenInv
  <2>3. /\ timer' \in [Tasks -> [Children -> TimerStates]]
        /\ \A u \in Tasks, j \in Children : timer'[u][j] = "armed" => timer[u][j] = "armed"
    BY <1>1, <2>1, <2>2
  <2> QED BY <1>1, <2>3 DEF AsyncInv, ChildrenInv
<1>9. SweptInv'
  <2>1. Sweeping => Sweeping'
    BY <1>1, SweepStaysQueued DEF AsyncInv
  <2> QED BY <1>1, <2>1 DEF AsyncInv, SweptInv
<1> QED BY <1>5, <1>7, <1>8, <1>9 DEF AsyncInv

------------------------------------------------------------------------------
(* sync_wait                                                               *)

LEMMA SyncWaitKeeps ==
  ASSUME AsyncInv, SyncWait, UNCHANGED <<poolVars, fault>>
  PROVE  AsyncInv'
<1>1. ChildrenInv' /\ UNCHANGED <<pool, state, fault>>
  BY DEF AsyncInv, ChildrenInv, poolVars
<1>2. main = "idle" /\ main' = "started" /\ ~ event /\ ~ Scheduled
  BY DEF SyncWait, AsyncInv, WaitInv
<1>3. CASE Receive /\ SetEvent /\ UNCHANGED queue
  <2>1. QueueInv' /\ SweptInv' /\ ~ Scheduled'
    BY <1>1, <1>2, <1>3 DEF AsyncInv, QueueInv, SweptInv, Sweeping, Scheduled
  <2>2. WaitInv'
    BY <1>2, <1>3, <2>1 DEF WaitInv, Receive, SetEvent
  <2> QED BY <1>1, <2>1, <2>2 DEF AsyncInv
<1>4. CASE queue' = Append(queue, <<"scheduled">>) /\ UNCHANGED <<received, event>>
  <2> DEFINE h == <<"scheduled">>
             L == Len(queue)
  <2>1. h[1] = "scheduled" /\ queue' = Append(queue, h)
    BY <1>4
  <2> HIDE DEF h
  <2>2. /\ IsQueue(queue') /\ Len(queue') = L + 1 /\ L \in Nat /\ queue'[L + 1] = h
        /\ \A k \in 1..L : queue'[k] = queue[k]
    BY <2>1, Posts DEF AsyncInv, QueueInv
  <2> HIDE DEF L
  <2>3. \A k \in 1..Len(queue') : k = L + 1 \/ k \in 1..L
    BY <2>2
  <2>4. QueueInv'
    <3>1. ASSUME NEW k \in 1..Len(queue'), queue'[k][1] # "scheduled"
          PROVE  k \in 1..L /\ queue'[k] = queue[k]
      BY <2>1, <2>2, <2>3, <3>1
    <3>2. ASSUME NEW k \in 1..Len(queue'), queue'[k][1] = "scheduled" PROVE k = L + 1
      BY <1>2, <2>2, <2>3, <3>2 DEF Scheduled, L
    <3>3. \A k \in 1..Len(queue') :
            /\ queue'[k][1] \in {"start", "fire", "abort"} => queue'[k][2] \in Tasks
            /\ queue'[k][1] = "fire" => queue'[k][3] \in Children
            /\ queue'[k][1] = "start" => state'[queue'[k][2]] = "pushed"
      BY <1>1, <3>1 DEF AsyncInv, QueueInv, L
    <3>4. \A j, k \in 1..Len(queue') :
            queue'[j][1] = "start" /\ queue'[k][1] = "start" /\ queue'[j][2] = queue'[k][2] => j = k
      BY <3>1 DEF AsyncInv, QueueInv, L
    <3> QED BY <2>2, <3>2, <3>3, <3>4 DEF QueueInv
  <2>5. WaitInv'
    BY <1>2, <1>4 DEF AsyncInv, WaitInv
  <2>6. SweptInv'
    <3>1. Sweeping => Sweeping'
      BY <2>1, SweepStaysQueued DEF AsyncInv
    <3> QED BY <1>1, <3>1 DEF AsyncInv, SweptInv
  <2> QED BY <1>1, <2>4, <2>5, <2>6 DEF AsyncInv
<1> QED BY <1>3, <1>4 DEF SyncWait

LEMMA ResumeScheduledKeeps ==
  ASSUME AsyncInv, queue # << >>, Head(queue)[1] = "scheduled", ResumeScheduled,
         UNCHANGED <<poolVars, fault>>
  PROVE  AsyncInv'
<1>1. ChildrenInv' /\ UNCHANGED <<pool, state, fault>>
  BY DEF AsyncInv, ChildrenInv, poolVars
<1>2. /\ received' \in {"value", "exception"} /\ event' = TRUE /\ main' = main
      /\ queue' = Tail(queue)
  BY DEF ResumeScheduled, Receive, SetEvent
<1>3. PICK S : queue \in Seq(S)
  BY DEF AsyncInv, QueueInv, IsQueue
<1>4. 1 \in 1..Len(queue) /\ queue[1] = Head(queue) /\ Len(queue) \in Nat
  BY <1>3
<1>5. Consumed(queue', queue)
  BY <1>2, TailConsumes DEF AsyncInv, QueueInv
<1>6. QueueInv'
  BY <1>1, <1>4, <1>5, QueueKept DEF AsyncInv, QueueInv
<1>7. main \in {"started", "asleep"}
  <2>1. Scheduled
    BY <1>4 DEF Scheduled
  <2> QED BY <2>1 DEF AsyncInv, WaitInv
<1>8. ~ Scheduled'
  <2>1. ASSUME NEW k \in 1..Len(queue'), queue'[k][1] = "scheduled" PROVE FALSE
    <3>1. ~ NewEntry(queue'[k])
      BY <2>1 DEF NewEntry
    <3>2. k + 1 \in 1..Len(queue) /\ queue'[k] = queue[k + 1]
      BY <1>5, <3>1 DEF Consumed
    <3>3. k + 1 = 1
      BY <1>4, <2>1, <3>2 DEF AsyncInv, QueueInv
    <3>4. k \in Nat /\ k # 0
      BY <1>5 DEF Consumed, IsQueue
    <3> QED BY <3>3, <3>4
  <2> QED BY <2>1 DEF Scheduled
<1>9. WaitInv'
  BY <1>2, <1>7, <1>8 DEF WaitInv
<1>10. SweptInv'
  <2>1. Head(queue) # <<"cleanup">>
    <3>1. <<"cleanup">>[1] = "cleanup"
      OBVIOUS
    <3> QED BY <3>1
  <2>2. Sweeping => Sweeping'
    BY <1>5, <2>1, SweepStays DEF AsyncInv
  <2> QED BY <1>1, <2>2 DEF AsyncInv, SweptInv
<1> QED BY <1>1, <1>6, <1>9, <1>10 DEF AsyncInv

(* What a wake-up and a look at the event leave alone.                     *)
LEMMA PoolFrame ==
  ASSUME AsyncInv, UNCHANGED <<queue, poolVars>>, fault' = "none" => fault = "none"
  PROVE  QueueInv' /\ ChildrenInv' /\ SweptInv' /\ (Scheduled' <=> Scheduled)
<1>1. QueueInv' /\ (Scheduled' <=> Scheduled)
  BY DEF AsyncInv, QueueInv, Scheduled, poolVars
<1>2. ChildrenInv'
  BY DEF AsyncInv, ChildrenInv, poolVars
<1>3. SweptInv'
  BY DEF AsyncInv, SweptInv, Sweeping, poolVars
<1> QED BY <1>1, <1>2, <1>3

LEMMA WaitForEventKeeps ==
  ASSUME AsyncInv, WaitForEvent, UNCHANGED <<poolVars, fault>>
  PROVE  AsyncInv'
<1>1. /\ main \in {"started", "asleep"} /\ main' = IF ~ event THEN "asleep" ELSE Get[received]
      /\ UNCHANGED <<queue, event, received>>
  BY DEF WaitForEvent, Blocks
<1>2. QueueInv' /\ ChildrenInv' /\ SweptInv' /\ (Scheduled' <=> Scheduled)
  BY <1>1, PoolFrame
<1>3. WaitInv'
  BY <1>1, <1>2 DEF AsyncInv, WaitInv, Get
<1> QED BY <1>2, <1>3 DEF AsyncInv

LEMMA NotifyAllKeeps ==
  ASSUME AsyncInv, NotifyAll, UNCHANGED poolVars, fault = "none"
  PROVE  AsyncInv'
<1>1. main' = (IF main = "asleep" THEN "started" ELSE main) /\ UNCHANGED <<queue, event, received>>
  BY DEF NotifyAll
<1>2. QueueInv' /\ ChildrenInv' /\ SweptInv' /\ (Scheduled' <=> Scheduled)
  BY <1>1, PoolFrame
<1>3. WaitInv'
  BY <1>1, <1>2 DEF AsyncInv, WaitInv
<1> QED BY <1>2, <1>3 DEF AsyncInv

------------------------------------------------------------------------------
(* The theorems                                                            *)

LEMMA Starts == Init => AsyncInv
<1> SUFFICES ASSUME Init PROVE AsyncInv
  OBVIOUS
<1>1. queue = << >> /\ Len(queue) = 0 /\ queue \in Seq({})
  BY DEF Init
<1>2. QueueInv
  BY <1>1 DEF QueueInv, IsQueue
<1>3. WaitInv
  <2>1. ~ Scheduled
    BY <1>1 DEF Scheduled
  <2>2. main = "idle" /\ received = "empty" /\ event = FALSE
    BY DEF Init
  <2> QED BY <2>1, <2>2 DEF WaitInv
<1>4. ChildrenInv
  BY DEF Init, ChildrenInv, TaskStates, ChildStates, TimerStates
<1>5. SweptInv
  BY DEF Init, SweptInv
<1> QED BY <1>2, <1>3, <1>4, <1>5 DEF AsyncInv

LEMMA StepsKeep == AsyncInv /\ [Next]_vars => AsyncInv'
<1> SUFFICES ASSUME AsyncInv, [Next]_vars PROVE AsyncInv'
  OBVIOUS
<1>1. CASE UNCHANGED vars
  <2>1. UNCHANGED <<queue, poolVars, waitVars, fault>>
    BY <1>1 DEF vars
  <2>2. QueueInv' /\ ChildrenInv' /\ SweptInv' /\ (Scheduled' <=> Scheduled)
    BY <2>1, PoolFrame
  <2>3. WaitInv'
    BY <2>1, <2>2, WaitKept DEF AsyncInv
  <2> QED BY <2>2, <2>3 DEF AsyncInv
<1>2. CASE Next
  <2>1. fault = "none"
    BY <1>2 DEF Next, Alive
  <2>2. ASSUME NEW t \in Tasks, Push(t), UNCHANGED waitVars PROVE AsyncInv'
    BY <2>2, PushKeeps
  <2>3. ASSUME NEW t \in Tasks, NEW i \in Children, Expire(t, i), UNCHANGED waitVars PROVE AsyncInv'
    BY <2>3, ExpireKeeps
  <2>4. CASE RunHandler
    <3>1. queue # << >>
      BY <2>4 DEF RunHandler
    <3>2. CASE Head(queue)[1] = "scheduled" /\ ResumeScheduled /\ UNCHANGED <<poolVars, fault>>
      BY <3>1, <3>2, ResumeScheduledKeeps
    <3>3. CASE RunPoolHandler(Head(queue)) /\ UNCHANGED waitVars
      <4>1. CASE Head(queue)[1] = "start" /\ \E ready \in SUBSET Children : \E failing \in SUBSET ready :
                   Start(Head(queue)[2], ready, failing)
        BY <2>1, <3>1, <3>3, <4>1, StartKeeps
      <4>2. CASE Head(queue)[1] = "fire" /\ \E outcome \in {"done", "failed"} :
                   Fire(Head(queue)[2], Head(queue)[3], outcome)
        BY <2>1, <3>1, <3>3, <4>2, FireKeeps
      <4>3. CASE Head(queue)[1] = "abort" /\ Abort(Head(queue)[2], Head(queue)[3])
        BY <3>1, <3>3, <4>3, AbortKeeps
      <4>4. CASE Cleanup
        BY <3>1, <3>3, <4>4, CleanupKeeps
      <4> QED BY <3>3, <4>1, <4>2, <4>3, <4>4 DEF RunPoolHandler
    <3> QED BY <2>4, <3>2, <3>3 DEF RunHandler
  <2>5. CASE SyncWait /\ UNCHANGED <<poolVars, fault>>
    BY <2>5, SyncWaitKeeps
  <2>6. CASE WaitForEvent /\ UNCHANGED <<poolVars, fault>>
    BY <2>6, WaitForEventKeeps
  <2>7. CASE NotifyAll /\ UNCHANGED poolVars
    BY <2>1, <2>7, NotifyAllKeeps
  <2> QED BY <1>2, <2>2, <2>3, <2>4, <2>5, <2>6, <2>7 DEF Next
<1> QED BY <1>1, <1>2

------------------------------------------------------------------------------
(* The latches                                                             *)

(* A task of shape sh in state s, its latch c, its children's frames ch,   *)
(* those that ended e, the one taken r, resumed m times.  It waits as long *)
(* as its latch says: a child that is suspended can still end, and no      *)
(* child of a when_any or a race has ended while the task waits.           *)
Latched(sh, s, c, ch, e, r, m) ==
  /\ c \in Int
  /\ s = "awaiting" /\ sh = "all" => c > 0 /\ c = N - Len(e)
  /\ s = "awaiting" /\ sh # "all" => c = 0 /\ e = << >> /\ \A i \in Children : ch[i] = "suspended"
  /\ s \in {"ended", "threw"} /\ sh = "all" => Len(e) = N
  /\ s \in {"ended", "threw"} /\ sh # "all" => Len(e) = 1 /\ r = Head(e)
  /\ m > 0 => s \in {"ended", "threw"}
  /\ \A i \in Children : ch[i] = "suspended" => s = "awaiting"

LatchedTask(t) ==
  Latched(shape[t], state[t], count[t], child[t], endings[t], result[t], resumed[t])

(* The latch of a task that was not started is as it was made: a program   *)
(* that goes on has met no fault.                                          *)
LatchInv ==
  /\ count = [t \in Tasks |-> count[t]]
  /\ endings = [t \in Tasks |-> endings[t]]
  /\ result = [t \in Tasks |-> result[t]]
  /\ \A t \in Tasks : IsQueue(endings[t])
  /\ \A t \in Tasks : LatchedTask(t)
  /\ fault = "none" => \A t \in Tasks :
       state[t] \in {"new", "pushed"} => count[t] = IF shape[t] = "all" THEN N + 1 ELSE 0

LEMMA Orders ==
  ASSUME NEW S, IsFiniteSet(S)
  PROVE  IsQueue(InOrder(S)) /\ Len(InOrder(S)) = Cardinality(S) /\ Cardinality(S) \in Nat
<1>1. PICK n \in Nat : n = Cardinality(S)
  BY FS_CardinalityType
<1>2. PICK f : f = InOrder(S)
  OBVIOUS
<1>3. f = [k \in 1..n |-> f[k]]
  <2>1. f = [k \in 1..n |-> AtPlace(S, k)]
    BY <1>1, <1>2 DEF InOrder
  <2> QED BY <2>1
<1> DEFINE F == {f[k] : k \in 1..n}
<1>4. f \in [1..n -> F]
  BY <1>3
<1> HIDE DEF F
<1>5. f \in Seq(F) /\ Len(f) = n
  BY <1>4
<1> QED BY <1>1, <1>2, <1>5 DEF IsQueue

LEMMA EmptyQueue ==
  ASSUME NEW q, IsQueue(q), Len(q) = 0
  PROVE  q = << >>
  BY DEF IsQueue

LEMMA LatchStays ==
  ASSUME LatchInv, UNCHANGED <<shape, state, count, child, endings, result, resumed>>,
         fault' = "none" => fault = "none"
  PROVE  LatchInv'
<1>1. \A t \in Tasks : LatchedTask(t)'
  BY DEF LatchInv, LatchedTask
<1> QED BY <1>1 DEF LatchInv

(* What a step of t does to t only.                                        *)
LEMMA LatchGoes ==
  ASSUME LatchInv, NEW t \in Tasks, UNCHANGED shape,
         state = [u \in Tasks |-> state[u]], child = [u \in Tasks |-> child[u]],
         resumed = [u \in Tasks |-> resumed[u]],
         NEW s, NEW c, NEW ch, NEW e, NEW r, NEW m,
         state' = [state EXCEPT ![t] = s], count' = [count EXCEPT ![t] = c],
         child' = [child EXCEPT ![t] = ch], endings' = [endings EXCEPT ![t] = e],
         result' = [result EXCEPT ![t] = r], resumed' = [resumed EXCEPT ![t] = m],
         IsQueue(e), Latched(shape[t], s, c, ch, e, r, m),
         fault' = "none" => fault = "none" /\ s \notin {"new", "pushed"}
  PROVE  LatchInv'
<1>1. /\ count' = [u \in Tasks |-> count'[u]]
      /\ endings' = [u \in Tasks |-> endings'[u]]
      /\ result' = [u \in Tasks |-> result'[u]]
  BY DEF LatchInv
<1>2. /\ state'[t] = s /\ count'[t] = c /\ child'[t] = ch /\ endings'[t] = e
      /\ result'[t] = r /\ resumed'[t] = m
  BY DEF LatchInv
<1>3. \A u \in Tasks : u # t =>
        /\ state'[u] = state[u] /\ count'[u] = count[u] /\ child'[u] = child[u]
        /\ endings'[u] = endings[u] /\ result'[u] = result[u] /\ resumed'[u] = resumed[u]
  BY DEF LatchInv
<1>4. ASSUME NEW u \in Tasks PROVE LatchedTask(u)' /\ IsQueue(endings'[u])
  <2>1. CASE u = t
    BY <1>2, <2>1 DEF LatchedTask
  <2>2. CASE u # t
    BY <1>3, <2>2 DEF LatchInv, LatchedTask
  <2> QED BY <2>1, <2>2
<1>5. ASSUME fault' = "none", NEW u \in Tasks, state'[u] \in {"new", "pushed"}
      PROVE  count'[u] = IF shape'[u] = "all" THEN N + 1 ELSE 0
  <2>1. u # t /\ fault = "none"
    BY <1>2, <1>5
  <2> QED BY <1>3, <1>5, <2>1 DEF LatchInv
<1> QED BY <1>1, <1>4, <1>5 DEF LatchInv

LEMMA ContinueLatches ==
  ASSUME LatchInv, AsyncInv, fault = "none", NEW t \in Tasks, UNCHANGED shape,
         NEW ch, NEW tm, NEW rest, NEW times \in {1, 2}, Continue(t, ch, tm, rest, times),
         NEW c \in Int, NEW e, IsQueue(e),
         count' = [count EXCEPT ![t] = c], endings' = [endings EXCEPT ![t] = e],
         shape[t] = "all" => Len(e) = N,
         shape[t] # "all" => Len(e) = 1 /\ Taken(t, ch) = Head(e)
  PROVE  LatchInv'
<1>1. PICK s, r, d, m : /\ s = (IF Has(ch, "failed") # {} THEN "threw" ELSE "ended")
                        /\ r = Taken(t, ch) /\ d = [i \in Children |-> "destroyed"]
                        /\ m = resumed[t] + times
  OBVIOUS
<1>2. /\ state' = [state EXCEPT ![t] = s] /\ child' = [child EXCEPT ![t] = d]
      /\ result' = [result EXCEPT ![t] = r] /\ resumed' = [resumed EXCEPT ![t] = m]
  BY <1>1 DEF Continue
<1>3. s \in {"ended", "threw"}
  BY <1>1
<1>4. Latched(shape[t], s, c, d, e, r, m)
  BY <1>1, <1>3 DEF Latched
<1>5. /\ state = [u \in Tasks |-> state[u]] /\ child = [u \in Tasks |-> child[u]]
      /\ resumed = [u \in Tasks |-> resumed[u]]
  BY DEF AsyncInv, ChildrenInv
<1> QED BY <1>2, <1>3, <1>4, <1>5, LatchGoes

LEMMA WaitLatches ==
  ASSUME LatchInv, AsyncInv, fault = "none", NEW t \in Tasks, UNCHANGED shape,
         NEW ch, NEW tm, NEW rest, Wait(t, ch, tm, rest), resumed[t] = 0,
         NEW c \in Int, NEW e, IsQueue(e),
         count' = [count EXCEPT ![t] = c], endings' = [endings EXCEPT ![t] = e],
         shape[t] = "all" => c > 0 /\ c = N - Len(e),
         shape[t] # "all" => c = 0 /\ e = << >> /\ \A i \in Children : ch[i] = "suspended"
  PROVE  LatchInv'
<1>1. PICK r, m : r = result[t] /\ m = resumed[t]
  OBVIOUS
<1>2. /\ state = [u \in Tasks |-> state[u]] /\ child = [u \in Tasks |-> child[u]]
      /\ resumed = [u \in Tasks |-> resumed[u]] /\ result = [u \in Tasks |-> result[u]]
  BY DEF AsyncInv, ChildrenInv, LatchInv
<1>3. /\ state' = [state EXCEPT ![t] = "awaiting"] /\ child' = [child EXCEPT ![t] = ch]
      /\ UNCHANGED <<result, resumed, fault>>
  BY DEF Wait
<1>4. result' = [result EXCEPT ![t] = r] /\ resumed' = [resumed EXCEPT ![t] = m]
  BY <1>1, <1>2, <1>3
<1>5. Latched(shape[t], "awaiting", c, ch, e, r, m)
  BY <1>1 DEF Latched
<1> QED BY <1>2, <1>3, <1>4, <1>5, LatchGoes

LEMMA PushLatches ==
  ASSUME LatchInv, AsyncInv, UNCHANGED shape, NEW t \in Tasks, Push(t)
  PROVE  LatchInv'
<1>1. /\ state[t] = "new" /\ state' = [state EXCEPT ![t] = "pushed"]
      /\ UNCHANGED <<count, child, endings, result, resumed, fault>>
  BY DEF Push
<1>2. /\ state \in [Tasks -> TaskStates] /\ state'[t] = "pushed"
      /\ \A u \in Tasks : u # t => state'[u] = state[u]
  BY <1>1 DEF AsyncInv, ChildrenInv
<1>3. ASSUME NEW u \in Tasks PROVE LatchedTask(u)'
  <2>1. LatchedTask(u)
    BY DEF LatchInv
  <2>2. CASE u = t
    BY <1>1, <1>2, <2>1, <2>2 DEF LatchedTask, Latched
  <2>3. CASE u # t
    BY <1>1, <1>2, <2>1, <2>3 DEF LatchedTask
  <2> QED BY <2>2, <2>3
<1>4. ASSUME fault' = "none", NEW u \in Tasks, state'[u] \in {"new", "pushed"}
      PROVE  count'[u] = IF shape'[u] = "all" THEN N + 1 ELSE 0
  <2>1. state[u] \in {"new", "pushed"}
    BY <1>1, <1>2, <1>4
  <2> QED BY <1>1, <1>4, <2>1 DEF LatchInv
<1> QED BY <1>1, <1>3, <1>4 DEF LatchInv

LEMMA StartLatches ==
  ASSUME LatchInv, AsyncInv, queue # << >>, Head(queue)[1] = "start", fault = "none",
         UNCHANGED shape,
         NEW ready \in SUBSET Children, NEW failing \in SUBSET ready,
         Start(Head(queue)[2], ready, failing)
  PROVE  LatchInv'
<1>0. PICK t : t = Head(queue)[2]
  OBVIOUS
<1> DEFINE ch == [i \in Children |-> CASE i \in failing         -> "failed"
                                       [] i \in ready \ failing -> "done"
                                       [] i \notin ready         -> "suspended"]
           tm == [i \in Children |-> IF i \in ready THEN "none" ELSE "armed"]
<1>1. PICK S : queue \in Seq(S)
  BY DEF AsyncInv, QueueInv, IsQueue
<1>2. 1 \in 1..Len(queue) /\ queue[1] = Head(queue)
  BY <1>1
<1>3. t \in Tasks /\ state[t] = "pushed"
  BY <1>0, <1>2 DEF AsyncInv, QueueInv
<1>4. PICK c, e : c = Started(t, ready) /\ e = InOrder(ready)
  OBVIOUS
<1>5. count' = [count EXCEPT ![t] = c] /\ endings' = [endings EXCEPT ![t] = e]
  BY <1>0, <1>4 DEF Start
<1>6. IsFiniteSet(ready) /\ Cardinality(ready) <= N /\ N \in Nat /\ Cardinality(ready) \in Nat
  BY AsyncAssumption, FS_Subset, FS_CardinalityType DEF N
<1>7. IsQueue(e) /\ Len(e) = Cardinality(ready)
  BY <1>4, <1>6, Orders
<1>8. /\ count[t] = IF shape[t] = "all" THEN N + 1 ELSE 0
      /\ resumed[t] = 0
  BY <1>3 DEF LatchInv, AsyncInv, ChildrenInv
<1>9. c \in Int /\ c = IF shape[t] = "all" THEN N - Len(e) ELSE Len(e)
  BY <1>4, <1>6, <1>7, <1>8 DEF Started
<1>10. count'[t] = c
  BY <1>3, <1>5 DEF LatchInv
<1>11. ready = {} => \A i \in Children : ch[i] = "suspended"
  OBVIOUS
<1>12. \/ shape[t] = "all" /\ c = 0 /\ Continue(t, ch, tm, Tail(queue), 2)
       \/ /\ shape[t] = "all" => c # 0
          /\ shape[t] # "all" => ready = {}
          /\ Wait(t, ch, tm, Tail(queue))
       \/ shape[t] # "all" /\ Die("deadFrame")
  BY <1>0, <1>10 DEF Start
<1> HIDE DEF ch, tm
<1>13. CASE shape[t] = "all" /\ c = 0 /\ Continue(t, ch, tm, Tail(queue), 2)
  <2>1. Len(e) = N
    BY <1>6, <1>7, <1>9, <1>13
  <2> QED BY <1>3, <1>5, <1>7, <1>9, <1>13, <2>1, ContinueLatches
<1>14. CASE /\ shape[t] = "all" => c # 0
            /\ shape[t] # "all" => ready = {}
            /\ Wait(t, ch, tm, Tail(queue))
  <2>1. shape[t] = "all" => c > 0 /\ c = N - Len(e)
    BY <1>6, <1>7, <1>9, <1>14
  <2>2. shape[t] # "all" => c = 0 /\ e = << >>
    BY <1>7, <1>9, <1>14, EmptyQueue, FS_EmptySet
  <2> QED BY <1>3, <1>5, <1>7, <1>8, <1>9, <1>11, <1>14, <2>1, <2>2, WaitLatches
<1>15. CASE shape[t] # "all" /\ Die("deadFrame")
  <2>1. fault' = "deadFrame" /\ UNCHANGED <<state, child, result, resumed>>
    BY <1>15 DEF Die
  <2>2. /\ count' = [u \in Tasks |-> count'[u]] /\ endings' = [u \in Tasks |-> endings'[u]]
        /\ endings'[t] = e
        /\ \A u \in Tasks : u # t => count'[u] = count[u] /\ endings'[u] = endings[u]
    BY <1>3, <1>5 DEF LatchInv
  <2>3. ASSUME NEW u \in Tasks PROVE LatchedTask(u)' /\ IsQueue(endings'[u])
    <3>1. LatchedTask(u) /\ IsQueue(endings[u])
      BY DEF LatchInv
    <3>2. CASE u = t
      BY <1>3, <1>7, <1>9, <1>10, <2>1, <2>2, <3>1, <3>2 DEF LatchedTask, Latched
    <3>3. CASE u # t
      BY <2>1, <2>2, <3>1, <3>3 DEF LatchedTask
    <3> QED BY <3>2, <3>3
  <2> QED BY <2>1, <2>2, <2>3 DEF LatchInv
<1> QED BY <1>12, <1>13, <1>14, <1>15

LEMMA FireLatches ==
  ASSUME LatchInv, AsyncInv, queue # << >>, Head(queue)[1] = "fire", fault = "none",
         UNCHANGED shape,
         NEW outcome \in {"done", "failed"}, Fire(Head(queue)[2], Head(queue)[3], outcome)
  PROVE  LatchInv'
<1>0. PICK t, i : t = Head(queue)[2] /\ i = Head(queue)[3]
  OBVIOUS
<1> DEFINE ch == [child[t] EXCEPT ![i] = outcome]
           tm == [timer[t] EXCEPT ![i] = "spent"]
<1>1. PICK S : queue \in Seq(S)
  BY DEF AsyncInv, QueueInv, IsQueue
<1>2. 1 \in 1..Len(queue) /\ queue[1] = Head(queue)
  BY <1>1
<1>3. t \in Tasks /\ i \in Children
  BY <1>0, <1>2 DEF AsyncInv, QueueInv
<1>4. CASE Die("deadFrame") /\ UNCHANGED <<count, endings>>
  <2>1. UNCHANGED <<state, child, result, resumed>>
    BY <1>4 DEF Die
  <2> QED BY <1>4, <2>1, LatchStays
<1>5. CASE /\ child[t][i] = "suspended"
           /\ count' = [count EXCEPT ![t] = IF shape[t] = "all" THEN @ - 1 ELSE @ + 1]
           /\ endings' = [endings EXCEPT ![t] = Append(@, i)]
           /\ \/ Notify(t) /\ Continue(t, ch, tm, Tail(queue), 1)
              \/ ~ Notify(t) /\ Wait(t, ch, tm, Tail(queue))
  <2>1. PICK c, e : /\ c = (IF shape[t] = "all" THEN count[t] - 1 ELSE count[t] + 1)
                    /\ e = Append(endings[t], i)
    OBVIOUS
  <2>2. count' = [count EXCEPT ![t] = c] /\ endings' = [endings EXCEPT ![t] = e]
    BY <1>5, <2>1
  <2>3. Latched(shape[t], state[t], count[t], child[t], endings[t], result[t], resumed[t])
    BY <1>3 DEF LatchInv, LatchedTask
  <2>4. /\ state[t] = "awaiting" /\ count[t] \in Int
        /\ shape[t] = "all" => count[t] > 0 /\ count[t] = N - Len(endings[t])
        /\ shape[t] # "all" => /\ count[t] = 0 /\ endings[t] = << >>
                               /\ \A j \in Children : child[t][j] = "suspended"
    BY <1>3, <1>5, <2>3 DEF Latched
  <2>5. IsQueue(e) /\ Len(e) = Len(endings[t]) + 1 /\ Len(endings[t]) \in Nat
    BY <1>3, <2>1, Posts DEF LatchInv
  <2>6. N \in Nat
    BY AsyncAssumption, FS_CardinalityType DEF N
  <2>7. c \in Int
    BY <2>1, <2>4
  <2>8. resumed[t] = 0
    BY <1>3, <2>3, <2>4 DEF Latched, AsyncInv, ChildrenInv
  <2>9. CASE Notify(t) /\ Continue(t, ch, tm, Tail(queue), 1)
    <3>1. shape[t] = "all" => Len(e) = N
      BY <2>4, <2>5, <2>6, <2>9 DEF Notify, LastOfAll
    <3>2. ASSUME shape[t] # "all" PROVE Len(e) = 1 /\ Taken(t, ch) = Head(e)
      <4>1. e = Append(<< >>, i)
        BY <2>1, <2>4, <3>2
      <4>2. e = <<i>>
        BY <4>1
      <4>3. Has(ch, "done") \union Has(ch, "failed") = {i}
        <5>1. child[t] \in [Children -> ChildStates]
          BY <1>3 DEF AsyncInv, ChildrenInv
        <5>2. ch[i] = outcome /\ \A j \in Children : j # i => ch[j] = "suspended"
          BY <1>3, <2>4, <3>2, <5>1
        <5> HIDE DEF ch
        <5> QED BY <1>3, <5>2 DEF Has
      <4>4. Max({i}) = i
        <5>1. i \in Int
          BY <1>3, <2>6, AsyncAssumption DEF N
        <5> QED BY <5>1 DEF Max
      <4> HIDE DEF ch
      <4>5. Taken(t, ch) = i
        BY <3>2, <4>3, <4>4 DEF Taken
      <4>6. Len(e) = 1 /\ Head(e) = i
        BY <4>2
      <4> QED BY <4>5, <4>6
    <3> HIDE DEF ch, tm
    <3> QED BY <1>3, <2>2, <2>5, <2>7, <2>9, <3>1, <3>2, ContinueLatches
  <2>10. CASE ~ Notify(t) /\ Wait(t, ch, tm, Tail(queue))
    <3>1. shape[t] = "all" /\ count[t] # 1
      BY <2>4, <2>10 DEF Notify, LastOfAll, FirstOfAny
    <3>2. c > 0 /\ c = N - Len(e)
      BY <2>1, <2>4, <2>5, <2>6, <3>1
    <3> HIDE DEF ch, tm
    <3> QED BY <1>3, <2>2, <2>5, <2>7, <2>8, <2>10, <3>1, <3>2, WaitLatches
  <2> QED BY <1>5, <2>9, <2>10
<1> QED BY <1>0, <1>4, <1>5 DEF Fire

LEMMA LatchStarts == Init => LatchInv
<1> SUFFICES ASSUME Init PROVE LatchInv
  OBVIOUS
<1>1. N \in Nat
  BY AsyncAssumption, FS_CardinalityType DEF N
<1>2. /\ state = [t \in Tasks |-> "new"] /\ count = Latch(shape)
      /\ child = [t \in Tasks |-> [i \in Children |-> "created"]]
      /\ endings = [t \in Tasks |-> << >>] /\ result = [t \in Tasks |-> 0]
      /\ resumed = [t \in Tasks |-> 0]
  BY DEF Init
<1>3. /\ count = [t \in Tasks |-> count[t]]
      /\ \A t \in Tasks : count[t] = IF shape[t] = "all" THEN N + 1 ELSE 0
  BY <1>2 DEF Latch
<1>4. \A t \in Tasks : LatchedTask(t)
  BY <1>1, <1>2, <1>3 DEF LatchedTask, Latched
<1>5. IsQueue(<< >>)
  BY DEF IsQueue
<1> QED BY <1>2, <1>3, <1>4, <1>5 DEF LatchInv

LEMMA LatchKept == LatchInv /\ AsyncInv /\ [Next]_vars => LatchInv'
<1> SUFFICES ASSUME LatchInv, AsyncInv, [Next]_vars PROVE LatchInv'
  OBVIOUS
<1>1. CASE UNCHANGED vars
  BY <1>1, LatchStays DEF vars, poolVars
<1>2. CASE Next
  <2>1. fault = "none" /\ UNCHANGED shape
    BY <1>2 DEF Next, Alive
  <2>2. CASE \E t \in Tasks : Push(t)
    BY <2>1, <2>2, PushLatches
  <2>3. CASE \E t \in Tasks, i \in Children : Expire(t, i)
    BY <2>1, <2>3, LatchStays DEF Expire
  <2>4. CASE RunHandler
    <3>1. CASE UNCHANGED <<poolVars, fault>>
      BY <2>1, <3>1, LatchStays DEF poolVars
    <3>2. CASE queue # << >> /\ RunPoolHandler(Head(queue))
      <4>1. CASE Head(queue)[1] = "start" /\ \E ready \in SUBSET Children : \E failing \in SUBSET ready :
                   Start(Head(queue)[2], ready, failing)
        BY <2>1, <3>2, <4>1, StartLatches
      <4>2. CASE Head(queue)[1] = "fire" /\ \E outcome \in {"done", "failed"} :
                   Fire(Head(queue)[2], Head(queue)[3], outcome)
        BY <2>1, <3>2, <4>2, FireLatches
      <4>3. CASE Abort(Head(queue)[2], Head(queue)[3])
        BY <2>1, <4>3, LatchStays DEF Abort
      <4>4. CASE Cleanup
        BY <2>1, <4>4, LatchStays DEF Cleanup
      <4> QED BY <3>2, <4>1, <4>2, <4>3, <4>4 DEF RunPoolHandler
    <3> QED BY <2>4, <3>1, <3>2 DEF RunHandler
  <2>5. CASE UNCHANGED poolVars
    BY <2>1, <2>5, LatchStays DEF poolVars
  <2> QED BY <1>2, <2>2, <2>3, <2>4, <2>5 DEF Next
<1> QED BY <1>1, <1>2

(* The queue, the event, the children and the pool of any run of           *)
(* io_context: the inductive invariant.                                    *)
THEOREM QueueHolds == Spec => []AsyncInv
  BY Starts, StepsKeep, PTL DEF Spec

(* The caller of sync_wait gets the outcome its task ended with, whatever  *)
(* the order of set() and wait() and however it is woken.                  *)
THEOREM WaitersGetOutcomes == Spec => []WaiterGetsOutcome
<1>1. Range(Get) = {"valueNotSet", "returned", "threw"}
  BY DEF Range, Get
<1>2. AsyncInv => WaiterGetsOutcome
  BY <1>1 DEF AsyncInv, WaitInv, WaiterGetsOutcome
<1> QED BY <1>2, QueueHolds, PTL

(* A task that went on after a when_any or a race leaves no delay waiting. *)
THEOREM LosersAreCancelled == Spec => []NothingLeftWaiting
<1>1. AsyncInv => NothingLeftWaiting
  BY DEF AsyncInv, ChildrenInv, NothingLeftWaiting
<1> QED BY <1>1, QueueHolds, PTL

(* A task that returned leaves the pool by a cleanup that is queued.       *)
THEOREM ReturnedAreSwept == Spec => []EndedIsSwept
<1>1. AsyncInv => EndedIsSwept
  <2> SUFFICES ASSUME AsyncInv, NEW t \in pool, state[t] = "ended", fault = "none"
               PROVE  \E k \in DOMAIN queue : queue[k] = <<"cleanup">>
    BY DEF EndedIsSwept
  <2>1. Sweeping
    BY DEF AsyncInv, SweptInv
  <2>2. PICK S : queue \in Seq(S)
    BY DEF AsyncInv, QueueInv, IsQueue
  <2>3. DOMAIN queue = 1..Len(queue)
    BY <2>2
  <2> QED BY <2>1, <2>3 DEF Sweeping
<1> QED BY <1>1, QueueHolds, PTL

(* The latches of the tasks of any run: with the invariant above, the rest *)
(* of the inductive one.                                                   *)
THEOREM LatchesHold == Spec => []LatchInv
<1>1. Init /\ [][Next]_vars /\ []AsyncInv => []LatchInv
  BY LatchStarts, LatchKept, PTL
<1> QED BY <1>1, QueueHolds, PTL DEF Spec

(* A task goes on when its co_await is over and does not wait any longer,  *)
(* for any number of children, of which any may end at once.               *)
THEOREM TasksContinueInTime == Spec => []ContinuesInTime
<1>1. LatchInv => ContinuesInTime
  <2> SUFFICES ASSUME LatchInv, NEW t \in Tasks
               PROVE  /\ state[t] \in {"ended", "threw"} =>
                           Len(endings[t]) = IF shape[t] = "all" THEN N ELSE 1
                      /\ state[t] = "awaiting" =>
                           IF shape[t] = "all" THEN Len(endings[t]) < N ELSE endings[t] = << >>
    BY DEF ContinuesInTime
  <2>1. Latched(shape[t], state[t], count[t], child[t], endings[t], result[t], resumed[t])
    BY DEF LatchInv, LatchedTask
  <2>2. N \in Nat
    BY AsyncAssumption, FS_CardinalityType DEF N
  <2>3. Len(endings[t]) \in Nat
    BY DEF LatchInv, IsQueue
  <2>4. state[t] \in {"ended", "threw"} => Len(endings[t]) = IF shape[t] = "all" THEN N ELSE 1
    BY <2>1 DEF Latched
  <2>5. state[t] = "awaiting" /\ shape[t] = "all" => Len(endings[t]) < N
    BY <2>1, <2>2, <2>3 DEF Latched
  <2>6. state[t] = "awaiting" /\ shape[t] # "all" => endings[t] = << >>
    BY <2>1 DEF Latched
  <2> QED BY <2>4, <2>5, <2>6
<1> QED BY <1>1, LatchesHold, PTL

(* A when_any and a race take the outcome of the child that ended first.   *)
THEOREM FirstIsTaken == Spec => []FirstWins
<1>1. LatchInv => FirstWins
  BY DEF LatchInv, LatchedTask, Latched, FirstWins
<1> QED BY <1>1, LatchesHold, PTL
=============================================================================
