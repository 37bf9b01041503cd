-------------------------------- MODULE Async --------------------------------
(***************************************************************************)
(* ez.async on one io_context that one thread runs: a TaskPool of tasks,   *)
(* each of which awaits a when_all, a when_any or a race of children and   *)
(* ends.  A child is a task or an operation that suspends on a delay, or   *)
(* a task that ends without suspending.  A handler runs to completion, so  *)
(* it is one action; timers expire in any order in between.                *)
(*                                                                         *)
(* Another thread, the main one, may sync_wait for a task: it runs the     *)
(* task until this moves to the io_context with schedule_on, and sleeps on *)
(* the condition variable of an event, a local of sync_wait, that the task *)
(* sets when it ends.                                                      *)
(*                                                                         *)
(* The frames of the children's continuation tasks belong to the awaiter,  *)
(* a temporary of the co_await expression: they are destroyed at its end,  *)
(* while handlers that will resume them may still be queued.               *)
(*                                                                         *)
(* A definition without a comment that precedes another one is a variant   *)
(* of it with a plausible mistake; the README's table of mutants says      *)
(* which property finds it.                                                *)
(***************************************************************************)
EXTENDS Naturals, SequencesExt, FiniteSetsExt

CONSTANTS
  Tasks,        (* the tasks given to the pool                             *)
  Shapes,       (* what they may await: "all", "any", "race"               *)
  Children      (* the awaited children, 1..N, in tuple order              *)

ASSUME AsyncAssumption ==
  /\ Shapes \subseteq {"all", "any", "race"}
  /\ IsFiniteSet(Children)
  /\ Children # {} /\ Children = 1..Cardinality(Children)

VARIABLES
  shape,        (* what each task awaits                                   *)
  queue,        (* the handlers the io_context has ready, in order         *)
  pool,         (* TaskPool::m_tasks                                       *)
  state,        (* of each task's coroutine                                *)
  count,        (* the latch: what is left (all), what is done (any, race) *)
  child,        (* each continuation task's frame                          *)
  timer,        (* each child's delay                                      *)
  endings,      (* the children of each task that ended, in that order     *)
  result,       (* the child whose outcome a when_any or a race took       *)
  resumed,      (* how often each task went on after its co_await          *)
  main,         (* the thread that calls sync_wait                         *)
  event,        (* SyncWaitEvent::m_set                                    *)
  received,     (* the Receiver of the task waited for                     *)
  notifying,    (* is the io_context's thread between set()'s two halves?  *)
  fault         (* the undefined behaviour or termination met, if any      *)

poolVars == <<pool, state, count, child, timer, endings, result, resumed>>
waitVars == <<main, event, received, notifying>>
vars == <<shape, queue, poolVars, waitVars, fault>>

N == Cardinality(Children)

(* The child of S that k of them, itself among them, do not come after.    *)
AtPlace(S, k) == CHOOSE i \in S : Cardinality({j \in S : j <= i}) = k

(* The children of S in tuple order.                                       *)
InOrder(S) == [k \in 1..Cardinality(S) |-> AtPlace(S, k)]

(* A child is a continuation task: it runs up to the delay it waits for,   *)
(* ends by returning or throwing, and its frame goes with the awaiter.     *)
ChildStates == {"created", "suspended", "done", "failed", "destroyed"}

(* A task's coroutine is created suspended, runs when it is resumed, and   *)
(* stays suspended at its end until the task is destroyed.                 *)
TaskStates == {"new", "pushed", "awaiting", "ended", "threw"}

(* A delay's timer is started, found expired or cancelled, which queues    *)
(* its handler, and has run it.                                            *)
TimerStates == {"none", "armed", "queued", "spent"}

(* What a Receiver holds, and what its get() then does.                    *)
Get == [empty |-> "valueNotSet", value |-> "returned", exception |-> "threw"]

(* The thread in sync_wait has started the task that notifies the event,   *)
(* sleeps, and gives what that task received.                              *)
MainStates == {"idle", "started", "asleep"} \union Range(Get)

Handlers ==
  ({"start"} \X Tasks) \union ({"fire", "abort"} \X Tasks \X Children)
    \union {<<"cleanup">>, <<"scheduled">>}

TypeOK ==
  /\ shape \in [Tasks -> Shapes]
  /\ main \in MainStates
  /\ event \in BOOLEAN /\ notifying \in BOOLEAN
  /\ received \in DOMAIN Get
  /\ \A k \in DOMAIN queue : queue[k] \in Handlers
  /\ pool \subseteq Tasks
  /\ state \in [Tasks -> TaskStates]
  /\ count \in [Tasks -> 0..N + 1]
  /\ child \in [Tasks -> [Children -> ChildStates]]
  /\ timer \in [Tasks -> [Children -> TimerStates]]
  /\ \A t \in Tasks : endings[t] \in BoundedSeq(Children, N) /\ IsInjective(endings[t])
  /\ result \in [Tasks -> Children \union {0}]
  /\ resumed \in [Tasks -> 0..2]
  /\ fault \in {"none", "deadFrame", "resumedTwice", "terminated", "deadClosure", "deadEvent"}

LatchOfLen(s) == [t \in Tasks |-> IF s[t] = "all" THEN N ELSE 0]

(* The latch of a when_all counts its children and the caller.             *)
Latch(s) == [t \in Tasks |-> IF s[t] = "all" THEN N + 1 ELSE 0]

Init ==
  /\ shape \in [Tasks -> Shapes]
  /\ queue = << >>
  /\ pool = {}
  /\ state = [t \in Tasks |-> "new"]
  /\ count = Latch(shape)
  /\ child = [t \in Tasks |-> [i \in Children |-> "created"]]
  /\ timer = [t \in Tasks |-> [i \in Children |-> "none"]]
  /\ endings = [t \in Tasks |-> << >>]
  /\ result = [t \in Tasks |-> 0]
  /\ resumed = [t \in Tasks |-> 0]
  /\ main = "idle" /\ event = FALSE /\ received = "empty" /\ notifying = FALSE
  /\ fault = "none"

(* operator<<: the task is wrapped, kept and its first resumption posted.  *)
Push(t) ==
  /\ state[t] = "new"
  /\ state' = [state EXCEPT ![t] = "pushed"]
  /\ pool' = pool \union {t}
  /\ queue' = Append(queue, <<"start", t>>)
  /\ UNCHANGED <<count, child, timer, endings, result, resumed, fault>>

(* The io_context finds a timer expired and queues its handler; cancel()   *)
(* no longer reaches it.                                                   *)
Expire(t, i) ==
  /\ timer[t][i] = "armed"
  /\ timer' = [timer EXCEPT ![t][i] = "queued"]
  /\ queue' = Append(queue, <<"fire", t, i>>)
  /\ UNCHANGED <<pool, state, count, child, endings, result, resumed, fault>>

------------------------------------------------------------------------------
(* The continuation                                                        *)

Has(ch, status) == {i \in Children : ch[i] = status}

(* await_resume of a when_any keeps the last ended child in tuple order.   *)
Taken(t, ch) == IF shape[t] = "all" THEN 0 ELSE Max(Has(ch, "done") \union Has(ch, "failed"))

Uncancelled(tm) == {}

(* The delays that still wait: race cancels them, and a when_any destroys  *)
(* them, which cancels them too.                                           *)
Cancelled(tm) == {i \in Children : tm[i] = "armed"}

CleanupDropped(t) == << >>

(* The wrapper of a task that returned posts the cleanup.                  *)
PostCleanup(t) == <<<<"cleanup">>>>

(* t goes on after its co_await, its children being ch and its timers tm,  *)
(* and ends.  The results of a when_all are read in a noexcept function,   *)
(* those of a when_any are thrown on.  The frames are destroyed.  times is *)
(* 2 if the awaiter resumes t a second time.  The wrapper's lambda was     *)
(* destroyed when operator<< returned: using it to post the cleanup may    *)
(* also end the program.                                                   *)
Continue(t, ch, tm, rest, times) ==
  LET failed  == Has(ch, "failed") # {}
      aborts  == [k \in 1..Cardinality(Cancelled(tm)) |->
                    <<"abort", t, InOrder(Cancelled(tm))[k]>>]
      cleanup == IF failed THEN << >> ELSE PostCleanup(t)
      met     == IF shape[t] = "all" /\ failed THEN {"terminated"}
                 ELSE IF times = 2 THEN {"resumedTwice"}
                 ELSE IF failed THEN {"none"}
                 ELSE {"none", "deadClosure"}
  IN /\ resumed' = [resumed EXCEPT ![t] = @ + times]
     /\ state' = [state EXCEPT ![t] = IF failed THEN "threw" ELSE "ended"]
     /\ result' = [result EXCEPT ![t] = Taken(t, ch)]
     /\ child' = [child EXCEPT ![t] = [i \in Children |-> "destroyed"]]
     /\ timer' = [timer EXCEPT ![t] =
                    [i \in Children |-> IF i \in Cancelled(tm) THEN "queued" ELSE tm[i]]]
     /\ queue' = rest \o aborts \o cleanup
     /\ fault' \in met

(* t's children are ch and its timers tm, and t waits.                     *)
Wait(t, ch, tm, rest) ==
  /\ child' = [child EXCEPT ![t] = ch]
  /\ timer' = [timer EXCEPT ![t] = tm]
  /\ state' = [state EXCEPT ![t] = "awaiting"]
  /\ queue' = rest
  /\ UNCHANGED <<result, resumed, fault>>

Die(reason) ==
  /\ fault' = reason
  /\ UNCHANGED <<state, child, timer, result, resumed>>

------------------------------------------------------------------------------
(* The handlers                                                            *)

StartedWithoutCaller(t, ready) ==
  IF shape[t] = "all" THEN count[t] - Cardinality(ready) ELSE Cardinality(ready)

(* The latch once t has suspended, which a when_all's counts as well, and  *)
(* all children were started.                                              *)
Started(t, ready) ==
  IF shape[t] = "all" THEN count[t] - 1 - Cardinality(ready) ELSE Cardinality(ready)

(* The task runs up to its co_await, whose awaiter starts the children in  *)
(* order; those in ready end at once, those in failing by an exception.    *)
(* If they are all ready, the latch of a when_all resumes t, which ends,   *)
(* and the awaiter resumes it again.  If one is, that of a when_any        *)
(* resumes t while the awaiter still starts children or reads the latch,   *)
(* in memory that t has freed.                                             *)
Start(t, ready, failing) ==
  LET ch == [i \in Children |-> CASE i \in failing         -> "failed"
                                  [] i \in ready \ failing -> "done"
                                  [] i \notin ready         -> "suspended"]
      tm == [i \in Children |-> IF i \in ready THEN "none" ELSE "armed"]
  IN /\ shape[t] = "race" => ready = {}
     /\ count' = [count EXCEPT ![t] = Started(t, ready)]
     /\ endings' = [endings EXCEPT ![t] = InOrder(ready)]
     /\ \/ /\ shape[t] = "all" /\ count'[t] = 0
           /\ Continue(t, ch, tm, Tail(queue), 2)
        \/ /\ shape[t] = "all" => count'[t] # 0
           /\ shape[t] # "all" => ready = {}
           /\ Wait(t, ch, tm, Tail(queue))
        \/ /\ shape[t] # "all" /\ ready # {}
           /\ queue' = Tail(queue)
           /\ Die("deadFrame")
     /\ UNCHANGED pool

NotifyOnSecond(t) == count[t] = 1

(* notify_awaitable_completed of the two latches: whether the child that   *)
(* ends is the one that resumes the caller.                                *)
LastOfAll(t) == count[t] = 1
FirstOfAny(t) == count[t] = 0

(* The final suspension of a child notifies the latch.                     *)
Notify(t) == IF shape[t] = "all" THEN LastOfAll(t) ELSE FirstOfAny(t)

(* A timer's handler without an error resumes the child, which ends with a *)
(* value or an exception and notifies the latch.  Nothing tells it that    *)
(* the child's frame is gone.                                              *)
Fire(t, i, outcome) ==
  LET ch == [child[t] EXCEPT ![i] = outcome]
      tm == [timer[t] EXCEPT ![i] = "spent"]
  IN \/ /\ child[t][i] = "destroyed"
        /\ outcome = "done"
        /\ queue' = Tail(queue)
        /\ Die("deadFrame")
        /\ UNCHANGED <<pool, count, endings>>
     \/ /\ child[t][i] = "suspended"
        /\ shape[t] = "race" => outcome = "done"
        /\ count' = [count EXCEPT ![t] = IF shape[t] = "all" THEN @ - 1 ELSE @ + 1]
        /\ endings' = [endings EXCEPT ![t] = Append(@, i)]
        /\ \/ Notify(t) /\ Continue(t, ch, tm, Tail(queue), 1)
           \/ ~ Notify(t) /\ Wait(t, ch, tm, Tail(queue))
        /\ UNCHANGED pool

(* A timer's handler with an error does nothing.                           *)
Abort(t, i) ==
  /\ timer' = [timer EXCEPT ![t][i] = "spent"]
  /\ queue' = Tail(queue)
  /\ UNCHANGED <<pool, state, count, child, endings, result, resumed, fault>>

(* The tasks that cleanup() removes.                                       *)
Done(t) == state[t] \in {"ended", "threw"}

Cleanup ==
  /\ pool' = {t \in pool : ~ Done(t)}
  /\ queue' = Tail(queue)
  /\ UNCHANGED <<state, count, child, timer, endings, result, resumed, fault>>

(* A handler of the pool or of a timer.                                    *)
RunPoolHandler(h) ==
  \/ h[1] = "start" /\ \E ready \in SUBSET Children : \E failing \in SUBSET ready :
                         Start(h[2], ready, failing)
  \/ h[1] = "fire" /\ \E outcome \in {"done", "failed"} : Fire(h[2], h[3], outcome)
  \/ h[1] = "abort" /\ Abort(h[2], h[3])
  \/ h[1] = "cleanup" /\ Cleanup

------------------------------------------------------------------------------
(* sync_wait and schedule_on                                               *)

(* The awaited task ends, and the task of sync_wait that awaits it with    *)
(* the same outcome.                                                       *)
Receive == received' \in {"value", "exception"}

(* The first half of set(), under the mutex.                               *)
SetEvent == event' = TRUE

(* sync_wait starts the task, which ends at once on this thread, setting   *)
(* the event before anybody waits, or posts its resumption.                *)
SyncWait ==
  /\ main = "idle"
  /\ main' = "started"
  /\ \/ Receive /\ SetEvent /\ UNCHANGED queue
     \/ queue' = Append(queue, <<"scheduled">>) /\ UNCHANGED <<received, event>>
  /\ UNCHANGED notifying

(* The posted handler resumes the task, which ends.  Its final suspension  *)
(* sets the event under the mutex, and has yet to notify.                  *)
ResumeScheduled ==
  /\ Receive
  /\ SetEvent
  /\ notifying' = TRUE
  /\ queue' = Tail(queue)
  /\ UNCHANGED main

BlocksAlways == TRUE
BlocksNotWoken == main = "started"

(* The predicate of the condition variable's wait: the caller sleeps.      *)
Blocks == ~ event

(* wait(), with the mutex held: the caller of sync_wait goes to sleep or   *)
(* takes the result, and its event and the task's frame are destroyed.  A  *)
(* sleeper may also wake without having been notified.                     *)
WaitForEvent ==
  /\ main \in {"started", "asleep"}
  /\ main' = IF Blocks THEN "asleep" ELSE Get[received]
  /\ UNCHANGED <<queue, event, received, notifying>>

(* notify_all wakes a sleeper, who looks at the event again.  When         *)
(* sync_wait has returned, the condition variable is gone.                 *)
NotifyAll ==
  /\ notifying
  /\ notifying' = FALSE
  /\ main' = IF main = "asleep" THEN "started" ELSE main
  /\ fault' \in IF main \in {"started", "asleep"} THEN {"none"} ELSE {"none", "deadEvent"}
  /\ UNCHANGED <<queue, event, received>>

(* The thread runs the handler at the head of the queue.                   *)
RunHandler ==
  /\ queue # << >> /\ ~ notifying
  /\ LET h == Head(queue) IN
     \/ h[1] = "scheduled" /\ ResumeScheduled /\ UNCHANGED <<poolVars, fault>>
     \/ RunPoolHandler(h) /\ UNCHANGED waitVars

(* A step of the running program.                                          *)
Alive == fault = "none" /\ UNCHANGED shape

Next ==
  /\ Alive
  /\ \/ (\E t \in Tasks : Push(t)) /\ UNCHANGED waitVars
     \/ (\E t \in Tasks, i \in Children : Expire(t, i)) /\ UNCHANGED waitVars
     \/ RunHandler
     \/ SyncWait /\ UNCHANGED <<poolVars, fault>>
     \/ WaitForEvent /\ UNCHANGED <<poolVars, fault>>
     \/ NotifyAll /\ UNCHANGED poolVars

(* run() takes the handlers one after the other and timers expire.  A      *)
(* thread that can go on does: the io_context's notifies, and a caller of  *)
(* sync_wait that was notified, or has not slept yet, looks at the event.  *)
(* Who pushes tasks or calls sync_wait, and when, is free.                 *)
Fairness ==
  /\ WF_vars(Alive /\ RunHandler)
  /\ WF_vars(Alive /\ NotifyAll /\ UNCHANGED poolVars)
  /\ WF_vars(Alive /\ main = "started" /\ WaitForEvent /\ UNCHANGED <<poolVars, fault>>)
  /\ \A t \in Tasks, i \in Children : WF_vars(Alive /\ Expire(t, i) /\ UNCHANGED waitVars)

Spec == Init /\ [][Next]_vars /\ Fairness

------------------------------------------------------------------------------
(* Properties                                                              *)

(* A task goes on exactly when its co_await is over: after all children of *)
(* a when_all and after one of a when_any, and it does not wait any longer *)
(* then (WhenAll.hpp:36-45, WhenAny.hpp:43-48, the latches).               *)
ContinuesInTime ==
  \A t \in Tasks :
    /\ state[t] \in {"ended", "threw"} =>
         Len(endings[t]) = IF shape[t] = "all" THEN N ELSE 1
    /\ state[t] = "awaiting" =>
         IF shape[t] = "all" THEN Len(endings[t]) < N ELSE endings[t] = << >>

(* A when_any and a race take the outcome of the child that ended first,   *)
(* though await_resume looks at all of them (WhenAny.hpp:107-141).         *)
FirstWins ==
  \A t \in Tasks :
    (shape[t] # "all" /\ resumed[t] > 0) => result[t] = Head(endings[t])

(* Once a task went on, no delay of its children is left waiting that      *)
(* would keep run() busy or fire later: its handlers are already queued    *)
(* (Race.hpp:17-31, the cancelling of the losers).                         *)
NothingLeftWaiting ==
  \A t \in Tasks, i \in Children : resumed[t] > 0 => timer[t][i] # "armed"

(* A task that returned is in the pool only while a cleanup is queued; one *)
(* that threw may stay until another task's cleanup (Executor.cpp:8-25).   *)
EndedIsSwept ==
  \A t \in pool :
    (state[t] = "ended" /\ fault = "none") => \E k \in DOMAIN queue : queue[k] = <<"cleanup">>

(* A task given to the pool is resumed, waits, ends and leaves the pool,   *)
(* unless it throws or the program dies (Executor.cpp:6-25).               *)
PoolDrains ==
  \A t \in Tasks :
    (state[t] = "pushed") ~> (t \notin pool \/ state[t] = "threw" \/ fault # "none")

(* Whoever calls sync_wait gets the outcome of the task, never a receiver  *)
(* without one: not by a spurious wake-up and not when the task ends       *)
(* before the caller sleeps (detail/Wait.hpp:14-28, Receiver.hpp:47-52).   *)
WaiterGetsOutcome ==
  main \in Range(Get) => received # "empty" /\ main = Get[received]

(* It does not sleep for ever, whichever of set() and wait() comes first   *)
(* (detail/Wait.hpp:14-28).                                                *)
WaiterReturns == main = "started" ~> (main \in {"returned", "threw"} \/ fault # "none")

(* No handler resumes a child whose frame is gone (Operation.hpp:23-39).   *)
NoDeadFrame == fault # "deadFrame"
=============================================================================
