--------------------------- MODULE ReportProgress ----------------------------
(***************************************************************************)
(* The progress of a hierarchy of ez::ExecutionReport.  Each report has    *)
(* one writer, as the class documents, who may set any progress at any     *)
(* time, higher or lower.  A change goes up: the writer makes the progress *)
(* of each report above the weighted mean of its sub reports', without a   *)
(* lock, where the writers of all reports below meet with that report's    *)
(* own.  They read the old value, visit the sub reports one by one,        *)
(* compare and exchange, and start over when somebody else was faster.     *)
(* Each access of a report's progress is a step.                           *)
(*                                                                         *)
(* A definition without a comment that precedes another one is a variant   *)
(* of it with a plausible mistake; the README's table of mutants says      *)
(* which property finds it.                                                *)
(***************************************************************************)
EXTENDS Integers, SequencesExt, FiniteSetsExt

CONSTANTS
  Reports,      (* the hierarchy's reports                                 *)
  Parent,       (* of each report, or None                                 *)
  Subs,         (* of each report, in the order they were added            *)
  Weight,       (* progress_weight_in_parent of each report                *)
  Values,       (* the integers each report's writer may set               *)
  None

ASSUME ProgressAssumption ==
  /\ None \notin Reports
  /\ Parent \in [Reports -> Reports \union {None}]
  /\ \A r \in Reports : Subs[r] \in Seq({s \in Reports : Parent[s] = r}) /\ IsInjective(Subs[r])
  /\ \A s \in Reports : Parent[s] # None => Contains(Subs[Parent[s]], s)
  /\ Weight \in [Reports -> Nat]
  /\ Values \in [Reports -> SUBSET Int]

(* The reports on which set_progress is called.                            *)
Writers == {w \in Reports : Values[w] # {}}

VARIABLES
  progress,     (* of each report                                          *)
  pc,           (* of the writer of each report                            *)
  given,        (* the value it is about to store                          *)
  node,         (* the report it updates                                   *)
  old,          (* the value it read there                                 *)
  next,         (* the number of the sub report it visits next             *)
  sum,          (* the weighted progress of those it visited               *)
  disturbed     (* history: the reports that were set by their own writer, *)
                (* or had a sub report go back, since they last showed the *)
                (* mean while nobody was calling                           *)

vars == <<progress, pc, given, node, old, next, sum, disturbed>>

Progress == 0..100

(* Whatever integers are set, progress stays within 0..100, and so does    *)
(* every mean (ExecutionProgress, Types.hpp:57-102).                       *)
TypeOK ==
  /\ progress \in [Reports -> Progress]
  /\ pc \in [Writers -> {"idle", "store", "propagate", "read", "visit", "exchange"}]
  /\ given \in [Writers -> Progress]
  /\ node \in [Writers -> Reports]
  /\ old \in [Writers -> Progress]
  /\ next \in [Writers -> Nat]
  /\ sum \in [Writers -> Nat]
  /\ disturbed \subseteq Reports

Init ==
  /\ progress = [r \in Reports |-> 0]
  /\ pc = [w \in Writers |-> "idle"]
  /\ given = [w \in Writers |-> 0]
  /\ node = [w \in Writers |-> w]
  /\ old = [w \in Writers |-> 0]
  /\ next = [w \in Writers |-> 1]
  /\ sum = [w \in Writers |-> 0]
  /\ disturbed = {}

------------------------------------------------------------------------------
(* Values                                                                  *)

AsByte(v) == v % 256

(* ExecutionProgress(int): the value is cut to a byte, then clamped.       *)
AsProgress(v) == LET b == v % 256 IN IF b > 100 THEN 100 ELSE b

(* The sum over the first sub reports of r, for each number of them, of    *)
(* what p gives each, weighted.                                            *)
Visited(r, p) ==
  LET total[k \in 0..Len(Subs[r])] ==
        IF k = 0 THEN 0 ELSE total[k - 1] + Weight[Subs[r][k]] * p[Subs[r][k]]
  IN total

TotalOf(r, p) == Visited(r, p)[Len(Subs[r])]

TotalWeight(r) == TotalOf(r, [s \in Reports |-> 1])

(* A mean rounded to the nearest integer, halves up.                       *)
Mean(r, total) == (2 * total + TotalWeight(r)) \div (2 * TotalWeight(r))

MeanOf(r, p) == Mean(r, TotalOf(r, p))

(* The reports whose progress is a mean.                                   *)
Inner == {r \in Reports : TotalWeight(r) > 0}

------------------------------------------------------------------------------
(* Steps of the writer of the report w                                     *)

(* The reports whose mean is lowered by storing v in r.                    *)
Lowered(r, v) == {q \in Inner : v < progress[r] /\ Parent[r] = q /\ Weight[r] > 0}

(* set_progress, also by set_status(Finished), with 100: the comparison.   *)
SetProgress(w, v) ==
  /\ pc[w] = "idle"
  /\ AsProgress(v) # progress[w]
  /\ given' = [given EXCEPT ![w] = AsProgress(v)]
  /\ pc' = [pc EXCEPT ![w] = "store"]
  /\ UNCHANGED <<progress, node, old, next, sum, disturbed>>

(* The store, whatever the progress is by now.                             *)
Store(w) ==
  /\ pc[w] = "store"
  /\ progress' = [progress EXCEPT ![w] = given[w]]
  /\ disturbed' = disturbed \union Lowered(w, given[w]) \union (Inner \intersect {w})
  /\ given' = [given EXCEPT ![w] = 0]
  /\ pc' = [pc EXCEPT ![w] = "propagate"]
  /\ UNCHANGED <<node, old, next, sum>>

(* The reports that stay disturbed when the call of w ends.                *)
StillDisturbed(w) ==
  IF \A u \in Writers \ {w} : pc[u] = "idle"
  THEN {r \in disturbed : progress[r] # MeanOf(r, progress)}
  ELSE disturbed

(* try_propagate_progress_to_parent: an excluded report and the root end   *)
(* the call.                                                               *)
Propagate(w) ==
  /\ pc[w] = "propagate"
  /\ LET r == node[w] IN
     \/ /\ Weight[r] = 0 \/ Parent[r] = None
        /\ pc' = [pc EXCEPT ![w] = "idle"]
        /\ node' = [node EXCEPT ![w] = w]
        /\ disturbed' = StillDisturbed(w)
     \/ /\ Weight[r] # 0 /\ Parent[r] # None
        /\ pc' = [pc EXCEPT ![w] = "read"]
        /\ node' = [node EXCEPT ![w] = Parent[r]]
        /\ UNCHANGED disturbed
  /\ UNCHANGED <<progress, given, old, next, sum>>

(* progress(), before the sub reports are visited.                         *)
ReadOld(w) ==
  /\ pc[w] = "read"
  /\ old' = [old EXCEPT ![w] = progress[node[w]]]
  /\ pc' = [pc EXCEPT ![w] = "visit"]
  /\ UNCHANGED <<progress, given, node, next, sum, disturbed>>

(* The next sub report's progress is added.                                *)
Visit(w) ==
  /\ pc[w] = "visit"
  /\ LET r == node[w]
         s == Subs[r][next[w]]
     IN /\ sum' = [sum EXCEPT ![w] = @ + Weight[s] * progress[s]]
        /\ next' = [next EXCEPT ![w] = @ + 1]
        /\ pc' = [pc EXCEPT ![w] = IF next[w] = Len(Subs[r]) THEN "exchange" ELSE "visit"]
  /\ UNCHANGED <<progress, given, node, old, disturbed>>

EndRoundKeepSum(w) ==
  /\ old' = [old EXCEPT ![w] = 0]
  /\ next' = [next EXCEPT ![w] = 1]
  /\ UNCHANGED sum

(* The locals of one round end.                                            *)
EndRound(w) ==
  /\ old' = [old EXCEPT ![w] = 0]
  /\ next' = [next EXCEPT ![w] = 1]
  /\ sum' = [sum EXCEPT ![w] = 0]

StoreAlways(w) == TRUE

(* What compare_exchange compares.                                         *)
Unchanged(w) == progress[node[w]] = old[w]

(* A successful exchange is propagated upwards even if it stored the old   *)
(* value again.                                                            *)
Exchange(w) ==
  /\ pc[w] = "exchange"
  /\ Unchanged(w)
  /\ progress' = [progress EXCEPT ![node[w]] = Mean(node[w], sum[w])]
  /\ disturbed' = disturbed \union Lowered(node[w], Mean(node[w], sum[w]))
  /\ pc' = [pc EXCEPT ![w] = "propagate"]
  /\ EndRound(w)
  /\ UNCHANGED <<given, node>>

GiveUp(w) == "propagate"

ExchangeAgain(w) == "exchange"

(* A failed exchange, which a weak one may also be without a reason,       *)
(* starts over.                                                            *)
AfterFailure(w) == "read"

Retry(w) ==
  /\ pc[w] = "exchange"
  /\ pc' = [pc EXCEPT ![w] = AfterFailure(w)]
  /\ EndRound(w)
  /\ UNCHANGED <<progress, given, node, disturbed>>

Step(w) == Store(w) \/ Propagate(w) \/ ReadOld(w) \/ Visit(w) \/ Exchange(w) \/ Retry(w)

Next == \E w \in Writers : Step(w) \/ \E v \in Values[w] : SetProgress(w, v)

(* Every writer's thread runs, and an exchange that could succeed again    *)
(* and again does not fail for ever.                                       *)
Fairness == \A w \in Writers : WF_vars(Step(w)) /\ SF_vars(Exchange(w))

Spec == Init /\ [][Next]_vars /\ Fairness

------------------------------------------------------------------------------
(* Properties                                                              *)

(* When no call is under way, a report shows the mean of its sub reports:  *)
(* no writer's update was lost to another's stale one.  That may fail only *)
(* once the report was set by its own writer or a sub report went back     *)
(* (ExecutionReport.cpp:294-336).                                          *)
SettledIsMean ==
  (\A w \in Writers : pc[w] = "idle") =>
    \A r \in Inner \ disturbed : progress[r] = MeanOf(r, progress)

(* Nor does such a report show more than its sub reports have reached, at  *)
(* any time, whatever sums the writers store (ExecutionReport.cpp:313-329).*)
NeverAhead == \A r \in Inner \ disturbed : progress[r] <= MeanOf(r, progress)

(* The progress of a report with sub reports goes back only if its own     *)
(* writer has set it or a sub report went back, though stale means are     *)
(* computed (the compare and exchange, ExecutionReport.cpp:331-335).       *)
NeverBack == [][\A r \in Inner : progress'[r] < progress[r] => r \in disturbed']_vars

(* Every call of set_progress returns when callers do not go on for ever:  *)
(* the writers do not keep each other in the loop                          *)
(* (ExecutionReport.cpp:331-335).                                          *)
CallsReturn ==
  <>[][\A w \in Writers : pc[w] = "idle" => pc'[w] = "idle"]_vars =>
    <>[](\A w \in Writers : pc[w] = "idle")
=============================================================================
