------------------------- MODULE ReportStatusProofs --------------------------
(***************************************************************************)
(* Proofs about ReportStatus for every hierarchy of reports.               *)
(***************************************************************************)
EXTENDS ReportStatus, TLAPS

IsStatus(st) == st \in [Reports -> Statuses]

(* Every report of add is final below a cancelled one, or one of L.        *)
Reaches(st, add, L) ==
  \A s \in add : st[Parent[s]] = "Cancelled" => st[s] \in Final \/ s \in L

Rooted(add) == add \subseteq Reports /\ \A s \in add : Parent[s] # None

(* Setting statuses gives statuses.                                        *)
LEMMA SetInTypes ==
  ASSUME NEW st, IsStatus(st), NEW R \in SUBSET Reports, NEW s \in Statuses
  PROVE  IsStatus(SetIn(st, R, s))
  BY DEF IsStatus, SetIn

(* What SetIn leaves alone: statuses outside R that are final, and all of  *)
(* them when nothing is cancelled.                                         *)
LEMMA SetInFrame ==
  ASSUME NEW st, IsStatus(st), NEW R \in SUBSET Reports, NEW s \in Statuses,
         NEW d \in Reports, d \notin R, st[d] \in Final \/ s # "Cancelled"
  PROVE  SetIn(st, R, s)[d] = st[d]
<1>1. CASE s # "Cancelled"
  BY <1>1 DEF SetIn
<1>2. CASE s = "Cancelled" /\ st[d] \in Final
  <2>1. ASSUME NEW r \in R PROVE d \notin CancelledWith(st, r)
    BY <1>2, <2>1 DEF CancelledWith, Path
  <2> QED BY <1>2, <2>1 DEF SetIn
<1> QED BY <1>1, <1>2

(* What SetIn sets.                                                        *)
LEMMA SetInSets ==
  ASSUME NEW st, NEW R \in SUBSET Reports, NEW s, NEW d \in Reports
  PROVE  /\ d \in R => SetIn(st, R, s)[d] = s
         /\ SetIn(st, R, s)[d] \in {s, st[d]}
  BY DEF SetIn

(* A report that is not final is cancelled with a report above it if its   *)
(* parent is that report or is itself cancelled with it.                   *)
LEMMA CancelledDown ==
  ASSUME NEW st, NEW r \in Reports, Rooted(added), NEW c \in added,
         st[c] \notin Final, Parent[c] = r \/ Parent[c] \in CancelledWith(st, r)
  PROVE  c \in CancelledWith(st, r)
<1> DEFINE p == Parent[c]
<1>1. c \in Reports /\ p \in Reports /\ Above[c] = {p} \union Above[p]
  BY ReportAssumption DEF Rooted
<1>2. r \in Above[c]
  BY <1>1 DEF CancelledWith
<1>3. ASSUME NEW a \in Path(r, c) PROVE a \in added /\ st[a] \notin Final
  <2>1. CASE a = c
    BY <2>1
  <2>2. CASE a # c /\ p = r
    <3>1. r \in Above[a] /\ a \in {r} \union Above[r]
      BY <1>1, <2>2 DEF Path
    <3>2. r \in Above[r]
      BY <3>1, ReportAssumption
    <3> QED BY <3>2, ReportAssumption
  <2>3. CASE a # c /\ p # r
    BY <1>1, <2>3 DEF Path, CancelledWith
  <2> QED BY <2>1, <2>2, <2>3
<1> QED BY <1>1, <1>2, <1>3 DEF CancelledWith

(* What is final or reached below cancelled reports is so after statuses   *)
(* were set, but for a final one that was itself set.                      *)
LEMMA SetInReachesOne ==
  ASSUME NEW st, IsStatus(st), Rooted(added), NEW L, Reaches(st, added, L),
         NEW R \in SUBSET Reports, NEW s \in Statuses, \A r \in R : st[r] # s,
         NEW c \in added, c \notin L, c \notin R \/ st[c] \notin Final,
         SetIn(st, R, s)[Parent[c]] = "Cancelled"
  PROVE  SetIn(st, R, s)[c] \in Final
<1>1. c \in Reports /\ Parent[c] \in Reports
  BY ReportAssumption DEF Rooted
<1>2. CASE st[c] \in Final
  BY <1>1, <1>2, SetInFrame
<1>3. CASE st[c] \notin Final
  <2>1. st[Parent[c]] # "Cancelled"
    BY <1>3 DEF Reaches
  <2>2. s = "Cancelled"
    BY <1>1, <2>1, SetInSets
  <2>3. PICK r \in R : Parent[c] = r \/ Parent[c] \in CancelledWith(st, r)
    BY <1>1, <2>1, <2>2 DEF SetIn
  <2>4. c \in CancelledWith(st, r)
    BY <1>3, <2>3, CancelledDown
  <2>5. SetIn(st, R, s)[c] = "Cancelled"
    BY <1>1, <2>2, <2>4 DEF SetIn
  <2> QED BY <2>5 DEF Final
<1> QED BY <1>2, <1>3

(* Setting statuses of reports that are not final reaches as many.         *)
LEMMA SetInReaches ==
  ASSUME NEW st, IsStatus(st), Rooted(added), NEW L, Reaches(st, added, L),
         NEW R \in SUBSET Reports, NEW s \in Statuses,
         \A r \in R : st[r] \notin Final /\ st[r] # s
  PROVE  Reaches(SetIn(st, R, s), added, L)
<1> SUFFICES ASSUME NEW c \in added, SetIn(st, R, s)[Parent[c]] = "Cancelled", c \notin L
             PROVE  SetIn(st, R, s)[c] \in Final
  BY DEF Reaches
<1> QED BY SetInReachesOne

(* Neither a report nor its sub reports are cancelled with a sub report.   *)
LEMMA FamilyApart ==
  ASSUME Rooted(added), NEW st, NEW r \in Reports, NEW q \in SubsOf(r), NEW d \in SubsOf(r) \union {r}
  PROVE  d \notin CancelledWith(st, q)
<1>1. q \in Reports /\ r \in Above[q]
  BY ReportAssumption DEF SubsOf, Rooted
<1>2. Above[d] \subseteq {r} \union Above[r]
  BY ReportAssumption DEF SubsOf, Rooted
<1>3. ASSUME q \in Above[d] PROVE FALSE
  <2>1. q # r
    BY <1>1, ReportAssumption
  <2>2. q \in Above[r]
    BY <1>2, <1>3, <2>1
  <2>3. r \in Above[r]
    BY <1>1, <2>2, ReportAssumption
  <2> QED BY <2>3, ReportAssumption
<1> QED BY <1>3 DEF CancelledWith

------------------------------------------------------------------------------
(* finish                                                                  *)

Pend(r)  == {s \in SubsOf(r) : status[s] = "Pending"}
Errs(r)  == {s \in SubsOf(r) : status[s] = "Running" /\ s \in failed}
Warns(r) == {s \in SubsOf(r) : status[s] = "Running" /\ s \in warned \ failed}

(* The visit of the sub reports leaves the guard's report alone and gives  *)
(* each sub report that never started or logged something a final status;  *)
(* nothing that was final changes.                                         *)
LEMMA Visit ==
  ASSUME IsStatus(status), Rooted(added), Reaches(status, added, late), NEW r \in Reports
  PROVE  /\ IsStatus(Visited(r))
         /\ Reaches(Visited(r), added, late)
         /\ Visited(r)[r] = status[r]
         /\ \A d \in Reports : status[d] \in Final => Visited(r)[d] = status[d]
         /\ \A d \in SubsOf(r) : Visited(r)[d] # "Pending"
<1> DEFINE st1 == SetIn(status, Pend(r), "Cancelled")
           st2 == SetIn(st1, Errs(r), "Error")
           st3 == SetIn(st2, Warns(r), "Warning")
<1>1. Visited(r) = st3
  BY DEF Visited, Pend, Errs, Warns
<1>2. /\ Pend(r) \in SUBSET Reports /\ Errs(r) \in SUBSET Reports /\ Warns(r) \in SUBSET Reports
      /\ {"Cancelled", "Error", "Warning"} \subseteq Statuses
      /\ r \notin SubsOf(r)
  BY ReportAssumption DEF Pend, Errs, Warns, SubsOf, Rooted, Statuses, Final
<1> HIDE DEF st1, st2, st3
<1>3. IsStatus(st1) /\ IsStatus(st2) /\ IsStatus(st3)
  <2>1. IsStatus(st1)
    BY <1>2, SetInTypes DEF st1
  <2>2. IsStatus(st2)
    BY <1>2, <2>1, SetInTypes DEF st2
  <2>3. IsStatus(st3)
    BY <1>2, <2>2, SetInTypes DEF st3
  <2> QED BY <2>1, <2>2, <2>3
<1>4. ASSUME NEW d \in SubsOf(r) \union {r} PROVE st1[d] = IF d \in Pend(r) THEN "Cancelled" ELSE status[d]
  <2>1. \A q \in Pend(r) : d \notin CancelledWith(status, q)
    BY FamilyApart DEF Pend
  <2>2. d \in Reports
    BY DEF SubsOf, Rooted
  <2> QED BY <2>1, <2>2 DEF st1, SetIn
<1>5. ASSUME NEW d \in Reports PROVE st2[d] = IF d \in Errs(r) THEN "Error" ELSE st1[d]
  BY DEF st2, SetIn
<1>6. ASSUME NEW d \in Reports PROVE st3[d] = IF d \in Warns(r) THEN "Warning" ELSE st2[d]
  BY DEF st3, SetIn
<1>7. Reaches(st3, added, late)
  <2>1. Reaches(st1, added, late)
    <3>1. \A d \in Pend(r) : status[d] \notin Final /\ status[d] # "Cancelled"
      BY DEF Pend, Final
    <3> QED BY <1>2, <3>1, SetInReaches DEF st1
  <2>2. Reaches(st2, added, late)
    <3>1. \A d \in Errs(r) : st1[d] \notin Final /\ st1[d] # "Error"
      BY <1>4 DEF Errs, Pend, Final
    <3> QED BY <1>2, <1>3, <2>1, <3>1, SetInReaches DEF st2
  <2>3. \A d \in Warns(r) : st2[d] \notin Final /\ st2[d] # "Warning"
    BY <1>4, <1>5 DEF Warns, Errs, Pend, Final, SubsOf, Rooted
  <2> QED BY <1>2, <1>3, <2>2, <2>3, SetInReaches DEF st3
<1>8. st3[r] = status[r]
  BY <1>2, <1>4, <1>5, <1>6 DEF Pend, Errs, Warns
<1>9. ASSUME NEW d \in Reports, status[d] \in Final PROVE st3[d] = status[d]
  <2>1. d \notin Pend(r) /\ d \notin Errs(r) /\ d \notin Warns(r)
    BY <1>9 DEF Pend, Errs, Warns, Final
  <2>2. st1[d] = status[d]
    BY <1>2, <1>9, <2>1, SetInFrame DEF st1
  <2> QED BY <1>5, <1>6, <2>1, <2>2
<1>10. ASSUME NEW d \in SubsOf(r) PROVE st3[d] # "Pending"
  <2>1. st1[d] # "Pending"
    BY <1>4 DEF Pend
  <2> QED BY <1>5, <1>6, <2>1 DEF SubsOf, Rooted
<1> QED BY <1>1, <1>3, <1>7, <1>8, <1>9, <1>10

(* The verdict is final and is not Cancelled.                              *)
LEMMA VerdictFinal ==
  ASSUME NEW r, NEW st, NEW throwing
  PROVE  Verdict(r, st, throwing) \in Final \ {"Cancelled"}
  BY DEF Verdict, Final

(* What finish makes of the statuses.                                      *)
LEMMA Finishes ==
  ASSUME IsStatus(status), Rooted(added), Reaches(status, added, late),
         NEW r \in Reports, NEW throwing, Finish(r, throwing)
  PROVE  /\ IsStatus(status')
         /\ Reaches(status', added, late)
         /\ \A d \in Reports : status[d] \in Final => status'[d] = status[d]
         /\ status[r] # "Pending" => status'[r] \in Final
         /\ \A d \in SubsOf(r) : status'[d] = Visited(r)[d]
         /\ status[r] \in {"Running", "CancelRequest"} =>
              status'[r] = Verdict(r, Visited(r), throwing)
<1> DEFINE st == Visited(r)
           v  == Verdict(r, st, throwing)
<1>1. /\ IsStatus(st) /\ Reaches(st, added, late) /\ st[r] = status[r]
      /\ \A d \in Reports : status[d] \in Final => st[d] = status[d]
  BY Visit
<1>2. status' = IF st[r] \in {"Running", "CancelRequest"} THEN SetIn(st, {r}, v) ELSE st
  BY DEF Finish
<1>3. v \in Final /\ v # "Cancelled" /\ v \in Statuses
  BY VerdictFinal DEF Statuses
<1>4. r \notin SubsOf(r)
  BY ReportAssumption DEF SubsOf, Rooted
<1> HIDE DEF st, v
<1>5. CASE st[r] \in {"Running", "CancelRequest"}
  <2>1. status' = SetIn(st, {r}, v)
    BY <1>2, <1>5
  <2>2. IsStatus(status')
    BY <1>1, <1>3, <2>1, SetInTypes
  <2>3. Reaches(status', added, late)
    <3>1. st[r] \notin Final /\ st[r] # v
      BY <1>3, <1>5 DEF Final
    <3> QED BY <1>1, <1>3, <2>1, <3>1, SetInReaches
  <2>4. \A d \in Reports : status'[d] = IF d = r THEN v ELSE st[d]
    BY <1>3, <2>1 DEF SetIn
  <2>5. status[r] \notin Final
    BY <1>1, <1>5 DEF Final
  <2> QED BY <1>1, <1>3, <1>4, <2>2, <2>3, <2>4, <2>5, ReportAssumption DEF st, v, SubsOf, Rooted
<1>6. CASE st[r] \notin {"Running", "CancelRequest"}
  <2>1. status' = st
    BY <1>2, <1>6
  <2>2. status[r] \in Final \union {"Pending"}
    BY <1>1, <1>6 DEF IsStatus, Statuses
  <2> QED BY <1>1, <1>6, <2>1, <2>2 DEF st
<1> QED BY <1>5, <1>6

------------------------------------------------------------------------------
(* The invariant                                                           *)

IInv == TypeOK /\ Rooted(added) /\ Reaches(status, added, late)

(* The initial state satisfies the invariant.                              *)
LEMMA InitInv == Init => IInv
  BY DEF Init, IInv, TypeOK, Rooted, Reaches, Statuses

(* Which final statuses a step changes.                                    *)
Owned == \A d \in Reports :
  status[d] \in Final /\ status'[d] # status[d] => \E s \in Statuses : SetStatus(d, s)

(* A status set by its own call: the sub reports of cancelled reports are  *)
(* final or late, and no other final status changes.                       *)
LEMMA Sets ==
  ASSUME IInv, NEW r \in Reports, NEW s \in Statuses, SetStatus(r, s)
  PROVE  IInv' /\ Owned
<1>1. TypeOK /\ Rooted(added) /\ Reaches(status, added, late) /\ IsStatus(status)
  BY DEF IInv, TypeOK, IsStatus
<1>2. /\ status' = SetIn(status, {r}, s) /\ status[r] # s
      /\ late' = Late(late \union {r}, status', added) /\ added' = added
  BY DEF SetStatus
<1>3. IsStatus(status')
  BY <1>1, <1>2, SetInTypes
<1>4. TypeOK'
  BY <1>1, <1>3 DEF SetStatus, Flag, Late, TypeOK, IsStatus
<1>5. Reaches(status', added, late')
  <2> SUFFICES ASSUME NEW c \in added, status'[Parent[c]] = "Cancelled", status'[c] \notin Final
               PROVE  c \in late'
    BY DEF Reaches
  <2>1. CASE c \in late \/ c = r
    BY <1>1, <1>2, <2>1 DEF Late, Rooted
  <2>2. CASE c \notin late /\ c # r
    <3>1. status'[c] \in Final
      BY <1>1, <1>2, <2>2, SetInReachesOne
    <3> QED BY <3>1
  <2> QED BY <2>1, <2>2
<1>6. Owned
  <2> SUFFICES ASSUME NEW d \in Reports, status[d] \in Final, d # r
               PROVE  status'[d] = status[d]
    BY DEF Owned
  <2> QED BY <1>1, <1>2, SetInFrame
<1>7. (Rooted(added) /\ Reaches(status, added, late))'
  BY <1>1, <1>2, <1>5 DEF Rooted, Reaches
<1> QED BY <1>4, <1>6, <1>7 DEF IInv

(* Every step keeps the invariant, and changes a final status only by a    *)
(* call on its own report.                                                 *)
LEMMA StepInv ==
  ASSUME IInv, [Next]_vars
  PROVE  IInv' /\ Owned
<1>1. TypeOK /\ Rooted(added) /\ Reaches(status, added, late) /\ IsStatus(status)
  BY DEF IInv, TypeOK, IsStatus
<1>2. ASSUME NEW r \in Reports, AddSubReport(r) PROVE IInv' /\ Owned
  <2>1. TypeOK' /\ Rooted(added') /\ Owned /\ status' = status
    BY <1>1, <1>2 DEF AddSubReport, TypeOK, Late, Rooted, Owned
  <2>2. Reaches(status', added', late')
    BY <1>1, <1>2 DEF AddSubReport, Reaches, Late
  <2>3. (Rooted(added) /\ Reaches(status, added, late))'
    BY <2>1, <2>2 DEF Rooted, Reaches
  <2> QED BY <2>1, <2>3 DEF IInv
<1>3. ASSUME NEW r \in Reports, Guard(r) PROVE IInv' /\ Owned
  <2>1. CASE status[r] = "Pending"
    <3>1. status[r] \notin Final /\ status[r] # "Running" /\ "Running" \in Statuses
      BY <2>1 DEF Final, Statuses
    <3>2. status' = SetIn(status, {r}, "Running") /\ added' = added /\ late' = late
      BY <1>3, <2>1 DEF Guard
    <3>3. IsStatus(status') /\ Reaches(status', added, late)
      BY <1>1, <3>1, <3>2, SetInTypes, SetInReaches
    <3>4. Owned
      BY <1>1, <3>1, <3>2, SetInFrame DEF Owned
    <3>5. TypeOK'
      BY <1>1, <1>3, <3>3 DEF Guard, TypeOK, IsStatus
    <3>6. (Rooted(added) /\ Reaches(status, added, late))'
      BY <1>1, <3>2, <3>3 DEF Rooted, Reaches
    <3> QED BY <3>4, <3>5, <3>6 DEF IInv
  <2>2. CASE status[r] # "Pending"
    BY <1>1, <1>3, <2>2 DEF Guard, IInv, TypeOK, Rooted, Reaches, Owned
  <2> QED BY <2>1, <2>2
<1>4. ASSUME NEW r \in Reports, Release(r) \/ LogError(r) \/ LogWarning(r) PROVE IInv' /\ Owned
  BY <1>1, <1>4 DEF Release, LogError, LogWarning, IInv, TypeOK, Rooted, Reaches, Owned
<1>5. ASSUME NEW r \in Reports, NEW throwing \in BOOLEAN, Finish(r, throwing)
      PROVE  IInv' /\ Owned
  <2>1. /\ IsStatus(status') /\ Reaches(status', added, late)
        /\ \A d \in Reports : status[d] \in Final => status'[d] = status[d]
    BY <1>1, <1>5, Finishes
  <2>2. TypeOK'
    BY <1>1, <1>5, <2>1 DEF Finish, Flag, TypeOK, IsStatus
  <2>3. (Rooted(added) /\ Reaches(status, added, late))'
    BY <1>1, <1>5, <2>1 DEF Finish, Rooted, Reaches
  <2> QED BY <2>1, <2>2, <2>3 DEF IInv, Owned
<1>6. ASSUME NEW r \in Reports, NEW s \in Statuses, SetStatus(r, s) PROVE IInv' /\ Owned
  BY <1>6, Sets
<1>7. CASE UNCHANGED vars
  BY <1>1, <1>7 DEF vars, IInv, TypeOK, Rooted, Reaches, Owned
<1> QED BY <1>2, <1>3, <1>4, <1>5, <1>6, <1>7 DEF Next

(* The variables always have their types.                                  *)
THEOREM TypesHold == Spec => []TypeOK
<1>1. IInv /\ [Next]_vars => IInv'
  BY StepInv
<1>2. IInv => TypeOK
  BY DEF IInv
<1> QED BY InitInv, <1>1, <1>2, PTL DEF Spec

(* The sub reports of a cancelled report are final in every hierarchy, but *)
(* for those added or set themselves since (ExecutionReport.cpp:276-281).  *)
THEOREM CancelIsSafe == Spec => []CancelReaches
<1>1. IInv /\ [Next]_vars => IInv'
  BY StepInv
<1>2. IInv => CancelReaches
  BY DEF IInv, Reaches, CancelReaches
<1> QED BY InitInv, <1>1, <1>2, PTL DEF Spec

(* What has ended changes only by set_status of its own report: no guard   *)
(* and no end or cancelling above changes it (ExecutionReport.cpp:276-281, *)
(* ExecutionStatusGuard.cpp:16-77).                                        *)
THEOREM OthersKeepFinal == Spec => FinalStays
<1>1. IInv /\ [Next]_vars => IInv'
  BY StepInv
<1>2. IInv /\ [Next]_vars =>
        [\A r \in Reports : status[r] \in Final /\ status'[r] # status[r] =>
           \E s \in Statuses : SetStatus(r, s)]_vars
  BY StepInv DEF Owned
<1> QED BY InitInv, <1>1, <1>2, PTL DEF Spec, FinalStays

(* The end of a guard gives its report the verdict.                        *)
LEMMA EndedStep ==
  ASSUME IInv, [Next]_vars, NEW r \in ended' \ ended
  PROVE  Ended(r)
<1>1. TypeOK /\ Rooted(added) /\ Reaches(status, added, late) /\ IsStatus(status)
  BY DEF IInv, TypeOK, IsStatus
<1>2. PICK throwing \in BOOLEAN : r \in Reports /\ Finish(r, throwing)
  BY DEF Next, AddSubReport, Guard, Release, Finish, LogError, LogWarning, SetStatus, vars
<1>3. /\ IsStatus(status')
      /\ status[r] # "Pending" => status'[r] \in Final
      /\ \A d \in SubsOf(r) : status'[d] = Visited(r)[d]
      /\ status[r] \in {"Running", "CancelRequest"} =>
           status'[r] = Verdict(r, Visited(r), throwing)
  BY <1>1, <1>2, Finishes
<1>4. \A d \in SubsOf(r) : status'[d] # "Pending"
  BY <1>1, <1>2, <1>3, Visit
<1>5. /\ failed' = failed \union {d \in Reports : status'[d] = "Error"}
      /\ warned' = warned \union {d \in Reports : status'[d] = "Warning"}
  BY <1>2 DEF Finish, Flag
<1>6. ASSUME status[r] \in {"Running", "CancelRequest"}
      PROVE  /\ status'[r] \in {"Finished", "Warning"} =>
                  r \notin failed' /\ \A s \in SubsOf(r) : status'[s] # "Error"
             /\ status'[r] = "Finished" =>
                  r \notin warned' /\ \A s \in SubsOf(r) : status'[s] # "Warning"
  <2>1. status'[r] = Verdict(r, Visited(r), throwing)
    BY <1>3, <1>6
  <2>2. CASE r \in failed \/ throwing = TRUE \/ \E s \in SubsOf(r) : Visited(r)[s] = "Error"
    BY <2>1, <2>2 DEF Verdict
  <2>3. CASE /\ r \notin failed /\ throwing = FALSE
             /\ \A s \in SubsOf(r) : Visited(r)[s] # "Error"
    <3>1. status'[r] # "Error"
      BY <2>1, <2>3 DEF Verdict
    <3>2. status'[r] = "Finished" =>
            r \notin warned /\ \A s \in SubsOf(r) : Visited(r)[s] # "Warning"
      BY <2>1, <2>3 DEF Verdict
    <3> QED BY <1>3, <1>5, <2>3, <3>1, <3>2
  <2> QED BY <2>2, <2>3
<1> QED BY <1>3, <1>4, <1>6 DEF Ended

(* Every guard decides rightly, in every hierarchy.                        *)
THEOREM VerdictsAreRight == Spec => GuardsDecide
<1>1. IInv /\ [Next]_vars => IInv'
  BY StepInv
<1>2. IInv /\ [Next]_vars => [\A r \in ended' \ ended : Ended(r)]_vars
  BY EndedStep
<1> QED BY InitInv, <1>1, <1>2, PTL DEF Spec, GuardsDecide
=============================================================================
