---------------------------- MODULE ReportStatus -----------------------------
(***************************************************************************)
(* The statuses of a hierarchy of ez::ExecutionReport and the guards that  *)
(* end its tasks.  The class allows one writer, so a call is one action:   *)
(* reports are added to the one above at any time, guards of different     *)
(* reports are created, released and destroyed in any order, tasks log,    *)
(* and anybody sets any status of any report, a final one included.        *)
(*                                                                         *)
(* A definition without a comment that precedes another one is a variant   *)
(* of it with a plausible mistake; the README's table of mutants says      *)
(* which property finds it.                                                *)
(***************************************************************************)
EXTENDS Naturals

CONSTANTS
  Reports,      (* the hierarchy's reports                                 *)
  Parent,       (* of each report, the one it is added to, or None         *)
  Above,        (* the reports above each report, once all were added      *)
  Tasks,        (* bound: the reports that get a guard                     *)
  Loggers,      (* bound: the reports whose tasks log                      *)
  None

ASSUME ReportAssumption ==
  /\ None \notin Reports
  /\ Parent \in [Reports -> Reports \union {None}]
  /\ Above \in [Reports -> SUBSET Reports]
  /\ \A r \in Reports :
       /\ r \notin Above[r]
       /\ Above[r] = IF Parent[r] = None THEN {} ELSE {Parent[r]} \union Above[Parent[r]]
       /\ \A a \in Above[r] : Above[a] \subseteq Above[r]

VARIABLES
  added,        (* the reports that add_sub_report added to their parent   *)
  status,       (* of each report                                          *)
  warned,       (* those with warning_logged                               *)
  failed,       (* those with error_logged                                 *)
  guarded,      (* those with an ExecutionStatusGuard                      *)
  ended,        (* those whose guard was destroyed                         *)
  late          (* history: the reports that are not final as they were    *)
                (* added, or their status was set, when the parent was     *)
                (* cancelled                                               *)

vars == <<added, status, warned, failed, guarded, ended, late>>

Final    == {"Cancelled", "Finished", "Warning", "Error"}
Statuses == {"Pending", "Running", "CancelRequest"} \union Final

TypeOK ==
  /\ added \subseteq Reports
  /\ status \in [Reports -> Statuses]
  /\ warned \subseteq Reports
  /\ failed \subseteq Reports
  /\ guarded \subseteq Reports
  /\ ended \subseteq Reports
  /\ late \subseteq Reports

Init ==
  /\ added = {}
  /\ status = [r \in Reports |-> "Pending"]
  /\ warned = {}
  /\ failed = {}
  /\ guarded = {}
  /\ ended = {}
  /\ late = {}

------------------------------------------------------------------------------
(* What set_status does                                                    *)

SubsOf(r) == {s \in added : Parent[s] = r}

(* The reports from below r down to s, which is one of them.               *)
Path(r, s) == {a \in Above[s] \union {s} : r \in Above[a]}

CancelledAll(st, r) == {s \in Reports : r \in Above[s] /\ Path(r, s) \subseteq added}

CancelledNone(st, r) == {}

(* Cancelling r also cancels its sub reports that are not final, and so on *)
(* down to the first that is.                                              *)
CancelledWith(st, r) ==
  {s \in Reports : r \in Above[s] /\ \A a \in Path(r, s) : a \in added /\ st[a] \notin Final}

(* The statuses st after those in R were set to s.                         *)
SetIn(st, R, s) ==
  [d \in Reports |->
     IF d \in R THEN s
     ELSE IF s = "Cancelled" /\ \E r \in R : st[r] # s /\ d \in CancelledWith(st, r) THEN s
     ELSE st[d]]

(* Those of R that are not final, though their parent is cancelled.        *)
Late(R, st, add) ==
  {d \in R \intersect add :
     Parent[d] # None /\ st[Parent[d]] = "Cancelled" /\ st[d] \notin Final}

(* Setting Error or Warning also counts as having logged one.              *)
Flag(st) ==
  /\ failed' = failed \union {r \in Reports : st[r] = "Error"}
  /\ warned' = warned \union {r \in Reports : st[r] = "Warning"}

------------------------------------------------------------------------------
(* Calls                                                                   *)

(* add_sub_report, of a report that may have been used before.             *)
AddSubReport(r) ==
  /\ Parent[r] # None
  /\ r \notin added
  /\ added' = added \union {r}
  /\ late' = late \union Late({r}, status, added')
  /\ UNCHANGED <<status, warned, failed, guarded, ended>>

(* The guard's constructor starts a task that is pending.                  *)
Guard(r) ==
  /\ r \notin guarded \union ended
  /\ guarded' = guarded \union {r}
  /\ status' = IF status[r] = "Pending" THEN SetIn(status, {r}, "Running") ELSE status
  /\ UNCHANGED <<added, warned, failed, ended, late>>

(* release(), or init() without a guard: nobody will end the report.       *)
Release(r) ==
  /\ r \in guarded
  /\ guarded' = guarded \ {r}
  /\ UNCHANGED <<added, status, warned, failed, ended, late>>

(* finish: sub reports that never started are cancelled, those that still  *)
(* run get the status of what they logged, if they logged an error or a    *)
(* warning.                                                                *)
Visited(r) ==
  LET subs  == SubsOf(r)
      errs  == {s \in subs : status[s] = "Running" /\ s \in failed}
      warns == {s \in subs : status[s] = "Running" /\ s \in warned \ failed}
      pend  == {s \in subs : status[s] = "Pending"}
  IN SetIn(SetIn(SetIn(status, pend, "Cancelled"), errs, "Error"), warns, "Warning")

VerdictOfLog(r, st, throwing) ==
  IF r \in failed \/ throwing THEN "Error" ELSE IF r \in warned THEN "Warning" ELSE "Finished"

(* What a guard makes of r, whose sub reports are as in st.                *)
Verdict(r, st, throwing) ==
  LET error   == r \in failed \/ throwing \/ \E s \in SubsOf(r) : st[s] = "Error"
      warning == r \in warned \/ \E s \in SubsOf(r) : st[s] = "Warning"
  IN IF error THEN "Error" ELSE IF warning THEN "Warning" ELSE "Finished"

(* The guard is destroyed, perhaps by an exception.  It changes the status *)
(* of its report only if that still runs or ignored a request to stop.     *)
Finish(r, throwing) ==
  LET st  == Visited(r)
      new == IF st[r] \in {"Running", "CancelRequest"}
             THEN SetIn(st, {r}, Verdict(r, st, throwing)) ELSE st
  IN /\ r \in guarded
     /\ guarded' = guarded \ {r}
     /\ ended' = ended \union {r}
     /\ status' = new
     /\ Flag(new)
     /\ UNCHANGED <<added, late>>

LogError(r) ==
  failed' = failed \union {r} /\ UNCHANGED <<added, status, warned, guarded, ended, late>>

LogWarning(r) ==
  warned' = warned \union {r} /\ UNCHANGED <<added, status, failed, guarded, ended, late>>

(* set_status, by the task or by somebody who asks it to stop: any other   *)
(* status replaces the one the report has.                                 *)
SetStatus(r, s) ==
  /\ s # status[r]
  /\ status' = SetIn(status, {r}, s)
  /\ Flag(status')
  /\ late' = Late(late \union {r}, status', added)
  /\ UNCHANGED <<added, guarded, ended>>

Next ==
  \E r \in Reports :
    \/ AddSubReport(r)
    \/ r \in Tasks /\ Guard(r)
    \/ Release(r)
    \/ \E throwing \in BOOLEAN : Finish(r, throwing)
    \/ r \in Loggers /\ (LogError(r) \/ LogWarning(r))
    \/ \E s \in Statuses : SetStatus(r, s)

Spec == Init /\ [][Next]_vars

------------------------------------------------------------------------------
(* Properties                                                              *)

(* Only set_status of the report itself changes a final status: neither a  *)
(* guard, be it the report's or one above, nor the end or the cancelling   *)
(* of a report above does (ExecutionReport.cpp:276-281,                    *)
(* ExecutionStatusGuard.cpp:16-77).                                        *)
FinalStays ==
  [][\A r \in Reports :
       status[r] \in Final /\ status'[r] # status[r] => \E s \in Statuses : SetStatus(r, s)]_vars

(* Cancelling a report stops what is below it: as long as it is cancelled  *)
(* its sub reports are final, except for one that is added later or whose  *)
(* own status is set later (ExecutionReport.cpp:276-281).                  *)
CancelReaches ==
  \A s \in added : status[Parent[s]] = "Cancelled" => status[s] \in Final \/ s \in late

(* What is so when the guard of r has ended: no sub report waits to be     *)
(* started; r is final, unless its status was set back to Pending; and if  *)
(* r still ran, it is Finished only if nothing went wrong in it or below,  *)
(* and a Warning only if nothing failed.                                   *)
Ended(r) ==
  /\ status[r] # "Pending" => status'[r] \in Final
  /\ \A s \in SubsOf(r) : status'[s] # "Pending"
  /\ status[r] \in {"Running", "CancelRequest"} =>
       /\ status'[r] \in {"Finished", "Warning"} =>
            r \notin failed' /\ \A s \in SubsOf(r) : status'[s] # "Error"
       /\ status'[r] = "Finished" =>
            r \notin warned' /\ \A s \in SubsOf(r) : status'[s] # "Warning"

(* The destructor of a guard gives its report the verdict                  *)
(* (ExecutionStatusGuard.cpp:24-77).                                       *)
GuardsDecide == [][\A r \in ended' \ ended : Ended(r)]_vars
=============================================================================
