---------------------------- MODULE ReportEvents ----------------------------
(***************************************************************************)
(* The items of an ez::ExecutionReport and the events that announce them.  *)
(* One thread writes: it logs messages, at once or by a builder that logs  *)
(* when it is destroyed, and adds sub reports.  Each becomes an item of    *)
(* subitems, a StableVector, and is then announced to the observers of the *)
(* report and of the reports above it.  Meanwhile observers are added and  *)
(* removed and readers visit the items.                                    *)
(*                                                                         *)
(* Each report's observers are a map in an Atomic: adding and removing are *)
(* one step under its lock (module Atomic), while notify keeps the lock    *)
(* for as long as it calls the observers of that report.                   *)
(*                                                                         *)
(* A definition without a comment that precedes another one is a variant   *)
(* of it with a plausible mistake.                                         *)
(***************************************************************************)
EXTENDS StableVector, FiniteSets, FiniteSetsExt

CONSTANTS
  Depth,        (* the report's level, 1, and those above it, up to Depth  *)
  Observers,    (* each is added once, and removed once at most            *)
  Builders,     (* the writer's message builders                           *)
  MaxKept       (* bound: the messages and the sub reports added           *)

ASSUME EventsAssumption ==
  /\ Depth \in Nat \ {0}
  /\ IsFiniteSet(Builders)
  /\ MaxKept \in [{"message", "subReport"} -> Nat]
  /\ MaxElements >= MaxKept["message"] + MaxKept["subReport"]

Levels == 1..Depth

VARIABLES
  kept,         (* the sizes of messages and sub_reports                   *)
  item,         (* of each subitem, its kind and its rank among that kind  *)
  builder,      (* of each builder: whether it holds a report              *)
  begun,        (* history: the messages begun, by a builder or log        *)
  overwritten,  (* history: those whose builder was given another's         *)
  call,         (* the writer: where it is, the level it notifies and the  *)
                (* part of that level's observers still to be called       *)
  nextId,       (* next_observer_id of each level                          *)
  observers,    (* of each level: from identifiers to observers            *)
  observer,     (* of each observer's thread: where it is, the report it   *)
                (* observes, the identifier, the events of its level before *)
                (* it was added, and what it was called with: the item and *)
                (* where at finds it                                       *)
  told          (* history: the events passed to each level                *)

vars == <<vectorVars, kept, item, builder, begun, overwritten, call, nextId, observers, observer, told>>

Kinds == {"message", "subReport"}

NoCall == [at |-> "idle", level |-> 0, left |-> << >>]

Init ==
  /\ VectorInit
  /\ kept = [k \in Kinds |-> 0]
  /\ item = << >>
  /\ builder = [b \in Builders |-> "none"]
  /\ begun = 0
  /\ overwritten = 0
  /\ call = NoCall
  /\ nextId = [l \in Levels |-> 0]
  /\ observers = [l \in Levels |-> << >>]
  /\ observer = [o \in Observers |-> 
       [pc |-> "out", level |-> 1, id |-> 0, since |-> 0, heard |-> << >>]]
  /\ told = [l \in Levels |-> 0]

-----------------------------------------------------------------------------
(* The writer: log, add_sub_report.                                        *)

AddItem(kind) ==
  /\ call.at = "idle"
  /\ kept[kind] < MaxKept[kind]
  /\ kept' = [kept EXCEPT ![kind] = @ + 1]
  /\ item' = Append(item, [kind |-> kind, rank |-> kept'[kind]])
  /\ call' = [call EXCEPT !.at = "appending"]
  /\ UNCHANGED <<vectorVars, nextId, observers, observer, told>>

(* log(message), and add_sub_report, whose parent link nobody reads before *)
(* the sub report is appended.                                             *)
Log ==
  /\ begun < MaxKept["message"]
  /\ AddItem("message")
  /\ begun' = begun + 1
  /\ UNCHANGED <<builder, overwritten>>

AddSubReport == AddItem("subReport") /\ UNCHANGED <<builder, begun, overwritten>>

(* info(), warning(), error(), success(), debug(): they return a builder.  *)
NewBuilder(b) ==
  /\ call.at = "idle"
  /\ builder[b] = "none"
  /\ begun < MaxKept["message"]
  /\ builder' = [builder EXCEPT ![b] = "open"]
  /\ begun' = begun + 1
  /\ UNCHANGED <<vectorVars, overwritten, kept, item, call, nextId, observers, observer, told>>

MovedFromKeepsReport(b) == "open"

(* A builder that was moved from has no report.                            *)
MovedFrom(b) == "moved"

(* The move constructor, which makes c, and the move assignment, which     *)
(* overwrites what c holds without logging it; also a move from a builder  *)
(* that has no report any more, or of a builder onto itself.               *)
MoveBuilder(b, c) ==
  /\ call.at = "idle"
  /\ builder[b] # "none"
  /\ builder' = [builder EXCEPT ![c] = builder[b], ![b] = MovedFrom(b)]
  /\ overwritten' = overwritten + (IF builder[c] = "open" THEN 1 ELSE 0)
  /\ UNCHANGED <<vectorVars, kept, item, begun, call, nextId, observers, observer, told>>

(* The destructor logs, unless there is no report.                         *)
DestroyBuilder(b) ==
  /\ call.at = "idle"
  /\ builder' = [builder EXCEPT ![b] = "none"]
  /\ \/ builder[b] = "open" /\ AddItem("message") /\ UNCHANGED <<begun, overwritten>>
     \/ /\ builder[b] = "moved"
        /\ UNCHANGED <<vectorVars, kept, item, begun, overwritten, call, nextId, observers, observer, told>>

(* subitems.append(item), in its steps; then notify, from the report up.   *)
AppendItem ==
  /\ call.at = "appending"
  /\ MaybeGrow \/ PushBack
  /\ UNCHANGED <<kept, item, builder, begun, overwritten, call, nextId, observers, observer, told>>

AppendEnds ==
  /\ Publish
  /\ call' = [call EXCEPT !.at = "between", !.level = 1]
  /\ UNCHANGED <<kept, item, builder, begun, overwritten, nextId, observers, observer, told>>

-----------------------------------------------------------------------------
(* notify, and the threads that add and remove observers.                  *)

EventIndexOfSize == size

(* The event carries subitems.size() - 1.                                  *)
EventIndex == size - 1

UnlockedAlways(l) == TRUE

(* notify holds the lock of the level whose observers it calls.            *)
Unlocked(l) == ~(call.at = "calling" /\ call.level = l)

EnterLevel ==
  /\ call.at = "between"
  /\ call' = [call EXCEPT !.at = "calling", !.left = observers[call.level]]
  /\ told' = [told EXCEPT ![call.level] = @ + 1]
  /\ UNCHANGED <<vectorVars, kept, item, builder, begun, overwritten, nextId, observers, observer>>

(* The next observer of the map; it looks at subitem_at(index).            *)
CallObserver ==
  LET id == Min(DOMAIN call.left)
      o  == call.left[id]
  IN  /\ call.at = "calling"
      /\ DOMAIN call.left # {}
      /\ call' = [call EXCEPT !.left = [i \in DOMAIN @ \ {id} |-> @[i]]]
      /\ observer' = [observer EXCEPT ![o].heard =
           Append(@, [item |-> Len(item), place |-> Found(EventIndex)])]
      /\ UNCHANGED <<vectorVars, kept, item, builder, begun, overwritten, nextId, observers, told>>

(* parent.lock(), and the level above if there is one.                     *)
Above(l) ==
  IF l < Depth THEN [NoCall EXCEPT !.at = "between", !.level = l + 1] ELSE NoCall

LeaveLevel ==
  /\ call.at = "calling"
  /\ DOMAIN call.left = {}
  /\ call' = Above(call.level)
  /\ UNCHANGED <<vectorVars, kept, item, builder, begun, overwritten, nextId, observers, observer, told>>

NewIdOfCount(l) == Cardinality(DOMAIN observers[l])

(* next_observer_id++                                                      *)
NewId(l) == nextId[l]

TakeId(o, l) ==
  /\ observer[o].pc = "out"
  /\ observer' = [observer EXCEPT ![o].pc = "numbered", ![o].level = l, ![o].id = NewId(l)]
  /\ nextId' = [nextId EXCEPT ![l] = @ + 1]
  /\ UNCHANGED <<vectorVars, kept, item, builder, begun, overwritten, call, observers, told>>

(* insert, which leaves an identifier alone that the map has already.      *)
Insert(o) ==
  LET l  == observer[o].level
      id == observer[o].id
  IN  /\ observer[o].pc = "numbered"
      /\ Unlocked(l)
      /\ observers' = [observers EXCEPT ![l] =
           [i \in DOMAIN @ \union {id} |-> IF i \in DOMAIN @ THEN @[i] ELSE o]]
      /\ observer' = [observer EXCEPT ![o].pc = "added", ![o].since = told[l]]
      /\ UNCHANGED <<vectorVars, kept, item, builder, begun, overwritten, call, nextId, told>>

(* remove_observer                                                         *)
Remove(o) ==
  LET l == observer[o].level IN
  /\ observer[o].pc = "added"
  /\ Unlocked(l)
  /\ observers' = [observers EXCEPT ![l] = [i \in DOMAIN @ \ {observer[o].id} |-> @[i]]]
  /\ observer' = [observer EXCEPT ![o].pc = "removed"]
  /\ UNCHANGED <<vectorVars, kept, item, builder, begun, overwritten, call, nextId, told>>

ReadItems ==
  /\ \E r \in Readers : ReaderNext(r)
  /\ UNCHANGED <<kept, item, builder, begun, overwritten, call, nextId, observers, observer, told>>

Next ==
  \/ Log \/ AddSubReport
  \/ \E b \in Builders :
       \/ NewBuilder(b) \/ DestroyBuilder(b)
       \/ \E c \in Builders : MoveBuilder(b, c)
  \/ AppendItem \/ AppendEnds
  \/ EnterLevel \/ CallObserver \/ LeaveLevel
  \/ \E o \in Observers :
       \/ Insert(o) \/ Remove(o)
       \/ \E l \in Levels : TakeId(o, l)
  \/ ReadItems

Spec == Init /\ [][Next]_vars

-----------------------------------------------------------------------------
(* The index of an event names the item the event is about, for observers  *)
(* that look it up in the call and for readers that do so at any later     *)
(* time ("Index of the message or the report in the sub item array",       *)
(* Types.hpp:29), and the item's message or sub report is there too.       *)
EventNamesItem ==
  /\ LookupFindsElement
  /\ \A o \in Observers : \A k \in DOMAIN observer[o].heard :
       LET h == observer[o].heard[k] IN
       /\ h.place = places[h.item]
       /\ item[h.item].rank <= kept[item[h.item].kind]

(* While an observer is in the map it is called with every event of its    *)
(* report and of those below, once each and in order; only the event whose *)
(* calls are going on may still be missing.  When the writer is idle,      *)
(* every level was told of every item.                                     *)
ObserversMissNothing ==
  /\ call.at = "idle" => \A l \in Levels : told[l] = Len(item)
  /\ \A o \in Observers :
       LET l == observer[o].level
           v == observer[o]
           n == told[l] - v.since - (IF Unlocked(l) \/ v.id \notin DOMAIN call.left THEN 0 ELSE 1)
       IN  v.pc = "added" =>
             /\ Len(v.heard) = n
             /\ \A k \in 1..n : v.heard[k].item = v.since + k

(* A message begun is logged once, by log or when the builder it was last *)
(* moved to is destroyed, and is lost only when its builder was            *)
(* overwritten by a move assignment (ExecutionReport.cpp:76-98).           *)
MessagesLoggedOnce ==
  begun = kept["message"] + overwritten + Cardinality({b \in Builders : builder[b] = "open"})

(* Once remove_observer has returned, the observer is not called again: it *)
(* and what it captured can be destroyed.                                  *)
RemovedIsSilent ==
  [][\A o \in Observers :
       observer[o].pc = "removed" => observer'[o].heard = observer[o].heard]_vars
=============================================================================
