---------------------------- MODULE StableVector ----------------------------
(***************************************************************************)
(* ez::internal::AppendOnlyStableVector: one writer appends while readers  *)
(* visit, without a lock.  The elements live in blocks of BlockSize chained*)
(* in a list; m_size, incremented last, publishes them.                    *)
(*                                                                         *)
(* Everything but m_size is read by the readers while the writer changes   *)
(* it: the list's links and the fill of the last block.  A reader finds    *)
(* their old or their new value.  An element is told by its place, the     *)
(* block and the index in it, which is its address and never changes.      *)
(*                                                                         *)
(* A definition without a comment that precedes another one is a variant   *)
(* of it with a plausible mistake; the README's table of mutants says      *)
(* which property finds it.                                                *)
(***************************************************************************)
EXTENDS Naturals, Sequences

CONSTANTS
  BlockSize,    (* elements in a block                                     *)
  Readers,      (* the reading threads                                     *)
  MaxElements,  (* bound: elements appended                                *)
  MaxVisits     (* bound: visits and look-ups of each reader               *)

ASSUME VectorAssumption ==
  /\ BlockSize \in Nat \ {0}
  /\ MaxElements \in Nat
  /\ MaxVisits \in Nat

VARIABLES
  blocks,       (* m_blocks: how many elements each block holds            *)
  size,         (* m_size                                                  *)
  capacity,     (* m_capacity                                              *)
  wpc,          (* where the writer is in append                           *)
  places,       (* where each element was put, in the order of the appends *)
  reader        (* the state of each reader's visit                        *)

vectorVars == <<blocks, size, capacity, wpc, places, reader>>

(* pc, the snapshot of m_size (of a look-up: the rank), what is left of it *)
(* (count), the block and the index in it, the end of the block as read on *)
(* entering it, the elements f was called with, and the calls begun.       *)
NewVisit(n, calls) ==
  [pc |-> "visiting", snapshot |-> n, count |-> n, block |-> 0, index |-> 0,
   end |-> 0, visited |-> << >>, calls |-> calls]

VectorInit ==
  /\ blocks = << >>
  /\ size = 0
  /\ capacity = 0
  /\ wpc = "idle"
  /\ places = << >>
  /\ reader = [r \in Readers |-> [NewVisit(0, 0) EXCEPT !.pc = "idle"]]

-----------------------------------------------------------------------------
(* append, first maybe_grow: a full vector gets another block.             *)
MaybeGrow ==
  /\ wpc = "idle"
  /\ Len(places) < MaxElements
  /\ IF size = capacity
     THEN /\ blocks' = Append(blocks, 0)
          /\ capacity' = capacity + BlockSize
     ELSE UNCHANGED <<blocks, capacity>>
  /\ wpc' = "grown"
  /\ UNCHANGED <<size, places, reader>>

(* m_blocks.back().push_back(t)                                            *)
PushBack ==
  LET b == Len(blocks) IN
  /\ wpc = "grown"
  /\ blocks' = [blocks EXCEPT ![b] = @ + 1]
  /\ places' = Append(places, <<b, blocks[b] + 1>>)
  /\ wpc' = "pushed"
  /\ UNCHANGED <<size, capacity, reader>>

(* ++m_size                                                                *)
Publish ==
  /\ wpc = "pushed"
  /\ size' = size + 1
  /\ wpc' = "idle"
  /\ UNCHANGED <<blocks, capacity, places, reader>>

WriterNext == MaybeGrow \/ PushBack \/ Publish

-----------------------------------------------------------------------------
(* What visit takes for the number of elements: m_size.                    *)
Snapshot == size

GuardFromOne(v) == v.count = 1

(* if (!count) return                                                      *)
Guard(v) == v.count = 0

(* Where at(i) looks.                                                      *)
PlaceOf(i) == <<(i \div BlockSize) + 1, (i % BlockSize) + 1>>

VisitBegin(r) ==
  /\ reader[r].pc # "visiting"
  /\ reader[r].calls < MaxVisits
  /\ reader' = [reader EXCEPT ![r] = NewVisit(Snapshot, reader[r].calls + 1)]
  /\ UNCHANGED <<blocks, size, capacity, wpc, places>>

(* The range-for over the list reaches the next block, and takes the end   *)
(* of that block's elements once; or it reaches the end of the list.       *)
NextBlock(r) ==
  LET v == reader[r] IN
  /\ v.pc = "visiting"
  /\ v.index = v.end
  /\ reader' = [reader EXCEPT ![r] =
       IF v.block < Len(blocks)
       THEN [v EXCEPT !.block = @ + 1, !.index = 0, !.end = blocks[v.block + 1]]
       ELSE [v EXCEPT !.pc = "visited"]]
  /\ UNCHANGED <<blocks, size, capacity, wpc, places>>

(* The next element of the block: return, or call f.  f ends a             *)
(* visit_while_true when it returns false (more = FALSE).                  *)
VisitItem(r, more) ==
  LET v == reader[r] IN
  /\ v.pc = "visiting"
  /\ v.index < v.end
  /\ reader' = [reader EXCEPT ![r] =
       IF Guard(v) THEN [v EXCEPT !.pc = "visited"]
       ELSE [v EXCEPT !.visited = Append(@, <<v.block, v.index + 1>>),
                      !.pc = IF more THEN "visiting" ELSE "stopped",
                      !.count = IF more THEN @ - 1 ELSE @,
                      !.index = @ + 1]]
  /\ UNCHANGED <<blocks, size, capacity, wpc, places>>

(* Where at(i) finds the element; the block's own at throws when the block *)
(* is shorter.  i is below m_size, which the assertions in at demand.      *)
Nowhere == <<0, 0>>

Found(i) ==
  LET p == PlaceOf(i)
  IN  IF p[1] \in DOMAIN blocks /\ p[2] <= blocks[p[1]] THEN p ELSE Nowhere

At(r, i) ==
  LET v == reader[r] IN
  /\ v.pc # "visiting"
  /\ v.calls < MaxVisits
  /\ i < size
  /\ reader' = [reader EXCEPT ![r] =
       [NewVisit(i, v.calls + 1) EXCEPT !.pc = "found", !.block = Found(i)[1],
                                        !.index = Found(i)[2]]]
  /\ UNCHANGED <<blocks, size, capacity, wpc, places>>

ReaderNext(r) ==
  \/ VisitBegin(r)
  \/ NextBlock(r)
  \/ \E more \in BOOLEAN : VisitItem(r, more)
  \/ \E i \in 0..MaxElements : At(r, i)

-----------------------------------------------------------------------------
(* A visitor is only called with published elements, from the first on, in *)
(* the order of the appends ("prevent visiting elements being inserted and *)
(* not yet published", AppendOnlyStableVector.hpp:56-58); and a visit that *)
(* is not stopped calls f with all that were published when it began,      *)
(* however many are appended meanwhile.                                    *)
VisitsAreExact ==
  \A r \in Readers :
    LET v == reader[r].visited IN
    /\ Len(v) <= size
    /\ v = SubSeq(places, 1, Len(v))
    /\ reader[r].pc = "visited" => Len(v) = reader[r].snapshot

(* A look-up below size() finds the element appended at that rank, in a    *)
(* block that holds it (AppendOnlyStableVector.hpp:32-41).                 *)
LookupFindsElement ==
  \A r \in Readers :
    LET v == reader[r] IN
    v.pc = "found" => places[v.snapshot + 1] = <<v.block, v.index>>
=============================================================================
