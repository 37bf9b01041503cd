-------------------------- MODULE ReportEventsProofs --------------------------
(***************************************************************************)
(* Proofs about ReportEvents for every hierarchy, any observers, builders  *)
(* and readers, and blocks of any size.  The first part is about the       *)
(* vector: what a step of its writer or of a reader keeps.                 *)
(***************************************************************************)
EXTENDS ReportEvents, Integers, FiniteSetTheorems, WellFoundedInduction, TLAPS

-----------------------------------------------------------------------------
(* The vector                                                              *)

(* The storage: all blocks but the last are full, the last one is not      *)
(* empty, except when it was just made, and the elements lie in it without *)
(* gaps, where PlaceOf says.                                               *)
StorageTypes ==
  /\ blocks \in Seq(Nat)
  /\ size \in Nat
  /\ capacity \in Nat
  /\ wpc \in {"idle", "grown", "pushed"}
  /\ places \in Seq(Nat \X Nat)

StorageInv ==
  /\ StorageTypes
  /\ capacity = Len(blocks) * BlockSize
  /\ \A b \in 1..Len(blocks) : b < Len(blocks) => blocks[b] = BlockSize
  /\ Len(blocks) = 0 => Len(places) = 0 /\ wpc = "idle"
  /\ Len(blocks) # 0 =>
       /\ Len(places) = (Len(blocks) - 1) * BlockSize + blocks[Len(blocks)]
       /\ blocks[Len(blocks)] <= BlockSize
       /\ wpc = "grown" => blocks[Len(blocks)] < BlockSize
       /\ wpc # "grown" => blocks[Len(blocks)] # 0
  /\ Len(places) = IF wpc = "pushed" THEN size + 1 ELSE size
  /\ \A k \in 1..Len(places) : places[k] = PlaceOf(k - 1)

(* A reader: it was called with the first elements; what it has read of    *)
(* its block's end is that of a full block or covers its snapshot, so that *)
(* as long as something is left to visit, block and index say where.       *)
Visits ==
  [pc: {"idle", "visiting", "visited", "stopped", "found"}, snapshot: Nat, count: Nat,
   block: Nat, index: Nat, end: Nat, visited: Seq(Nat \X Nat), calls: Nat]

PlaceInv(v) ==
  /\ v.block <= Len(blocks)
  /\ v.index <= v.end
  /\ v.block = 0 => v.end = 0 /\ Len(v.visited) = 0
  /\ v.block # 0 =>
       /\ v.end <= BlockSize
       /\ v.end = BlockSize \/ (v.block - 1) * BlockSize + v.end >= v.snapshot
       /\ v.count # 0 => Len(v.visited) = (v.block - 1) * BlockSize + v.index

VisitInv(v) ==
  /\ v \in Visits
  /\ Len(v.visited) <= size
  /\ \A k \in 1..Len(v.visited) : v.visited[k] = PlaceOf(k - 1)
  /\ v.pc = "visiting" => v.snapshot <= size /\ Len(v.visited) + v.count = v.snapshot /\ PlaceInv(v)
  /\ v.pc = "visited" => Len(v.visited) = v.snapshot
  /\ v.pc = "found" => v.snapshot < size /\ <<v.block, v.index>> = PlaceOf(v.snapshot)

ReadersInv ==
  /\ reader = [r \in Readers |-> reader[r]]
  /\ \A r \in Readers : VisitInv(reader[r])

VectorInv == StorageInv /\ ReadersInv

------------------------------------------------------------------------------
(* Arithmetic: the r-th place of the block after q full ones.              *)

LEMMA Products ==
  ASSUME NEW q \in Nat
  PROVE  /\ q * BlockSize \in Nat
         /\ (q + 1) * BlockSize = q * BlockSize + BlockSize
         /\ 0 * BlockSize = 0
  BY VectorAssumption

(* The product before it.                                                  *)
LEMMA ProductsDown ==
  ASSUME NEW q \in Nat \ {0}
  PROVE  /\ q - 1 \in Nat /\ (q - 1) * BlockSize \in Nat
         /\ q * BlockSize = (q - 1) * BlockSize + BlockSize
<1>1. q - 1 \in Nat /\ q = (q - 1) + 1
  OBVIOUS
<1>2. ((q - 1) + 1) * BlockSize = (q - 1) * BlockSize + BlockSize /\ (q - 1) * BlockSize \in Nat
  BY <1>1, Products
<1> QED BY <1>1, <1>2

LEMMA Quotients ==
  ASSUME NEW q \in Nat, NEW r \in Nat, r < BlockSize
  PROVE  PlaceOf(q * BlockSize + r) = <<q + 1, r + 1>>
<1>1. (q * BlockSize + r) \div BlockSize = q /\ (q * BlockSize + r) % BlockSize = r
  BY VectorAssumption
<1> QED BY <1>1 DEF PlaceOf

LEMMA Division ==
  ASSUME NEW i \in Nat
  PROVE  \E q, r \in Nat : r < BlockSize /\ i = q * BlockSize + r
<1>1. /\ i \div BlockSize \in Nat /\ i % BlockSize \in 0..BlockSize - 1
      /\ i = (i \div BlockSize) * BlockSize + (i % BlockSize)
  BY VectorAssumption
<1> QED BY <1>1, VectorAssumption

LEMMA PlacesArePairs ==
  ASSUME NEW i \in Nat
  PROVE  PlaceOf(i) \in Nat \X Nat
<1>1. PICK q \in Nat, r \in Nat : r < BlockSize /\ i = q * BlockSize + r
  BY Division
<1> QED BY <1>1, Quotients

------------------------------------------------------------------------------
(* The writer                                                              *)

LEMMA VectorStarts == VectorInit => VectorInv
<1> SUFFICES ASSUME VectorInit PROVE VectorInv
  OBVIOUS
<1>1. StorageInv
  BY Products, VectorAssumption DEF VectorInit, StorageInv, StorageTypes
<1>2. ReadersInv
  <2> DEFINE new == NewVisit(0, 0)
  <2>1. new \in Visits /\ Len(new.visited) = 0 /\ size \in Nat
    BY DEF VectorInit, NewVisit, Visits
  <2>2. reader = [r \in Readers |-> [new EXCEPT !.pc = "idle"]]
    BY Zenon DEF VectorInit
  <2> HIDE DEF new
  <2>3. ASSUME NEW r \in Readers PROVE VisitInv(reader[r])
    <3>1. /\ reader[r] \in Visits /\ reader[r].pc = "idle"
          /\ reader[r].visited = new.visited
      BY <2>1, <2>2 DEF Visits
    <3> QED BY <2>1, <3>1 DEF VisitInv
  <2> QED BY <2>2, <2>3 DEF ReadersInv
<1> QED BY <1>1, <1>2 DEF VectorInv

(* A reader's state stays right when blocks are added and size grows.      *)
LEMMA WriterKeepsReaders ==
  ASSUME StorageInv, ReadersInv, UNCHANGED reader,
         size' \in Nat, size <= size', Len(blocks)' \in Nat, Len(blocks) <= Len(blocks)'
  PROVE  ReadersInv'
<1> SUFFICES ASSUME NEW r \in Readers PROVE VisitInv(reader[r])'
  BY DEF ReadersInv
<1>1. VisitInv(reader[r]) /\ reader'[r] = reader[r]
  BY DEF ReadersInv
<1>2. Len(reader[r].visited) \in Nat /\ reader[r].snapshot \in Nat /\ reader[r].block \in Nat
  BY <1>1 DEF VisitInv, Visits
<1>3. Len(blocks) \in Nat /\ size \in Nat
  BY DEF StorageInv, StorageTypes
<1>4. PlaceInv(reader[r]) => PlaceInv(reader[r])'
  BY <1>1, <1>2, <1>3 DEF PlaceInv
<1> QED BY <1>1, <1>2, <1>3, <1>4 DEF VisitInv, PlaceOf

LEMMA MaybeGrowKeeps ==
  ASSUME VectorInv, MaybeGrow
  PROVE  VectorInv'
<1> DEFINE L == Len(blocks)
<1>1. /\ blocks \in Seq(Nat) /\ L \in Nat /\ size \in Nat /\ BlockSize \in Nat \ {0}
      /\ wpc = "idle" /\ Len(places) = size /\ Len(places) \in Nat
  BY VectorAssumption DEF VectorInv, StorageInv, StorageTypes, MaybeGrow
<1>2. CASE size = capacity
  <2>1. /\ blocks' = Append(blocks, 0) /\ capacity' = capacity + BlockSize
        /\ wpc' = "grown" /\ UNCHANGED <<size, places, reader>>
    BY <1>2 DEF MaybeGrow
  <2>2. /\ blocks' \in Seq(Nat) /\ Len(blocks') = L + 1 /\ blocks'[L + 1] = 0
        /\ \A b \in 1..L : blocks'[b] = blocks[b]
    BY <1>1, <2>1
  <2>3. Len(places) = L * BlockSize
    BY <1>1, <1>2 DEF VectorInv, StorageInv
  <2>4. L # 0 => blocks[L] = BlockSize
    <3> SUFFICES ASSUME L # 0 PROVE blocks[L] = BlockSize
      OBVIOUS
    <3>1. L \in Nat \ {0} /\ L - 1 \in Nat /\ blocks[L] \in Nat
      BY <1>1
    <3>2. L * BlockSize = (L - 1) * BlockSize + BlockSize /\ (L - 1) * BlockSize \in Nat
      BY <3>1, ProductsDown
    <3>3. Len(places) = (L - 1) * BlockSize + blocks[L]
      BY DEF VectorInv, StorageInv
    <3> QED BY <1>1, <2>3, <3>1, <3>2, <3>3
  <2>5. \A b \in 1..L + 1 : b < L + 1 => blocks'[b] = BlockSize
    <3>1. \A b \in 1..L : b < L => blocks[b] = BlockSize
      BY DEF VectorInv, StorageInv
    <3> SUFFICES ASSUME NEW b \in 1..L PROVE blocks'[b] = BlockSize
      BY <1>1
    <3>2. blocks'[b] = blocks[b]
      BY <2>2
    <3>3. b < L \/ (b = L /\ L # 0)
      BY <1>1
    <3> QED BY <2>4, <3>1, <3>2, <3>3
  <2>6. capacity' = (L + 1) * BlockSize /\ L * BlockSize \in Nat
    BY <1>1, <2>1, Products DEF VectorInv, StorageInv
  <2>7. StorageTypes'
    BY <1>1, <2>1, <2>2, <2>6 DEF VectorInv, StorageInv, StorageTypes
  <2>8. \A k \in 1..Len(places) : places[k] = PlaceOf(k - 1)
    BY DEF VectorInv, StorageInv
  <2>9. StorageInv'
    BY <1>1, <2>1, <2>2, <2>3, <2>5, <2>6, <2>7, <2>8 DEF StorageInv, PlaceOf
  <2> QED BY <1>1, <2>1, <2>2, <2>9, WriterKeepsReaders DEF VectorInv
<1>3. CASE size # capacity
  <2>1. wpc' = "grown" /\ UNCHANGED <<blocks, capacity, size, places, reader>>
    BY <1>3 DEF MaybeGrow
  <2>2. L # 0
    BY <1>1, <1>3, Products DEF VectorInv, StorageInv
  <2>3. blocks[L] < BlockSize
    <3>1. L \in Nat \ {0} /\ L - 1 \in Nat /\ blocks[L] \in Nat
      BY <1>1, <2>2
    <3>2. L * BlockSize = (L - 1) * BlockSize + BlockSize /\ (L - 1) * BlockSize \in Nat
      BY <3>1, ProductsDown
    <3>3. /\ size = (L - 1) * BlockSize + blocks[L] /\ blocks[L] <= BlockSize
          /\ size # L * BlockSize
      BY <1>1, <1>3, <2>2 DEF VectorInv, StorageInv
    <3> QED BY <1>1, <3>1, <3>2, <3>3
  <2>4. StorageInv'
    BY <1>1, <2>1, <2>2, <2>3 DEF VectorInv, StorageInv, StorageTypes, PlaceOf
  <2> QED BY <1>1, <2>1, <2>4, WriterKeepsReaders DEF VectorInv
<1> QED BY <1>2, <1>3

LEMMA PushBackKeeps ==
  ASSUME VectorInv, PushBack
  PROVE  VectorInv'
<1> DEFINE L == Len(blocks)
           n == Len(places)
<1>1. /\ blocks \in Seq(Nat) /\ L \in Nat \ {0} /\ L - 1 \in Nat /\ size \in Nat
      /\ BlockSize \in Nat \ {0} /\ wpc = "grown" /\ n = size /\ n \in Nat
      /\ blocks[L] \in Nat /\ blocks[L] < BlockSize
  BY VectorAssumption DEF VectorInv, StorageInv, StorageTypes, PushBack
<1>2. /\ blocks' = [blocks EXCEPT ![L] = @ + 1]
      /\ places' = Append(places, <<L, blocks[L] + 1>>)
      /\ wpc' = "pushed" /\ UNCHANGED <<size, capacity, reader>>
  BY DEF PushBack
<1>3. /\ blocks' \in Seq(Nat) /\ Len(blocks') = L /\ blocks'[L] = blocks[L] + 1
      /\ \A b \in 1..L : b < L => blocks'[b] = blocks[b]
  BY <1>1, <1>2
<1>4. n = (L - 1) * BlockSize + blocks[L] /\ (L - 1) * BlockSize \in Nat
  BY <1>1, Products DEF VectorInv, StorageInv
<1>5. PlaceOf(n) = <<L, blocks[L] + 1>>
  <2>1. PlaceOf((L - 1) * BlockSize + blocks[L]) = <<(L - 1) + 1, blocks[L] + 1>>
    BY <1>1, Quotients
  <2> QED BY <1>1, <1>4, <2>1
<1>6. /\ places \in Seq(Nat \X Nat) /\ places' \in Seq(Nat \X Nat)
      /\ Len(places') = n + 1 /\ places'[n + 1] = PlaceOf(n)
      /\ \A k \in 1..n : places'[k] = places[k]
  <2> DEFINE p == <<L, blocks[L] + 1>>
  <2>1. places \in Seq(Nat \X Nat)
    BY DEF VectorInv, StorageInv, StorageTypes
  <2>2. p \in Nat \X Nat /\ places' = Append(places, p) /\ p = PlaceOf(n)
    BY <1>1, <1>2, <1>5
  <2> HIDE DEF p
  <2> QED BY <2>1, <2>2
<1>7. \A k \in 1..Len(places') : places'[k] = PlaceOf(k - 1)
  <2>1. \A k \in 1..n : places[k] = PlaceOf(k - 1)
    BY DEF VectorInv, StorageInv
  <2> SUFFICES ASSUME NEW k \in 1..n + 1 PROVE places'[k] = PlaceOf(k - 1)
    BY <1>6
  <2>2. CASE k = n + 1
    <3>1. k - 1 = n
      BY <1>1, <2>2
    <3> QED BY <1>6, <2>2, <3>1
  <2>3. CASE k # n + 1
    <3>1. k \in 1..n
      BY <1>1, <2>3
    <3> QED BY <1>6, <2>1, <3>1
  <2> QED BY <2>2, <2>3
<1>8. StorageInv'
  <2>1. StorageTypes'
    BY <1>1, <1>2, <1>3, <1>6 DEF VectorInv, StorageInv, StorageTypes
  <2>2. capacity' = Len(blocks') * BlockSize
    BY <1>2, <1>3 DEF VectorInv, StorageInv
  <2>3. \A b \in 1..Len(blocks') : b < Len(blocks') => blocks'[b] = BlockSize
    <3>1. \A b \in 1..L : b < L => blocks[b] = BlockSize
      BY DEF VectorInv, StorageInv
    <3> QED BY <1>3, <3>1
  <2>4. Len(places') = (Len(blocks') - 1) * BlockSize + blocks'[Len(blocks')]
    BY <1>1, <1>3, <1>4, <1>6
  <2>5. \A k \in 1..Len(places') : places'[k] = PlaceOf(k - 1)'
    BY <1>7 DEF PlaceOf
  <2>6. /\ Len(blocks') # 0 /\ blocks'[Len(blocks')] <= BlockSize /\ blocks'[Len(blocks')] # 0
        /\ wpc' = "pushed" /\ Len(places') = size' + 1
    BY <1>1, <1>2, <1>3, <1>6
  <2> QED BY <2>1, <2>2, <2>3, <2>4, <2>5, <2>6 DEF StorageInv
<1> QED BY <1>1, <1>2, <1>3, <1>8, WriterKeepsReaders DEF VectorInv

LEMMA PublishKeeps ==
  ASSUME VectorInv, Publish
  PROVE  VectorInv'
<1>0. /\ UNCHANGED <<blocks, capacity, places>> /\ wpc = "pushed" /\ wpc' = "idle"
      /\ size' = size + 1 /\ StorageTypes
      /\ Len(places) = size + 1 /\ Len(blocks) # 0
  BY DEF VectorInv, StorageInv, Publish
<1>1. StorageInv'
  <2>1. StorageTypes'
    BY <1>0 DEF StorageTypes
  <2>2. \A k \in 1..Len(places') : places'[k] = PlaceOf(k - 1)'
    BY <1>0 DEF VectorInv, StorageInv, PlaceOf
  <2> QED BY <1>0, <2>1, <2>2 DEF VectorInv, StorageInv
<1>2. size \in Nat /\ size' = size + 1 /\ Len(blocks) \in Nat /\ UNCHANGED <<blocks, reader>>
  BY DEF VectorInv, StorageInv, StorageTypes, Publish
<1> QED BY <1>1, <1>2, WriterKeepsReaders DEF VectorInv

------------------------------------------------------------------------------
(* The readers                                                             *)

(* A step of reader r leaves the storage and the other readers alone.      *)
LEMMA ReaderMoves ==
  ASSUME VectorInv, UNCHANGED <<blocks, size, capacity, wpc, places>>, NEW r \in Readers,
         reader' = [reader EXCEPT ![r] = reader'[r]], VisitInv(reader'[r])
  PROVE  VectorInv'
<1>1. StorageInv'
  BY DEF VectorInv, StorageInv, StorageTypes, PlaceOf
<1>2. ASSUME NEW q \in Readers PROVE VisitInv(reader[q])'
  <2>1. VisitInv(reader'[q])
    BY DEF VectorInv, ReadersInv
  <2> QED BY <2>1 DEF VisitInv, PlaceInv, PlaceOf
<1>3. (reader = [q \in Readers |-> reader[q]])'
  BY DEF VectorInv, ReadersInv
<1> QED BY <1>1, <1>2, <1>3 DEF VectorInv, ReadersInv

LEMMA VisitBeginKeeps ==
  ASSUME VectorInv, NEW r \in Readers, VisitBegin(r)
  PROVE  VectorInv'
<1> DEFINE w == NewVisit(size, reader[r].calls + 1)
<1>1. reader = [q \in Readers |-> reader[q]] /\ reader[r].calls \in Nat /\ size \in Nat
  BY DEF VectorInv, ReadersInv, VisitInv, Visits, StorageInv, StorageTypes
<1>2. reader'[r] = w /\ reader' = [reader EXCEPT ![r] = reader'[r]]
  BY <1>1 DEF VisitBegin, Snapshot
<1>3. w \in Visits /\ w.visited = << >> /\ w.pc = "visiting"
  BY <1>1 DEF NewVisit, Visits
<1>4. w.snapshot = size /\ w.count = size /\ w.block = 0 /\ w.index = 0 /\ w.end = 0
  BY DEF NewVisit
<1>5. Len(blocks) \in Nat
  BY DEF VectorInv, StorageInv, StorageTypes
<1> HIDE DEF w
<1>6. VisitInv(w)
  BY <1>1, <1>3, <1>4, <1>5 DEF VisitInv, PlaceInv
<1> QED BY <1>2, <1>6, ReaderMoves DEF VisitBegin

(* Facts that the steps of a visit share.                                  *)
LEMMA VisitFacts ==
  ASSUME VectorInv, NEW r \in Readers, reader[r].pc = "visiting"
  PROVE  /\ reader = [q \in Readers |-> reader[q]]
         /\ reader[r] \in Visits
         /\ VisitInv(reader[r]) /\ PlaceInv(reader[r])
         /\ Len(reader[r].visited) + reader[r].count = reader[r].snapshot
         /\ reader[r].snapshot <= size /\ size <= Len(places)
         /\ size \in Nat /\ Len(places) \in Nat /\ Len(blocks) \in Nat
         /\ \A b \in 1..Len(blocks) : blocks[b] \in Nat
         /\ Len(reader[r].visited) \in Nat
<1>1. VisitInv(reader[r]) /\ reader = [q \in Readers |-> reader[q]]
  BY DEF VectorInv, ReadersInv
<1>2. StorageInv
  BY DEF VectorInv
<1>3. size \in Nat /\ size <= Len(places) /\ Len(places) \in Nat
  BY <1>2 DEF StorageInv, StorageTypes
<1>4. blocks \in Seq(Nat)
  BY <1>2 DEF StorageInv, StorageTypes
<1>5. Len(blocks) \in Nat /\ \A b \in 1..Len(blocks) : blocks[b] \in Nat
  BY ONLY <1>4
<1> QED BY <1>1, <1>3, <1>5 DEF VisitInv, Visits

(* When a block has been visited to its end and something is left, then    *)
(* all blocks so far were visited in full.                                 *)
LEMMA BlockVisited ==
  ASSUME VectorInv, NEW r \in Readers, reader[r].pc = "visiting",
         reader[r].index = reader[r].end, reader[r].count # 0
  PROVE  Len(reader[r].visited) = reader[r].block * BlockSize
<1> DEFINE v == reader[r]
<1>1. /\ v.block \in Nat /\ v.count \in Nat /\ v.end \in Nat /\ v.index \in Nat /\ v.snapshot \in Nat
      /\ Len(v.visited) + v.count = v.snapshot /\ Len(v.visited) \in Nat /\ PlaceInv(v)
  BY VisitFacts DEF Visits
<1>2. CASE v.block = 0
  BY <1>1, <1>2, Products DEF PlaceInv
<1>3. CASE v.block # 0
  <2>1. /\ v.block \in Nat \ {0} /\ v.block - 1 \in Nat /\ (v.block - 1) * BlockSize \in Nat
        /\ v.block * BlockSize = (v.block - 1) * BlockSize + BlockSize
    BY <1>1, <1>3, ProductsDown
  <2>2. /\ Len(v.visited) = (v.block - 1) * BlockSize + v.index
        /\ v.end = BlockSize \/ (v.block - 1) * BlockSize + v.end >= v.snapshot
    BY <1>1, <1>3 DEF PlaceInv
  <2> DEFINE m == (v.block - 1) * BlockSize
  <2>3. /\ m \in Nat /\ v.block * BlockSize = m + BlockSize /\ Len(v.visited) = m + v.index
        /\ v.end = BlockSize \/ m + v.end >= v.snapshot
    BY <2>1, <2>2
  <2> HIDE DEF m
  <2>4. v.end = BlockSize
    BY <1>1, <2>3
  <2> QED BY <1>1, <2>3, <2>4
<1> QED BY <1>2, <1>3

(* A reader that enters block b, of which it reads the end e.              *)
Entered(v, b, e) == [v EXCEPT !.block = b, !.index = 0, !.end = e]

LEMMA EntersBlock ==
  ASSUME NEW v \in Visits, NEW b \in Nat, NEW e \in Nat
  PROVE  /\ Entered(v, b, e) \in Visits
         /\ Entered(v, b, e).pc = v.pc /\ Entered(v, b, e).visited = v.visited
         /\ Entered(v, b, e).count = v.count /\ Entered(v, b, e).snapshot = v.snapshot
         /\ Entered(v, b, e).block = b /\ Entered(v, b, e).index = 0 /\ Entered(v, b, e).end = e
  BY DEF Visits, Entered

LEMMA NextBlockKeeps ==
  ASSUME VectorInv, NEW r \in Readers, NextBlock(r)
  PROVE  VectorInv'
<1> DEFINE v == reader[r]
           L == Len(blocks)
<1>1. v.pc = "visiting" /\ v.index = v.end /\ UNCHANGED <<blocks, size, capacity, wpc, places>>
  BY DEF NextBlock
<1>2. /\ reader = [q \in Readers |-> reader[q]] /\ v \in Visits /\ VisitInv(v) /\ PlaceInv(v)
      /\ Len(v.visited) + v.count = v.snapshot /\ v.snapshot <= size /\ size <= Len(places)
      /\ size \in Nat /\ Len(places) \in Nat /\ L \in Nat /\ Len(v.visited) \in Nat
      /\ \A b \in 1..L : blocks[b] \in Nat
  BY <1>1, VisitFacts
<1>3. v.block \in Nat /\ v.count \in Nat /\ v.snapshot \in Nat
  BY <1>2 DEF Visits
<1>4. v.count # 0 => Len(v.visited) = v.block * BlockSize
  BY <1>1, BlockVisited
<1>5. CASE v.block < L
  <2> DEFINE b == v.block + 1
             w == Entered(v, b, blocks[b])
  <2>1. b \in 1..L /\ b - 1 = v.block /\ blocks[b] \in Nat
    <3>1. v.block \in Nat /\ L \in Nat /\ v.block < L /\ \A k \in 1..L : blocks[k] \in Nat
      BY <1>2, <1>3, <1>5
    <3> HIDE DEF v, L
    <3> QED BY <3>1
  <2>2. reader' = [reader EXCEPT ![r] = w]
    BY <1>1, <1>5 DEF NextBlock, Entered
  <2>3. reader'[r] = w /\ reader' = [reader EXCEPT ![r] = reader'[r]]
    BY <1>2, <2>2
  <2>4. /\ w \in Visits /\ w.pc = "visiting" /\ w.visited = v.visited /\ w.count = v.count
        /\ w.snapshot = v.snapshot /\ w.block = b /\ w.index = 0 /\ w.end = blocks[b]
    <3>1. v \in Visits /\ b \in Nat /\ blocks[b] \in Nat
      BY <1>2, <1>3, <2>1
    <3>2. v.pc = "visiting"
      BY <1>1
    <3> HIDE DEF v, b
    <3>3. PICK u \in Visits, c \in Nat, e \in Nat : u = v /\ c = b /\ e = blocks[b]
      BY <3>1
    <3>4. /\ Entered(u, c, e) \in Visits /\ Entered(u, c, e).pc = u.pc
          /\ Entered(u, c, e).visited = u.visited /\ Entered(u, c, e).count = u.count
          /\ Entered(u, c, e).snapshot = u.snapshot /\ Entered(u, c, e).block = c
          /\ Entered(u, c, e).index = 0 /\ Entered(u, c, e).end = e
      BY EntersBlock
    <3> QED BY <3>2, <3>3, <3>4
  <2>5. v.block * BlockSize \in Nat
    BY <1>3, Products
  <2>6. blocks[b] = BlockSize \/ v.block * BlockSize + blocks[b] >= v.snapshot
    <3>1. CASE b < L
      BY <2>1, <3>1 DEF VectorInv, StorageInv
    <3>2. CASE b = L
      <4>1. Len(places) = (b - 1) * BlockSize + blocks[b]
        BY <1>5, <1>3, <3>2 DEF VectorInv, StorageInv
      <4>2. Len(places) = v.block * BlockSize + blocks[b]
        BY <2>1, <4>1
      <4> QED BY <1>2, <1>3, <2>1, <2>5, <4>2
    <3> QED BY <1>2, <2>1, <3>1, <3>2
  <2>7. blocks[b] <= BlockSize
    <3>1. b < L => blocks[b] = BlockSize
      BY <2>1 DEF VectorInv, StorageInv
    <3>2. b = L => blocks[b] <= BlockSize
      BY <1>3, <1>5 DEF VectorInv, StorageInv
    <3> QED BY <1>2, <2>1, <3>1, <3>2, VectorAssumption
  <2> HIDE DEF b, w, v
  <2>8. PlaceInv(w)
    <3>1. w.block # 0 /\ w.block - 1 = v.block /\ w.block <= L
      BY <1>2, <1>3, <2>1, <2>4
    <3>2. (w.block - 1) * BlockSize = v.block * BlockSize
      BY <3>1
    <3>3. (w.block - 1) * BlockSize + w.end >= w.snapshot \/ w.end = BlockSize
      BY <2>4, <2>6, <3>2
    <3>4. w.count # 0 => Len(w.visited) = (w.block - 1) * BlockSize + w.index
      BY <1>4, <2>4, <2>5, <3>2
    <3> QED BY <2>1, <2>4, <2>7, <3>1, <3>3, <3>4 DEF PlaceInv
  <2>9. VisitInv(w)
    BY <1>1, <1>2, <2>4, <2>8 DEF VisitInv
  <2> QED BY <1>1, <2>3, <2>9, ReaderMoves
<1>6. CASE ~ (v.block < L)
  <2> DEFINE w == [v EXCEPT !.pc = "visited"]
  <2>1. reader' = [reader EXCEPT ![r] = w]
    BY <1>1, <1>6 DEF NextBlock
  <2>2. reader'[r] = w /\ reader' = [reader EXCEPT ![r] = reader'[r]]
    BY <1>2, <2>1
  <2>3. /\ w \in Visits /\ w.pc = "visited" /\ w.visited = v.visited /\ w.snapshot = v.snapshot
    BY <1>1, <1>2 DEF Visits
  <2>4. v.block = L
    BY <1>2, <1>3, <1>6 DEF PlaceInv
  <2>5. Len(places) <= L * BlockSize
    <3>1. CASE L = 0
      <4>1. Len(places) = 0
        BY <3>1 DEF VectorInv, StorageInv
      <4> QED BY <1>2, <3>1, <4>1, Products
    <3>2. CASE L # 0
      <4>1. /\ L \in Nat \ {0} /\ (L - 1) * BlockSize \in Nat
            /\ L * BlockSize = (L - 1) * BlockSize + BlockSize
        BY <1>2, <3>2, ProductsDown
      <4>2. /\ Len(places) = (L - 1) * BlockSize + blocks[L] /\ blocks[L] <= BlockSize
            /\ blocks[L] \in Nat
        BY <1>2, <3>2 DEF VectorInv, StorageInv
      <4> QED BY <4>1, <4>2, VectorAssumption
    <3> QED BY <3>1, <3>2
  <2>6. Len(v.visited) = v.snapshot
    <3>1. L * BlockSize \in Nat
      BY <1>2, Products
    <3>2. v.count # 0 => Len(v.visited) = L * BlockSize
      BY <1>4, <2>4
    <3> QED BY <1>2, <1>3, <2>5, <3>1, <3>2
  <2> HIDE DEF w, v
  <2>7. VisitInv(w)
    BY <1>2, <2>3, <2>6 DEF VisitInv
  <2> QED BY <1>1, <2>2, <2>7, ReaderMoves
<1> QED BY <1>5, <1>6

(* A reader that calls f with the next element of its block.               *)
Called(v, more) ==
  [v EXCEPT !.visited = Append(@, <<v.block, v.index + 1>>),
            !.pc = IF more THEN "visiting" ELSE "stopped",
            !.count = IF more THEN @ - 1 ELSE @,
            !.index = @ + 1]

LEMMA CallsElement ==
  ASSUME NEW v \in Visits, NEW more \in BOOLEAN, v.count # 0
  PROVE  /\ Called(v, more) \in Visits
         /\ Called(v, more).pc = IF more THEN "visiting" ELSE "stopped"
         /\ Called(v, more).visited = Append(v.visited, <<v.block, v.index + 1>>)
         /\ Called(v, more).count = IF more THEN v.count - 1 ELSE v.count
         /\ Called(v, more).snapshot = v.snapshot /\ Called(v, more).block = v.block
         /\ Called(v, more).index = v.index + 1 /\ Called(v, more).end = v.end
<1>1. <<v.block, v.index + 1>> \in Nat \X Nat /\ v.visited \in Seq(Nat \X Nat)
  BY DEF Visits
<1>2. Append(v.visited, <<v.block, v.index + 1>>) \in Seq(Nat \X Nat)
  BY <1>1
<1>3. v.count - 1 \in Nat /\ v.index + 1 \in Nat
  BY DEF Visits
<1> QED BY <1>2, <1>3 DEF Visits, Called

LEMMA VisitItemKeeps ==
  ASSUME VectorInv, NEW r \in Readers, NEW more \in BOOLEAN, VisitItem(r, more)
  PROVE  VectorInv'
<1> DEFINE v == reader[r]
<1>1. v.pc = "visiting" /\ v.index < v.end /\ UNCHANGED <<blocks, size, capacity, wpc, places>>
  BY DEF VisitItem
<1>2. /\ reader = [q \in Readers |-> reader[q]] /\ v \in Visits /\ VisitInv(v) /\ PlaceInv(v)
      /\ Len(v.visited) + v.count = v.snapshot /\ v.snapshot <= size
      /\ size \in Nat /\ Len(v.visited) \in Nat /\ Len(blocks) \in Nat
  BY <1>1, VisitFacts
<1>3. v.block \in Nat /\ v.count \in Nat /\ v.snapshot \in Nat /\ v.index \in Nat /\ v.end \in Nat
  BY <1>2 DEF Visits
<1>4. CASE v.count = 0
  <2> DEFINE w == [v EXCEPT !.pc = "visited"]
  <2>1. reader' = [reader EXCEPT ![r] = w]
    BY <1>4 DEF VisitItem, Guard
  <2>2. reader'[r] = w /\ reader' = [reader EXCEPT ![r] = reader'[r]]
    BY <1>2, <2>1
  <2>3. /\ w \in Visits /\ w.pc = "visited" /\ w.visited = v.visited /\ w.snapshot = v.snapshot
    BY <1>1, <1>2 DEF Visits
  <2> HIDE DEF w, v
  <2>4. VisitInv(w)
    BY <1>2, <1>3, <1>4, <2>3 DEF VisitInv
  <2> QED BY <1>1, <2>2, <2>4, ReaderMoves
<1>5. CASE v.count # 0
  <2> DEFINE w == Called(v, more)
             m == (v.block - 1) * BlockSize
  <2>1. reader' = [reader EXCEPT ![r] = w]
    BY <1>5 DEF VisitItem, Guard, Called
  <2>2. reader'[r] = w /\ reader' = [reader EXCEPT ![r] = reader'[r]]
    BY <1>2, <2>1
  <2>3. /\ v.block \in Nat \ {0} /\ m \in Nat /\ Len(v.visited) = m + v.index
        /\ v.index < BlockSize
    <3>1. v.block \in Nat \ {0}
      BY <1>1, <1>2, <1>3 DEF PlaceInv
    <3>2. m \in Nat
      BY <3>1, ProductsDown
    <3>3. Len(v.visited) = m + v.index /\ v.end <= BlockSize
      BY <1>2, <1>5, <3>1 DEF PlaceInv
    <3> QED BY <1>1, <1>3, <3>1, <3>2, <3>3, VectorAssumption
  <2>4. PlaceOf(Len(v.visited)) = <<v.block, v.index + 1>>
    <3>1. v.block - 1 \in Nat /\ (v.block - 1) + 1 = v.block
      BY <2>3
    <3>2. PlaceOf((v.block - 1) * BlockSize + v.index) = <<(v.block - 1) + 1, v.index + 1>>
      BY <1>3, <2>3, <3>1, Quotients
    <3> QED BY <2>3, <3>1, <3>2
  <2>5. v \in Visits /\ v.count # 0 /\ <<v.block, v.index + 1>> \in Nat \X Nat
    BY <1>2, <1>3, <1>5
  <2> HIDE DEF v, m
  <2>6. /\ w \in Visits /\ w.pc = IF more THEN "visiting" ELSE "stopped"
        /\ w.visited = Append(v.visited, <<v.block, v.index + 1>>)
        /\ w.count = IF more THEN v.count - 1 ELSE v.count
        /\ w.snapshot = v.snapshot /\ w.block = v.block
        /\ w.index = v.index + 1 /\ w.end = v.end
    BY <2>5, CallsElement
  <2> HIDE DEF w
  <2>7. /\ Len(w.visited) = Len(v.visited) + 1
        /\ w.visited[Len(v.visited) + 1] = PlaceOf(Len(v.visited))
        /\ \A k \in 1..Len(v.visited) : w.visited[k] = v.visited[k]
    <3>1. v.visited \in Seq(Nat \X Nat)
      BY <1>2 DEF Visits
    <3> QED BY <2>4, <2>5, <2>6, <3>1
  <2>8. \A k \in 1..Len(w.visited) : w.visited[k] = PlaceOf(k - 1)
    <3> SUFFICES ASSUME NEW k \in 1..Len(v.visited) + 1 PROVE w.visited[k] = PlaceOf(k - 1)
      BY <2>7
    <3>1. CASE k = Len(v.visited) + 1
      <4>1. k - 1 = Len(v.visited)
        BY <1>2, <3>1
      <4> QED BY <2>7, <3>1, <4>1
    <3>2. CASE k # Len(v.visited) + 1
      <4>1. k \in 1..Len(v.visited)
        BY <1>2, <3>2
      <4> QED BY <1>2, <2>7, <4>1 DEF VisitInv
    <3> QED BY <3>1, <3>2
  <2>9. PlaceInv(w)
    <3>1. w.block # 0 /\ w.block <= Len(blocks) /\ w.index <= w.end
      <4>1. v.block # 0 /\ v.block <= Len(blocks)
        BY <1>2, <2>3 DEF PlaceInv
      <4>2. v.index + 1 <= v.end
        BY <1>1, <1>3
      <4> QED BY <2>6, <4>1, <4>2
    <3>2. w.end <= BlockSize /\ (w.end = BlockSize \/ m + w.end >= w.snapshot)
      BY <1>2, <2>3, <2>6 DEF PlaceInv, m
    <3>3. Len(w.visited) = m + w.index
      BY <1>2, <1>3, <2>3, <2>6, <2>7
    <3>4. m = (w.block - 1) * BlockSize
      BY <2>6 DEF m
    <3> QED BY <3>1, <3>2, <3>3, <3>4 DEF PlaceInv
  <2>10. Len(w.visited) <= size /\ (more => Len(w.visited) + w.count = w.snapshot)
    <3>1. v.count \in Nat \ {0} /\ w.count = (IF more THEN v.count - 1 ELSE v.count)
      BY <1>3, <1>5, <2>6
    <3>2. /\ Len(v.visited) \in Nat /\ Len(v.visited) + v.count = v.snapshot
          /\ v.snapshot \in Nat /\ v.snapshot <= size /\ size \in Nat
          /\ w.snapshot = v.snapshot /\ Len(w.visited) = Len(v.visited) + 1
      BY <1>2, <1>3, <2>6, <2>7
    <3>3. Len(w.visited) <= size
      BY <3>1, <3>2
    <3>4. more => w.count = v.count - 1
      BY <3>1
    <3> QED BY <3>1, <3>2, <3>3, <3>4
  <2>11. VisitInv(w)
    BY <1>2, <2>6, <2>8, <2>9, <2>10 DEF VisitInv
  <2> QED BY <1>1, <2>2, <2>11, ReaderMoves
<1> QED BY <1>4, <1>5

(* at finds the element that was appended at that rank.                    *)
LEMMA FoundIsPlace ==
  ASSUME VectorInv, NEW i \in Nat, i < Len(places)
  PROVE  Found(i) = PlaceOf(i)
<1> DEFINE L == Len(blocks)
<1>1. /\ L \in Nat /\ Len(places) \in Nat /\ DOMAIN blocks = 1..L
      /\ \A b \in 1..L : blocks[b] \in Nat
  <2>1. blocks \in Seq(Nat) /\ places \in Seq(Nat \X Nat)
    BY DEF VectorInv, StorageInv, StorageTypes
  <2> QED BY <2>1
<1>2. PICK q \in Nat, s \in Nat : s < BlockSize /\ i = q * BlockSize + s
  BY Division
<1>3. PlaceOf(i) = <<q + 1, s + 1>>
  BY <1>2, Quotients
<1>4. /\ L \in Nat \ {0} /\ (L - 1) * BlockSize \in Nat /\ L - 1 \in Nat
      /\ L * BlockSize = (L - 1) * BlockSize + BlockSize
      /\ Len(places) = (L - 1) * BlockSize + blocks[L] /\ blocks[L] <= BlockSize
  <2>1. L \in Nat \ {0}
    BY <1>1 DEF VectorInv, StorageInv
  <2>2. Len(places) = (L - 1) * BlockSize + blocks[L] /\ blocks[L] <= BlockSize
    BY <2>1 DEF VectorInv, StorageInv
  <2> QED BY <2>1, <2>2, ProductsDown
<1>5. q < L
  <2> SUFFICES ASSUME q >= L PROVE FALSE
    BY <1>1
  <2>1. q * BlockSize >= L * BlockSize
    BY <1>4, VectorAssumption
  <2>2. q * BlockSize \in Nat /\ L * BlockSize \in Nat
    BY <1>4, Products
  <2>3. Len(places) <= L * BlockSize
    BY <1>1, <1>4, VectorAssumption
  <2>4. i >= q * BlockSize
    BY <1>2, <2>2
  <2> DEFINE x == q * BlockSize
             y == L * BlockSize
  <2>5. x \in Nat /\ y \in Nat /\ x >= y /\ Len(places) <= y /\ i >= x
    BY <2>1, <2>2, <2>3, <2>4
  <2> HIDE DEF x, y
  <2> QED BY <1>1, <2>5
<1>6. s + 1 <= blocks[q + 1]
  <2>0. q \in Nat /\ L \in Nat /\ q < L
    BY <1>1, <1>2, <1>5
  <2>1. CASE q + 1 < L
    <3>1. blocks[q + 1] = BlockSize
      BY <1>1, <2>1 DEF VectorInv, StorageInv
    <3> QED BY <1>2, <3>1, VectorAssumption
  <2>2. CASE q + 1 = L
    <3>1. q = L - 1
      BY <2>0, <2>2
    <3>2. Len(places) = q * BlockSize + blocks[q + 1]
      BY <1>4, <2>2, <3>1
    <3>3. q * BlockSize \in Nat /\ blocks[q + 1] \in Nat
      <4>1. q + 1 \in 1..L
        BY <1>4, <2>2
      <4> QED BY <1>1, <4>1, Products
    <3> DEFINE x == q * BlockSize
    <3>4. x \in Nat /\ Len(places) = x + blocks[q + 1] /\ i = x + s
      BY <1>2, <3>2, <3>3
    <3> HIDE DEF x
    <3> QED BY <1>1, <1>2, <3>3, <3>4
  <2>3. q + 1 < L \/ q + 1 = L
    BY <2>0
  <2> QED BY <2>1, <2>2, <2>3
<1>7. q + 1 \in DOMAIN blocks
  BY <1>1, <1>5, <1>4
<1> QED BY <1>3, <1>6, <1>7 DEF Found

(* A look-up's outcome.                                                    *)
LookedUp(i, calls) ==
  [NewVisit(i, calls) EXCEPT !.pc = "found", !.block = Found(i)[1], !.index = Found(i)[2]]

LEMMA LooksUp ==
  ASSUME NEW i \in Nat, NEW calls \in Nat, Found(i) \in Nat \X Nat
  PROVE  /\ LookedUp(i, calls) \in Visits
         /\ LookedUp(i, calls).pc = "found" /\ LookedUp(i, calls).visited = << >>
         /\ LookedUp(i, calls).snapshot = i
         /\ <<LookedUp(i, calls).block, LookedUp(i, calls).index>> = Found(i)
<1>0. NewVisit(i, calls) \in Visits
  <2>1. << >> \in Seq(Nat \X Nat)
    OBVIOUS
  <2> QED BY <2>1 DEF NewVisit, Visits
<1>1. PICK v \in Visits : v = NewVisit(i, calls)
  BY <1>0
<1>2. v.visited = << >> /\ v.snapshot = i
  BY <1>1 DEF NewVisit
<1>3. LookedUp(i, calls) = [v EXCEPT !.pc = "found", !.block = Found(i)[1], !.index = Found(i)[2]]
  BY <1>1, Zenon DEF LookedUp
<1>4. PICK b \in Nat, k \in Nat : Found(i) = <<b, k>>
  OBVIOUS
<1>5. /\ [v EXCEPT !.pc = "found", !.block = b, !.index = k] \in Visits
      /\ [v EXCEPT !.pc = "found", !.block = b, !.index = k].pc = "found"
      /\ [v EXCEPT !.pc = "found", !.block = b, !.index = k].visited = v.visited
      /\ [v EXCEPT !.pc = "found", !.block = b, !.index = k].snapshot = v.snapshot
      /\ [v EXCEPT !.pc = "found", !.block = b, !.index = k].block = b
      /\ [v EXCEPT !.pc = "found", !.block = b, !.index = k].index = k
  BY DEF Visits
<1>6. Found(i)[1] = b /\ Found(i)[2] = k
  BY <1>4
<1>7. LookedUp(i, calls) = [v EXCEPT !.pc = "found", !.block = b, !.index = k]
  BY <1>3, <1>6, Zenon
<1> QED BY <1>2, <1>4, <1>5, <1>7, Zenon

LEMMA AtKeeps ==
  ASSUME VectorInv, NEW r \in Readers, NEW i \in Nat, At(r, i)
  PROVE  VectorInv'
<1> DEFINE calls == reader[r].calls + 1
           w == LookedUp(i, calls)
<1>1. reader = [q \in Readers |-> reader[q]] /\ calls \in Nat
  BY DEF VectorInv, ReadersInv, VisitInv, Visits
<1>2. i < size /\ UNCHANGED <<blocks, size, capacity, wpc, places>>
  BY DEF At
<1>3. size \in Nat /\ i < Len(places)
  BY <1>2 DEF VectorInv, StorageInv, StorageTypes
<1>4. Found(i) = PlaceOf(i) /\ Found(i) \in Nat \X Nat
  BY <1>3, FoundIsPlace, PlacesArePairs
<1>5. reader' = [reader EXCEPT ![r] = w]
  BY DEF At, LookedUp
<1>6. reader'[r] = w /\ reader' = [reader EXCEPT ![r] = reader'[r]]
  BY <1>1, <1>5
<1> HIDE DEF calls
<1>7. /\ w \in Visits /\ w.pc = "found" /\ w.visited = << >> /\ w.snapshot = i
      /\ <<w.block, w.index>> = PlaceOf(i)
  BY <1>1, <1>4, LooksUp
<1> HIDE DEF w
<1>8. VisitInv(w)
  BY <1>2, <1>3, <1>7 DEF VisitInv
<1> QED BY <1>2, <1>6, <1>8, ReaderMoves

------------------------------------------------------------------------------
(* What the module of the program needs.                                   *)

LEMMA VectorStepKeeps ==
  ASSUME VectorInv,
         \/ MaybeGrow \/ PushBack \/ Publish
         \/ \E r \in Readers : ReaderNext(r)
         \/ UNCHANGED vectorVars
  PROVE  VectorInv'
<1>1. ASSUME NEW r \in Readers, ReaderNext(r) PROVE VectorInv'
  <2>1. CASE VisitBegin(r)
    BY <2>1, VisitBeginKeeps
  <2>2. CASE NextBlock(r)
    BY <2>2, NextBlockKeeps
  <2>3. ASSUME NEW more \in BOOLEAN, VisitItem(r, more) PROVE VectorInv'
    BY <2>3, VisitItemKeeps
  <2>4. ASSUME NEW i \in 0..MaxElements, At(r, i) PROVE VectorInv'
    <3>1. i \in Nat
      BY VectorAssumption
    <3> QED BY <2>4, <3>1, AtKeeps
  <2> QED BY <1>1, <2>1, <2>2, <2>3, <2>4 DEF ReaderNext
<1>2. CASE UNCHANGED vectorVars
  BY <1>2 DEF vectorVars, VectorInv, StorageInv, StorageTypes, ReadersInv, VisitInv, PlaceInv, PlaceOf
<1> QED BY <1>1, <1>2, MaybeGrowKeeps, PushBackKeeps, PublishKeeps

LEMMA VisitsFollow == VectorInv => VisitsAreExact
<1> SUFFICES ASSUME VectorInv, NEW r \in Readers
             PROVE  LET v == reader[r].visited IN
                    /\ Len(v) <= size
                    /\ v = SubSeq(places, 1, Len(v))
                    /\ reader[r].pc = "visited" => Len(v) = reader[r].snapshot
  BY DEF VisitsAreExact
<1> DEFINE v == reader[r].visited
<1>1. VisitInv(reader[r])
  BY DEF VectorInv, ReadersInv
<1>2. v \in Seq(Nat \X Nat) /\ Len(v) <= size /\ \A k \in 1..Len(v) : v[k] = PlaceOf(k - 1)
  BY <1>1 DEF VisitInv, Visits
<1>3. places \in Seq(Nat \X Nat) /\ \A k \in 1..Len(places) : places[k] = PlaceOf(k - 1)
  BY DEF VectorInv, StorageInv, StorageTypes
<1>4. size \in Nat /\ size <= Len(places)
  BY <1>3 DEF VectorInv, StorageInv, StorageTypes
<1>5. v = SubSeq(places, 1, Len(v))
  <2> DEFINE s == SubSeq(places, 1, Len(v))
  <2>1. Len(v) \in Nat /\ Len(v) <= Len(places) /\ Len(places) \in Nat
    BY <1>2, <1>3, <1>4
  <2>2. s \in Seq(Nat \X Nat) /\ Len(s) = Len(v) /\ \A k \in 1..Len(v) : s[k] = places[k]
    BY <1>3, <2>1
  <2>3. \A k \in 1..Len(v) : s[k] = v[k]
    BY <1>2, <1>3, <2>1, <2>2
  <2> HIDE DEF s, v
  <2> QED BY <1>2, <2>2, <2>3
<1> QED BY <1>1, <1>2, <1>5 DEF VisitInv

LEMMA LookupsFollow == VectorInv => LookupFindsElement
<1> SUFFICES ASSUME VectorInv, NEW r \in Readers, reader[r].pc = "found"
             PROVE  places[reader[r].snapshot + 1] = <<reader[r].block, reader[r].index>>
  BY DEF LookupFindsElement
<1> DEFINE i == reader[r].snapshot
<1>1. VisitInv(reader[r])
  BY DEF VectorInv, ReadersInv
<1>2. i \in Nat /\ i < size /\ <<reader[r].block, reader[r].index>> = PlaceOf(i)
  BY <1>1 DEF VisitInv, Visits
<1>3. places \in Seq(Nat \X Nat) /\ \A k \in 1..Len(places) : places[k] = PlaceOf(k - 1)
  BY DEF VectorInv, StorageInv, StorageTypes
<1>4. size \in Nat /\ size <= Len(places)
  BY <1>3 DEF VectorInv, StorageInv, StorageTypes
<1>5. i + 1 \in 1..Len(places) /\ (i + 1) - 1 = i
  <2>1. Len(places) \in Nat
    BY <1>3
  <2> HIDE DEF i
  <2> QED BY <1>2, <1>4, <2>1
<1>6. places[i + 1] = PlaceOf((i + 1) - 1)
  BY <1>3, <1>5
<1> QED BY <1>2, <1>5, <1>6

-----------------------------------------------------------------------------
(* Items, observers and readers                                            *)

ObserverStates ==
  [pc: {"out", "numbered", "added", "removed"}, level: Levels, id: Nat, since: Nat,
   heard: Seq([item: Nat, place: Nat \X Nat])]

ItemRecords == [kind: Kinds, rank: Nat]

(* A call's left part is a map whose domain ObserversInv speaks of.        *)
EventTypes ==
  /\ kept \in [Kinds -> Nat]
  /\ item \in Seq(ItemRecords)
  /\ builder \in [Builders -> {"none", "open", "moved"}]
  /\ begun \in Nat
  /\ overwritten \in Nat
  /\ call = [at |-> call.at, level |-> call.level, left |-> call.left]
  /\ call.at \in {"idle", "appending", "between", "calling"}
  /\ call.level \in 0..Depth
  /\ call.at \in {"between", "calling"} => call.level \in Levels
  /\ nextId \in [Levels -> Nat]
  /\ observers = [l \in Levels |-> observers[l]]
  /\ observer \in [Observers -> ObserverStates]
  /\ told \in [Levels -> Nat]

(* The last item is not announced yet to level l.                          *)
Behind(l) ==
  \/ call.at = "appending"
  \/ call.at = "between" /\ l >= call.level
  \/ call.at = "calling" /\ l > call.level

(* Items, storage and announcements go together.                           *)
ItemsInv ==
  /\ Len(item) = IF call.at = "appending" THEN size + 1 ELSE size
  /\ call.at # "appending" => wpc = "idle"
  /\ \A k \in 1..Len(item) : item[k].rank <= kept[item[k].kind]
  /\ \A l \in Levels : Len(item) = IF Behind(l) THEN told[l] + 1 ELSE told[l]

(* Has o an identifier, and is it the one of a map?                        *)
Numbered(o) == observer[o].pc \in {"numbered", "added"}

RegisteredAs(o, l, i) ==
  o \in Observers /\ observer[o].pc = "added" /\ observer[o].level = l /\ observer[o].id = i

(* Identifiers are not used twice, so that a map has all observers that    *)
(* were added and not removed, and while the writer calls those of a       *)
(* level, whoever is left is still in the level's map.                     *)
ObserversInv ==
  /\ \A o \in Observers : Numbered(o) => observer[o].id < nextId[observer[o].level]
  /\ \A o, p \in Observers :
       Numbered(o) /\ Numbered(p) /\ observer[o].level = observer[p].level
         /\ observer[o].id = observer[p].id => o = p
  /\ \A l \in Levels : \A i \in DOMAIN observers[l] :
       i \in Nat /\ RegisteredAs(observers[l][i], l, i)
  /\ \A o \in Observers : observer[o].pc = "added" =>
       /\ observer[o].id \in DOMAIN observers[observer[o].level]
       /\ observers[observer[o].level][observer[o].id] = o
  /\ call.at = "calling" => \A i \in DOMAIN call.left :
       i \in DOMAIN observers[call.level] /\ call.left[i] = observers[call.level][i]

(* Is the event that level's observers are called with still to reach o?   *)
Awaited(o) == ~ Unlocked(observer[o].level) /\ observer[o].id \in DOMAIN call.left

(* An observer has heard all that its level was told since it was added.   *)
HeardSince(o) ==
  /\ told[observer[o].level] =
       observer[o].since + Len(observer[o].heard) + (IF Awaited(o) THEN 1 ELSE 0)
  /\ \A k \in 1..Len(observer[o].heard) :
       observer[o].heard[k].item = observer[o].since + k

HeardInv ==
  \A o \in Observers :
    /\ observer[o].pc \in {"out", "numbered"} => observer[o].heard = << >>
    /\ observer[o].pc = "added" => HeardSince(o)
    /\ \A k \in 1..Len(observer[o].heard) :
         /\ observer[o].heard[k].item \in 1..size
         /\ observer[o].heard[k].place = PlaceOf(observer[o].heard[k].item - 1)

EventsInv ==
  /\ EventTypes /\ VectorInv /\ ItemsInv /\ ObserversInv /\ HeardInv
  /\ MessagesLoggedOnce

------------------------------------------------------------------------------
(* The start                                                               *)

LEMMA Starts == Init => EventsInv
<1> SUFFICES ASSUME Init PROVE EventsInv
  OBVIOUS
<1>1. VectorInv
  BY VectorStarts DEF Init
<1>2. EventTypes
  <2>1. 1 \in Levels /\ 0 \in 0..Depth
    BY EventsAssumption DEF Levels
  <2>2. call = NoCall /\ call = [at |-> call.at, level |-> call.level, left |-> call.left]
        /\ call.at = "idle" /\ call.level = 0
    BY DEF Init, NoCall
  <2>3. observer \in [Observers -> ObserverStates]
    BY <2>1 DEF Init, ObserverStates
  <2>4. observers = [l \in Levels |-> observers[l]]
    BY DEF Init
  <2> QED BY <2>1, <2>2, <2>3, <2>4 DEF EventTypes, Init
<1>3. ItemsInv
  BY DEF Init, VectorInit, ItemsInv, Behind, NoCall
<1>4. ObserversInv
  <2>1. \A l \in Levels : DOMAIN observers[l] = {}
    BY DEF Init
  <2>2. call.at = "idle"
    BY DEF Init, NoCall
  <2> QED BY <2>1, <2>2 DEF Init, ObserversInv, Numbered
<1>5. HeardInv
  <2>1. \A o \in Observers : observer[o].pc = "out" /\ observer[o].heard = << >>
    BY DEF Init
  <2> QED BY <2>1 DEF HeardInv
<1>6. MessagesLoggedOnce
  <2>1. {b \in Builders : builder[b] = "open"} = {}
    BY DEF Init
  <2>2. kept["message"] = 0 /\ begun = 0 /\ overwritten = 0
    BY DEF Init, Kinds
  <2> QED BY <2>1, <2>2, FS_EmptySet DEF MessagesLoggedOnce
<1> QED BY <1>1, <1>2, <1>3, <1>4, <1>5, <1>6 DEF EventsInv

------------------------------------------------------------------------------
(* What a step leaves alone.                                               *)

LEMMA VectorFrame ==
  ASSUME EventsInv, UNCHANGED vectorVars
  PROVE  VectorInv'
  BY VectorStepKeeps DEF EventsInv

LEMMA ObserversFrame ==
  ASSUME EventsInv, UNCHANGED <<nextId, observers, observer>>,
         call'.at = "calling" => UNCHANGED call
  PROVE  ObserversInv'
<1>1. ObserversInv
  BY DEF EventsInv
<1> QED BY <1>1 DEF ObserversInv, Numbered, RegisteredAs

LEMMA HeardFrame ==
  ASSUME EventsInv, UNCHANGED <<observer, told>>, size' \in Nat, size <= size',
         (call.at # "calling" /\ call'.at # "calling") \/ UNCHANGED call
  PROVE  HeardInv'
<1>1. HeardInv /\ size \in Nat
  BY DEF EventsInv, VectorInv, StorageInv, StorageTypes
<1>2. \A o \in Observers : Awaited(o)' = Awaited(o)
  BY DEF Awaited, Unlocked
<1>3. ASSUME NEW o \in Observers, observer[o].pc = "added" PROVE HeardSince(o)'
  BY <1>1, <1>2, <1>3 DEF HeardInv, HeardSince
<1>4. ASSUME NEW o \in Observers, NEW k \in 1..Len(observer[o].heard)
      PROVE  /\ (observer[o].heard[k].item \in 1..size)'
             /\ (observer[o].heard[k].place = PlaceOf(observer[o].heard[k].item - 1))'
  BY <1>1, <1>4 DEF HeardInv, PlaceOf
<1> QED BY <1>1, <1>3, <1>4 DEF HeardInv

LEMMA MessagesFrame ==
  ASSUME EventsInv, UNCHANGED <<begun, overwritten, kept, builder>>
  PROVE  MessagesLoggedOnce'
  BY DEF EventsInv, MessagesLoggedOnce

------------------------------------------------------------------------------
(* Items and builders                                                      *)

LEMMA OpenIsFinite ==
  ASSUME NEW S \in SUBSET Builders
  PROVE  IsFiniteSet(S) /\ Cardinality(S) \in Nat
  BY EventsAssumption, FS_Subset, FS_CardinalityType

LEMMA AddItemKeeps ==
  ASSUME EventsInv, NEW kind \in Kinds, AddItem(kind), begun' \in Nat, overwritten' \in Nat,
         builder' \in [Builders -> {"none", "open", "moved"}]
  PROVE  EventTypes' /\ VectorInv' /\ ItemsInv' /\ ObserversInv' /\ HeardInv'
<1> DEFINE new == [kind |-> kind, rank |-> kept'[kind]]
<1>1. EventTypes /\ ItemsInv /\ size \in Nat
  BY DEF EventsInv, VectorInv, StorageInv, StorageTypes
<1>2. /\ kept' \in [Kinds -> Nat] /\ kept'[kind] = kept[kind] + 1 /\ kept[kind] \in Nat
      /\ \A k \in Kinds : k # kind => kept'[k] = kept[k]
  BY <1>1 DEF AddItem, EventTypes
<1>3. new \in ItemRecords /\ item \in Seq(ItemRecords)
  BY <1>1, <1>2 DEF EventTypes, ItemRecords
<1>4. /\ call.at = "idle" /\ call'.at = "appending" /\ call'.level = call.level
      /\ call' = [at |-> call'.at, level |-> call'.level, left |-> call'.left]
  BY <1>1 DEF AddItem, EventTypes
<1>5. UNCHANGED <<vectorVars, nextId, observers, observer, told>> /\ item' = Append(item, new)
  BY DEF AddItem
<1> HIDE DEF new
<1>6. /\ item' \in Seq(ItemRecords) /\ Len(item') = Len(item) + 1 /\ Len(item) \in Nat
      /\ item'[Len(item) + 1] = new
      /\ \A k \in 1..Len(item) : item'[k] = item[k] /\ item[k] \in ItemRecords
  BY <1>3, <1>5
<1>7. EventTypes'
  BY <1>1, <1>2, <1>4, <1>5, <1>6 DEF EventTypes
<1>8. VectorInv'
  BY <1>5, VectorFrame
<1>9. ItemsInv'
  <2>1. size' = size /\ Len(item) = size
    BY <1>1, <1>4, <1>5 DEF ItemsInv, vectorVars
  <2>2. ASSUME NEW k \in 1..Len(item') PROVE item'[k].rank <= kept'[item'[k].kind]
    <3>1. CASE k = Len(item) + 1
      BY <1>2, <1>6, <3>1 DEF new
    <3>2. CASE k # Len(item) + 1
      <4>1. k \in 1..Len(item)
        BY <1>6, <3>2
      <4>2. item[k].rank <= kept[item[k].kind] /\ item[k].rank \in Nat /\ item[k].kind \in Kinds
        BY <1>1, <1>6, <4>1 DEF ItemsInv, ItemRecords
      <4>3. ASSUME NEW j \in Kinds PROVE kept[j] \in Nat /\ kept'[j] \in Nat /\ kept[j] <= kept'[j]
        <5>1. kept[j] \in Nat /\ kept'[j] \in Nat
          BY <1>1, <1>2 DEF EventTypes
        <5> QED BY <1>2, <5>1
      <4>4. item'[k] = item[k]
        BY <1>6, <4>1
      <4> DEFINE j == item[k].kind
                 n == item[k].rank
      <4>5. j \in Kinds /\ n \in Nat /\ n <= kept[j]
        BY <4>2
      <4> HIDE DEF j, n
      <4>6. n <= kept'[j]
        BY <4>3, <4>5
      <4> QED BY <4>4, <4>6 DEF j, n
    <3> QED BY <3>1, <3>2
  <2>3. ASSUME NEW l \in Levels PROVE Behind(l)' /\ Len(item') = told'[l] + 1
    BY <1>1, <1>4, <1>5, <1>6 DEF ItemsInv, Behind
  <2> QED BY <1>4, <1>6, <2>1, <2>2, <2>3 DEF ItemsInv
<1>10. ObserversInv'
  BY <1>4, <1>5, ObserversFrame
<1>11. HeardInv'
  BY <1>1, <1>4, <1>5, HeardFrame DEF vectorVars
<1> QED BY <1>7, <1>8, <1>9, <1>10, <1>11

LEMMA LogKeeps ==
  ASSUME EventsInv, Log
  PROVE  EventsInv'
<1>1. EventTypes /\ MessagesLoggedOnce
  BY DEF EventsInv
<1>2. /\ begun' = begun + 1 /\ begun \in Nat /\ UNCHANGED <<builder, overwritten>>
      /\ AddItem("message")
  BY <1>1 DEF Log, EventTypes
<1>3. EventTypes' /\ VectorInv' /\ ItemsInv' /\ ObserversInv' /\ HeardInv'
  BY <1>1, <1>2, AddItemKeeps DEF EventTypes, Kinds
<1>4. kept'["message"] = kept["message"] + 1 /\ kept["message"] \in Nat
  BY <1>1, <1>2 DEF AddItem, EventTypes, Kinds
<1>5. MessagesLoggedOnce'
  <2> DEFINE n == Cardinality({b \in Builders : builder[b] = "open"})
  <2>1. n \in Nat /\ n' = n /\ overwritten \in Nat /\ overwritten' = overwritten
    BY <1>1, <1>2, OpenIsFinite DEF EventTypes
  <2>2. begun = kept["message"] + overwritten + n
    BY <1>1 DEF MessagesLoggedOnce
  <2> HIDE DEF n
  <2>3. begun' = kept'["message"] + overwritten' + n'
    BY <1>2, <1>4, <2>1, <2>2
  <2> QED BY <2>3 DEF MessagesLoggedOnce, n
<1> QED BY <1>3, <1>5 DEF EventsInv

LEMMA AddSubReportKeeps ==
  ASSUME EventsInv, AddSubReport
  PROVE  EventsInv'
<1>1. EventTypes /\ MessagesLoggedOnce
  BY DEF EventsInv
<1>2. UNCHANGED <<builder, begun, overwritten>> /\ AddItem("subReport")
  BY DEF AddSubReport
<1>3. EventTypes' /\ VectorInv' /\ ItemsInv' /\ ObserversInv' /\ HeardInv'
  BY <1>1, <1>2, AddItemKeeps DEF EventTypes, Kinds
<1>4. kept'["message"] = kept["message"]
  BY <1>1, <1>2 DEF AddItem, EventTypes, Kinds
<1>5. MessagesLoggedOnce'
  BY <1>1, <1>2, <1>4 DEF MessagesLoggedOnce
<1> QED BY <1>3, <1>5 DEF EventsInv

Open == {b \in Builders : builder[b] = "open"}

(* A step of the builders alone.                                           *)
LEMMA BuildersFrame ==
  ASSUME EventsInv,
         UNCHANGED <<vectorVars, kept, item, call, nextId, observers, observer, told>>,
         begun' \in Nat, overwritten' \in Nat, builder' \in [Builders -> {"none", "open", "moved"}]
  PROVE  EventTypes' /\ VectorInv' /\ ItemsInv' /\ ObserversInv' /\ HeardInv'
<1>1. EventTypes /\ ItemsInv /\ size \in Nat
  BY DEF EventsInv, VectorInv, StorageInv, StorageTypes
<1>2. EventTypes'
  BY <1>1 DEF EventTypes
<1>3. ItemsInv'
  BY <1>1 DEF ItemsInv, Behind, vectorVars
<1>4. HeardInv'
  BY <1>1, HeardFrame DEF vectorVars
<1> QED BY <1>2, <1>3, <1>4, VectorFrame, ObserversFrame

LEMMA NewBuilderKeeps ==
  ASSUME EventsInv, NEW b \in Builders, NewBuilder(b)
  PROVE  EventsInv'
<1>1. EventTypes /\ MessagesLoggedOnce
  BY DEF EventsInv
<1>2. /\ begun' = begun + 1 /\ begun \in Nat /\ kept["message"] \in Nat
      /\ builder' = [builder EXCEPT ![b] = "open"] /\ builder[b] = "none"
      /\ overwritten \in Nat /\ UNCHANGED overwritten
  BY <1>1 DEF NewBuilder, EventTypes, Kinds
<1>3. EventTypes' /\ VectorInv' /\ ItemsInv' /\ ObserversInv' /\ HeardInv'
  BY <1>1, <1>2, BuildersFrame DEF NewBuilder, EventTypes
<1>4. Open' = Open \union {b} /\ b \notin Open
  BY <1>1, <1>2 DEF EventTypes, Open
<1>5. IsFiniteSet(Open) /\ Cardinality(Open) \in Nat
  BY OpenIsFinite DEF Open
<1>6. Cardinality(Open') = Cardinality(Open) + 1
  BY <1>4, <1>5, FS_AddElement
<1>7. begun = kept["message"] + overwritten + Cardinality(Open) /\ UNCHANGED kept
  BY <1>1 DEF MessagesLoggedOnce, Open, NewBuilder
<1>8. begun' = kept'["message"] + overwritten' + Cardinality(Open')
  BY <1>2, <1>5, <1>6, <1>7
<1> QED BY <1>3, <1>8 DEF EventsInv, MessagesLoggedOnce, Open

LEMMA MoveBuilderKeeps ==
  ASSUME EventsInv, NEW b \in Builders, NEW c \in Builders, MoveBuilder(b, c)
  PROVE  EventsInv'
<1>1. EventTypes /\ MessagesLoggedOnce
  BY DEF EventsInv
<1>2. /\ UNCHANGED <<begun, kept>> /\ builder[b] # "none"
      /\ builder' = [builder EXCEPT ![c] = builder[b], ![b] = "moved"]
      /\ overwritten' = overwritten + (IF c \in Open THEN 1 ELSE 0)
  BY DEF MoveBuilder, MovedFrom, Open
<1>3. EventTypes' /\ VectorInv' /\ ItemsInv' /\ ObserversInv' /\ HeardInv'
  <2>1. overwritten' \in Nat
    BY <1>1, <1>2 DEF EventTypes
  <2>2. builder' \in [Builders -> {"none", "open", "moved"}]
    BY <1>1, <1>2 DEF EventTypes
  <2> QED BY <1>1, <1>2, <2>1, <2>2, BuildersFrame DEF MoveBuilder, EventTypes
<1>4. /\ IsFiniteSet(Open) /\ Cardinality(Open) \in Nat
      /\ begun \in Nat /\ kept["message"] \in Nat /\ overwritten \in Nat
      /\ begun = kept["message"] + overwritten + Cardinality(Open)
  BY <1>1, OpenIsFinite DEF EventTypes, Kinds, MessagesLoggedOnce, Open
<1>5. overwritten' + Cardinality(Open') = overwritten + Cardinality(Open)
  <2>1. CASE c \in Open
    <3>1. PICK x \in Open : Open' = Open \ {x}
      <4>1. CASE b \in Open
        <5>1. Open' = Open \ {b}
          BY <1>1, <1>2, <2>1, <4>1 DEF EventTypes, Open
        <5> QED BY <4>1, <5>1
      <4>2. CASE b \notin Open
        <5>1. Open' = Open \ {c}
          BY <1>1, <1>2, <2>1, <4>2 DEF EventTypes, Open
        <5> QED BY <2>1, <5>1
      <4> QED BY <4>1, <4>2
    <3>2. Cardinality(Open') = Cardinality(Open) - 1
      BY <1>4, <3>1, FS_RemoveElement
    <3> QED BY <1>2, <1>4, <2>1, <3>2
  <2>2. CASE c \notin Open /\ b \in Open
    <3>1. Open' = (Open \ {b}) \union {c} /\ c \notin Open \ {b}
      BY <1>1, <1>2, <2>2 DEF EventTypes, Open
    <3>2. /\ IsFiniteSet(Open \ {b}) /\ Cardinality(Open \ {b}) \in Nat
      BY OpenIsFinite DEF Open
    <3>3. Cardinality(Open \ {b}) = Cardinality(Open) - 1
      BY <1>4, <2>2, FS_RemoveElement
    <3>4. Cardinality(Open') = Cardinality(Open \ {b}) + 1
      BY <3>1, <3>2, FS_AddElement
    <3> QED BY <1>2, <1>4, <2>2, <3>2, <3>3, <3>4
  <2>3. CASE c \notin Open /\ b \notin Open
    <3>1. Open' = Open
      BY <1>1, <1>2, <2>3 DEF EventTypes, Open
    <3> QED BY <1>2, <1>4, <2>3, <3>1
  <2> QED BY <2>1, <2>2, <2>3
<1>6. Cardinality(Open') \in Nat /\ overwritten' \in Nat
  <2>1. Open' \in SUBSET Builders
    BY DEF Open
  <2> QED BY <1>3, <2>1, OpenIsFinite DEF EventTypes
<1>7. begun' = kept'["message"] + overwritten' + Cardinality(Open')
  BY <1>2, <1>4, <1>5, <1>6
<1> QED BY <1>3, <1>7 DEF EventsInv, MessagesLoggedOnce, Open

LEMMA DestroyBuilderKeeps ==
  ASSUME EventsInv, NEW b \in Builders, DestroyBuilder(b)
  PROVE  EventsInv'
<1>1. EventTypes /\ MessagesLoggedOnce
  BY DEF EventsInv
<1>2. /\ builder' = [builder EXCEPT ![b] = "none"] /\ UNCHANGED <<begun, overwritten>>
      /\ begun \in Nat /\ overwritten \in Nat
      /\ builder' \in [Builders -> {"none", "open", "moved"}] /\ kept["message"] \in Nat
  BY <1>1 DEF DestroyBuilder, EventTypes, Kinds
<1>3. CASE builder[b] = "open" /\ AddItem("message")
  <2>1. EventTypes' /\ VectorInv' /\ ItemsInv' /\ ObserversInv' /\ HeardInv'
    BY <1>2, <1>3, AddItemKeeps DEF Kinds
  <2>2. Open' = Open \ {b} /\ b \in Open
    BY <1>1, <1>2, <1>3 DEF EventTypes, Open
  <2>3. IsFiniteSet(Open) /\ Cardinality(Open) \in Nat
    BY OpenIsFinite DEF Open
  <2>4. Cardinality(Open') = Cardinality(Open) - 1
    BY <2>2, <2>3, FS_RemoveElement
  <2>5. kept'["message"] = kept["message"] + 1
    BY <1>1, <1>3 DEF AddItem, EventTypes, Kinds
  <2>6. begun = kept["message"] + overwritten + Cardinality(Open)
    BY <1>1 DEF MessagesLoggedOnce, Open
  <2>7. begun' = kept'["message"] + overwritten' + Cardinality(Open')
    BY <1>2, <2>3, <2>4, <2>5, <2>6
  <2> QED BY <2>1, <2>7 DEF EventsInv, MessagesLoggedOnce, Open
<1>4. CASE /\ builder[b] = "moved"
           /\ UNCHANGED <<vectorVars, kept, item, begun, overwritten, call, nextId, observers, observer, told>>
  <2>1. EventTypes' /\ VectorInv' /\ ItemsInv' /\ ObserversInv' /\ HeardInv'
    BY <1>2, <1>4, BuildersFrame
  <2>2. Open' = Open
    BY <1>1, <1>2, <1>4 DEF EventTypes, Open
  <2> QED BY <1>1, <1>4, <2>1, <2>2 DEF EventsInv, MessagesLoggedOnce, Open
<1> QED BY <1>3, <1>4 DEF DestroyBuilder

------------------------------------------------------------------------------
(* The append and the readers                                              *)

LEMMA AppendItemKeeps ==
  ASSUME EventsInv, AppendItem
  PROVE  EventsInv'
<1>1. EventTypes /\ ItemsInv /\ size \in Nat
  BY DEF EventsInv, VectorInv, StorageInv, StorageTypes
<1>2. /\ call.at = "appending" /\ size' = size /\ (MaybeGrow \/ PushBack)
      /\ UNCHANGED <<kept, item, builder, begun, overwritten, call, nextId, observers, observer, told>>
  BY DEF AppendItem, MaybeGrow, PushBack
<1>3. EventTypes'
  BY <1>1, <1>2 DEF EventTypes
<1>4. VectorInv'
  BY <1>2, VectorStepKeeps DEF EventsInv
<1>5. ItemsInv'
  BY <1>1, <1>2 DEF ItemsInv, Behind
<1> QED BY <1>1, <1>2, <1>3, <1>4, <1>5, ObserversFrame, HeardFrame, MessagesFrame DEF EventsInv

LEMMA AppendEndsKeeps ==
  ASSUME EventsInv, AppendEnds
  PROVE  EventsInv'
<1>1. EventTypes /\ ItemsInv /\ size \in Nat
  BY DEF EventsInv, VectorInv, StorageInv, StorageTypes
<1>2. /\ Publish /\ size' = size + 1 /\ wpc = "pushed" /\ wpc' = "idle"
      /\ UNCHANGED <<kept, item, builder, begun, overwritten, nextId, observers, observer, told>>
  BY DEF AppendEnds, Publish
<1>3. call.at = "appending"
  BY <1>1, <1>2 DEF ItemsInv
<1>4. /\ call'.at = "between" /\ call'.level = 1
      /\ call' = [at |-> call'.at, level |-> call'.level, left |-> call'.left]
  BY <1>1 DEF AppendEnds, EventTypes
<1>5. 1 \in Levels /\ 1 \in 0..Depth /\ \A l \in Levels : l >= 1
  BY EventsAssumption DEF Levels
<1>6. EventTypes'
  BY <1>1, <1>2, <1>4, <1>5 DEF EventTypes
<1>7. VectorInv'
  BY <1>2, VectorStepKeeps DEF EventsInv
<1>8. ItemsInv'
  BY <1>1, <1>2, <1>3, <1>4, <1>5 DEF ItemsInv, Behind
<1>9. HeardInv'
  BY <1>1, <1>2, <1>3, <1>4, HeardFrame
<1> QED BY <1>2, <1>4, <1>6, <1>7, <1>8, <1>9, ObserversFrame, MessagesFrame DEF EventsInv

LEMMA ReadItemsKeeps ==
  ASSUME EventsInv, ReadItems
  PROVE  EventsInv'
<1>1. EventTypes /\ ItemsInv /\ size \in Nat
  BY DEF EventsInv, VectorInv, StorageInv, StorageTypes
<1>2. /\ UNCHANGED <<size, wpc>>
      /\ UNCHANGED <<kept, item, builder, begun, overwritten, call, nextId, observers, observer, told>>
  BY DEF ReadItems, ReaderNext, VisitBegin, NextBlock, VisitItem, At
<1>3. VectorInv'
  BY VectorStepKeeps DEF EventsInv, ReadItems
<1>4. EventTypes' /\ ItemsInv'
  BY <1>1, <1>2 DEF EventTypes, ItemsInv, Behind
<1> QED BY <1>1, <1>2, <1>3, <1>4, ObserversFrame, HeardFrame, MessagesFrame DEF EventsInv

------------------------------------------------------------------------------
(* notify                                                                  *)

LEMMA EnterLevelKeeps ==
  ASSUME EventsInv, EnterLevel
  PROVE  EventsInv'
<1> DEFINE l == call.level
<1>1. EventTypes /\ ItemsInv /\ ObserversInv /\ HeardInv
  BY DEF EventsInv
<1>2. /\ call.at = "between" /\ l \in Levels /\ told' = [told EXCEPT ![l] = @ + 1]
      /\ UNCHANGED <<vectorVars, kept, item, builder, begun, overwritten, nextId, observers, observer>>
  BY <1>1 DEF EnterLevel, EventTypes
<1>3. /\ call'.at = "calling" /\ call'.level = l /\ call'.left = observers[l]
      /\ call' = [at |-> call'.at, level |-> call'.level, left |-> call'.left]
  BY <1>1 DEF EnterLevel, EventTypes
<1>4. /\ told' \in [Levels -> Nat] /\ told'[l] = told[l] + 1 /\ told[l] \in Nat
      /\ \A m \in Levels : m # l => told'[m] = told[m]
  BY <1>1, <1>2 DEF EventTypes
<1>5. EventTypes'
  BY <1>1, <1>2, <1>3, <1>4 DEF EventTypes
<1>6. ItemsInv'
  <2>1. l \in Nat /\ \A m \in Levels : m \in Nat
    BY <1>2, EventsAssumption DEF Levels
  <2>2. ASSUME NEW m \in Levels
        PROVE  Len(item') = IF Behind(m)' THEN told'[m] + 1 ELSE told'[m]
    <3>1. Len(item) = IF Behind(m) THEN told[m] + 1 ELSE told[m]
      BY <1>1 DEF ItemsInv
    <3>2. CASE m = l
      BY <1>2, <1>3, <1>4, <2>1, <3>1, <3>2 DEF Behind
    <3>3. CASE m # l
      <4>1. Behind(m)' <=> Behind(m)
        BY <1>2, <1>3, <2>1, <3>3 DEF Behind
      <4> QED BY <1>2, <1>4, <3>1, <3>3, <4>1
    <3> QED BY <3>2, <3>3
  <2>3. Len(item) = size /\ wpc = "idle" /\ UNCHANGED <<size, wpc>>
    BY <1>1, <1>2 DEF ItemsInv, vectorVars
  <2>4. \A k \in 1..Len(item') : item'[k].rank <= kept'[item'[k].kind]
    BY <1>1, <1>2 DEF ItemsInv
  <2> QED BY <1>2, <1>3, <2>2, <2>3, <2>4 DEF ItemsInv
<1>7. ObserversInv'
  <2>1. \A i \in DOMAIN call'.left : i \in DOMAIN observers'[l] /\ call'.left[i] = observers'[l][i]
    BY <1>2, <1>3
  <2> QED BY <1>1, <1>2, <1>3, <2>1 DEF ObserversInv, Numbered, RegisteredAs
<1>8. HeardInv'
  <2>1. ASSUME NEW o \in Observers, observer[o].pc = "added" PROVE HeardSince(o)'
    <3>1. /\ observer[o].level \in Levels /\ observer[o].since \in Nat
          /\ Len(observer[o].heard) \in Nat
      BY <1>1 DEF EventTypes, ObserverStates
    <3>2. HeardSince(o) /\ ~ Awaited(o)
      BY <1>1, <1>2, <2>1 DEF HeardInv, Awaited, Unlocked
    <3>3. Awaited(o)' <=> observer[o].level = l
      BY <1>1, <1>2, <1>3, <2>1 DEF Awaited, Unlocked, ObserversInv
    <3>4. told[observer[o].level] = observer[o].since + Len(observer[o].heard)
      BY <3>1, <3>2 DEF HeardSince
    <3>5. /\ told'[observer[o].level] = observer[o].since + Len(observer[o].heard)
                                          + (IF Awaited(o)' THEN 1 ELSE 0)
      BY <1>4, <3>1, <3>3, <3>4
    <3> QED BY <1>2, <3>2, <3>5 DEF HeardSince
  <2>2. size' = size
    BY <1>2 DEF vectorVars
  <2> QED BY <1>1, <1>2, <2>1, <2>2 DEF HeardInv, PlaceOf
<1> QED BY <1>2, <1>5, <1>6, <1>7, <1>8, VectorFrame, MessagesFrame DEF EventsInv

(* Observer o is called with event e.                                      *)
LEMMA Hears ==
  ASSUME EventTypes, NEW o \in Observers, NEW e \in [item: Nat, place: Nat \X Nat],
         observer' = [observer EXCEPT ![o].heard = Append(@, e)]
  PROVE  /\ observer' \in [Observers -> ObserverStates]
         /\ \A p \in Observers : p # o => observer'[p] = observer[p]
         /\ observer'[o].pc = observer[o].pc /\ observer'[o].level = observer[o].level
         /\ observer'[o].id = observer[o].id /\ observer'[o].since = observer[o].since
         /\ Len(observer'[o].heard) = Len(observer[o].heard) + 1
         /\ Len(observer[o].heard) \in Nat
         /\ observer'[o].heard[Len(observer[o].heard) + 1] = e
         /\ \A k \in 1..Len(observer[o].heard) : observer'[o].heard[k] = observer[o].heard[k]
<1> DEFINE E == [item: Nat, place: Nat \X Nat]
<1> HIDE DEF E
<1>1. observer \in [Observers -> ObserverStates]
  BY DEF EventTypes
<1>2. observer[o].heard \in Seq(E) /\ e \in E
  BY <1>1 DEF ObserverStates, E
<1>3. Append(observer[o].heard, e) \in Seq(E)
  BY <1>2
<1>4. observer' \in [Observers -> ObserverStates]
  <2>1. PICK H : H = Seq(E)
    OBVIOUS
  <2>2. PICK h \in H : h = Append(observer[o].heard, e)
    BY <1>3, <2>1
  <2>3. ObserverStates = [pc: {"out", "numbered", "added", "removed"}, level: Levels,
                          id: Nat, since: Nat, heard: H]
    BY <2>1 DEF ObserverStates, E
  <2>4. PICK f \in [Observers -> ObserverStates] : f = observer
    BY <1>1
  <2>5. PICK r : r = [f[o] EXCEPT !.heard = h]
    OBVIOUS
  <2>6. r \in ObserverStates
    <3>1. f[o] \in ObserverStates
      OBVIOUS
    <3> QED BY <2>2, <2>3, <2>5, <3>1
  <2>7. observer' = [f EXCEPT ![o] = r]
    BY <2>2, <2>4, <2>5
  <2> QED BY <2>4, <2>6, <2>7
<1>5. observer'[o].heard = Append(observer[o].heard, e)
  BY <1>1
<1>6. /\ \A p \in Observers : p # o => observer'[p] = observer[p]
      /\ observer'[o].pc = observer[o].pc /\ observer'[o].level = observer[o].level
      /\ observer'[o].id = observer[o].id /\ observer'[o].since = observer[o].since
  BY <1>1 DEF ObserverStates
<1> QED BY <1>2, <1>4, <1>5, <1>6

(* Min, of the community modules, chooses an element that is at most every *)
(* other one; naturals have a least one.                                   *)
LEMMA MinIsElement ==
  ASSUME NEW S \in SUBSET Nat, S # {}
  PROVE  Min(S) \in S
<1> DEFINE R == OpToRel(<, Nat)
<1>1. IsWellFoundedOn(R, Nat)
  BY NatLessThanWellFounded
<1>2. \A x, y \in Nat : <<y, x>> \in R <=> y < x
  BY DEF OpToRel
<1> HIDE DEF R
<1>3. PICK n \in S : \A m \in S : <<m, n>> \notin R
  BY <1>1, WFMin
<1>4. ASSUME NEW m \in S PROVE n <= m
  <2>1. m \in Nat /\ n \in Nat
    BY <1>3
  <2>2. ~ (m < n)
    BY <1>2, <1>3, <2>1
  <2> QED BY <2>1, <2>2
<1> QED BY <1>4 DEF Min

LEMMA CallObserverKeeps ==
  ASSUME EventsInv, CallObserver
  PROVE  EventsInv'
<1>0. PICK id, o : id = Min(DOMAIN call.left) /\ o = call.left[id]
  OBVIOUS
<1> DEFINE l == call.level
           e == [item |-> Len(item), place |-> Found(EventIndex)]
           n == Len(observer[o].heard)
<1>1. EventTypes /\ ItemsInv /\ ObserversInv /\ HeardInv
  BY DEF EventsInv
<1>2. /\ call.at = "calling" /\ DOMAIN call.left # {} /\ l \in Levels
      /\ observer' = [observer EXCEPT ![o].heard = Append(@, e)]
      /\ UNCHANGED <<vectorVars, kept, item, builder, begun, overwritten, nextId, observers, told>>
  BY <1>0, <1>1 DEF CallObserver, EventTypes
<1>3. id \in DOMAIN call.left
  <2>1. \A i \in DOMAIN call.left : i \in Nat
    BY <1>1, <1>2 DEF ObserversInv
  <2>2. DOMAIN call.left \in SUBSET Nat /\ DOMAIN call.left # {}
    BY <1>2, <2>1
  <2> QED BY <1>0, <2>2, MinIsElement
<1>4. o \in Observers /\ observer[o].pc = "added" /\ observer[o].level = l /\ observer[o].id = id
  BY <1>0, <1>1, <1>2, <1>3 DEF ObserversInv, RegisteredAs
<1>5. /\ call'.at = "calling" /\ call'.level = l
      /\ call'.left = [i \in DOMAIN call.left \ {id} |-> call.left[i]]
      /\ call' = [at |-> call'.at, level |-> call'.level, left |-> call'.left]
  BY <1>0, <1>1 DEF CallObserver, EventTypes
<1>6. /\ DOMAIN call'.left = DOMAIN call.left \ {id}
      /\ \A i \in DOMAIN call'.left : call'.left[i] = call.left[i]
  BY <1>5
<1>7. Awaited(o) /\ HeardSince(o) /\ observer[o].since \in Nat /\ told[l] \in Nat
  BY <1>1, <1>2, <1>3, <1>4 DEF Awaited, Unlocked, HeardInv, EventTypes, ObserverStates
<1>8. told[l] = Len(item) /\ Len(item) = size /\ size \in Nat
  <2>1. ~ Behind(l)
    BY <1>2, EventsAssumption DEF Behind, Levels
  <2> QED BY <1>1, <1>2, <2>1 DEF ItemsInv, EventsInv, VectorInv, StorageInv, StorageTypes
<1>9. n \in Nat /\ told[l] = observer[o].since + n + 1
  BY <1>1, <1>4, <1>7 DEF HeardSince, EventTypes, ObserverStates
<1>10. /\ e.item = Len(item) /\ Len(item) \in 1..size /\ Len(item) \in Nat
       /\ e.place = PlaceOf(Len(item) - 1) /\ PlaceOf(Len(item) - 1) \in Nat \X Nat
       /\ e \in [item: Nat, place: Nat \X Nat]
  <2>1. Len(item) \in 1..size /\ size - 1 \in Nat /\ size - 1 = Len(item) - 1
    BY <1>7, <1>8, <1>9
  <2>2. size - 1 < Len(places)
    BY <1>8 DEF EventsInv, VectorInv, StorageInv, StorageTypes
  <2>3. Found(EventIndex) = PlaceOf(size - 1) /\ PlaceOf(size - 1) \in Nat \X Nat
    BY <2>1, <2>2, FoundIsPlace, PlacesArePairs DEF EventIndex, EventsInv
  <2> QED BY <1>8, <2>1, <2>3
<1> HIDE DEF e
<1>11. /\ observer' \in [Observers -> ObserverStates]
       /\ \A p \in Observers : p # o => observer'[p] = observer[p]
       /\ observer'[o].pc = observer[o].pc /\ observer'[o].level = observer[o].level
       /\ observer'[o].id = observer[o].id /\ observer'[o].since = observer[o].since
       /\ Len(observer'[o].heard) = n + 1 /\ observer'[o].heard[n + 1] = e
       /\ \A k \in 1..n : observer'[o].heard[k] = observer[o].heard[k]
  BY <1>1, <1>2, <1>4, <1>10, Hears
<1>12. EventTypes'
  BY <1>1, <1>2, <1>5, <1>11 DEF EventTypes
<1>13. ItemsInv'
  BY <1>1, <1>2, <1>5 DEF ItemsInv, Behind, vectorVars
<1>14. ObserversInv'
  <2>1. \A p \in Observers : /\ observer'[p].pc = observer[p].pc
                             /\ observer'[p].level = observer[p].level
                             /\ observer'[p].id = observer[p].id
    BY <1>11
  <2>2. \A i \in DOMAIN call'.left :
          i \in DOMAIN observers[call'.level] /\ call'.left[i] = observers[call'.level][i]
    BY <1>1, <1>2, <1>5, <1>6 DEF ObserversInv
  <2> QED BY <1>1, <1>2, <2>1, <2>2 DEF ObserversInv, Numbered, RegisteredAs
<1>15. HeardInv'
  <2>1. ASSUME NEW p \in Observers, observer[p].pc = "added" PROVE HeardSince(p)'
    <3>1. CASE p = o
      <4>1. ~ Awaited(o)'
        BY <1>4, <1>6, <1>11 DEF Awaited
      <4>2. told'[observer'[o].level] = observer'[o].since + Len(observer'[o].heard)
        <5>1. told'[observer'[o].level] = told[l]
          BY <1>2, <1>4, <1>11
        <5>2. observer'[o].since + Len(observer'[o].heard) = observer[o].since + (n + 1)
          BY <1>11
        <5>3. observer[o].since + (n + 1) = observer[o].since + n + 1
          BY <1>7, <1>9
        <5> QED BY <1>9, <5>1, <5>2, <5>3
      <4>3. ASSUME NEW k \in 1..n + 1 PROVE observer'[o].heard[k].item = observer'[o].since + k
        <5>1. CASE k = n + 1
          <6>1. observer'[o].heard[k].item = Len(item)
            BY <1>10, <1>11, <5>1
          <6>2. Len(item) = observer[o].since + n + 1
            BY <1>8, <1>9
          <6>3. observer'[o].since + k = observer[o].since + (n + 1)
            BY <1>11, <5>1
          <6>4. observer[o].since + (n + 1) = observer[o].since + n + 1
            BY <1>7, <1>9
          <6> QED BY <6>1, <6>2, <6>3, <6>4
        <5>2. CASE k # n + 1
          <6>1. k \in 1..n
            BY <1>9, <5>2
          <6> QED BY <1>7, <1>11, <6>1 DEF HeardSince
        <5> QED BY <5>1, <5>2
      <4>4. observer'[o].since + Len(observer'[o].heard) = observer'[o].since + Len(observer'[o].heard) + 0
        BY <1>7, <1>9, <1>11
      <4> QED BY <1>11, <3>1, <4>1, <4>2, <4>3, <4>4 DEF HeardSince
    <3>2. CASE p # o
      <4>1. observer'[p] = observer[p] /\ HeardSince(p)
        BY <1>1, <1>11, <2>1, <3>2 DEF HeardInv
      <4>2. observer[p].level = l => observer[p].id # id
        BY <1>1, <1>4, <2>1, <3>2 DEF ObserversInv, Numbered
      <4>3. Awaited(p)' <=> Awaited(p)
        BY <1>2, <1>5, <1>6, <4>1, <4>2 DEF Awaited, Unlocked
      <4> QED BY <1>2, <4>1, <4>3 DEF HeardSince
    <3> QED BY <3>1, <3>2
  <2>2. ASSUME NEW p \in Observers, NEW k \in 1..Len(observer'[p].heard)
        PROVE  /\ observer'[p].heard[k].item \in 1..size
               /\ observer'[p].heard[k].place = PlaceOf(observer'[p].heard[k].item - 1)
    <3>1. CASE p = o /\ k = n + 1
      BY <1>10, <1>11, <3>1
    <3>2. CASE p = o /\ k # n + 1
      <4>1. k \in 1..n /\ observer'[p].heard[k] = observer[p].heard[k]
        BY <1>9, <1>11, <3>2
      <4> QED BY <1>1, <1>4, <3>2, <4>1 DEF HeardInv
    <3>3. CASE p # o
      BY <1>1, <1>11, <3>3 DEF HeardInv
    <3> QED BY <3>1, <3>2, <3>3
  <2>3. size' = size
    BY <1>2 DEF vectorVars
  <2>4. \A p \in Observers : observer'[p].pc \in {"out", "numbered"} => observer'[p].heard = << >>
    BY <1>1, <1>4, <1>11 DEF HeardInv
  <2>5. \A p \in Observers : observer'[p].pc = "added" => observer[p].pc = "added"
    BY <1>11
  <2> QED BY <2>1, <2>2, <2>3, <2>4, <2>5 DEF HeardInv, PlaceOf
<1> QED BY <1>2, <1>12, <1>13, <1>14, <1>15, VectorFrame, MessagesFrame DEF EventsInv

LEMMA LeaveLevelKeeps ==
  ASSUME EventsInv, LeaveLevel
  PROVE  EventsInv'
<1> DEFINE l == call.level
<1>1. EventTypes /\ ItemsInv /\ ObserversInv /\ HeardInv
  BY DEF EventsInv
<1>2. /\ call.at = "calling" /\ DOMAIN call.left = {} /\ l \in Levels /\ l \in Nat /\ Depth \in Nat
      /\ UNCHANGED <<vectorVars, kept, item, builder, begun, overwritten, nextId, observers, observer, told>>
  BY <1>1, EventsAssumption DEF LeaveLevel, EventTypes, Levels
<1>3. /\ call' = [at |-> call'.at, level |-> call'.level, left |-> call'.left]
      /\ \/ l < Depth /\ call'.at = "between" /\ call'.level = l + 1
         \/ l = Depth /\ call'.at = "idle" /\ call'.level = 0
  <2>1. call' = IF l < Depth THEN [NoCall EXCEPT !.at = "between", !.level = l + 1] ELSE NoCall
    BY DEF LeaveLevel, Above
  <2>2. CASE l < Depth
    <3>1. call' = [at |-> "between", level |-> l + 1, left |-> << >>]
      BY <2>1, <2>2 DEF NoCall
    <3> QED BY <2>2, <3>1
  <2>3. CASE ~ (l < Depth)
    <3>1. call' = [at |-> "idle", level |-> 0, left |-> << >>]
      BY <2>1, <2>3 DEF NoCall
    <3>2. l = Depth
      BY <1>2, <2>3 DEF Levels
    <3> QED BY <3>1, <3>2
  <2> QED BY <2>2, <2>3
<1>4. EventTypes'
  <2>1. call'.level \in 0..Depth /\ (call'.at \in {"between", "calling"} => call'.level \in Levels)
    BY <1>2, <1>3 DEF Levels
  <2> QED BY <1>1, <1>2, <1>3, <2>1 DEF EventTypes
<1>5. ItemsInv'
  <2>1. ASSUME NEW m \in Levels PROVE Behind(m)' <=> Behind(m)
    <3>1. m \in Nat /\ m <= Depth
      BY <1>2 DEF Levels
    <3> QED BY <1>2, <1>3, <3>1 DEF Behind
  <2> QED BY <1>1, <1>2, <1>3, <2>1 DEF ItemsInv, vectorVars
<1>6. ObserversInv'
  BY <1>2, <1>3, ObserversFrame
<1>7. HeardInv'
  <2>1. ASSUME NEW o \in Observers, observer[o].pc = "added" PROVE HeardSince(o)'
    <3>1. HeardSince(o) /\ ~ Awaited(o)
      BY <1>1, <1>2, <2>1 DEF HeardInv, Awaited
    <3>2. ~ Awaited(o)'
      BY <1>3 DEF Awaited, Unlocked
    <3> QED BY <1>2, <3>1, <3>2 DEF HeardSince
  <2> QED BY <1>1, <1>2, <2>1 DEF HeardInv, PlaceOf, vectorVars
<1> QED BY <1>2, <1>4, <1>5, <1>6, <1>7, VectorFrame, MessagesFrame DEF EventsInv

------------------------------------------------------------------------------
(* The observers                                                           *)

(* What the steps of an observer's thread leave alone.                     *)
LEMMA ThreadFrame ==
  ASSUME EventsInv, UNCHANGED <<vectorVars, kept, item, builder, begun, overwritten, call, told>>,
         nextId' \in [Levels -> Nat], observers' = [l \in Levels |-> observers'[l]],
         observer' \in [Observers -> ObserverStates]
  PROVE  EventTypes' /\ VectorInv' /\ ItemsInv' /\ MessagesLoggedOnce'
<1>1. EventTypes /\ ItemsInv
  BY DEF EventsInv
<1> QED BY <1>1, VectorFrame, MessagesFrame DEF EventTypes, ItemsInv, Behind, vectorVars

(* Nothing o heard changes, and the level it was added to was told nothing.*)
LEMMA HeardKept ==
  ASSUME EventsInv, UNCHANGED <<size, told, call>>, NEW o \in Observers,
         \A p \in Observers : p # o => observer'[p] = observer[p],
         observer'[o].heard = observer[o].heard,
         observer'[o].pc \in {"out", "numbered"} => observer[o].pc \in {"out", "numbered"},
         observer'[o].pc = "added" => HeardSince(o)'
  PROVE  HeardInv'
<1>1. HeardInv
  BY DEF EventsInv
<1>2. ASSUME NEW p \in Observers, observer'[p].pc = "added" PROVE HeardSince(p)'
  <2>1. CASE p = o
    BY <1>2, <2>1
  <2>2. CASE p # o
    <3>1. HeardSince(p) /\ observer'[p] = observer[p]
      BY <1>1, <1>2, <2>2 DEF HeardInv
    <3>2. Awaited(p)' <=> Awaited(p)
      BY <3>1 DEF Awaited, Unlocked
    <3> QED BY <3>1, <3>2 DEF HeardSince
  <2> QED BY <2>1, <2>2
<1>3. \A p \in Observers : observer'[p].heard = observer[p].heard
  OBVIOUS
<1>4. ASSUME NEW p \in Observers, observer'[p].pc \in {"out", "numbered"}
      PROVE  observer'[p].heard = << >>
  BY <1>1, <1>3, <1>4 DEF HeardInv
<1> QED BY <1>1, <1>2, <1>3, <1>4 DEF HeardInv, PlaceOf

(* An observer's thread takes the next identifier.                         *)
LEMMA Numbers ==
  ASSUME EventTypes, NEW o \in Observers, NEW l \in Levels, NEW i \in Nat,
         observer' = [observer EXCEPT ![o].pc = "numbered", ![o].level = l, ![o].id = i]
  PROVE  /\ observer' \in [Observers -> ObserverStates]
         /\ \A p \in Observers : p # o => observer'[p] = observer[p]
         /\ observer'[o].pc = "numbered" /\ observer'[o].level = l /\ observer'[o].id = i
         /\ observer'[o].heard = observer[o].heard
<1> DEFINE E == [item: Nat, place: Nat \X Nat]
<1> HIDE DEF E
<1>1. observer \in [Observers -> ObserverStates]
  BY DEF EventTypes
<1>2. observer[o].since \in Nat /\ observer[o].heard \in Seq(E)
  BY <1>1 DEF ObserverStates, E
<1> QED BY <1>1, <1>2 DEF ObserverStates, E

LEMMA TakeIdKeeps ==
  ASSUME EventsInv, NEW o \in Observers, NEW l \in Levels, TakeId(o, l)
  PROVE  EventsInv'
<1>1. EventTypes /\ ObserversInv /\ HeardInv
  BY DEF EventsInv
<1>2. /\ observer[o].pc = "out" /\ nextId[l] \in Nat
      /\ observer' = [observer EXCEPT ![o].pc = "numbered", ![o].level = l, ![o].id = nextId[l]]
      /\ nextId' = [nextId EXCEPT ![l] = @ + 1]
      /\ UNCHANGED <<vectorVars, kept, item, builder, begun, overwritten, call, observers, told>>
  BY <1>1 DEF TakeId, NewId, EventTypes
<1>3. /\ observer' \in [Observers -> ObserverStates]
      /\ \A p \in Observers : p # o => observer'[p] = observer[p]
      /\ observer'[o].pc = "numbered" /\ observer'[o].level = l /\ observer'[o].id = nextId[l]
      /\ observer'[o].heard = observer[o].heard
  BY <1>1, <1>2, Numbers
<1>4. /\ nextId' \in [Levels -> Nat] /\ nextId'[l] = nextId[l] + 1
      /\ \A m \in Levels : nextId[m] \in Nat /\ nextId'[m] \in Nat /\ nextId[m] <= nextId'[m]
  BY <1>1, <1>2 DEF EventTypes
<1>5. EventTypes' /\ VectorInv' /\ ItemsInv' /\ MessagesLoggedOnce'
  BY <1>1, <1>2, <1>3, <1>4, ThreadFrame DEF EventTypes
<1>6. HeardInv'
  BY <1>2, <1>3, HeardKept DEF vectorVars
<1>7. ObserversInv'
  <2>1. \A p \in Observers : observer[p].level \in Levels /\ observer[p].id \in Nat
    BY <1>1 DEF EventTypes, ObserverStates
  <2>2. ASSUME NEW p \in Observers, Numbered(p)'
        PROVE  observer'[p].id < nextId'[observer'[p].level]
    <3>1. CASE p = o
      BY <1>2, <1>3, <1>4, <3>1
    <3>2. CASE p # o
      BY <1>1, <1>3, <1>4, <2>1, <2>2, <3>2 DEF ObserversInv, Numbered
    <3> QED BY <3>1, <3>2
  <2>3. ASSUME NEW p \in Observers, Numbered(p)', p # o, observer'[p].level = l
        PROVE  observer'[p].id # nextId[l]
    BY <1>1, <1>2, <1>3, <2>1, <2>3 DEF ObserversInv, Numbered
  <2>4. ASSUME NEW p \in Observers, NEW q \in Observers, Numbered(p)', Numbered(q)',
               observer'[p].level = observer'[q].level, observer'[p].id = observer'[q].id
        PROVE  p = q
    <3>1. CASE p = o \/ q = o
      BY <1>3, <2>3, <2>4, <3>1
    <3>2. CASE p # o /\ q # o
      BY <1>1, <1>3, <2>4, <3>2 DEF ObserversInv, Numbered
    <3> QED BY <3>1, <3>2
  <2>5. ASSUME NEW m \in Levels, NEW i \in DOMAIN observers[m]
        PROVE  i \in Nat /\ RegisteredAs(observers[m][i], m, i)'
    <3>1. i \in Nat /\ RegisteredAs(observers[m][i], m, i)
      BY <1>1 DEF ObserversInv
    <3> QED BY <1>2, <1>3, <3>1 DEF RegisteredAs
  <2>6. ASSUME NEW p \in Observers, observer'[p].pc = "added"
        PROVE  /\ observer'[p].id \in DOMAIN observers[observer'[p].level]
               /\ observers[observer'[p].level][observer'[p].id] = p
    BY <1>1, <1>3, <2>6 DEF ObserversInv
  <2>7. call.at = "calling" => \A i \in DOMAIN call.left :
          i \in DOMAIN observers[call.level] /\ call.left[i] = observers[call.level][i]
    BY <1>1 DEF ObserversInv
  <2> QED BY <1>2, <2>2, <2>4, <2>5, <2>6, <2>7 DEF ObserversInv, RegisteredAs
<1> QED BY <1>5, <1>6, <1>7 DEF EventsInv

(* What becomes of a thread that has inserted, and that has removed.       *)
LEMMA Enrolls ==
  ASSUME EventTypes, NEW o \in Observers, NEW n \in Nat,
         observer' = [observer EXCEPT ![o].pc = "added", ![o].since = n]
  PROVE  /\ observer' \in [Observers -> ObserverStates]
         /\ \A p \in Observers : p # o => observer'[p] = observer[p]
         /\ observer'[o].pc = "added" /\ observer'[o].since = n
         /\ observer'[o].level = observer[o].level /\ observer'[o].id = observer[o].id
         /\ observer'[o].heard = observer[o].heard
<1> DEFINE E == [item: Nat, place: Nat \X Nat]
<1> HIDE DEF E
<1>1. observer \in [Observers -> ObserverStates]
  BY DEF EventTypes
<1>2. observer[o].heard \in Seq(E) /\ observer[o].level \in Levels /\ observer[o].id \in Nat
  BY <1>1 DEF ObserverStates, E
<1> QED BY <1>1, <1>2 DEF ObserverStates, E

LEMMA Withdraws ==
  ASSUME EventTypes, NEW o \in Observers, observer' = [observer EXCEPT ![o].pc = "removed"]
  PROVE  /\ observer' \in [Observers -> ObserverStates]
         /\ \A p \in Observers : p # o => observer'[p] = observer[p]
         /\ observer'[o].pc = "removed" /\ observer'[o].heard = observer[o].heard
<1> DEFINE E == [item: Nat, place: Nat \X Nat]
<1> HIDE DEF E
<1>1. observer \in [Observers -> ObserverStates]
  BY DEF EventTypes
<1>2. /\ observer[o].heard \in Seq(E) /\ observer[o].level \in Levels
      /\ observer[o].id \in Nat /\ observer[o].since \in Nat
  BY <1>1 DEF ObserverStates, E
<1> QED BY <1>1, <1>2 DEF ObserverStates, E

LEMMA InsertKeeps ==
  ASSUME EventsInv, NEW o \in Observers, Insert(o)
  PROVE  EventsInv'
<1>0. PICK l, id : l = observer[o].level /\ id = observer[o].id
  OBVIOUS
<1>1. EventTypes /\ ObserversInv /\ HeardInv
  BY DEF EventsInv
<1>2. /\ observer[o].pc = "numbered" /\ l \in Levels /\ id \in Nat /\ told[l] \in Nat
      /\ ~ (call.at = "calling" /\ call.level = l)
      /\ observer' = [observer EXCEPT ![o].pc = "added", ![o].since = told[l]]
      /\ observers' = [observers EXCEPT ![l] =
           [i \in DOMAIN observers[l] \union {id} |->
              IF i \in DOMAIN observers[l] THEN observers[l][i] ELSE o]]
      /\ UNCHANGED <<vectorVars, kept, item, builder, begun, overwritten, call, nextId, told>>
  BY <1>0, <1>1 DEF Insert, Unlocked, EventTypes, ObserverStates
<1>3. /\ observer' \in [Observers -> ObserverStates]
      /\ \A p \in Observers : p # o => observer'[p] = observer[p]
      /\ observer'[o].pc = "added" /\ observer'[o].since = told[l]
      /\ observer'[o].level = l /\ observer'[o].id = id
      /\ observer'[o].heard = observer[o].heard
  BY <1>0, <1>1, <1>2, Enrolls
<1>4. /\ observers' = [m \in Levels |-> observers'[m]]
      /\ \A m \in Levels : m # l => observers'[m] = observers[m]
      /\ observers'[l] = [i \in DOMAIN observers[l] \union {id} |->
                            IF i \in DOMAIN observers[l] THEN observers[l][i] ELSE o]
  BY <1>1, <1>2 DEF EventTypes
<1>5. id \notin DOMAIN observers[l]
  <2> SUFFICES ASSUME id \in DOMAIN observers[l] PROVE FALSE
    OBVIOUS
  <2>1. RegisteredAs(observers[l][id], l, id)
    BY <1>1, <1>2 DEF ObserversInv
  <2>2. observers[l][id] = o
    <3> DEFINE p == observers[l][id]
    <3>1. p \in Observers /\ Numbered(p) /\ observer[p].level = l /\ observer[p].id = id
      BY <2>1 DEF RegisteredAs, Numbered
    <3>2. Numbered(o) /\ observer[o].level = l /\ observer[o].id = id
      BY <1>0, <1>2 DEF Numbered
    <3>3. \A q, r \in Observers :
            Numbered(q) /\ Numbered(r) /\ observer[q].level = observer[r].level
              /\ observer[q].id = observer[r].id => q = r
      BY <1>1 DEF ObserversInv
    <3> QED BY <3>1, <3>2, <3>3
  <2> QED BY <1>2, <2>1, <2>2 DEF RegisteredAs
<1>6. /\ DOMAIN observers'[l] = DOMAIN observers[l] \union {id} /\ observers'[l][id] = o
      /\ \A i \in DOMAIN observers[l] : observers'[l][i] = observers[l][i]
  BY <1>4, <1>5
<1>7. EventTypes' /\ VectorInv' /\ ItemsInv' /\ MessagesLoggedOnce'
  BY <1>1, <1>2, <1>3, <1>4, ThreadFrame DEF EventTypes
<1>8. HeardInv'
  <2>1. observer'[o].heard = << >> /\ Len(observer'[o].heard) = 0
    BY <1>1, <1>2, <1>3 DEF HeardInv
  <2>2. ~ Awaited(o)' /\ told'[l] = told[l]
    BY <1>2, <1>3 DEF Awaited, Unlocked
  <2>3. HeardSince(o)'
    BY <1>2, <1>3, <2>1, <2>2 DEF HeardSince
  <2> QED BY <1>2, <1>3, <2>3, HeardKept DEF vectorVars
<1>9. ObserversInv'
  <2>1. \A p \in Observers : /\ Numbered(p)' <=> Numbered(p)
                             /\ observer'[p].level = observer[p].level
                             /\ observer'[p].id = observer[p].id
    BY <1>0, <1>2, <1>3 DEF Numbered
  <2>2. ASSUME NEW m \in Levels, NEW i \in DOMAIN observers'[m]
        PROVE  i \in Nat /\ RegisteredAs(observers[m][i], m, i)'
    <3>1. CASE m = l /\ i = id
      BY <1>2, <1>3, <1>6, <3>1 DEF RegisteredAs
    <3>2. CASE ~ (m = l /\ i = id)
      <4>1. i \in DOMAIN observers[m] /\ observers'[m][i] = observers[m][i]
        BY <1>4, <1>6, <3>2
      <4>2. i \in Nat /\ RegisteredAs(observers[m][i], m, i)
        BY <1>1, <4>1 DEF ObserversInv
      <4> QED BY <1>2, <1>3, <4>1, <4>2 DEF RegisteredAs
    <3> QED BY <3>1, <3>2
  <2>3. ASSUME NEW p \in Observers, observer'[p].pc = "added"
        PROVE  /\ observer'[p].id \in DOMAIN observers'[observer'[p].level]
               /\ observers'[observer'[p].level][observer'[p].id] = p
    <3>1. CASE p = o
      BY <1>3, <1>6, <3>1
    <3>2. CASE p # o
      <4>1. /\ observer'[p] = observer[p] /\ observer[p].level \in Levels
            /\ observer[p].id \in DOMAIN observers[observer[p].level]
            /\ observers[observer[p].level][observer[p].id] = p
        BY <1>1, <1>3, <2>3, <3>2 DEF ObserversInv, EventTypes, ObserverStates
      <4> QED BY <1>4, <1>6, <4>1
    <3> QED BY <3>1, <3>2
  <2>4. call'.at = "calling" => \A i \in DOMAIN call'.left :
          i \in DOMAIN observers'[call'.level] /\ call'.left[i] = observers'[call'.level][i]
    <3> SUFFICES ASSUME call.at = "calling", NEW i \in DOMAIN call.left
                 PROVE  /\ i \in DOMAIN observers'[call.level]
                        /\ call.left[i] = observers'[call.level][i]
      BY <1>2
    <3>1. call.level \in Levels /\ call.level # l
      BY <1>1, <1>2 DEF EventTypes
    <3> QED BY <1>1, <1>4, <3>1 DEF ObserversInv
  <2>5. /\ \A p \in Observers : Numbered(p)' => observer'[p].id < nextId'[observer'[p].level]
        /\ \A p, q \in Observers :
             Numbered(p)' /\ Numbered(q)' /\ observer'[p].level = observer'[q].level
               /\ observer'[p].id = observer'[q].id => p = q
    <3>1. /\ \A p \in Observers : Numbered(p) => observer[p].id < nextId[observer[p].level]
          /\ \A p, q \in Observers :
               Numbered(p) /\ Numbered(q) /\ observer[p].level = observer[q].level
                 /\ observer[p].id = observer[q].id => p = q
      BY <1>1 DEF ObserversInv
    <3>2. nextId' = nextId
      BY <1>2
    <3> QED BY <2>1, <3>1, <3>2
  <2> QED BY <2>2, <2>3, <2>4, <2>5 DEF ObserversInv, RegisteredAs
<1> QED BY <1>7, <1>8, <1>9 DEF EventsInv

LEMMA RemoveKeeps ==
  ASSUME EventsInv, NEW o \in Observers, Remove(o)
  PROVE  EventsInv'
<1>0. PICK l, id : l = observer[o].level /\ id = observer[o].id
  OBVIOUS
<1>1. EventTypes /\ ObserversInv /\ HeardInv
  BY DEF EventsInv
<1>2. /\ observer[o].pc = "added" /\ l \in Levels
      /\ ~ (call.at = "calling" /\ call.level = l)
      /\ observer' = [observer EXCEPT ![o].pc = "removed"]
      /\ observers' = [observers EXCEPT ![l] =
           [i \in DOMAIN observers[l] \ {id} |-> observers[l][i]]]
      /\ UNCHANGED <<vectorVars, kept, item, builder, begun, overwritten, call, nextId, told>>
  BY <1>0, <1>1 DEF Remove, Unlocked, EventTypes, ObserverStates
<1>3. /\ observer' \in [Observers -> ObserverStates]
      /\ \A p \in Observers : p # o => observer'[p] = observer[p]
      /\ observer'[o].pc = "removed" /\ observer'[o].heard = observer[o].heard
  BY <1>1, <1>2, Withdraws
<1>4. /\ observers' = [m \in Levels |-> observers'[m]]
      /\ \A m \in Levels : m # l => observers'[m] = observers[m]
      /\ observers'[l] = [i \in DOMAIN observers[l] \ {id} |-> observers[l][i]]
  BY <1>1, <1>2 DEF EventTypes
<1>5. /\ DOMAIN observers'[l] = DOMAIN observers[l] \ {id}
      /\ \A i \in DOMAIN observers'[l] : observers'[l][i] = observers[l][i]
  BY <1>4
<1>6. EventTypes' /\ VectorInv' /\ ItemsInv' /\ MessagesLoggedOnce'
  BY <1>1, <1>2, <1>3, <1>4, ThreadFrame DEF EventTypes
<1>7. HeardInv'
  BY <1>2, <1>3, HeardKept DEF vectorVars
<1>8. ObserversInv'
  <2>1. \A p \in Observers : Numbered(p)' => Numbered(p) /\ p # o /\ observer'[p] = observer[p]
    BY <1>3 DEF Numbered
  <2>2. ASSUME NEW m \in Levels, NEW i \in DOMAIN observers'[m]
        PROVE  i \in Nat /\ RegisteredAs(observers[m][i], m, i)'
    <3>1. /\ i \in DOMAIN observers[m] /\ observers'[m][i] = observers[m][i]
          /\ ~ (m = l /\ i = id)
      BY <1>4, <1>5
    <3>2. i \in Nat /\ RegisteredAs(observers[m][i], m, i)
      BY <1>1, <3>1 DEF ObserversInv
    <3>3. observers[m][i] # o
      BY <1>0, <3>1, <3>2 DEF RegisteredAs
    <3> QED BY <1>3, <3>1, <3>2, <3>3 DEF RegisteredAs
  <2>3. ASSUME NEW p \in Observers, observer'[p].pc = "added"
        PROVE  /\ observer'[p].id \in DOMAIN observers'[observer'[p].level]
               /\ observers'[observer'[p].level][observer'[p].id] = p
    <3>1. /\ p # o /\ observer'[p] = observer[p] /\ observer[p].level \in Levels
          /\ observer[p].pc = "added"
          /\ observer[p].id \in DOMAIN observers[observer[p].level]
          /\ observers[observer[p].level][observer[p].id] = p
      BY <1>1, <1>3, <2>3 DEF ObserversInv, EventTypes, ObserverStates
    <3>2. ~ (observer[p].level = l /\ observer[p].id = id)
      BY <1>0, <1>1, <1>2, <3>1 DEF ObserversInv, Numbered
    <3> QED BY <1>4, <1>5, <3>1, <3>2
  <2>4. call'.at = "calling" => \A i \in DOMAIN call'.left :
          i \in DOMAIN observers'[call'.level] /\ call'.left[i] = observers'[call'.level][i]
    <3> SUFFICES ASSUME call.at = "calling", NEW i \in DOMAIN call.left
                 PROVE  /\ i \in DOMAIN observers'[call.level]
                        /\ call.left[i] = observers'[call.level][i]
      BY <1>2
    <3>1. call.level \in Levels /\ call.level # l
      BY <1>1, <1>2 DEF EventTypes
    <3> QED BY <1>1, <1>4, <3>1 DEF ObserversInv
  <2>5. ASSUME NEW p \in Observers, Numbered(p)' PROVE observer'[p].id < nextId'[observer'[p].level]
    BY <1>1, <1>2, <2>1, <2>5 DEF ObserversInv
  <2>6. ASSUME NEW p \in Observers, NEW q \in Observers, Numbered(p)', Numbered(q)',
               observer'[p].level = observer'[q].level, observer'[p].id = observer'[q].id
        PROVE  p = q
    BY <1>1, <2>1, <2>6 DEF ObserversInv
  <2> QED BY <2>2, <2>3, <2>4, <2>5, <2>6 DEF ObserversInv, RegisteredAs
<1> QED BY <1>6, <1>7, <1>8 DEF EventsInv

------------------------------------------------------------------------------
(* The theorems                                                            *)

LEMMA StepsKeep == EventsInv /\ [Next]_vars => EventsInv'
<1> SUFFICES ASSUME EventsInv, [Next]_vars PROVE EventsInv'
  OBVIOUS
<1>1. CASE Log
  BY <1>1, LogKeeps
<1>2. CASE AddSubReport
  BY <1>2, AddSubReportKeeps
<1>3. ASSUME NEW b \in Builders, NewBuilder(b) PROVE EventsInv'
  BY <1>3, NewBuilderKeeps
<1>4. ASSUME NEW b \in Builders, DestroyBuilder(b) PROVE EventsInv'
  BY <1>4, DestroyBuilderKeeps
<1>5. ASSUME NEW b \in Builders, NEW c \in Builders, MoveBuilder(b, c) PROVE EventsInv'
  BY <1>5, MoveBuilderKeeps
<1>6. CASE AppendItem
  BY <1>6, AppendItemKeeps
<1>7. CASE AppendEnds
  BY <1>7, AppendEndsKeeps
<1>8. CASE EnterLevel
  BY <1>8, EnterLevelKeeps
<1>9. CASE CallObserver
  BY <1>9, CallObserverKeeps
<1>10. CASE LeaveLevel
  BY <1>10, LeaveLevelKeeps
<1>11. ASSUME NEW o \in Observers, NEW l \in Levels, TakeId(o, l) PROVE EventsInv'
  BY <1>11, TakeIdKeeps
<1>12. ASSUME NEW o \in Observers, Insert(o) PROVE EventsInv'
  BY <1>12, InsertKeeps
<1>13. ASSUME NEW o \in Observers, Remove(o) PROVE EventsInv'
  BY <1>13, RemoveKeeps
<1>14. CASE ReadItems
  BY <1>14, ReadItemsKeeps
<1>15. CASE UNCHANGED vars
  <2>1. UNCHANGED <<vectorVars, kept, item, builder, begun, overwritten, call, nextId, observers, observer, told>>
    BY <1>15 DEF vars
  <2>2. size \in Nat /\ size' = size
    BY <2>1 DEF vectorVars, EventsInv, VectorInv, StorageInv, StorageTypes
  <2>3. EventTypes' /\ ItemsInv'
    BY <2>1 DEF EventsInv, EventTypes, ItemsInv, Behind, vectorVars
  <2> QED BY <2>1, <2>2, <2>3, VectorFrame, ObserversFrame, HeardFrame, MessagesFrame DEF EventsInv
<1> QED BY <1>1, <1>2, <1>3, <1>4, <1>5, <1>6, <1>7, <1>8, <1>9, <1>10, <1>11, <1>12,
           <1>13, <1>14, <1>15 DEF Next

(* Types, storage, items, identifiers and what was heard: the inductive    *)
(* invariant of ExecutionReport's items and observers.                     *)
THEOREM EventsHold == Spec => []EventsInv
  BY Starts, StepsKeep, PTL DEF Spec

LEMMA NamesFollow == EventsInv => EventNamesItem
<1> SUFFICES ASSUME EventsInv PROVE EventNamesItem
  OBVIOUS
<1>1. LookupFindsElement
  BY LookupsFollow DEF EventsInv
<1>2. ASSUME NEW o \in Observers, NEW k \in DOMAIN observer[o].heard
      PROVE  LET h == observer[o].heard[k] IN
             h.place = places[h.item] /\ item[h.item].rank <= kept[item[h.item].kind]
  <2> DEFINE h == observer[o].heard[k]
  <2>1. observer[o].heard \in Seq([item: Nat, place: Nat \X Nat])
    BY DEF EventsInv, EventTypes, ObserverStates
  <2>2. k \in 1..Len(observer[o].heard)
    BY <2>1
  <2>3. h.item \in 1..size /\ h.place = PlaceOf(h.item - 1)
    BY <2>2 DEF EventsInv, HeardInv
  <2> HIDE DEF h
  <2>4. size \in Nat /\ size <= Len(places) /\ Len(places) \in Nat /\ Len(item) \in Nat /\ size <= Len(item)
    BY DEF EventsInv, EventTypes, ItemsInv, VectorInv, StorageInv, StorageTypes
  <2>5. h.item \in 1..Len(places) /\ h.item \in 1..Len(item)
    BY <2>3, <2>4
  <2>6. places[h.item] = PlaceOf(h.item - 1)
    BY <2>5 DEF EventsInv, VectorInv, StorageInv
  <2>7. item[h.item].rank <= kept[item[h.item].kind]
    BY <2>5 DEF EventsInv, ItemsInv
  <2> QED BY <2>3, <2>6, <2>7 DEF h
<1> QED BY <1>1, <1>2 DEF EventNamesItem

LEMMA NothingMissed == EventsInv => ObserversMissNothing
<1> SUFFICES ASSUME EventsInv PROVE ObserversMissNothing
  OBVIOUS
<1>1. ASSUME call.at = "idle", NEW l \in Levels PROVE told[l] = Len(item)
  <2>1. ~ Behind(l)
    BY <1>1 DEF Behind
  <2> QED BY <2>1 DEF EventsInv, ItemsInv
<1>2. ASSUME NEW o \in Observers, observer[o].pc = "added"
      PROVE  LET l == observer[o].level
                 v == observer[o]
                 n == told[l] - v.since
                        - (IF Unlocked(l) \/ v.id \notin DOMAIN call.left THEN 0 ELSE 1)
             IN  Len(v.heard) = n /\ \A k \in 1..n : v.heard[k].item = v.since + k
  <2>1. HeardSince(o)
    BY <1>2 DEF EventsInv, HeardInv
  <2>2. /\ observer[o].since \in Nat /\ Len(observer[o].heard) \in Nat
        /\ told[observer[o].level] \in Nat
    BY DEF EventsInv, EventTypes, ObserverStates
  <2> DEFINE n == told[observer[o].level] - observer[o].since
                    - (IF Unlocked(observer[o].level) \/ observer[o].id \notin DOMAIN call.left
                       THEN 0 ELSE 1)
  <2>3. Len(observer[o].heard) = n
    BY <2>1, <2>2 DEF HeardSince, Awaited
  <2> QED BY <2>1, <2>3 DEF HeardSince
<1> QED BY <1>1, <1>2 DEF ObserversMissNothing

(* A visitor is called with the published items alone, from the first on   *)
(* and in order, and with all that were published when its visit began.    *)
THEOREM VisitsHold == Spec => []VisitsAreExact
<1>1. EventsInv => VisitsAreExact
  BY VisitsFollow DEF EventsInv
<1> QED BY <1>1, EventsHold, PTL

(* The index an event carries names the item the event is about.           *)
THEOREM EventsNameItems == Spec => []EventNamesItem
  BY EventsHold, NamesFollow, PTL

(* An observer is called with every event from its insertion on, in order. *)
THEOREM NothingIsMissed == Spec => []ObserversMissNothing
  BY EventsHold, NothingMissed, PTL

(* A message is logged once, however its builder was moved, unless another *)
(* builder was assigned to it (ExecutionReport.cpp:76-98).                 *)
THEOREM LoggedOnce == Spec => []MessagesLoggedOnce
<1>1. EventsInv => MessagesLoggedOnce
  BY DEF EventsInv
<1> QED BY <1>1, EventsHold, PTL

(* A removed observer is called by no step.                                *)
LEMMA CallsAreOfAdded ==
  EventsInv /\ [Next]_vars =>
    \A o \in Observers : observer[o].pc = "removed" => observer'[o].heard = observer[o].heard
<1> SUFFICES ASSUME EventsInv, [Next]_vars, NEW o \in Observers, observer[o].pc = "removed"
             PROVE  observer'[o].heard = observer[o].heard
  OBVIOUS
<1>1. observer \in [Observers -> ObserverStates]
  BY DEF EventsInv, EventTypes
<1>2. CASE CallObserver
  <2>0. PICK id, p : id = Min(DOMAIN call.left) /\ p = call.left[id]
    OBVIOUS
  <2>1. \A i \in DOMAIN call.left : i \in Nat
    BY <1>2 DEF CallObserver, EventsInv, ObserversInv, EventTypes
  <2>2. DOMAIN call.left \in SUBSET Nat /\ DOMAIN call.left # {}
    BY <1>2, <2>1 DEF CallObserver
  <2>3. id \in DOMAIN call.left
    BY <2>0, <2>2, MinIsElement
  <2>4. call.level \in Levels /\ call.at = "calling"
    BY <1>2 DEF CallObserver, EventsInv, EventTypes
  <2>5. p # o
    BY <2>0, <2>3, <2>4 DEF EventsInv, ObserversInv, RegisteredAs
  <2>6. observer' = [observer EXCEPT ![p].heard =
                       Append(@, [item |-> Len(item), place |-> Found(EventIndex)])]
    BY <1>2, <2>0 DEF CallObserver
  <2> QED BY <1>1, <2>5, <2>6
<1>3. ASSUME NEW p \in Observers, NEW l \in Levels, TakeId(p, l)
      PROVE  observer'[o].heard = observer[o].heard
  <2>1. p # o
    BY <1>3 DEF TakeId
  <2> QED BY <1>1, <1>3, <2>1 DEF TakeId
<1>4. ASSUME NEW p \in Observers, Insert(p) PROVE observer'[o].heard = observer[o].heard
  <2>1. p # o
    BY <1>4 DEF Insert
  <2> QED BY <1>1, <1>4, <2>1 DEF Insert
<1>5. ASSUME NEW p \in Observers, Remove(p) PROVE observer'[o].heard = observer[o].heard
  <2>1. p # o
    BY <1>5 DEF Remove
  <2> QED BY <1>1, <1>5, <2>1 DEF Remove
<1>6. CASE UNCHANGED observer
  BY <1>6
<1>7. CASE Log \/ AddSubReport \/ AppendItem \/ AppendEnds \/ EnterLevel \/ LeaveLevel \/ ReadItems
  BY <1>6, <1>7 DEF Log, AddSubReport, AddItem, AppendItem, AppendEnds, EnterLevel, LeaveLevel, ReadItems
<1>8. ASSUME NEW b \in Builders, NewBuilder(b) \/ DestroyBuilder(b) \/ \E c \in Builders : MoveBuilder(b, c)
      PROVE  observer'[o].heard = observer[o].heard
  BY <1>6, <1>8 DEF NewBuilder, DestroyBuilder, MoveBuilder, AddItem
<1> QED BY <1>2, <1>3, <1>4, <1>5, <1>6, <1>7, <1>8 DEF Next, vars

(* Once removed an observer is never called again.                         *)
THEOREM RemovedStaySilent == Spec => RemovedIsSilent
  BY EventsHold, CallsAreOfAdded, PTL DEF Spec, RemovedIsSilent
===============================================================================
