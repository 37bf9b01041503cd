------------------------------- MODULE Atomic -------------------------------
(***************************************************************************)
(* ez::Atomic<T, Mutex>: an object and a mutex that every access takes,    *)
(* shared to read and unique to write.  A copy assignment takes two        *)
(* mutexes, in the order of the objects' addresses; an object is therefore *)
(* a number here, its address.                                             *)
(*                                                                         *)
(* The value of T is not written in one instant: an access loads the value *)
(* it works on and stores its outcome in a later step.                     *)
(*                                                                         *)
(* A definition without a comment that precedes another one is a variant   *)
(* of it with a plausible mistake; the README's table of mutants says      *)
(* which property finds it.                                                *)
(***************************************************************************)
EXTENDS Naturals

CONSTANTS
  Objects,      (* the atomics, by address                                 *)
  Threads,
  Values,       (* the values they hold                                    *)
  Edited,       (* what the functor given to edit makes of a value         *)
  MovedFrom,    (* the value of a default-constructed or moved-from T      *)
  Shareable,    (* TRUE for std::shared_mutex, FALSE for std::mutex, whose *)
                (* LockHelper locks for readers as it does for writers     *)
  Kinds,        (* the operations the threads use                          *)
  OwnedMoves,   (* do callers move only from an atomic that no operation   *)
                (* of another thread uses meanwhile?                       *)
  MaxOps        (* bound: operations each thread performs                  *)

ASSUME AtomicAssumption ==
  /\ Objects \subseteq Nat /\ Objects # {}
  /\ MovedFrom \in Values
  /\ Edited \in [Values -> Values]
  /\ Shareable \in BOOLEAN
  /\ Kinds \subseteq {"read", "edit", "copy", "moveAssign", "moveCtor"} /\ Kinds # {}
  /\ OwnedMoves \in BOOLEAN
  /\ MaxOps \in Nat

(* There are finitely many objects, so some address is the highest.        *)
ASSUME FiniteObjects ==
  \A S \in SUBSET Objects : S # {} => \E h \in S : \A o \in S : o <= h

VARIABLES
  data,         (* m_data of each object                                   *)
  held,         (* the locks each thread holds, <<object, mode>>           *)
  pc,           (* where each thread is                                    *)
  op,           (* the operation it performs: kind, this, rhs              *)
  local,        (* the value it has loaded                                 *)
  seen,         (* what its last read returned                             *)
  count         (* how many operations it has begun                        *)

vars == <<data, held, pc, op, local, seen, count>>

Ops == [kind : Kinds, this : Objects, rhs : Objects]
Locks == Objects \X {"shared", "unique"}

TypeOK ==
  /\ data \in [Objects -> Values]
  /\ held \in [Threads -> SUBSET Locks]
  /\ pc \in [Threads -> {"idle", "locking", "loaded", "unlocking"}]
  /\ op \in [Threads -> Ops]
  /\ local \in [Threads -> Values]
  /\ seen \in [Threads -> Values]
  /\ count \in [Threads -> 0..MaxOps]

Init ==
  /\ data = [o \in Objects |-> MovedFrom]
  /\ held = [t \in Threads |-> {}]
  /\ pc = [t \in Threads |-> "idle"]
  /\ op = [t \in Threads |-> CHOOSE p \in Ops : TRUE]
  /\ local = [t \in Threads |-> MovedFrom]
  /\ seen = [t \in Threads |-> MovedFrom]
  /\ count = [t \in Threads |-> 0]

-----------------------------------------------------------------------------
NeededThisOnly(p) == {<<p.this, IF p.kind = "read" THEN "shared" ELSE "unique">>}

(* The locks operation p takes.  A read locks shared, and so does the copy *)
(* constructor, which is a read of its argument.  A self-assignment does   *)
(* nothing; moves never lock what they move from.                          *)
Needed(p) ==
  IF p.kind = "read" THEN {<<p.this, "shared">>}
  ELSE IF p.kind = "moveCtor" \/ (p.kind = "copy" /\ p.this = p.rhs) THEN {}
  ELSE IF p.kind = "copy" THEN {<<p.this, "unique">>, <<p.rhs, "shared">>}
  ELSE {<<p.this, "unique">>}

CompatibleReaders(l, m) == l[1] # m[1] \/ l[2] = "shared" \/ m[2] = "shared"

(* Two threads may hold l and m at once.                                   *)
Compatible(l, m) ==
  l[1] # m[1] \/ (Shareable = TRUE /\ l[2] = "shared" /\ m[2] = "shared")

Free(t, l) == \A u \in Threads \ {t} : \A m \in held[u] : Compatible(l, m)

NextLockThisFirst(t, l) ==
  l \in Needed(op[t]) \ held[t] /\ (held[t] = {} => l[1] = op[t].this)

(* l is the lock t takes next: of those still missing the one of the       *)
(* lowest address.                                                         *)
NextLock(t, l) ==
  /\ l \in Needed(op[t]) \ held[t]
  /\ \A m \in Needed(op[t]) \ held[t] : l[1] <= m[1]

(* The object whose value t works on.                                      *)
Source(p) == IF p.kind \in {"copy", "moveAssign"} THEN p.rhs ELSE p.this

Uses(p) == IF p.kind \in {"copy", "moveAssign"} THEN {p.this, p.rhs} ELSE {p.this}

MovesFrom(p) ==
  IF p.kind = "moveAssign" THEN {p.rhs} ELSE IF p.kind = "moveCtor" THEN {p.this} ELSE {}

(* Neither operation uses what the other one moves from.                   *)
Apart(p, q) ==
  /\ Uses(p) \intersect MovesFrom(q) = {}
  /\ MovesFrom(p) \intersect Uses(q) = {}

-----------------------------------------------------------------------------
Begin(t, p) ==
  /\ pc[t] = "idle"
  /\ OwnedMoves = TRUE => \A u \in Threads : pc[u] # "idle" => Apart(p, op[u])
  /\ count[t] < MaxOps
  /\ pc' = [pc EXCEPT ![t] = "locking"]
  /\ op' = [op EXCEPT ![t] = p]
  /\ count' = [count EXCEPT ![t] = @ + 1]
  /\ UNCHANGED <<data, held, local, seen>>

(* The constructor of a LockGuard.                                         *)
Lock(t, l) ==
  /\ pc[t] = "locking"
  /\ NextLock(t, l)
  /\ Free(t, l)
  /\ held' = [held EXCEPT ![t] = @ \union {l}]
  /\ UNCHANGED <<data, pc, op, local, seen, count>>

(* With its locks the access begins: it loads the value it works on.  A    *)
(* self-assignment returns at once.                                        *)
Load(t) ==
  /\ pc[t] = "locking"
  /\ Needed(op[t]) \subseteq held[t]
  /\ local' = [local EXCEPT ![t] = data[Source(op[t])]]
  /\ pc' = [pc EXCEPT ![t] = IF op[t].kind = "copy" /\ op[t].this = op[t].rhs
                             THEN "unlocking" ELSE "loaded"]
  /\ UNCHANGED <<data, held, op, seen, count>>

(* The access ends: m_data = rhs.m_data, or what the functor leaves.  A    *)
(* move also empties its source.                                           *)
Store(t) ==
  /\ pc[t] = "loaded"
  /\ pc' = [pc EXCEPT ![t] = "unlocking"]
  /\ LET p == op[t] IN
     \/ /\ p.kind = "read"
        /\ seen' = [seen EXCEPT ![t] = local[t]]
        /\ UNCHANGED data
     \/ /\ p.kind = "edit"
        /\ data' = [data EXCEPT ![p.this] = Edited[local[t]]]
        /\ UNCHANGED seen
     \/ /\ p.kind = "copy"
        /\ data' = [data EXCEPT ![p.this] = local[t]]
        /\ UNCHANGED seen
     \/ /\ p.kind = "moveAssign"
        /\ data' = [data EXCEPT ![p.rhs] = MovedFrom, ![p.this] = local[t]]
        /\ UNCHANGED seen
     \/ /\ p.kind = "moveCtor"
        /\ data' = [data EXCEPT ![p.this] = MovedFrom]
        /\ seen' = [seen EXCEPT ![t] = local[t]]
  /\ UNCHANGED <<held, op, local, count>>

(* The destructor of a LockGuard: the last lock taken is released first.   *)
Unlock(t, l) ==
  /\ pc[t] = "unlocking"
  /\ l \in held[t]
  /\ \A m \in held[t] : m[1] <= l[1]
  /\ held' = [held EXCEPT ![t] = @ \ {l}]
  /\ UNCHANGED <<data, pc, op, local, seen, count>>

End(t) ==
  /\ pc[t] = "unlocking"
  /\ held[t] = {}
  /\ pc' = [pc EXCEPT ![t] = "idle"]
  /\ UNCHANGED <<data, held, op, local, seen, count>>

ThreadNext(t) ==
  \/ \E p \in Ops : Begin(t, p)
  \/ \E l \in Locks : Lock(t, l)
  \/ Load(t)
  \/ Store(t)
  \/ \E l \in Locks : Unlock(t, l)
  \/ End(t)

Next == \E t \in Threads : ThreadNext(t)

Spec == Init /\ [][Next]_vars

(* A thread goes on with the operation it has begun.                       *)
Fairness == \A t \in Threads : WF_vars(pc[t] # "idle" /\ ThreadNext(t))

FairSpec == Spec /\ Fairness

-----------------------------------------------------------------------------
Active(t) == pc[t] # "idle"

(* t waits for a mutex another thread holds.                               *)
Blocked(t) == pc[t] = "locking" /\ \E l \in Locks : NextLock(t, l) /\ ~Free(t, l)

(* Threads never wait for each other in a circle: while an operation is    *)
(* under way some thread can go on (Atomic.hpp:153-164, the two branches   *)
(* on the order of the addresses).                                         *)
NoDeadlock ==
  (\E t \in Threads : Active(t)) => \E t \in Threads : Active(t) /\ ~Blocked(t)

(* Every operation begun returns, whatever the others do                   *)
(* (Atomic.hpp:150-196).                                                   *)
OperationsReturn == \A t \in Threads : Active(t) ~> ~Active(t)

Reads(t) == IF pc[t] = "loaded" THEN Uses(op[t]) ELSE {}
Writes(t) ==
  IF pc[t] # "loaded" \/ op[t].kind = "read" THEN {}
  ELSE {op[t].this} \union MovesFrom(op[t])

(* No thread works on an object while another one changes it ("protect the *)
(* access to an object in read/write mode across multiple threads",        *)
(* Atomic.hpp:26-27).                                                      *)
AccessIsProtected ==
  \A t, u \in Threads : t # u => Reads(t) \intersect Writes(u) = {}

(* The inductive invariant: locks held are locks of the operation, taken   *)
(* from the lowest address up and released from the highest down; holders  *)
(* are compatible; and what a thread loaded is still in its source.        *)
LockInv ==
  \A t \in Threads :
    /\ held[t] \subseteq Needed(op[t])
    /\ pc[t] = "idle" => held[t] = {}
    /\ pc[t] = "loaded" => held[t] = Needed(op[t]) /\ ~(op[t].kind = "copy" /\ op[t].this = op[t].rhs)
    /\ \A l \in held[t], m \in Needed(op[t]) \ held[t] : l[1] < m[1]
    /\ \A l \in held[t] : Free(t, l)

(* Operations under way respect the callers' contract about moves.         *)
MoveInv ==
  OwnedMoves = TRUE =>
    \A t, u \in Threads : t # u /\ Active(t) /\ Active(u) => Apart(op[t], op[u])

ValueInv == \A t \in Threads : pc[t] = "loaded" => local[t] = data[Source(op[t])]

Abstract == INSTANCE AtomicSpec

(* When moves are owned each operation takes effect at once, as its access *)
(* ends (Atomic.hpp:124-209).                                              *)
ImplementsAtomicSpec == Abstract!Spec
=============================================================================
