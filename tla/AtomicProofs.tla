---------------------------- MODULE AtomicProofs ----------------------------
(***************************************************************************)
(* Theorems about ez::Atomic, for every number of objects, threads and     *)
(* operations and both kinds of mutex.                                     *)
(***************************************************************************)
EXTENDS Atomic, TLAPS

(* Locks are pairs of an address and a mode.                               *)
LEMMA LockType ==
  ASSUME NEW p \in Ops
  PROVE  Needed(p) \subseteq Locks /\ \A l \in Locks : l[1] \in Nat
<1>1. p.this \in Objects /\ p.rhs \in Objects
  BY DEF Ops
<1>2. \A o \in Objects : <<o, "shared">> \in Locks /\ <<o, "unique">> \in Locks
  BY DEF Locks
<1>3. Needed(p) \subseteq Locks
  BY <1>1, <1>2 DEF Needed
<1>4. \A l \in Locks : l[1] \in Nat
  BY AtomicAssumption DEF Locks
<1> QED BY <1>3, <1>4

(* An operation never takes two locks of one object.                       *)
LEMMA LocksOfDistinctObjects ==
  ASSUME NEW p \in Ops, NEW l \in Needed(p), NEW m \in Needed(p), l[1] = m[1]
  PROVE  l = m
BY DEF Needed, Ops

LEMMA CompatibleIsSymmetric ==
  ASSUME NEW l \in Locks, NEW m \in Locks, Compatible(l, m)
  PROVE  Compatible(m, l)
BY DEF Compatible

-----------------------------------------------------------------------------
LEMMA InitTyped == Init => TypeOK
<1> SUFFICES ASSUME Init PROVE TypeOK
  OBVIOUS
<1>1. (CHOOSE p \in Ops : TRUE) \in Ops
  <2>1. PICK k \in Kinds, o \in Objects : TRUE
    BY AtomicAssumption
  <2>2. [kind |-> k, this |-> o, rhs |-> o] \in Ops
    BY DEF Ops
  <2> QED BY <2>2
<1> QED BY <1>1, AtomicAssumption DEF Init, TypeOK

LEMMA NextTyped == TypeOK /\ [Next]_vars => TypeOK'
<1> SUFFICES ASSUME TypeOK, [Next]_vars PROVE TypeOK'
  OBVIOUS
<1>1. CASE UNCHANGED vars
  BY <1>1 DEF TypeOK, vars
<1>2. ASSUME NEW t \in Threads, NEW p \in Ops, Begin(t, p) PROVE TypeOK'
  BY <1>2, AtomicAssumption DEF TypeOK, Begin
<1>3. ASSUME NEW t \in Threads, NEW l \in Locks, Lock(t, l) PROVE TypeOK'
  BY <1>3 DEF TypeOK, Lock
<1>4. ASSUME NEW t \in Threads, Load(t) PROVE TypeOK'
  <2>1. Source(op[t]) \in Objects
    BY DEF TypeOK, Source, Ops
  <2> QED BY <1>4, <2>1 DEF TypeOK, Load
<1>5. ASSUME NEW t \in Threads, Store(t) PROVE TypeOK'
  <2>1. op[t].this \in Objects /\ op[t].rhs \in Objects /\ local[t] \in Values
    BY DEF TypeOK, Ops
  <2>2. Edited[local[t]] \in Values /\ MovedFrom \in Values
    BY <2>1, AtomicAssumption
  <2>3. data' \in [Objects -> Values] /\ seen' \in [Threads -> Values]
    BY <1>5, <2>1, <2>2 DEF TypeOK, Store
  <2> QED BY <1>5, <2>3 DEF TypeOK, Store
<1>6. ASSUME NEW t \in Threads, NEW l \in Locks, Unlock(t, l) PROVE TypeOK'
  BY <1>6 DEF TypeOK, Unlock
<1>7. ASSUME NEW t \in Threads, End(t) PROVE TypeOK'
  BY <1>7 DEF TypeOK, End
<1> QED BY <1>1, <1>2, <1>3, <1>4, <1>5, <1>6, <1>7 DEF Next, ThreadNext

(* The variables of an Atomic and of its users keep their types            *)
(* (Atomic.hpp:39-41).                                                     *)
THEOREM TypesHold == Spec => []TypeOK
BY InitTyped, NextTyped, PTL DEF Spec

-----------------------------------------------------------------------------
LEMMA InitLocks == Init => LockInv
BY DEF Init, LockInv

LEMMA NextLocks == TypeOK /\ LockInv /\ [Next]_vars => LockInv'
<1> SUFFICES ASSUME TypeOK, LockInv, [Next]_vars PROVE LockInv'
  OBVIOUS
<1>1. CASE UNCHANGED vars
  BY <1>1 DEF LockInv, vars, Free
<1>2. ASSUME NEW t \in Threads, NEW p \in Ops, Begin(t, p) PROVE LockInv'
  <2>1. held[t] = {}
    BY <1>2 DEF Begin, LockInv
  <2> QED BY <1>2, <2>1 DEF Begin, LockInv, TypeOK, Free
<1>3. ASSUME NEW t \in Threads, NEW l \in Locks, Lock(t, l) PROVE LockInv'
  <2>1. op' = op /\ pc' = pc /\ pc[t] = "locking" /\ l \in Needed(op[t])
    BY <1>3 DEF Lock, NextLock
  <2>2. \A u \in Threads : held'[u] = IF u = t THEN held[t] \union {l} ELSE held[u]
    BY <1>3 DEF Lock, TypeOK
  <2>3. \A u \in Threads : \A k \in held'[u] : Free(u, k)'
    <3> SUFFICES ASSUME NEW u \in Threads, NEW k \in held'[u],
                        NEW v \in Threads \ {u}, NEW m \in held'[v]
                 PROVE  Compatible(k, m)
      BY DEF Free
    <3>1. k \in Locks /\ m \in Locks
      BY <2>2 DEF TypeOK
    <3>2. CASE k \in held[u] /\ m \in held[v]
      BY <3>2 DEF LockInv, Free
    <3>3. CASE u = t /\ k = l /\ m \in held[v]
      BY <3>3, <1>3 DEF Lock, Free
    <3>4. CASE v = t /\ m = l /\ k \in held[u]
      <4>1. Compatible(l, k)
        BY <3>4, <1>3 DEF Lock, Free
      <4> QED BY <4>1, <3>1, <3>4, CompatibleIsSymmetric
    <3> QED BY <2>2, <3>2, <3>3, <3>4
  <2>4. \A k \in held'[t], m \in Needed(op[t]) \ held'[t] : k[1] < m[1]
    <3> SUFFICES ASSUME NEW k \in held'[t], NEW m \in Needed(op[t]) \ held'[t]
                 PROVE  k[1] < m[1]
      OBVIOUS
    <3>1. m \in Needed(op[t]) \ held[t] /\ m # l
      BY <2>2
    <3>2. CASE k \in held[t]
      BY <3>1, <3>2 DEF LockInv
    <3>3. CASE k = l
      <4>1. l[1] <= m[1]
        BY <1>3, <3>1 DEF Lock, NextLock
      <4>2. l[1] # m[1]
        BY <2>1, <3>1, LocksOfDistinctObjects DEF TypeOK
      <4>3. l[1] \in Nat /\ m[1] \in Nat
        BY <3>1, LockType DEF TypeOK
      <4> QED BY <3>3, <4>1, <4>2, <4>3
    <3> QED BY <2>2, <3>2, <3>3
  <2> QED BY <2>1, <2>2, <2>3, <2>4 DEF LockInv
<1>4. ASSUME NEW t \in Threads, Load(t) PROVE LockInv'
  BY <1>4 DEF Load, LockInv, TypeOK, Free
<1>5. ASSUME NEW t \in Threads, Store(t) PROVE LockInv'
  <2>1. held' = held /\ op' = op /\ pc' = [pc EXCEPT ![t] = "unlocking"]
    BY <1>5 DEF Store
  <2> QED BY <2>1 DEF LockInv, TypeOK, Free
<1>6. ASSUME NEW t \in Threads, NEW l \in Locks, Unlock(t, l) PROVE LockInv'
  <2>1. op' = op /\ pc' = pc /\ pc[t] = "unlocking" /\ l \in held[t]
    BY <1>6 DEF Unlock
  <2>2. \A u \in Threads : held'[u] = IF u = t THEN held[t] \ {l} ELSE held[u]
    BY <1>6 DEF Unlock, TypeOK
  <2>3. \A u \in Threads : \A k \in held'[u] : Free(u, k)'
    BY <2>2 DEF LockInv, Free
  <2>4. \A k \in held'[t], m \in Needed(op[t]) \ held'[t] : k[1] < m[1]
    <3> SUFFICES ASSUME NEW k \in held'[t], NEW m \in Needed(op[t]) \ held'[t]
                 PROVE  k[1] < m[1]
      OBVIOUS
    <3>1. k \in held[t] /\ k # l
      BY <2>2
    <3>2. CASE m \notin held[t]
      BY <3>1, <3>2 DEF LockInv
    <3>3. CASE m = l
      <4>1. k[1] <= l[1]
        BY <1>6, <3>1 DEF Unlock
      <4>2. k[1] # l[1]
        BY <2>1, <3>1, LocksOfDistinctObjects DEF TypeOK, LockInv
      <4>3. l[1] \in Nat /\ k[1] \in Nat
        BY <3>1, LockType DEF TypeOK
      <4> QED BY <3>3, <4>1, <4>2, <4>3
    <3> QED BY <2>2, <3>2, <3>3
  <2> QED BY <2>1, <2>2, <2>3, <2>4 DEF LockInv
<1>7. ASSUME NEW t \in Threads, End(t) PROVE LockInv'
  BY <1>7 DEF End, LockInv, TypeOK, Free
<1> QED BY <1>1, <1>2, <1>3, <1>4, <1>5, <1>6, <1>7 DEF Next, ThreadNext

(* Holders of a mutex are compatible, and every thread takes its locks     *)
(* from the lowest address up (Atomic.hpp:150-186).                        *)
THEOREM LockingIsSafe == Spec => []LockInv
BY InitTyped, NextTyped, InitLocks, NextLocks, PTL DEF Spec

-----------------------------------------------------------------------------
(* A thread that waits for the mutex of the highest address any thread     *)
(* waits for waits for a thread that does not wait itself: that one holds  *)
(* the mutex, so the next one it needs has a higher address.               *)
LEMMA LocksPreventDeadlock == TypeOK /\ LockInv => NoDeadlock
<1> SUFFICES ASSUME TypeOK, LockInv,
                    NEW t0 \in Threads, Active(t0),
                    \A t \in Threads : Active(t) => Blocked(t)
             PROVE  FALSE
  BY DEF NoDeadlock
<1> DEFINE Waits(t, o) == \E l \in Locks : l[1] = o /\ NextLock(t, l) /\ ~Free(t, l)
           Awaited == {o \in Objects : \E t \in Threads : Active(t) /\ Waits(t, o)}
<1>1. \A t \in Threads : Active(t) => \E o \in Objects : Waits(t, o)
  BY DEF Blocked, Locks
<1>2. Awaited # {}
  BY <1>1
<1>3. PICK h \in Awaited : \A o \in Awaited : o <= h
  BY <1>2, FiniteObjects
<1>4. PICK t \in Threads : Active(t) /\ Waits(t, h)
  BY <1>3
<1>5. PICK l \in Locks : l[1] = h /\ NextLock(t, l) /\ ~Free(t, l)
  BY <1>4
<1>6. PICK u \in Threads \ {t} : \E k \in held[u] : ~Compatible(l, k)
  BY <1>5 DEF Free
<1>7. PICK m \in held[u] : ~Compatible(l, m)
  BY <1>6
<1>8. m[1] = h
  BY <1>5, <1>7 DEF Compatible
<1>9. Active(u)
  BY <1>7 DEF LockInv, Active
<1>10. PICK o \in Objects : Waits(u, o)
  BY <1>1, <1>7, <1>9
<1>11. h < o
  <2>1. PICK k \in Locks : k[1] = o /\ NextLock(u, k)
    BY <1>10
  <2>2. k \in Needed(op[u]) \ held[u]
    BY <2>1 DEF NextLock
  <2> QED BY <1>7, <1>8, <2>1, <2>2 DEF LockInv
<1>12. o \in Awaited /\ h \in Nat /\ o \in Nat
  BY <1>3, <1>7, <1>9, <1>10, AtomicAssumption
<1> QED BY <1>3, <1>11, <1>12

(* Operations never wait for each other in a circle (Atomic.hpp:153-164).  *)
THEOREM DeadlockFree == Spec => []NoDeadlock
<1>1. Spec => [](TypeOK /\ LockInv)
  BY TypesHold, LockingIsSafe, PTL
<1> QED BY <1>1, LocksPreventDeadlock, PTL

-----------------------------------------------------------------------------
(* Operations under way stay apart on what they move from.                 *)
LEMMA NextMoves == TypeOK /\ MoveInv /\ [Next]_vars => MoveInv'
<1> SUFFICES ASSUME TypeOK, MoveInv, [Next]_vars, OwnedMoves = TRUE,
                    NEW t \in Threads, NEW u \in Threads, t # u,
                    Active(t)', Active(u)'
             PROVE  Apart(op'[t], op'[u])
  BY DEF MoveInv, Apart
<1>1. CASE UNCHANGED <<op, pc>>
  BY <1>1 DEF MoveInv, Active
<1>2. ASSUME NEW v \in Threads, NEW p \in Ops, Begin(v, p) PROVE Apart(op'[t], op'[u])
  <2>1. \A w \in Threads : Active(w) => Apart(p, op[w]) /\ Apart(op[w], p)
    BY <1>2 DEF Begin, Apart, Active
  <2>2. \A w \in Threads : w # v => op'[w] = op[w] /\ (Active(w)' => Active(w))
    BY <1>2 DEF Begin, TypeOK, Active
  <2>3. op'[v] = p
    BY <1>2 DEF Begin, TypeOK
  <2> QED BY <2>1, <2>2, <2>3 DEF MoveInv
<1>3. ASSUME NEW v \in Threads, op' = op, \A w \in Threads : Active(w)' => Active(w)
      PROVE  Apart(op'[t], op'[u])
  BY <1>3 DEF MoveInv
<1>4. ASSUME NEW v \in Threads, Load(v) PROVE Apart(op'[t], op'[u])
  BY <1>3, <1>4 DEF Load, TypeOK, Active
<1>5. ASSUME NEW v \in Threads, Store(v) PROVE Apart(op'[t], op'[u])
  <2>1. op' = op /\ pc[v] = "loaded" /\ pc' = [pc EXCEPT ![v] = "unlocking"]
    BY <1>5 DEF Store
  <2> QED BY <1>3, <2>1 DEF TypeOK, Active
<1>6. ASSUME NEW v \in Threads, End(v) PROVE Apart(op'[t], op'[u])
  BY <1>3, <1>6 DEF End, TypeOK, Active
<1> QED BY <1>1, <1>2, <1>4, <1>5, <1>6 DEF Next, ThreadNext, Lock, Unlock, vars

LEMMA InitMoves == Init => MoveInv
BY DEF Init, MoveInv, Active

(* Two accesses under way to one object only read it: the writer's unique  *)
(* lock excludes the other's lock, and a move from it the other's use.     *)
LEMMA LocksProtect ==
  ASSUME OwnedMoves = TRUE, TypeOK, LockInv, MoveInv
  PROVE  AccessIsProtected
<1> SUFFICES ASSUME NEW t \in Threads, NEW u \in Threads, t # u,
                    pc[t] = "loaded", pc[u] = "loaded", op[u].kind # "read",
                    NEW o \in Uses(op[t]), o \in {op[u].this} \union MovesFrom(op[u])
             PROVE  FALSE
  BY DEF AccessIsProtected, Reads, Writes
<1>1. Apart(op[t], op[u])
  BY DEF MoveInv, Active
<1>2. o = op[u].this /\ o \notin MovesFrom(op[u]) /\ o \notin MovesFrom(op[t])
  BY <1>1 DEF Apart, Uses
<1>3. held[t] = Needed(op[t]) /\ held[u] = Needed(op[u])
  BY DEF LockInv
<1>4. op[t] \in Ops /\ op[u] \in Ops
  BY DEF TypeOK
<1>5. op[u].kind \in {"edit", "copy", "moveAssign"}
  BY <1>2, <1>4, AtomicAssumption DEF MovesFrom, Ops
<1>6. ~(op[u].kind = "copy" /\ op[u].this = op[u].rhs)
  BY DEF LockInv
<1>7. <<o, "unique">> \in held[u]
  BY <1>2, <1>3, <1>5, <1>6 DEF Needed
<1>8. op[t].kind \in {"read", "edit", "copy", "moveAssign", "moveCtor"}
  BY <1>4, AtomicAssumption DEF Ops
<1>9. ~(op[t].kind = "copy" /\ op[t].this = op[t].rhs)
  BY DEF LockInv
<1>10. <<o, "unique">> \in held[t] \/ <<o, "shared">> \in held[t]
  BY <1>2, <1>3, <1>8, <1>9 DEF Needed, Uses, MovesFrom
<1>11. \A k \in held[t] : Compatible(k, <<o, "unique">>)
  BY <1>7 DEF LockInv, Free
<1> QED BY <1>10, <1>11 DEF Compatible

(* What an access has loaded is still there when it ends.                  *)
LEMMA NextValues ==
  ASSUME OwnedMoves = TRUE, TypeOK, AccessIsProtected, ValueInv, [Next]_vars
  PROVE  ValueInv'
<1> SUFFICES ASSUME NEW u \in Threads, pc'[u] = "loaded"
             PROVE  local'[u] = data'[Source(op'[u])]
  BY DEF ValueInv, Source
<1>1. CASE UNCHANGED <<data, op, local, pc>>
  BY <1>1 DEF ValueInv, Source
<1>2. ASSUME NEW t \in Threads, NEW p \in Ops, Begin(t, p)
      PROVE  local'[u] = data'[Source(op'[u])]
  <2>1. u # t /\ op'[u] = op[u] /\ pc[u] = "loaded"
    BY <1>2 DEF Begin, TypeOK
  <2> QED BY <1>2, <2>1 DEF Begin, ValueInv
<1>3. ASSUME NEW t \in Threads, Load(t) PROVE local'[u] = data'[Source(op'[u])]
  BY <1>3 DEF Load, TypeOK, ValueInv
<1>4. ASSUME NEW t \in Threads, Store(t) PROVE local'[u] = data'[Source(op'[u])]
  <2>1. pc' = [pc EXCEPT ![t] = "unlocking"] /\ op' = op /\ local' = local /\ pc[t] = "loaded"
    BY <1>4 DEF Store
  <2>2. u # t /\ pc[u] = "loaded"
    BY <2>1 DEF TypeOK
  <2>3. Source(op[u]) \in Reads(u) /\ Source(op[u]) \in Objects
    BY <2>2 DEF Reads, Uses, Source, TypeOK, Ops
  <2>4. Source(op[u]) \notin Writes(t)
    BY <2>2, <2>3 DEF AccessIsProtected
  <2>5. data'[Source(op[u])] = data[Source(op[u])]
    BY <1>4, <2>1, <2>3, <2>4 DEF Store, Writes, MovesFrom, TypeOK
  <2> QED BY <2>1, <2>2, <2>5 DEF ValueInv
<1>5. ASSUME NEW t \in Threads, End(t) PROVE local'[u] = data'[Source(op'[u])]
  BY <1>5 DEF End, TypeOK, ValueInv
<1> QED BY <1>1, <1>2, <1>3, <1>4, <1>5 DEF Next, ThreadNext, Lock, Unlock, vars

LEMMA InitValues == Init => ValueInv
BY DEF Init, ValueInv

(* Where moves are owned no thread works on an object another one changes  *)
(* (Atomic.hpp:26-27).                                                     *)
THEOREM AccessesAreProtected ==
  ASSUME OwnedMoves = TRUE
  PROVE  Spec => []AccessIsProtected
<1>1. Spec => []MoveInv
  BY InitTyped, NextTyped, InitMoves, NextMoves, PTL DEF Spec
<1> QED BY <1>1, TypesHold, LockingIsSafe, LocksProtect, PTL

-----------------------------------------------------------------------------
LEMMA StepRefines ==
  ASSUME TypeOK, ValueInv, [Next]_vars
  PROVE  [Abstract!Next]_<<data, seen>>
<1>1. ASSUME NEW t \in Threads, Store(t) PROVE Abstract!Next
  <2> DEFINE p == op[t]
  <2>1. p.this \in Objects /\ p.rhs \in Objects
    BY DEF TypeOK, Ops
  <2>2. local[t] = data[Source(p)]
    BY <1>1 DEF Store, ValueInv
  <2>3. CASE p.kind = "read"
    <3>1. Abstract!Read(t, p.this)
      BY <1>1, <2>2, <2>3 DEF Store, Source, Abstract!Read
    <3> QED BY <2>1, <3>1 DEF Abstract!Next
  <2>4. CASE p.kind = "edit"
    <3>1. Abstract!Edit(p.this)
      BY <1>1, <2>2, <2>4 DEF Store, Source, Abstract!Edit
    <3> QED BY <2>1, <3>1 DEF Abstract!Next
  <2>5. CASE p.kind = "copy"
    <3>1. Abstract!Copy(p.this, p.rhs)
      BY <1>1, <2>2, <2>5 DEF Store, Source, Abstract!Copy
    <3> QED BY <2>1, <3>1 DEF Abstract!Next
  <2>6. CASE p.kind = "moveAssign"
    <3>1. Abstract!Move(p.this, p.rhs)
      BY <1>1, <2>2, <2>6 DEF Store, Source, Abstract!Move
    <3> QED BY <2>1, <3>1 DEF Abstract!Next
  <2>7. CASE p.kind = "moveCtor"
    <3>1. Abstract!Take(t, p.this)
      BY <1>1, <2>2, <2>7 DEF Store, Source, Abstract!Take
    <3> QED BY <2>1, <3>1 DEF Abstract!Next
  <2> QED BY <1>1, <2>3, <2>4, <2>5, <2>6, <2>7 DEF Store
<1>2. ASSUME UNCHANGED <<data, seen>> PROVE [Abstract!Next]_<<data, seen>>
  BY <1>2
<1> QED
  BY <1>1, <1>2 DEF Next, ThreadNext, Begin, Lock, Load, Unlock, End, vars

LEMMA InitRefines == Init => Abstract!Init
BY AtomicAssumption DEF Init, Abstract!Init

(* Where moves are owned every operation takes effect at one instant.      *)
THEOREM Implementation ==
  ASSUME OwnedMoves = TRUE
  PROVE  Spec => ImplementsAtomicSpec
<1>1. Spec => []ValueInv
  BY AccessesAreProtected, TypesHold, InitValues, NextValues, PTL DEF Spec
<1> QED
  BY <1>1, TypesHold, InitRefines, StepRefines, PTL
     DEF Spec, ImplementsAtomicSpec, Abstract!Spec
=============================================================================
