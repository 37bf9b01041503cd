---------------------------- MODULE FlowValuesProofs ----------------------------
(***************************************************************************)
(* Proofs about FlowValues, and so about FlowEntities, for every program   *)
(* that FlowValuesAssumption admits: all statements and workflows over     *)
(* expressions whose operations leave the values their statement takes,    *)
(* and any bounds.                                                         *)
(*                                                                         *)
(* An operation on values gets a heap of which all cells hold cells of the *)
(* heap (Well) and makes one that has the former's cells with their types, *)
(* and with their values where the language edits none (Keeps, Good). An   *)
(* expression's operations are run one after the other, so that what is    *)
(* true of each is true of all by induction on their number. A step of the *)
(* program then keeps the invariant: the heap is well and the scopes'      *)
(* names are cells of it (Ready), the default values are at their cells    *)
(* (Steady), no cell has two names but where a function binds its          *)
(* arguments or the value is a default (Apart), and each call has its two  *)
(* scopes (Called).                                                        *)
(*                                                                         *)
(* A reply is a tree of copies: for each place of the request's data, the  *)
(* path from the root, there is one new cell. Without a cycle, the places  *)
(* are finitely many and have a greatest depth, so that the copy looks     *)
(* like the data however deep one looks.                                   *)
(***************************************************************************)
EXTENDS FlowValues, FiniteSetTheorems, NaturalsInduction, TLAPS

-----------------------------------------------------------------------------
(* Least and greatest numbers, the cells that some cells hold, and how     *)
(* many steps reach them all.                                              *)

LEMMA LeastNat ==
  ASSUME NEW S \in SUBSET Nat, S # {}
  PROVE  \E n \in S : \A m \in Nat : m < n => m \notin S
<1> DEFINE R == OpToRel(<, Nat)
<1>1. IsWellFoundedOn(R, Nat)
  BY NatLessThanWellFounded
<1>2. \A x, y \in Nat : <<y, x>> \in R <=> y < x
  BY DEF OpToRel
<1> HIDE DEF R
<1>3. PICK n \in S : \A m \in S : <<m, n>> \notin R
  BY <1>1, WFMin
<1>4. ASSUME NEW m \in Nat, m < n PROVE m \notin S
  BY <1>2, <1>3, <1>4
<1> QED BY <1>4

LEMMA Upward ==
  ASSUME NEW n \in Nat, NEW S, 0 \in S, \A k \in 1..n : k - 1 \in S => k \in S
  PROVE  \A k \in 0..n : k \in S
<1> DEFINE R == OpToRel(<, Nat)
           T == {k \in 0..n : k \notin S}
<1>1. IsWellFoundedOn(R, Nat)
  BY NatLessThanWellFounded
<1>2. \A x, y \in Nat : <<y, x>> \in R <=> y < x
  BY DEF OpToRel
<1> HIDE DEF R
<1> SUFFICES ASSUME T # {} PROVE FALSE
  OBVIOUS
<1>3. T \in SUBSET Nat
  OBVIOUS
<1>4. PICK k \in T : \A m \in T : <<m, k>> \notin R
  BY <1>1, <1>3, WFMin
<1>5. k \in 1..n /\ k - 1 \in Nat /\ k - 1 < k
  OBVIOUS
<1>6. k - 1 \notin T
  BY <1>2, <1>3, <1>4, <1>5
<1> QED BY <1>5, <1>6

(* The cells that are one step from some. *)
Follow(h, cells) == UNION {Elements(h[c]) : c \in cells}

(* f has the first n steps of Steps, in the form that induction needs.     *)
AreSteps(f, h, cells, n) == f = [k \in 0..n |-> IF k = 0 THEN cells ELSE Follow(h, f[k - 1])]

LEMMA StepsExists ==
  ASSUME NEW n \in Nat, NEW h, NEW cells
  PROVE  \E f : AreSteps(f, h, cells, n)
<1> DEFINE S == {m \in 0..n : \E f : AreSteps(f, h, cells, m)}
<1> USE DEF AreSteps
<1>1. 0 \in S
  <2>1. PICK g : g = [k \in 0..0 |-> cells]
    OBVIOUS
  <2>2. g = [k \in 0..0 |-> IF k = 0 THEN cells ELSE Follow(h, g[k - 1])]
    BY <2>1
  <2> QED BY <2>2
<1>2. ASSUME NEW m \in 1..n, m - 1 \in S PROVE m \in S
  <2>1. PICK f : f = [k \in 0..m - 1 |-> IF k = 0 THEN cells ELSE Follow(h, f[k - 1])]
    BY <1>2
  <2>2. PICK g : g = [k \in 0..m |-> IF k = m THEN Follow(h, f[m - 1]) ELSE f[k]]
    OBVIOUS
  <2>3. g = [k \in 0..m |-> IF k = 0 THEN cells ELSE Follow(h, g[k - 1])]
    BY <2>1, <2>2
  <2> QED BY <2>3
<1> HIDE DEF S
<1>3. \A k \in 0..n : k \in S
  BY <1>1, <1>2, Upward
<1>4. n \in S
  BY <1>3
<1> QED BY <1>4 DEF S

LEMMA StepsDef ==
  ASSUME NEW h, NEW cells, Depth(h) \in Nat
  PROVE  /\ Steps(h, cells)[0] = cells
         /\ \A k \in 1..Depth(h) + 1 : Steps(h, cells)[k] = Follow(h, Steps(h, cells)[k - 1])
<1> DEFINE n == Depth(h) + 1
<1>0. n \in Nat
  OBVIOUS
<1>1. \E f : AreSteps(f, h, cells, n)
  <2> HIDE DEF n
  <2> QED BY <1>0, StepsExists
<1>2. Steps(h, cells) = [k \in 0..n |-> IF k = 0 THEN cells ELSE Follow(h, Steps(h, cells)[k - 1])]
  BY <1>1 DEF Steps, Follow, AreSteps
<1>3. n \in Nat /\ 0 \in 0..n /\ \A k \in 1..n : k \in 0..n /\ k # 0
  OBVIOUS
<1>4. PICK f : f = Steps(h, cells)
  OBVIOUS
<1>5. f[0] = cells /\ \A k \in 1..n : f[k] = Follow(h, f[k - 1])
  <2> HIDE DEF n
  <2> QED BY <1>2, <1>3, <1>4
<1> QED BY <1>4, <1>5

-----------------------------------------------------------------------------

(* A container's elements are among the cells.                             *)
Held(content, cells) ==
  /\ content = [type |-> content.type, value |-> content.value]
  /\ content.type = "array" => content.value \in Seq(cells)
  /\ content.type \in Dictionaries =>
       /\ IsFiniteSet(DOMAIN content.value)
       /\ content.value \in [DOMAIN content.value -> cells]

(* A heap's values are made of its own cells.                              *)
Well(h) == IsFiniteSet(DOMAIN h) /\ \A c \in DOMAIN h : Held(h[c], DOMAIN h)

LEMMA HeldElements ==
  ASSUME NEW content, NEW cells, Held(content, cells)
  PROVE  /\ IsFiniteSet(Keys(content))
         /\ Elements(content) \subseteq cells
         /\ \A k \in Keys(content) : content.value[k] \in cells
<1>1. "array" \notin Dictionaries
  BY DEF Dictionaries
<1>2. CASE content.type = "array"
  <2>1. Len(content.value) \in Nat /\ Keys(content) = 1..Len(content.value)
    BY <1>2 DEF Held, Keys
  <2>2. IsFiniteSet(1..Len(content.value))
    BY <2>1, FS_Interval
  <2>3. \A k \in Keys(content) : content.value[k] \in cells
    BY <1>2, <2>1 DEF Held
  <2> QED BY <2>1, <2>2, <2>3 DEF Elements
<1>3. CASE content.type \in Dictionaries
  BY <1>3 DEF Held, Keys, Elements
<1>4. CASE content.type \notin Dictionaries \union {"array"}
  BY <1>4, FS_EmptySet DEF Keys, Elements
<1> QED BY <1>2, <1>3, <1>4

LEMMA WellElements ==
  ASSUME NEW h, Well(h), NEW c \in DOMAIN h
  PROVE  /\ IsFiniteSet(Keys(h[c])) /\ Elements(h[c]) \subseteq DOMAIN h
         /\ \A k \in Keys(h[c]) : h[c].value[k] \in DOMAIN h
BY HeldElements DEF Well

(* The containers that are not empty: no way is longer without meeting one *)
(* twice.                                                                  *)
Full(h) == {c \in DOMAIN h : Keys(h[c]) # {}}

LEMMA DepthNat ==
  ASSUME NEW h, IsFiniteSet(DOMAIN h)
  PROVE  Depth(h) \in Nat /\ IsFiniteSet(Full(h)) /\ Depth(h) = Cardinality(Full(h))
<1>1. IsFiniteSet(Full(h))
  BY FS_Subset DEF Full
<1>2. Depth(h) = Cardinality(Full(h))
  BY DEF Depth, Full
<1> QED BY <1>1, <1>2, FS_CardinalityType

LEMMA StepsIn ==
  ASSUME NEW h, NEW S, Depth(h) \in Nat, \A c \in S : Elements(h[c]) \subseteq S,
         NEW cells \in SUBSET S
  PROVE  \A n \in 0..Depth(h) + 1 : Steps(h, cells)[n] \subseteq S
<1> DEFINE T == {n \in 0..Depth(h) + 1 : Steps(h, cells)[n] \subseteq S}
<1>1. 0 \in T
  BY StepsDef
<1>2. ASSUME NEW n \in 1..Depth(h) + 1, n - 1 \in T PROVE n \in T
  BY <1>2, StepsDef DEF Follow
<1> HIDE DEF T
<1>3. \A n \in 0..Depth(h) + 1 : n \in T
  BY <1>1, <1>2, Upward
<1> QED BY <1>3 DEF T

LEMMA ReachLeast ==
  ASSUME NEW h, NEW S, Depth(h) \in Nat, \A c \in S : Elements(h[c]) \subseteq S,
         NEW cells \in SUBSET S
  PROVE  Reach(h, cells) \subseteq S
<1>1. \A n \in 0..Depth(h) : n \in 0..Depth(h) + 1
  OBVIOUS
<1> QED BY <1>1, StepsIn DEF Reach

(* The cells that are at most n steps away.                                *)
UpTo(h, cells, n) == UNION {Steps(h, cells)[k] : k \in 0..n}

LEMMA UpToNext ==
  ASSUME NEW h, Depth(h) \in Nat, NEW cells, NEW n \in 0..Depth(h)
  PROVE  /\ UpTo(h, cells, n) \subseteq UpTo(h, cells, n + 1)
         /\ UpTo(h, cells, n + 1) = cells \union Follow(h, UpTo(h, cells, n))
         /\ cells \subseteq UpTo(h, cells, n)
<1>1. UpTo(h, cells, n) \subseteq UpTo(h, cells, n + 1)
  BY DEF UpTo
<1>2. \A k \in 1..n + 1 : /\ k - 1 \in 0..n /\ k \in 0..n + 1
                          /\ Steps(h, cells)[k] = Follow(h, Steps(h, cells)[k - 1])
  BY StepsDef
<1>3. \A k \in 0..n : k + 1 \in 1..n + 1 /\ Steps(h, cells)[k + 1] = Follow(h, Steps(h, cells)[k])
  BY StepsDef
<1>4. Steps(h, cells)[0] = cells /\ 0 \in 0..n /\ 0 \in 0..n + 1
  BY StepsDef
<1>5. \A k \in 0..n + 1 : k = 0 \/ k \in 1..n + 1
  OBVIOUS
<1>6. UpTo(h, cells, n + 1) \subseteq cells \union Follow(h, UpTo(h, cells, n))
  <2> SUFFICES ASSUME NEW k \in 0..n + 1
               PROVE  Steps(h, cells)[k] \subseteq cells \union Follow(h, UpTo(h, cells, n))
    BY DEF UpTo
  <2>1. CASE k = 0
    BY <1>4, <2>1
  <2>2. CASE k \in 1..n + 1
    <3>1. Steps(h, cells)[k - 1] \subseteq UpTo(h, cells, n)
      BY <1>2, <2>2 DEF UpTo
    <3>2. Follow(h, Steps(h, cells)[k - 1]) \subseteq Follow(h, UpTo(h, cells, n))
      BY <3>1 DEF Follow
    <3> QED BY <1>2, <2>2, <3>2
  <2> QED BY <1>5, <2>1, <2>2
<1>7. Follow(h, UpTo(h, cells, n)) \subseteq UpTo(h, cells, n + 1)
  <2> SUFFICES ASSUME NEW k \in 0..n, NEW c \in Steps(h, cells)[k]
               PROVE  Elements(h[c]) \subseteq UpTo(h, cells, n + 1)
    BY DEF UpTo, Follow
  <2>1. Elements(h[c]) \subseteq Steps(h, cells)[k + 1]
    BY <1>3 DEF Follow
  <2> QED BY <1>3, <2>1 DEF UpTo
<1>8. cells \subseteq UpTo(h, cells, n)
  BY <1>4 DEF UpTo
<1> QED BY <1>1, <1>6, <1>7, <1>8

(* Steps beyond a way through all containers lead to nothing new. *)
LEMMA ReachIs ==
  ASSUME NEW h, Well(h), NEW cells \in SUBSET DOMAIN h
  PROVE  /\ cells \subseteq Reach(h, cells) /\ Reach(h, cells) \subseteq DOMAIN h
         /\ \A c \in Reach(h, cells) : Elements(h[c]) \subseteq Reach(h, cells)
<1> DEFINE D == Depth(h)
           R(n) == UpTo(h, cells, n)
           C(n) == R(n) \intersect Full(h)
           P == {n \in 0..D : R(n + 1) = R(n) \/ Cardinality(C(n)) >= n + 1}
<1>1. D \in Nat /\ IsFiniteSet(Full(h)) /\ D = Cardinality(Full(h))
  BY DepthNat DEF Well
<1>2. ASSUME NEW n \in 0..D + 1 PROVE R(n) \subseteq DOMAIN h
  BY <1>1, <1>2, StepsIn, WellElements DEF UpTo
<1>3. ASSUME NEW n \in 0..D PROVE
        /\ R(n) \subseteq R(n + 1) /\ R(n + 1) = cells \union Follow(h, R(n)) /\ cells \subseteq R(n)
  BY <1>1, <1>3, UpToNext
<1>4. ASSUME NEW n \in 0..D + 1 PROVE IsFiniteSet(C(n)) /\ Cardinality(C(n)) \in 0..D
  BY <1>1, FS_Subset, FS_CardinalityType
<1>5. ASSUME NEW n \in 0..D PROVE Follow(h, R(n)) = Follow(h, C(n))
  <2>1. n \in 0..D + 1
    BY <1>1
  <2>2. \A c \in R(n) : c \notin C(n) => Elements(h[c]) = {}
    BY <1>2, <2>1 DEF Full, Elements
  <2> QED BY <2>2 DEF Follow
<1> HIDE DEF R, P
<1>6. 0 \in P
  <2>1. 0 \in 0..D /\ 0 \in 0..D + 1
    BY <1>1
  <2>2. CASE C(0) = {}
    <3>1. Follow(h, R(0)) = {}
      BY <1>5, <2>1, <2>2 DEF Follow
    <3> QED BY <1>3, <2>1, <3>1 DEF P
  <2>3. CASE C(0) # {}
    <3>1. Cardinality(C(0)) # 0 /\ Cardinality(C(0)) \in Nat
      BY <1>1, <1>4, <2>1, <2>3, FS_EmptySet
    <3> QED BY <2>1, <3>1 DEF P
  <2> QED BY <2>2, <2>3
<1>7. ASSUME NEW n \in 1..D, n - 1 \in P PROVE n \in P
  <2>1. n \in 0..D /\ n - 1 \in 0..D /\ n \in 0..D + 1 /\ n - 1 \in 0..D + 1 /\ (n - 1) + 1 = n
    BY <1>1
  <2>2. CASE C(n) = C(n - 1)
    <3>1. R(n + 1) = R((n - 1) + 1)
      BY <1>3, <1>5, <2>1, <2>2
    <3> QED BY <2>1, <3>1 DEF P
  <2>3. CASE C(n) # C(n - 1)
    <3>1. R(n) # R(n - 1) /\ C(n - 1) \subseteq C(n)
      BY <1>3, <2>1, <2>3
    <3>2. Cardinality(C(n - 1)) >= n
      BY <1>7, <2>1, <3>1 DEF P
    <3>3. Cardinality(C(n - 1)) # Cardinality(C(n)) /\ Cardinality(C(n - 1)) <= Cardinality(C(n))
      BY <1>4, <2>1, <2>3, <3>1, FS_Subset
    <3>4. Cardinality(C(n)) \in Nat /\ Cardinality(C(n - 1)) \in Nat
      <4> HIDE DEF C, D
      <4> QED BY <1>1, <1>4, <2>1
    <3>5. Cardinality(C(n)) >= n + 1
      BY <2>1, <3>2, <3>3, <3>4
    <3> QED BY <2>1, <3>5 DEF P
  <2> QED BY <2>2, <2>3
<1>8. \A n \in 0..D : n \in P
  <2> HIDE DEF D
  <2> QED BY <1>1, <1>6, <1>7, Upward
<1>9. R(D + 1) = R(D)
  <2>1. D \in P /\ D \in 0..D + 1
    BY <1>1, <1>8
  <2> QED BY <1>1, <1>4, <2>1 DEF P
<1>10. R(D) = Reach(h, cells)
  BY DEF R, UpTo, Reach
<1>11. D \in 0..D /\ D \in 0..D + 1
  BY <1>1
<1>12. cells \subseteq R(D) /\ R(D) \subseteq DOMAIN h
  BY <1>2, <1>3, <1>11
<1>13. \A c \in R(D) : Elements(h[c]) \subseteq R(D)
  BY <1>3, <1>9, <1>11 DEF Follow
<1> QED BY <1>10, <1>12, <1>13

-----------------------------------------------------------------------------
(* What operations do to a heap. One that was made stays, with its type,   *)
(* and a value that no program may edit stays the same; Good is said of    *)
(* the result of an operation on values.                                   *)

(* Types without an operation that edits a value.                          *)
Lasting == {"void", "boolean", "real", "duration"}

(* The cells of h are kept with their types and with their values, but for *)
(* those of integers and containers, which are edited, and for a string,   *)
(* which is emptied when it is moved from.                                 *)
Keeps(h, g) ==
  /\ DOMAIN h \subseteq DOMAIN g
  /\ \A c \in DOMAIN h :
       /\ g[c].type = h[c].type
       /\ h[c].type \in Lasting => g[c].value = h[c].value
       /\ h[c].type = "string" => g[c].value = h[c].value \/ g[c].value = ""

(* What the result r of an operation on a heap h is.                       *)
Good(h, r) ==
  /\ Well(r.heap)
  /\ Keeps(h, r.heap)
  /\ r.status # "running" /\ (r.status = "ok" => r.cell \in DOMAIN r.heap)

Containers == Dictionaries \union {"array"}

LEMMA TypesApart ==
  /\ "array" \notin Dictionaries /\ "array" \notin Lasting
  /\ \A t \in Simple : t \notin Dictionaries
  /\ {"void", "boolean", "integer", "real", "string", "duration", "error",
      "free function", "member function"} \intersect Containers = {}
  /\ Simple = {"void", "boolean", "integer", "real", "string", "duration", "array"}
<1>1. Simple = {"void", "boolean", "integer", "real", "string", "duration", "array"}
  BY DEF Simple, SimpleTypes, ToSet
<1> QED BY <1>1 DEF Dictionaries, Containers, Lasting

LEMMA FreshIs ==
  ASSUME NEW h, IsFiniteSet(DOMAIN h)
  PROVE  /\ Fresh(h) \notin DOMAIN h
         /\ \E m \in Nat : Fresh(h) = <<m>> /\ \A c \in DOMAIN h : c[1] # m
<1> DEFINE F == {c[1] : c \in DOMAIN h}
           n == Cardinality(DOMAIN h)
           f == [c \in DOMAIN h |-> c[1]]
           S == (1..n + 1) \ F
<1>1. n \in Nat
  BY FS_CardinalityType
<1>2. IsFiniteSet(F) /\ Cardinality(F) <= n
  <2>1. f \in Surjection(DOMAIN h, F)
    BY DEF Surjection
  <2> QED BY <2>1, FS_Surjection
<1>3. S # {}
  <2>1. SUFFICES ASSUME 1..n + 1 \subseteq F PROVE FALSE
    OBVIOUS
  <2>2. Cardinality(1..n + 1) = n + 1
    <3> HIDE DEF n
    <3> QED BY <1>1, FS_Interval
  <2>3. Cardinality(1..n + 1) <= Cardinality(F) /\ Cardinality(F) \in Nat
    BY <1>2, <2>1, FS_Subset, FS_CardinalityType
  <2> HIDE DEF n
  <2> QED BY <1>1, <1>2, <2>2, <2>3
<1> DEFINE T == {k \in Nat : k \in S}
<1>4. T # {} /\ T \subseteq Nat
  BY <1>1, <1>3
<1>5. PICK k \in T : \A m \in Nat : m < k => m \notin T
  BY <1>4, LeastNat
<1>6. k \in S /\ \A m \in S : k <= m
  BY <1>1, <1>5
<1>7. Min(S) \in S
  BY <1>6 DEF Min
<1>8. Fresh(h) = <<Min(S)>>
  BY DEF Fresh
<1>a. Min(S) \in 1..n + 1 /\ Min(S) \notin F
  BY <1>7
<1> HIDE DEF S, n
<1>9. Min(S) \in Nat /\ \A c \in DOMAIN h : c[1] # Min(S)
  BY <1>1, <1>a
<1>10. <<Min(S)>> \notin DOMAIN h
  BY <1>9
<1> QED BY <1>8, <1>9, <1>10

LEMMA KeepsItself ==
  ASSUME NEW h
  PROVE  Keeps(h, h)
BY DEF Keeps

LEMMA KeepsOn ==
  ASSUME NEW f, NEW g, NEW h, Keeps(f, g), Keeps(g, h)
  PROVE  Keeps(f, h)
BY DEF Keeps, Lasting

LEMMA GoodOn ==
  ASSUME NEW f, NEW g, NEW r, Keeps(f, g), Good(g, r)
  PROVE  Good(f, r)
BY KeepsOn DEF Good

LEMMA HeldMore ==
  ASSUME NEW content, NEW S, NEW T, S \subseteq T, Held(content, S)
  PROVE  Held(content, T)
BY DEF Held

LEMMA HeldPlain ==
  ASSUME NEW type, NEW value, NEW S, type \notin Containers
  PROVE  Held([type |-> type, value |-> value], S)
BY DEF Held, Containers

LEMMA WithIs ==
  ASSUME NEW h, Well(h), NEW more, IsFiniteSet(DOMAIN more), DOMAIN more \intersect DOMAIN h = {},
         \A c \in DOMAIN more : Held(more[c], DOMAIN h \union DOMAIN more)
  PROVE  /\ DOMAIN With(h, more) = DOMAIN h \union DOMAIN more
         /\ \A c \in DOMAIN h : With(h, more)[c] = h[c]
         /\ \A c \in DOMAIN more : With(h, more)[c] = more[c]
         /\ Well(With(h, more)) /\ Keeps(h, With(h, more))
<1>1. /\ DOMAIN With(h, more) = DOMAIN h \union DOMAIN more
      /\ \A c \in DOMAIN h : With(h, more)[c] = h[c]
      /\ \A c \in DOMAIN more : With(h, more)[c] = more[c]
  BY DEF With
<1>2. IsFiniteSet(DOMAIN h \union DOMAIN more)
  BY FS_Union DEF Well
<1>3. \A c \in DOMAIN h \union DOMAIN more : Held(With(h, more)[c], DOMAIN h \union DOMAIN more)
  BY <1>1, HeldMore DEF Well
<1>4. Well(With(h, more))
  BY <1>1, <1>2, <1>3 DEF Well
<1> QED BY <1>1, <1>4 DEF Keeps

(* Only the content of c is another one, or a new one. *)
Changed(h, g, c, content) ==
  /\ DOMAIN g = DOMAIN h \union {c}
  /\ g[c] = content
  /\ \A x \in DOMAIN h : x # c => g[x] = h[x]

LEMMA NewIs ==
  ASSUME NEW h, Well(h), NEW t, NEW v, Held([type |-> t, value |-> v], DOMAIN h), NEW r, r = New(h, t, v)
  PROVE  /\ Good(h, r) /\ r.status = "ok" /\ r.cell = Fresh(h) /\ r.cell \notin DOMAIN h
         /\ Changed(h, r.heap, r.cell, [type |-> t, value |-> v])
<1>1. PICK c : c = Fresh(h)
  OBVIOUS
<1>2. PICK x : x = [type |-> t, value |-> v]
  OBVIOUS
<1>3. PICK more : more = [y \in {c} |-> x]
  OBVIOUS
<1>4. r.status = "ok" /\ r.heap = With(h, more) /\ r.cell = c
  BY <1>1, <1>2, <1>3 DEF New, Share
<1>5. c \notin DOMAIN h
  BY <1>1, FreshIs DEF Well
<1>6. DOMAIN more = {c} /\ more[c] = x /\ IsFiniteSet({c})
  BY <1>3, FS_Singleton
<1>7. Held(x, DOMAIN h \union {c})
  BY <1>2, HeldMore
<1>8. /\ DOMAIN r.heap = DOMAIN h \union {c}
      /\ \A y \in DOMAIN h : r.heap[y] = h[y]
      /\ r.heap[c] = x /\ Well(r.heap) /\ Keeps(h, r.heap)
  <2>1. \A y \in DOMAIN more : Held(more[y], DOMAIN h \union DOMAIN more)
    BY <1>6, <1>7
  <2> QED BY <1>4, <1>5, <1>6, <2>1, WithIs
<1> QED BY <1>1, <1>2, <1>4, <1>5, <1>8 DEF Good, Changed

LEMMA NewPlain ==
  ASSUME NEW h, Well(h), NEW t, t \notin Containers, NEW v
  PROVE  Good(h, New(h, t, v))
BY NewIs, HeldPlain

LEMMA ShareGood ==
  ASSUME NEW h, Well(h), NEW c \in DOMAIN h
  PROVE  Good(h, Share(h, c))
BY KeepsItself DEF Good, Share

LEMMA FailGood ==
  ASSUME NEW h, Well(h)
  PROVE  Good(h, Fail(h)) /\ Good(h, Overflow(h))
BY KeepsItself DEF Good, Fail, Overflow

LEMMA WriteIs ==
  ASSUME NEW h, Well(h), NEW c \in DOMAIN h, NEW v, Held([type |-> h[c].type, value |-> v], DOMAIN h),
         h[c].type \notin Lasting, h[c].type = "string" => v = "", NEW r, r = Write(h, c, v)
  PROVE  /\ Good(h, r) /\ r.status = "ok" /\ r.cell = c
         /\ Changed(h, r.heap, c, [type |-> h[c].type, value |-> v])
<1>1. h[c] = [type |-> h[c].type, value |-> h[c].value]
  BY DEF Well, Held
<1>2. PICK g : g = [h EXCEPT ![c].value = v]
  OBVIOUS
<1>3. DOMAIN g = DOMAIN h /\ \A x \in DOMAIN h : x # c => g[x] = h[x]
  BY <1>2
<1>4. PICK t : t = h[c].type
  OBVIOUS
<1>5. g[c] = [type |-> t, value |-> v]
  BY <1>1, <1>2, <1>4
<1>6. Write(h, c, v) = Share(g, c)
  BY <1>2 DEF Write
<1>7. \A x \in DOMAIN h : Held(g[x], DOMAIN h)
  BY <1>3, <1>4, <1>5 DEF Well
<1>8. Well(g)
  BY <1>3, <1>7 DEF Well
<1>9. g[c].type = t /\ g[c].value = v
  BY ONLY <1>5
<1>10. Keeps(h, g)
  <2> SUFFICES ASSUME NEW x \in DOMAIN h
               PROVE  /\ g[x].type = h[x].type
                      /\ h[x].type \in Lasting => g[x].value = h[x].value
                      /\ h[x].type = "string" => g[x].value = h[x].value \/ g[x].value = ""
    BY <1>3 DEF Keeps
  <2>1. CASE x = c
    BY <1>4, <1>9, <2>1
  <2>2. CASE x # c
    BY <1>3, <2>2
  <2> QED BY <2>1, <2>2
<1>11. Good(h, Share(g, c)) /\ Share(g, c).heap = g /\ Share(g, c).cell = c /\ Share(g, c).status = "ok"
  BY <1>3, <1>8, <1>10 DEF Good, Share
<1> QED BY <1>3, <1>4, <1>5, <1>6, <1>11 DEF Changed

-----------------------------------------------------------------------------
(* Construction, assignment and properties.                                *)

LEMMA HeldEmpty ==
  ASSUME NEW t, NEW S
  PROVE  Held([type |-> t, value |-> << >>], S)
<1>1. << >> \in Seq(S) /\ DOMAIN << >> = {} /\ IsFiniteSet({})
  BY FS_EmptySet
<1>2. << >> \in [{} -> S]
  OBVIOUS
<1>3. PICK x : x = [type |-> t, value |-> << >>]
  OBVIOUS
<1>4. x.type = t /\ x.value = << >>
  BY <1>3
<1> QED BY <1>1, <1>2, <1>3, <1>4 DEF Held

LEMMA DefaultsIn ==
  /\ {Defaults[t] : t \in Simple} = DOMAIN DefaultHeap
  /\ \A t \in Simple : /\ Defaults[t] \in DOMAIN DefaultHeap
                       /\ DefaultHeap[Defaults[t]] = [type |-> t, value |-> InitialValue[t]]
                       /\ Defaults[t][1] \in 1..Len(SimpleTypes)
                       /\ \E n \in 1..Len(SimpleTypes) : SimpleTypes[n] = t /\ Defaults[t] = <<n>>
<1>1. ASSUME NEW t \in Simple
      PROVE  \E n \in 1..Len(SimpleTypes) : SimpleTypes[n] = t /\ Defaults[t] = <<n>>
  <2> DEFINE n == CHOOSE n \in DOMAIN SimpleTypes : SimpleTypes[n] = t
  <2>1. DOMAIN SimpleTypes = 1..Len(SimpleTypes)
    BY DEF SimpleTypes
  <2>2. \E m \in DOMAIN SimpleTypes : SimpleTypes[m] = t
    BY DEF Simple, ToSet
  <2>3. n \in DOMAIN SimpleTypes /\ SimpleTypes[n] = t
    BY <2>2
  <2>4. Defaults[t] = <<n>>
    BY DEF Defaults
  <2> HIDE DEF n
  <2> QED BY <2>1, <2>3, <2>4
<1>2. ASSUME NEW t \in Simple
      PROVE  /\ Defaults[t] \in DOMAIN DefaultHeap /\ Defaults[t][1] \in 1..Len(SimpleTypes)
             /\ DefaultHeap[Defaults[t]] = [type |-> t, value |-> InitialValue[t]]
  <2>1. PICK n \in 1..Len(SimpleTypes) : SimpleTypes[n] = t /\ Defaults[t] = <<n>>
    BY <1>1
  <2>2. Defaults[t] \in {Defaults[u] : u \in Simple} /\ Defaults[t][1] = n
    BY <2>1
  <2>3. DefaultHeap[Defaults[t]] = [type |-> t, value |-> InitialValue[t]]
    BY <2>1, <2>2 DEF DefaultHeap
  <2> QED BY <2>1, <2>2, <2>3 DEF DefaultHeap
<1>3. {Defaults[t] : t \in Simple} = DOMAIN DefaultHeap
  BY DEF DefaultHeap
<1> QED BY <1>1, <1>2, <1>3

(* What a heap has from its start: the default values. *)
HasDefaults(h) == \A t \in Simple : Defaults[t] \in DOMAIN h /\ h[Defaults[t]].type = t

LEMMA ConstructGood ==
  ASSUME NEW h, Well(h), HasDefaults(h), NEW type, NEW arg \in DOMAIN h, NEW r, r = Construct(h, type, arg)
  PROVE  /\ Good(h, r)
         /\ r.status = "ok" => \/ r.heap = h /\ r.cell = arg
                               \/ r.heap = h /\ type \in Simple /\ r.cell = Defaults[type]
                               \/ r.cell \notin DOMAIN h
         /\ r.status = "ok" /\ h[arg].type # "void" /\ h[arg].type # "dictionary" =>
              r.heap = h /\ r.cell = arg
<1>1. CASE type \in Simple
  <2>1. r = ConstructSimple(h, type, arg)
    BY <1>1, TypesApart DEF Construct
  <2>2. Good(h, Share(h, Defaults[type])) /\ Good(h, Share(h, arg)) /\ Good(h, Fail(h))
    BY <1>1, ShareGood, FailGood DEF HasDefaults
  <2>3. CASE h[arg].type = "void"
    <3>1. r = Share(h, Defaults[type])
      BY <2>1, <2>3 DEF ConstructSimple
    <3> QED BY <1>1, <2>2, <2>3, <3>1 DEF Share
  <2>4. CASE h[arg].type # "void" /\ h[arg].type = type
    <3>1. r = Share(h, arg)
      BY <2>1, <2>4 DEF ConstructSimple
    <3> QED BY <2>2, <3>1 DEF Share
  <2>5. CASE h[arg].type # "void" /\ h[arg].type # type
    <3>1. r = Fail(h)
      BY <2>1, <2>5 DEF ConstructSimple
    <3> QED BY <2>2, <3>1 DEF Fail
  <2> QED BY <2>3, <2>4, <2>5
<1>2. CASE type \in Dictionaries
  <2>1. r = ConstructDictionary(h, type, arg)
    BY <1>2, TypesApart DEF Construct
  <2>2. Good(h, Share(h, arg)) /\ Good(h, Fail(h))
    BY ShareGood, FailGood
  <2>3. CASE h[arg].type = "void"
    <3>1. r = New(h, type, << >>)
      BY <1>2, <2>1, <2>3 DEF Dictionaries, ConstructDictionary
    <3>2. Held([type |-> type, value |-> << >>], DOMAIN h)
      BY HeldEmpty
    <3>3. Good(h, r) /\ r.cell \notin DOMAIN h
      BY <3>1, <3>2, NewIs
    <3> QED BY <2>3, <3>3
  <2>4. CASE h[arg].type # "void" /\ h[arg].type \in {type, "error"}
    <3>1. r = Share(h, arg)
      BY <1>2, <2>1, <2>4 DEF ConstructDictionary
    <3> QED BY <2>2, <3>1 DEF Share
  <2>5. CASE h[arg].type = "dictionary" /\ h[arg].type \notin {type, "error"}
    <3>1. r = New(h, type, h[arg].value)
      BY <2>1, <2>5 DEF ConstructDictionary
    <3>2. PICK v : v = h[arg].value
      OBVIOUS
    <3>3. Held(h[arg], DOMAIN h) /\ "dictionary" \in Dictionaries
      BY DEF Well, Dictionaries
    <3>4. IsFiniteSet(DOMAIN v) /\ v \in [DOMAIN v -> DOMAIN h]
      BY <2>5, <3>2, <3>3 DEF Held
    <3>5. Held([type |-> type, value |-> v], DOMAIN h)
      BY <1>2, <3>4, TypesApart DEF Held
    <3>6. Good(h, r) /\ r.cell \notin DOMAIN h
      BY <3>1, <3>2, <3>5, NewIs
    <3> QED BY <2>5, <3>6
  <2>6. CASE h[arg].type \notin {type, "error", "void", "dictionary"}
    <3>1. r = Fail(h)
      BY <2>1, <2>6 DEF ConstructDictionary
    <3> QED BY <2>2, <3>1 DEF Fail
  <2> QED BY <2>3, <2>4, <2>5, <2>6
<1>3. CASE type \notin Simple \union Dictionaries
  <2>1. r = Fail(h)
    BY <1>3 DEF Construct
  <2> QED BY <2>1, FailGood DEF Fail
<1> QED BY <1>1, <1>2, <1>3

LEMMA AssignGood ==
  ASSUME NEW h, Well(h), NEW l \in DOMAIN h, NEW r \in DOMAIN h
  PROVE  Good(h, Assign(h, l, r))
<1>1. PICK v, t, u : v = h[r].value /\ t = h[l].type /\ u = h[r].type
  OBVIOUS
<1>2. Good(h, Fail(h)) /\ Good(h, Share(h, r))
  BY FailGood, ShareGood
<1>3. CASE t = "integer"
  <2>1. Assign(h, l, r) = AssignInteger(h, l, r)
    BY <1>1, <1>3 DEF Assign
  <2>2. \A w : Held([type |-> t, value |-> w], DOMAIN h)
    BY <1>3, HeldPlain, TypesApart
  <2>3. \A w : Good(h, Write(h, l, w))
    <3> TAKE w
    <3>1. Held([type |-> h[l].type, value |-> w], DOMAIN h) /\ h[l].type \notin Lasting /\ h[l].type # "string"
      BY <1>1, <1>3, <2>2 DEF Lasting
    <3> QED BY <3>1, WriteIs
  <2> QED BY <1>2, <2>1, <2>3 DEF AssignInteger
<1>4. CASE t = "array"
  <2>1. Assign(h, l, r) = AssignArray(h, l, r)
    BY <1>1, <1>4 DEF Assign
  <2>2. CASE u = "array"
    <3>1. Held(h[r], DOMAIN h) /\ h[r] = [type |-> u, value |-> v]
      BY <1>1 DEF Well, Held
    <3>2. Held([type |-> h[l].type, value |-> v], DOMAIN h)
      BY <1>1, <1>4, <2>2, <3>1
    <3>3. Good(h, Write(h, l, v))
      <4>1. h[l].type \notin Lasting /\ h[l].type # "string"
        BY <1>1, <1>4, TypesApart
      <4> QED BY <3>2, <4>1, WriteIs
    <3> QED BY <1>1, <2>1, <2>2, <3>3 DEF AssignArray
  <2> QED BY <1>1, <1>2, <2>1, <2>2 DEF AssignArray
<1>5. CASE t \notin {"integer", "array"}
  BY <1>1, <1>2, <1>5 DEF Assign, AssignHandle
<1> QED BY <1>3, <1>4, <1>5

LEMMA GetPropertyGood ==
  ASSUME NEW h, Well(h), NEW c \in DOMAIN h, NEW name
  PROVE  Good(h, GetProperty(h, c, name))
<1>1. Good(h, Fail(h))
  BY FailGood
<1>2. Good(h, Size(h, c)) /\ Good(h, MemberFunction(h, name))
  BY NewPlain, TypesApart DEF Size, MemberFunction
<1>3. CASE h[c].type \in Dictionaries
  <2>1. Held(h[c], DOMAIN h)
    BY DEF Well
  <2>2. name \in DOMAIN h[c].value => h[c].value[name] \in DOMAIN h
    BY <1>3, <2>1 DEF Held
  <2>3. Good(h, ElementOf(h, c, name))
    BY <1>1, <2>2, ShareGood DEF ElementOf
  <2> QED BY <1>1, <1>2, <1>3, <2>3 DEF GetProperty
<1>4. CASE h[c].type \notin Dictionaries
  BY <1>1, <1>2, <1>4 DEF GetProperty
<1> QED BY <1>3, <1>4

-----------------------------------------------------------------------------
(* Member functions, free functions and operators.                         *)

(* The arguments of a call are values of the heap.                         *)
AreArguments(args, h) == Len(args) \in Nat /\ \A i \in 1..Len(args) : args[i].cell \in DOMAIN h

LEMMA SameAsString ==
  ASSUME NEW t, SameType(t, "string")
  PROVE  t = "string"
BY DEF SameType, TypeId

LEMMA InsertGood ==
  ASSUME NEW h, Well(h), NEW self \in DOMAIN h, h[self].type \in Dictionaries,
         NEW args, AreArguments(args, h)
  PROVE  Good(h, Insert(h, self, args))
<1> DEFINE Refused == \/ Len(args) # 2
                      \/ \E i \in DOMAIN args : args[i].name # Unnamed
                      \/ ~SameType(h[args[1].cell].type, "string")
<1>1. CASE Refused
  <2>1. Insert(h, self, args) = Fail(h)
    BY <1>1 DEF Insert
  <2> QED BY <2>1, FailGood
<1>2. CASE ~Refused
  <2>1. PICK x, y : x = args[1].cell /\ y = args[2].cell
    OBVIOUS
  <2>2. x \in DOMAIN h /\ y \in DOMAIN h
    BY <1>2, <2>1 DEF AreArguments
  <2>3. h[x].type = "string" /\ x # self
    BY <1>2, <2>1, SameAsString, TypesApart DEF Containers
  <2>4. PICK key, moved, dict : key = h[x].value /\ moved = Write(h, x, "").heap /\ dict = moved[self].value
    OBVIOUS
  <2>5. PICK more : more = [k \in DOMAIN dict \union {key} |-> IF k \in DOMAIN dict THEN dict[k] ELSE y]
    OBVIOUS
  <2>6. PICK g : g = Write(moved, self, more).heap
    OBVIOUS
  <2>7. Insert(h, self, args) = New(g, "void", << >>)
    BY <1>2, <2>1, <2>4, <2>5, <2>6 DEF Insert
  <2>8. Well(moved) /\ Keeps(h, moved) /\ DOMAIN moved = DOMAIN h /\ moved[self] = h[self]
    <3>1. Held([type |-> h[x].type, value |-> ""], DOMAIN h) /\ h[x].type \notin Lasting
      BY <2>3, HeldPlain, TypesApart DEF Lasting
    <3>2. PICK w : w = Write(h, x, "")
      OBVIOUS
    <3>3. Good(h, w) /\ Changed(h, w.heap, x, [type |-> h[x].type, value |-> ""])
      BY <2>2, <3>1, <3>2, WriteIs
    <3> QED BY <2>2, <2>3, <2>4, <3>2, <3>3 DEF Good, Changed
  <2>9. IsFiniteSet(DOMAIN dict) /\ dict \in [DOMAIN dict -> DOMAIN h]
    BY <2>4, <2>8 DEF Well, Held
  <2>10. IsFiniteSet(DOMAIN more) /\ more \in [DOMAIN more -> DOMAIN moved]
    <3>1. IsFiniteSet(DOMAIN dict \union {key})
      BY <2>9, FS_AddElement
    <3>2. DOMAIN more = DOMAIN dict \union {key}
      BY <2>5
    <3> QED BY <2>2, <2>5, <2>8, <2>9, <3>1, <3>2
  <2>11. PICK t : t = moved[self].type
    OBVIOUS
  <2>12. t \in Dictionaries /\ t # "string" /\ t \notin Lasting
    BY <2>8, <2>11, TypesApart DEF Dictionaries, Lasting
  <2>13. Held([type |-> t, value |-> more], DOMAIN moved)
    BY <2>10, <2>12, TypesApart DEF Held
  <2>14. Good(moved, Write(moved, self, more))
    BY <2>8, <2>11, <2>12, <2>13, WriteIs
  <2>15. Well(g) /\ Keeps(h, g)
    BY <2>6, <2>8, <2>14, KeepsOn DEF Good
  <2> QED BY <2>7, <2>15, GoodOn, NewPlain, TypesApart
<1> QED BY <1>1, <1>2

LEMMA CallMemberGood ==
  ASSUME NEW h, Well(h), NEW self \in DOMAIN h, NEW name, NEW args, AreArguments(args, h)
  PROVE  Good(h, CallMember(h, self, name, args))
BY InsertGood, FailGood DEF CallMember

LEMMA CallFunctionGood ==
  ASSUME NEW h, Well(h), NEW name, NEW args
  PROVE  Good(h, CallFunction(h, name, args))
<1>1. Good(h, Fail(h)) /\ Good(h, Overflow(h)) /\ \A v : Good(h, New(h, "string", v)) /\ Good(h, New(h, "void", v))
  BY FailGood, NewPlain, TypesApart
<1>2. Good(h, Format(h, args))
  BY <1>1 DEF Format
<1>3. Good(h, Println(h, args)) /\ Good(h, Panic(h, args))
  BY <1>1, <1>2 DEF Println, Panic
<1> QED BY <1>2, <1>3 DEF CallFunction

LEMMA BinaryGood ==
  ASSUME NEW h, Well(h), NEW op, NEW l \in DOMAIN h, NEW r \in DOMAIN h
  PROVE  Good(h, Binary(h, op, l, r))
<1>1. Good(h, Fail(h)) /\ \A v : /\ Good(h, New(h, "boolean", v)) /\ Good(h, New(h, "integer", v))
                                 /\ Good(h, New(h, "real", v))
  BY FailGood, NewPlain, TypesApart
<1>2. Good(h, HasKey(h, r, l))
  BY <1>1 DEF HasKey
<1>3. Good(h, IntegerBinary(h, op, l, r))
  <2>1. h[r].type \in {"integer", "real"} => \A v : Good(h, New(h, h[r].type, v))
    BY <1>1
  <2>2. CASE h[r].type \notin {"integer", "real"}
    BY <1>1, <2>2 DEF IntegerBinary
  <2>3. CASE h[r].type \in {"integer", "real"} /\ op \in {"+", "-", "/"}
    <3>1. \E v : IntegerBinary(h, op, l, r) = New(h, h[r].type, v)
      BY <2>3 DEF IntegerBinary
    <3> QED BY <2>1, <2>3, <3>1
  <2>4. CASE h[r].type \in {"integer", "real"} /\ op \in {"*", "==", "!=", "<", "<=", ">", ">="}
    <3>1. \E v : IntegerBinary(h, op, l, r) = New(h, "boolean", v)
      BY <2>4 DEF IntegerBinary
    <3> QED BY <1>1, <3>1
  <2>5. CASE /\ h[r].type \in {"integer", "real"}
             /\ op \notin {"+", "-", "/", "*", "==", "!=", "<", "<=", ">", ">="}
    <3>1. IntegerBinary(h, op, l, r) = Fail(h)
      BY <2>5 DEF IntegerBinary
    <3> QED BY <1>1, <3>1
  <2> QED BY <2>2, <2>3, <2>4, <2>5
<1> QED BY <1>1, <1>2, <1>3 DEF Binary

LEMMA UnaryGood ==
  ASSUME NEW h, Well(h), NEW op, NEW c \in DOMAIN h
  PROVE  Good(h, Unary(h, op, c))
<1>1. Good(h, Fail(h)) /\ Good(h, Share(h, c)) /\ \A v : Good(h, New(h, "integer", v))
  BY FailGood, ShareGood, NewPlain, TypesApart
<1> QED BY <1>1 DEF Unary

-----------------------------------------------------------------------------
(* Scopes, and the path of an expression.                                  *)

LEMMA MinIn ==
  ASSUME NEW S \in SUBSET Nat, S # {}
  PROVE  Min(S) \in S /\ \A i \in S : Min(S) <= i
<1>1. PICK k \in S : \A m \in Nat : m < k => m \notin S
  BY LeastNat
<1>2. \A m \in S : k <= m
  BY <1>1
<1> QED BY <1>2 DEF Min

LEMMA MaxIn ==
  ASSUME NEW n \in Nat, NEW S \in SUBSET (1..n), S # {}
  PROVE  Max(S) \in S
<1> DEFINE T == {m \in 0..n : n - m \in S}
<1>1. T # {} /\ T \subseteq Nat
  <2>1. PICK i \in S : TRUE
    OBVIOUS
  <2>2. n - i \in 0..n /\ n - (n - i) = i
    OBVIOUS
  <2>3. n - i \in T
    BY <2>2
  <2>4. T \subseteq Nat
    OBVIOUS
  <2> HIDE DEF T
  <2> QED BY <2>3, <2>4
<1>2. PICK k \in T : \A m \in Nat : m < k => m \notin T
  BY <1>1, LeastNat
<1>3. ASSUME NEW i \in S PROVE i <= n - k
  <2>1. n - i \in T /\ n - i \in Nat /\ k \in Nat /\ i \in Nat
    OBVIOUS
  <2> QED BY <1>2, <2>1
<1>4. n - k \in S
  OBVIOUS
<1> QED BY <1>3, <1>4 DEF Max

(* Scopes and declarations, of any kind.                                   *)
IsSeq(s) == \E S : s \in Seq(S)

IsScope(scope) ==
  scope = [type |-> scope.type, policy |-> scope.policy, home |-> scope.home,
           value |-> scope.value, names |-> scope.names]

IsStack(stack) ==
  IsSeq(stack) /\ Len(stack) > 0 /\ \A i \in 1..Len(stack) : IsScope(stack[i])

LEMMA Lengths ==
  ASSUME NEW s, IsSeq(s)
  PROVE  Len(s) \in Nat /\ DOMAIN s = 1..Len(s)
BY DEF IsSeq

LEMMA RootsAre ==
  ASSUME NEW stack, NEW S
  PROVE  Roots(stack) \subseteq S <=>
           /\ \A t \in Simple : Defaults[t] \in S
           /\ \A i \in DOMAIN stack : \A n \in DOMAIN stack[i].names : stack[i].names[n] \in S
BY DEF Roots, BoundIn

LEMMA FoundIn ==
  ASSUME NEW h, IsStack(scopes), Roots(scopes) \subseteq DOMAIN h, NEW name, Declared(name)
  PROVE  FindEntity(scopes, name) \in DOMAIN h
<1> DEFINE holders == {i \in DOMAIN scopes : name \in DOMAIN scopes[i].names}
<1>1. holders # {} /\ holders \in SUBSET (1..Len(scopes)) /\ Len(scopes) \in Nat
  BY Lengths DEF Declared, IsStack
<1>2. FindEntity(scopes, name) = scopes[Max(holders)].names[name]
  BY <1>1 DEF FindEntity
<1>3. Max(holders) \in holders
  <2> HIDE DEF holders
  <2> QED BY <1>1, MaxIn
<1> QED BY <1>2, <1>3, RootsAre

-----------------------------------------------------------------------------

(* A path's first value, a property of a value, and the values of all      *)
(* parts of a path, as EvalPath has them.                                  *)
Named(name, h) == IF Declared(name) THEN Share(h, FindEntity(scopes, name)) ELSE Fail(h)

Property(r, name) == IF r.status = "ok" THEN GetProperty(r.heap, r.cell, name) ELSE r

AreValues(f, path, h, n) ==
  f = [k \in 1..n |-> IF k = 1 THEN Named(path[1], h) ELSE Property(f[k - 1], path[k])]

LEMMA PathExists ==
  ASSUME NEW n \in Nat, NEW path, NEW h
  PROVE  \E f : AreValues(f, path, h, n)
<1> DEFINE S == {m \in 0..n : \E f : AreValues(f, path, h, m)}
<1> USE DEF AreValues
<1>1. 0 \in S
  <2>1. PICK g : g = [k \in 1..0 |-> Named(path[1], h)]
    OBVIOUS
  <2>2. AreValues(g, path, h, 0)
    BY <2>1
  <2>3. \E f : AreValues(f, path, h, 0)
    BY <2>2
  <2> HIDE DEF AreValues
  <2> QED BY <2>3
<1>2. ASSUME NEW m \in 1..n, m - 1 \in S PROVE m \in S
  <2>1. PICK f : f = [k \in 1..m - 1 |-> IF k = 1 THEN Named(path[1], h) ELSE Property(f[k - 1], path[k])]
    BY <1>2
  <2>2. PICK g : g = [k \in 1..m |->
                        IF k = m THEN IF k = 1 THEN Named(path[1], h) ELSE Property(f[m - 1], path[m])
                        ELSE f[k]]
    OBVIOUS
  <2>3. g = [k \in 1..m |-> IF k = 1 THEN Named(path[1], h) ELSE Property(g[k - 1], path[k])]
    BY <2>1, <2>2
  <2> QED BY <2>3
<1> HIDE DEF S
<1>3. \A k \in 0..n : k \in S
  BY <1>1, <1>2, Upward
<1>4. n \in S
  BY <1>3
<1> QED BY <1>4 DEF S

LEMMA PathGood ==
  ASSUME NEW h, Well(h), IsStack(scopes), Roots(scopes) \subseteq DOMAIN h, NEW path \in Paths
  PROVE  Good(h, EvalPath(path, h))
<1>1. PICK n : n = Len(path)
  OBVIOUS
<1>2. n \in Nat /\ n > 0
  BY <1>1 DEF Paths
<1>3. \E f : AreValues(f, path, h, n)
  BY <1>2, PathExists
<1>4. PICK f : AreValues(f, path, h, n) /\ EvalPath(path, h) = f[n]
  BY <1>1, <1>3 DEF EvalPath, AreValues, Named, Property
<1> DEFINE S == {k \in 0..n : k > 0 => Good(h, f[k])}
<1>5. 0 \in S
  BY <1>2
<1>6. ASSUME NEW k \in 1..n, k - 1 \in S PROVE k \in S
  <2>1. CASE k = 1
    <3>1. f[k] = Named(path[1], h)
      BY <1>4, <2>1 DEF AreValues
    <3> QED BY <3>1, FoundIn, ShareGood, FailGood DEF Named
  <2>2. CASE k # 1
    <3>1. f[k] = Property(f[k - 1], path[k]) /\ Good(h, f[k - 1])
      BY <1>4, <1>6, <2>2 DEF AreValues
    <3>2. PICK r, p : r = f[k - 1] /\ p = path[k]
      OBVIOUS
    <3>3. Good(h, r) /\ f[k] = Property(r, p)
      BY <3>1, <3>2
    <3>4. CASE r.status = "ok"
      <4>1. Well(r.heap) /\ r.cell \in DOMAIN r.heap /\ Keeps(h, r.heap)
        BY <3>3, <3>4 DEF Good
      <4>2. Good(r.heap, GetProperty(r.heap, r.cell, p))
        BY <4>1, GetPropertyGood
      <4>3. Good(h, GetProperty(r.heap, r.cell, p))
        BY <4>1, <4>2, GoodOn
      <4> QED BY <3>3, <3>4, <4>3 DEF Property
    <3> QED BY <3>3, <3>4 DEF Property
  <2> QED BY <2>1, <2>2
<1> HIDE DEF S
<1>7. \A k \in 0..n : k \in S
  BY <1>2, <1>5, <1>6, Upward
<1> QED BY <1>2, <1>4, <1>7 DEF S

-----------------------------------------------------------------------------
(* The operations of an expression: each leaves one value for those it     *)
(* takes.                                                                  *)

(* What the operations of an expression have done to a heap and a stack of values. *)
Worked(h, r, n) ==
  /\ Well(r.heap) /\ Keeps(h, r.heap)
  /\ r.status # "running"
  /\ r.status = "ok" => r.values \in Seq(DOMAIN r.heap) /\ Len(r.values) = n

(* What an expression needs: a well heap that has all that the scopes      *)
(* bind.                                                                   *)
Ready(h) == Well(h) /\ IsStack(scopes) /\ Roots(scopes) \subseteq DOMAIN h

LEMMA ReadyOn ==
  ASSUME NEW h, NEW g, Ready(h), Well(g), Keeps(h, g)
  PROVE  Ready(g)
BY DEF Ready, Keeps

LEMMA FrontOfPath ==
  ASSUME NEW path \in Paths, Len(path) > 1
  PROVE  Front(path) \in Paths
<1>1. path \in Seq(STRING) /\ Len(path) \in Nat
  BY DEF Paths
<1>2. PICK z : z = SubSeq(path, 1, Len(path) - 1)
  OBVIOUS
<1>3. z \in Seq(STRING) /\ Len(z) = Len(path) - 1
  BY <1>1, <1>2
<1>4. Front(path) = z
  BY <1>2 DEF Front
<1> QED BY <1>1, <1>3, <1>4 DEF Paths

LEMMA CallableWorked ==
  ASSUME NEW h, Ready(h), NEW path \in Paths
  PROVE  Worked(h, EvalCallable(path, h), 2)
<1>1. PICK c : c = EvalPath(path, h)
  OBVIOUS
<1>2. Good(h, c)
  BY <1>1, PathGood DEF Ready
<1>3. PICK t : t = c.heap[c.cell].type
  OBVIOUS
<1>4. PICK s : s = IF t = "member function" THEN EvalPath(Front(path), c.heap) ELSE c
  OBVIOUS
<1> DEFINE Callable == c.status = "ok" /\ (t = "free function" \/ (t = "member function" /\ Len(path) > 1))
<1>5. CASE Callable
  <2>1. Well(c.heap) /\ Keeps(h, c.heap) /\ c.cell \in DOMAIN c.heap
    BY <1>2, <1>5 DEF Good
  <2>2. Good(c.heap, s)
    <3>1. CASE t = "member function"
      <4>1. Front(path) \in Paths
        BY <1>5, <3>1, FrontOfPath
      <4>2. Ready(c.heap)
        BY <2>1, ReadyOn
      <4> QED BY <1>4, <3>1, <4>1, <4>2, PathGood DEF Ready
    <3>2. CASE t # "member function"
      BY <1>4, <1>5, <2>1, <3>2, KeepsItself DEF Good
    <3> QED BY <3>1, <3>2
  <2>3. Well(s.heap) /\ Keeps(h, s.heap) /\ c.cell \in DOMAIN s.heap
        /\ s.status # "running" /\ (s.status = "ok" => s.cell \in DOMAIN s.heap)
    BY <2>1, <2>2, KeepsOn DEF Good, Keeps
  <2>4. PICK v : v = <<c.cell, s.cell>>
    OBVIOUS
  <2>5. s.status = "ok" => v \in Seq(DOMAIN s.heap) /\ Len(v) = 2
    <3>1. \A S, x, y : x \in S /\ y \in S => <<x, y>> \in Seq(S) /\ Len(<<x, y>>) = 2
      OBVIOUS
    <3>2. PICK S : S = DOMAIN s.heap
      OBVIOUS
    <3>3. s.status = "ok" => v \in Seq(S) /\ Len(v) = 2
      BY <2>3, <2>4, <3>1, <3>2
    <3> QED BY <3>2, <3>3
  <2>6. EvalCallable(path, h) = [status |-> s.status, heap |-> s.heap, values |-> v]
    BY <1>1, <1>3, <1>4, <1>5, <2>4 DEF EvalCallable, CalleeOf, Callee
  <2> QED BY <2>3, <2>5, <2>6 DEF Worked
<1>6. CASE ~Callable
  <2>1. EvalCallable(path, h) = [status |-> "failed", heap |-> h, values |-> <<NoCell, NoCell>>]
    BY <1>1, <1>3, <1>6 DEF EvalCallable, CalleeOf, Callee
  <2> QED BY <2>1, KeepsItself DEF Worked, Ready
<1> QED BY <1>5, <1>6

LEMMA CallGood ==
  ASSUME NEW h, Ready(h), NEW e, e.names \in Seq(STRING),
         NEW taken \in Seq(DOMAIN h), Len(taken) = Len(e.names) + 2
  PROVE  Good(h, EvalCall(e, taken, h))
<1>1. PICK args : args = [i \in DOMAIN e.names |-> [name |-> e.names[i], cell |-> taken[i + 2]]]
  OBVIOUS
<1>2. PICK n \in Nat : n = Len(e.names) /\ DOMAIN e.names = 1..n
  OBVIOUS
<1>3. Len(args) = n
  BY <1>1, <1>2
<1>4. \A i \in 1..n : args[i].cell = taken[i + 2] /\ i + 2 \in 1..Len(taken)
  BY <1>1, <1>2
<1>5. AreArguments(args, h)
  BY <1>2, <1>3, <1>4 DEF AreArguments
<1>6. EvalCall(e, taken, h) = IF h[taken[1]].type = "free function"
                              THEN CallFunction(h, h[taken[1]].value, args)
                              ELSE CallMember(h, taken[2], Last(e.path), args)
  BY <1>1 DEF EvalCall
<1>7. taken[2] \in DOMAIN h
  BY <1>2
<1> QED BY <1>5, <1>6, <1>7, CallFunctionGood, CallMemberGood DEF Ready

LEMMA DictionaryGood ==
  ASSUME NEW h, Well(h), NEW e, e.keys \in Seq(STRING),
         NEW taken \in Seq(DOMAIN h), Len(taken) = Len(e.keys)
  PROVE  Good(h, EvalDictionary(e, taken, h))
<1> DEFINE At(k) == {i \in DOMAIN e.keys : e.keys[i] = k}
<1>1. PICK v : v = [k \in ToSet(e.keys) |-> taken[Min(At(k))]]
  OBVIOUS
<1>2. PICK n \in Nat : n = Len(e.keys) /\ DOMAIN e.keys = 1..n
  OBVIOUS
<1>3. IsFiniteSet(ToSet(e.keys))
  <2> DEFINE S == {e.keys[i] : i \in 1..n}
             f == [i \in 1..n |-> e.keys[i]]
  <2>1. f \in Surjection(1..n, S)
    BY DEF Surjection
  <2>2. IsFiniteSet(1..n)
    BY FS_Interval
  <2>3. ToSet(e.keys) = S
    BY <1>2 DEF ToSet
  <2> QED BY <2>1, <2>2, <2>3, FS_Surjection
<1>4. ASSUME NEW k \in ToSet(e.keys) PROVE v[k] \in DOMAIN h
  <2>1. At(k) # {} /\ At(k) \subseteq 1..n /\ At(k) \subseteq Nat
    BY <1>2 DEF ToSet
  <2>2. Min(At(k)) \in 1..n
    <3> HIDE DEF At
    <3> QED BY <2>1, MinIn
  <2> QED BY <1>1, <1>2, <2>2
<1>5. v \in [ToSet(e.keys) -> DOMAIN h] /\ DOMAIN v = ToSet(e.keys)
  BY <1>1, <1>4
<1>6. "dictionary" \in Dictionaries
  BY DEF Dictionaries
<1>7. Held([type |-> "dictionary", value |-> v], DOMAIN h)
  BY <1>3, <1>5, <1>6 DEF Held
<1>8. EvalDictionary(e, taken, h) = New(h, "dictionary", v)
  BY <1>1 DEF EvalDictionary
<1> QED BY <1>7, <1>8, NewIs

LEMMA EvalGood ==
  ASSUME NEW h, Ready(h), NEW e, IsOperation(e), e.expr # "callable",
         NEW taken \in Seq(DOMAIN h), Len(taken) = Takes(e)
  PROVE  Good(h, Eval(e, taken, h))
<1>1. Well(h)
  BY DEF Ready
<1>2. CASE e.expr = "literal"
  <2>1. e.type \notin Containers
    BY <1>2, TypesApart DEF IsOperation, Containers
  <2> QED BY <1>1, <1>2, <2>1, NewPlain DEF Eval, EvalLiteral
<1>3. CASE e.expr = "path"
  <2>1. e.path \in Paths /\ Eval(e, taken, h) = EvalPath(e.path, h)
    BY <1>3 DEF IsOperation, Eval
  <2> QED BY <2>1, PathGood DEF Ready
<1>4. CASE e.expr = "call"
  <2>1. e.names \in Seq(STRING) /\ Takes(e) = Len(e.names) + 2 /\ Eval(e, taken, h) = EvalCall(e, taken, h)
    BY <1>4 DEF IsOperation, Eval, Takes
  <2> QED BY <2>1, CallGood
<1>5. CASE e.expr = "array"
  <2>1. Held([type |-> "array", value |-> taken], DOMAIN h)
    BY TypesApart DEF Held
  <2>2. Eval(e, taken, h) = New(h, "array", taken)
    BY <1>5 DEF Eval, EvalArray
  <2> QED BY <1>1, <2>1, <2>2, NewIs
<1>6. CASE e.expr = "dictionary"
  <2>1. e.keys \in Seq(STRING) /\ Takes(e) = Len(e.keys) /\ Eval(e, taken, h) = EvalDictionary(e, taken, h)
    BY <1>6 DEF IsOperation, Eval, Takes
  <2> QED BY <1>1, <2>1, DictionaryGood
<1>7. CASE e.expr \in {"unary", "is"}
  <2>1. Takes(e) = 1
    BY <1>7 DEF Takes
  <2>2. taken[1] \in DOMAIN h
    BY <2>1
  <2>3. Good(h, EvalIs(e, taken[1], h))
    BY <1>1, NewPlain, FailGood, TypesApart DEF EvalIs
  <2> QED BY <1>1, <1>7, <2>2, <2>3, UnaryGood DEF Eval
<1>8. CASE e.expr = "binary"
  <2>1. Takes(e) = 2
    BY <1>8 DEF Takes
  <2>2. taken[1] \in DOMAIN h /\ taken[2] \in DOMAIN h
    BY <2>1
  <2> QED BY <1>1, <1>8, <2>2, BinaryGood DEF Eval
<1>9. CASE e.expr = "none"
  BY <1>1, <1>9, NewPlain, TypesApart DEF Eval
<1> QED BY <1>2, <1>3, <1>4, <1>5, <1>6, <1>7, <1>8, <1>9 DEF IsOperation

-----------------------------------------------------------------------------
(* The heights that an expression's operations have on the stack of        *)
(* values, and their runs.                                                 *)

(* The heights of the first n operations.                                  *)
AreHeights(f, code, n) == f = [k \in 0..n |-> IF k = 0 THEN 0 ELSE f[k - 1] - Takes(code[k]) + Gives(code[k])]

LEMMA HeightsExist ==
  ASSUME NEW n \in Nat, NEW code
  PROVE  \E f : AreHeights(f, code, n)
<1> DEFINE S == {m \in 0..n : \E f : AreHeights(f, code, m)}
           After(x, k) == x - Takes(code[k]) + Gives(code[k])
<1>0. \A f, m : AreHeights(f, code, m) <=> f = [k \in 0..m |-> IF k = 0 THEN 0 ELSE After(f[k - 1], k)]
  BY DEF AreHeights
<1> HIDE DEF After
<1>1. 0 \in S
  <2>1. PICK g : g = [k \in 0..0 |-> 0]
    OBVIOUS
  <2>2. g = [k \in 0..0 |-> IF k = 0 THEN 0 ELSE After(g[k - 1], k)]
    BY <2>1
  <2>3. AreHeights(g, code, 0)
    BY <1>0, <2>2
  <2> QED BY <2>3
<1>2. ASSUME NEW m \in 1..n, m - 1 \in S PROVE m \in S
  <2>1. PICK f : AreHeights(f, code, m - 1)
    BY <1>2
  <2>2. f = [k \in 0..m - 1 |-> IF k = 0 THEN 0 ELSE After(f[k - 1], k)]
    BY <1>0, <2>1
  <2>3. PICK g : g = [k \in 0..m |-> IF k = m THEN After(f[m - 1], m) ELSE f[k]]
    OBVIOUS
  <2>4. g = [k \in 0..m |-> IF k = 0 THEN 0 ELSE After(g[k - 1], k)]
    BY <2>2, <2>3
  <2>5. AreHeights(g, code, m)
    BY <1>0, <2>4
  <2> QED BY <2>5
<1> HIDE DEF S
<1>3. \A k \in 0..n : k \in S
  BY <1>1, <1>2, Upward
<1>4. n \in S
  BY <1>3
<1> QED BY <1>4 DEF S

LEMMA HeightDef ==
  ASSUME NEW code, Len(code) \in Nat
  PROVE  /\ Height(code)[0] = 0
         /\ \A k \in 1..Len(code) :
              Height(code)[k] = Height(code)[k - 1] - Takes(code[k]) + Gives(code[k])
<1>1. PICK n \in Nat : n = Len(code)
  OBVIOUS
<1>2. \E f : AreHeights(f, code, n)
  BY HeightsExist
<1>3. PICK f : f = Height(code) /\ AreHeights(f, code, n)
  BY <1>1, <1>2 DEF Height, AreHeights
<1>4. f[0] = 0 /\ \A k \in 1..n : f[k] = f[k - 1] - Takes(code[k]) + Gives(code[k])
  BY <1>3 DEF AreHeights
<1> QED BY <1>1, <1>3, <1>4

LEMMA OperationCounts ==
  ASSUME NEW e, IsOperation(e)
  PROVE  Takes(e) \in Nat /\ Gives(e) \in Nat
<1>1. CASE e.expr \in {"literal", "path", "callable", "none"}
  BY <1>1 DEF Takes, Gives
<1>2. CASE e.expr = "call"
  <2>1. Len(e.names) \in Nat
    BY <1>2 DEF IsOperation
  <2> QED BY <1>2, <2>1 DEF Takes, Gives
<1>3. CASE e.expr = "array"
  BY <1>3 DEF Takes, Gives, IsOperation
<1>4. CASE e.expr = "dictionary"
  <2>1. Len(e.keys) \in Nat
    BY <1>4 DEF IsOperation
  <2> QED BY <1>4, <2>1 DEF Takes, Gives
<1>5. CASE e.expr \in {"unary", "is", "binary"}
  BY <1>5 DEF Takes, Gives
<1> QED BY <1>1, <1>2, <1>3, <1>4, <1>5 DEF IsOperation

-----------------------------------------------------------------------------

(* The runs of the first n operations.                                     *)
After(e, r) == IF r.status = "ok" THEN Operate(e, r) ELSE r

Begun(h) == [status |-> "ok", heap |-> h, values |-> << >>]

AreRuns(f, code, h, n) == f = [k \in 0..n |-> IF k = 0 THEN Begun(h) ELSE After(code[k], f[k - 1])]

LEMMA RunsExist ==
  ASSUME NEW n \in Nat, NEW code, NEW h
  PROVE  \E f : AreRuns(f, code, h, n)
<1> DEFINE S == {m \in 0..n : \E f : AreRuns(f, code, h, m)}
<1>1. 0 \in S
  <2>1. PICK g : g = [k \in 0..0 |-> Begun(h)]
    OBVIOUS
  <2>2. AreRuns(g, code, h, 0)
    BY <2>1 DEF AreRuns
  <2> QED BY <2>2
<1>2. ASSUME NEW m \in 1..n, m - 1 \in S PROVE m \in S
  <2>1. PICK f : f = [k \in 0..m - 1 |-> IF k = 0 THEN Begun(h) ELSE After(code[k], f[k - 1])]
    BY <1>2 DEF AreRuns
  <2>2. PICK g : g = [k \in 0..m |-> IF k = m THEN After(code[m], f[m - 1]) ELSE f[k]]
    OBVIOUS
  <2>3. g = [k \in 0..m |-> IF k = 0 THEN Begun(h) ELSE After(code[k], g[k - 1])]
    BY <2>1, <2>2
  <2>4. AreRuns(g, code, h, m)
    BY <2>3 DEF AreRuns
  <2> QED BY <2>4
<1> HIDE DEF S
<1>3. \A k \in 0..n : k \in S
  BY <1>1, <1>2, Upward
<1>4. n \in S
  BY <1>3
<1> QED BY <1>4 DEF S

LEMMA RunDef ==
  ASSUME NEW code, NEW h, Len(code) \in Nat
  PROVE  AreRuns(Run(code, h), code, h, Len(code))
<1>1. PICK n \in Nat : n = Len(code)
  OBVIOUS
<1>2. \E f : AreRuns(f, code, h, n)
  BY RunsExist
<1> QED BY <1>1, <1>2 DEF Run, AreRuns, Begun, After

LEMMA OperateWorked ==
  ASSUME NEW h, Ready(h), NEW r, NEW n \in Nat, Worked(h, r, n), r.status = "ok",
         NEW e, IsOperation(e), Takes(e) <= n
  PROVE  Worked(h, Operate(e, r), n - Takes(e) + Gives(e))
<1>1. Well(r.heap) /\ Keeps(h, r.heap) /\ r.values \in Seq(DOMAIN r.heap) /\ Len(r.values) = n
  BY DEF Worked
<1>2. Ready(r.heap)
  BY <1>1, ReadyOn
<1>3. PICK t \in Nat : t = Takes(e)
  BY OperationCounts
<1>4. PICK left \in 0..n : left = n - t
  BY <1>3
<1>5. PICK rest, taken : rest = SubSeq(r.values, 1, left) /\ taken = SubSeq(r.values, left + 1, n)
  OBVIOUS
<1>6. /\ rest \in Seq(DOMAIN r.heap) /\ Len(rest) = left
      /\ taken \in Seq(DOMAIN r.heap) /\ Len(taken) = t
  <2>1. PICK S, v : S = DOMAIN r.heap /\ v = r.values
    OBVIOUS
  <2>2. v \in Seq(S) /\ Len(v) = n /\ rest = SubSeq(v, 1, left) /\ taken = SubSeq(v, left + 1, n)
    BY <1>1, <1>5, <2>1
  <2>3. rest \in Seq(S) /\ Len(rest) = left
    BY <2>2
  <2>4. taken \in Seq(S) /\ Len(taken) = t
    BY <1>4, <2>2
  <2> QED BY <2>1, <2>3, <2>4
<1>7. PICK given : given = IF e.expr = "callable" THEN EvalCallable(e.path, r.heap)
                           ELSE LET v == Eval(e, taken, r.heap)
                                IN  [status |-> v.status, heap |-> v.heap, values |-> <<v.cell>>]
  OBVIOUS
<1>8. PICK o : o = [status |-> given.status, heap |-> given.heap, values |-> rest \o given.values]
  OBVIOUS
<1>9. DOMAIN given = {"status", "heap", "values"} /\ given = [status |-> given.status, heap |-> given.heap, values |-> given.values]
  BY <1>7 DEF EvalCallable, CalleeOf, Callee
<1>10. Operate(e, r) = o
  <2>1. left = Len(r.values) - Takes(e) /\ Len(r.values) = n
    BY <1>1, <1>3, <1>4
  <2>2. Operate(e, r) = [given EXCEPT !.values = rest \o @]
    BY <1>5, <1>7, <2>1 DEF Operate
  <2> QED BY <1>8, <1>9, <2>2
<1>11. Worked(r.heap, given, Gives(e))
  <2>1. CASE e.expr = "callable"
    <3>1. e.path \in Paths /\ Gives(e) = 2
      BY <2>1 DEF IsOperation, Gives
    <3> QED BY <1>2, <1>7, <2>1, <3>1, CallableWorked
  <2>2. CASE e.expr # "callable"
    <3>1. PICK v : v = Eval(e, taken, r.heap)
      OBVIOUS
    <3>2. Good(r.heap, v)
      BY <1>2, <1>3, <1>6, <2>2, <3>1, EvalGood
    <3>3. given = [status |-> v.status, heap |-> v.heap, values |-> <<v.cell>>] /\ Gives(e) = 1
      BY <1>7, <2>2, <3>1 DEF Gives
    <3>4. \A S, x : x \in S => <<x>> \in Seq(S) /\ Len(<<x>>) = 1
      OBVIOUS
    <3> QED BY <3>2, <3>3, <3>4 DEF Good, Worked
  <2> QED BY <2>1, <2>2
<1>12. given.status = "ok" => o.values \in Seq(DOMAIN given.heap) /\ Len(o.values) = left + Gives(e)
  <2>1. PICK S, T, v : S = DOMAIN r.heap /\ T = DOMAIN given.heap /\ v = given.values
    OBVIOUS
  <2>2. S \subseteq T /\ rest \in Seq(S) /\ Len(rest) = left
    BY <1>6, <1>11, <2>1 DEF Worked, Keeps
  <2>3. rest \in Seq(T)
    BY <2>2
  <2> SUFFICES ASSUME given.status = "ok" PROVE rest \o v \in Seq(T) /\ Len(rest \o v) = left + Gives(e)
    BY <1>8, <2>1
  <2>4. v \in Seq(T) /\ Len(v) = Gives(e)
    BY <1>11, <2>1 DEF Worked
  <2> QED BY <2>2, <2>3, <2>4
<1>13. left + Gives(e) = n - Takes(e) + Gives(e)
  BY <1>3, <1>4, OperationCounts
<1>14. o.status = given.status /\ o.heap = given.heap
  BY <1>8
<1>15. Well(o.heap) /\ Keeps(h, o.heap) /\ o.status # "running"
  BY <1>1, <1>11, <1>14, KeepsOn DEF Worked
<1> QED BY <1>10, <1>12, <1>13, <1>14, <1>15 DEF Worked

-----------------------------------------------------------------------------
(* An expression leaves as many values as it says; scopes that are pushed, *)
(* popped and get a name.                                                  *)

LEMMA RunWorked ==
  ASSUME NEW h, Ready(h), NEW code, NEW n, Leaves(code, n)
  PROVE  Worked(h, EvalAll(code, h), n)
<1>1. PICK l \in Nat : l = Len(code) /\ DOMAIN code = 1..l
  BY DEF Leaves
<1>2. PICK f, g : f = Run(code, h) /\ g = Height(code)
  OBVIOUS
<1>3. f = [k \in 0..l |-> IF k = 0 THEN Begun(h) ELSE After(code[k], f[k - 1])]
  BY <1>1, <1>2, RunDef DEF AreRuns
<1>4. g[0] = 0 /\ \A k \in 1..l : g[k] = g[k - 1] - Takes(code[k]) + Gives(code[k])
  BY <1>1, <1>2, HeightDef
<1> DEFINE S == {k \in 0..l : g[k] \in Nat /\ Worked(h, f[k], g[k])}
<1>5. 0 \in S
  <2>1. f[0] = Begun(h)
    BY <1>1, <1>3
  <2>2. << >> \in Seq(DOMAIN h) /\ Len(<< >>) = 0
    OBVIOUS
  <2>3. Worked(h, Begun(h), 0)
    BY <2>2, KeepsItself DEF Begun, Worked, Ready
  <2> QED BY <1>1, <1>4, <2>1, <2>3
<1>6. ASSUME NEW k \in 1..l, k - 1 \in S PROVE k \in S
  <2>1. PICK m \in Nat : m = g[k - 1] /\ Worked(h, f[k - 1], m)
    BY <1>6
  <2>2. PICK e, r : e = code[k] /\ r = f[k - 1]
    OBVIOUS
  <2>3. IsOperation(e) /\ Takes(e) <= m
    BY <1>1, <1>2, <2>1, <2>2 DEF Leaves
  <2>4. g[k] = m - Takes(e) + Gives(e) /\ g[k] \in Nat
    BY <1>4, <2>1, <2>2, <2>3, OperationCounts
  <2>5. f[k] = After(e, r)
    BY <1>3, <2>2
  <2>6. CASE r.status = "ok"
    <3>1. Worked(h, Operate(e, r), m - Takes(e) + Gives(e))
      BY <2>1, <2>2, <2>3, <2>6, OperateWorked
    <3> QED BY <2>4, <2>5, <2>6, <3>1 DEF After
  <2>7. CASE r.status # "ok"
    <3>1. Worked(h, r, g[k])
      BY <2>1, <2>2, <2>7 DEF Worked
    <3> QED BY <2>4, <2>5, <2>7, <3>1 DEF After
  <2> QED BY <2>6, <2>7
<1> HIDE DEF S
<1>7. \A k \in 0..l : k \in S
  BY <1>5, <1>6, Upward
<1>8. l \in S /\ g[l] = n
  BY <1>1, <1>2, <1>7 DEF Leaves
<1> QED BY <1>1, <1>2, <1>8 DEF EvalAll, S

LEMMA ValueGood ==
  ASSUME NEW h, Ready(h), NEW code, Leaves(code, 1)
  PROVE  Good(h, Value(code, h))
<1>1. PICK r : r = EvalAll(code, h)
  OBVIOUS
<1>2. Worked(h, r, 1)
  BY <1>1, RunWorked
<1>3. Value(code, h) = [status |-> r.status, heap |-> r.heap, cell |-> Last(r.values)]
  BY <1>1 DEF Value, Result
<1>4. ASSUME r.status = "ok" PROVE Last(r.values) \in DOMAIN r.heap
  <2>1. PICK v, S : v = r.values /\ S = DOMAIN r.heap
    OBVIOUS
  <2>2. v \in Seq(S) /\ Len(v) = 1
    BY <1>2, <1>4, <2>1 DEF Worked
  <2>3. v[1] \in S /\ Last(v) = v[1]
    BY <2>2 DEF Last
  <2> QED BY <2>1, <2>3
<1> QED BY <1>2, <1>3, <1>4 DEF Worked, Good

-----------------------------------------------------------------------------

LEMMA Appended ==
  ASSUME NEW s, IsSeq(s), NEW x
  PROVE  /\ IsSeq(Append(s, x)) /\ Len(Append(s, x)) = Len(s) + 1 /\ Len(s) \in Nat
         /\ Append(s, x)[Len(s) + 1] = x /\ \A k \in 1..Len(s) : Append(s, x)[k] = s[k]
<1>0. PICK z : z = Append(s, x)
  OBVIOUS
<1>1. PICK S : s \in Seq(S)
  BY DEF IsSeq
<1>2. PICK U : U = S \union {x}
  OBVIOUS
<1>3. s \in Seq(U) /\ x \in U
  BY <1>1, <1>2
<1>4. z \in Seq(U) /\ Len(z) = Len(s) + 1 /\ Len(s) \in Nat
  BY <1>0, <1>3
<1>5. z[Len(s) + 1] = x /\ \A k \in 1..Len(s) : z[k] = s[k]
  BY <1>0, <1>3
<1> QED BY <1>0, <1>4, <1>5 DEF IsSeq

LEMMA Shortened ==
  ASSUME NEW s, IsSeq(s), Len(s) > 0, NEW z, z = Front(s)
  PROVE  /\ IsSeq(z) /\ Len(z) = Len(s) - 1 /\ Len(s) \in Nat
         /\ \A k \in 1..Len(s) - 1 : z[k] = s[k]
         /\ Last(s) = s[Len(s)]
<1>1. PICK S : s \in Seq(S)
  BY DEF IsSeq
<1>2. PICK m \in Nat : m = Len(s) - 1 /\ Len(s) \in Nat
  BY <1>1
<1>3. z = SubSeq(s, 1, m)
  BY <1>2 DEF Front
<1>4. z \in Seq(S) /\ Len(z) = m /\ \A k \in 1..m : z[k] = s[k]
  BY <1>1, <1>2, <1>3
<1> QED BY <1>2, <1>4 DEF IsSeq, Last

(* zs has the first n scopes of ss, with the same names. *)
Below(zs, ss, n) ==
  /\ IsStack(zs) /\ Len(zs) = n
  /\ \A i \in 1..n : zs[i].names = ss[i].names /\ zs[i].type = ss[i].type

(* One field of a scope, other than its names and type, is another one. *)
LEMMA Altered ==
  ASSUME NEW ss, IsStack(ss), NEW zs,
         \/ \E h, v : zs = [ss EXCEPT ![h].value = v]
         \/ \E h, v : zs = [ss EXCEPT ![h].policy = v]
  PROVE  Below(zs, ss, Len(ss))
<1>1. PICK S : ss \in Seq(S)
  BY DEF IsStack, IsSeq
<1>2. PICK n \in Nat : n = Len(ss) /\ DOMAIN ss = 1..n /\ n > 0
  BY <1>1 DEF IsStack
<1>3. DOMAIN zs = 1..n /\ zs = [i \in 1..n |-> zs[i]]
  BY <1>1, <1>2
<1>4. zs \in Seq({zs[i] : i \in 1..n}) /\ Len(zs) = n
  BY <1>2, <1>3
<1>5. ASSUME NEW i \in 1..n
      PROVE  IsScope(zs[i]) /\ zs[i].names = ss[i].names /\ zs[i].type = ss[i].type
  <2>1. PICK r : r = ss[i]
    OBVIOUS
  <2>2. r = [type |-> r.type, policy |-> r.policy, home |-> r.home, value |-> r.value, names |-> r.names]
    BY <1>2, <2>1 DEF IsStack, IsScope
  <2>3. \/ zs[i] = r
        \/ \E v : zs[i] = [r EXCEPT !.value = v]
        \/ \E v : zs[i] = [r EXCEPT !.policy = v]
    <3>1. i \in DOMAIN ss
      BY <1>2
    <3>2. CASE \E h, v : zs = [ss EXCEPT ![h].value = v]
      BY ONLY <2>1, <3>1, <3>2
    <3>3. CASE \E h, v : zs = [ss EXCEPT ![h].policy = v]
      BY ONLY <2>1, <3>1, <3>3
    <3> QED BY <3>2, <3>3
  <2>4. \A v : [r EXCEPT !.value = v] =
                 [type |-> r.type, policy |-> r.policy, home |-> r.home, value |-> v, names |-> r.names]
    BY <2>2
  <2>5. \A v : [r EXCEPT !.policy = v] =
                 [type |-> r.type, policy |-> v, home |-> r.home, value |-> r.value, names |-> r.names]
    BY <2>2
  <2>6. \E p, v : zs[i] = [type |-> r.type, policy |-> p, home |-> r.home, value |-> v, names |-> r.names]
    BY <2>2, <2>3, <2>4, <2>5
  <2>7. PICK p, v : zs[i] = [type |-> r.type, policy |-> p, home |-> r.home, value |-> v, names |-> r.names]
    BY <2>6
  <2> QED BY <2>1, <2>7 DEF IsScope
<1> QED BY <1>2, <1>4, <1>5 DEF Below, IsStack, IsSeq

LEMMA BelowOn ==
  ASSUME NEW xs, NEW ys, NEW zs, NEW m \in Nat, NEW n \in Nat, m <= n, Below(ys, zs, n), Below(xs, ys, m)
  PROVE  Below(xs, zs, m)
BY DEF Below

LEMMA ReturnBelow ==
  ASSUME NEW ss, IsStack(ss), NEW v
  PROVE  Below(ReturnValue(ss, v), ss, Len(ss))
<1>1. PICK n \in Nat : n = Len(ss)
  BY Lengths DEF IsStack
<1>2. PICK ys : ys = [ss EXCEPT ![Current(ss).home].value = v]
  OBVIOUS
<1>3. PICK zs : zs = [ys EXCEPT ![n].policy = "Return"]
  OBVIOUS
<1>4. ReturnValue(ss, v) = zs
  BY <1>1, <1>2, <1>3 DEF ReturnValue
<1>5. Below(ys, ss, n)
  BY <1>1, <1>2, Altered
<1>6. Below(zs, ys, n)
  <2>1. IsStack(ys) /\ Len(ys) = n
    BY <1>5 DEF Below
  <2>2. \E h, p : zs = [ys EXCEPT ![h].policy = p]
    BY <1>3
  <2> QED BY <2>1, <2>2, Altered
<1> QED BY <1>1, <1>4, <1>5, <1>6, BelowOn

LEMMA PopBelow ==
  ASSUME NEW ss, IsStack(ss), Len(ss) > 1
  PROVE  Below(Pop(ss), ss, Len(ss) - 1)
<1>1. PICK n \in Nat : n = Len(ss) - 1 /\ n > 0
  BY Lengths DEF IsStack
<1>2. PICK ys : ys = Front(ss)
  OBVIOUS
<1>3. IsSeq(ys) /\ Len(ys) = n /\ \A k \in 1..n : ys[k] = ss[k] /\ k \in 1..Len(ss)
  BY <1>1, <1>2, Shortened DEF IsStack
<1>4. Below(ys, ss, n)
  BY <1>1, <1>3 DEF Below, IsStack
<1>5. \/ Pop(ss) = ys
      \/ \E h, v : Pop(ss) = [ys EXCEPT ![h].policy = v]
  BY <1>2 DEF Pop
<1>6. Below(Pop(ss), ys, n)
  <2>1. CASE Pop(ss) = ys
    BY <1>4, <2>1 DEF Below
  <2>2. CASE \E h, v : Pop(ss) = [ys EXCEPT ![h].policy = v]
    <3>1. IsStack(ys) /\ Len(ys) = n
      BY <1>4 DEF Below
    <3>2. PICK zs : zs = Pop(ss)
      OBVIOUS
    <3>3. \E h, v : zs = [ys EXCEPT ![h].policy = v]
      BY <2>2, <3>2
    <3> QED BY <3>1, <3>2, <3>3, Altered
  <2> QED BY <1>5, <2>1, <2>2
<1> QED BY <1>1, <1>4, <1>6, BelowOn

(* zs is ss, with a name more in its last scope, the n-th. *)
Added(zs, ss, n, name, c) ==
  /\ \A i \in 1..n : zs[i].type = ss[i].type /\ (i # n => zs[i].names = ss[i].names)
  /\ DOMAIN zs[n].names = DOMAIN ss[n].names \union {name} /\ zs[n].names[name] = c
  /\ \A m \in DOMAIN ss[n].names : m # name => zs[n].names[m] = ss[n].names[m]

LEMMA AddIs ==
  ASSUME NEW ss, IsStack(ss), NEW name, NEW c, NEW zs, zs = Add(ss, name, c), NEW n, n = Len(ss)
  PROVE  IsStack(zs) /\ Len(zs) = n /\ Added(zs, ss, n, name, c)
<1>1. PICK S : ss \in Seq(S)
  BY DEF IsStack, IsSeq
<1>2. n \in Nat /\ DOMAIN ss = 1..n /\ n > 0 /\ n \in 1..n
  BY <1>1 DEF IsStack
<1>3. PICK r : r = ss[n]
  OBVIOUS
<1>4. PICK names : names = [m \in DOMAIN r.names \union {name} |-> IF m = name THEN c ELSE r.names[m]]
  OBVIOUS
<1>5. zs = [ss EXCEPT ![n] = [r EXCEPT !.names = names]]
  BY <1>2, <1>3, <1>4 DEF Add
<1>6. r = [type |-> r.type, policy |-> r.policy, home |-> r.home, value |-> r.value, names |-> r.names]
  BY <1>2, <1>3 DEF IsStack, IsScope
<1>7. PICK q : q = [type |-> r.type, policy |-> r.policy, home |-> r.home, value |-> r.value, names |-> names]
  OBVIOUS
<1>8. [r EXCEPT !.names = names] = q
  BY <1>6, <1>7
<1>9. zs = [i \in 1..n |-> IF i = n THEN q ELSE ss[i]]
  BY <1>2, <1>5, <1>8
<1>10. IsSeq(zs) /\ Len(zs) = n
  <2>1. zs \in Seq({zs[i] : i \in 1..n}) /\ Len(zs) = n
    BY <1>2, <1>9
  <2> QED BY <2>1 DEF IsSeq
<1>11. zs[n] = q /\ \A i \in 1..n : i # n => zs[i] = ss[i]
  BY <1>2, <1>9
<1>12. q.type = r.type /\ q.names = names /\ IsScope(q)
  BY <1>7 DEF IsScope
<1>13. \A i \in 1..n : IsScope(zs[i])
  BY <1>2, <1>11, <1>12 DEF IsStack
<1>14. IsStack(zs)
  BY <1>2, <1>10, <1>13 DEF IsStack
<1>15. /\ DOMAIN names = DOMAIN r.names \union {name} /\ names[name] = c
       /\ \A m \in DOMAIN r.names : m # name => names[m] = r.names[m]
  BY <1>4
<1> QED BY <1>2, <1>3, <1>10, <1>11, <1>12, <1>14, <1>15 DEF Added

-----------------------------------------------------------------------------
(* The inductive invariant, and a statement's end and a declaration.       *)

LEMMA HeldFewer ==
  ASSUME NEW content, NEW S, NEW T, Held(content, S), Elements(content) \subseteq T
  PROVE  Held(content, T)
<1>1. CASE content.type = "array"
  <2>1. PICK v : v = content.value
    OBVIOUS
  <2>2. v \in Seq(S) /\ Keys(content) = DOMAIN v
    BY <1>1, <2>1 DEF Held, Keys
  <2>3. \A i \in 1..Len(v) : v[i] \in T
    BY <2>1, <2>2 DEF Elements
  <2>4. v \in Seq(T)
    BY <2>2, <2>3
  <2> QED BY <1>1, <2>1, <2>4, TypesApart DEF Held
<1>2. CASE content.type \in Dictionaries
  <2>1. Keys(content) = DOMAIN content.value
    BY <1>2 DEF Keys
  <2>2. content.value \in [DOMAIN content.value -> T]
    BY <1>2, <2>1 DEF Held, Elements
  <2> QED BY <1>2, <2>2, TypesApart DEF Held
<1>3. CASE content.type \notin Dictionaries \union {"array"}
  BY <1>3 DEF Held
<1> QED BY <1>1, <1>2, <1>3

LEMMA LiveIs ==
  ASSUME NEW h, Well(h), NEW roots \in SUBSET DOMAIN h, NEW g, g = Live(h, roots)
  PROVE  /\ Well(g) /\ roots \subseteq DOMAIN g /\ DOMAIN g \subseteq DOMAIN h
         /\ \A c \in DOMAIN g : g[c] = h[c]
<1>1. PICK R : R = Reach(h, roots)
  OBVIOUS
<1>2. roots \subseteq R /\ R \subseteq DOMAIN h /\ \A c \in R : Elements(h[c]) \subseteq R
  BY <1>1, ReachIs
<1>3. DOMAIN g = R /\ \A c \in R : g[c] = h[c]
  BY <1>1 DEF Live
<1>4. IsFiniteSet(R)
  BY <1>2, FS_Subset DEF Well
<1>5. \A c \in R : Held(g[c], R)
  BY <1>2, <1>3, HeldFewer DEF Well
<1> QED BY <1>2, <1>3, <1>4, <1>5 DEF Well

(* The default values, in storage of their own. *)
Steady(h) ==
  \A t \in Simple :
    /\ Defaults[t] \in DOMAIN h
    /\ h[Defaults[t]].type = t
    /\ t \notin {"integer", "array"} => h[Defaults[t]].value = InitialValue[t]

LEMMA SteadyOn ==
  ASSUME NEW h, NEW g, Steady(h), Keeps(h, g)
  PROVE  Steady(g)
<1> SUFFICES ASSUME NEW t \in Simple
             PROVE  /\ Defaults[t] \in DOMAIN g
                    /\ g[Defaults[t]].type = t
                    /\ t \notin {"integer", "array"} => g[Defaults[t]].value = InitialValue[t]
  BY DEF Steady
<1>1. Defaults[t] \in DOMAIN g /\ g[Defaults[t]].type = t
  BY DEF Steady, Keeps
<1>2. t \in Lasting => g[Defaults[t]].value = InitialValue[t]
  BY DEF Steady, Keeps, Lasting
<1>3. t = "string" => g[Defaults[t]].value = InitialValue[t]
  <2>1. InitialValue["string"] = ""
    BY TypesApart DEF InitialValue
  <2> QED BY <2>1 DEF Steady, Keeps
<1>4. t \in {"integer", "array", "string"} \union Lasting
  BY TypesApart DEF Lasting
<1> QED BY <1>1, <1>2, <1>3, <1>4

LEMMA SteadyHas ==
  ASSUME NEW h, Steady(h)
  PROVE  HasDefaults(h)
BY DEF Steady, HasDefaults

(* VariablesApart, of any scopes. *)
Apart(stack) ==
  \A i, j \in DOMAIN stack :
    \A m \in DOMAIN stack[i].names : \A n \in DOMAIN stack[j].names :
      stack[i].names[m] = stack[j].names[n] =>
        \/ <<i, m>> = <<j, n>>
        \/ i > 1 /\ stack[i].type = "Function"
        \/ j > 1 /\ stack[j].type = "Function"
        \/ \E t \in Simple : stack[i].names[m] = Defaults[t]

LEMMA ApartBelow ==
  ASSUME NEW zs, NEW ss, NEW n \in Nat, n <= Len(ss), IsStack(ss), Below(zs, ss, n), Apart(ss)
  PROVE  Apart(zs) /\ Roots(zs) \subseteq Roots(ss)
<1>1. DOMAIN zs = 1..n /\ DOMAIN ss = 1..Len(ss) /\ Len(ss) \in Nat /\ \A i \in 1..n : i \in 1..Len(ss)
  BY Lengths DEF Below, IsStack
<1>2. \A i \in 1..n : zs[i].names = ss[i].names /\ zs[i].type = ss[i].type
  BY DEF Below
<1>3. Apart(zs)
  BY <1>1, <1>2 DEF Apart
<1>4. Roots(zs) \subseteq Roots(ss)
  BY <1>1, <1>2 DEF Roots, BoundIn
<1> QED BY <1>3, <1>4

LEMMA ApartAdd ==
  ASSUME NEW ss, IsStack(ss), Apart(ss), NEW name, NEW c, NEW zs, zs = Add(ss, name, c),
         c \notin Roots(ss) \/ \E t \in Simple : c = Defaults[t]
  PROVE  Apart(zs) /\ Roots(zs) \subseteq Roots(ss) \union {c}
<1>1. PICK n \in Nat : n = Len(ss) /\ n > 0
  BY Lengths DEF IsStack
<1>2. /\ IsStack(zs) /\ Len(zs) = n
      /\ \A i \in 1..n : zs[i].type = ss[i].type /\ (i # n => zs[i].names = ss[i].names)
      /\ DOMAIN zs[n].names = DOMAIN ss[n].names \union {name} /\ zs[n].names[name] = c
      /\ \A m \in DOMAIN ss[n].names : m # name => zs[n].names[m] = ss[n].names[m]
  <2>1. IsStack(zs) /\ Len(zs) = n /\ Added(zs, ss, n, name, c)
    BY <1>1, AddIs
  <2> QED BY <2>1 DEF Added
<1>3. DOMAIN zs = 1..n /\ DOMAIN ss = 1..n
  BY <1>1, <1>2, Lengths DEF IsStack
<1>4. ASSUME NEW i \in 1..n, NEW m \in DOMAIN zs[i].names
      PROVE  \/ i = n /\ m = name /\ zs[i].names[m] = c
             \/ m \in DOMAIN ss[i].names /\ zs[i].names[m] = ss[i].names[m]
  BY <1>1, <1>2
<1>5. \A i \in 1..n : \A m \in DOMAIN ss[i].names : ss[i].names[m] \in Roots(ss)
  BY <1>3, RootsAre
<1>6. Apart(zs)
  <2> SUFFICES ASSUME NEW i \in 1..n, NEW j \in 1..n,
                      NEW m \in DOMAIN zs[i].names, NEW k \in DOMAIN zs[j].names,
                      zs[i].names[m] = zs[j].names[k]
               PROVE  \/ <<i, m>> = <<j, k>>
                      \/ i > 1 /\ zs[i].type = "Function"
                      \/ j > 1 /\ zs[j].type = "Function"
                      \/ \E t \in Simple : zs[i].names[m] = Defaults[t]
    BY <1>3 DEF Apart
  <2>1. CASE i = n /\ m = name /\ zs[i].names[m] = c
    <3>1. CASE j = n /\ k = name
      BY <2>1, <3>1
    <3>2. CASE k \in DOMAIN ss[j].names /\ zs[j].names[k] = ss[j].names[k]
      BY <1>5, <2>1, <3>2
    <3> QED BY <1>4, <3>1, <3>2
  <2>2. CASE m \in DOMAIN ss[i].names /\ zs[i].names[m] = ss[i].names[m]
    <3>1. CASE j = n /\ k = name /\ zs[j].names[k] = c
      BY <1>5, <2>2, <3>1
    <3>2. CASE k \in DOMAIN ss[j].names /\ zs[j].names[k] = ss[j].names[k]
      <4>1. ss[i].names[m] = ss[j].names[k] /\ i \in DOMAIN ss /\ j \in DOMAIN ss
        BY <1>3, <2>2, <3>2
      <4>2. \/ <<i, m>> = <<j, k>>
            \/ i > 1 /\ ss[i].type = "Function"
            \/ j > 1 /\ ss[j].type = "Function"
            \/ \E t \in Simple : ss[i].names[m] = Defaults[t]
        BY <2>2, <3>2, <4>1 DEF Apart
      <4>3. zs[i].type = ss[i].type /\ zs[j].type = ss[j].type
        BY <1>2
      <4> QED BY <2>2, <4>2, <4>3
    <3> QED BY <1>4, <3>1, <3>2
  <2> QED BY <1>4, <2>1, <2>2
<1>7. Roots(zs) \subseteq Roots(ss) \union {c}
  <2>1. \A t \in Simple : Defaults[t] \in Roots(ss)
    BY RootsAre
  <2>2. \A i \in DOMAIN zs : \A m \in DOMAIN zs[i].names : zs[i].names[m] \in Roots(ss) \union {c}
    BY <1>3, <1>4, <1>5
  <2> QED BY <2>1, <2>2, RootsAre
<1> QED BY <1>6, <1>7

-----------------------------------------------------------------------------

(* Each declaration that awaits a result has the two scopes of its call.   *)
Called(stack, declarations) == IsSeq(declarations) /\ Len(stack) = 1 + 2 * Len(declarations)

(* The inductive invariant.                                                *)
IInv ==
  /\ Ready(heap)
  /\ Steady(heap)
  /\ Apart(scopes)
  /\ Called(scopes, pending)

LEMMA ContinueKeeps ==
  ASSUME NEW h, NEW stack, NEW declarations, Well(h), Steady(h), IsStack(stack), Roots(stack) \subseteq DOMAIN h,
         Apart(stack), Called(stack, declarations), Continue(h, stack, declarations)
  PROVE  IInv'
<1>1. PICK g : g = Live(h, Roots(stack))
  OBVIOUS
<1>2. /\ Well(g) /\ Roots(stack) \subseteq DOMAIN g /\ DOMAIN g \subseteq DOMAIN h
      /\ \A c \in DOMAIN g : g[c] = h[c]
  BY <1>1, LiveIs
<1>3. heap' = g /\ scopes' = stack /\ pending' = declarations
  BY <1>1 DEF Continue
<1>4. \A t \in Simple : Defaults[t] \in DOMAIN g
  BY ONLY <1>2, RootsAre
<1>5. Steady(g)
  BY <1>2, <1>4 DEF Steady
<1> QED BY <1>2, <1>3, <1>5 DEF IInv, Ready

LEMMA EndKeeps ==
  ASSUME IInv, NEW how, End(how)
  PROVE  IInv'
BY DEF IInv, Ready, End

LEMMA CopyIs ==
  ASSUME NEW h, Well(h), NEW c \in DOMAIN h, NEW roots \in SUBSET DOMAIN h, NEW r, r = Copy(h, c, roots)
  PROVE  /\ Good(h, r) /\ r.status = "ok" /\ r.cell \notin roots
         /\ (r.cell = c \/ r.cell \notin DOMAIN h) /\ DOMAIN r.heap = DOMAIN h \union {r.cell}
         /\ r.heap[r.cell] = h[c] /\ \A x \in DOMAIN h : r.heap[x] = h[x]
<1>1. CASE IsUnique(h, c, roots)
  <2>1. r = Share(h, c)
    BY <1>1 DEF Copy
  <2>2. Good(h, r) /\ r.heap = h /\ r.cell = c /\ r.status = "ok"
    BY <2>1, ShareGood DEF Share
  <2>3. c \notin roots /\ DOMAIN h = DOMAIN h \union {c}
    BY <1>1 DEF IsUnique
  <2> QED BY <2>2, <2>3
<1>2. CASE ~IsUnique(h, c, roots)
  <2>1. PICK t, v : t = h[c].type /\ v = h[c].value
    OBVIOUS
  <2>2. r = New(h, t, v)
    BY <1>2, <2>1 DEF Copy, Detach
  <2>3. h[c] = [type |-> t, value |-> v]
    BY <2>1 DEF Well, Held
  <2>4. Held([type |-> t, value |-> v], DOMAIN h)
    BY <2>3 DEF Well
  <2>5. /\ Good(h, r) /\ r.status = "ok" /\ r.cell \notin DOMAIN h
        /\ Changed(h, r.heap, r.cell, [type |-> t, value |-> v])
    BY <2>2, <2>4, NewIs
  <2> QED BY <2>3, <2>5 DEF Changed
<1> QED BY <1>1, <1>2

LEMMA BindKeeps ==
  ASSUME IInv, NEW s, NEW r, Good(heap, r), r.status = "ok",
         NEW stack, NEW n \in Nat, n <= Len(scopes), Below(stack, scopes, n),
         NEW declarations, Called(stack, declarations), Bind(s, r, stack, declarations)
  PROVE  IInv'
<1>1. PICK roots : roots = Roots(stack)
  OBVIOUS
<1>2. Apart(stack) /\ roots \subseteq DOMAIN heap /\ IsStack(stack)
  BY <1>1, ApartBelow DEF IInv, Ready, Below
<1>3. Well(r.heap) /\ Keeps(heap, r.heap) /\ r.cell \in DOMAIN r.heap /\ roots \subseteq DOMAIN r.heap
  BY <1>2 DEF Good, Keeps
<1>4. PICK copy : copy = Copy(r.heap, r.cell, roots)
  OBVIOUS
<1>5. Good(r.heap, copy) /\ copy.status = "ok" /\ copy.cell \notin roots
  BY <1>3, <1>4, CopyIs
<1>6. Well(copy.heap) /\ Keeps(heap, copy.heap) /\ copy.cell \in DOMAIN copy.heap /\ roots \subseteq DOMAIN copy.heap
  BY <1>3, <1>5, KeepsOn DEF Good, Keeps
<1>7. Steady(copy.heap) /\ HasDefaults(copy.heap)
  BY <1>6, SteadyOn, SteadyHas DEF IInv
<1>8. PICK made : made = Construct(copy.heap, s.type, copy.cell)
  OBVIOUS
<1>9. CASE made.status # "ok"
  <2>1. End("failed")
    BY <1>1, <1>4, <1>8, <1>9 DEF Bind
  <2> QED BY <2>1, EndKeeps
<1>10. CASE made.status = "ok"
  <2>1. PICK zs : zs = Add(stack, s.name, made.cell)
    OBVIOUS
  <2>2. Continue(made.heap, zs, declarations)
    BY <1>1, <1>4, <1>8, <1>10, <2>1 DEF Bind
  <2>3. /\ Good(copy.heap, made)
        /\ \/ made.cell = copy.cell
           \/ \E t \in Simple : made.cell = Defaults[t]
           \/ made.cell \notin DOMAIN copy.heap
    BY <1>6, <1>7, <1>8, <1>10, ConstructGood
  <2>4. Well(made.heap) /\ Keeps(copy.heap, made.heap) /\ made.cell \in DOMAIN made.heap
    BY <1>10, <2>3 DEF Good
  <2>5. Steady(made.heap) /\ roots \subseteq DOMAIN made.heap
    BY <1>6, <1>7, <2>4, SteadyOn DEF Keeps
  <2>6. made.cell \notin roots \/ \E t \in Simple : made.cell = Defaults[t]
    BY <1>5, <1>6, <2>3
  <2>7. Apart(zs) /\ Roots(zs) \subseteq roots \union {made.cell}
    BY <1>1, <1>2, <2>1, <2>6, ApartAdd
  <2>8. IsStack(zs) /\ Len(zs) = Len(stack)
    <3>1. PICK name, c : name = s.name /\ c = made.cell
      OBVIOUS
    <3>2. zs = Add(stack, name, c)
      BY <2>1, <3>1
    <3> QED BY <1>2, <3>2, AddIs
  <2>9. Called(zs, declarations)
    BY <2>8 DEF Called
  <2>10. Roots(zs) \subseteq DOMAIN made.heap
    BY <2>4, <2>5, <2>7
  <2> QED BY <2>2, <2>4, <2>5, <2>7, <2>8, <2>9, <2>10, ContinueKeeps
<1> QED BY <1>9, <1>10

-----------------------------------------------------------------------------
(* The initial state.                                                      *)

LEMMA BuiltinsAre ==
  /\ Len(SimpleTypes) = 7
  /\ \A n \in ToSet(Builtins) : \E i \in 1..4 : Builtins[i] = n /\ BuiltinCell[n] = <<7 + i>>
  /\ DOMAIN BuiltinCell = ToSet(Builtins)
<1>1. Len(SimpleTypes) = 7
  BY DEF SimpleTypes
<1>2. DOMAIN Builtins = 1..4
  BY DEF Builtins
<1>3. ASSUME NEW n \in ToSet(Builtins)
      PROVE  \E i \in 1..4 : Builtins[i] = n /\ BuiltinCell[n] = <<7 + i>>
  <2> DEFINE i == CHOOSE i \in DOMAIN Builtins : Builtins[i] = n
  <2>1. \E j \in DOMAIN Builtins : Builtins[j] = n
    BY DEF ToSet
  <2>2. i \in 1..4 /\ Builtins[i] = n
    BY <1>2, <2>1
  <2>3. BuiltinCell[n] = <<Len(SimpleTypes) + i>>
    BY DEF BuiltinCell
  <2> HIDE DEF i
  <2> QED BY <1>1, <2>2, <2>3
<1> QED BY <1>1, <1>3 DEF BuiltinCell

LEMMA InitialHeap ==
  ASSUME NEW h, h = With(DefaultHeap, BuiltinHeap)
  PROVE  /\ Well(h) /\ Steady(h)
         /\ DOMAIN h = {Defaults[t] : t \in Simple} \union {BuiltinCell[n] : n \in ToSet(Builtins)}
<1>1. PICK D, B : D = {Defaults[t] : t \in Simple} /\ B = {BuiltinCell[n] : n \in ToSet(Builtins)}
  OBVIOUS
<1>2. DOMAIN DefaultHeap = D /\ DOMAIN BuiltinHeap = B
  BY <1>1, DefaultsIn DEF BuiltinHeap
<1>3. \A c \in D : \E n \in 1..7 : c = <<n>>
  <2> SUFFICES ASSUME NEW t \in Simple PROVE \E n \in 1..7 : Defaults[t] = <<n>>
    BY <1>1
  <2>1. PICK n \in 1..Len(SimpleTypes) : SimpleTypes[n] = t /\ Defaults[t] = <<n>>
    BY DefaultsIn
  <2> QED BY <2>1, BuiltinsAre
<1>4. \A c \in B : \E n \in 8..11 : c = <<n>>
  <2> SUFFICES ASSUME NEW n \in ToSet(Builtins) PROVE \E k \in 8..11 : BuiltinCell[n] = <<k>>
    BY <1>1
  <2>1. PICK i \in 1..4 : BuiltinCell[n] = <<7 + i>>
    BY BuiltinsAre
  <2> QED BY <2>1
<1>5. B \intersect D = {}
  <2> SUFFICES ASSUME NEW c, c \in B, c \in D PROVE FALSE
    OBVIOUS
  <2>1. PICK i \in 1..7, k \in 8..11 : c = <<i>> /\ c = <<k>>
    BY <1>3, <1>4
  <2>2. <<i>>[1] = <<k>>[1]
    BY <2>1
  <2> QED BY <2>2
<1>6. DOMAIN h = D \union B /\ (\A c \in D : h[c] = DefaultHeap[c]) /\ (\A c \in B : h[c] = BuiltinHeap[c])
  BY <1>2, <1>5 DEF With
<1>7. IsFiniteSet(DOMAIN h)
  <2>0. PICK l \in Nat : l = 11
    OBVIOUS
  <2>2. IsFiniteSet(1..l)
    BY FS_Interval
  <2> DEFINE f == [n \in 1..l |-> <<n>>]
             S == {<<n>> : n \in 1..11}
  <2>1. f \in Surjection(1..l, S)
    BY <2>0 DEF Surjection
  <2>3. IsFiniteSet(S)
    <3> HIDE DEF f, S
    <3> QED BY <2>1, <2>2, FS_Surjection
  <2>4. \A n \in 1..7 : n \in 1..11
    OBVIOUS
  <2>5. \A n \in 8..11 : n \in 1..11
    OBVIOUS
  <2>6. D \subseteq S /\ B \subseteq S
    BY <1>3, <1>4, <2>4, <2>5
  <2> QED BY <1>6, <2>3, <2>6, FS_Subset
<1>8. ASSUME NEW t \in Simple PROVE Defaults[t] \in D /\ h[Defaults[t]] = [type |-> t, value |-> InitialValue[t]]
  BY <1>1, <1>6, DefaultsIn
<1>9. ASSUME NEW c \in D PROVE Held(h[c], DOMAIN h)
  <2>1. PICK t \in Simple : c = Defaults[t]
    BY <1>1
  <2>2. PICK v : v = InitialValue[t]
    OBVIOUS
  <2>3. h[c] = [type |-> t, value |-> v]
    BY <1>8, <2>1, <2>2
  <2>4. CASE t = "array"
    <3>1. v = << >>
      BY <2>2, <2>4 DEF InitialValue
    <3> QED BY <2>3, <3>1, HeldEmpty
  <2>5. CASE t # "array"
    <3>1. t \notin Containers
      BY <2>5, TypesApart DEF Containers
    <3> QED BY <2>3, <3>1, HeldPlain
  <2> QED BY <2>4, <2>5
<1>10. ASSUME NEW c \in B PROVE Held(h[c], DOMAIN h)
  <2>1. \E v : BuiltinHeap[c] = [type |-> "integer", value |-> v] \/ BuiltinHeap[c] = [type |-> "free function", value |-> v]
    BY <1>2 DEF BuiltinHeap
  <2>2. \A v : Held([type |-> "integer", value |-> v], DOMAIN h) /\ Held([type |-> "free function", value |-> v], DOMAIN h)
    BY HeldPlain, TypesApart
  <2> QED BY <1>6, <2>1, <2>2
<1>11. Well(h)
  BY <1>6, <1>7, <1>9, <1>10 DEF Well
<1>12. Steady(h)
  <2> SUFFICES ASSUME NEW t \in Simple
               PROVE  /\ Defaults[t] \in DOMAIN h
                      /\ h[Defaults[t]].type = t
                      /\ h[Defaults[t]].value = InitialValue[t]
    BY DEF Steady
  <2>1. PICK x : x = h[Defaults[t]]
    OBVIOUS
  <2>2. x = [type |-> t, value |-> InitialValue[t]]
    BY <1>8, <2>1
  <2>3. x.type = t /\ x.value = InitialValue[t]
    BY ONLY <2>2
  <2> QED BY <1>6, <1>8, <2>1, <2>3
<1> QED BY <1>1, <1>6, <1>11, <1>12

LEMMA InitialScopes ==
  ASSUME Init
  PROVE  IsStack(scopes) /\ Len(scopes) = 1 /\ scopes[1].names = BuiltinCell
<1>1. PICK b : b = Scope("Function", 1)
  OBVIOUS
<1>2. BaseScope = <<b>>
  BY <1>1 DEF BaseScope
<1>3. b = [type |-> "Function", policy |-> "Stay", home |-> 1, value |-> None, names |-> NoNames]
  BY <1>1 DEF Scope
<1>4. PICK c : c = [type |-> "Function", policy |-> "Stay", home |-> 1, value |-> None, names |-> BuiltinCell]
  OBVIOUS
<1>5. [b EXCEPT !.names = BuiltinCell] = c
  BY <1>3, <1>4
<1>6. scopes = <<c>>
  BY <1>2, <1>5 DEF Init
<1>7. IsScope(c) /\ c.names = BuiltinCell
  BY <1>4 DEF IsScope
<1>8. IsSeq(scopes) /\ Len(scopes) = 1 /\ scopes[1] = c
  <2>1. <<c>> \in Seq({c})
    OBVIOUS
  <2> QED BY <1>6, <2>1 DEF IsSeq
<1> QED BY <1>7, <1>8 DEF IsStack

LEMMA InitInv ==
  ASSUME Init
  PROVE  IInv
<1>1. /\ Well(heap) /\ Steady(heap)
      /\ DOMAIN heap = {Defaults[t] : t \in Simple} \union {BuiltinCell[n] : n \in ToSet(Builtins)}
  BY InitialHeap DEF Init
<1>2. IsStack(scopes) /\ Len(scopes) = 1 /\ scopes[1].names = BuiltinCell /\ DOMAIN scopes = {1}
  BY InitialScopes, Lengths DEF IsStack
<1>3. Roots(scopes) \subseteq DOMAIN heap
  BY <1>1, <1>2, BuiltinsAre DEF Roots, BoundIn
<1>4. Apart(scopes)
  <2> SUFFICES ASSUME NEW m \in ToSet(Builtins), NEW n \in ToSet(Builtins), BuiltinCell[m] = BuiltinCell[n]
               PROVE  m = n
    BY <1>2, BuiltinsAre DEF Apart
  <2>1. PICK i \in 1..4, k \in 1..4 : /\ Builtins[i] = m /\ BuiltinCell[m] = <<7 + i>>
                                      /\ Builtins[k] = n /\ BuiltinCell[n] = <<7 + k>>
    BY BuiltinsAre
  <2>2. <<7 + i>>[1] = <<7 + k>>[1]
    BY <2>1
  <2> QED BY <2>1, <2>2
<1>5. Called(scopes, pending)
  <2>1. pending = << >> /\ IsSeq(<< >>) /\ Len(<< >>) = 0
    BY DEF Init, IsSeq
  <2> QED BY <1>2, <2>1 DEF Called
<1> QED BY <1>1, <1>2, <1>3, <1>4, <1>5 DEF IInv, Ready

-----------------------------------------------------------------------------
(* What a heap is without the values that JSON has no word for, and the    *)
(* places of a container.                                                  *)

(* The sequence that Among makes, element by element.                      *)
Choice(v, chosen, x, k) == IF v[k] \in chosen THEN Append(x, v[k]) ELSE x

AreChoices(f, v, chosen, n) == f = [k \in 0..n |-> IF k = 0 THEN << >> ELSE Choice(v, chosen, f[k - 1], k)]

LEMMA ChoicesExist ==
  ASSUME NEW n \in Nat, NEW v, NEW chosen
  PROVE  \E f : AreChoices(f, v, chosen, n)
<1> DEFINE S == {m \in 0..n : \E f : AreChoices(f, v, chosen, m)}
<1>1. 0 \in S
  <2>1. PICK g : g = [k \in 0..0 |-> << >>]
    OBVIOUS
  <2>2. AreChoices(g, v, chosen, 0)
    BY <2>1 DEF AreChoices
  <2> QED BY <2>2
<1>2. ASSUME NEW m \in 1..n, m - 1 \in S PROVE m \in S
  <2>1. PICK f : f = [k \in 0..m - 1 |-> IF k = 0 THEN << >> ELSE Choice(v, chosen, f[k - 1], k)]
    BY <1>2 DEF AreChoices
  <2>2. PICK g : g = [k \in 0..m |-> IF k = m THEN Choice(v, chosen, f[m - 1], m) ELSE f[k]]
    OBVIOUS
  <2>3. g = [k \in 0..m |-> IF k = 0 THEN << >> ELSE Choice(v, chosen, g[k - 1], k)]
    BY <2>1, <2>2
  <2>4. AreChoices(g, v, chosen, m)
    BY <2>3 DEF AreChoices
  <2> QED BY <2>4
<1> HIDE DEF S
<1>3. \A k \in 0..n : k \in S
  BY <1>1, <1>2, Upward
<1>4. n \in S
  BY <1>3
<1> QED BY <1>4 DEF S

LEMMA HeldRecord ==
  ASSUME NEW t, NEW v, NEW cells, NEW x, x = [type |-> t, value |-> v],
         t = "array" => v \in Seq(cells),
         t \in Dictionaries => IsFiniteSet(DOMAIN v) /\ v \in [DOMAIN v -> cells]
  PROVE  Held(x, cells)
<1>1. x.type = t /\ x.value = v
  OBVIOUS
<1> QED BY <1>1 DEF Held

LEMMA AmongIn ==
  ASSUME NEW S, NEW T, NEW v \in Seq(S)
  PROVE  Among(v, T) \in Seq(S \intersect T)
<1>1. PICK n \in Nat : n = Len(v) /\ \A k \in 1..n : v[k] \in S
  OBVIOUS
<1>2. \E f : AreChoices(f, v, T, n)
  BY ChoicesExist
<1>3. PICK f : AreChoices(f, v, T, n) /\ Among(v, T) = f[n]
  BY <1>1, <1>2 DEF Among, AreChoices, Choice
<1>4. PICK U : U = S \intersect T
  OBVIOUS
<1> DEFINE G == {k \in 0..n : f[k] \in Seq(U)}
<1>5. 0 \in G
  BY <1>3 DEF AreChoices
<1>6. ASSUME NEW k \in 1..n, k - 1 \in G PROVE k \in G
  <2>1. PICK x \in Seq(U) : x = f[k - 1]
    BY <1>6
  <2>2. f[k] = Choice(v, T, x, k)
    BY <1>3, <2>1 DEF AreChoices
  <2>3. CASE v[k] \in T
    <3>1. v[k] \in U
      BY <1>1, <1>4, <2>3
    <3>2. Append(x, v[k]) \in Seq(U)
      BY <2>1, <3>1
    <3>3. f[k] = Append(x, v[k])
      BY <2>2, <2>3 DEF Choice
    <3>4. f[k] \in Seq(U)
      BY <3>2, <3>3
    <3> QED BY <3>4
  <2>4. CASE v[k] \notin T
    BY <2>1, <2>2, <2>4 DEF Choice
  <2> QED BY <2>3, <2>4
<1> HIDE DEF G
<1>7. \A k \in 0..n : k \in G
  BY <1>5, <1>6, Upward
<1> QED BY <1>3, <1>4, <1>7 DEF G

(* Without the others, a heap is well, too. *)
LEMMA DataIs ==
  ASSUME NEW h, Well(h), NEW d, d = WithoutOthers(h)
  PROVE  /\ Well(d) /\ DOMAIN d = DOMAIN h
         /\ \A c \in DOMAIN h : d[c] = [type |-> h[c].type, value |-> Told(h, c)]
         /\ \A c \in DOMAIN h : Held(d[c], Tellable(h))
         /\ Tellable(h) \subseteq DOMAIN h
         /\ Depth(d) <= Depth(h)
<1>1. PICK kept : kept = {c \in DOMAIN h : Convertible(h[c].type)}
  OBVIOUS
<1>2. Tellable(h) = kept
  BY <1>1 DEF Tellable, Convertible
<1>3. DOMAIN d = DOMAIN h
  BY DEF WithoutOthers
<1>4. ASSUME NEW c \in DOMAIN h PROVE d[c] = [type |-> h[c].type, value |-> Told(h, c)]
  BY <1>1, <1>2 DEF WithoutOthers, Told
<1>5. ASSUME NEW c \in DOMAIN h PROVE Held(d[c], kept) /\ (Keys(h[c]) = {} => Keys(d[c]) = {})
  <2>1. PICK t, v, w, x : t = h[c].type /\ v = h[c].value /\ w = Told(h, c) /\ x = d[c]
    OBVIOUS
  <2>2. x = [type |-> t, value |-> w]
    BY <1>4, <2>1
  <2>3. Held(h[c], DOMAIN h)
    BY DEF Well
  <2>4. x.type = t /\ x.value = w
    BY ONLY <2>2
  <2>5. CASE t = "array"
    <3>1. v \in Seq(DOMAIN h)
      BY <2>1, <2>3, <2>5 DEF Held
    <3>2. w = Among(v, kept)
      <4>1. Told(h, c) = Among(h[c].value, Tellable(h))
        BY <2>1, <2>5, TypesApart DEF Told
      <4> QED BY <1>2, <2>1, <4>1
    <3>3. w \in Seq(DOMAIN h \intersect kept)
      BY <3>1, <3>2, AmongIn
    <3>4. DOMAIN h \intersect kept \subseteq kept
      OBVIOUS
    <3>5. w \in Seq(kept)
      BY <3>3, <3>4
    <3>6. ASSUME DOMAIN v = {} PROVE DOMAIN w = {}
      <4>1. v \in Seq({})
        BY <3>1, <3>6
      <4>2. w \in Seq({} \intersect kept)
        BY <3>2, <4>1, AmongIn
      <4>3. w \in Seq({})
        BY <4>2
      <4> QED BY <4>3
    <3>7. Keys(h[c]) = DOMAIN v /\ Keys(x) = DOMAIN w
      BY <2>1, <2>4, <2>5 DEF Keys
    <3> QED BY <2>1, <2>2, <2>5, <3>5, <3>6, <3>7, TypesApart, HeldRecord
  <2>6. CASE t \in Dictionaries
    <3>1. IsFiniteSet(DOMAIN v) /\ v \in [DOMAIN v -> DOMAIN h]
      BY <2>1, <2>3, <2>6 DEF Held
    <3>2. PICK K : K = {k \in DOMAIN v : v[k] \in kept}
      OBVIOUS
    <3>3. w = [k \in K |-> v[k]]
      BY <1>2, <2>1, <2>6, <3>2, TypesApart DEF Told
    <3>4. IsFiniteSet(K) /\ K \subseteq DOMAIN v
      BY <3>1, <3>2, FS_Subset
    <3>5. IsFiniteSet(DOMAIN w) /\ w \in [DOMAIN w -> kept] /\ DOMAIN w \subseteq DOMAIN v
      BY <3>2, <3>3, <3>4
    <3>6. Keys(h[c]) = DOMAIN v /\ Keys(x) = DOMAIN w
      BY <2>1, <2>4, <2>6 DEF Keys
    <3> QED BY <2>1, <2>2, <2>6, <3>5, <3>6, TypesApart, HeldRecord
  <2>7. CASE t \notin Containers
    <3>1. Keys(x) = {}
      BY <2>4, <2>7 DEF Keys, Containers
    <3> QED BY <2>1, <2>2, <2>7, <3>1, HeldPlain
  <2> QED BY <2>5, <2>6, <2>7 DEF Containers
<1>6. kept \subseteq DOMAIN h
  BY <1>1
<1>7. Well(d)
  BY <1>3, <1>5, <1>6, HeldMore DEF Well
<1>8. Depth(d) <= Depth(h)
  <2>1. Full(d) \subseteq Full(h)
    BY <1>3, <1>5 DEF Full
  <2> QED BY <1>7, <2>1, DepthNat, FS_Subset DEF Well
<1> QED BY <1>2, <1>3, <1>4, <1>5, <1>6, <1>7, <1>8

-----------------------------------------------------------------------------

(* The places one step further, as PlacesAt has them.                      *)
Further(h, before) ==
  [p \in UNION {{Append(q, k) : k \in Keys(h[before[q]])} : q \in DOMAIN before} |->
     h[before[Front(p)]].value[Last(p)]]

Origin(c) == [p \in {<< >>} |-> c]

ArePlaces(f, h, c, n) == f = [k \in 0..n |-> IF k = 0 THEN Origin(c) ELSE Further(h, f[k - 1])]

LEMMA PlacesExist ==
  ASSUME NEW n \in Nat, NEW h, NEW c
  PROVE  \E f : ArePlaces(f, h, c, n)
<1> DEFINE S == {m \in 0..n : \E f : ArePlaces(f, h, c, m)}
<1>1. 0 \in S
  <2>1. PICK g : g = [k \in 0..0 |-> Origin(c)]
    OBVIOUS
  <2>2. ArePlaces(g, h, c, 0)
    BY <2>1 DEF ArePlaces
  <2> QED BY <2>2
<1>2. ASSUME NEW m \in 1..n, m - 1 \in S PROVE m \in S
  <2>1. PICK f : f = [k \in 0..m - 1 |-> IF k = 0 THEN Origin(c) ELSE Further(h, f[k - 1])]
    BY <1>2 DEF ArePlaces
  <2>2. PICK g : g = [k \in 0..m |-> IF k = m THEN Further(h, f[m - 1]) ELSE f[k]]
    OBVIOUS
  <2>3. g = [k \in 0..m |-> IF k = 0 THEN Origin(c) ELSE Further(h, g[k - 1])]
    BY <2>1, <2>2
  <2>4. ArePlaces(g, h, c, m)
    BY <2>3 DEF ArePlaces
  <2> QED BY <2>4
<1> HIDE DEF S
<1>3. \A k \in 0..n : k \in S
  BY <1>1, <1>2, Upward
<1>4. n \in S
  BY <1>3
<1> QED BY <1>4 DEF S

LEMMA PlacesDef ==
  ASSUME NEW h, NEW c, Depth(h) \in Nat
  PROVE  ArePlaces(PlacesAt(h, c), h, c, Depth(h))
<1>1. PICK n \in Nat : n = Depth(h)
  OBVIOUS
<1>2. \E f : ArePlaces(f, h, c, n)
  BY PlacesExist
<1> QED BY <1>1, <1>2 DEF PlacesAt, ArePlaces, Origin, Further

-----------------------------------------------------------------------------
(* The places are those of a tree, unless a container holds itself.        *)

LEMMA FrontLast ==
  ASSUME NEW K, NEW q \in Seq(K), NEW k, NEW p, p = Append(q, k)
  PROVE  Front(p) = q /\ Last(p) = k /\ Len(p) = Len(q) + 1
<1>1. PICK U : U = K \union {k}
  OBVIOUS
<1>2. q \in Seq(U) /\ k \in U
  BY <1>1
<1>3. PICK n \in Nat : n = Len(q)
  OBVIOUS
<1>4. Len(p) = n + 1 /\ p[n + 1] = k
  BY <1>2, <1>3
<1>5. SubSeq(p, 1, n) = q
  BY <1>2, <1>3
<1> QED BY <1>3, <1>4, <1>5 DEF Front, Last

(* The places n steps from the start, all of which have cells in S, and steps in K. *)
Ways(g, n, S, K) ==
  /\ IsFiniteSet(DOMAIN g)
  /\ \A p \in DOMAIN g : p \in Seq(K) /\ Len(p) = n /\ g[p] \in S

(* The cells in S are containers of each other, with elements at K. *)
Closed(h, S, K) ==
  \A c \in S : /\ IsFiniteSet(Keys(h[c])) /\ Keys(h[c]) \subseteq K
               /\ \A k \in Keys(h[c]) : h[c].value[k] \in S

(* z has the places of g's elements.                                       *)
Extends(h, g, z) ==
  /\ \A q \in DOMAIN g : \A k \in Keys(h[g[q]]) :
       Append(q, k) \in DOMAIN z /\ z[Append(q, k)] = h[g[q]].value[k]
  /\ \A p \in DOMAIN z : \E q \in DOMAIN g : \E k \in Keys(h[g[q]]) : p = Append(q, k)

LEMMA FurtherIs ==
  ASSUME NEW h, NEW S, NEW K, Closed(h, S, K), NEW n \in Nat, NEW g, Ways(g, n, S, K),
         NEW z, z = Further(h, g)
  PROVE  Ways(z, n + 1, S, K) /\ Extends(h, g, z)
<1> DEFINE F(q) == {Append(q, k) : k \in Keys(h[g[q]])}
<1>1. DOMAIN z = UNION {F(q) : q \in DOMAIN g}
  BY DEF Further
<1>2. ASSUME NEW q \in DOMAIN g, NEW k \in Keys(h[g[q]])
      PROVE  /\ Append(q, k) \in DOMAIN z /\ z[Append(q, k)] = h[g[q]].value[k]
             /\ Append(q, k) \in Seq(K) /\ Len(Append(q, k)) = n + 1 /\ z[Append(q, k)] \in S
  <2>1. Append(q, k) \in DOMAIN z
    BY <1>1
  <2>2. PICK p : p = Append(q, k)
    OBVIOUS
  <2>0. q \in Seq(K) /\ Len(q) = n
    BY DEF Ways
  <2>3. Front(p) = q /\ Last(p) = k /\ Len(p) = n + 1
    BY <2>0, <2>2, FrontLast
  <2>4. z[p] = h[g[Front(p)]].value[Last(p)]
    BY <2>1, <2>2 DEF Further
  <2>5. k \in K /\ h[g[q]].value[k] \in S
    BY DEF Closed, Ways
  <2>6. p \in Seq(K)
    BY <2>2, <2>5 DEF Ways
  <2> QED BY <2>1, <2>2, <2>3, <2>4, <2>5, <2>6
<1>3. \A p \in DOMAIN z : \E q \in DOMAIN g : \E k \in Keys(h[g[q]]) : p = Append(q, k)
  BY <1>1
<1>4. IsFiniteSet(DOMAIN z)
  <2>1. ASSUME NEW q \in DOMAIN g PROVE IsFiniteSet(F(q))
    <3> DEFINE f == [k \in Keys(h[g[q]]) |-> Append(q, k)]
    <3>1. IsFiniteSet(Keys(h[g[q]]))
      BY DEF Closed, Ways
    <3>2. f \in Surjection(Keys(h[g[q]]), F(q))
      BY DEF Surjection
    <3> HIDE DEF f, F
    <3> QED BY <3>1, <3>2, FS_Surjection
  <2>2. PICK T : T = {F(q) : q \in DOMAIN g}
    OBVIOUS
  <2>3. IsFiniteSet(T)
    <3> DEFINE f == [q \in DOMAIN g |-> F(q)]
    <3>1. f \in Surjection(DOMAIN g, T)
      BY <2>2 DEF Surjection
    <3> HIDE DEF f, F
    <3> QED BY <3>1, FS_Surjection DEF Ways
  <2>4. \A x \in T : IsFiniteSet(x)
    <3> HIDE DEF F
    <3> QED BY <2>1, <2>2
  <2>5. IsFiniteSet(UNION T)
    BY <2>3, <2>4, FS_UNION
  <2> QED BY <1>1, <2>2, <2>5
<1>5. Ways(z, n + 1, S, K)
  <2> SUFFICES ASSUME NEW p \in DOMAIN z PROVE p \in Seq(K) /\ Len(p) = n + 1 /\ z[p] \in S
    BY <1>4 DEF Ways
  <2>1. PICK q \in DOMAIN g : \E k \in Keys(h[g[q]]) : p = Append(q, k)
    BY <1>3
  <2> QED BY <1>2, <2>1
<1> QED BY <1>2, <1>3, <1>5 DEF Extends

LEMMA PlacesAtIs ==
  ASSUME NEW h, NEW S, NEW K, Closed(h, S, K), Depth(h) \in Nat, NEW c \in S, NEW f, f = PlacesAt(h, c)
  PROVE  /\ \A n \in 0..Depth(h) : Ways(f[n], n, S, K)
         /\ \A n \in 1..Depth(h) : Extends(h, f[n - 1], f[n])
         /\ f[0] = Origin(c)
<1>1. PICK l \in Nat : l = Depth(h)
  OBVIOUS
<1>2. f = [k \in 0..l |-> IF k = 0 THEN Origin(c) ELSE Further(h, f[k - 1])]
  BY <1>1, PlacesDef DEF ArePlaces
<1>3. f[0] = Origin(c) /\ \A k \in 1..l : f[k] = Further(h, f[k - 1])
  <2>1. 0 \in 0..l /\ \A k \in 1..l : k \in 0..l /\ k # 0
    OBVIOUS
  <2> QED BY <1>2, <2>1
<1> DEFINE T == {n \in 0..l : Ways(f[n], n, S, K)}
<1>4. 0 \in T
  <2>1. DOMAIN Origin(c) = {<< >>} /\ Origin(c)[<< >>] = c
    BY DEF Origin
  <2>2. << >> \in Seq(K) /\ Len(<< >>) = 0
    OBVIOUS
  <2>3. Ways(Origin(c), 0, S, K)
    BY <2>1, <2>2, FS_Singleton DEF Ways
  <2> QED BY <1>3, <2>3
<1>5. ASSUME NEW k \in 1..l, k - 1 \in T PROVE k \in T /\ Extends(h, f[k - 1], f[k])
  <2>1. PICK m \in Nat : m = k - 1 /\ m + 1 = k
    OBVIOUS
  <2>2. PICK g : g = f[k - 1]
    OBVIOUS
  <2>3. Ways(g, m, S, K) /\ f[k] = Further(h, g)
    BY <1>3, <1>5, <2>1, <2>2
  <2>4. Ways(f[k], m + 1, S, K) /\ Extends(h, g, f[k])
    BY <2>3, FurtherIs
  <2> QED BY <2>1, <2>2, <2>4
<1>6. \A k \in 0..l : k \in T
  <2> HIDE DEF T
  <2> QED BY <1>4, <1>5, Upward
<1>7. \A k \in 1..l : k - 1 \in 0..l
  OBVIOUS
<1> QED BY <1>1, <1>3, <1>5, <1>6, <1>7

(* Every place has its cell; without a cycle, those of its elements are places, too. *)
Tree(h, cell, c, S, K) ==
  /\ IsFiniteSet(DOMAIN cell)
  /\ << >> \in DOMAIN cell /\ cell[<< >>] = c
  /\ \A p \in DOMAIN cell : p \in Seq(K) /\ Len(p) \in 0..Depth(h) /\ cell[p] \in S

Spread(h, cell) ==
  \A p \in DOMAIN cell : \A k \in Keys(h[cell[p]]) :
    Append(p, k) \in DOMAIN cell /\ cell[Append(p, k)] = h[cell[p]].value[k]

LEMMA PlacesIs ==
  ASSUME NEW h, NEW S, NEW K, Closed(h, S, K), Depth(h) \in Nat, NEW c \in S,
         NEW cell, cell = Places(h, c)
  PROVE  Tree(h, cell, c, S, K) /\ (~Cyclic(h, c) => Spread(h, cell))
<1>1. PICK l \in Nat : l = Depth(h)
  OBVIOUS
<1>2. PICK f : f = PlacesAt(h, c)
  OBVIOUS
<1>3. /\ \A n \in 0..l : Ways(f[n], n, S, K)
      /\ \A n \in 1..l : Extends(h, f[n - 1], f[n])
      /\ f[0] = Origin(c)
  BY <1>1, <1>2, PlacesAtIs
<1>4. PICK D : D = UNION {DOMAIN f[n] : n \in 0..l}
  OBVIOUS
<1>5. cell = [p \in D |-> f[Len(p)][p]]
  BY <1>1, <1>2, <1>4 DEF Places
<1>6. \A n \in 0..l : \A p \in DOMAIN f[n] : p \in D /\ Len(p) = n /\ cell[p] = f[n][p]
  BY <1>3, <1>4, <1>5 DEF Ways
<1>7. ASSUME NEW p \in D PROVE \E n \in 0..l : p \in DOMAIN f[n]
  BY <1>4
<1>8. IsFiniteSet(D)
  <2>1. IsFiniteSet(0..l)
    BY FS_Interval
  <2>2. PICK T : T = {DOMAIN f[n] : n \in 0..l}
    OBVIOUS
  <2> DEFINE g == [n \in 0..l |-> DOMAIN f[n]]
  <2>3. g \in Surjection(0..l, T)
    BY <2>2 DEF Surjection
  <2>4. IsFiniteSet(T)
    <3> HIDE DEF g
    <3> QED BY <2>1, <2>3, FS_Surjection
  <2>5. \A x \in T : IsFiniteSet(x)
    BY <1>3, <2>2 DEF Ways
  <2> QED BY <1>4, <2>2, <2>4, <2>5, FS_UNION
<1>9. << >> \in D /\ cell[<< >>] = c
  <2>1. DOMAIN f[0] = {<< >>} /\ f[0][<< >>] = c /\ 0 \in 0..l
    BY <1>3 DEF Origin
  <2> QED BY <1>6, <2>1
<1>10. \A p \in D : p \in Seq(K) /\ Len(p) \in 0..l /\ cell[p] \in S
  BY <1>3, <1>6, <1>7 DEF Ways
<1>11. DOMAIN cell = D
  BY <1>5
<1>12. Tree(h, cell, c, S, K)
  BY <1>1, <1>8, <1>9, <1>10, <1>11 DEF Tree
<1>13. ASSUME NEW n \in 1..l, NEW q \in DOMAIN f[n - 1], NEW k \in Keys(h[f[n - 1][q]])
       PROVE  Append(q, k) \in D /\ cell[Append(q, k)] = h[cell[q]].value[k]
  <2>1. n - 1 \in 0..l /\ n \in 0..l
    OBVIOUS
  <2>2. Append(q, k) \in DOMAIN f[n] /\ f[n][Append(q, k)] = h[f[n - 1][q]].value[k]
    BY <1>3 DEF Extends
  <2>3. cell[q] = f[n - 1][q]
    BY <1>6, <2>1
  <2> QED BY <1>6, <2>1, <2>2, <2>3
<1>14. ASSUME ~Cyclic(h, c), NEW q \in DOMAIN f[l] PROVE Keys(h[f[l][q]]) = {}
  <2>1. PICK s : s = Steps(h, {c})
    OBVIOUS
  <2>2. s[0] = {c} /\ (\A k \in 1..l + 1 : s[k] = Follow(h, s[k - 1])) /\ s[l + 1] = {}
    BY <1>1, <1>14, <2>1, StepsDef DEF Cyclic
  <2> DEFINE T == {n \in 0..l : \A p \in DOMAIN f[n] : f[n][p] \in s[n]}
  <2>3. 0 \in T
    BY <1>3, <2>2 DEF Origin
  <2>4. ASSUME NEW n \in 1..l, n - 1 \in T PROVE n \in T
    <3>1. n \in 1..l + 1
      OBVIOUS
    <3>2. ASSUME NEW p \in DOMAIN f[n] PROVE f[n][p] \in s[n]
      <4>1. PICK x \in DOMAIN f[n - 1] : \E k \in Keys(h[f[n - 1][x]]) : p = Append(x, k)
        BY <1>3 DEF Extends
      <4>2. PICK k \in Keys(h[f[n - 1][x]]) : p = Append(x, k)
        BY <4>1
      <4>3. f[n][p] = h[f[n - 1][x]].value[k] /\ f[n - 1][x] \in s[n - 1]
        BY <1>3, <2>4, <4>2 DEF Extends
      <4> QED BY <2>2, <3>1, <4>3 DEF Follow, Elements
    <3> QED BY <3>2
  <2>5. \A n \in 0..l : n \in T
    <3> HIDE DEF T
    <3> QED BY <2>3, <2>4, Upward
  <2>6. f[l][q] \in s[l] /\ l + 1 \in 1..l + 1 /\ (l + 1) - 1 = l
    BY <2>5
  <2>7. Elements(h[f[l][q]]) = {}
    BY <2>2, <2>6 DEF Follow
  <2> QED BY <2>7 DEF Elements
<1>15. ASSUME ~Cyclic(h, c) PROVE Spread(h, cell)
  <2> SUFFICES ASSUME NEW p \in D, NEW k \in Keys(h[cell[p]])
               PROVE  Append(p, k) \in D /\ cell[Append(p, k)] = h[cell[p]].value[k]
    BY <1>11 DEF Spread
  <2>1. PICK n \in 0..l : p \in DOMAIN f[n] /\ cell[p] = f[n][p]
    BY <1>6, <1>7
  <2>2. CASE n = l
    BY <1>14, <1>15, <2>1, <2>2
  <2>3. CASE n # l
    <3>1. n + 1 \in 1..l /\ (n + 1) - 1 = n
      BY <2>3
    <3> QED BY <1>13, <2>1, <3>1
  <2> QED BY <2>2, <2>3
<1> QED BY <1>12, <1>15

-----------------------------------------------------------------------------
(* The copies that a reply is made of.                                     *)

LEMMA Rooted ==
  ASSUME NEW K, NEW p \in Seq(K), NEW m, NEW x, x = <<m>> \o p
  PROVE  Tail(x) = p /\ x[1] = m /\ Len(x) = Len(p) + 1
<1>1. PICK U : U = K \union {m}
  OBVIOUS
<1>2. p \in Seq(U) /\ <<m>> \in Seq(U) /\ Len(<<m>>) = 1
  BY <1>1
<1>3. PICK n \in Nat : n = Len(p)
  OBVIOUS
<1>4. x \in Seq(U) /\ Len(x) = n + 1 /\ x[1] = m /\ \A i \in 1..n : x[i + 1] = p[i]
  BY <1>2, <1>3
<1>5. Tail(x) \in Seq(U) /\ Len(Tail(x)) = n /\ \A i \in 1..n : Tail(x)[i] = x[i + 1]
  BY <1>4
<1>6. Tail(x) = p
  BY <1>2, <1>3, <1>4, <1>5
<1> QED BY <1>3, <1>4, <1>6

LEMMA RootedOn ==
  ASSUME NEW K, NEW p \in Seq(K), NEW m, NEW k \in K
  PROVE  Append(<<m>> \o p, k) = <<m>> \o Append(p, k)
<1>1. PICK U : U = K \union {m}
  OBVIOUS
<1>2. p \in Seq(U) /\ <<m>> \in Seq(U) /\ k \in U
  BY <1>1
<1>3. PICK r \in Seq(U) : r = <<m>>
  BY <1>2
<1>4. Append(r \o p, k) = r \o Append(p, k)
  BY <1>2
<1> QED BY <1>3, <1>4

(* A container's copy has the cells at its elements' places for elements. *)
CopyOf(content, m, p) ==
  [type  |-> IF content.type \in Dictionaries THEN "dictionary" ELSE content.type,
   value |-> IF content.type \in Containers
             THEN [k \in Keys(content) |-> <<m>> \o Append(p, k)]
             ELSE content.value]

(* made is the heap of the copies of what is at the places.                *)
Copies(made, d, cell, m) ==
  /\ DOMAIN made = {<<m>> \o p : p \in DOMAIN cell}
  /\ \A p \in DOMAIN cell : made[<<m>> \o p] = CopyOf(d[cell[p]], m, p)

LEMMA JsonIs ==
  ASSUME NEW d, NEW S, NEW K, Closed(d, S, K), NEW c, NEW cell, cell = Places(d, c), Tree(d, cell, c, S, K),
         \A x \in S : d[x].type \in JsonScalars \union Containers,
         NEW h, NEW m, Fresh(h) = <<m>>
  PROVE  \E made : /\ FromJson(h, ToJson(d, c)) = Share(With(h, made), <<m>>)
                   /\ Copies(made, d, cell, m)
<1>1. PICK j : j = ToJson(d, c)
  OBVIOUS
<1>2. DOMAIN j = DOMAIN cell
  BY <1>1 DEF ToJson
<1>3. PICK made : made = [x \in {<<m>> \o p : p \in DOMAIN j} |->
                            LET at == j[Tail(x)] IN
                            CASE at.json = "array" ->
                                   [type |-> "array", value |-> [k \in at.value |-> Append(x, k)]]
                              [] at.json = "object" ->
                                   [type |-> "dictionary", value |-> [k \in at.value |-> Append(x, k)]]
                              [] OTHER -> [type |-> at.json, value |-> at.value]]
  OBVIOUS
<1>4. FromJson(h, j) = Share(With(h, made), <<m>>)
  BY <1>3 DEF FromJson
<1>5. ASSUME NEW p \in DOMAIN cell PROVE made[<<m>> \o p] = CopyOf(d[cell[p]], m, p)
  <2>1. PICK x, content, at : x = <<m>> \o p /\ content = d[cell[p]] /\ at = j[p]
    OBVIOUS
  <2>2. p \in Seq(K) /\ cell[p] \in S
    BY DEF Tree
  <2>3. PICK t, v : t = content.type /\ v = content.value
    OBVIOUS
  <2>4. t \in JsonScalars \union Containers
    BY <2>1, <2>2, <2>3
  <2>5. Tail(x) = p /\ x \in DOMAIN made
    BY <1>2, <1>3, <2>1, <2>2, Rooted
  <2>6. PICK y : y = made[x]
    OBVIOUS
  <2>7. ASSUME NEW k \in Keys(content) PROVE Append(x, k) = <<m>> \o Append(p, k)
    BY <2>1, <2>2, RootedOn DEF Closed
  <2>8. CASE t = "array"
    <3>1. Keys(content) = DOMAIN v
      BY <2>3, <2>8 DEF Keys
    <3>2. at = [json |-> "array", value |-> DOMAIN v]
      BY <1>1, <1>2, <2>1, <2>3, <2>8, TypesApart DEF ToJson
    <3>3. at.json = "array" /\ at.value = DOMAIN v
      BY ONLY <3>2
    <3>4. y = [type |-> "array", value |-> [k \in DOMAIN v |-> Append(x, k)]]
      BY <1>3, <2>1, <2>5, <2>6, <3>3
    <3>5. [k \in DOMAIN v |-> Append(x, k)] = [k \in Keys(content) |-> <<m>> \o Append(p, k)]
      BY <2>7, <3>1
    <3>6. CopyOf(content, m, p) = [type |-> "array", value |-> [k \in Keys(content) |-> <<m>> \o Append(p, k)]]
      BY <2>3, <2>8, TypesApart DEF CopyOf, Containers
    <3> QED BY <2>1, <2>6, <3>4, <3>5, <3>6
  <2>9. CASE t \in Dictionaries
    <3>1. Keys(content) = DOMAIN v
      BY <2>3, <2>9 DEF Keys
    <3>2. at = [json |-> "object", value |-> DOMAIN v]
      BY <1>1, <1>2, <2>1, <2>3, <2>9, TypesApart DEF ToJson
    <3>3. at.json = "object" /\ at.value = DOMAIN v
      BY ONLY <3>2
    <3>4. y = [type |-> "dictionary", value |-> [k \in DOMAIN v |-> Append(x, k)]]
      BY <1>3, <2>1, <2>5, <2>6, <3>3
    <3>5. [k \in DOMAIN v |-> Append(x, k)] = [k \in Keys(content) |-> <<m>> \o Append(p, k)]
      BY <2>7, <3>1
    <3>6. CopyOf(content, m, p) = [type |-> "dictionary", value |-> [k \in Keys(content) |-> <<m>> \o Append(p, k)]]
      BY <2>3, <2>9, TypesApart DEF CopyOf, Containers
    <3> QED BY <2>1, <2>6, <3>4, <3>5, <3>6
  <2>10. CASE t \notin Containers
    <3>1. t \in {"boolean", "integer", "real", "string"} /\ t \notin Dictionaries /\ t # "array"
      BY <2>4, <2>10 DEF JsonScalars, Containers
    <3>2. at = [json |-> t, value |-> v]
      BY <1>1, <1>2, <2>1, <2>3, <3>1 DEF ToJson
    <3>3. at.json = t /\ at.value = v
      BY ONLY <3>2
    <3>4. y = [type |-> t, value |-> v]
      BY <1>3, <2>1, <2>5, <2>6, <3>1, <3>3
    <3>5. CopyOf(content, m, p) = [type |-> t, value |-> v]
      BY <2>3, <2>10, <3>1 DEF CopyOf
    <3> QED BY <2>1, <2>6, <3>4, <3>5
  <2> QED BY <2>8, <2>9, <2>10 DEF Containers
<1>6. DOMAIN made = {<<m>> \o p : p \in DOMAIN cell}
  BY <1>2, <1>3
<1> QED BY <1>1, <1>4, <1>5, <1>6 DEF Copies

(* No cell of h has the number of the reply's cells.                       *)
Unnumbered(h, m) == \A x \in DOMAIN h : x[1] # m

(* g is h and the copies of what is at each place, in the cells of M. *)
Placed(h, d, cell, m, M, g) ==
  /\ Well(g) /\ Keeps(h, g) /\ DOMAIN g = DOMAIN h \union M /\ M \intersect DOMAIN h = {}
  /\ \A x \in DOMAIN h : g[x] = h[x]
  /\ \A p \in DOMAIN cell : <<m>> \o p \in M /\ g[<<m>> \o p] = CopyOf(d[cell[p]], m, p)
  /\ \A x \in M : Elements(g[x]) \subseteq M

LEMMA CopiesWell ==
  ASSUME NEW d, NEW S, NEW K, Closed(d, S, K), NEW c, NEW cell, Tree(d, cell, c, S, K), Spread(d, cell),
         Well(d), S \subseteq DOMAIN d,
         NEW h, Well(h), NEW m, Unnumbered(h, m), NEW made, Copies(made, d, cell, m)
  PROVE  Placed(h, d, cell, m, DOMAIN made, With(h, made))
<1>0. PICK g : g = With(h, made)
  OBVIOUS
<1>1. PICK M : M = DOMAIN made
  OBVIOUS
<1>2. \A p \in DOMAIN cell : <<m>> \o p \in M /\ p \in Seq(K) /\ cell[p] \in S
  BY <1>1 DEF Copies, Tree
<1>3. \A x \in M : \E p \in DOMAIN cell : x = <<m>> \o p
  BY <1>1 DEF Copies
<1>4. M \intersect DOMAIN h = {}
  <2>1. \A x \in M : x[1] = m
    BY <1>2, <1>3, Rooted
  <2> QED BY <2>1 DEF Unnumbered
<1>5. IsFiniteSet(M)
  <2> DEFINE f == [p \in DOMAIN cell |-> <<m>> \o p]
  <2>1. f \in Surjection(DOMAIN cell, M)
    BY <1>2, <1>3 DEF Surjection
  <2>2. IsFiniteSet(DOMAIN cell)
    BY DEF Tree
  <2> HIDE DEF f
  <2> QED BY <2>1, <2>2, FS_Surjection
<1>6. ASSUME NEW x \in M PROVE Held(made[x], M)
  <2>1. PICK p \in DOMAIN cell : x = <<m>> \o p
    BY <1>3
  <2>2. PICK content : content = d[cell[p]]
    OBVIOUS
  <2>3. PICK t, v, w, Q : t = content.type /\ v = content.value /\ Q = Keys(content)
                          /\ w = [k \in Keys(content) |-> <<m>> \o Append(p, k)]
    OBVIOUS
  <2>4. IsFiniteSet(Q) /\ \A k \in Q : w[k] \in M
    <3>1. \A k \in Q : w[k] = <<m>> \o Append(p, k) /\ Append(p, k) \in DOMAIN cell
      BY <2>2, <2>3 DEF Spread
    <3>2. IsFiniteSet(Q)
      BY <1>2, <2>2, <2>3 DEF Closed
    <3> QED BY <1>2, <3>1, <3>2
  <2>5. DOMAIN w = Q /\ w \in [Q -> M]
    BY <2>3, <2>4
  <2>6. made[x] = CopyOf(content, m, p)
    BY <2>1, <2>2 DEF Copies
  <2>7. CASE t = "array"
    <3>1. Held(content, DOMAIN d)
      BY <1>2, <2>2 DEF Well
    <3>2. Q = 1..Len(v) /\ Len(v) \in Nat
      BY <2>3, <2>7, <3>1 DEF Keys, Held
    <3>3. w \in Seq(M)
      BY <2>5, <3>2
    <3>4. made[x] = [type |-> t, value |-> w]
      BY <2>3, <2>6, <2>7, TypesApart DEF CopyOf, Containers
    <3> QED BY <2>7, <3>3, <3>4, TypesApart, HeldRecord
  <2>8. CASE t \in Dictionaries
    <3>1. made[x] = [type |-> "dictionary", value |-> w]
      BY <2>3, <2>6, <2>8 DEF CopyOf, Containers
    <3>2. \A b : b = "dictionary" => b # "array"
      OBVIOUS
    <3> QED BY <2>4, <2>5, <3>1, <3>2, HeldRecord
  <2>9. CASE t \notin Containers
    <3>1. made[x] = [type |-> t, value |-> v]
      BY <2>3, <2>6, <2>9 DEF CopyOf, Containers
    <3> QED BY <2>9, <3>1, HeldPlain
  <2> QED BY <2>7, <2>8, <2>9 DEF Containers
<1>7. \A x \in M : Held(made[x], DOMAIN h \union M)
  BY <1>6, HeldMore
<1>8. /\ DOMAIN g = DOMAIN h \union M
      /\ \A x \in DOMAIN h : g[x] = h[x]
      /\ \A x \in M : g[x] = made[x]
      /\ Well(g) /\ Keeps(h, g)
  <2>1. /\ IsFiniteSet(DOMAIN made) /\ DOMAIN made \intersect DOMAIN h = {}
        /\ \A x \in DOMAIN made : Held(made[x], DOMAIN h \union DOMAIN made)
    BY <1>1, <1>4, <1>5, <1>7
  <2>2. /\ DOMAIN With(h, made) = DOMAIN h \union DOMAIN made
        /\ \A x \in DOMAIN h : With(h, made)[x] = h[x]
        /\ \A x \in DOMAIN made : With(h, made)[x] = made[x]
        /\ Well(With(h, made)) /\ Keeps(h, With(h, made))
    BY <2>1, WithIs
  <2> QED BY <1>0, <1>1, <2>2
<1>9. \A p \in DOMAIN cell : g[<<m>> \o p] = CopyOf(d[cell[p]], m, p)
  BY <1>2, <1>8 DEF Copies
<1>10. \A x \in M : Elements(g[x]) \subseteq M
  BY <1>6, <1>8, HeldElements
<1> QED BY <1>0, <1>1, <1>2, <1>4, <1>8, <1>9, <1>10 DEF Placed

-----------------------------------------------------------------------------
(* A reply is a well-formed part of the heap.                              *)

(* The reply has a copy of what is at each place of the request, without others, in cells of its own. *)
Replied(h, c, d, cell, m, M, g) ==
  /\ << >> \in DOMAIN cell /\ cell[<< >>] = c
  /\ \A p \in DOMAIN cell : /\ Len(p) \in 0..Depth(d) /\ cell[p] \in DOMAIN h
                            /\ d[cell[p]].type \in JsonScalars \union Containers
  /\ \A p \in DOMAIN cell : \A k \in Keys(d[cell[p]]) :
       /\ Append(p, k) \in DOMAIN cell /\ cell[Append(p, k)] = d[cell[p]].value[k]
       /\ Len(Append(p, k)) = Len(p) + 1
  /\ Placed(h, d, cell, m, M, g)

LEMMA ReplyIs ==
  ASSUME NEW h, Well(h), NEW c \in DOMAIN h, h[c].type \in Dictionaries,
         NEW d, d = WithoutOthers(h), ~Cyclic(d, c),
         NEW r, r = FromJson(h, ToJson(d, c))
  PROVE  \E m, cell, M, g : Replied(h, c, d, cell, m, M, g) /\ r = Share(g, <<m>>)
<1>1. /\ Well(d) /\ DOMAIN d = DOMAIN h
      /\ \A x \in DOMAIN h : d[x] = [type |-> h[x].type, value |-> Told(h, x)]
      /\ \A x \in DOMAIN h : Held(d[x], Tellable(h))
      /\ Tellable(h) \subseteq DOMAIN h
  BY DataIs
<1>2. PICK S, K : S = Tellable(h) \union {c} /\ K = UNION {Keys(d[x]) : x \in S}
  OBVIOUS
<1>3. S \subseteq DOMAIN h /\ c \in S
  BY <1>1, <1>2
<1>4. Closed(d, S, K)
  <2> SUFFICES ASSUME NEW x \in S
               PROVE  /\ IsFiniteSet(Keys(d[x])) /\ Keys(d[x]) \subseteq K
                      /\ \A k \in Keys(d[x]) : d[x].value[k] \in S
    BY DEF Closed
  <2>1. Held(d[x], Tellable(h))
    BY <1>1, <1>3
  <2> QED BY <1>2, <2>1, HeldElements
<1>5. Depth(d) \in Nat
  BY <1>1, DepthNat DEF Well
<1>6. ASSUME NEW x \in S PROVE d[x].type \in JsonScalars \union Containers
  <2>1. PICK t, v, y : t = h[x].type /\ v = Told(h, x) /\ y = d[x]
    OBVIOUS
  <2>2. y = [type |-> t, value |-> v]
    BY <1>1, <1>3, <2>1
  <2>3. y.type = t
    BY ONLY <2>2
  <2>4. t \in JsonScalars \union {"array", "dictionary"} \union Dictionaries
    BY <1>2, <2>1 DEF Tellable
  <2>5. "dictionary" \in Dictionaries
    BY DEF Dictionaries
  <2> QED BY <2>1, <2>3, <2>4, <2>5 DEF Containers
<1>7. PICK cell : cell = Places(d, c)
  OBVIOUS
<1>8. Tree(d, cell, c, S, K) /\ Spread(d, cell)
  BY <1>3, <1>4, <1>5, <1>7, PlacesIs
<1>9. PICK m \in Nat : Fresh(h) = <<m>> /\ \A x \in DOMAIN h : x[1] # m
  BY FreshIs DEF Well
<1>10. PICK made : r = Share(With(h, made), <<m>>) /\ Copies(made, d, cell, m)
  BY <1>4, <1>6, <1>7, <1>8, <1>9, JsonIs
<1>11. PICK g, M : g = With(h, made) /\ M = DOMAIN made
  OBVIOUS
<1>12. Placed(h, d, cell, m, M, g)
  <2>1. S \subseteq DOMAIN d /\ Unnumbered(h, m)
    BY <1>1, <1>3, <1>9 DEF Unnumbered
  <2> QED BY <1>1, <1>4, <1>8, <1>10, <1>11, <2>1, CopiesWell
<1>14. << >> \in DOMAIN cell /\ cell[<< >>] = c
       /\ \A p \in DOMAIN cell : /\ p \in Seq(K) /\ Len(p) \in 0..Depth(d) /\ cell[p] \in DOMAIN h
                                 /\ d[cell[p]].type \in JsonScalars \union Containers
  BY <1>3, <1>6, <1>8 DEF Tree
<1>15. ASSUME NEW p \in DOMAIN cell, NEW k \in Keys(d[cell[p]])
       PROVE  /\ Append(p, k) \in DOMAIN cell /\ cell[Append(p, k)] = d[cell[p]].value[k]
              /\ Len(Append(p, k)) = Len(p) + 1
  BY <1>8, <1>14, FrontLast DEF Spread
<1>16. Replied(h, c, d, cell, m, M, g)
  BY <1>12, <1>14, <1>15 DEF Replied
<1> QED BY <1>10, <1>11, <1>16

LEMMA RootIs ==
  ASSUME NEW h, NEW c, NEW d, NEW cell, NEW m, NEW M, NEW g, Replied(h, c, d, cell, m, M, g),
         d[c].type \in Dictionaries
  PROVE  /\ <<m>> \in M
         /\ g[<<m>>] = [type |-> "dictionary", value |-> [k \in Keys(d[c]) |-> <<m>> \o Append(<< >>, k)]]
<1>1. <<m>> \o << >> = <<m>>
  OBVIOUS
<1>2. << >> \in DOMAIN cell /\ cell[<< >>] = c
  BY DEF Replied
<1>3. <<m>> \in M /\ g[<<m>>] = CopyOf(d[c], m, << >>)
  BY <1>1, <1>2 DEF Replied, Placed
<1> QED BY <1>3, TypesApart DEF CopyOf, Containers

LEMMA TypedIs ==
  ASSUME NEW h, NEW c, NEW d, NEW cell, NEW m, NEW M, NEW g, Replied(h, c, d, cell, m, M, g),
         d[c].type \in Dictionaries, NEW t \in Dictionaries, NEW r, r = New(g, t, g[<<m>>].value)
  PROVE  /\ Good(h, r) /\ r.status = "ok" /\ r.cell \notin DOMAIN g
         /\ Changed(g, r.heap, r.cell, [type |-> t, value |-> [k \in Keys(d[c]) |-> <<m>> \o Append(<< >>, k)]])
<1>1. PICK v : v = [k \in Keys(d[c]) |-> <<m>> \o Append(<< >>, k)]
  OBVIOUS
<1>2. PICK x : x = g[<<m>>]
  OBVIOUS
<1>3. <<m>> \in M /\ x = [type |-> "dictionary", value |-> v]
  BY <1>1, <1>2, RootIs
<1>4. x.type = "dictionary" /\ x.value = v
  BY ONLY <1>3
<1>5. Well(g) /\ Keeps(h, g) /\ <<m>> \in DOMAIN g
  BY <1>3 DEF Replied, Placed
<1>6. "dictionary" \in Dictionaries
  BY DEF Dictionaries
<1>7. IsFiniteSet(DOMAIN v) /\ v \in [DOMAIN v -> DOMAIN g]
  BY <1>2, <1>4, <1>5, <1>6 DEF Well, Held
<1>8. Held([type |-> t, value |-> v], DOMAIN g)
  BY <1>7, TypesApart, HeldRecord
<1>9. r = New(g, t, v)
  BY <1>2, <1>4
<1>10. Good(g, r) /\ r.status = "ok" /\ r.cell \notin DOMAIN g /\ Changed(g, r.heap, r.cell, [type |-> t, value |-> v])
  BY <1>5, <1>8, <1>9, NewIs
<1>11. Good(h, r)
  BY <1>5, <1>10, GoodOn
<1> QED BY <1>1, <1>10, <1>11

-----------------------------------------------------------------------------
(* Declarations, evaluations and assignments; the scopes of a workflow     *)
(* that is called.                                                         *)

LEMMA BelowItself ==
  ASSUME NEW ss, IsStack(ss)
  PROVE  Below(ss, ss, Len(ss)) /\ Len(ss) \in Nat
BY Lengths DEF Below, IsStack

LEMMA SameKeeps ==
  ASSUME IInv, NEW h, Well(h), Keeps(heap, h), Continue(h, scopes, pending)
  PROVE  IInv'
<1>1. Steady(h) /\ Roots(scopes) \subseteq DOMAIN h
  BY SteadyOn DEF IInv, Ready, Keeps
<1> QED BY <1>1, ContinueKeeps DEF IInv, Ready

LEMMA CodeOf ==
  ASSUME NEW s \in Statements
  PROVE  /\ s.do \notin {"call", "assign"} => Leaves(s.value, 1)
         /\ s.do = "assign" => Leaves(s.value, 2)
         /\ s.do = "call" => /\ s.workflow \in DOMAIN Workflow
                             /\ s.names \in Seq(STRING)
                             /\ Leaves(s.args, Len(s.names))
<1> QED BY FlowValuesAssumption

LEMMA DeclareKeeps ==
  ASSUME IInv, NEW s \in Statements, Declare(s)
  PROVE  IInv'
<1>1. PICK r : r = Value(s.value, heap)
  OBVIOUS
<1>2. Good(heap, r)
  BY <1>1, CodeOf, ValueGood DEF Declare, IInv
<1>3. CASE \E how : End(how)
  BY <1>3, EndKeeps
<1>4. CASE r.status = "ok" /\ Bind(s, r, scopes, pending)
  <2>1. Below(scopes, scopes, Len(scopes)) /\ Len(scopes) \in Nat /\ Called(scopes, pending)
    BY BelowItself DEF IInv, Ready
  <2> QED BY <1>2, <1>4, <2>1, BindKeeps
<1> QED BY <1>1, <1>3, <1>4 DEF Declare

LEMMA EvaluateKeeps ==
  ASSUME IInv, NEW s \in Statements, Evaluate(s)
  PROVE  IInv'
<1>1. PICK r : r = Value(s.value, heap)
  OBVIOUS
<1>2. Good(heap, r)
  BY <1>1, CodeOf, ValueGood DEF Evaluate, Evaluated, IInv
<1>3. CASE \E how : End(how)
  BY <1>3, EndKeeps
<1>4. CASE Continue(r.heap, scopes, pending)
  BY <1>2, <1>4, SameKeeps DEF Good
<1>5. (\E how : End(how)) \/ Continue(r.heap, scopes, pending)
  <2>1. r.status = "ok" =>
          \/ s.do = "delay" /\ End("failed")
          \/ s.do = "condition" /\ End("failed")
          \/ Continue(r.heap, scopes, pending)
    BY <1>1 DEF Evaluate, Evaluated
  <2> QED BY <1>1, <2>1 DEF Evaluate, Evaluated
<1> QED BY <1>3, <1>4, <1>5

LEMMA AssignKeeps ==
  ASSUME IInv, NEW s \in Statements, AssignTo(s)
  PROVE  IInv'
<1>1. PICK r : r = EvalAll(s.value, heap)
  OBVIOUS
<1>2. Worked(heap, r, 2)
  BY <1>1, CodeOf, RunWorked DEF AssignTo, IInv
<1>3. CASE r.status # "ok"
  BY <1>1, <1>3, EndKeeps DEF AssignTo
<1>4. CASE r.status = "ok"
  <2>1. PICK S, v : S = DOMAIN r.heap /\ v = r.values
    OBVIOUS
  <2>2. v \in Seq(S) /\ Len(v) = 2
    BY <1>2, <1>4, <2>1 DEF Worked
  <2>3. PICK l \in S, x \in S : l = v[1] /\ x = v[2]
    BY <2>2
  <2>4. PICK z : z = Assign(r.heap, l, x)
    OBVIOUS
  <2>5. Continue(z.heap, scopes, pending)
    BY <1>1, <1>4, <2>1, <2>3, <2>4 DEF AssignTo
  <2>6. Good(r.heap, z)
    BY <1>2, <2>1, <2>4, AssignGood DEF Worked
  <2>7. Good(heap, z)
    BY <1>2, <2>6, GoodOn DEF Worked
  <2> QED BY <2>5, <2>7, SameKeeps DEF Good
<1> QED BY <1>3, <1>4

-----------------------------------------------------------------------------

LEMMA PushIs ==
  ASSUME NEW ss, IsStack(ss), NEW type, NEW zs, zs = Push(ss, type)
  PROVE  /\ IsStack(zs) /\ Len(zs) = Len(ss) + 1 /\ Len(ss) \in Nat
         /\ zs[Len(ss) + 1].type = type /\ DOMAIN zs[Len(ss) + 1].names = {}
         /\ \A i \in 1..Len(ss) : zs[i] = ss[i]
<1>1. PICK home : zs = Append(ss, Scope(type, home))
  BY DEF Push
<1>2. PICK x : x = Scope(type, home)
  OBVIOUS
<1>3. /\ IsSeq(zs) /\ Len(zs) = Len(ss) + 1 /\ Len(ss) \in Nat
      /\ zs[Len(ss) + 1] = x /\ \A k \in 1..Len(ss) : zs[k] = ss[k]
  <2>1. IsSeq(ss) /\ zs = Append(ss, x)
    BY <1>1, <1>2 DEF IsStack
  <2> QED BY ONLY <2>1, Appended
<1>4. x = [type |-> type, policy |-> "Stay", home |-> home, value |-> None, names |-> NoNames]
  BY <1>2 DEF Scope
<1>5. x.type = type /\ DOMAIN x.names = {} /\ IsScope(x)
  BY <1>4 DEF IsScope, NoNames
<1>6. \A k \in 1..Len(ss) + 1 : k = Len(ss) + 1 \/ k \in 1..Len(ss)
  BY <1>3
<1>7. IsStack(zs)
  BY <1>3, <1>5, <1>6 DEF IsStack
<1> QED BY <1>3, <1>5, <1>7

(* The last scope with other names.                                        *)
WithNames(ss, names) == [ss EXCEPT ![Len(ss)].names = names]

LEMMA NamesAre ==
  ASSUME NEW ss, IsStack(ss), NEW names, NEW zs, zs = WithNames(ss, names)
  PROVE  /\ IsStack(zs) /\ Len(zs) = Len(ss)
         /\ zs[Len(ss)].type = ss[Len(ss)].type /\ zs[Len(ss)].names = names
         /\ \A i \in 1..Len(ss) : i # Len(ss) => zs[i] = ss[i]
<1>1. PICK S : ss \in Seq(S)
  BY DEF IsStack, IsSeq
<1>2. PICK n \in Nat : n = Len(ss) /\ DOMAIN ss = 1..n /\ n > 0 /\ n \in 1..n
  BY <1>1 DEF IsStack
<1>3. PICK r : r = ss[n]
  OBVIOUS
<1>4. r = [type |-> r.type, policy |-> r.policy, home |-> r.home, value |-> r.value, names |-> r.names]
  BY <1>2, <1>3 DEF IsStack, IsScope
<1>5. PICK q : q = [type |-> r.type, policy |-> r.policy, home |-> r.home, value |-> r.value, names |-> names]
  OBVIOUS
<1>6. [r EXCEPT !.names = names] = q
  BY <1>4, <1>5
<1>7. zs = [i \in 1..n |-> IF i = n THEN q ELSE ss[i]]
  BY <1>2, <1>3, <1>6 DEF WithNames
<1>8. IsSeq(zs) /\ Len(zs) = n
  <2>1. zs \in Seq({zs[i] : i \in 1..n}) /\ Len(zs) = n
    BY ONLY <1>2, <1>7
  <2> QED BY <2>1 DEF IsSeq
<1>9. zs[n] = q /\ \A i \in 1..n : i # n => zs[i] = ss[i]
  BY <1>2, <1>7
<1>10. q.type = r.type /\ q.names = names /\ IsScope(q)
  BY <1>5 DEF IsScope
<1>11. IsStack(zs)
  BY <1>2, <1>8, <1>9, <1>10 DEF IsStack
<1> QED BY <1>2, <1>3, <1>8, <1>9, <1>10, <1>11

(* A workflow's scopes: its inputs are values of S, and there is nothing else. *)
Entered(zs, ss, n, S) ==
  /\ IsStack(zs) /\ Len(zs) = n + 2
  /\ \A i \in 1..n : zs[i] = ss[i]
  /\ zs[n + 1].type = "Function" /\ \A x \in DOMAIN zs[n + 1].names : zs[n + 1].names[x] \in S
  /\ DOMAIN zs[n + 2].names = {}

LEMMA EnteredIs ==
  ASSUME NEW ss, IsStack(ss), NEW S, NEW bound, \A x \in DOMAIN bound : bound[x] \in S,
         NEW called, called = Push(ss, "Function"),
         NEW zs, zs = Push([called EXCEPT ![Len(called)].names = bound], "Local")
  PROVE  Entered(zs, ss, Len(ss), S) /\ Len(ss) \in Nat
<1>1. PICK n \in Nat : n = Len(ss)
  BY Lengths DEF IsStack
<1>2. /\ IsStack(called) /\ Len(called) = n + 1
      /\ called[n + 1].type = "Function"
      /\ \A i \in 1..n : called[i] = ss[i]
  BY <1>1, PushIs
<1>3. PICK ys : ys = [called EXCEPT ![Len(called)].names = bound]
  OBVIOUS
<1>4. /\ IsStack(ys) /\ Len(ys) = n + 1
      /\ ys[n + 1].type = "Function" /\ ys[n + 1].names = bound
      /\ \A i \in 1..n + 1 : i # n + 1 => ys[i] = called[i]
  <2>1. /\ IsStack(ys) /\ Len(ys) = Len(called)
        /\ ys[Len(called)].type = called[Len(called)].type /\ ys[Len(called)].names = bound
        /\ \A i \in 1..Len(called) : i # Len(called) => ys[i] = called[i]
    <3>1. ys = WithNames(called, bound)
      BY <1>3 DEF WithNames
    <3> QED BY ONLY <1>2, <3>1, NamesAre
  <2> QED BY ONLY <1>2, <2>1
<1>5. /\ IsStack(zs) /\ Len(zs) = (n + 1) + 1
      /\ DOMAIN zs[(n + 1) + 1].names = {}
      /\ \A i \in 1..n + 1 : zs[i] = ys[i]
  <2>1. zs = Push(ys, "Local") /\ IsStack(ys)
    BY <1>3, <1>4
  <2>2. /\ IsStack(zs) /\ Len(zs) = Len(ys) + 1
        /\ DOMAIN zs[Len(ys) + 1].names = {}
        /\ \A i \in 1..Len(ys) : zs[i] = ys[i]
    BY ONLY <2>1, PushIs
  <2> QED BY ONLY <1>4, <2>2
<1>6. \A i \in 1..n : i \in 1..n + 1 /\ i # n + 1
  OBVIOUS
<1>7. n + 1 \in 1..n + 1 /\ (n + 1) + 1 = n + 2
  OBVIOUS
<1>8. \A i \in 1..n : zs[i] = ss[i]
  BY ONLY <1>2, <1>4, <1>5, <1>6
<1>9. zs[n + 1].type = "Function" /\ zs[n + 1].names = bound
  BY ONLY <1>4, <1>5, <1>7
<1>10. IsStack(zs) /\ Len(zs) = n + 2 /\ DOMAIN zs[n + 2].names = {}
  BY ONLY <1>5, <1>7
<1>11. Entered(zs, ss, n, S)
  <2>1. \A x \in DOMAIN bound : bound[x] \in S
    OBVIOUS
  <2> QED BY ONLY <1>8, <1>9, <1>10, <2>1 DEF Entered
<1> QED BY <1>1, <1>11

LEMMA EnteredApart ==
  ASSUME NEW ss, IsStack(ss), Apart(ss), NEW n \in Nat, n = Len(ss), NEW S, NEW zs, Entered(zs, ss, n, S)
  PROVE  Apart(zs) /\ Roots(zs) \subseteq Roots(ss) \union S
<1>1. DOMAIN zs = 1..n + 2 /\ DOMAIN ss = 1..n /\ n > 0
  BY Lengths DEF Entered, IsStack
<1>2. ASSUME NEW i \in 1..n + 2, NEW m \in DOMAIN zs[i].names
      PROVE  \/ i \in 1..n /\ zs[i] = ss[i]
             \/ i > 1 /\ zs[i].type = "Function" /\ zs[i].names[m] \in S
  <2>1. i \in 1..n \/ i = n + 1 \/ i = n + 2
    OBVIOUS
  <2> QED BY <1>1, <2>1 DEF Entered
<1>3. Apart(zs)
  <2> SUFFICES ASSUME NEW i \in 1..n + 2, NEW j \in 1..n + 2,
                      NEW m \in DOMAIN zs[i].names, NEW k \in DOMAIN zs[j].names,
                      zs[i].names[m] = zs[j].names[k]
               PROVE  \/ <<i, m>> = <<j, k>>
                      \/ i > 1 /\ zs[i].type = "Function"
                      \/ j > 1 /\ zs[j].type = "Function"
                      \/ \E t \in Simple : zs[i].names[m] = Defaults[t]
    BY <1>1 DEF Apart
  <2>1. CASE i \in 1..n /\ zs[i] = ss[i] /\ j \in 1..n /\ zs[j] = ss[j]
    BY <1>1, <2>1 DEF Apart
  <2> QED BY <1>2, <2>1
<1>4. Roots(zs) \subseteq Roots(ss) \union S
  <2>1. \A t \in Simple : Defaults[t] \in Roots(ss)
    BY RootsAre
  <2>2. \A i \in 1..n : \A m \in DOMAIN ss[i].names : ss[i].names[m] \in Roots(ss)
    BY <1>1, RootsAre
  <2>3. \A i \in 1..n + 2 : \A m \in DOMAIN zs[i].names : zs[i].names[m] \in Roots(ss) \union S
    BY <1>2, <2>2
  <2> QED BY <1>1, <2>1, <2>3, RootsAre
<1> QED BY <1>3, <1>4

-----------------------------------------------------------------------------
(* A workflow's call and return, and an error that is raised.              *)

LEMMA ArgumentIn ==
  ASSUME NEW s, s.names \in Seq(STRING), NEW inputs, inputs = Workflow[s.workflow].inputs,
         NEW n \in Nat, n = Len(s.names), inputs \in Seq(ToSet(inputs)), Len(inputs) = n, NEW i \in 1..n
  PROVE  ArgumentFor(s, i) \in 1..n
<1>1. PICK names : names = s.names
  OBVIOUS
<1>2. PICK named : named = {j \in DOMAIN names : names[j] = inputs[i].name}
  OBVIOUS
<1>3. ArgumentFor(s, i) = IF named = {} THEN i ELSE Min(named)
  BY <1>1, <1>2 DEF ArgumentFor
<1>4. DOMAIN names = 1..n
  BY <1>1
<1>5. named \subseteq 1..n
  BY <1>2, <1>4
<1>6. named # {} => Min(named) \in named
  BY <1>5, MinIn
<1> QED BY <1>3, <1>5, <1>6

LEMMA CallKeeps ==
  ASSUME IInv, NEW s \in Statements, Call(s)
  PROVE  IInv'
<1>0. /\ s.workflow \in DOMAIN Workflow /\ s.names \in Seq(STRING) /\ Leaves(s.args, Len(s.names))
      /\ Workflow[s.workflow].inputs \in Seq(ToSet(Workflow[s.workflow].inputs))
  BY CodeOf, FlowValuesAssumption DEF Call
<1>1. PICK r, inputs, called, names :
        /\ r = EvalAll(s.args, heap) /\ inputs = Workflow[s.workflow].inputs
        /\ called = Push(scopes, "Function") /\ names = {inputs[i].name : i \in DOMAIN inputs}
  OBVIOUS
<1> DEFINE Number(x) == CHOOSE i \in DOMAIN Workflow[s.workflow].inputs : Workflow[s.workflow].inputs[i].name = x
<1>2. PICK bound :
        bound = [x \in {Workflow[s.workflow].inputs[i].name : i \in DOMAIN Workflow[s.workflow].inputs} |->
                   EvalAll(s.args, heap).values[ArgumentFor(s, Number(x))]]
  OBVIOUS
<1>3. PICK n \in Nat : n = Len(s.names)
  BY <1>0
<1>4. Worked(heap, r, n)
  BY <1>0, <1>1, <1>3, RunWorked DEF IInv
<1>5. CASE \E how : End(how)
  BY <1>5, EndKeeps
<1>6. CASE /\ r.status = "ok" /\ Len(s.names) = Len(inputs)
           /\ Continue(r.heap, Push([called EXCEPT ![Len(called)].names = bound], "Local"),
                       Append(pending, s))
  <2>1. PICK S, v : S = DOMAIN r.heap /\ v = r.values
    OBVIOUS
  <2>2. v \in Seq(S) /\ Len(v) = n
    BY <1>4, <1>6, <2>1 DEF Worked
  <2>3. ASSUME NEW x \in DOMAIN bound PROVE bound[x] \in S
    <3>1. DOMAIN inputs = 1..n /\ Len(inputs) = n
      BY <1>0, <1>1, <1>3, <1>6
    <3>2. PICK k : k = Number(x)
      OBVIOUS
    <3>3. \E i \in DOMAIN Workflow[s.workflow].inputs : Workflow[s.workflow].inputs[i].name = x
      BY <1>2
    <3>4. k \in 1..n
      <4>1. k \in DOMAIN Workflow[s.workflow].inputs
        BY <3>2, <3>3
      <4> QED BY ONLY <1>1, <3>1, <4>1
    <3>5. ArgumentFor(s, k) \in 1..n
      BY <1>0, <1>1, <1>3, <3>1, <3>4, ArgumentIn
    <3>6. bound[x] = v[ArgumentFor(s, k)]
      BY <1>1, <1>2, <2>1, <3>2
    <3> QED BY <2>2, <3>5, <3>6
  <2>4. PICK zs : zs = Push([called EXCEPT ![Len(called)].names = bound], "Local")
    OBVIOUS
  <2>5. PICK l : l = Len(scopes)
    OBVIOUS
  <2>6. IsStack(scopes)
    BY DEF IInv, Ready
  <2>7. Entered(zs, scopes, Len(scopes), S) /\ Len(scopes) \in Nat
    BY ONLY <1>1, <2>3, <2>4, <2>6, EnteredIs
  <2>8. Apart(zs) /\ Roots(zs) \subseteq Roots(scopes) \union S
    BY <2>6, <2>7, EnteredApart DEF IInv
  <2>9. Well(r.heap) /\ Steady(r.heap) /\ Roots(scopes) \subseteq S
    BY <1>4, <2>1, SteadyOn DEF Worked, IInv, Ready, Keeps
  <2>10. IsStack(zs) /\ Len(zs) = Len(scopes) + 2
    BY <2>7 DEF Entered
  <2>11. Called(zs, Append(pending, s))
    <3>1. IsSeq(pending) /\ Len(scopes) = 1 + 2 * Len(pending)
      BY DEF IInv, Called
    <3>2. IsSeq(Append(pending, s)) /\ Len(Append(pending, s)) = Len(pending) + 1 /\ Len(pending) \in Nat
      BY <3>1, Appended
    <3> QED BY <2>10, <3>1, <3>2 DEF Called
  <2>12. Continue(r.heap, zs, Append(pending, s))
    BY <1>6, <2>4
  <2>13. Roots(zs) \subseteq DOMAIN r.heap
    BY <2>1, <2>8, <2>9
  <2> QED BY <2>8, <2>9, <2>10, <2>11, <2>12, <2>13, ContinueKeeps
<1>7. \/ \E how : End(how)
      \/ /\ r.status = "ok" /\ Len(s.names) = Len(inputs)
         /\ Continue(r.heap, Push([called EXCEPT ![Len(called)].names = bound], "Local"),
                     Append(pending, s))
  <2>1. \/ \E how : End(how)
        \/ /\ EvalAll(s.args, heap).status = "ok" /\ Len(s.names) = Len(Workflow[s.workflow].inputs)
           /\ Continue(EvalAll(s.args, heap).heap,
                       Push([Push(scopes, "Function") EXCEPT ![Len(Push(scopes, "Function"))].names =
                               [x \in {Workflow[s.workflow].inputs[i].name : i \in DOMAIN Workflow[s.workflow].inputs} |->
                                  EvalAll(s.args, heap).values[ArgumentFor(s, Number(x))]]],
                            "Local"),
                       Append(pending, s))
    BY DEF Call
  <2> QED BY ONLY <1>1, <1>2, <2>1
<1> QED BY <1>5, <1>6, <1>7

LEMMA LeaveKeeps ==
  ASSUME IInv, NEW r, Good(heap, r), r.status = "ok", pending # << >>, Leave(r)
  PROVE  IInv'
<1>1. PICK n, m \in Nat : n = Len(pending) - 1 /\ m = Len(scopes) - 2 /\ m = 1 + 2 * n /\ n \in Nat
  <2>1. IsSeq(pending) /\ Len(scopes) = 1 + 2 * Len(pending)
    BY DEF IInv, Called
  <2>2. Len(pending) \in Nat /\ Len(pending) # 0
    BY <2>1 DEF IsSeq
  <2> QED BY <2>1, <2>2
<1>2. IsStack(scopes) /\ Len(scopes) = m + 2
  BY <1>1, Lengths DEF IInv, Ready, IsStack
<1>3. PICK c : c = r.cell
  OBVIOUS
<1>4. PICK xs, ys, zs : xs = ReturnValue(scopes, c) /\ ys = Pop(xs) /\ zs = Pop(ys)
  OBVIOUS
<1>5. Below(xs, scopes, m + 2)
  BY <1>2, <1>4, ReturnBelow
<1>6. Below(ys, xs, m + 1)
  <2>1. IsStack(xs) /\ Len(xs) = m + 2
    BY <1>5 DEF Below
  <2>2. Below(ys, xs, Len(xs) - 1)
    BY <1>1, <1>4, <2>1, PopBelow
  <2> QED BY <2>1, <2>2
<1>7. Below(zs, ys, m)
  <2>1. IsStack(ys) /\ Len(ys) = m + 1
    BY <1>6 DEF Below
  <2>2. Below(zs, ys, Len(ys) - 1)
    BY <1>1, <1>4, <2>1, PopBelow
  <2> QED BY <2>1, <2>2
<1>8. Below(zs, scopes, m)
  <2>1. Below(ys, scopes, m + 1)
    BY <1>5, <1>6, BelowOn
  <2> QED BY <1>7, <2>1, BelowOn
<1>9. Called(zs, Front(pending))
  <2>1. IsSeq(Front(pending)) /\ Len(Front(pending)) = n
    BY <1>1, Shortened DEF IInv, Called
  <2> QED BY <1>1, <1>8, <2>1 DEF Called, Below
<1>10. PICK s : s = Last(pending)
  OBVIOUS
<1>11. End("failed") \/ Bind(s, r, zs, Front(pending))
  BY <1>3, <1>4, <1>10 DEF Leave
<1>12. CASE End("failed")
  BY <1>12, EndKeeps
<1>13. CASE Bind(s, r, zs, Front(pending))
  BY <1>2, <1>8, <1>9, <1>13, BindKeeps
<1> QED BY <1>11, <1>12, <1>13

LEMMA ReturnKeeps ==
  ASSUME IInv, NEW s \in Statements, Return(s)
  PROVE  IInv'
<1>1. PICK r : r = Value(s.value, heap)
  OBVIOUS
<1>2. Good(heap, r)
  BY <1>1, CodeOf, ValueGood DEF Return, IInv
<1>3. CASE \E how : End(how)
  BY <1>3, EndKeeps
<1>4. CASE r.status = "ok" /\ pending # << >> /\ Leave(r)
  BY <1>2, <1>4, LeaveKeeps
<1> QED BY <1>1, <1>3, <1>4 DEF Return

LEMMA RaiseKeeps ==
  ASSUME IInv, NEW s \in Statements, Raise(s)
  PROVE  IInv'
<1>1. PICK r : r = Value(s.value, heap)
  OBVIOUS
<1>2. Good(heap, r)
  BY <1>1, CodeOf, ValueGood DEF Raise, Raised, IInv
<1>3. PICK what : what = IF r.heap[r.cell].type = "error" THEN r ELSE New(r.heap, "error", r.heap[r.cell].value)
  OBVIOUS
<1>4. CASE \E how : End(how)
  BY <1>4, EndKeeps
<1>5. CASE r.status = "ok" /\ pending # << >> /\ Leave(what)
  <2>1. Good(heap, what) /\ what.status = "ok"
    <3>1. PICK v : v = r.heap[r.cell].value
      OBVIOUS
    <3>2. PICK z : z = New(r.heap, "error", v)
      OBVIOUS
    <3>3. "error" \notin Containers
      BY TypesApart
    <3>4. Good(r.heap, z)
      BY <1>2, <3>2, <3>3, NewPlain DEF Good
    <3>5. Good(heap, z)
      BY <1>2, <3>4, GoodOn DEF Good
    <3>6. z.status = "ok"
      BY <3>2 DEF New, Share
    <3>7. what = r \/ what = z
      BY <1>3, <3>1, <3>2
    <3> QED BY <1>2, <1>5, <3>5, <3>6, <3>7
  <2> QED BY <1>5, <2>1, LeaveKeeps
<1> QED BY <1>1, <1>3, <1>4, <1>5 DEF Raise, Raised

-----------------------------------------------------------------------------
(* A request, and the theorems about variables and defaults.               *)

(* The delegate has answered in time: the reply is made of the request's data. *)
Answers(s, r, d, cell, m, M, g, t, z) ==
  /\ r.heap[r.cell].type \in Dictionaries
  /\ ~Cyclic(d, r.cell)
  /\ Replied(r.heap, r.cell, d, cell, m, M, g)
  /\ t \in {"action_reply", "http_reply"}
  /\ z = New(g, t, g[<<m>>].value)
  /\ Bind(s, z, scopes, pending)

LEMMA AskIs ==
  ASSUME NEW s, NEW late, Ask(s, late), NEW r, r = Value(s.value, heap), Good(heap, r),
         NEW d, d = WithoutOthers(r.heap)
  PROVE  \/ \E how : how # "running" /\ End(how)
         \/ r.status = "ok" /\ Bind(s, New(r.heap, "error", "Operation timeout"), scopes, pending)
         \/ r.status = "ok" /\ \E cell, m, M, g, t, z : Answers(s, r, d, cell, m, M, g, t, z)
<1>1. PICK type, c, h : type = r.heap[r.cell].type /\ c = r.cell /\ h = r.heap
  OBVIOUS
<1>2. PICK reply : reply = FromJson(h, ToJson(d, c))
  OBVIOUS
<1>3. PICK t : t = IF type = "action" THEN "action_reply" ELSE "http_reply"
  OBVIOUS
<1>4. PICK typed : typed = New(reply.heap, t, reply.heap[reply.cell].value)
  OBVIOUS
<1>5. r.status # "running"
  BY DEF Good
<1>6. \/ End("failed") \/ End("overflow") \/ End(r.status)
      \/ r.status = "ok" /\ Bind(s, New(r.heap, "error", "Operation timeout"), scopes, pending)
      \/ /\ r.status = "ok" /\ type \in {"action", "http_request"} /\ ~Cyclic(d, c)
         /\ Bind(s, typed, scopes, pending)
  BY <1>1, <1>2, <1>3, <1>4 DEF Ask, Asked
<1>7. ASSUME r.status = "ok", type \in {"action", "http_request"}, ~Cyclic(d, c), Bind(s, typed, scopes, pending)
      PROVE  \E cell, m, M, g, z : Answers(s, r, d, cell, m, M, g, t, z)
  <2>1. Well(h) /\ c \in DOMAIN h /\ type \in Dictionaries
    BY <1>1, <1>7 DEF Good, Dictionaries
  <2>2. h[c].type \in Dictionaries
    BY <1>1, <2>1
  <2>3. PICK m, cell, M, g : Replied(h, c, d, cell, m, M, g) /\ reply = Share(g, <<m>>)
    BY <1>1, <1>2, <1>7, <2>1, <2>2, ReplyIs
  <2>4. reply.heap = g /\ reply.cell = <<m>>
    BY <2>3 DEF Share
  <2>5. typed = New(g, t, g[<<m>>].value)
    BY <1>4, <2>4
  <2>6. t \in {"action_reply", "http_reply"}
    BY <1>3
  <2>7. Answers(s, r, d, cell, m, M, g, t, typed)
    BY <1>1, <1>7, <2>1, <2>3, <2>5, <2>6 DEF Answers
  <2> QED BY <2>7
<1> QED BY <1>1, <1>5, <1>6, <1>7

LEMMA ErrorIs ==
  ASSUME NEW r, Good(heap, r), NEW v
  PROVE  Good(heap, New(r.heap, "error", v)) /\ New(r.heap, "error", v).status = "ok"
<1>1. PICK z, h : h = r.heap /\ z = New(h, "error", v)
  OBVIOUS
<1>2. "error" \notin Containers
  BY TypesApart
<1>3. Good(h, z)
  BY <1>1, <1>2, NewPlain DEF Good
<1>4. Good(heap, z)
  BY <1>1, <1>3, GoodOn DEF Good
<1> QED BY <1>1, <1>4 DEF New, Share

(* The root of a reply: a dictionary of type t with the cells at its keys. *)
RootOf(d, c, t, m) ==
  [type |-> t, value |-> [k \in Keys(d[c]) |-> <<m>> \o Append(<< >>, k)]]

LEMMA AnswersGood ==
  ASSUME NEW s, NEW r, Good(heap, r), r.status = "ok", NEW d, d = WithoutOthers(r.heap),
         NEW cell, NEW m, NEW M, NEW g, NEW t, NEW z, Answers(s, r, d, cell, m, M, g, t, z)
  PROVE  /\ Good(heap, z) /\ z.status = "ok" /\ z.cell \notin DOMAIN g
         /\ d[r.cell].type \in Dictionaries /\ Changed(g, z.heap, z.cell, RootOf(d, r.cell, t, m))
<1>1. PICK h, c : h = r.heap /\ c = r.cell
  OBVIOUS
<1>2. Well(h) /\ c \in DOMAIN h /\ Keeps(heap, h)
  BY <1>1 DEF Good
<1>3. PICK x : x = d[c]
  OBVIOUS
<1>4. x = [type |-> h[c].type, value |-> Told(h, c)]
  BY <1>1, <1>2, <1>3, DataIs
<1>5. x.type = h[c].type
  BY ONLY <1>4
<1>6. d[c].type \in Dictionaries
  BY <1>1, <1>3, <1>5 DEF Answers
<1>7. t \in Dictionaries
  BY DEF Answers, Dictionaries
<1>8. Replied(h, c, d, cell, m, M, g) /\ z = New(g, t, g[<<m>>].value)
  BY <1>1 DEF Answers
<1>9. /\ Good(h, z) /\ z.status = "ok" /\ z.cell \notin DOMAIN g
      /\ Changed(g, z.heap, z.cell, [type |-> t, value |-> [k \in Keys(d[c]) |-> <<m>> \o Append(<< >>, k)]])
  BY <1>6, <1>7, <1>8, TypedIs
<1>10. Good(heap, z)
  BY <1>2, <1>9, GoodOn
<1>11. Changed(g, z.heap, z.cell, RootOf(d, c, t, m))
  BY <1>9 DEF RootOf
<1> QED BY <1>1, <1>6, <1>9, <1>10, <1>11

LEMMA AskKeeps ==
  ASSUME IInv, NEW s \in Statements, NEW late \in BOOLEAN, Ask(s, late)
  PROVE  IInv'
<1>1. PICK r : r = Value(s.value, heap)
  OBVIOUS
<1>2. Good(heap, r)
  BY <1>1, CodeOf, ValueGood DEF Ask, Asked, IInv
<1>3. PICK d : d = WithoutOthers(r.heap)
  OBVIOUS
<1>4. Below(scopes, scopes, Len(scopes)) /\ Len(scopes) \in Nat /\ Called(scopes, pending)
  BY BelowItself DEF IInv, Ready
<1>5. ASSUME NEW z, Good(heap, z), z.status = "ok", Bind(s, z, scopes, pending) PROVE IInv'
  BY <1>4, <1>5, BindKeeps
<1>6. CASE \E how : how # "running" /\ End(how)
  BY <1>6, EndKeeps
<1>7. CASE Bind(s, New(r.heap, "error", "Operation timeout"), scopes, pending)
  BY <1>2, <1>5, <1>7, ErrorIs
<1>8. CASE r.status = "ok" /\ \E cell, m, M, g, t, z : Answers(s, r, d, cell, m, M, g, t, z)
  <2>1. PICK cell, m, M, g, t, z : Answers(s, r, d, cell, m, M, g, t, z)
    BY <1>8
  <2>2. Good(heap, z) /\ z.status = "ok"
    BY <1>2, <1>3, <1>8, <2>1, AnswersGood
  <2>3. Bind(s, z, scopes, pending)
    BY <2>1 DEF Answers
  <2> QED BY <1>5, <2>2, <2>3
<1> QED BY <1>1, <1>2, <1>3, <1>6, <1>7, <1>8, AskIs

LEMMA NextKeeps ==
  ASSUME IInv, [Next]_vars
  PROVE  IInv'
<1>1. CASE UNCHANGED vars
  BY <1>1 DEF vars, IInv, Ready
<1>2. ASSUME NEW s \in Statements, NEW late \in BOOLEAN,
             Declare(s) \/ AssignTo(s) \/ Evaluate(s) \/ Call(s) \/ Return(s) \/ Raise(s) \/ Ask(s, late)
      PROVE  IInv'
  BY <1>2, DeclareKeeps, AssignKeeps, EvaluateKeeps, CallKeeps, ReturnKeeps, RaiseKeeps, AskKeeps
<1> QED BY <1>1, <1>2 DEF Next

(* The invariant holds after every statement that Engine::eval             *)
(* (engine.cpp:41-55) executes, whatever its expression did before it      *)
(* failed, and when the program has ended.                                 *)
THEOREM Invariance == Spec => []IInv
<1>1. Init => IInv
  BY InitInv
<1>2. IInv /\ [Next]_vars => IInv'
  BY NextKeeps
<1> QED BY <1>1, <1>2, PTL DEF Spec

(* Two variables never have the same storage, in any program: what a       *)
(* declaration binds is a copy of its own (entity.cpp:29-46,               *)
(* interpreter_workflow.cpp:37-43), except for a default value, and for a  *)
(* function's arguments, which are the caller's values.                    *)
THEOREM ApartAlways == Spec => []VariablesApart
<1>1. IInv => VariablesApart
  BY DEF IInv, Apart, VariablesApart, IsInput
<1> QED BY <1>1, Invariance, PTL

(* The default value that a type's constructor hands out to all            *)
(* (entity_utils.hpp:40-48) never changes, in any program, except for      *)
(* those of integers and arrays, whose assignment writes into the storage  *)
(* (integer.cpp:63-77, array.cpp:22-29).                                   *)
THEOREM DefaultsAlways == Spec => []DefaultsStay
<1>1. IInv => DefaultsStay
  BY DEF IInv, Steady, DefaultsStay
<1> QED BY <1>1, Invariance, PTL

-----------------------------------------------------------------------------
(* A value and its copy look alike, as deep as one looks.                  *)

(* The pairs of cells that one meets when one looks into a value and into  *)
(* its copy at the same time.                                              *)
Follower(h, g, p) == {<<Told(h, p[1])[k], g[p[2]].value[k]>> : k \in Keys(g[p[2]])}

NextPartners(h, g, before) == UNION {Follower(h, g, p) : p \in before}

Pair(c, y) == {<<c, y>>}

ArePartners(f, h, c, g, y, n) ==
  f = [k \in 0..n |-> IF k = 0 THEN Pair(c, y) ELSE NextPartners(h, g, f[k - 1])]

LEMMA PartnersExist ==
  ASSUME NEW n \in Nat, NEW h, NEW c, NEW g, NEW y
  PROVE  \E f : ArePartners(f, h, c, g, y, n)
<1> DEFINE S == {m \in 0..n : \E f : ArePartners(f, h, c, g, y, m)}
<1>1. 0 \in S
  <2>1. PICK f : f = [k \in 0..0 |-> Pair(c, y)]
    OBVIOUS
  <2>2. ArePartners(f, h, c, g, y, 0)
    BY <2>1 DEF ArePartners
  <2> QED BY <2>2
<1>2. ASSUME NEW m \in 1..n, m - 1 \in S PROVE m \in S
  <2>1. PICK e : e = [k \in 0..m - 1 |-> IF k = 0 THEN Pair(c, y) ELSE NextPartners(h, g, e[k - 1])]
    BY <1>2 DEF ArePartners
  <2>2. PICK f : f = [k \in 0..m |-> IF k = m THEN NextPartners(h, g, e[m - 1]) ELSE e[k]]
    OBVIOUS
  <2>3. f = [k \in 0..m |-> IF k = 0 THEN Pair(c, y) ELSE NextPartners(h, g, f[k - 1])]
    BY <2>1, <2>2
  <2>4. ArePartners(f, h, c, g, y, m)
    BY <2>3 DEF ArePartners
  <2> QED BY <2>4
<1> HIDE DEF S
<1>3. \A k \in 0..n : k \in S
  BY <1>1, <1>2, Upward
<1>4. n \in S
  BY <1>3
<1> QED BY <1>4 DEF S

LEMMA PartnersDef ==
  ASSUME NEW h, NEW c, NEW g, NEW y, NEW l \in Nat, l = Depth(h), NEW f, f = Partners(h, c, g, y)
  PROVE  /\ f[0] = {<<c, y>>}
         /\ \A k \in 1..l + 1 : f[k] = NextPartners(h, g, f[k - 1])
<1>1. PICK n \in Nat : n = l + 1
  OBVIOUS
<1>2. \E e : ArePartners(e, h, c, g, y, n)
  BY <1>1, PartnersExist
<1>3. f = [k \in 0..n |-> IF k = 0 THEN Pair(c, y) ELSE NextPartners(h, g, f[k - 1])]
  BY <1>1, <1>2 DEF Partners, ArePartners, NextPartners, Follower, Pair
<1>4. 0 \in 0..n /\ \A k \in 1..n : k \in 0..n /\ k # 0
  OBVIOUS
<1> QED BY <1>1, <1>3, <1>4 DEF Pair

-----------------------------------------------------------------------------

(* x shows what content e shows, with the cells of the elements' places for elements. *)
Mirrors(x, e, m, p) ==
  /\ Keys(x) = Keys(e) /\ \A k \in Keys(e) : x.value[k] = <<m>> \o Append(p, k)
  /\ e.type = "array" => x.type = "array" /\ DOMAIN x.value = DOMAIN e.value
  /\ e.type \in Dictionaries => x.type \in Dictionaries /\ DOMAIN x.value = DOMAIN e.value
  /\ e.type \notin Containers => x = e

LEMMA CopyMirrors ==
  ASSUME NEW e, e = [type |-> e.type, value |-> e.value], NEW m, NEW p
  PROVE  Mirrors(CopyOf(e, m, p), e, m, p)
<1>1. PICK x : x = CopyOf(e, m, p)
  OBVIOUS
<1>2. PICK t, v, w : t = e.type /\ v = e.value /\ w = [k \in Keys(e) |-> <<m>> \o Append(p, k)]
  OBVIOUS
<1>3. CASE t = "array"
  <2>1. x = [type |-> "array", value |-> w]
    BY <1>1, <1>2, <1>3, TypesApart DEF CopyOf, Containers
  <2>2. x.type = "array" /\ x.value = w
    BY ONLY <2>1
  <2>3. Keys(e) = DOMAIN v /\ Keys(x) = DOMAIN w
    BY <1>2, <1>3, <2>2 DEF Keys
  <2> QED BY <1>1, <1>2, <1>3, <2>2, <2>3, TypesApart DEF Mirrors, Containers
<1>4. CASE t \in Dictionaries
  <2>1. x = [type |-> "dictionary", value |-> w]
    BY <1>1, <1>2, <1>4, TypesApart DEF CopyOf, Containers
  <2>2. x.type = "dictionary" /\ x.value = w
    BY ONLY <2>1
  <2>3. "dictionary" \in Dictionaries
    BY DEF Dictionaries
  <2>4. Keys(e) = DOMAIN v /\ Keys(x) = DOMAIN w
    BY <1>2, <1>4, <2>2, <2>3 DEF Keys
  <2> QED BY <1>1, <1>2, <1>4, <2>2, <2>3, <2>4, TypesApart DEF Mirrors, Containers
<1>5. CASE t \notin Containers
  <2>1. x = e
    BY <1>1, <1>2, <1>5 DEF CopyOf, Containers
  <2>2. Keys(e) = {}
    BY <1>2, <1>5 DEF Keys, Containers
  <2> QED BY <1>1, <1>2, <1>5, <2>1, <2>2 DEF Mirrors, Containers
<1> QED BY <1>3, <1>4, <1>5 DEF Containers

LEMMA RootMirrors ==
  ASSUME NEW e, e.type \in Dictionaries, NEW t \in Dictionaries, NEW m, NEW p,
         NEW x, x = [type |-> t, value |-> [k \in Keys(e) |-> <<m>> \o Append(p, k)]]
  PROVE  Mirrors(x, e, m, p)
<1>1. PICK w : w = [k \in Keys(e) |-> <<m>> \o Append(p, k)]
  OBVIOUS
<1>2. x.type = t /\ x.value = w
  BY <1>1
<1>3. Keys(e) = DOMAIN e.value /\ Keys(x) = DOMAIN w
  BY <1>2 DEF Keys
<1> QED BY <1>1, <1>2, <1>3, TypesApart DEF Mirrors, Containers

LEMMA MirrorsAlike ==
  ASSUME NEW h, Well(h), NEW c \in DOMAIN h, NEW d, d = WithoutOthers(h),
         NEW g, NEW y, NEW x, x = g[y], NEW e, e = d[c], NEW m, NEW p, Mirrors(x, e, m, p)
  PROVE  Alike(h, c, g, y) /\ Told(h, c) = e.value
<1>1. PICK t, v, w : t = h[c].type /\ v = h[c].value /\ w = Told(h, c)
  OBVIOUS
<1>2. e = [type |-> t, value |-> w]
  BY <1>1, DataIs
<1>3. e.type = t /\ e.value = w
  BY ONLY <1>2
<1>5. h[c] = [type |-> t, value |-> v]
  BY <1>1 DEF Well, Held
<1>6. t \notin Containers => w = v
  BY <1>1 DEF Told, Containers
<1>7. Alike(h, c, g, y)
  <2>1. CASE t = "array"
    <3>1. x.type = "array" /\ DOMAIN x.value = DOMAIN w
      BY <1>3, <2>1 DEF Mirrors
    <3> QED BY <1>1, <2>1, <3>1, TypesApart DEF Alike
  <2>2. CASE t \in Dictionaries
    <3>1. x.type \in Dictionaries /\ DOMAIN x.value = DOMAIN w
      BY <1>3, <2>2 DEF Mirrors
    <3> QED BY <1>1, <2>2, <3>1, TypesApart DEF Alike
  <2>3. CASE t \notin Containers
    <3>1. x = h[c]
      BY <1>2, <1>3, <1>5, <1>6, <2>3 DEF Mirrors
    <3> QED BY <1>1, <2>3, <3>1 DEF Alike, Containers
  <2> QED BY <2>1, <2>2, <2>3 DEF Containers
<1> QED BY <1>1, <1>3, <1>7

-----------------------------------------------------------------------------
(* The reply mirrors the request's data when it is bound to its name.      *)

(* The cell at place p of the reply y. *)
At(y, m, p) == IF p = << >> THEN y ELSE <<m>> \o p

(* All places of the reply, as far as f has them, mirror those of the data. *)
Mirrored(f, y, d, cell, m) ==
  \A p \in DOMAIN cell : At(y, m, p) \in DOMAIN f => Mirrors(f[At(y, m, p)], d[cell[p]], m, p)

LEMMA DataSame ==
  ASSUME NEW h, Well(h), NEW c, NEW d, d = WithoutOthers(h), NEW cell, NEW m, NEW M, NEW g,
         Replied(h, c, d, cell, m, M, g), NEW f, Well(f), NEW y \in DOMAIN f, Mirrored(f, y, d, cell, m)
  PROVE  SameData(h, c, f, y)
<1>1. PICK l \in Nat : l = Depth(h) /\ Depth(d) <= l
  BY DataIs, DepthNat DEF Well
<1>2. PICK P : P = Partners(h, c, f, y)
  OBVIOUS
<1>3. P[0] = {<<c, y>>} /\ \A n \in 1..l + 1 : P[n] = NextPartners(h, f, P[n - 1])
  BY <1>1, <1>2, PartnersDef
<1>4. /\ << >> \in DOMAIN cell /\ cell[<< >>] = c
      /\ \A p \in DOMAIN cell : Len(p) \in 0..l /\ cell[p] \in DOMAIN h
      /\ \A p \in DOMAIN cell : \A k \in Keys(d[cell[p]]) :
           /\ Append(p, k) \in DOMAIN cell /\ cell[Append(p, k)] = d[cell[p]].value[k]
           /\ Len(Append(p, k)) = Len(p) + 1
  <2>1. Depth(d) \in Nat
    BY DataIs, DepthNat DEF Well
  <2> QED BY <1>1, <2>1 DEF Replied
<1> DEFINE Is(pr, p) == pr = <<cell[p], At(y, m, p)>> /\ At(y, m, p) \in DOMAIN f
           S == {n \in 0..l + 1 : \A pr \in P[n] : \E p \in DOMAIN cell : Len(p) = n /\ Is(pr, p)}
<1>5. ASSUME NEW p \in DOMAIN cell, At(y, m, p) \in DOMAIN f
      PROVE  /\ Alike(h, cell[p], f, At(y, m, p))
             /\ \A k \in Keys(f[At(y, m, p)]) :
                  /\ Append(p, k) \in DOMAIN cell /\ Len(Append(p, k)) = Len(p) + 1
                  /\ Told(h, cell[p])[k] = cell[Append(p, k)]
                  /\ f[At(y, m, p)].value[k] = At(y, m, Append(p, k))
                  /\ At(y, m, Append(p, k)) \in DOMAIN f
  <2>1. PICK x, z : x = cell[p] /\ z = At(y, m, p)
    OBVIOUS
  <2>2. Mirrors(f[z], d[x], m, p) /\ x \in DOMAIN h /\ z \in DOMAIN f
    BY <1>4, <1>5, <2>1 DEF Mirrored
  <2>3. Alike(h, x, f, z) /\ \A k \in Keys(d[x]) : Told(h, x)[k] = d[x].value[k]
    <3>1. PICK e, u : e = d[x] /\ u = f[z]
      OBVIOUS
    <3>2. Mirrors(u, e, m, p)
      BY <2>2, <3>1
    <3>3. Alike(h, x, f, z) /\ Told(h, x) = e.value
      BY <2>2, <3>1, <3>2, MirrorsAlike
    <3> QED BY <3>1, <3>3
  <2>4. ASSUME NEW k \in Keys(f[z])
        PROVE  /\ Append(p, k) \in DOMAIN cell /\ Len(Append(p, k)) = Len(p) + 1
               /\ Told(h, x)[k] = cell[Append(p, k)]
               /\ f[z].value[k] = At(y, m, Append(p, k))
               /\ At(y, m, Append(p, k)) \in DOMAIN f
    <3>1. k \in Keys(d[x]) /\ f[z].value[k] = <<m>> \o Append(p, k)
      BY <2>2 DEF Mirrors
    <3>2. /\ Append(p, k) \in DOMAIN cell /\ cell[Append(p, k)] = d[x].value[k]
          /\ Len(Append(p, k)) = Len(p) + 1 /\ Len(p) \in Nat
      BY <1>4, <2>1, <3>1
    <3>3. PICK q : q = Append(p, k)
      OBVIOUS
    <3>4. q # << >>
      <4>1. Len(q) # 0
        BY <3>2, <3>3
      <4> QED BY <4>1
    <3>5. f[z].value[k] = At(y, m, q)
      BY <3>1, <3>3, <3>4 DEF At
    <3>6. f[z].value[k] \in DOMAIN f
      BY <2>2, WellElements
    <3> QED BY <2>3, <3>1, <3>2, <3>3, <3>5, <3>6
  <2> QED BY <2>1, <2>3, <2>4
<1>6. 0 \in S
  <2>1. Is(<<c, y>>, << >>) /\ Len(<< >>) = 0
    BY <1>4 DEF At
  <2> QED BY <1>3, <1>4, <2>1
<1>7. ASSUME NEW n \in 1..l + 1, n - 1 \in S PROVE n \in S
  <2> SUFFICES ASSUME NEW pr \in P[n] PROVE \E p \in DOMAIN cell : Len(p) = n /\ Is(pr, p)
    OBVIOUS
  <2>1. PICK b \in P[n - 1] : pr \in Follower(h, f, b)
    BY <1>3 DEF NextPartners
  <2>2. PICK p \in DOMAIN cell : Len(p) = n - 1 /\ Is(b, p)
    BY <1>7
  <2>3. b[1] = cell[p] /\ b[2] = At(y, m, p) /\ At(y, m, p) \in DOMAIN f
    BY <2>2
  <2>4. PICK k \in Keys(f[At(y, m, p)]) : pr = <<Told(h, cell[p])[k], f[At(y, m, p)].value[k]>>
    BY <2>1, <2>3 DEF Follower
  <2>5. Append(p, k) \in DOMAIN cell /\ Len(Append(p, k)) = n /\ Is(pr, Append(p, k))
    BY <1>5, <2>2, <2>3, <2>4
  <2> QED BY <2>5
<1>8. \A n \in 0..l + 1 : n \in S
  <2> HIDE DEF S
  <2> QED BY <1>6, <1>7, Upward
<1>9. ASSUME NEW n \in 0..l, NEW pr \in P[n] PROVE Alike(h, pr[1], f, pr[2])
  <2>1. n \in S
    BY <1>8
  <2>2. PICK p \in DOMAIN cell : Is(pr, p)
    BY <2>1
  <2>3. pr[1] = cell[p] /\ pr[2] = At(y, m, p) /\ At(y, m, p) \in DOMAIN f
    BY <2>2
  <2> QED BY <1>5, <2>3
<1>10. P[l + 1] = {}
  <2> SUFFICES ASSUME NEW pr \in P[l + 1] PROVE FALSE
    OBVIOUS
  <2>1. l + 1 \in S
    BY <1>8
  <2>2. PICK p \in DOMAIN cell : Len(p) = l + 1
    BY <2>1
  <2> QED BY <1>4, <2>2
<1> QED BY <1>1, <1>2, <1>9, <1>10 DEF SameData

-----------------------------------------------------------------------------

(* A handle of z's value, or of a copy, is bound to s.name, as y. *)
Arrives(s, z, y, h, zs) ==
  /\ y \notin Roots(scopes) /\ (y = z.cell \/ y \notin DOMAIN z.heap)
  /\ DOMAIN h = DOMAIN z.heap \union {y} /\ h[y] = z.heap[z.cell] /\ \A x \in DOMAIN z.heap : h[x] = z.heap[x]
  /\ Well(h) /\ zs = Add(scopes, s.name, y) /\ Roots(zs) \subseteq DOMAIN h
  /\ scopes' = zs /\ heap' = Live(h, Roots(zs))

LEMMA BindIs ==
  ASSUME IInv, NEW s, NEW z, Good(heap, z), z.status = "ok", Bind(s, z, scopes, pending), status' = "running",
         z.heap[z.cell].type \notin {"void", "dictionary"}
  PROVE  \E y, h, zs : Arrives(s, z, y, h, zs)
<1>1. PICK roots : roots = Roots(scopes)
  OBVIOUS
<1>2. Well(z.heap) /\ z.cell \in DOMAIN z.heap /\ roots \in SUBSET DOMAIN z.heap /\ Steady(z.heap)
  BY <1>1, SteadyOn DEF IInv, Ready, Good, Keeps
<1>3. PICK copy : copy = Copy(z.heap, z.cell, roots)
  OBVIOUS
<1>4. PICK y, h : y = copy.cell /\ h = copy.heap
  OBVIOUS
<1>5. /\ Good(z.heap, copy) /\ copy.status = "ok" /\ y \notin roots
      /\ (y = z.cell \/ y \notin DOMAIN z.heap) /\ DOMAIN h = DOMAIN z.heap \union {y}
      /\ h[y] = z.heap[z.cell] /\ \A x \in DOMAIN z.heap : h[x] = z.heap[x]
  BY <1>2, <1>3, <1>4, CopyIs
<1>6. Well(h) /\ Keeps(z.heap, h) /\ y \in DOMAIN h
  BY <1>4, <1>5 DEF Good
<1>7. HasDefaults(h)
  BY <1>2, <1>6, SteadyOn, SteadyHas
<1>8. PICK made : made = Construct(h, s.type, y)
  OBVIOUS
<1>9. made.status = "ok" /\ Continue(made.heap, Add(scopes, s.name, made.cell), pending)
  <2>1. Bind(s, z, scopes, pending) <=>
          IF made.status = "ok" THEN Continue(made.heap, Add(scopes, s.name, made.cell), pending)
          ELSE End("failed")
    BY <1>1, <1>3, <1>4, <1>8 DEF Bind
  <2> QED BY <2>1 DEF End
<1>10. made.heap = h /\ made.cell = y
  <2>1. PICK t : t = s.type
    OBVIOUS
  <2>2. made = Construct(h, t, y)
    BY <1>8, <2>1
  <2>3. h[y].type \notin {"void", "dictionary"}
    BY <1>5
  <2> QED BY <1>6, <1>7, <1>9, <2>2, <2>3, ConstructGood
<1>11. PICK zs, name : zs = Add(scopes, name, y) /\ name = s.name
  OBVIOUS
<1>12. scopes' = zs /\ heap' = Live(h, Roots(zs))
  BY <1>9, <1>10, <1>11 DEF Continue
<1>13. Roots(zs) \subseteq Roots(scopes) \union {y}
  BY <1>1, <1>5, <1>11, ApartAdd DEF IInv, Ready
<1>14. Roots(zs) \subseteq DOMAIN h
  BY <1>1, <1>2, <1>5, <1>13
<1>15. Arrives(s, z, y, h, zs)
  BY <1>1, <1>5, <1>6, <1>11, <1>12, <1>14 DEF Arrives
<1> QED BY <1>15

(* The scopes without a name that was not there. *)
Without(zs, name) == [zs EXCEPT ![Len(scopes)].names = [n \in DOMAIN @ \ {name} |-> @[n]]]

LEMMA ArrivalIs ==
  ASSUME IInv, NEW s, NEW name, name = s.name, NEW z, NEW y, NEW h, NEW zs, Arrives(s, z, y, h, zs),
         NEW f, f = heap'
  PROVE  /\ Well(f) /\ y \in DOMAIN f /\ DOMAIN f \subseteq DOMAIN h
         /\ \A x \in DOMAIN f : f[x] = h[x]
         /\ Current(zs).names[name] = y
         /\ Roots(Without(zs, name)) \subseteq Roots(scopes) /\ Roots(Without(zs, name)) \subseteq DOMAIN f
<1>1. PICK roots : roots = Roots(zs)
  OBVIOUS
<1>2. f = Live(h, roots) /\ Well(h) /\ roots \in SUBSET DOMAIN h
  BY <1>1 DEF Arrives
<1>3. Well(f) /\ roots \subseteq DOMAIN f /\ DOMAIN f \subseteq DOMAIN h /\ \A x \in DOMAIN f : f[x] = h[x]
  BY <1>2, LiveIs
<1>4. PICK n \in Nat : n = Len(scopes) /\ n > 0
  BY Lengths DEF IInv, Ready, IsStack
<1>5. zs = Add(scopes, name, y) /\ IsStack(scopes)
  BY DEF Arrives, IInv, Ready
<1>6. IsStack(zs) /\ Len(zs) = n /\ Added(zs, scopes, n, name, y)
  BY <1>4, <1>5, AddIs
<1>7. DOMAIN zs = 1..n /\ DOMAIN scopes = 1..n
  BY <1>4, <1>5, <1>6, Lengths DEF IsStack
<1>8. Current(zs).names[name] = y
  BY <1>6 DEF Added, Current, Last
<1>9. y \in DOMAIN f
  <2>1. n \in 1..n /\ name \in DOMAIN zs[n].names /\ zs[n].names[name] = y
    BY <1>4, <1>6 DEF Added
  <2> QED BY <1>1, <1>3, <1>7, <2>1, RootsAre
<1>10. PICK N, os : N = [x \in DOMAIN zs[n].names \ {name} |-> zs[n].names[x]] /\ os = WithNames(zs, N)
  OBVIOUS
<1>11. Without(zs, name) = os
  BY <1>4, <1>6, <1>10 DEF Without, WithNames
<1>12. /\ IsStack(os) /\ Len(os) = n /\ os[n].names = N
       /\ \A i \in 1..n : i # n => os[i] = zs[i]
  BY ONLY <1>6, <1>10, NamesAre
<1>13. DOMAIN os = 1..n
  BY <1>12, Lengths DEF IsStack
<1>14. ASSUME NEW i \in 1..n, NEW x \in DOMAIN os[i].names
       PROVE  /\ x \in DOMAIN zs[i].names /\ os[i].names[x] = zs[i].names[x]
              /\ x \in DOMAIN scopes[i].names /\ os[i].names[x] = scopes[i].names[x]
  <2>1. CASE i = n
    <3>1. x \in DOMAIN N /\ os[n].names[x] = N[x]
      BY <1>12, <1>14, <2>1
    <3>2. x \in DOMAIN zs[n].names /\ x # name /\ N[x] = zs[n].names[x]
      BY ONLY <1>10, <3>1
    <3>3. x \in DOMAIN scopes[n].names /\ zs[n].names[x] = scopes[n].names[x]
      BY ONLY <1>6, <3>2 DEF Added
    <3> QED BY ONLY <2>1, <3>1, <3>2, <3>3
  <2>2. CASE i # n
    BY <1>6, <1>12, <2>2 DEF Added
  <2> QED BY <2>1, <2>2
<1>15. ASSUME NEW ss, DOMAIN ss = 1..n,
              \A i \in 1..n : \A x \in DOMAIN os[i].names :
                x \in DOMAIN ss[i].names /\ os[i].names[x] = ss[i].names[x]
       PROVE  Roots(os) \subseteq Roots(ss)
  <2>1. \A t \in Simple : Defaults[t] \in Roots(ss)
    BY RootsAre
  <2>2. \A i \in 1..n : \A x \in DOMAIN ss[i].names : ss[i].names[x] \in Roots(ss)
    BY <1>15, RootsAre
  <2>3. \A i \in DOMAIN os : \A x \in DOMAIN os[i].names : os[i].names[x] \in Roots(ss)
    BY <1>13, <1>15, <2>2
  <2> QED BY <2>1, <2>3, RootsAre
<1>16. Roots(os) \subseteq Roots(scopes) /\ Roots(os) \subseteq Roots(zs)
  BY <1>7, <1>14, <1>15
<1> QED BY <1>1, <1>3, <1>8, <1>9, <1>11, <1>16

-----------------------------------------------------------------------------
(* The theorem about replies.                                              *)

LEMMA AnswerMirrors ==
  ASSUME NEW h, Well(h), NEW c \in DOMAIN h, NEW d, d = WithoutOthers(h), d[c].type \in Dictionaries,
         NEW cell, NEW m, NEW M, NEW g, Replied(h, c, d, cell, m, M, g), NEW t \in Dictionaries,
         NEW f, NEW y,
         f[y] = [type |-> t, value |-> [k \in Keys(d[c]) |-> <<m>> \o Append(<< >>, k)]],
         \A x \in M \intersect DOMAIN f : f[x] = g[x]
  PROVE  Mirrored(f, y, d, cell, m)
<1> SUFFICES ASSUME NEW p \in DOMAIN cell, At(y, m, p) \in DOMAIN f
             PROVE  Mirrors(f[At(y, m, p)], d[cell[p]], m, p)
  BY DEF Mirrored
<1>1. PICK e, x : e = d[cell[p]] /\ x = f[At(y, m, p)]
  OBVIOUS
<1>2. CASE p = << >>
  <2>1. e = d[c]
    BY <1>1, <1>2 DEF Replied
  <2>2. x = [type |-> t, value |-> [k \in Keys(e) |-> <<m>> \o Append(p, k)]]
    BY <1>1, <1>2, <2>1 DEF At
  <2>3. e.type \in Dictionaries
    BY <2>1
  <2> QED BY <1>1, <2>2, <2>3, RootMirrors
<1>3. CASE p # << >>
  <2>1. At(y, m, p) = <<m>> \o p
    BY <1>3 DEF At
  <2>2. x = CopyOf(e, m, p)
    BY <1>1, <2>1 DEF Replied, Placed
  <2>3. e = [type |-> e.type, value |-> e.value]
    <3>1. PICK b \in DOMAIN h : b = cell[p]
      BY DEF Replied
    <3>2. d[b] = [type |-> h[b].type, value |-> Told(h, b)]
      BY DataIs
    <3>3. PICK u, v : e = [type |-> u, value |-> v]
      BY <1>1, <3>1, <3>2
    <3> QED BY ONLY <3>3
  <2> QED BY <1>1, <2>2, <2>3, CopyMirrors
<1> QED BY <1>2, <1>3

LEMMA AnswerApart ==
  ASSUME NEW h, Well(h), NEW c, NEW d, NEW cell, NEW m, NEW M, NEW g, Replied(h, c, d, cell, m, M, g),
         NEW f, Well(f), NEW y \in DOMAIN f, y \notin DOMAIN g, NEW t \in Dictionaries,
         f[y] = [type |-> t, value |-> [k \in Keys(d[c]) |-> <<m>> \o Append(<< >>, k)]],
         \A x \in DOMAIN g \intersect DOMAIN f : f[x] = g[x],
         NEW others, others \subseteq DOMAIN h, others \subseteq DOMAIN f
  PROVE  Reach(f, {y}) \intersect Reach(f, others) = {}
<1>1. PICK own, old : own = (M \union {y}) \intersect DOMAIN f /\ old = DOMAIN h \intersect DOMAIN f
  OBVIOUS
<1>2. /\ DOMAIN g = DOMAIN h \union M /\ M \intersect DOMAIN h = {}
      /\ \A x \in DOMAIN h : g[x] = h[x]
      /\ \A x \in M : Elements(g[x]) \subseteq M
      /\ \A p \in DOMAIN cell : <<m>> \o p \in M
      /\ << >> \in DOMAIN cell /\ cell[<< >>] = c
      /\ \A k \in Keys(d[c]) : Append(<< >>, k) \in DOMAIN cell
  BY DEF Replied, Placed
<1>3. Elements(f[y]) \subseteq M
  <2>1. PICK x, v : x = f[y] /\ v = [k \in Keys(d[c]) |-> <<m>> \o Append(<< >>, k)]
    OBVIOUS
  <2>2. x.type = t /\ x.value = v
    BY <2>1
  <2>3. Keys(x) = DOMAIN v /\ DOMAIN v = Keys(d[c])
    BY <2>1, <2>2 DEF Keys
  <2>4. ASSUME NEW k \in Keys(x) PROVE x.value[k] \in M
    <3>1. PICK q : q = Append(<< >>, k)
      OBVIOUS
    <3>2. x.value[k] = <<m>> \o q
      BY <2>1, <2>2, <2>3, <3>1
    <3>3. q \in DOMAIN cell
      BY <1>2, <2>3, <3>1
    <3> QED BY <1>2, <3>2, <3>3
  <2> QED BY <2>1, <2>4 DEF Elements
<1>4. \A x \in own : Elements(f[x]) \subseteq own
  <2> SUFFICES ASSUME NEW x \in own PROVE Elements(f[x]) \subseteq M /\ Elements(f[x]) \subseteq DOMAIN f
    BY <1>1
  <2>1. Elements(f[x]) \subseteq DOMAIN f
    BY <1>1, WellElements
  <2>2. CASE x = y
    BY <1>3, <2>1, <2>2
  <2>3. CASE x \in M
    BY <1>1, <1>2, <2>1, <2>3
  <2> QED BY <1>1, <2>2, <2>3
<1>5. \A x \in old : Elements(f[x]) \subseteq old
  BY <1>1, <1>2, WellElements
<1>6. Depth(f) \in Nat
  BY DepthNat DEF Well
<1>7. Reach(f, {y}) \subseteq own
  BY <1>1, <1>4, <1>6, ReachLeast
<1>8. Reach(f, others) \subseteq old
  BY <1>1, <1>5, <1>6, ReachLeast
<1>9. own \intersect old = {}
  BY <1>1, <1>2
<1> QED BY <1>7, <1>8, <1>9

(* What a step that answers a request with data makes of it. *)
IsData(r, name) ==
  LET reply == Current(scopes').names[name]
  IN  heap'[reply].type # "error" =>
        /\ SameData(r.heap, r.cell, heap', reply)
        /\ Reach(heap', {reply}) \intersect Reach(heap', Roots(Without(scopes', name))) = {}

LEMMA AnswersAreData ==
  ASSUME IInv, NEW s, NEW r, Good(heap, r), r.status = "ok", NEW d, d = WithoutOthers(r.heap),
         NEW cell, NEW m, NEW M, NEW g, NEW t, NEW z, Answers(s, r, d, cell, m, M, g, t, z), status' = "running"
  PROVE  IsData(r, s.name)
<1>1. PICK h, c, name, v : h = r.heap /\ c = r.cell /\ name = s.name
                           /\ v = [k \in Keys(d[r.cell]) |-> <<m>> \o Append(<< >>, k)]
  OBVIOUS
<1>2. Well(h) /\ c \in DOMAIN h /\ Keeps(heap, h)
  BY <1>1 DEF Good
<1>3. /\ Good(heap, z) /\ z.status = "ok" /\ z.cell \notin DOMAIN g /\ d[c].type \in Dictionaries
      /\ Changed(g, z.heap, z.cell, [type |-> t, value |-> v])
  <2>1. /\ Good(heap, r) /\ r.status = "ok" /\ d = WithoutOthers(r.heap)
        /\ Answers(s, r, d, cell, m, M, g, t, z)
    OBVIOUS
  <2>2. /\ Good(heap, z) /\ z.status = "ok" /\ z.cell \notin DOMAIN g
        /\ d[r.cell].type \in Dictionaries /\ Changed(g, z.heap, z.cell, RootOf(d, r.cell, t, m))
    BY ONLY <2>1, AnswersGood
  <2> QED BY ONLY <1>1, <2>2 DEF RootOf
<1>4. PICK w : w = [type |-> t, value |-> v]
  OBVIOUS
<1>5. DOMAIN z.heap = DOMAIN g \union {z.cell} /\ z.heap[z.cell] = w
      /\ \A x \in DOMAIN g : z.heap[x] = g[x]
  BY <1>3, <1>4 DEF Changed
<1>6. w.type = t
  BY ONLY <1>4
<1>7. t \in Dictionaries /\ t \notin {"void", "dictionary"} /\ Replied(h, c, d, cell, m, M, g)
      /\ Bind(s, z, scopes, pending)
  BY <1>1 DEF Answers, Dictionaries
<1>8. PICK y, q, zs : Arrives(s, z, y, q, zs)
  BY <1>3, <1>5, <1>6, <1>7, BindIs
<1>9. PICK f : f = heap'
  OBVIOUS
<1>10. /\ Well(f) /\ y \in DOMAIN f /\ DOMAIN f \subseteq DOMAIN q
       /\ \A x \in DOMAIN f : f[x] = q[x]
       /\ Current(zs).names[name] = y
       /\ Roots(Without(zs, name)) \subseteq Roots(scopes) /\ Roots(Without(zs, name)) \subseteq DOMAIN f
  BY <1>1, <1>8, <1>9, ArrivalIs
<1>11. /\ (y = z.cell \/ y \notin DOMAIN z.heap) /\ q[y] = z.heap[z.cell]
       /\ \A x \in DOMAIN z.heap : q[x] = z.heap[x]
       /\ scopes' = zs
  BY <1>8 DEF Arrives
<1>12. y \notin DOMAIN g /\ f[y] = w /\ \A x \in DOMAIN g \intersect DOMAIN f : f[x] = g[x]
  BY <1>3, <1>5, <1>10, <1>11
<1>13. M \subseteq DOMAIN g
  BY <1>7 DEF Replied, Placed
<1>14. f[y] = [type |-> t, value |-> [k \in Keys(d[c]) |-> <<m>> \o Append(<< >>, k)]]
  BY <1>1, <1>4, <1>12
<1>15. \A x \in M \intersect DOMAIN f : f[x] = g[x]
  BY <1>12, <1>13
<1>16. d = WithoutOthers(h)
  BY <1>1
<1>17. Mirrored(f, y, d, cell, m)
  BY <1>2, <1>3, <1>7, <1>14, <1>15, <1>16, AnswerMirrors
<1>18. SameData(h, c, f, y)
  BY <1>2, <1>7, <1>10, <1>16, <1>17, DataSame
<1>19. PICK others : others = Roots(Without(zs, name))
  OBVIOUS
<1>20. others \subseteq DOMAIN h /\ others \subseteq DOMAIN f
  BY <1>2, <1>10, <1>19 DEF IInv, Ready, Keeps
<1>21. Reach(f, {y}) \intersect Reach(f, others) = {}
  BY <1>2, <1>7, <1>10, <1>12, <1>14, <1>20, AnswerApart
<1> QED BY <1>1, <1>9, <1>10, <1>11, <1>18, <1>19, <1>21 DEF IsData

LEMMA LateIsError ==
  ASSUME IInv, NEW s, NEW r, Good(heap, r), NEW v,
         Bind(s, New(r.heap, "error", v), scopes, pending), status' = "running"
  PROVE  IsData(r, s.name)
<1>1. PICK h, z, name : h = r.heap /\ z = New(h, "error", v) /\ name = s.name
  OBVIOUS
<1>2. Good(heap, z) /\ z.status = "ok"
  BY <1>1, ErrorIs
<1>3. z.heap[z.cell].type = "error"
  <2>1. "error" \notin Containers
    BY TypesApart
  <2>2. Held([type |-> "error", value |-> v], DOMAIN h)
    BY <2>1, HeldPlain
  <2>3. Changed(h, z.heap, z.cell, [type |-> "error", value |-> v])
    BY <1>1, <2>2, NewIs DEF Good
  <2>4. z.heap[z.cell] = [type |-> "error", value |-> v]
    BY <2>3 DEF Changed
  <2> QED BY <2>4
<1>4. PICK y, q, zs : Arrives(s, z, y, q, zs)
  BY <1>1, <1>2, <1>3, BindIs
<1>5. PICK f : f = heap'
  OBVIOUS
<1>6. y \in DOMAIN f /\ (\A x \in DOMAIN f : f[x] = q[x]) /\ Current(zs).names[name] = y
  BY <1>1, <1>4, <1>5, ArrivalIs
<1>7. q[y] = z.heap[z.cell] /\ scopes' = zs
  BY <1>4 DEF Arrives
<1>8. f[y].type = "error"
  BY <1>3, <1>6, <1>7
<1> QED BY <1>1, <1>5, <1>6, <1>7, <1>8 DEF IsData

LEMMA AskIsData ==
  ASSUME IInv, NEW s \in Statements, NEW late \in BOOLEAN, Ask(s, late), status' = "running"
  PROVE  IsData(Value(s.value, heap), s.name)
<1>1. PICK r : r = Value(s.value, heap)
  OBVIOUS
<1>2. Good(heap, r)
  BY <1>1, CodeOf, ValueGood DEF Ask, Asked, IInv
<1>3. PICK d : d = WithoutOthers(r.heap)
  OBVIOUS
<1>4. ~(\E how : how # "running" /\ End(how))
  BY DEF End
<1>5. CASE Bind(s, New(r.heap, "error", "Operation timeout"), scopes, pending)
  BY <1>1, <1>2, <1>5, LateIsError
<1>6. CASE r.status = "ok" /\ \E cell, m, M, g, t, z : Answers(s, r, d, cell, m, M, g, t, z)
  <2>1. PICK cell, m, M, g, t, z : Answers(s, r, d, cell, m, M, g, t, z)
    BY <1>6
  <2>2. IsData(r, s.name)
    BY <1>2, <1>3, <1>6, <2>1, AnswersAreData
  <2> QED BY <1>1, <2>2
<1> QED BY <1>1, <1>2, <1>3, <1>4, <1>5, <1>6, AskIs

(* A variable that awaits a request's reply, unless it gets an error, has  *)
(* the data that the request was made with, but for what to_json leaves    *)
(* out, at all depths, and shares no storage with anything else: nothing   *)
(* is lost, doubled or swapped on the way to JSON and back                 *)
(* (conversion/json.hpp:14-95, interpreter_workflow.cpp:218-312).          *)
THEOREM RepliesAlways == Spec => RepliesAreData
<1> DEFINE A == last'.do = "ask" /\ status' = "running" => IsData(Value(last'.value, heap), last'.name)
<1>1. IInv /\ [Next]_vars => [A]_vars
  <2> SUFFICES ASSUME IInv, Next, last'.do = "ask", status' = "running"
               PROVE  IsData(Value(last'.value, heap), last'.name)
    OBVIOUS
  <2>1. PICK s \in Statements, late \in BOOLEAN :
          Declare(s) \/ AssignTo(s) \/ Evaluate(s) \/ Call(s) \/ Return(s) \/ Raise(s) \/ Ask(s, late)
    BY DEF Next
  <2>2. last' = s
    BY <2>1 DEF Declare, AssignTo, Evaluate, Call, Return, Raise, Ask, Execute
  <2>3. Ask(s, late)
    BY <2>1, <2>2 DEF Declare, AssignTo, Evaluate, Call, Return, Raise
  <2> QED BY <2>2, <2>3, AskIsData
<1>2. Spec => [][A]_vars
  BY <1>1, Invariance, PTL DEF Spec
<1>3. RepliesAreData <=> [][A]_vars
  BY DEF RepliesAreData, IsData, Without
<1> QED BY <1>2, <1>3
=============================================================================
