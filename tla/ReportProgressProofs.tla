------------------------ MODULE ReportProgressProofs ------------------------
(***************************************************************************)
(* Proofs about ReportProgress for every hierarchy, every weights and any  *)
(* number of writers that set what they like: a report that its own writer *)
(* leaves alone and whose sub reports do not go back does not go back      *)
(* itself, is not ahead of them and, when no call is under way, has missed *)
(* no update.                                                              *)
(***************************************************************************)
EXTENDS ReportProgress, WellFoundedInduction, TLAPS

------------------------------------------------------------------------------
(* The sums are defined by recursion on the number of sub reports; what    *)
(* they are is shown by the least number for which it would not hold.      *)

LEMMA LeastNat ==
  ASSUME NEW S \in SUBSET Nat, S # {}
  PROVE  \E n \in S : \A m \in Nat : m < n => m \notin S
<1> DEFINE R == OpToRel(<, Nat)
<1>1. IsWellFoundedOn(R, Nat)
  BY NatLessThanWellFounded
<1>2. \A x, y \in Nat : <<y, x>> \in R <=> y < x
  BY DEF OpToRel
<1> HIDE DEF R
<1>3. PICK n \in S : \A m \in S : <<m, n>> \notin R
  BY <1>1, WFMin
<1>4. ASSUME NEW m \in Nat, m < n PROVE m \notin S
  BY <1>2, <1>3, <1>4
<1> QED BY <1>4

(* f gives the sums of the first terms of g.                               *)
Sums(f, g, n) == f = [k \in 0..n |-> IF k = 0 THEN 0 ELSE f[k - 1] + g[k]]

(* What g gives is added up, for as long as there are terms.               *)
LEMMA SumExists ==
  ASSUME NEW g, NEW n \in Nat
  PROVE  \E f : Sums(f, g, n)
<1> DEFINE Exists(m) == \E f : Sums(f, g, m)
           S == {m \in Nat : ~ Exists(m)}
<1> SUFFICES ASSUME S # {} PROVE FALSE
  OBVIOUS
<1> USE DEF Sums
<1>1. PICK m \in S : \A i \in Nat : i < m => i \notin S
  BY LeastNat
<1>2. m # 0
  <2>1. PICK f : f = [k \in 0..0 |-> 0]
    OBVIOUS
  <2>2. f = [k \in 0..0 |-> IF k = 0 THEN 0 ELSE f[k - 1] + g[k]]
    BY <2>1
  <2> QED BY <1>1, <2>2
<1>3. m - 1 \in Nat /\ m - 1 < m
  BY <1>1, <1>2
<1>4. PICK f : f = [k \in 0..m - 1 |-> IF k = 0 THEN 0 ELSE f[k - 1] + g[k]]
  BY <1>1, <1>3
<1>5. PICK h : h = [k \in 0..m |-> IF k = m THEN f[m - 1] + g[m] ELSE f[k]]
  OBVIOUS
<1>6. ASSUME NEW k \in 0..m PROVE h[k] = IF k = 0 THEN 0 ELSE h[k - 1] + g[k]
  <2>1. CASE k = 0
    BY <1>2, <1>3, <1>4, <1>5, <2>1
  <2>2. CASE k # 0 /\ k # m
    <3>1. k \in 0..m - 1 /\ k - 1 \in 0..m /\ k - 1 # m
      BY <1>3, <2>2
    <3>2. h[k] = f[k] /\ h[k - 1] = f[k - 1]
      BY <1>5, <2>2, <3>1
    <3>3. f[k] = f[k - 1] + g[k]
      BY <1>4, <2>2, <3>1
    <3> QED BY <2>2, <3>2, <3>3
  <2>3. CASE k = m
    <3>1. m - 1 \in 0..m /\ m - 1 # m /\ m \in 0..m
      BY <1>3
    <3>2. h[m] = f[m - 1] + g[m] /\ h[m - 1] = f[m - 1]
      BY <1>5, <3>1
    <3> QED BY <1>2, <2>3, <3>2
  <2> QED BY <2>1, <2>2, <2>3
<1>7. h = [k \in 0..m |-> IF k = 0 THEN 0 ELSE h[k - 1] + g[k]]
  BY <1>5, <1>6
<1> QED BY <1>1, <1>7

LEMMA SumsAreNat ==
  ASSUME NEW n \in Nat, NEW g \in [1..n -> Nat], NEW f, Sums(f, g, n)
  PROVE  /\ f \in [0..n -> Nat] /\ f[0] = 0
         /\ \A k \in 1..n : k - 1 \in 0..n /\ f[k] = f[k - 1] + g[k]
<1>1. DOMAIN f = 0..n /\ f = [k \in 0..n |-> f[k]] /\ f[0] = 0
  BY DEF Sums
<1>2. ASSUME NEW k \in 1..n PROVE k - 1 \in 0..n /\ f[k] = f[k - 1] + g[k]
  BY DEF Sums
<1> DEFINE S == {k \in 0..n : f[k] \notin Nat}
<1>3. S = {}
  <2> SUFFICES ASSUME S # {} PROVE FALSE
    OBVIOUS
  <2>1. S \subseteq Nat
    OBVIOUS
  <2>2. PICK k \in S : \A i \in Nat : i < k => i \notin S
    <3> HIDE DEF S
    <3> QED BY <2>1, LeastNat
  <2>3. k # 0
    BY <1>1, <2>2
  <2>4. k \in 1..n /\ k - 1 \in 0..n /\ k - 1 \in Nat /\ k - 1 < k
    BY <2>2, <2>3
  <2>5. f[k - 1] \in Nat
    BY <2>2, <2>4
  <2>6. g[k] \in Nat /\ f[k] = f[k - 1] + g[k]
    BY <1>2, <2>4
  <2> QED BY <2>2, <2>5, <2>6
<1> QED BY <1>1, <1>2, <1>3

(* Greater terms have greater sums, and the difference grows.              *)
LEMMA SumsGrow ==
  ASSUME NEW n \in Nat, NEW g \in [1..n -> Nat], NEW f, Sums(f, g, n),
         NEW g2 \in [1..n -> Nat], NEW f2, Sums(f2, g2, n),
         \A k \in 1..n : g[k] <= g2[k]
  PROVE  \A k \in 0..n : f[k] <= f2[k] /\ f[n] - f[k] <= f2[n] - f2[k]
<1>1. /\ f \in [0..n -> Nat] /\ f[0] = 0
      /\ \A k \in 1..n : k - 1 \in 0..n /\ f[k] = f[k - 1] + g[k]
  BY SumsAreNat
<1>2. /\ f2 \in [0..n -> Nat] /\ f2[0] = 0
      /\ \A k \in 1..n : k - 1 \in 0..n /\ f2[k] = f2[k - 1] + g2[k]
  BY SumsAreNat
<1> DEFINE S == {k \in 0..n : \E j \in 0..k : ~ (f2[j] - f[j] <= f2[k] - f[k])}
<1>3. S = {}
  <2> SUFFICES ASSUME S # {} PROVE FALSE
    OBVIOUS
  <2>1. S \subseteq Nat
    OBVIOUS
  <2>2. PICK k \in S : \A i \in Nat : i < k => i \notin S
    <3> HIDE DEF S
    <3> QED BY <2>1, LeastNat
  <2>3. PICK j \in 0..k : ~ (f2[j] - f[j] <= f2[k] - f[k])
    BY <2>2
  <2>4. k \in 0..n /\ j \in 0..n /\ j # k
    <3>1. k \in 0..n /\ j \in 0..n
      BY <2>2
    <3>2. f[k] \in Nat /\ f2[k] \in Nat
      BY <1>1, <1>2, <3>1
    <3> QED BY <2>3, <3>1, <3>2
  <2>5. k \in 1..n /\ k - 1 \in 0..n /\ k - 1 \in Nat /\ k - 1 < k /\ j \in 0..k - 1
    BY <2>4
  <2>6. /\ f[k] \in Nat /\ f2[k] \in Nat /\ f[k - 1] \in Nat /\ f2[k - 1] \in Nat
        /\ f[j] \in Nat /\ f2[j] \in Nat /\ g[k] \in Nat /\ g2[k] \in Nat
    BY <1>1, <1>2, <2>4, <2>5
  <2>7. f2[j] - f[j] <= f2[k - 1] - f[k - 1]
    <3>1. k - 1 \notin S
      BY <2>2, <2>5
    <3> QED BY <2>5, <2>6, <3>1
  <2>8. f[k] = f[k - 1] + g[k] /\ f2[k] = f2[k - 1] + g2[k] /\ g[k] <= g2[k]
    BY <1>1, <1>2, <2>5
  <2>9. PICK a \in Nat, b \in Nat, c \in Nat, d \in Nat, e \in Nat, h \in Nat :
             a = f[j] /\ b = f2[j] /\ c = f[k - 1] /\ d = f2[k - 1] /\ e = g[k] /\ h = g2[k]
    BY <2>6
  <2>10. f[k] = c + e /\ f2[k] = d + h
    BY <2>8, <2>9
  <2>11. ~ (b - a <= (d + h) - (c + e)) /\ b - a <= d - c /\ e <= h
    BY <2>3, <2>7, <2>8, <2>9, <2>10
  <2> HIDE DEF S
  <2> QED BY <2>11
<1> SUFFICES ASSUME NEW k \in 0..n PROVE f[k] <= f2[k] /\ f[n] - f[k] <= f2[n] - f2[k]
  OBVIOUS
<1>4. f2[0] - f[0] <= f2[k] - f[k] /\ f2[k] - f[k] <= f2[n] - f[n]
  <2>1. 0 \in 0..k /\ k \in 0..n /\ n \in 0..n /\ 0 \in 0..n
    OBVIOUS
  <2>2. k \notin S /\ n \notin S
    BY <1>3
  <2> QED BY <2>1, <2>2
<1>5. /\ f[k] \in Nat /\ f2[k] \in Nat /\ f[n] \in Nat /\ f2[n] \in Nat
  BY <1>1, <1>2
<1> QED BY <1>1, <1>2, <1>4, <1>5

------------------------------------------------------------------------------
(* The sums of the sub reports' progress and weights                       *)

(* What a writer adds for the k-th sub report of r.                        *)
Terms(r, p) == [k \in 1..Len(Subs[r]) |-> Weight[Subs[r][k]] * p[Subs[r][k]]]

LEMMA SubsOfReport ==
  ASSUME NEW r \in Reports
  PROVE  /\ Len(Subs[r]) \in Nat
         /\ \A k \in 1..Len(Subs[r]) :
              /\ Subs[r][k] \in Reports /\ Parent[Subs[r][k]] = r
              /\ Weight[Subs[r][k]] \in Nat
<1>1. /\ Subs[r] \in Seq({s \in Reports : Parent[s] = r}) /\ Weight \in [Reports -> Nat]
  BY ProgressAssumption
<1>2. PICK T : T = {s \in Reports : Parent[s] = r}
  OBVIOUS
<1>3. Subs[r] \in Seq(T)
  BY <1>1, <1>2
<1>4. Len(Subs[r]) \in Nat /\ \A k \in 1..Len(Subs[r]) : Subs[r][k] \in T
  BY <1>3
<1> QED BY <1>1, <1>2, <1>4

LEMMA TermsAreNat ==
  ASSUME NEW r \in Reports, NEW p \in [Reports -> Nat]
  PROVE  Terms(r, p) \in [1..Len(Subs[r]) -> Nat] /\ Sums(Visited(r, p), Terms(r, p), Len(Subs[r]))
<1>1. ASSUME NEW k \in 1..Len(Subs[r]) PROVE Weight[Subs[r][k]] * p[Subs[r][k]] \in Nat
  <2>1. Weight[Subs[r][k]] \in Nat /\ p[Subs[r][k]] \in Nat
    BY SubsOfReport
  <2> QED BY <2>1
<1>2. Terms(r, p) \in [1..Len(Subs[r]) -> Nat]
  BY <1>1 DEF Terms
<1>3. PICK g, n : g = Terms(r, p) /\ n = Len(Subs[r])
  OBVIOUS
<1>4. PICK f : Sums(f, g, n)
  BY <1>3, SubsOfReport, SumExists
<1>5. ASSUME NEW k \in 0..n, k # 0
      PROVE  g[k] = Weight[Subs[r][k]] * p[Subs[r][k]]
  BY <1>3, <1>5, SubsOfReport DEF Terms
<1>6. \E h : h = [k \in 0..Len(Subs[r]) |->
               IF k = 0 THEN 0 ELSE h[k - 1] + Weight[Subs[r][k]] * p[Subs[r][k]]]
  <2>1. f = [k \in 0..Len(Subs[r]) |->
               IF k = 0 THEN 0 ELSE f[k - 1] + Weight[Subs[r][k]] * p[Subs[r][k]]]
    BY <1>3, <1>4, <1>5 DEF Sums
  <2> QED BY <2>1
<1>7. Visited(r, p) = [k \in 0..Len(Subs[r]) |->
               IF k = 0 THEN 0 ELSE Visited(r, p)[k - 1] + Weight[Subs[r][k]] * p[Subs[r][k]]]
  BY <1>6, Zenon DEF Visited
<1>8. Sums(Visited(r, p), g, n)
  BY <1>3, <1>5, <1>7 DEF Sums
<1> QED BY <1>2, <1>3, <1>8

LEMMA VisitedIs ==
  ASSUME NEW r \in Reports, NEW p \in [Reports -> Nat]
  PROVE  /\ Len(Subs[r]) \in Nat
         /\ Visited(r, p) \in [0..Len(Subs[r]) -> Nat] /\ Visited(r, p)[0] = 0
         /\ \A k \in 1..Len(Subs[r]) :
              /\ k - 1 \in 0..Len(Subs[r])
              /\ Visited(r, p)[k] = Visited(r, p)[k - 1] + Weight[Subs[r][k]] * p[Subs[r][k]]
         /\ TotalOf(r, p) \in Nat
<1>1. PICK f, g, n : f = Visited(r, p) /\ g = Terms(r, p) /\ n = Len(Subs[r])
  OBVIOUS
<1>2. n \in Nat /\ g \in [1..n -> Nat] /\ Sums(f, g, n)
  BY <1>1, TermsAreNat, SubsOfReport
<1>3. /\ f \in [0..n -> Nat] /\ f[0] = 0
      /\ \A k \in 1..n : k - 1 \in 0..n /\ f[k] = f[k - 1] + g[k]
  BY <1>2, SumsAreNat
<1>4. \A k \in 1..n : g[k] = Weight[Subs[r][k]] * p[Subs[r][k]]
  BY <1>1 DEF Terms
<1>5. f[n] \in Nat
  BY <1>2, <1>3
<1> QED BY <1>1, <1>2, <1>3, <1>4, <1>5 DEF TotalOf

LEMMA Multiply == \A w, x, y \in Nat : x <= y => w * x <= w * y
<1> SUFFICES ASSUME NEW w \in Nat, NEW x \in Nat, NEW y \in Nat, x <= y PROVE w * x <= w * y
  OBVIOUS
<1>1. PICK d \in Nat : y = x + d
  <2>1. y - x \in Nat /\ y = x + (y - x)
    OBVIOUS
  <2> QED BY <2>1
<1>2. w * y = w * x + w * d /\ w * d \in Nat /\ w * x \in Nat
  BY <1>1
<1> QED BY <1>2

(* When progress grows, so do the sums of those visited and of the rest.   *)
(* Only sub reports with a weight count.                                   *)
LEMMA VisitedGrows ==
  ASSUME NEW r \in Reports, NEW p \in [Reports -> Nat], NEW q \in [Reports -> Nat],
         \A s \in Reports : Parent[s] = r /\ Weight[s] > 0 => p[s] <= q[s]
  PROVE  \A k \in 0..Len(Subs[r]) :
           /\ Visited(r, p)[k] <= Visited(r, q)[k]
           /\ TotalOf(r, p) - Visited(r, p)[k] <= TotalOf(r, q) - Visited(r, q)[k]
<1>1. PICK n, f, g, f2, g2 : /\ n = Len(Subs[r]) /\ f = Visited(r, p) /\ g = Terms(r, p)
                            /\ f2 = Visited(r, q) /\ g2 = Terms(r, q)
  OBVIOUS
<1>2. /\ n \in Nat /\ g \in [1..n -> Nat] /\ Sums(f, g, n)
      /\ g2 \in [1..n -> Nat] /\ Sums(f2, g2, n)
  BY <1>1, TermsAreNat, SubsOfReport
<1>3. ASSUME NEW k \in 1..n PROVE g[k] <= g2[k]
  <2>1. PICK w, x, y \in Nat : w = Weight[Subs[r][k]] /\ x = p[Subs[r][k]] /\ y = q[Subs[r][k]]
    BY <1>1, SubsOfReport
  <2>2. w > 0 => x <= y
    BY <1>1, <2>1, SubsOfReport
  <2>3. g[k] = w * x /\ g2[k] = w * y
    BY <1>1, <2>1 DEF Terms
  <2>4. CASE w = 0
    <3>1. w * x = 0 /\ w * y = 0
      BY <2>1, <2>4
    <3> QED BY <2>3, <3>1
  <2>5. CASE w > 0
    BY <2>1, <2>2, <2>3, <2>5, Multiply
  <2> QED BY <2>1, <2>4, <2>5
<1>4. \A k \in 0..n : f[k] <= f2[k] /\ f[n] - f[k] <= f2[n] - f2[k]
  BY <1>2, <1>3, SumsGrow
<1> QED BY <1>1, <1>4 DEF TotalOf

LEMMA VisitedSame ==
  ASSUME NEW r \in Reports, NEW p \in [Reports -> Nat], NEW q \in [Reports -> Nat],
         \A s \in Reports : Parent[s] = r /\ Weight[s] > 0 => p[s] = q[s]
  PROVE  Visited(r, p) = Visited(r, q) /\ TotalOf(r, p) = TotalOf(r, q)
<1>1. PICK n, f, g, f2, g2 : /\ n = Len(Subs[r]) /\ f = Visited(r, p) /\ g = Terms(r, p)
                            /\ f2 = Visited(r, q) /\ g2 = Terms(r, q)
  OBVIOUS
<1>2. /\ n \in Nat /\ g \in [1..n -> Nat] /\ Sums(f, g, n)
      /\ g2 \in [1..n -> Nat] /\ Sums(f2, g2, n)
  BY <1>1, TermsAreNat, SubsOfReport
<1>3. ASSUME NEW k \in 1..n PROVE g[k] = g2[k]
  <2>1. PICK s \in Reports : s = Subs[r][k] /\ Parent[s] = r /\ Weight[s] \in Nat
    BY <1>1, SubsOfReport
  <2>2. g[k] = Weight[s] * p[s] /\ g2[k] = Weight[s] * q[s] /\ p[s] \in Nat /\ q[s] \in Nat
    BY <1>1, <2>1 DEF Terms
  <2>3. CASE Weight[s] > 0
    BY <2>1, <2>2, <2>3
  <2>4. CASE Weight[s] = 0
    BY <2>2, <2>4
  <2> QED BY <2>1, <2>3, <2>4
<1>4. g = g2
  BY <1>2, <1>3
<1>5. \A k \in 0..n : f[k] <= f2[k] /\ f2[k] <= f[k]
  <2>1. \A k \in 1..n : g[k] <= g2[k] /\ g2[k] <= g[k]
    BY <1>2, <1>4
  <2>2. \A k \in 0..n : f[k] <= f2[k]
    BY <1>2, <2>1, SumsGrow
  <2>3. \A k \in 0..n : f2[k] <= f[k]
    BY <1>2, <2>1, SumsGrow
  <2> QED BY <2>2, <2>3
<1>6. f \in [0..n -> Nat] /\ f2 \in [0..n -> Nat]
  BY <1>2, SumsAreNat
<1>7. f = f2
  <2>1. ASSUME NEW k \in 0..n PROVE f[k] = f2[k]
    <3>1. f[k] \in Nat /\ f2[k] \in Nat
      BY <1>6
    <3>2. f[k] <= f2[k] /\ f2[k] <= f[k]
      BY <1>5
    <3> QED BY <3>1, <3>2
  <2>2. f = [k \in 0..n |-> f[k]] /\ f2 = [k \in 0..n |-> f2[k]]
    BY <1>6
  <2>3. [k \in 0..n |-> f[k]] = [k \in 0..n |-> f2[k]]
    BY <2>1
  <2> QED BY <2>2, <2>3, Zenon
<1> QED BY <1>1, <1>7 DEF TotalOf

------------------------------------------------------------------------------
(* The mean                                                                *)

LEMMA Ones == [s \in Reports |-> 1] \in [Reports -> Nat]
  OBVIOUS

LEMMA WeightIsNat ==
  ASSUME NEW r \in Reports PROVE TotalWeight(r) \in Nat
  BY Ones, VisitedIs DEF TotalWeight

(* A sub report that is not excluded counts.                               *)
LEMMA ParentCounts ==
  ASSUME NEW s \in Reports, Parent[s] # None, Weight[s] > 0
  PROVE  Parent[s] \in Reports /\ TotalWeight(Parent[s]) > 0
<1>1. PICK r \in Reports : r = Parent[s]
  BY ProgressAssumption
<1>2. PICK k \in 1..Len(Subs[r]) : Subs[r][k] = s
  <2>1. Contains(Subs[r], s)
    BY <1>1, ProgressAssumption
  <2> QED BY <2>1 DEF Contains
<1>3. PICK p : p = [x \in Reports |-> 1]
  OBVIOUS
<1>4. p \in [Reports -> Nat] /\ p[s] = 1
  BY <1>3
<1>5. PICK n, f, g : n = Len(Subs[r]) /\ f = Visited(r, p) /\ g = Terms(r, p)
  OBVIOUS
<1>6. n \in Nat /\ g \in [1..n -> Nat] /\ Sums(f, g, n) /\ k \in 1..n
  BY <1>2, <1>4, <1>5, TermsAreNat, SubsOfReport
<1>7. f \in [0..n -> Nat] /\ k - 1 \in 0..n /\ f[k] = f[k - 1] + g[k]
  BY <1>6, SumsAreNat
<1>8. g[k] = Weight[s] * 1 /\ Weight[s] \in Nat
  BY <1>2, <1>4, <1>5, <1>6, ProgressAssumption DEF Terms
<1>9. f[n] - f[k] >= 0
  <2>1. PICK h, z : h = [i \in 0..n |-> 0] /\ z = [i \in 1..n |-> 0]
    OBVIOUS
  <2>2. Sums(h, z, n) /\ z \in [1..n -> Nat] /\ \A i \in 1..n : z[i] <= g[i]
    BY <1>6, <2>1 DEF Sums
  <2>3. \A i \in 0..n : h[i] <= f[i] /\ h[n] - h[i] <= f[n] - f[i]
    BY <1>6, <2>2, SumsGrow
  <2>4. h[n] = 0 /\ h[k] = 0
    BY <1>6, <2>1
  <2>5. k \in 0..n /\ n \in 0..n
    BY <1>6
  <2>6. PICK x, y \in Nat : x = f[n] /\ y = f[k]
    BY <1>7, <2>5
  <2>7. 0 - 0 <= x - y
    BY <2>3, <2>4, <2>5, <2>6
  <2> QED BY <2>6, <2>7
<1>10. f[n] > 0
  <2>1. f[n] \in Nat /\ f[k] \in Nat /\ f[k - 1] \in Nat
    BY <1>6, <1>7
  <2>2. f[k] > 0
    BY <1>7, <1>8, <2>1
  <2> QED BY <1>9, <2>1, <2>2
<1> QED BY <1>1, <1>3, <1>5, <1>10 DEF TotalWeight, TotalOf

LEMMA DivGrows ==
  ASSUME NEW a \in Int, NEW b \in Int, a <= b, NEW d \in Nat, d > 0
  PROVE  a \div d \in Int /\ a \div d <= b \div d
  OBVIOUS

LEMMA MeanGrows ==
  ASSUME NEW r \in Reports, TotalWeight(r) > 0, NEW t \in Int, NEW u \in Int, t <= u
  PROVE  Mean(r, t) \in Int /\ Mean(r, t) <= Mean(r, u)
<1>1. PICK w \in Nat : w = TotalWeight(r) /\ w > 0
  BY WeightIsNat
<1>2. 2 * t + w \in Int /\ 2 * u + w \in Int /\ 2 * t + w <= 2 * u + w /\ 2 * w \in Nat /\ 2 * w > 0
  BY <1>1
<1>3. /\ (2 * t + w) \div (2 * w) \in Int
      /\ (2 * t + w) \div (2 * w) <= (2 * u + w) \div (2 * w)
  BY <1>2, DivGrows
<1> QED BY <1>1, <1>3 DEF Mean

(* At the start, and when all sub reports have finished.                   *)
LEMMA MeanOfNone ==
  ASSUME NEW r \in Reports, TotalWeight(r) > 0
  PROVE  Mean(r, 0) = 0
<1>1. PICK w \in Nat : w = TotalWeight(r) /\ w > 0
  BY WeightIsNat
<1>2. (2 * 0 + w) \div (2 * w) = 0
  BY <1>1
<1> QED BY <1>1, <1>2 DEF Mean

LEMMA MeanOfAll ==
  ASSUME NEW r \in Reports, TotalWeight(r) > 0
  PROVE  Mean(r, 100 * TotalWeight(r)) = 100
<1>1. PICK w \in Nat : w = TotalWeight(r) /\ w > 0
  BY WeightIsNat
<1>2. (2 * (100 * w) + w) \div (2 * w) = 100
  BY <1>1
<1> QED BY <1>1, <1>2 DEF Mean

LEMMA TotalOfNone ==
  ASSUME NEW r \in Reports
  PROVE  TotalOf(r, [s \in Reports |-> 0]) = 0
<1>1. PICK p : p = [s \in Reports |-> 0]
  OBVIOUS
<1>2. PICK n, f, g : n = Len(Subs[r]) /\ f = Visited(r, p) /\ g = Terms(r, p)
  OBVIOUS
<1>3. n \in Nat /\ g \in [1..n -> Nat] /\ Sums(f, g, n)
  BY <1>1, <1>2, TermsAreNat, SubsOfReport
<1>4. \A k \in 1..n : g[k] = 0
  BY <1>1, <1>2, SubsOfReport DEF Terms
<1>5. PICK h, z : h = [i \in 0..n |-> 0] /\ z = [i \in 1..n |-> 0]
  OBVIOUS
<1>6. Sums(h, z, n) /\ z \in [1..n -> Nat] /\ \A i \in 1..n : g[i] <= z[i]
  <2>1. Sums(h, z, n)
    BY <1>3, <1>5 DEF Sums
  <2>2. z \in [1..n -> Nat] /\ \A i \in 1..n : g[i] <= z[i]
    BY <1>4, <1>5
  <2> QED BY <2>1, <2>2
<1>7. \A i \in 0..n : f[i] <= h[i] /\ f[n] - f[i] <= h[n] - h[i]
  BY <1>3, <1>6, SumsGrow
<1>8. f[n] \in Nat /\ n \in 0..n /\ h[n] = 0
  BY <1>3, <1>5, SumsAreNat
<1>9. f[n] = 0
  BY <1>7, <1>8
<1> QED BY <1>1, <1>2, <1>9 DEF TotalOf

LEMMA TotalBounded ==
  ASSUME NEW r \in Reports, NEW p \in [Reports -> Nat], \A s \in Reports : p[s] <= 100
  PROVE  TotalOf(r, p) <= 100 * TotalWeight(r)
<1>1. PICK ones : ones = [s \in Reports |-> 1]
  OBVIOUS
<1>2. ones \in [Reports -> Nat] /\ \A s \in Reports : ones[s] = 1
  BY <1>1
<1>3. PICK n, f, g, f1, g1 : /\ n = Len(Subs[r]) /\ f = Visited(r, p) /\ g = Terms(r, p)
                            /\ f1 = Visited(r, ones) /\ g1 = Terms(r, ones)
  OBVIOUS
<1>4. /\ n \in Nat /\ g \in [1..n -> Nat] /\ Sums(f, g, n)
      /\ g1 \in [1..n -> Nat] /\ Sums(f1, g1, n)
  BY <1>2, <1>3, TermsAreNat, SubsOfReport
<1>5. /\ f1 \in [0..n -> Nat] /\ f1[0] = 0
      /\ \A k \in 1..n : k - 1 \in 0..n /\ f1[k] = f1[k - 1] + g1[k]
  BY <1>4, SumsAreNat
<1>6. PICK h, z : h = [k \in 0..n |-> 100 * f1[k]] /\ z = [k \in 1..n |-> 100 * g1[k]]
  OBVIOUS
<1>7. z \in [1..n -> Nat] /\ \A k \in 1..n : z[k] = 100 * g1[k]
  BY <1>4, <1>6
<1>8. Sums(h, z, n)
  <2>1. ASSUME NEW k \in 0..n, k # 0 PROVE h[k] = h[k - 1] + z[k]
    <3>1. k \in 1..n /\ k - 1 \in 0..n /\ f1[k] = f1[k - 1] + g1[k]
      BY <1>4, <1>5, <2>1
    <3>2. PICK a, b, c \in Nat : a = f1[k] /\ b = f1[k - 1] /\ c = g1[k]
      BY <1>4, <1>5, <3>1
    <3>3. h[k] = 100 * a /\ h[k - 1] = 100 * b /\ z[k] = 100 * c /\ a = b + c
      BY <1>6, <3>1, <3>2
    <3> QED BY <3>2, <3>3
  <2>2. h[0] = 0 /\ h = [k \in 0..n |-> h[k]]
    BY <1>4, <1>5, <1>6
  <2> QED BY <2>1, <2>2 DEF Sums
<1>9. ASSUME NEW k \in 1..n PROVE g[k] <= z[k]
  <2>1. PICK s \in Reports : s = Subs[r][k] /\ Weight[s] \in Nat
    BY <1>3, SubsOfReport
  <2>2. PICK w, x \in Nat : w = Weight[s] /\ x = p[s]
    BY <2>1
  <2>3. g[k] = w * x /\ g1[k] = w * 1 /\ x <= 100
    BY <1>2, <1>3, <2>1, <2>2 DEF Terms
  <2>4. w * x <= w * 100
    BY <2>2, <2>3, Multiply
  <2> QED BY <1>7, <2>2, <2>3, <2>4
<1>10. \A i \in 0..n : f[i] <= h[i] /\ f[n] - f[i] <= h[n] - h[i]
  BY <1>4, <1>7, <1>8, <1>9, SumsGrow
<1>11. f[n] <= 100 * f1[n]
  BY <1>4, <1>6, <1>10
<1> QED BY <1>1, <1>3, <1>11 DEF TotalOf, TotalWeight

------------------------------------------------------------------------------
(* A round: r's progress is read, its sub reports are visited, and the     *)
(* mean of what was seen replaces it unless it has changed.                *)

(* o was read, and the sub reports before the k-th gave the sum s; p is    *)
(* the progress by now.  What was seen may be too little, but the mean     *)
(* will not be below o, whatever grows in the meantime.                    *)
RoundInv(r, o, k, s, p) ==
  /\ o <= p[r]
  /\ s <= Visited(r, p)[k - 1]
  /\ o <= Mean(r, s + (TotalOf(r, p) - Visited(r, p)[k - 1]))

LEMMA ProgressIsNat ==
  /\ \A x : x \in Progress <=> x \in Nat /\ x <= 100
  /\ \A p \in [Reports -> Progress] :
       p \in [Reports -> Nat] /\ \A x \in Reports : p[x] \in Nat /\ p[x] <= 100
<1>1. \A x : x \in Progress <=> x \in Nat /\ x <= 100
  BY DEF Progress
<1>2. ASSUME NEW p \in [Reports -> Progress]
      PROVE  p \in [Reports -> Nat] /\ \A x \in Reports : p[x] \in Nat /\ p[x] <= 100
  BY <1>1
<1> QED BY <1>1, <1>2

LEMMA RoundStarts ==
  ASSUME NEW r \in Reports, TotalWeight(r) > 0, NEW p \in [Reports -> Progress],
         p[r] <= Mean(r, TotalOf(r, p))
  PROVE  RoundInv(r, p[r], 1, 0, p)
<1>1. p \in [Reports -> Nat]
  BY DEF Progress
<1>2. Visited(r, p)[0] = 0 /\ TotalOf(r, p) \in Nat
  BY <1>1, VisitedIs
<1>3. 1 - 1 = 0 /\ 0 + (TotalOf(r, p) - 0) = TotalOf(r, p)
  BY <1>2
<1>4. p[r] <= p[r] /\ 0 <= 0
  BY <1>1
<1> QED BY <1>2, <1>3, <1>4 DEF RoundInv

LEMMA RoundKept ==
  ASSUME NEW r \in Reports, TotalWeight(r) > 0, NEW o \in Progress, NEW s \in Nat,
         NEW k \in 1..Len(Subs[r]) + 1,
         NEW p \in [Reports -> Progress], NEW q \in [Reports -> Progress],
         p[r] <= q[r], \A x \in Reports : Parent[x] = r /\ Weight[x] > 0 => p[x] <= q[x],
         RoundInv(r, o, k, s, p)
  PROVE  RoundInv(r, o, k, s, q)
<1>1. p \in [Reports -> Nat] /\ q \in [Reports -> Nat] /\ o \in Nat
  BY ProgressIsNat
<1>2. Len(Subs[r]) \in Nat /\ k - 1 \in 0..Len(Subs[r])
  BY SubsOfReport
<1>3. PICK v, w, t, u \in Nat : /\ v = Visited(r, p)[k - 1] /\ w = Visited(r, q)[k - 1]
                               /\ t = TotalOf(r, p) /\ u = TotalOf(r, q)
  <2>1. Visited(r, p)[k - 1] \in Nat /\ TotalOf(r, p) \in Nat
    BY <1>1, <1>2, VisitedIs
  <2>2. Visited(r, q)[k - 1] \in Nat /\ TotalOf(r, q) \in Nat
    BY <1>1, <1>2, VisitedIs
  <2> QED BY <2>1, <2>2
<1>4. v <= w /\ t - v <= u - w
  BY <1>1, <1>2, <1>3, VisitedGrows
<1>5. s + (t - v) \in Int /\ s + (u - w) \in Int /\ s + (t - v) <= s + (u - w)
  <2>1. \A a, b, c, d, e \in Nat : c - a <= d - b =>
          e + (c - a) \in Int /\ e + (d - b) \in Int /\ e + (c - a) <= e + (d - b)
    OBVIOUS
  <2> QED BY <1>3, <1>4, <2>1
<1>6. Mean(r, s + (t - v)) <= Mean(r, s + (u - w)) /\ Mean(r, s + (t - v)) \in Int
  BY <1>5, MeanGrows
<1>7. Mean(r, s + (u - w)) \in Int
  BY <1>5, MeanGrows
<1>8. o <= p[r] /\ s <= v /\ o <= Mean(r, s + (t - v))
  BY <1>3 DEF RoundInv
<1>9. o <= q[r]
  <2>1. p[r] \in Nat /\ q[r] \in Nat /\ p[r] <= q[r]
    BY <1>1
  <2> QED BY <1>1, <1>8, <2>1
<1>10. s <= w
  BY <1>3, <1>4, <1>8
<1>11. o <= Mean(r, s + (u - w))
  BY <1>1, <1>6, <1>7, <1>8
<1> QED BY <1>3, <1>9, <1>10, <1>11 DEF RoundInv

Share(r, k, p) == Weight[Subs[r][k]] * p[Subs[r][k]]

LEMMA SumGoesOn ==
  ASSUME NEW r \in Reports, NEW s, NEW k \in 1..Len(Subs[r]), NEW p \in [Reports -> Progress],
         s = Visited(r, p)[k - 1]
  PROVE  s + Share(r, k, p) = Visited(r, p)[k]
<1>1. p \in [Reports -> Nat]
  BY ProgressIsNat
<1> QED BY <1>1, VisitedIs DEF Share

LEMMA RoundGoesOn ==
  ASSUME NEW r \in Reports, NEW o \in Progress, NEW s \in Nat,
         NEW k \in 1..Len(Subs[r]), NEW p \in [Reports -> Progress],
         RoundInv(r, o, k, s, p)
  PROVE  /\ s + Share(r, k, p) \in Nat
         /\ RoundInv(r, o, k + 1, s + Share(r, k, p), p)
<1>1. p \in [Reports -> Nat]
  BY ProgressIsNat
<1>2. PICK x \in Nat : x = Weight[Subs[r][k]] * p[Subs[r][k]] /\ x = Share(r, k, p)
  BY <1>1, SubsOfReport DEF Share
<1>3. PICK v, w, u \in Nat : v = Visited(r, p)[k - 1] /\ w = Visited(r, p)[k] /\ u = TotalOf(r, p)
  <2>1. k - 1 \in 0..Len(Subs[r]) /\ k \in 0..Len(Subs[r])
    BY SubsOfReport
  <2>2. Visited(r, p) \in [0..Len(Subs[r]) -> Nat] /\ TotalOf(r, p) \in Nat
    BY <1>1, VisitedIs
  <2> QED BY <2>1, <2>2
<1>4. w = v + x
  BY <1>1, <1>2, <1>3, VisitedIs
<1>5. o <= p[r] /\ s <= v /\ o <= Mean(r, s + (u - v))
  BY <1>3 DEF RoundInv
<1>6. PICK t : t = s + x
  OBVIOUS
<1>7. t \in Nat /\ s + (u - v) = t + (u - w) /\ t <= w /\ (k + 1) - 1 = k
  BY <1>2, <1>4, <1>5, <1>6
<1>8. RoundInv(r, o, k + 1, t, p)
  BY <1>3, <1>5, <1>7 DEF RoundInv
<1> QED BY <1>2, <1>6, <1>7, <1>8

LEMMA RoundEnds ==
  ASSUME NEW r \in Reports, TotalWeight(r) > 0, NEW o \in Progress, NEW s \in Nat,
         NEW p \in [Reports -> Progress], RoundInv(r, o, Len(Subs[r]) + 1, s, p)
  PROVE  /\ o <= Mean(r, s) /\ Mean(r, s) <= Mean(r, TotalOf(r, p))
         /\ Mean(r, s) \in Int /\ Mean(r, TotalOf(r, p)) \in Int
<1>1. p \in [Reports -> Nat] /\ o \in Nat /\ \A x \in Reports : p[x] <= 100
  BY ProgressIsNat
<1>2. PICK n \in Nat : n = Len(Subs[r]) /\ (n + 1) - 1 = n
  BY SubsOfReport
<1>3. PICK t \in Nat : t = TotalOf(r, p)
  BY <1>1, VisitedIs
<1>4. Visited(r, p)[(n + 1) - 1] = t
  BY <1>2, <1>3 DEF TotalOf
<1>5. s <= t /\ s + (t - t) = s /\ o <= Mean(r, s)
  BY <1>2, <1>3, <1>4 DEF RoundInv
<1>6. /\ Mean(r, s) \in Int /\ Mean(r, s) <= Mean(r, t) /\ Mean(r, t) \in Int
  BY <1>5, MeanGrows
<1> QED BY <1>3, <1>5, <1>6

(* What a writer adds up stays below what it would if all had finished,    *)
(* whoever sets what meanwhile, and so the mean is no more than 100.       *)
Hundred == [s \in Reports |-> 100]

LEMMA Hundreds ==
  Hundred \in [Reports -> Nat] /\ \A s \in Reports : Hundred[s] = 100
  BY DEF Hundred

LEMMA SumBounded ==
  ASSUME NEW r \in Reports, NEW s \in Nat, NEW k \in 1..Len(Subs[r]),
         NEW p \in [Reports -> Progress], s <= Visited(r, Hundred)[k - 1]
  PROVE  s + Share(r, k, p) \in Nat /\ s + Share(r, k, p) <= Visited(r, Hundred)[(k + 1) - 1]
<1>1. PICK x \in Reports : x = Subs[r][k] /\ Weight[x] \in Nat
  BY SubsOfReport
<1>2. PICK w, y \in Nat : w = Weight[x] /\ y = p[x] /\ y <= 100
  BY <1>1, ProgressIsNat
<1>3. Share(r, k, p) = w * y /\ w * y \in Nat
  BY <1>1, <1>2 DEF Share
<1>4. w * y <= w * 100 /\ w * 100 \in Nat
  BY <1>2, Multiply
<1>5. k - 1 \in 0..Len(Subs[r]) /\ k \in 0..Len(Subs[r]) /\ (k + 1) - 1 = k
  BY SubsOfReport
<1>6. PICK h \in [Reports -> Nat] : h = Hundred /\ h[x] = 100
  BY <1>1, Hundreds
<1>7. /\ Visited(r, h) \in [0..Len(Subs[r]) -> Nat]
      /\ Visited(r, h)[k] = Visited(r, h)[k - 1] + Weight[Subs[r][k]] * h[Subs[r][k]]
  BY VisitedIs
<1>8. PICK v, u \in Nat : v = Visited(r, h)[k - 1] /\ u = Visited(r, h)[k]
  BY <1>5, <1>7
<1>9. u = v + w * 100
  BY <1>1, <1>2, <1>6, <1>7, <1>8
<1>10. PICK a, b \in Nat : a = w * y /\ b = w * 100 /\ a <= b
  BY <1>3, <1>4
<1>11. s + a \in Nat /\ s + a <= u
  <2>1. s <= v
    BY <1>6, <1>8
  <2> QED BY <1>9, <1>10, <2>1
<1> QED BY <1>3, <1>5, <1>6, <1>8, <1>10, <1>11

LEMMA MeanBounded ==
  ASSUME NEW r \in Reports, TotalWeight(r) > 0, NEW s \in Nat,
         s <= Visited(r, Hundred)[(Len(Subs[r]) + 1) - 1]
  PROVE  Mean(r, s) \in Progress
<1>1. PICK h \in Nat : h = 100 * TotalWeight(r)
  BY WeightIsNat
<1>2. PICK t \in Nat : t = TotalOf(r, Hundred)
  BY Hundreds, VisitedIs
<1>3. t <= h
  BY <1>1, <1>2, Hundreds, TotalBounded
<1>4. s <= t
  <2>1. (Len(Subs[r]) + 1) - 1 = Len(Subs[r])
    BY SubsOfReport
  <2> QED BY <1>2, <2>1 DEF TotalOf
<1>5. s <= h /\ 0 <= s
  BY <1>3, <1>4
<1>6. /\ Mean(r, 0) = 0 /\ Mean(r, h) = 100 /\ Mean(r, s) \in Int
      /\ Mean(r, 0) <= Mean(r, s) /\ Mean(r, s) <= Mean(r, h)
  BY <1>1, <1>5, MeanOfNone, MeanOfAll, MeanGrows
<1>7. PICK m \in Int : m = Mean(r, s)
  BY <1>6
<1>8. 0 <= m /\ m <= 100
  BY <1>6, <1>7
<1> QED BY <1>7, <1>8, ProgressIsNat

------------------------------------------------------------------------------
(* The inductive invariant                                                 *)

(* Where the writer w is, and what it has seen of a report that is not     *)
(* disturbed.                                                              *)
WriterInv(w) ==
  /\ pc[w] \in {"idle", "store"} => node[w] = w
  /\ pc[w] \notin {"visit", "exchange"} => next[w] = 1 /\ sum[w] = 0
  /\ pc[w] \in {"read", "visit", "exchange"} => TotalWeight(node[w]) > 0
  /\ pc[w] = "visit" => next[w] \in 1..Len(Subs[node[w]])
  /\ pc[w] = "exchange" => next[w] = Len(Subs[node[w]]) + 1
  /\ pc[w] \in {"visit", "exchange"} => sum[w] <= Visited(node[w], Hundred)[next[w] - 1]
  /\ pc[w] \in {"visit", "exchange"} /\ node[w] \notin disturbed =>
       RoundInv(node[w], old[w], next[w], sum[w], progress)

WritersInv == \A w \in Writers : WriterInv(w)

Settled(r) == progress[r] = MeanOf(r, progress)

(* w will still store the mean of r, with all that r's sub reports have    *)
(* reached by now: it has yet to come to r, or to read it, or its exchange *)
(* will fail, or it has missed nothing so far.                             *)
Updates(w, r) ==
  \/ pc[w] = "propagate" /\ Parent[node[w]] = r /\ Weight[node[w]] > 0
  \/ pc[w] = "read" /\ node[w] = r
  \/ /\ pc[w] \in {"visit", "exchange"} /\ node[w] = r
     /\ old[w] # progress[r] \/ sum[w] = Visited(r, progress)[next[w] - 1]

(* A report that is not disturbed and does not show its mean will.         *)
UpdatesInv == \A r \in Inner \ disturbed : Settled(r) \/ \E w \in Writers : Updates(w, r)

ProgressInv == TypeOK /\ WritersInv /\ NeverAhead /\ UpdatesInv

LEMMA WritersAreReports == Writers \subseteq Reports /\ Inner \subseteq Reports
  BY DEF Writers, Inner

(* The other writers are where they were.                                  *)
OthersStay(w) ==
  \A u \in Writers : u # w =>
    /\ pc'[u] = pc[u] /\ node'[u] = node[u] /\ old'[u] = old[u]
    /\ next'[u] = next[u] /\ sum'[u] = sum[u]

(* Neither r nor a sub report that counts goes back.                       *)
GrowsAt(r) ==
  /\ progress[r] <= progress'[r]
  /\ \A s \in Reports : Parent[s] = r /\ Weight[s] > 0 => progress[s] <= progress'[s]

(* What a step does: where something goes back, that is remembered.        *)
Moves ==
  /\ progress' \in [Reports -> Progress]
  /\ disturbed \subseteq disturbed'
  /\ \A r \in Inner \ disturbed' : GrowsAt(r)

LEMMA WriterKept ==
  ASSUME TypeOK, Moves, NEW u \in Writers, WriterInv(u),
         pc'[u] = pc[u] /\ node'[u] = node[u] /\ old'[u] = old[u]
           /\ next'[u] = next[u] /\ sum'[u] = sum[u]
  PROVE  WriterInv(u)'
<1>1. ASSUME pc[u] \in {"visit", "exchange"}, node[u] \notin disturbed'
      PROVE  RoundInv(node[u], old[u], next[u], sum[u], progress')
  <2>1. PICK r \in Reports, o \in Progress, k \in Nat, s \in Nat :
             r = node[u] /\ o = old[u] /\ k = next[u] /\ s = sum[u]
    BY DEF TypeOK
  <2>2. PICK p, q \in [Reports -> Progress] : p = progress /\ q = progress'
    BY DEF TypeOK, Moves
  <2>3. r \notin disturbed' /\ r \notin disturbed
    BY <1>1, <2>1 DEF Moves
  <2>4. /\ TotalWeight(r) > 0 /\ RoundInv(r, o, k, s, p)
        /\ pc[u] = "visit" => k \in 1..Len(Subs[r])
        /\ pc[u] = "exchange" => k = Len(Subs[r]) + 1
    BY <1>1, <2>1, <2>2, <2>3 DEF WriterInv
  <2>5. k \in 1..Len(Subs[r]) + 1
    BY <1>1, <2>4, SubsOfReport
  <2>6. p[r] <= q[r] /\ \A x \in Reports : Parent[x] = r /\ Weight[x] > 0 => p[x] <= q[x]
    BY <2>2, <2>3, <2>4 DEF Moves, GrowsAt, Inner
  <2>7. RoundInv(r, o, k, s, q)
    BY <2>4, <2>5, <2>6, RoundKept
  <2> QED BY <2>1, <2>2, <2>7
<1> QED BY <1>1 DEF WriterInv

LEMMA OthersKept ==
  ASSUME TypeOK, WritersInv, Moves, NEW w \in Writers, OthersStay(w), WriterInv(w)'
  PROVE  WritersInv'
<1>1. ASSUME NEW u \in Writers, u # w PROVE WriterInv(u)'
  BY <1>1, WriterKept DEF WritersInv, OthersStay
<1> QED BY <1>1 DEF WritersInv

(* What is behind the sub reports of r stays behind them.                  *)
LEMMA StaysBehind ==
  ASSUME TypeOK, Moves, NEW r \in Inner \ disturbed', NEW v \in Nat, v <= MeanOf(r, progress)
  PROVE  v <= MeanOf(r, progress')
<1>1. PICK p, q \in [Reports -> Progress] : p = progress /\ q = progress'
  BY DEF TypeOK, Moves
<1>2. /\ r \in Reports /\ TotalWeight(r) > 0 /\ p \in [Reports -> Nat] /\ q \in [Reports -> Nat]
      /\ \A x \in Reports : Parent[x] = r /\ Weight[x] > 0 => p[x] <= q[x]
  BY <1>1, ProgressIsNat DEF Inner, Moves, GrowsAt
<1>3. Len(Subs[r]) \in Nat /\ Len(Subs[r]) \in 0..Len(Subs[r])
  BY <1>2, SubsOfReport
<1>4. TotalOf(r, p) \in Nat /\ TotalOf(r, q) \in Nat
  BY <1>2, VisitedIs
<1>5. TotalOf(r, p) <= TotalOf(r, q)
  BY <1>2, <1>3, VisitedGrows DEF TotalOf
<1>6. /\ Mean(r, TotalOf(r, p)) \in Int /\ Mean(r, TotalOf(r, q)) \in Int
      /\ Mean(r, TotalOf(r, p)) <= Mean(r, TotalOf(r, q))
  BY <1>2, <1>4, <1>5, MeanGrows
<1>7. PICK x, y \in Int : x = Mean(r, TotalOf(r, p)) /\ y = Mean(r, TotalOf(r, q))
  BY <1>6
<1>8. v <= x /\ x <= y
  BY <1>1, <1>6, <1>7 DEF MeanOf
<1>9. v <= y
  BY <1>7, <1>8
<1> QED BY <1>1, <1>7, <1>9 DEF MeanOf

(* No sub report that counts has changed.                                  *)
SubsStay(r) == \A s \in Reports : Parent[s] = r /\ Weight[s] > 0 => progress'[s] = progress[s]

LEMMA SumsStay ==
  ASSUME TypeOK, Moves, NEW r \in Reports, SubsStay(r)
  PROVE  Visited(r, progress') = Visited(r, progress) /\ TotalOf(r, progress') = TotalOf(r, progress)
<1>1. PICK p, q \in [Reports -> Progress] : p = progress /\ q = progress'
  BY DEF TypeOK, Moves
<1>2. /\ p \in [Reports -> Nat] /\ q \in [Reports -> Nat]
      /\ \A s \in Reports : Parent[s] = r /\ Weight[s] > 0 => q[s] = p[s]
  BY <1>1, ProgressIsNat DEF SubsStay
<1>3. Visited(r, q) = Visited(r, p) /\ TotalOf(r, q) = TotalOf(r, p)
  BY <1>2, VisitedSame
<1> QED BY <1>1, <1>3

(* A writer that did nothing still updates r, where r did not change.      *)
LEMMA StillUpdates ==
  ASSUME TypeOK, Moves, NEW r \in Reports, SubsStay(r), progress'[r] = progress[r],
         NEW u \in Writers, Updates(u, r),
         pc'[u] = pc[u] /\ node'[u] = node[u] /\ old'[u] = old[u]
           /\ next'[u] = next[u] /\ sum'[u] = sum[u]
  PROVE  Updates(u, r)'
  BY SumsStay DEF Updates

LEMMA StillSettled ==
  ASSUME TypeOK, Moves, NEW r \in Reports, SubsStay(r), progress'[r] = progress[r], Settled(r)
  PROVE  Settled(r)'
  BY SumsStay DEF Settled, MeanOf

LEMMA UpdatesKept ==
  ASSUME TypeOK, Moves, UpdatesInv, NEW w \in Writers, OthersStay(w),
         \A r \in Inner \ disturbed' :
           \/ Updates(w, r)'
           \/ SubsStay(r) /\ progress'[r] = progress[r] /\ ~ Updates(w, r)
  PROVE  UpdatesInv'
<1> SUFFICES ASSUME NEW r \in Inner \ disturbed'
             PROVE  Settled(r)' \/ \E u \in Writers : Updates(u, r)'
  BY DEF UpdatesInv, Inner
<1>1. r \in Reports /\ r \in Inner \ disturbed
  BY DEF Inner, Moves
<1>2. CASE Updates(w, r)'
  BY <1>2
<1>3. CASE SubsStay(r) /\ progress'[r] = progress[r] /\ ~ Updates(w, r)
  <2>1. CASE Settled(r)
    BY <1>1, <1>3, <2>1, StillSettled
  <2>2. ASSUME NEW u \in Writers, Updates(u, r) PROVE Updates(u, r)'
    <3>1. u # w
      BY <1>3, <2>2
    <3> QED BY <1>1, <1>3, <2>2, <3>1, StillUpdates DEF OthersStay
  <2> QED BY <1>1, <2>1, <2>2 DEF UpdatesInv
<1> QED BY <1>2, <1>3

(* A step that changes no progress.                                        *)
LEMMA Quiet ==
  ASSUME TypeOK, NeverAhead, UNCHANGED <<progress, disturbed>>
  PROVE  /\ Moves /\ NeverAhead'
         /\ \A r \in Reports : SubsStay(r) /\ progress'[r] = progress[r]
<1>1. Moves
  <2>1. \A r \in Reports : progress[r] \in Nat
    BY ProgressIsNat DEF TypeOK
  <2>2. \A r \in Reports : progress[r] <= progress'[r]
    BY <2>1
  <2> QED BY <2>2, WritersAreReports DEF TypeOK, Moves, GrowsAt
<1>2. NeverAhead'
  BY DEF NeverAhead, Inner, MeanOf
<1> QED BY <1>1, <1>2 DEF SubsStay

(* A step that changes no progress and after which w is as its place says. *)
LEMMA QuietKeeps ==
  ASSUME ProgressInv, NEW w \in Writers, UNCHANGED <<progress, disturbed>>, TypeOK', OthersStay(w),
         WriterInv(w)', \A r \in Inner : Updates(w, r) => Updates(w, r)'
  PROVE  ProgressInv' /\ Moves
<1>1. TypeOK /\ WritersInv /\ NeverAhead /\ UpdatesInv
  BY DEF ProgressInv
<1>2. Moves /\ NeverAhead' /\ \A r \in Reports : SubsStay(r) /\ progress'[r] = progress[r]
  BY <1>1, Quiet
<1>3. WritersInv'
  BY <1>1, <1>2, OthersKept
<1>4. UpdatesInv'
  BY <1>1, <1>2, WritersAreReports, UpdatesKept
<1> QED BY <1>2, <1>3, <1>4 DEF ProgressInv

LEMMA SetProgressKeeps ==
  ASSUME ProgressInv, NEW w \in Writers, NEW v \in Values[w], SetProgress(w, v)
  PROVE  ProgressInv' /\ Moves
<1>1. TypeOK /\ WriterInv(w) /\ w \in Reports
  BY WritersAreReports DEF ProgressInv, WritersInv
<1>2. /\ pc[w] = "idle" /\ given' = [given EXCEPT ![w] = AsProgress(v)]
      /\ pc' = [pc EXCEPT ![w] = "store"] /\ UNCHANGED <<progress, node, old, next, sum, disturbed>>
  BY DEF SetProgress
<1>3. AsProgress(v) \in Progress
  <2>1. v \in Int
    BY <1>1, ProgressAssumption
  <2>2. PICK b \in Nat : b = v % 256
    BY <2>1
  <2>3. AsProgress(v) = IF b > 100 THEN 100 ELSE b
    BY <2>2 DEF AsProgress
  <2> QED BY <2>2, <2>3, ProgressIsNat
<1>4. TypeOK' /\ OthersStay(w) /\ pc'[w] = "store"
  BY <1>1, <1>2, <1>3 DEF TypeOK, OthersStay
<1>5. WriterInv(w)'
  BY <1>1, <1>2, <1>4 DEF WriterInv
<1>6. \A r \in Inner : ~ Updates(w, r)
  BY <1>2 DEF Updates
<1> QED BY <1>2, <1>4, <1>5, <1>6, QuietKeeps

(* A report that its own writer has set, and one whose sub report has gone *)
(* back by that, are disturbed.                                            *)
LEMMA StoreKeeps ==
  ASSUME ProgressInv, NEW w \in Writers, Store(w)
  PROVE  ProgressInv' /\ Moves
<1>1. TypeOK /\ WritersInv /\ WriterInv(w) /\ NeverAhead /\ UpdatesInv /\ w \in Reports
  BY WritersAreReports DEF ProgressInv, WritersInv
<1>2. PICK v \in Progress : v = given[w]
  BY DEF ProgressInv, TypeOK
<1>3. PICK p \in [Reports -> Progress] : p = progress
  BY <1>1 DEF TypeOK
<1>4. /\ pc[w] = "store" /\ progress' = [p EXCEPT ![w] = v]
      /\ disturbed' = disturbed \union Lowered(w, v) \union (Inner \intersect {w})
      /\ given' = [given EXCEPT ![w] = 0] /\ pc' = [pc EXCEPT ![w] = "propagate"]
      /\ UNCHANGED <<node, old, next, sum>>
  BY <1>2, <1>3 DEF Store
<1>5. progress' \in [Reports -> Progress] /\ \A r \in Reports : progress'[r] = IF r = w THEN v ELSE p[r]
  BY <1>4
<1>6. Moves
  <2>1. ASSUME NEW r \in Inner \ disturbed' PROVE GrowsAt(r)
    <3>1. r # w /\ r \in Reports /\ r \notin Lowered(w, v)
      BY <1>4, WritersAreReports
    <3>2. progress[r] <= progress'[r]
      BY <1>3, <1>5, <3>1, ProgressIsNat
    <3>3. ASSUME NEW s \in Reports, Parent[s] = r, Weight[s] > 0 PROVE progress[s] <= progress'[s]
      <4>1. CASE s = w
        <5>1. ~ (v < p[w])
          BY <1>3, <3>1, <3>3, <4>1 DEF Lowered
        <5>2. v \in Nat /\ p[w] \in Nat
          BY <1>1, ProgressIsNat
        <5> QED BY <1>3, <1>5, <4>1, <5>1, <5>2
      <4>2. CASE s # w
        BY <1>3, <1>5, <4>2, ProgressIsNat
      <4> QED BY <4>1, <4>2
    <3> QED BY <3>2, <3>3 DEF GrowsAt
  <2> QED BY <1>4, <1>5, <2>1 DEF Moves
<1>7. TypeOK'
  <2>1. 0 \in Progress
    BY ProgressIsNat
  <2>2. disturbed' \subseteq Reports
    BY <1>1, <1>4, WritersAreReports DEF TypeOK, Lowered
  <2> QED BY <1>1, <1>4, <1>5, <2>1, <2>2 DEF TypeOK
<1>8. OthersStay(w) /\ pc'[w] = "propagate" /\ node'[w] = w
  BY <1>1, <1>4 DEF TypeOK, OthersStay, WriterInv
<1>9. WritersInv'
  <2>1. WriterInv(w)'
    BY <1>1, <1>4, <1>8 DEF WriterInv
  <2> QED BY <1>1, <1>6, <1>8, <2>1, OthersKept
<1>10. ASSUME NEW r \in Inner \ disturbed'
       PROVE  r \in Inner \ disturbed /\ r \in Reports /\ progress'[r] = progress[r]
  BY <1>3, <1>4, <1>5, <1>10, WritersAreReports
<1>11. NeverAhead'
  <2>1. ASSUME NEW r \in Inner \ disturbed' PROVE progress'[r] <= MeanOf(r, progress')
    <3>1. progress[r] \in Nat /\ progress[r] <= MeanOf(r, progress)
      BY <1>1, <1>3, <1>10, ProgressIsNat DEF NeverAhead
    <3> QED BY <1>1, <1>6, <1>10, <3>1, StaysBehind
  <2> QED BY <2>1 DEF NeverAhead, Inner, MeanOf
<1>12. UpdatesInv'
  <2>1. ASSUME NEW r \in Inner \ disturbed', ~ Updates(w, r)'
        PROVE  SubsStay(r) /\ progress'[r] = progress[r] /\ ~ Updates(w, r)
    <3>1. ~ (Parent[w] = r /\ Weight[w] > 0)
      BY <1>8, <2>1 DEF Updates
    <3>2. SubsStay(r)
      BY <1>3, <1>5, <3>1 DEF SubsStay
    <3>3. ~ Updates(w, r)
      BY <1>4 DEF Updates
    <3> QED BY <1>10, <3>2, <3>3
  <2> QED BY <1>1, <1>6, <1>8, <2>1, UpdatesKept
<1> QED BY <1>6, <1>7, <1>9, <1>11, <1>12 DEF ProgressInv

(* When a call ends and no other is under way, a report is undisturbed if  *)
(* it was or if it shows its mean.                                         *)
LEMMA LastCallEnds ==
  ASSUME ProgressInv, UNCHANGED <<progress, next, sum>>, TypeOK',
         NEW w \in Writers, pc' = [pc EXCEPT ![w] = "idle"], node' = [node EXCEPT ![w] = w],
         next[w] = 1, sum[w] = 0, \A u \in Writers \ {w} : pc[u] = "idle",
         \A r \in Inner : ~ Updates(w, r),
         disturbed' = {r \in disturbed : progress[r] # MeanOf(r, progress)}
  PROVE  ProgressInv' /\ \A r \in Reports : progress[r] <= progress'[r]
<1>1. TypeOK /\ WritersInv /\ NeverAhead /\ UpdatesInv
  BY DEF ProgressInv
<1>2. \A u \in Writers : pc'[u] = "idle"
  BY <1>1 DEF TypeOK
<1>3. WritersInv'
  <2>1. ASSUME NEW u \in Writers PROVE node'[u] = u /\ next'[u] = 1 /\ sum'[u] = 0
    BY <1>1 DEF TypeOK, WritersInv, WriterInv
  <2> QED BY <1>2, <2>1 DEF WritersInv, WriterInv
<1>4. ASSUME NEW r \in Inner \ disturbed' PROVE Settled(r)
  <2>1. CASE r \in disturbed
    BY <1>4, <2>1 DEF Settled
  <2>2. CASE r \notin disturbed
    <3>1. \A u \in Writers \ {w} : ~ Updates(u, r)
      BY DEF Updates
    <3> QED BY <1>1, <1>4, <2>2, <3>1 DEF UpdatesInv
  <2> QED BY <2>1, <2>2
<1>5. \A r \in Reports : progress[r] \in Nat /\ progress[r] <= progress[r]
  BY <1>1, ProgressIsNat DEF TypeOK
<1>6. NeverAhead' /\ UpdatesInv'
  BY <1>4, <1>5, WritersAreReports DEF NeverAhead, UpdatesInv, Settled, Inner, MeanOf
<1> QED BY <1>3, <1>5, <1>6 DEF ProgressInv

LEMMA PropagateKeeps ==
  ASSUME ProgressInv, NEW w \in Writers, Propagate(w)
  PROVE  ProgressInv' /\ \A r \in Inner \ disturbed' : progress[r] <= progress'[r]
<1>1. TypeOK /\ WriterInv(w) /\ w \in Reports
  BY WritersAreReports DEF ProgressInv, WritersInv
<1>2. PICK r \in Reports : r = node[w]
  BY <1>1 DEF TypeOK
<1>3. /\ pc[w] = "propagate" /\ next[w] = 1 /\ sum[w] = 0
      /\ UNCHANGED <<progress, given, old, next, sum>>
  BY <1>1 DEF Propagate, WriterInv
<1>4. CASE Weight[r] = 0 \/ Parent[r] = None
  <2>1. /\ pc' = [pc EXCEPT ![w] = "idle"] /\ node' = [node EXCEPT ![w] = w]
        /\ disturbed' = StillDisturbed(w)
    BY <1>2, <1>4 DEF Propagate
  <2>2. TypeOK' /\ OthersStay(w) /\ pc'[w] = "idle" /\ node'[w] = w
    BY <1>1, <1>3, <2>1 DEF TypeOK, OthersStay, StillDisturbed
  <2>3. WriterInv(w)'
    BY <1>3, <2>2 DEF WriterInv
  <2>4. ASSUME NEW x \in Inner PROVE ~ Updates(w, x)
    <3>1. x \in Reports /\ x # None
      BY ProgressAssumption DEF Inner
    <3> QED BY <1>2, <1>3, <1>4, <3>1 DEF Updates
  <2>5. CASE \A u \in Writers \ {w} : pc[u] = "idle"
    <3>1. disturbed' = {x \in disturbed : progress[x] # MeanOf(x, progress)}
      BY <2>1, <2>5 DEF StillDisturbed
    <3> QED BY <1>3, <2>1, <2>2, <2>4, <2>5, <3>1, WritersAreReports, LastCallEnds
  <2>6. CASE ~ \A u \in Writers \ {w} : pc[u] = "idle"
    <3>1. UNCHANGED disturbed
      BY <2>1, <2>6 DEF StillDisturbed
    <3>2. ProgressInv' /\ Moves
      BY <1>3, <2>2, <2>3, <2>4, <3>1, QuietKeeps
    <3> QED BY <3>2 DEF Moves, GrowsAt
  <2> QED BY <2>5, <2>6
<1>5. CASE Weight[r] # 0 /\ Parent[r] # None
  <2>1. /\ pc' = [pc EXCEPT ![w] = "read"] /\ node' = [node EXCEPT ![w] = Parent[r]]
        /\ UNCHANGED disturbed
    BY <1>2, <1>5 DEF Propagate
  <2>2. Weight[r] > 0
    BY <1>5, ProgressAssumption
  <2>3. Parent[r] \in Reports /\ TotalWeight(Parent[r]) > 0
    BY <1>5, <2>2, ParentCounts
  <2>4. TypeOK' /\ OthersStay(w) /\ pc'[w] = "read" /\ node'[w] = Parent[r]
    BY <1>1, <1>3, <2>1, <2>3 DEF TypeOK, OthersStay
  <2>5. WriterInv(w)'
    BY <1>3, <2>3, <2>4 DEF WriterInv
  <2>6. ASSUME NEW x \in Inner, Updates(w, x) PROVE Updates(w, x)'
    BY <1>2, <1>3, <2>4, <2>6 DEF Updates
  <2>7. ProgressInv' /\ Moves
    BY <1>3, <2>1, <2>4, <2>5, <2>6, QuietKeeps
  <2> QED BY <2>7 DEF Moves, GrowsAt
<1> QED BY <1>4, <1>5

LEMMA ReadOldKeeps ==
  ASSUME ProgressInv, NEW w \in Writers, ReadOld(w)
  PROVE  ProgressInv' /\ Moves
<1>1. TypeOK /\ WriterInv(w) /\ NeverAhead
  BY DEF ProgressInv, WritersInv
<1>2. PICK r \in Reports : r = node[w]
  BY <1>1 DEF TypeOK
<1>3. /\ pc[w] = "read" /\ next[w] = 1 /\ sum[w] = 0 /\ TotalWeight(r) > 0
      /\ old' = [old EXCEPT ![w] = progress[r]] /\ pc' = [pc EXCEPT ![w] = "visit"]
      /\ UNCHANGED <<progress, given, node, next, sum, disturbed>>
  BY <1>1, <1>2 DEF ReadOld, WriterInv
<1>4. TypeOK' /\ OthersStay(w) /\ pc'[w] = "visit" /\ old'[w] = progress[r]
  BY <1>1, <1>3 DEF TypeOK, OthersStay
<1>5. PICK p \in [Reports -> Progress] : p = progress
  BY <1>1 DEF TypeOK
<1>6. r \notin disturbed => RoundInv(r, p[r], 1, 0, p)
  <2> SUFFICES ASSUME r \notin disturbed PROVE RoundInv(r, p[r], 1, 0, p)
    OBVIOUS
  <2>1. p[r] <= Mean(r, TotalOf(r, p))
    BY <1>1, <1>3, <1>5 DEF NeverAhead, Inner, MeanOf
  <2> QED BY <1>3, <2>1, RoundStarts
<1>7. 1 \in 1..Len(Subs[r])
  <2>1. CASE Len(Subs[r]) = 0
    <3>1. PICK ones : ones = [s \in Reports |-> 1]
      OBVIOUS
    <3>2. ones \in [Reports -> Nat]
      BY <3>1
    <3>3. TotalWeight(r) = 0
      BY <2>1, <3>1, <3>2, VisitedIs DEF TotalWeight, TotalOf
    <3> QED BY <1>3, <3>3
  <2>2. CASE Len(Subs[r]) # 0
    BY <2>2, SubsOfReport
  <2> QED BY <2>1, <2>2
<1>8. WriterInv(w)'
  <2>1. 0 <= Visited(r, Hundred)[1 - 1]
    <3>1. PICK h \in [Reports -> Nat] : h = Hundred
      BY Hundreds
    <3>2. Visited(r, h)[0] = 0
      BY VisitedIs
    <3> QED BY <3>1, <3>2
  <2>2. /\ next'[w] = 1 /\ sum'[w] = 0 /\ node'[w] = r /\ old'[w] = p[r]
        /\ progress' = p /\ disturbed' = disturbed
    BY <1>2, <1>3, <1>4, <1>5
  <2> QED BY <1>3, <1>4, <1>6, <1>7, <2>1, <2>2 DEF WriterInv
<1>9. ASSUME NEW x \in Inner, Updates(w, x) PROVE Updates(w, x)'
  <2>1. x = r
    BY <1>2, <1>3, <1>9 DEF Updates
  <2>2. Visited(r, p)[1 - 1] = 0
    BY <1>5, ProgressIsNat, VisitedIs
  <2> QED BY <1>2, <1>3, <1>4, <1>5, <2>1, <2>2 DEF Updates
<1> QED BY <1>3, <1>4, <1>8, <1>9, QuietKeeps

LEMMA VisitKeeps ==
  ASSUME ProgressInv, NEW w \in Writers, Visit(w)
  PROVE  ProgressInv' /\ Moves
<1>1. TypeOK /\ WriterInv(w)
  BY DEF ProgressInv, WritersInv
<1>2. PICK r \in Reports, o \in Progress, s \in Nat :
           r = node[w] /\ o = old[w] /\ s = sum[w]
  BY <1>1 DEF TypeOK
<1>3. PICK p \in [Reports -> Progress] : p = progress
  BY <1>1 DEF TypeOK
<1>4. PICK k \in 1..Len(Subs[r]) : k = next[w]
  BY <1>1, <1>2 DEF Visit, WriterInv
<1>5. PICK t : t = s + Share(r, k, p)
  OBVIOUS
<1>6. /\ pc[w] = "visit" /\ TotalWeight(r) > 0 /\ s <= Visited(r, Hundred)[k - 1]
      /\ r \notin disturbed => RoundInv(r, o, k, s, p)
      /\ sum' = [sum EXCEPT ![w] = t] /\ next' = [next EXCEPT ![w] = k + 1]
      /\ pc' = [pc EXCEPT ![w] = IF k = Len(Subs[r]) THEN "exchange" ELSE "visit"]
      /\ UNCHANGED <<progress, given, node, old, disturbed>>
  BY <1>1, <1>2, <1>3, <1>4, <1>5 DEF Visit, WriterInv, Share
<1>7. /\ t \in Nat /\ t <= Visited(r, Hundred)[(k + 1) - 1]
      /\ s = Visited(r, p)[k - 1] => t = Visited(r, p)[k]
      /\ r \notin disturbed => RoundInv(r, o, k + 1, t, p)
  BY <1>5, <1>6, SumBounded, SumGoesOn, RoundGoesOn
<1>8. /\ Len(Subs[r]) \in Nat /\ k + 1 \in Nat /\ (k + 1) - 1 = k
      /\ k # Len(Subs[r]) => k + 1 \in 1..Len(Subs[r])
  BY SubsOfReport
<1>9. TypeOK'
  BY <1>1, <1>6, <1>7, <1>8 DEF TypeOK
<1>10. /\ OthersStay(w) /\ sum'[w] = t /\ next'[w] = k + 1
       /\ pc'[w] = IF k = Len(Subs[r]) THEN "exchange" ELSE "visit"
  BY <1>1, <1>6 DEF TypeOK, OthersStay
<1>11. WriterInv(w)'
  <2>1. node[w] \notin disturbed' => RoundInv(node[w], old[w], next'[w], sum'[w], progress')
    BY <1>2, <1>3, <1>6, <1>7, <1>10
  <2> QED BY <1>2, <1>6, <1>7, <1>8, <1>10, <2>1 DEF WriterInv
<1>12. ASSUME NEW x \in Inner, Updates(w, x) PROVE Updates(w, x)'
  <2>1. x = r /\ (o # p[r] \/ s = Visited(r, p)[k - 1])
    BY <1>2, <1>3, <1>4, <1>6, <1>12 DEF Updates
  <2>2. o # p[r] \/ t = Visited(r, p)[(k + 1) - 1]
    BY <1>7, <1>8, <2>1
  <2> QED BY <1>2, <1>3, <1>6, <1>10, <2>1, <2>2 DEF Updates
<1> QED BY <1>6, <1>9, <1>10, <1>11, <1>12, QuietKeeps

LEMMA RetryKeeps ==
  ASSUME ProgressInv, NEW w \in Writers, Retry(w)
  PROVE  ProgressInv' /\ Moves
<1>1. TypeOK /\ WriterInv(w)
  BY DEF ProgressInv, WritersInv
<1>2. /\ pc[w] = "exchange" /\ pc' = [pc EXCEPT ![w] = "read"]
      /\ old' = [old EXCEPT ![w] = 0] /\ next' = [next EXCEPT ![w] = 1]
      /\ sum' = [sum EXCEPT ![w] = 0] /\ UNCHANGED <<progress, given, node, disturbed>>
  BY DEF Retry, AfterFailure, EndRound
<1>3. TypeOK'
  BY <1>1, <1>2 DEF TypeOK, Progress
<1>4. OthersStay(w) /\ pc'[w] = "read" /\ next'[w] = 1 /\ sum'[w] = 0
  BY <1>1, <1>2 DEF TypeOK, OthersStay
<1>5. WriterInv(w)'
  BY <1>1, <1>2, <1>4 DEF WriterInv
<1>6. ASSUME NEW x \in Inner, Updates(w, x) PROVE Updates(w, x)'
  BY <1>2, <1>4, <1>6 DEF Updates
<1> QED BY <1>2, <1>3, <1>4, <1>5, <1>6, QuietKeeps

(* An exchange that lowers a report, which only a disturbed one suffers,   *)
(* disturbs the report above.                                              *)
LEMMA ExchangeKeeps ==
  ASSUME ProgressInv, NEW w \in Writers, Exchange(w)
  PROVE  ProgressInv' /\ Moves
<1>1. TypeOK /\ WritersInv /\ WriterInv(w) /\ NeverAhead /\ UpdatesInv
  BY DEF ProgressInv, WritersInv
<1>2. PICK n \in Reports, o \in Progress, s \in Nat : n = node[w] /\ o = old[w] /\ s = sum[w]
  BY <1>1 DEF TypeOK
<1>3. PICK p \in [Reports -> Progress] : p = progress
  BY <1>1 DEF TypeOK
<1>4. PICK m : m = Mean(n, s)
  OBVIOUS
<1>5. /\ pc[w] = "exchange" /\ p[n] = o /\ TotalWeight(n) > 0
      /\ next[w] = Len(Subs[n]) + 1 /\ s <= Visited(n, Hundred)[(Len(Subs[n]) + 1) - 1]
      /\ n \notin disturbed => RoundInv(n, o, Len(Subs[n]) + 1, s, p)
      /\ progress' = [p EXCEPT ![n] = m] /\ disturbed' = disturbed \union Lowered(n, m)
      /\ pc' = [pc EXCEPT ![w] = "propagate"]
      /\ old' = [old EXCEPT ![w] = 0] /\ next' = [next EXCEPT ![w] = 1]
      /\ sum' = [sum EXCEPT ![w] = 0] /\ UNCHANGED <<given, node>>
  BY <1>1, <1>2, <1>3, <1>4 DEF Exchange, Unchanged, EndRound, WriterInv
<1>6. m \in Progress /\ m \in Nat /\ o \in Nat
  BY <1>4, <1>5, MeanBounded, ProgressIsNat
<1>7. ASSUME n \notin disturbed
      PROVE  o <= m /\ m <= MeanOf(n, p) /\ MeanOf(n, p) \in Int
  BY <1>4, <1>5, <1>7, RoundEnds DEF MeanOf
<1>8. progress' \in [Reports -> Progress] /\ \A r \in Reports : progress'[r] = IF r = n THEN m ELSE p[r]
  BY <1>5, <1>6
<1>9. Moves
  <2>1. ASSUME NEW r \in Inner \ disturbed' PROVE GrowsAt(r)
    <3>1. r \in Reports /\ r \notin disturbed /\ r \notin Lowered(n, m)
      BY <1>5, WritersAreReports
    <3>2. progress[r] <= progress'[r]
      <4>1. CASE r = n
        BY <1>3, <1>5, <1>7, <1>8, <3>1, <4>1
      <4>2. CASE r # n
        BY <1>3, <1>8, <3>1, <4>2, ProgressIsNat
      <4> QED BY <4>1, <4>2
    <3>3. ASSUME NEW x \in Reports, Parent[x] = r, Weight[x] > 0 PROVE progress[x] <= progress'[x]
      <4>1. CASE x = n
        <5>1. ~ (m < p[n])
          BY <1>3, <3>1, <3>3, <4>1 DEF Lowered
        <5> QED BY <1>3, <1>5, <1>6, <1>8, <4>1, <5>1
      <4>2. CASE x # n
        BY <1>3, <1>8, <4>2, ProgressIsNat
      <4> QED BY <4>1, <4>2
    <3> QED BY <3>2, <3>3 DEF GrowsAt
  <2> QED BY <1>5, <1>8, <2>1 DEF Moves
<1>10. TypeOK'
  <2>1. 0 \in Progress /\ 0 \in Nat /\ 1 \in Nat
    BY ProgressIsNat
  <2>2. disturbed' \subseteq Reports
    BY <1>1, <1>5, WritersAreReports DEF TypeOK, Lowered
  <2> QED BY <1>1, <1>5, <1>8, <2>1, <2>2 DEF TypeOK
<1>11. /\ OthersStay(w) /\ pc'[w] = "propagate" /\ node'[w] = n
       /\ next'[w] = 1 /\ sum'[w] = 0
  BY <1>1, <1>2, <1>5 DEF TypeOK, OthersStay
<1>12. WritersInv'
  <2>1. WriterInv(w)'
    BY <1>11 DEF WriterInv
  <2> QED BY <1>1, <1>9, <1>11, <2>1, OthersKept
<1>13. NeverAhead'
  <2>1. ASSUME NEW r \in Inner \ disturbed' PROVE progress'[r] <= MeanOf(r, progress')
    <3>1. r \in Reports /\ r \in Inner \ disturbed
      BY <1>5, WritersAreReports
    <3>2. CASE r = n
      <4>1. m <= MeanOf(n, progress)
        BY <1>3, <1>7, <3>1, <3>2
      <4> QED BY <1>1, <1>6, <1>8, <1>9, <3>2, <4>1, StaysBehind
    <3>3. CASE r # n
      <4>1. progress[r] \in Nat /\ progress[r] <= MeanOf(r, progress)
        BY <1>1, <1>3, <3>1, ProgressIsNat DEF NeverAhead
      <4>2. progress[r] <= MeanOf(r, progress')
        BY <1>1, <1>9, <4>1, StaysBehind
      <4> QED BY <1>3, <1>8, <3>1, <3>3, <4>2
    <3> QED BY <3>2, <3>3
  <2> QED BY <2>1 DEF NeverAhead, Inner, MeanOf
<1>14. UpdatesInv'
  <2>1. ASSUME NEW r \in Inner \ disturbed' PROVE Settled(r)' \/ \E u \in Writers : Updates(u, r)'
    <3>1. r \in Reports /\ r \in Inner \ disturbed
      BY <1>5, WritersAreReports
    <3>2. CASE Parent[n] = r /\ Weight[n] > 0
      <4>1. Updates(w, r)'
        BY <1>11, <3>2 DEF Updates
      <4> QED BY <4>1
    <3>3. CASE ~ (Parent[n] = r /\ Weight[n] > 0) /\ r # n
      <4>1. SubsStay(r) /\ progress'[r] = progress[r]
        BY <1>3, <1>8, <3>1, <3>3 DEF SubsStay
      <4>2. ~ Updates(w, r)
        BY <1>2, <1>5, <3>3 DEF Updates
      <4>3. CASE Settled(r)
        BY <1>1, <1>9, <3>1, <4>1, <4>3, StillSettled
      <4>4. ASSUME NEW u \in Writers, Updates(u, r) PROVE Updates(u, r)'
        <5>1. u # w
          BY <4>2, <4>4
        <5> QED BY <1>1, <1>9, <1>11, <3>1, <4>1, <4>4, <5>1, StillUpdates DEF OthersStay
      <4> QED BY <1>1, <3>1, <4>3, <4>4 DEF UpdatesInv
    <3>4. CASE ~ (Parent[n] = r /\ Weight[n] > 0) /\ r = n
      <4>1. SubsStay(r)
        BY <1>3, <1>8, <3>1, <3>4 DEF SubsStay
      <4>2. TotalOf(n, progress') = TotalOf(n, p) /\ Visited(n, progress') = Visited(n, p)
        BY <1>1, <1>3, <1>9, <3>1, <3>4, <4>1, SumsStay
      <4>3. CASE Settled(n)
        <5>1. PICK e \in Int : e = MeanOf(n, p) /\ o <= m /\ m <= e
          BY <1>7, <3>1, <3>4
        <5>2. o = e
          BY <1>3, <1>5, <4>3, <5>1 DEF Settled
        <5>3. m = e
          BY <1>6, <5>1, <5>2
        <5> QED BY <1>8, <3>4, <4>2, <5>1, <5>3 DEF Settled, MeanOf
      <4>4. CASE Updates(w, n)
        <5>1. s = Visited(n, p)[(Len(Subs[n]) + 1) - 1]
          BY <1>2, <1>3, <1>5, <4>4 DEF Updates
        <5>2. (Len(Subs[n]) + 1) - 1 = Len(Subs[n])
          BY SubsOfReport
        <5>3. s = TotalOf(n, p)
          BY <5>1, <5>2 DEF TotalOf
        <5> QED BY <1>4, <1>8, <3>4, <4>2, <5>3 DEF Settled, MeanOf
      <4>5. ASSUME NEW u \in Writers, u # w, Updates(u, n) PROVE Updates(u, n)'
        <5>1. CASE m = o
          <6>1. progress'[n] = progress[n]
            BY <1>3, <1>5, <1>8, <5>1
          <6> QED BY <1>1, <1>9, <1>11, <3>1, <3>4, <4>1, <4>5, <6>1, StillUpdates DEF OthersStay
        <5>2. CASE m # o /\ ~ (pc[u] \in {"visit", "exchange"} /\ node[u] = n)
          BY <1>11, <4>5, <5>2 DEF Updates, OthersStay
        <5>3. CASE m # o /\ pc[u] \in {"visit", "exchange"} /\ node[u] = n
          <6>1. PICK a \in Nat : a = old[u]
            <7>1. old[u] \in Progress
              BY <1>1 DEF TypeOK
            <7> QED BY <7>1, ProgressIsNat
          <6>2. a <= o /\ o <= m
            BY <1>1, <1>3, <1>5, <1>7, <3>1, <3>4, <5>3, <6>1 DEF WritersInv, WriterInv, RoundInv
          <6>3. old[u] # m
            BY <1>6, <5>3, <6>1, <6>2
          <6> QED BY <1>8, <1>11, <4>5, <5>3, <6>3 DEF Updates, OthersStay
        <5> QED BY <5>1, <5>2, <5>3
      <4> QED BY <1>1, <3>1, <3>4, <4>3, <4>4, <4>5 DEF UpdatesInv
    <3> QED BY <3>2, <3>3, <3>4
  <2> QED BY <2>1 DEF UpdatesInv, Inner
<1> QED BY <1>9, <1>10, <1>12, <1>13, <1>14 DEF ProgressInv

------------------------------------------------------------------------------
(* The theorems                                                            *)

LEMMA Starts == Init => ProgressInv
<1> SUFFICES ASSUME Init PROVE ProgressInv
  OBVIOUS
<1>1. Writers \subseteq Reports
  BY WritersAreReports
<1>2. TypeOK
  BY <1>1 DEF Init, TypeOK, Progress
<1>3. WritersInv
  BY DEF Init, WritersInv, WriterInv
<1>4. ASSUME NEW r \in Inner PROVE progress[r] = 0 /\ MeanOf(r, progress) = 0
  <2>1. r \in Reports /\ TotalWeight(r) > 0
    BY DEF Inner
  <2>2. progress = [s \in Reports |-> 0]
    BY DEF Init
  <2>3. TotalOf(r, progress) = 0
    BY <2>1, <2>2, TotalOfNone
  <2>4. Mean(r, 0) = 0
    BY <2>1, MeanOfNone
  <2> QED BY <2>1, <2>2, <2>3, <2>4 DEF MeanOf
<1>5. NeverAhead
  <2>1. 0 <= 0
    OBVIOUS
  <2> QED BY <1>4, <2>1 DEF NeverAhead
<1>6. UpdatesInv
  BY <1>4 DEF UpdatesInv, Settled
<1> QED BY <1>2, <1>3, <1>5, <1>6 DEF ProgressInv

(* No report goes back in a step unless it is disturbed by then.           *)
NoneBack == \A r \in Inner : progress'[r] < progress[r] => r \in disturbed'

LEMMA GrowingIsNotBack ==
  ASSUME ProgressInv, ProgressInv', \A r \in Inner \ disturbed' : progress[r] <= progress'[r]
  PROVE  NoneBack
<1>1. \A r \in Inner : progress[r] \in Nat /\ progress'[r] \in Nat
  <2>1. PICK p, q \in [Reports -> Progress] : p = progress /\ q = progress'
    BY DEF ProgressInv, TypeOK
  <2> QED BY <2>1, WritersAreReports, ProgressIsNat
<1> QED BY <1>1 DEF NoneBack

LEMMA StepsKeep == ProgressInv /\ [Next]_vars => ProgressInv' /\ NoneBack
<1> SUFFICES ASSUME ProgressInv, [Next]_vars
             PROVE  ProgressInv' /\ \A r \in Inner \ disturbed' : progress[r] <= progress'[r]
  BY GrowingIsNotBack
<1> USE DEF Moves, GrowsAt
<1>1. CASE UNCHANGED vars
  <2>1. UNCHANGED <<progress, pc, given, node, old, next, sum, disturbed>>
    BY <1>1 DEF vars
  <2>2. ProgressInv'
    <3>1. TypeOK' /\ WritersInv'
      BY <2>1 DEF ProgressInv, TypeOK, WritersInv, WriterInv
    <3>2. NeverAhead' /\ UpdatesInv'
      BY <2>1 DEF ProgressInv, NeverAhead, UpdatesInv, Inner, Settled, Updates, MeanOf
    <3> QED BY <3>1, <3>2 DEF ProgressInv
  <2>3. Moves
    BY <2>1, Quiet DEF ProgressInv
  <2> QED BY <2>2, <2>3
<1>2. ASSUME NEW w \in Writers, Step(w)
      PROVE  ProgressInv' /\ \A r \in Inner \ disturbed' : progress[r] <= progress'[r]
  BY <1>2, StoreKeeps, PropagateKeeps, ReadOldKeeps, VisitKeeps, ExchangeKeeps, RetryKeeps DEF Step
<1>3. ASSUME NEW w \in Writers, NEW v \in Values[w], SetProgress(w, v)
      PROVE  ProgressInv' /\ \A r \in Inner \ disturbed' : progress[r] <= progress'[r]
  BY <1>3, SetProgressKeeps
<1> QED BY <1>1, <1>2, <1>3 DEF Next

(* What each writer has seen, and who still updates what: the inductive    *)
(* invariant.                                                              *)
THEOREM ProgressHolds == Spec => []ProgressInv
  BY Starts, StepsKeep, PTL DEF Spec

(* No mean is divided by zero or leaves 0..100, whatever integers the      *)
(* callers set, on whatever reports.                                       *)
THEOREM TypesHold == Spec => []TypeOK
<1>1. ProgressInv => TypeOK
  BY DEF ProgressInv
<1> QED BY <1>1, ProgressHolds, PTL

(* No report shows more than its sub reports have reached, unless it was   *)
(* set itself or one of them went back.                                    *)
THEOREM MeansAreReached == Spec => []NeverAhead
<1>1. ProgressInv => NeverAhead
  BY DEF ProgressInv
<1> QED BY <1>1, ProgressHolds, PTL

(* Nor does its progress go back, though slow writers store stale means.   *)
THEOREM ProgressGrows == Spec => NeverBack
<1>1. ProgressInv /\ [Next]_vars =>
        [\A r \in Inner : progress'[r] < progress[r] => r \in disturbed']_vars
  BY StepsKeep DEF NoneBack
<1> QED BY <1>1, ProgressHolds, PTL DEF Spec, NeverBack

(* No update is lost: when no call of set_progress is under way, every     *)
(* report that is not disturbed shows the mean of its sub reports.         *)
THEOREM UpdatesAreNotLost == Spec => []SettledIsMean
<1>1. ProgressInv => SettledIsMean
  <2> SUFFICES ASSUME ProgressInv, \A w \in Writers : pc[w] = "idle", NEW r \in Inner \ disturbed
               PROVE  progress[r] = MeanOf(r, progress)
    BY DEF SettledIsMean
  <2>1. \A w \in Writers : ~ Updates(w, r)
    BY DEF Updates
  <2> QED BY <2>1 DEF ProgressInv, UpdatesInv, Settled
<1> QED BY <1>1, ProgressHolds, PTL
=============================================================================
