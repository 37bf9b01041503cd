------------------------------ MODULE FlowProofs ------------------------------
(***************************************************************************)
(* Proofs about Flow for any programs, workflows and bound of loops: that  *)
(* the scopes are those of the frames, that names and returns stay where   *)
(* they belong, and that a return ends its workflow.                       *)
(*                                                                         *)
(* A step of the interpreter is put together from a few elementary steps   *)
(* on a stack of frames fs and the scopes ss under it: the top frame goes  *)
(* on, a frame comes or goes, with a scope or without, a scope is changed. *)
(* Each is shown to keep the invariant's parts, which are predicates of fs *)
(* and ss.                                                                 *)
(***************************************************************************)
EXTENDS Flow, TLAPS

------------------------------------------------------------------------------
(* Sequences, of whatever                                                  *)

IsSeq(s) == \E S : s \in Seq(S)

LEMMA Lengths ==
  ASSUME NEW s, IsSeq(s)
  PROVE  Len(s) \in Nat /\ (s = << >> <=> Len(s) = 0)
<1>1. PICK S : s \in Seq(S)
  BY DEF IsSeq
<1> QED BY <1>1

LEMMA Fronts ==
  ASSUME NEW s, IsSeq(s), s # << >>
  PROVE  /\ Len(s) \in Nat /\ Len(s) > 0 /\ Last(s) = s[Len(s)]
         /\ IsSeq(Front(s)) /\ Len(Front(s)) = Len(s) - 1
         /\ \A k \in 1..Len(s) - 1 : Front(s)[k] = s[k]
<1>1. PICK S : s \in Seq(S)
  BY DEF IsSeq
<1>2. Len(s) \in Nat /\ Len(s) > 0
  BY <1>1
<1>3. PICK m \in Nat : m = Len(s) - 1
  BY <1>2
<1>4. PICK z : z = SubSeq(s, 1, m)
  OBVIOUS
<1>5. z \in Seq(S) /\ Len(z) = m /\ \A k \in 1..m : z[k] = s[k]
  BY <1>1, <1>2, <1>3, <1>4
<1>6. z = Front(s)
  BY <1>3, <1>4 DEF Front
<1> QED BY <1>2, <1>3, <1>5, <1>6 DEF IsSeq, Last

LEMMA Appends ==
  ASSUME NEW s, IsSeq(s), NEW x
  PROVE  /\ IsSeq(Append(s, x)) /\ Len(Append(s, x)) = Len(s) + 1 /\ Len(s) \in Nat
         /\ Append(s, x)[Len(s) + 1] = x
         /\ \A k \in 1..Len(s) : Append(s, x)[k] = s[k]
<1>1. PICK S : s \in Seq(S)
  BY DEF IsSeq
<1> DEFINE U == S \union {x}
<1>2. s \in Seq(U) /\ x \in U
  BY <1>1
<1> HIDE DEF U
<1>3. Append(s, x) \in Seq(U)
  BY <1>2
<1> QED BY <1>2, <1>3 DEF IsSeq

(* s with x at i.                                                          *)
With(s, i, x) == [s EXCEPT ![i] = x]

LEMMA Sets ==
  ASSUME NEW s, IsSeq(s), NEW i \in 1..Len(s), NEW x
  PROVE  /\ IsSeq(With(s, i, x)) /\ Len(With(s, i, x)) = Len(s)
         /\ With(s, i, x)[i] = x
         /\ \A k \in 1..Len(s) : k # i => With(s, i, x)[k] = s[k]
<1>1. PICK S : s \in Seq(S)
  BY DEF IsSeq
<1> DEFINE U == S \union {x}
<1>2. s \in Seq(U) /\ x \in U
  BY <1>1
<1> HIDE DEF U
<1>3. PICK z : z = [s EXCEPT ![i] = x]
  OBVIOUS
<1>4. z \in Seq(U) /\ Len(z) = Len(s) /\ z[i] = x /\ \A k \in 1..Len(s) : k # i => z[k] = s[k]
  BY <1>2, <1>3
<1>5. z = With(s, i, x)
  BY <1>3 DEF With
<1> QED BY <1>4, <1>5 DEF IsSeq

(* A sequence put after another one, element by element.                   *)
LEMMA Puts ==
  ASSUME NEW s, IsSeq(s)
  PROVE  /\ s \o << >> = s
         /\ \A x : s \o <<x>> = Append(s, x)
         /\ \A x, y : s \o <<x, y>> = Append(Append(s, x), y)
         /\ \A x, y, z : s \o <<x, y, z>> = Append(Append(Append(s, x), y), z)
<1>1. PICK S : s \in Seq(S)
  BY DEF IsSeq
<1>2. s \o << >> = s
  BY <1>1
<1>3. ASSUME NEW x PROVE s \o <<x>> = Append(s, x)
  <2>1. s \in Seq(S \union {x}) /\ <<x>> \in Seq(S \union {x})
    BY <1>1
  <2> QED BY <2>1
<1>4. ASSUME NEW x, NEW y PROVE s \o <<x, y>> = Append(Append(s, x), y)
  <2>1. s \in Seq(S \union {x, y}) /\ <<x, y>> \in Seq(S \union {x, y})
    BY <1>1
  <2> QED BY <2>1
<1>5. ASSUME NEW x, NEW y, NEW z PROVE s \o <<x, y, z>> = Append(Append(Append(s, x), y), z)
  <2>1. s \in Seq(S \union {x, y, z}) /\ <<x, y, z>> \in Seq(S \union {x, y, z})
    BY <1>1
  <2> QED BY <2>1
<1> QED BY <1>2, <1>3, <1>4, <1>5

(* Two sequences that agree up to a.                                       *)
LEMMA EqualPrefixes ==
  ASSUME NEW s, IsSeq(s), NEW z, IsSeq(z), NEW a \in Nat, a <= Len(s), a <= Len(z),
         \A k \in 1..a : z[k] = s[k]
  PROVE  SubSeq(z, 1, a) = SubSeq(s, 1, a)
<1>1. PICK S : s \in Seq(S)
  BY DEF IsSeq
<1>2. PICK Z : z \in Seq(Z)
  BY DEF IsSeq
<1>3. PICK u, v : u = SubSeq(s, 1, a) /\ v = SubSeq(z, 1, a)
  OBVIOUS
<1>4. u \in Seq(S) /\ Len(u) = a /\ \A k \in 1..a : u[k] = s[k]
  BY <1>1, <1>3
<1>5. v \in Seq(Z) /\ Len(v) = a /\ \A k \in 1..a : v[k] = z[k]
  BY <1>2, <1>3
<1>6. u = [k \in 1..a |-> u[k]] /\ v = [k \in 1..a |-> v[k]]
  BY <1>4, <1>5
<1>7. \A k \in 1..a : u[k] = v[k]
  BY <1>4, <1>5
<1> QED BY <1>3, <1>6, <1>7, Zenon

------------------------------------------------------------------------------
(* Scopes                                                                  *)

Fields == {"type", "policy", "home", "value", "names"}

(* The home of a scope is that of the innermost function around it.        *)
IsScopes(ss) ==
  /\ IsSeq(ss) /\ Len(ss) > 0 /\ ss[1].type = "Function"
  /\ \A j \in 1..Len(ss) : Fields \subseteq DOMAIN ss[j] /\ ss[j].home \in 1..j
  /\ \A f, j \in 1..Len(ss) : f <= j /\ ss[f].type = "Function" => ss[j].home >= f
  /\ \A j \in 2..Len(ss) : ss[j].type # "Function" => ss[j].home = ss[j - 1].home

(* What the operations on scopes make zs of ss.                            *)
Shaped(zs, ss) ==
  /\ IsSeq(zs) /\ Len(zs) = Len(ss)
  /\ \A k \in 1..Len(ss) :
       Fields \subseteq DOMAIN zs[k] /\ zs[k].type = ss[k].type /\ zs[k].home = ss[k].home

Returned(zs, ss, v) ==
  /\ Shaped(zs, ss)
  /\ \A k \in 1..Len(ss) :
       /\ zs[k].names = ss[k].names
       /\ zs[k].value = IF k = ss[Len(ss)].home THEN v ELSE ss[k].value
       /\ zs[k].policy = IF k = Len(ss) THEN "Return" ELSE ss[k].policy
       /\ k < ss[Len(ss)].home => zs[k] = ss[k]

(* Only names and the policy of the current scope may be others.           *)
Broke(zs, ss) ==
  /\ Shaped(zs, ss)
  /\ \A k \in 1..Len(ss) :
       /\ zs[k].names = ss[k].names /\ zs[k].value = ss[k].value
       /\ zs[k].policy = IF k = Len(ss) THEN "Break" ELSE ss[k].policy
       /\ k < Len(ss) => zs[k] = ss[k]

Named(zs, ss) ==
  /\ Shaped(zs, ss)
  /\ \A k \in 1..Len(ss) :
       /\ zs[k].policy = ss[k].policy /\ zs[k].value = ss[k].value
       /\ k < Len(ss) => zs[k] = ss[k]

Pushed(zs, ss, type) ==
  /\ IsSeq(zs) /\ Len(zs) = Len(ss) + 1
  /\ \A k \in 1..Len(ss) : zs[k] = ss[k]
  /\ zs[Len(ss) + 1] = Scope(type, IF type = "Function" THEN Len(ss) + 1 ELSE ss[Len(ss)].home)

Popped(zs, ss) ==
  /\ IsSeq(zs) /\ Len(zs) = Len(ss) - 1
  /\ \A k \in 1..Len(ss) - 1 :
       /\ Fields \subseteq DOMAIN zs[k]
       /\ zs[k].type = ss[k].type /\ zs[k].home = ss[k].home
       /\ zs[k].names = ss[k].names /\ zs[k].value = ss[k].value
       /\ k < Len(ss) - 1 \/ ss[Len(ss)].type = "Function" => zs[k] = ss[k]
       /\ zs[k].policy # ss[k].policy => k = Len(ss) - 1
       /\ k = Len(ss) - 1 /\ ss[Len(ss)].policy # "Stay" /\ ss[Len(ss)].type # "Function" =>
            zs[k].policy = ss[Len(ss)].policy
       /\ k = Len(ss) - 1 /\ (ss[Len(ss)].policy = "Stay" \/ ss[Len(ss)].type = "Function") =>
            zs[k].policy = ss[k].policy

LEMMA ScopesFacts ==
  ASSUME NEW ss, IsScopes(ss)
  PROVE  /\ Len(ss) \in Nat /\ Len(ss) > 0 /\ ss # << >> /\ Current(ss) = ss[Len(ss)]
         /\ Fields \subseteq DOMAIN ss[Len(ss)]
         /\ ss[Len(ss)].home \in 1..Len(ss)
<1>1. Len(ss) \in Nat /\ Len(ss) > 0 /\ ss # << >>
  BY Lengths DEF IsScopes
<1> QED BY <1>1, Fronts DEF IsScopes, Current

LEMMA ReturnIs ==
  ASSUME NEW ss, IsScopes(ss), NEW v
  PROVE  Returned(ReturnValue(ss, v), ss, v)
<1>1. PICK n, h : n = Len(ss) /\ h = ss[n].home
  OBVIOUS
<1>2. n \in 1..Len(ss) /\ h \in 1..n /\ Current(ss) = ss[n]
  BY <1>1, ScopesFacts
<1>3. PICK a : a = [ss[h] EXCEPT !.value = v]
  OBVIOUS
<1>4. PICK us : us = With(ss, h, a)
  OBVIOUS
<1>5. PICK b : b = [us[n] EXCEPT !.policy = "Return"]
  OBVIOUS
<1>6. PICK zs : zs = With(us, n, b)
  OBVIOUS
<1>7. zs = ReturnValue(ss, v)
  BY <1>1, <1>2, <1>3, <1>4, <1>5, <1>6 DEF ReturnValue, With
<1>8. \A k \in 1..Len(ss) : Fields \subseteq DOMAIN ss[k]
  BY DEF IsScopes
<1>9. /\ IsSeq(us) /\ Len(us) = Len(ss) /\ us[h] = a
      /\ \A k \in 1..Len(ss) : k # h => us[k] = ss[k]
  BY <1>1, <1>2, <1>4, Sets DEF IsScopes
<1>10. /\ IsSeq(zs) /\ Len(zs) = Len(ss) /\ zs[n] = b
       /\ \A k \in 1..Len(ss) : k # n => zs[k] = us[k]
  BY <1>2, <1>6, <1>9, Sets
<1>11. /\ Fields \subseteq DOMAIN a /\ a.value = v
       /\ a.type = ss[h].type /\ a.home = ss[h].home /\ a.names = ss[h].names
       /\ a.policy = ss[h].policy
  BY <1>1, <1>2, <1>3, <1>8 DEF Fields
<1>12. ASSUME NEW k \in 1..Len(ss)
       PROVE  /\ Fields \subseteq DOMAIN us[k]
              /\ us[k].type = ss[k].type /\ us[k].home = ss[k].home
              /\ us[k].names = ss[k].names /\ us[k].policy = ss[k].policy
              /\ us[k].value = IF k = h THEN v ELSE ss[k].value
  BY <1>8, <1>9, <1>11
<1>13. /\ Fields \subseteq DOMAIN b /\ b.value = us[n].value
       /\ b.type = us[n].type /\ b.home = us[n].home /\ b.names = us[n].names
       /\ b.policy = "Return"
  BY <1>2, <1>5, <1>12 DEF Fields
<1>14. ASSUME NEW k \in 1..Len(ss)
       PROVE  /\ Fields \subseteq DOMAIN zs[k]
              /\ zs[k].type = us[k].type /\ zs[k].home = us[k].home
              /\ zs[k].names = us[k].names /\ zs[k].value = us[k].value
              /\ zs[k].policy = IF k = n THEN "Return" ELSE us[k].policy
  BY <1>10, <1>12, <1>13
<1>15. ASSUME NEW k \in 1..Len(ss), k < h PROVE zs[k] = ss[k]
  BY <1>1, <1>2, <1>9, <1>10, <1>15
<1>16. Returned(zs, ss, v)
  BY <1>1, <1>10, <1>12, <1>14, <1>15 DEF Returned, Shaped
<1> QED BY <1>7, <1>16

LEMMA BreakIs ==
  ASSUME NEW ss, IsScopes(ss)
  PROVE  Broke(BreakLoop(ss), ss)
<1>1. PICK n : n = Len(ss)
  OBVIOUS
<1>2. n \in 1..Len(ss)
  BY <1>1, ScopesFacts
<1>3. PICK a : a = [ss[n] EXCEPT !.policy = "Break"]
  OBVIOUS
<1>4. PICK zs : zs = With(ss, n, a)
  OBVIOUS
<1>5. zs = BreakLoop(ss)
  BY <1>1, <1>3, <1>4 DEF BreakLoop, With
<1>6. \A k \in 1..Len(ss) : Fields \subseteq DOMAIN ss[k]
  BY DEF IsScopes
<1>7. /\ IsSeq(zs) /\ Len(zs) = Len(ss) /\ zs[n] = a
      /\ \A k \in 1..Len(ss) : k # n => zs[k] = ss[k]
  <2>1. IsSeq(ss)
    BY DEF IsScopes
  <2> QED BY <1>2, <1>4, <2>1, Sets
<1>8. /\ Fields \subseteq DOMAIN a /\ a.value = ss[n].value
      /\ a.type = ss[n].type /\ a.home = ss[n].home /\ a.names = ss[n].names
      /\ a.policy = "Break"
  BY <1>2, <1>3, <1>6 DEF Fields
<1>9. Broke(zs, ss)
  BY <1>1, <1>2, <1>6, <1>7, <1>8 DEF Broke, Shaped
<1> QED BY <1>5, <1>9

(* The current scope gets other names.                                     *)
LEMMA NamesAre ==
  ASSUME NEW ss, IsScopes(ss), NEW names, NEW zs, zs = [ss EXCEPT ![Len(ss)].names = names]
  PROVE  Named(zs, ss) /\ zs[Len(ss)].names = names
<1>1. PICK n : n = Len(ss)
  OBVIOUS
<1>2. n \in 1..Len(ss)
  BY <1>1, ScopesFacts
<1>3. PICK a : a = [ss[n] EXCEPT !.names = names]
  OBVIOUS
<1>4. zs = With(ss, n, a)
  BY <1>1, <1>3 DEF With
<1>5. \A k \in 1..Len(ss) : Fields \subseteq DOMAIN ss[k]
  BY DEF IsScopes
<1>6. /\ IsSeq(zs) /\ Len(zs) = Len(ss) /\ zs[n] = a
      /\ \A k \in 1..Len(ss) : k # n => zs[k] = ss[k]
  <2>1. PICK us : us = With(ss, n, a)
    OBVIOUS
  <2>2. /\ IsSeq(us) /\ Len(us) = Len(ss) /\ us[n] = a
        /\ \A k \in 1..Len(ss) : k # n => us[k] = ss[k]
    BY <1>2, <2>1, Sets DEF IsScopes
  <2> QED BY <1>4, <2>1, <2>2
<1>7. /\ Fields \subseteq DOMAIN a /\ a.value = ss[n].value
      /\ a.type = ss[n].type /\ a.home = ss[n].home /\ a.names = names
      /\ a.policy = ss[n].policy
  BY <1>2, <1>3, <1>5 DEF Fields
<1>8. Named(zs, ss)
  BY <1>1, <1>2, <1>5, <1>6, <1>7 DEF Named, Shaped
<1> QED BY <1>1, <1>6, <1>7, <1>8

LEMMA AddIs ==
  ASSUME NEW ss, IsScopes(ss), NEW name, NEW kind, NEW zs, zs = Add(ss, name, kind)
  PROVE  /\ Named(zs, ss)
         /\ DOMAIN zs[Len(ss)].names = DOMAIN ss[Len(ss)].names \union {name}
<1>1. PICK old : old = ss[Len(ss)].names
  OBVIOUS
<1>2. PICK names : names = [n \in DOMAIN old \union {name} |-> IF n = name THEN kind ELSE old[n]]
  OBVIOUS
<1>3. zs = [ss EXCEPT ![Len(ss)].names = names]
  BY <1>1, <1>2 DEF Add
<1>4. Named(zs, ss) /\ zs[Len(ss)].names = names
  BY <1>3, NamesAre
<1> QED BY <1>1, <1>2, <1>4

LEMMA PushIs ==
  ASSUME NEW ss, IsScopes(ss), NEW type
  PROVE  Pushed(Push(ss, type), ss, type)
  BY ScopesFacts, Appends DEF IsScopes, Push, Pushed

LEMMA PopIs ==
  ASSUME NEW ss, IsScopes(ss)
  PROVE  Popped(Pop(ss), ss)
<1>1. PICK n, us : n = Len(ss) /\ us = Front(ss)
  OBVIOUS
<1>2. n \in Nat /\ n > 0 /\ Current(ss) = ss[n]
  BY <1>1, ScopesFacts
<1>3. IsSeq(us) /\ Len(us) = n - 1 /\ \A k \in 1..n - 1 : us[k] = ss[k]
  BY <1>1, ScopesFacts, Fronts DEF IsScopes
<1>4. \A k \in 1..n : Fields \subseteq DOMAIN ss[k]
  BY <1>1 DEF IsScopes
<1>5. CASE ss[n].policy = "Stay" \/ ss[n].type = "Function"
  <2>1. Pop(ss) = us
    BY <1>1, <1>2, <1>5 DEF Pop
  <2>2. Popped(us, ss)
    BY <1>1, <1>2, <1>3, <1>4, <1>5 DEF Popped
  <2> QED BY <2>1, <2>2
<1>6. CASE ~ (ss[n].policy = "Stay" \/ ss[n].type = "Function")
  <2>1. n - 1 \in 1..n - 1
    BY <1>2, <1>6 DEF IsScopes
  <2>2. PICK m, a : m = n - 1 /\ a = [us[m] EXCEPT !.policy = ss[n].policy]
    OBVIOUS
  <2>3. PICK zs : zs = With(us, m, a)
    OBVIOUS
  <2>4. zs = Pop(ss)
    BY <1>1, <1>2, <1>6, <2>2, <2>3 DEF Pop, With
  <2>5. /\ IsSeq(zs) /\ Len(zs) = n - 1 /\ zs[m] = a
        /\ \A k \in 1..n - 1 : k # m => zs[k] = ss[k]
    BY <1>3, <2>1, <2>2, <2>3, Sets
  <2>6. /\ Fields \subseteq DOMAIN a /\ a.value = ss[m].value
        /\ a.type = ss[m].type /\ a.home = ss[m].home /\ a.names = ss[m].names
        /\ a.policy = ss[n].policy
    BY <1>2, <1>3, <1>4, <2>1, <2>2 DEF Fields
  <2>7. \A k \in 1..n - 1 : Fields \subseteq DOMAIN ss[k]
    BY <1>2, <1>4
  <2>8. ASSUME NEW k \in 1..n - 1
        PROVE  /\ Fields \subseteq DOMAIN zs[k]
               /\ zs[k].type = ss[k].type /\ zs[k].home = ss[k].home
               /\ zs[k].names = ss[k].names /\ zs[k].value = ss[k].value
               /\ zs[k].policy = IF k = m THEN ss[n].policy ELSE ss[k].policy
               /\ k < m => zs[k] = ss[k]
    <3>1. CASE k = m
      <4>1. zs[k] = a /\ ~ (k < m)
        BY <1>2, <2>2, <2>5, <3>1
      <4> QED BY <2>6, <3>1, <4>1
    <3>2. CASE k # m
      BY <2>5, <2>7, <3>2
    <3> QED BY <3>1, <3>2
  <2>9. Popped(zs, ss)
    BY <1>1, <1>2, <1>6, <2>2, <2>5, <2>8 DEF Popped
  <2> QED BY <2>4, <2>9
<1> QED BY <1>5, <1>6

LEMMA ShapedScopes ==
  ASSUME NEW ss, IsScopes(ss), NEW zs, Shaped(zs, ss)
  PROVE  IsScopes(zs)
<1>1. PICK m : m \in Nat /\ m = Len(ss) /\ m > 0
  BY ScopesFacts
<1>2. /\ IsSeq(zs) /\ Len(zs) = m
      /\ \A k \in 1..m :
           Fields \subseteq DOMAIN zs[k] /\ zs[k].type = ss[k].type /\ zs[k].home = ss[k].home
  BY <1>1 DEF Shaped
<1>3. 1 \in 1..m /\ \A j \in 2..m : j \in 1..m /\ j - 1 \in 1..m
  BY <1>1
<1>4. zs[1].type = "Function" /\ \A j \in 1..m : zs[j].home \in 1..j
  BY <1>1, <1>2, <1>3 DEF IsScopes
<1>5. \A f, j \in 1..m : f <= j /\ zs[f].type = "Function" => zs[j].home >= f
  BY <1>1, <1>2 DEF IsScopes
<1>6. \A j \in 2..m : zs[j].type # "Function" => zs[j].home = zs[j - 1].home
  BY <1>1, <1>2, <1>3 DEF IsScopes
<1> QED BY <1>1, <1>2, <1>4, <1>5, <1>6 DEF IsScopes

LEMMA PushedScopes ==
  ASSUME NEW ss, IsScopes(ss), NEW type, NEW zs, Pushed(zs, ss, type)
  PROVE  IsScopes(zs)
<1>1. PICK n \in Nat : n = Len(ss) /\ n > 0
  BY ScopesFacts
<1>2. /\ IsSeq(zs) /\ Len(zs) = n + 1 /\ \A k \in 1..n : zs[k] = ss[k]
      /\ Fields \subseteq DOMAIN zs[n + 1] /\ zs[n + 1].type = type
      /\ zs[n + 1].home = IF type = "Function" THEN n + 1 ELSE ss[n].home
  BY <1>1 DEF Pushed, Scope, Fields
<1>3. /\ \A j \in 1..n : Fields \subseteq DOMAIN ss[j] /\ ss[j].home \in 1..j
      /\ \A f, j \in 1..n : f <= j /\ ss[f].type = "Function" => ss[j].home >= f
      /\ \A j \in 2..n : ss[j].type # "Function" => ss[j].home = ss[j - 1].home
      /\ ss[1].type = "Function"
  BY <1>1 DEF IsScopes
<1>4. \A j \in 1..n + 1 : Fields \subseteq DOMAIN zs[j] /\ zs[j].home \in 1..j
  <2>1. ss[n].home \in 1..n
    BY <1>1, <1>3
  <2> QED BY <1>1, <1>2, <1>3, <2>1
<1>5. ASSUME NEW f \in 1..n + 1, NEW j \in 1..n + 1, f <= j, zs[f].type = "Function"
      PROVE  zs[j].home >= f
  <2>1. CASE j \in 1..n
    BY <1>1, <1>2, <1>3, <1>5, <2>1
  <2>2. CASE j = n + 1 /\ f \in 1..n
    <3>1. ss[n].home >= f
      BY <1>1, <1>2, <1>3, <1>5, <2>2
    <3> QED BY <1>1, <1>2, <2>2, <3>1
  <2>3. CASE j = n + 1 /\ f = n + 1
    BY <1>1, <1>2, <1>5, <2>3
  <2> QED BY <1>1, <2>1, <2>2, <2>3
<1>6. \A j \in 2..n + 1 : zs[j].type # "Function" => zs[j].home = zs[j - 1].home
  BY <1>1, <1>2, <1>3
<1> QED BY <1>1, <1>2, <1>3, <1>4, <1>5, <1>6 DEF IsScopes

LEMMA PoppedScopes ==
  ASSUME NEW ss, IsScopes(ss), Len(ss) > 1, NEW zs, Popped(zs, ss)
  PROVE  IsScopes(zs)
<1>1. PICK n \in Nat : n = Len(ss) /\ n > 1
  BY ScopesFacts
<1>2. /\ IsSeq(zs) /\ Len(zs) = n - 1
      /\ \A k \in 1..n - 1 : Fields \subseteq DOMAIN zs[k]
                             /\ zs[k].type = ss[k].type /\ zs[k].home = ss[k].home
  BY <1>1 DEF Popped
<1>3. /\ \A j \in 1..n : ss[j].home \in 1..j
      /\ \A f, j \in 1..n : f <= j /\ ss[f].type = "Function" => ss[j].home >= f
      /\ \A j \in 2..n : ss[j].type # "Function" => ss[j].home = ss[j - 1].home
      /\ ss[1].type = "Function"
  BY <1>1 DEF IsScopes
<1>4. 1 \in 1..n - 1 /\ \A k \in 1..n - 1 : k \in 1..n
  BY <1>1
<1>5. zs[1].type = "Function" /\ \A k \in 1..n - 1 : zs[k].home \in 1..k
  BY <1>2, <1>3, <1>4
<1>6. \A f, j \in 1..n - 1 : f <= j /\ zs[f].type = "Function" => zs[j].home >= f
  BY <1>2, <1>3, <1>4
<1>7. \A j \in 2..n - 1 : zs[j].type # "Function" => zs[j].home = zs[j - 1].home
  <2>1. \A j \in 2..n - 1 : j \in 2..n /\ j \in 1..n - 1 /\ j - 1 \in 1..n - 1
    BY <1>1
  <2> QED BY <1>2, <1>3, <2>1
<1> QED BY <1>1, <1>2, <1>5, <1>6, <1>7 DEF IsScopes

------------------------------------------------------------------------------
(* The parts of the invariant                                              *)

(* Every frame has its fields, and a block that is not the program's has   *)
(* no function scope.                                                      *)
IsFrame(f) ==
  /\ {"kind", "at"} \subseteq DOMAIN f
  /\ f.kind \in Blocks =>
       {"type", "block", "pc", "got"} \subseteq DOMAIN f /\ f.pc \in Nat \ {0} /\ IsSeq(f.got)
  /\ f.kind = "block" => f.type # "Function"

(* The scopes of a frame.                                                  *)
Own(f) == IF f.kind \in Scoped THEN 1 ELSE 0

(* A frame's scope is above those of all frames below, and a call's is a   *)
(* function's.                                                             *)
Stacked(fs, ss) ==
  /\ IsSeq(fs)
  /\ \A i \in 1..Len(fs) :
       /\ IsFrame(fs[i]) /\ fs[i].at \in 1..Len(ss)
       /\ fs[i].kind = "program" <=> i = 1
       /\ fs[i].kind = "call" => ss[fs[i].at].type = "Function"
  /\ fs # << >> => fs[1].at = 1
  /\ \A i, j \in 1..Len(fs) : i < j => fs[i].at + Own(fs[j]) <= fs[j].at

(* What g can be if it is on f: a block waits in the middle of a statement *)
(* for an await, an await for a call or a request.                         *)
Fits(f, g) ==
  /\ g.kind \in {"call", "request"} <=> f.kind = "await"
  /\ g.kind = "await" => f.kind \in Blocks
  /\ f.kind \notin {"delay", "request"}
  /\ f.kind \in Blocks /\ f.got # << >> => g.kind = "await"

Adjacent(fs) == \A i \in 2..Len(fs) : Fits(fs[i - 1], fs[i])

(* What holds of frames and scopes also when a call was destroyed.         *)
Upright(fs, ss) == IsScopes(ss) /\ Stacked(fs, ss) /\ Adjacent(fs)

Matched(fs, ss) ==
  /\ fs # << >> => fs[Len(fs)].at = Len(ss)
  /\ \A i \in 2..Len(fs) : fs[i].at = fs[i - 1].at + Own(fs[i])
  /\ \A i \in 1..Len(fs) : fs[i].kind \in Scoped => ss[fs[i].at].type = ScopeType(fs[i])

(* The innermost scope of a function that returned is left.                *)
Left(ss) ==
  \A k \in 1..Len(ss) :
    (k = Len(ss) \/ ss[k + 1].type = "Function") /\ ss[ss[k].home].value # None
      => ss[k].policy # "Stay"

(* A block that awaits the first part of an expression is not left.        *)
Paused(fs, ss) ==
  \A i \in 2..Len(fs) :
    fs[i].kind = "await" /\ fs[i - 1].got = << >> => ss[fs[i - 1].at].policy = "Stay"

(* A function returned in the middle of a statement only by a try.         *)
Tries(f, ss) ==
  f.kind \in Blocks /\ f.got # << >> /\ ss[ss[f.at].home].value # None
    => \E k \in 1..Len(f.got) : f.got[k] = "error"

(* What holds until a call was destroyed.                                  *)
Exact(fs, ss) ==
  /\ Matched(fs, ss) /\ Left(ss) /\ Paused(fs, ss)
  /\ \A i \in 1..Len(fs) : Tries(fs[i], ss)

(* The names of a block's scope are those that it has declared.            *)
Owned(fs, ss) ==
  \A i \in 1..Len(fs) :
    fs[i].kind \in Blocks => DOMAIN ss[fs[i].at].names = Declared(fs[i].block, fs[i].pc)

(* While frames are destroyed: an await that timed out is one of those     *)
(* that will stay.                                                         *)
Targeted ==
  status = "unwinding" /\ target > 0 => target \in 1..Len(frames) /\ frames[target].kind = "await"

Good(fs, ss, broken) ==
  /\ Upright(fs, ss) /\ broken \in BOOLEAN
  /\ ~ broken => Exact(fs, ss) /\ Owned(fs, ss)

FlowInv ==
  /\ Good(frames, scopes, cut) /\ Targeted /\ target \in Nat
  /\ status = "running" => frames # << >>

------------------------------------------------------------------------------
(* Elementary steps: frames that go on                                     *)

(* gs is fs after frames went on, of the blocks only the one on top.       *)
Touched(gs, fs) ==
  /\ IsSeq(gs) /\ Len(gs) = Len(fs)
  /\ \A i \in 1..Len(fs) :
       /\ IsFrame(gs[i]) /\ gs[i].kind = fs[i].kind /\ gs[i].at = fs[i].at
       /\ fs[i].kind \in Blocks =>
            /\ gs[i].type = fs[i].type /\ gs[i].block = fs[i].block
            /\ i < Len(fs) => gs[i] = fs[i]

LEMMA FramesFacts ==
  ASSUME NEW fs, NEW ss, Stacked(fs, ss), fs # << >>
  PROVE  /\ IsSeq(fs) /\ Len(fs) \in Nat /\ Len(fs) > 0 /\ Len(fs) \in 1..Len(fs)
         /\ Last(fs) = fs[Len(fs)] /\ IsFrame(fs[Len(fs)])
<1>1. IsSeq(fs) /\ Len(fs) \in Nat /\ Len(fs) > 0 /\ Last(fs) = fs[Len(fs)]
  BY Fronts DEF Stacked
<1> QED BY <1>1 DEF Stacked

LEMMA Sizes ==
  ASSUME NEW fs, NEW ss, Upright(fs, ss), fs # << >>
  PROVE  /\ Len(fs) \in Nat /\ Len(fs) > 0 /\ Len(ss) \in Nat /\ Len(ss) > 0
<1>1. Len(fs) \in Nat /\ Len(fs) # 0
  BY Lengths DEF Upright, Stacked
<1>2. Len(ss) \in Nat /\ Len(ss) > 0
  BY ScopesFacts DEF Upright
<1> QED BY <1>1, <1>2

LEMMA TouchUpright ==
  ASSUME NEW fs, NEW ss, Upright(fs, ss), NEW gs, Touched(gs, fs)
  PROVE  Upright(gs, ss)
<1>1. PICK n \in Nat : n = Len(fs) /\ n = Len(gs)
  BY Lengths DEF Upright, Stacked, Touched
<1>2. gs # << >> => fs # << >> /\ 1 \in 1..n
  BY <1>1, Lengths DEF Upright, Stacked, Touched
<1>3. \A i \in 1..n :
        /\ IsFrame(gs[i]) /\ gs[i].kind = fs[i].kind /\ gs[i].at = fs[i].at
        /\ Own(gs[i]) = Own(fs[i])
        /\ fs[i].kind \in Blocks /\ i < n => gs[i] = fs[i]
  BY <1>1 DEF Touched, Own
<1>4. Stacked(gs, ss)
  BY <1>1, <1>2, <1>3 DEF Upright, Stacked, Touched
<1>5. Adjacent(gs)
  <2>1. ASSUME NEW i \in 2..n PROVE Fits(gs[i - 1], gs[i])
    <3>1. i \in 1..n /\ i - 1 \in 1..n /\ i - 1 < n
      BY <1>1
    <3>2. Fits(fs[i - 1], fs[i])
      BY <1>1 DEF Upright, Adjacent
    <3> QED BY <1>3, <3>1, <3>2 DEF Fits
  <2> QED BY <1>1, <2>1 DEF Adjacent
<1> QED BY <1>4, <1>5 DEF Upright

LEMMA TouchExact ==
  ASSUME NEW fs, NEW ss, Upright(fs, ss), Exact(fs, ss), NEW gs, Touched(gs, fs),
         Tries(gs[Len(fs)], ss)
  PROVE  Exact(gs, ss)
<1>1. PICK n \in Nat : n = Len(fs) /\ n = Len(gs)
  BY Lengths DEF Upright, Stacked, Touched
<1>2. gs # << >> => fs # << >> /\ n \in 1..n
  BY <1>1, Lengths DEF Upright, Stacked, Touched
<1>3. \A i \in 1..n :
        /\ IsFrame(gs[i]) /\ gs[i].kind = fs[i].kind /\ gs[i].at = fs[i].at
        /\ Own(gs[i]) = Own(fs[i])
        /\ fs[i].kind \in Scoped => ScopeType(gs[i]) = ScopeType(fs[i])
        /\ fs[i].kind \in Blocks /\ i < n => gs[i] = fs[i]
  BY <1>1 DEF Touched, Own, ScopeType, Blocks, Scoped
<1>4. \A i \in 2..n : i \in 1..n /\ i - 1 \in 1..n /\ i - 1 < n
  BY <1>1
<1>5. Matched(gs, ss)
  <2>1. gs # << >> => gs[n].at = Len(ss)
    BY <1>1, <1>2, <1>3 DEF Exact, Matched
  <2>2. \A i \in 2..n : gs[i].at = gs[i - 1].at + Own(gs[i])
    BY <1>1, <1>3, <1>4 DEF Exact, Matched
  <2>3. \A i \in 1..n : gs[i].kind \in Scoped => ss[gs[i].at].type = ScopeType(gs[i])
    BY <1>1, <1>3 DEF Exact, Matched
  <2> QED BY <1>1, <2>1, <2>2, <2>3 DEF Matched
<1>6. Paused(gs, ss)
  <2>1. ASSUME NEW i \in 2..n, gs[i].kind = "await", gs[i - 1].got = << >>
        PROVE  ss[gs[i - 1].at].policy = "Stay"
    <3>1. fs[i].kind = "await" /\ Fits(fs[i - 1], fs[i])
      BY <1>1, <1>3, <1>4, <2>1 DEF Upright, Adjacent
    <3>2. gs[i - 1] = fs[i - 1]
      BY <1>3, <1>4, <3>1 DEF Fits
    <3> QED BY <1>1, <2>1, <3>1, <3>2 DEF Exact, Paused
  <2> QED BY <1>1, <2>1 DEF Paused
<1>7. ASSUME NEW i \in 1..n PROVE Tries(gs[i], ss)
  <2>1. CASE i = n
    BY <1>1, <2>1
  <2>2. CASE i # n /\ gs[i].kind \in Blocks
    <3>1. gs[i] = fs[i]
      BY <1>1, <1>3, <2>2
    <3> QED BY <1>1, <3>1 DEF Exact
  <2>3. CASE gs[i].kind \notin Blocks
    BY <2>3 DEF Tries
  <2> QED BY <2>1, <2>2, <2>3
<1> QED BY <1>1, <1>5, <1>6, <1>7 DEF Exact

LEMMA TouchOwned ==
  ASSUME NEW fs, NEW ss, Upright(fs, ss), Owned(fs, ss), NEW gs, Touched(gs, fs),
         fs[Len(fs)].kind \in Blocks =>
           Declared(gs[Len(fs)].block, gs[Len(fs)].pc) = Declared(fs[Len(fs)].block, fs[Len(fs)].pc)
  PROVE  Owned(gs, ss)
<1>1. PICK n \in Nat : n = Len(fs) /\ n = Len(gs)
  BY Lengths DEF Upright, Stacked, Touched
<1>2. ASSUME NEW i \in 1..n, gs[i].kind \in Blocks
      PROVE  DOMAIN ss[gs[i].at].names = Declared(gs[i].block, gs[i].pc)
  <2>1. /\ fs[i].kind \in Blocks /\ gs[i].at = fs[i].at
        /\ i < n => gs[i] = fs[i]
    BY <1>1, <1>2 DEF Touched
  <2>2. DOMAIN ss[fs[i].at].names = Declared(fs[i].block, fs[i].pc)
    BY <1>1, <2>1 DEF Owned
  <2>3. CASE i < n
    BY <2>1, <2>2, <2>3
  <2>4. CASE i = n
    BY <1>1, <2>1, <2>2, <2>4
  <2> QED BY <1>1, <2>3, <2>4
<1> QED BY <1>1, <1>2 DEF Owned

------------------------------------------------------------------------------
(* Elementary steps: scopes that change                                    *)

LEMMA ShapedUpright ==
  ASSUME NEW fs, NEW ss, Upright(fs, ss), NEW zs, Shaped(zs, ss)
  PROVE  Upright(fs, zs)
<1>1. IsScopes(zs)
  BY ShapedScopes DEF Upright
<1>2. Stacked(fs, zs)
  BY DEF Upright, Stacked, Shaped
<1> QED BY <1>1, <1>2 DEF Upright

LEMMA ShapedMatched ==
  ASSUME NEW fs, NEW ss, Stacked(fs, ss), Matched(fs, ss), NEW zs, Shaped(zs, ss)
  PROVE  Matched(fs, zs)
  BY DEF Stacked, Matched, Shaped

(* The homes of the scopes of two frames of which the upper is a call's.   *)
LEMMA HomesApart ==
  ASSUME NEW fs, NEW ss, Upright(fs, ss),
         NEW i \in 1..Len(fs), NEW j \in 1..Len(fs), i < j, fs[j].kind = "call"
  PROVE  ss[fs[i].at].home < ss[Len(ss)].home
<1>1. /\ Len(ss) \in Nat /\ Len(ss) \in 1..Len(ss) /\ ss[Len(ss)].home \in 1..Len(ss)
  BY ScopesFacts DEF Upright
<1>2. /\ fs[i].at \in 1..Len(ss) /\ fs[j].at \in 1..Len(ss)
      /\ fs[i].at + 1 <= fs[j].at /\ ss[fs[j].at].type = "Function"
  BY DEF Upright, Stacked, Own, Scoped
<1>3. ss[fs[i].at].home \in 1..fs[i].at
  BY <1>1, <1>2 DEF Upright, IsScopes
<1>4. fs[j].at <= Len(ss)
  BY <1>1, <1>2
<1>5. ss[Len(ss)].home >= fs[j].at
  BY <1>1, <1>2, <1>4 DEF Upright, IsScopes
<1>6. PICK x, y \in Nat : x = fs[i].at /\ y = fs[j].at
  BY <1>1, <1>2
<1>7. PICK g, h \in Nat : g = ss[fs[i].at].home /\ h = ss[Len(ss)].home
  BY <1>1, <1>2, <1>3
<1>8. x + 1 <= y /\ g <= x /\ h >= y
  BY <1>2, <1>3, <1>5, <1>6, <1>7
<1> QED BY <1>7, <1>8

(* A block below the top block that is in the middle of a statement awaits *)
(* a call.                                                                 *)
LEMMA WaitsForCall ==
  ASSUME NEW fs, NEW ss, Upright(fs, ss), NEW i \in 1..Len(fs), NEW j \in 1..Len(fs), i < j,
         fs[j].kind \in Blocks, fs[i].kind \in Blocks,
         fs[i].got # << >> \/ fs[i + 1].kind = "await"
  PROVE  i + 2 \in 1..Len(fs) /\ i + 2 < j /\ fs[i + 2].kind = "call"
<1>1. PICK n \in Nat : n = Len(fs)
  BY Lengths DEF Upright, Stacked
<1>2. i + 1 \in 2..n /\ Fits(fs[i], fs[i + 1])
  <2>1. i + 1 \in 2..n /\ (i + 1) - 1 = i
    BY <1>1
  <2> QED BY <1>1, <2>1 DEF Upright, Adjacent
<1>3. fs[i + 1].kind = "await"
  BY <1>2 DEF Fits
<1>4. i + 1 # j /\ i + 2 \in 2..n /\ i + 2 <= j
  BY <1>1, <1>2, <1>3 DEF Blocks
<1>5. Fits(fs[i + 1], fs[i + 2])
  <2>1. (i + 2) - 1 = i + 1
    OBVIOUS
  <2> QED BY <1>1, <1>4, <2>1 DEF Upright, Adjacent
<1>6. fs[i + 2].kind \in {"call", "request"}
  BY <1>3, <1>5 DEF Fits
<1>7. i + 2 # j
  BY <1>6 DEF Blocks
<1>8. fs[i + 2].kind # "request"
  <2>1. i + 3 \in 2..n /\ (i + 3) - 1 = i + 2
    BY <1>1, <1>4, <1>7
  <2>2. Fits(fs[i + 2], fs[i + 3])
    BY <1>1, <2>1 DEF Upright, Adjacent
  <2> QED BY <2>2 DEF Fits
<1> QED BY <1>1, <1>4, <1>6, <1>7, <1>8

(* Of a function that is not the current one, no scope is the last.        *)
LEMMA LastIsCurrent ==
  ASSUME NEW ss, IsScopes(ss), NEW k \in 1..Len(ss), ss[k + 1].type = "Function", k < Len(ss)
  PROVE  ss[k].home < ss[Len(ss)].home
<1>1. Len(ss) \in Nat /\ k + 1 \in 1..Len(ss) /\ Len(ss) \in 1..Len(ss)
      /\ ss[Len(ss)].home \in 1..Len(ss)
  BY ScopesFacts
<1>2. ss[k].home \in 1..k /\ ss[Len(ss)].home >= k + 1
  BY <1>1 DEF IsScopes
<1> QED BY <1>1, <1>2

(* The top block returns: between two statements, or by a try.             *)
LEMMA ReturnExact ==
  ASSUME NEW fs, NEW ss, Upright(fs, ss), Exact(fs, ss), fs # << >>,
         fs[Len(fs)].kind \in Blocks,
         fs[Len(fs)].got # << >> => \E k \in 1..Len(fs[Len(fs)].got) : fs[Len(fs)].got[k] = "error",
         NEW v, NEW zs, Returned(zs, ss, v)
  PROVE  Exact(fs, zs)
<1>1. PICK n, m : n \in Nat /\ m \in Nat /\ n = Len(fs) /\ m = Len(ss)
  BY Lengths DEF Upright, Stacked, IsScopes
<1>2. PICK h : h = ss[m].home
  OBVIOUS
<1>3. n \in 1..n /\ m \in 1..m /\ h \in 1..m /\ fs[n].at = m
  <2>1. n \in 1..n
    BY <1>1, FramesFacts DEF Upright
  <2>2. m \in 1..m /\ h \in 1..m
    BY <1>1, <1>2, ScopesFacts DEF Upright
  <2>3. fs[n].at = m
    BY <1>1 DEF Exact, Matched
  <2> QED BY <2>1, <2>2, <2>3
<1>4. /\ Shaped(zs, ss) /\ Len(zs) = m
      /\ \A k \in 1..m :
           /\ zs[k].type = ss[k].type /\ zs[k].home = ss[k].home
           /\ zs[k].value = IF k = h THEN v ELSE ss[k].value
           /\ zs[k].policy = IF k = m THEN "Return" ELSE ss[k].policy
  BY <1>1, <1>2 DEF Returned, Shaped
<1>5. Matched(fs, zs)
  BY <1>4, ShapedMatched DEF Upright, Exact
<1>6. Left(zs)
  <2>1. ASSUME NEW k \in 1..m, k = m \/ zs[k + 1].type = "Function",
               zs[zs[k].home].value # None
        PROVE  zs[k].policy # "Stay"
    <3>1. CASE k = m
      BY <1>4, <3>1
    <3>2. CASE k # m
      <4>1. k + 1 \in 1..m /\ k < m /\ ss[k + 1].type = "Function"
        BY <1>1, <1>4, <2>1, <3>2
      <4>2. ss[k].home # h /\ ss[k].home \in 1..m
        <5>1. ss[k].home \in 1..k
          BY <1>1 DEF Upright, IsScopes
        <5>2. ss[k].home < h
          BY <1>1, <1>2, <4>1, LastIsCurrent DEF Upright
        <5> QED BY <1>1, <1>3, <5>1, <5>2
      <4>3. ss[ss[k].home].value # None
        BY <1>4, <2>1, <4>2
      <4> QED BY <1>1, <1>4, <3>2, <4>1, <4>3 DEF Exact, Left
    <3> QED BY <3>1, <3>2
  <2> QED BY <1>4, <2>1 DEF Left
<1>7. ASSUME NEW i \in 1..n, i < n, fs[i].kind \in Blocks,
             fs[i].got # << >> \/ fs[i + 1].kind = "await"
      PROVE  fs[i].at < m /\ fs[i].at \in 1..m /\ ss[fs[i].at].home < h
  <2>1. i + 2 \in 1..n /\ i < i + 2 /\ fs[i + 2].kind = "call"
    BY <1>1, <1>3, <1>7, WaitsForCall
  <2>2. ss[fs[i].at].home < h
    BY <1>1, <1>2, <1>3, <2>1, HomesApart
  <2>3. fs[i].at \in 1..m /\ fs[i].at + 1 <= fs[n].at
    BY <1>1, <1>3, <1>7 DEF Upright, Stacked, Own, Blocks, Scoped
  <2> QED BY <1>3, <2>2, <2>3
<1>8. Paused(fs, zs)
  <2>1. ASSUME NEW i \in 2..n, fs[i].kind = "await", fs[i - 1].got = << >>
        PROVE  zs[fs[i - 1].at].policy = "Stay"
    <3>1. i - 1 \in 1..n /\ i - 1 < n /\ (i - 1) + 1 = i
      BY <1>1
    <3>2. fs[i - 1].kind \in Blocks
      BY <1>1, <2>1 DEF Upright, Adjacent, Fits
    <3>3. fs[i - 1].at < m /\ fs[i - 1].at \in 1..m
      BY <1>7, <2>1, <3>1, <3>2
    <3>4. ss[fs[i - 1].at].policy = "Stay"
      BY <1>1, <2>1 DEF Exact, Paused
    <3> QED BY <1>1, <1>4, <3>3, <3>4
  <2> QED BY <1>1, <2>1 DEF Paused
<1>9. ASSUME NEW i \in 1..n PROVE Tries(fs[i], zs)
  <2>1. CASE i = n
    BY <1>1, <2>1 DEF Tries
  <2>2. CASE i # n /\ fs[i].kind \in Blocks /\ fs[i].got # << >>
    <3>1. fs[i].at \in 1..m /\ ss[fs[i].at].home < h
      BY <1>1, <1>7, <2>2
    <3>2. ss[fs[i].at].home \in 1..m
      BY <1>1, <3>1 DEF Upright, IsScopes
    <3>3. zs[zs[fs[i].at].home].value = ss[ss[fs[i].at].home].value
      BY <1>3, <1>4, <3>1, <3>2
    <3>4. Tries(fs[i], ss)
      BY <1>1 DEF Exact
    <3> QED BY <3>3, <3>4 DEF Tries
  <2>3. CASE ~ (fs[i].kind \in Blocks /\ fs[i].got # << >>)
    BY <2>3 DEF Tries
  <2> QED BY <2>1, <2>2, <2>3
<1> QED BY <1>1, <1>5, <1>6, <1>8, <1>9 DEF Exact

LEMMA BreakExact ==
  ASSUME NEW fs, NEW ss, Upright(fs, ss), Exact(fs, ss), fs # << >>,
         fs[Len(fs)].kind \in Blocks, NEW zs, Broke(zs, ss)
  PROVE  Exact(fs, zs)
<1>1. PICK n, m : n \in Nat /\ m \in Nat /\ n = Len(fs) /\ m = Len(ss)
  BY Lengths DEF Upright, Stacked, IsScopes
<1>2. n \in 1..n /\ fs[n].at = m
  BY <1>1, FramesFacts DEF Upright, Exact, Matched
<1>3. /\ Shaped(zs, ss) /\ Len(zs) = m
      /\ \A k \in 1..m :
           /\ zs[k].type = ss[k].type /\ zs[k].home = ss[k].home /\ zs[k].value = ss[k].value
           /\ zs[k].policy = IF k = m THEN "Break" ELSE ss[k].policy
  BY <1>1 DEF Broke, Shaped
<1>4. \A k \in 1..m : ss[k].home \in 1..m
  BY <1>1 DEF Upright, IsScopes
<1>5. Matched(fs, zs)
  BY <1>3, ShapedMatched DEF Upright, Exact
<1>6. Left(zs)
  <2>1. ASSUME NEW k \in 1..m, k = m \/ zs[k + 1].type = "Function",
               zs[zs[k].home].value # None
        PROVE  zs[k].policy # "Stay"
    <3>1. CASE k = m
      BY <1>3, <3>1
    <3>2. CASE k # m
      <4>1. k + 1 \in 1..m
        BY <1>1, <3>2
      <4>2. ss[k + 1].type = "Function" /\ ss[ss[k].home].value # None
        BY <1>3, <1>4, <2>1, <3>2, <4>1
      <4> QED BY <1>1, <1>3, <3>2, <4>2 DEF Exact, Left
    <3> QED BY <3>1, <3>2
  <2> QED BY <1>3, <2>1 DEF Left
<1>7. Paused(fs, zs)
  <2>1. ASSUME NEW i \in 2..n, fs[i].kind = "await", fs[i - 1].got = << >>
        PROVE  zs[fs[i - 1].at].policy = "Stay"
    <3>1. i - 1 \in 1..n /\ i - 1 < n
      BY <1>1
    <3>2. fs[i - 1].at \in 1..m /\ fs[i - 1].at + 1 <= fs[n].at
      BY <1>1, <1>2, <3>1 DEF Upright, Stacked, Own, Blocks, Scoped
    <3>3. ss[fs[i - 1].at].policy = "Stay"
      BY <1>1, <2>1 DEF Exact, Paused
    <3> QED BY <1>1, <1>2, <1>3, <3>2, <3>3
  <2> QED BY <1>1, <2>1 DEF Paused
<1>8. ASSUME NEW i \in 1..n PROVE Tries(fs[i], zs)
  <2>1. fs[i].at \in 1..m /\ Tries(fs[i], ss)
    BY <1>1 DEF Upright, Stacked, Exact
  <2>2. zs[zs[fs[i].at].home].value = ss[ss[fs[i].at].home].value
    BY <1>3, <1>4, <2>1
  <2> QED BY <2>1, <2>2 DEF Tries
<1> QED BY <1>1, <1>5, <1>7, <1>6, <1>8 DEF Exact

LEMMA NamedExact ==
  ASSUME NEW fs, NEW ss, Upright(fs, ss), Exact(fs, ss), NEW zs, Named(zs, ss)
  PROVE  Exact(fs, zs)
<1>1. PICK n, m : n \in Nat /\ m \in Nat /\ n = Len(fs) /\ m = Len(ss)
  BY Lengths DEF Upright, Stacked, IsScopes
<1>2. /\ Shaped(zs, ss) /\ Len(zs) = m
      /\ \A k \in 1..m :
           /\ zs[k].type = ss[k].type /\ zs[k].home = ss[k].home /\ zs[k].value = ss[k].value
           /\ zs[k].policy = ss[k].policy
  BY <1>1 DEF Named, Shaped
<1>3. \A k \in 1..m : ss[k].home \in 1..m
  BY <1>1 DEF Upright, IsScopes
<1>4. Matched(fs, zs)
  BY <1>2, ShapedMatched DEF Upright, Exact
<1>5. Left(zs)
  <2>1. ASSUME NEW k \in 1..m, k = m \/ zs[k + 1].type = "Function",
               zs[zs[k].home].value # None
        PROVE  zs[k].policy # "Stay"
    <3>1. k = m \/ (k + 1 \in 1..m /\ ss[k + 1].type = "Function")
      BY <1>1, <1>2, <2>1
    <3>2. ss[ss[k].home].value # None
      BY <1>2, <1>3, <2>1
    <3> QED BY <1>1, <1>2, <3>1, <3>2 DEF Exact, Left
  <2> QED BY <1>2, <2>1 DEF Left
<1>6. Paused(fs, zs)
  <2>1. ASSUME NEW i \in 2..n, fs[i].kind = "await", fs[i - 1].got = << >>
        PROVE  zs[fs[i - 1].at].policy = "Stay"
    <3>1. fs[i - 1].at \in 1..m
      BY <1>1 DEF Upright, Stacked
    <3> QED BY <1>1, <1>2, <2>1, <3>1 DEF Exact, Paused
  <2> QED BY <1>1, <2>1 DEF Paused
<1>7. ASSUME NEW i \in 1..n PROVE Tries(fs[i], zs)
  <2>1. fs[i].at \in 1..m /\ Tries(fs[i], ss)
    BY <1>1 DEF Upright, Stacked, Exact
  <2>2. zs[zs[fs[i].at].home].value = ss[ss[fs[i].at].home].value
    BY <1>2, <1>3, <2>1
  <2> QED BY <2>1, <2>2 DEF Tries
<1> QED BY <1>1, <1>4, <1>5, <1>6, <1>7 DEF Exact

(* Neither a return nor a break declares a name.                           *)
LEMMA SameNamesOwned ==
  ASSUME NEW fs, NEW ss, Upright(fs, ss), Owned(fs, ss), NEW zs,
         \A k \in 1..Len(ss) : zs[k].names = ss[k].names
  PROVE  Owned(fs, zs)
  BY DEF Upright, Stacked, Owned

------------------------------------------------------------------------------
(* Elementary steps: frames that come                                      *)

(* A frame f is put on fs, with the scopes ss below it.                    *)
PutOn(f, fs, ss) ==
  /\ fs # << >> /\ IsFrame(f) /\ Fits(fs[Len(fs)], f)
  /\ f.kind # "program" /\ f.at = Len(ss) + Own(f)

LEMMA PlainUpright ==
  ASSUME NEW fs, NEW ss, Upright(fs, ss), NEW f, PutOn(f, fs, ss), f.kind \notin Scoped
  PROVE  Upright(Append(fs, f), ss)
<1>1. PICK n, m : n \in Nat /\ m \in Nat /\ n = Len(fs) /\ m = Len(ss) /\ n > 0 /\ m > 0
  BY Sizes DEF PutOn
<1>2. PICK gs : gs = Append(fs, f)
  OBVIOUS
<1>3. /\ IsSeq(gs) /\ Len(gs) = n + 1 /\ gs[n + 1] = f /\ gs # << >>
      /\ \A k \in 1..n : gs[k] = fs[k]
  <2>1. /\ IsSeq(gs) /\ Len(gs) = n + 1 /\ gs[n + 1] = f
        /\ \A k \in 1..n : gs[k] = fs[k]
    BY <1>1, <1>2, Appends DEF Upright, Stacked
  <2> QED BY <1>1, <2>1, Lengths
<1>4. f.at = m /\ IsFrame(f) /\ Own(f) = 0 /\ f.kind \notin {"program", "call"}
  BY <1>1 DEF PutOn, Own, Scoped
<1>5. Stacked(gs, ss)
  <2>1. ASSUME NEW i \in 1..n + 1
        PROVE  /\ IsFrame(gs[i]) /\ gs[i].at \in 1..m
               /\ gs[i].kind = "program" <=> i = 1
               /\ gs[i].kind = "call" => ss[gs[i].at].type = "Function"
    <3>1. CASE i \in 1..n
      BY <1>1, <1>3, <3>1 DEF Upright, Stacked
    <3>2. CASE i = n + 1
      BY <1>1, <1>3, <1>4, <3>2
    <3> QED BY <1>1, <3>1, <3>2
  <2>2. gs[1].at = 1
    <3>1. fs # << >> /\ 1 \in 1..n
      BY <1>1 DEF PutOn
    <3> QED BY <1>3, <3>1 DEF Upright, Stacked
  <2>3. ASSUME NEW i \in 1..n + 1, NEW j \in 1..n + 1, i < j
        PROVE  gs[i].at + Own(gs[j]) <= gs[j].at
    <3>1. CASE j \in 1..n
      <4>1. i \in 1..n
        BY <1>1, <2>3, <3>1
      <4> QED BY <1>1, <1>3, <2>3, <3>1, <4>1 DEF Upright, Stacked
    <3>2. CASE j = n + 1
      <4>1. i \in 1..n
        BY <1>1, <2>3, <3>2
      <4>2. fs[i].at \in 1..m
        BY <1>1, <4>1 DEF Upright, Stacked
      <4> QED BY <1>1, <1>3, <1>4, <3>2, <4>1, <4>2
    <3> QED BY <1>1, <3>1, <3>2
  <2> QED BY <1>1, <1>3, <2>1, <2>2, <2>3 DEF Stacked
<1>6. Adjacent(gs)
  <2>1. ASSUME NEW i \in 2..n + 1 PROVE Fits(gs[i - 1], gs[i])
    <3>1. CASE i \in 2..n
      <4>1. i \in 1..n /\ i - 1 \in 1..n
        BY <1>1, <3>1
      <4> QED BY <1>1, <1>3, <3>1, <4>1 DEF Upright, Adjacent
    <3>2. CASE i = n + 1
      <4>1. i - 1 = n /\ n \in 1..n
        BY <1>1, <3>2
      <4> QED BY <1>1, <1>3, <3>2, <4>1 DEF PutOn
    <3> QED BY <1>1, <3>1, <3>2
  <2> QED BY <1>3, <2>1 DEF Adjacent
<1> QED BY <1>2, <1>5, <1>6 DEF Upright

LEMMA PlainExact ==
  ASSUME NEW fs, NEW ss, Upright(fs, ss), Exact(fs, ss), NEW f, PutOn(f, fs, ss),
         f.kind \notin Scoped,
         f.kind = "await" /\ fs[Len(fs)].got = << >> => ss[Len(ss)].policy = "Stay"
  PROVE  Exact(Append(fs, f), ss)
<1>1. PICK n, m : n \in Nat /\ m \in Nat /\ n = Len(fs) /\ m = Len(ss) /\ n > 0 /\ m > 0
  BY Sizes DEF PutOn
<1>2. PICK gs : gs = Append(fs, f)
  OBVIOUS
<1>3. /\ IsSeq(gs) /\ Len(gs) = n + 1 /\ gs[n + 1] = f
      /\ \A k \in 1..n : gs[k] = fs[k]
  BY <1>1, <1>2, Appends DEF Upright, Stacked
<1>4. f.at = m /\ Own(f) = 0 /\ f.kind \notin Blocks /\ f.kind \notin Scoped
  BY <1>1 DEF PutOn, Own, Scoped, Blocks
<1>5. fs[n].at = m /\ n \in 1..n
  BY <1>1 DEF Exact, Matched, PutOn
<1>6. \A i \in 2..n + 1 : (i \in 2..n /\ i \in 1..n /\ i - 1 \in 1..n) \/ (i = n + 1 /\ i - 1 = n)
  BY <1>1
<1>7. Matched(gs, ss)
  <2>1. \A i \in 2..n + 1 : gs[i].at = gs[i - 1].at + Own(gs[i])
    BY <1>1, <1>3, <1>4, <1>5, <1>6 DEF Exact, Matched
  <2>2. \A i \in 1..n + 1 : gs[i].kind \in Scoped => ss[gs[i].at].type = ScopeType(gs[i])
    <3>1. \A i \in 1..n + 1 : i \in 1..n \/ i = n + 1
      BY <1>1
    <3> QED BY <1>1, <1>3, <1>4, <3>1 DEF Exact, Matched
  <2> QED BY <1>1, <1>3, <1>4, <2>1, <2>2 DEF Matched
<1>8. Paused(gs, ss)
  <2>1. ASSUME NEW i \in 2..n + 1, gs[i].kind = "await", gs[i - 1].got = << >>
        PROVE  ss[gs[i - 1].at].policy = "Stay"
    <3>1. CASE i \in 2..n /\ i \in 1..n /\ i - 1 \in 1..n
      BY <1>1, <1>3, <2>1, <3>1 DEF Exact, Paused
    <3>2. CASE i = n + 1 /\ i - 1 = n
      BY <1>1, <1>3, <1>5, <2>1, <3>2
    <3> QED BY <1>6, <3>1, <3>2
  <2> QED BY <1>3, <2>1 DEF Paused
<1>9. ASSUME NEW i \in 1..n + 1 PROVE Tries(gs[i], ss)
  <2>1. CASE i \in 1..n
    BY <1>1, <1>3, <2>1 DEF Exact
  <2>2. CASE i = n + 1
    BY <1>3, <1>4, <2>2 DEF Tries
  <2> QED BY <1>1, <2>1, <2>2
<1> QED BY <1>2, <1>3, <1>7, <1>8, <1>9 DEF Exact

LEMMA PlainOwned ==
  ASSUME NEW fs, NEW ss, Upright(fs, ss), Owned(fs, ss), NEW f, f.kind \notin Scoped
  PROVE  Owned(Append(fs, f), ss)
<1>1. PICK n \in Nat : n = Len(fs)
  BY Lengths DEF Upright, Stacked
<1>2. PICK gs : gs = Append(fs, f)
  OBVIOUS
<1>3. Len(gs) = n + 1 /\ gs[n + 1] = f /\ \A k \in 1..n : gs[k] = fs[k]
  BY <1>1, <1>2, Appends DEF Upright, Stacked
<1>4. \A i \in 1..n + 1 : i \in 1..n \/ (i = n + 1 /\ gs[i].kind \notin Blocks)
  BY <1>1, <1>3 DEF Blocks, Scoped
<1> QED BY <1>1, <1>2, <1>3, <1>4 DEF Owned

LEMMA ScopedUpright ==
  ASSUME NEW fs, NEW ss, Upright(fs, ss), NEW f, PutOn(f, fs, ss), f.kind \in {"block", "call"},
         NEW zs, Pushed(zs, ss, ScopeType(f))
  PROVE  Upright(Append(fs, f), zs)
<1>1. PICK n, m : n \in Nat /\ m \in Nat /\ n = Len(fs) /\ m = Len(ss) /\ n > 0 /\ m > 0
  BY Sizes DEF PutOn
<1>2. PICK gs : gs = Append(fs, f)
  OBVIOUS
<1>3. /\ IsSeq(gs) /\ Len(gs) = n + 1 /\ gs[n + 1] = f /\ gs # << >>
      /\ \A k \in 1..n : gs[k] = fs[k]
  <2>1. /\ IsSeq(gs) /\ Len(gs) = n + 1 /\ gs[n + 1] = f
        /\ \A k \in 1..n : gs[k] = fs[k]
    BY <1>1, <1>2, Appends DEF Upright, Stacked
  <2> QED BY <1>1, <2>1, Lengths
<1>4. f.at = m + 1 /\ IsFrame(f) /\ Own(f) = 1 /\ f.kind # "program"
  BY <1>1 DEF PutOn, Own, Scoped
<1>5. /\ Len(zs) = m + 1 /\ \A k \in 1..m : zs[k] = ss[k]
      /\ zs[m + 1].type = ScopeType(f)
  BY <1>1 DEF Pushed, Scope
<1>6. IsScopes(zs)
  BY PushedScopes DEF Upright
<1>7. Stacked(gs, zs)
  <2>1. ASSUME NEW i \in 1..n + 1
        PROVE  /\ IsFrame(gs[i]) /\ gs[i].at \in 1..m + 1
               /\ gs[i].kind = "program" <=> i = 1
               /\ gs[i].kind = "call" => zs[gs[i].at].type = "Function"
    <3>1. CASE i \in 1..n
      <4>1. /\ IsFrame(fs[i]) /\ fs[i].at \in 1..m
            /\ fs[i].kind = "program" <=> i = 1
            /\ fs[i].kind = "call" => ss[fs[i].at].type = "Function"
        BY <1>1, <3>1 DEF Upright, Stacked
      <4>2. fs[i].at \in 1..m + 1 /\ zs[fs[i].at] = ss[fs[i].at] /\ gs[i] = fs[i]
        BY <1>1, <1>3, <1>5, <3>1, <4>1
      <4> QED BY <4>1, <4>2
    <3>2. CASE i = n + 1
      BY <1>1, <1>3, <1>4, <1>5, <3>2 DEF ScopeType
    <3> QED BY <1>1, <3>1, <3>2
  <2>2. gs[1].at = 1
    <3>1. fs # << >> /\ 1 \in 1..n
      BY <1>1 DEF PutOn
    <3> QED BY <1>3, <3>1 DEF Upright, Stacked
  <2>3. ASSUME NEW i \in 1..n + 1, NEW j \in 1..n + 1, i < j
        PROVE  gs[i].at + Own(gs[j]) <= gs[j].at
    <3>1. CASE j \in 1..n
      <4>1. i \in 1..n
        BY <1>1, <2>3, <3>1
      <4> QED BY <1>1, <1>3, <2>3, <3>1, <4>1 DEF Upright, Stacked
    <3>2. CASE j = n + 1
      <4>1. i \in 1..n
        BY <1>1, <2>3, <3>2
      <4>2. fs[i].at \in 1..m
        BY <1>1, <4>1 DEF Upright, Stacked
      <4> QED BY <1>1, <1>3, <1>4, <3>2, <4>1, <4>2
    <3> QED BY <1>1, <3>1, <3>2
  <2> QED BY <1>1, <1>3, <1>5, <2>1, <2>2, <2>3 DEF Stacked
<1>8. Adjacent(gs)
  <2>1. ASSUME NEW i \in 2..n + 1 PROVE Fits(gs[i - 1], gs[i])
    <3>1. CASE i \in 2..n
      <4>1. i \in 1..n /\ i - 1 \in 1..n
        BY <1>1, <3>1
      <4> QED BY <1>1, <1>3, <3>1, <4>1 DEF Upright, Adjacent
    <3>2. CASE i = n + 1
      <4>1. i - 1 = n /\ n \in 1..n
        BY <1>1, <3>2
      <4> QED BY <1>1, <1>3, <3>2, <4>1 DEF PutOn
    <3> QED BY <1>1, <3>1, <3>2
  <2> QED BY <1>3, <2>1 DEF Adjacent
<1> QED BY <1>2, <1>6, <1>7, <1>8 DEF Upright

(* A block starts only where its function has not returned.                *)
LEMMA ScopedExact ==
  ASSUME NEW fs, NEW ss, Upright(fs, ss), Exact(fs, ss), NEW f, PutOn(f, fs, ss),
         f.kind \in {"block", "call"}, f.kind = "block" => f.got = << >>,
         NEW zs, Pushed(zs, ss, ScopeType(f)),
         f.kind = "block" => ss[ss[Len(ss)].home].value = None
  PROVE  Exact(Append(fs, f), zs)
<1>1. PICK n, m : n \in Nat /\ m \in Nat /\ n = Len(fs) /\ m = Len(ss) /\ n > 0 /\ m > 0
  BY Sizes DEF PutOn
<1>2. PICK gs : gs = Append(fs, f)
  OBVIOUS
<1>3. /\ IsSeq(gs) /\ Len(gs) = n + 1 /\ gs[n + 1] = f
      /\ \A k \in 1..n : gs[k] = fs[k]
  BY <1>1, <1>2, Appends DEF Upright, Stacked
<1>4. /\ f.at = m + 1 /\ Own(f) = 1 /\ f.kind # "await"
      /\ f.kind = "block" => f.type # "Function"
  BY <1>1 DEF PutOn, Own, Scoped, Blocks, IsFrame
<1>5. /\ Len(zs) = m + 1 /\ \A k \in 1..m : zs[k] = ss[k]
      /\ zs[m + 1].type = ScopeType(f) /\ zs[m + 1].value = None
      /\ zs[m + 1].home = IF ScopeType(f) = "Function" THEN m + 1 ELSE ss[m].home
  BY <1>1 DEF Pushed, Scope
<1>6. fs[n].at = m /\ n \in 1..n /\ m \in 1..m
  BY <1>1 DEF Exact, Matched, PutOn
<1>7. \A i \in 2..n + 1 : (i \in 2..n /\ i \in 1..n /\ i - 1 \in 1..n) \/ (i = n + 1 /\ i - 1 = n)
  BY <1>1
<1>8. \A i \in 1..n : fs[i].at \in 1..m
  BY <1>1 DEF Upright, Stacked
<1>9. \A k \in 1..m : ss[k].home \in 1..m
  BY <1>1 DEF Upright, IsScopes
<1>10. f.kind = "call" <=> ScopeType(f) = "Function"
  BY <1>4 DEF ScopeType
<1>11. Matched(gs, zs)
  <2>1. \A i \in 2..n + 1 : gs[i].at = gs[i - 1].at + Own(gs[i])
    BY <1>1, <1>3, <1>4, <1>6, <1>7 DEF Exact, Matched
  <2>2. ASSUME NEW i \in 1..n + 1, gs[i].kind \in Scoped PROVE zs[gs[i].at].type = ScopeType(gs[i])
    <3>1. CASE i \in 1..n
      <4>1. zs[fs[i].at] = ss[fs[i].at] /\ gs[i] = fs[i]
        BY <1>3, <1>5, <1>8, <3>1
      <4> QED BY <1>1, <2>2, <3>1, <4>1 DEF Exact, Matched
    <3>2. CASE i = n + 1
      BY <1>3, <1>4, <1>5, <3>2
    <3> QED BY <1>1, <3>1, <3>2
  <2> QED BY <1>1, <1>3, <1>4, <1>5, <2>1, <2>2 DEF Matched
<1>12. Left(zs)
  <2>1. ASSUME NEW k \in 1..m + 1, k = m + 1 \/ zs[k + 1].type = "Function",
               zs[zs[k].home].value # None
        PROVE  zs[k].policy # "Stay"
    <3>1. CASE k = m + 1
      <4>1. CASE f.kind = "call"
        BY <1>5, <1>10, <2>1, <3>1, <4>1
      <4>2. CASE f.kind = "block"
        <5>1. zs[k].home = ss[m].home /\ zs[ss[m].home] = ss[ss[m].home]
          BY <1>5, <1>6, <1>9, <1>10, <3>1, <4>2
        <5> QED BY <1>1, <2>1, <4>2, <5>1
      <4> QED BY <4>1, <4>2
    <3>2. CASE k \in 1..m
      <4>1. zs[k] = ss[k] /\ zs[ss[k].home] = ss[ss[k].home]
        BY <1>5, <1>9, <3>2
      <4>2. k = m \/ ss[k + 1].type = "Function"
        <5>1. k = m \/ k + 1 \in 1..m
          BY <1>1, <3>2
        <5> QED BY <1>1, <1>5, <2>1, <3>2, <5>1
      <4> QED BY <1>1, <2>1, <3>2, <4>1, <4>2 DEF Exact, Left
    <3> QED BY <1>1, <3>1, <3>2
  <2> QED BY <1>5, <2>1 DEF Left
<1>13. Paused(gs, zs)
  <2>1. ASSUME NEW i \in 2..n + 1, gs[i].kind = "await", gs[i - 1].got = << >>
        PROVE  zs[gs[i - 1].at].policy = "Stay"
    <3>1. i \in 2..n /\ i \in 1..n /\ i - 1 \in 1..n
      BY <1>3, <1>4, <1>7, <2>1
    <3>2. gs[i] = fs[i] /\ gs[i - 1] = fs[i - 1] /\ zs[fs[i - 1].at] = ss[fs[i - 1].at]
      BY <1>3, <1>5, <1>8, <3>1
    <3> QED BY <1>1, <2>1, <3>1, <3>2 DEF Exact, Paused
  <2> QED BY <1>3, <2>1 DEF Paused
<1>14. ASSUME NEW i \in 1..n + 1 PROVE Tries(gs[i], zs)
  <2>1. CASE i \in 1..n
    <3>1. Tries(fs[i], ss) /\ gs[i] = fs[i]
      BY <1>1, <1>3, <2>1 DEF Exact
    <3>2. zs[zs[fs[i].at].home].value = ss[ss[fs[i].at].home].value
      BY <1>5, <1>8, <1>9, <2>1
    <3> QED BY <3>1, <3>2 DEF Tries
  <2>2. CASE i = n + 1
    BY <1>3, <2>2 DEF Tries, Blocks
  <2> QED BY <1>1, <2>1, <2>2
<1> QED BY <1>2, <1>3, <1>11, <1>12, <1>13, <1>14 DEF Exact

LEMMA ScopedOwned ==
  ASSUME NEW fs, NEW ss, Upright(fs, ss), Owned(fs, ss), NEW f, f.kind \in {"block", "call"},
         f.at = Len(ss) + 1, f.kind = "block" => f.pc = 1,
         NEW zs, NEW type, Pushed(zs, ss, type)
  PROVE  Owned(Append(fs, f), zs)
<1>1. PICK n, m : n \in Nat /\ m \in Nat /\ n = Len(fs) /\ m = Len(ss)
  BY Lengths DEF Upright, Stacked, IsScopes
<1>2. PICK gs : gs = Append(fs, f)
  OBVIOUS
<1>3. Len(gs) = n + 1 /\ gs[n + 1] = f /\ \A k \in 1..n : gs[k] = fs[k]
  BY <1>1, <1>2, Appends DEF Upright, Stacked
<1>4. /\ \A k \in 1..m : zs[k] = ss[k]
      /\ zs[m + 1].names = << >>
  BY <1>1 DEF Pushed, Scope, NoNames
<1>5. ASSUME NEW i \in 1..n + 1, gs[i].kind \in Blocks
      PROVE  DOMAIN zs[gs[i].at].names = Declared(gs[i].block, gs[i].pc)
  <2>1. CASE i \in 1..n
    <3>1. fs[i].at \in 1..m
      BY <1>1, <2>1 DEF Upright, Stacked
    <3> QED BY <1>1, <1>3, <1>4, <1>5, <2>1, <3>1 DEF Owned
  <2>2. CASE i = n + 1
    <3>1. f.pc = 1
      BY <1>3, <1>5, <2>2 DEF Blocks
    <3>2. Declared(f.block, f.pc) = {}
      BY <3>1 DEF Declared
    <3>3. DOMAIN zs[m + 1].names = {}
      BY <1>4
    <3> QED BY <1>1, <1>3, <2>2, <3>2, <3>3
  <2> QED BY <1>1, <2>1, <2>2
<1> QED BY <1>2, <1>3, <1>5 DEF Owned

------------------------------------------------------------------------------
(* Elementary steps: frames that go                                        *)

LEMMA FrontUpright ==
  ASSUME NEW fs, NEW ss, Upright(fs, ss), fs # << >>
  PROVE  Upright(Front(fs), ss)
<1>1. PICK n : n \in Nat /\ n = Len(fs) /\ n > 0
  BY Sizes
<1>2. PICK gs : gs = Front(fs)
  OBVIOUS
<1>3. IsSeq(gs) /\ Len(gs) = n - 1 /\ \A k \in 1..n - 1 : gs[k] = fs[k]
  BY <1>1, <1>2, Fronts DEF Upright, Stacked
<1>4. \A i \in 1..n - 1 : i \in 1..n
  BY <1>1
<1>5. Stacked(gs, ss)
  <2>1. \A i \in 1..n - 1 :
          /\ IsFrame(gs[i]) /\ gs[i].at \in 1..Len(ss)
          /\ gs[i].kind = "program" <=> i = 1
          /\ gs[i].kind = "call" => ss[gs[i].at].type = "Function"
    BY <1>1, <1>3, <1>4 DEF Upright, Stacked
  <2>2. gs # << >> => gs[1].at = 1
    <3>1. gs # << >> => 1 \in 1..n - 1
      BY <1>1, <1>3, Lengths
    <3> QED BY <1>3, <3>1 DEF Upright, Stacked
  <2>3. \A i, j \in 1..n - 1 : i < j => gs[i].at + Own(gs[j]) <= gs[j].at
    BY <1>1, <1>3, <1>4 DEF Upright, Stacked
  <2> QED BY <1>1, <1>3, <2>1, <2>2, <2>3 DEF Stacked
<1>6. Adjacent(gs)
  <2>1. ASSUME NEW i \in 2..n - 1 PROVE Fits(gs[i - 1], gs[i])
    <3>1. i \in 2..n /\ i \in 1..n - 1 /\ i - 1 \in 1..n - 1
      BY <1>1
    <3> QED BY <1>1, <1>3, <3>1 DEF Upright, Adjacent
  <2> QED BY <1>3, <2>1 DEF Adjacent
<1> QED BY <1>2, <1>5, <1>6 DEF Upright

LEMMA FrontExact ==
  ASSUME NEW fs, NEW ss, Upright(fs, ss), Exact(fs, ss), fs # << >>,
         fs[Len(fs)].kind \notin Scoped
  PROVE  Exact(Front(fs), ss)
<1>1. PICK n : n \in Nat /\ n = Len(fs) /\ n > 0
  BY Sizes
<1>2. PICK gs : gs = Front(fs)
  OBVIOUS
<1>3. IsSeq(gs) /\ Len(gs) = n - 1 /\ \A k \in 1..n - 1 : gs[k] = fs[k]
  BY <1>1, <1>2, Fronts DEF Upright, Stacked
<1>4. \A i \in 1..n - 1 : i \in 1..n
  BY <1>1
<1>5. n \in 2..n /\ n - 1 \in 1..n - 1
  <2>1. n # 1
    BY <1>1 DEF Upright, Stacked, Scoped
  <2> QED BY <1>1, <2>1
<1>6. \A i \in 2..n - 1 : i \in 2..n /\ i \in 1..n - 1 /\ i - 1 \in 1..n - 1
  BY <1>1
<1>7. Matched(gs, ss)
  <2>1. gs[n - 1].at = Len(ss)
    <3>1. fs[n].at = fs[n - 1].at + Own(fs[n]) /\ fs[n].at = Len(ss) /\ Own(fs[n]) = 0
      BY <1>1, <1>5 DEF Exact, Matched, Own
    <3>2. fs[n - 1].at \in 1..Len(ss) /\ Len(ss) \in Nat
      BY <1>1, <1>4, <1>5, Sizes DEF Upright, Stacked
    <3> QED BY <1>3, <1>5, <3>1, <3>2
  <2>2. \A i \in 2..n - 1 : gs[i].at = gs[i - 1].at + Own(gs[i])
    BY <1>1, <1>3, <1>6 DEF Exact, Matched
  <2>3. \A i \in 1..n - 1 : gs[i].kind \in Scoped => ss[gs[i].at].type = ScopeType(gs[i])
    BY <1>1, <1>3, <1>4 DEF Exact, Matched
  <2> QED BY <1>3, <2>1, <2>2, <2>3 DEF Matched
<1>8. Paused(gs, ss)
  <2>1. \A i \in 2..n - 1 : gs[i].kind = "await" /\ gs[i - 1].got = << >>
                              => ss[gs[i - 1].at].policy = "Stay"
    BY <1>1, <1>3, <1>6 DEF Exact, Paused
  <2> QED BY <1>3, <2>1 DEF Paused
<1>9. \A i \in 1..n - 1 : Tries(gs[i], ss)
  BY <1>1, <1>3, <1>4 DEF Exact
<1> QED BY <1>2, <1>3, <1>7, <1>8, <1>9 DEF Exact

LEMMA FrontOwned ==
  ASSUME NEW fs, NEW ss, Upright(fs, ss), fs # << >>, Owned(fs, ss)
  PROVE  Owned(Front(fs), ss)
<1>1. PICK n : n \in Nat /\ n = Len(fs) /\ n > 0
  BY Sizes
<1>2. PICK gs : gs = Front(fs)
  OBVIOUS
<1>3. Len(gs) = n - 1 /\ \A k \in 1..n - 1 : gs[k] = fs[k]
  BY <1>1, <1>2, Fronts DEF Upright, Stacked
<1>4. \A i \in 1..n - 1 : i \in 1..n
  BY <1>1
<1> QED BY <1>1, <1>2, <1>3, <1>4 DEF Owned

(* The top frame goes with its scope.                                      *)
Leaves(fs, zs, ss) ==
  /\ fs # << >> /\ fs[Len(fs)].kind \in {"block", "call"} /\ Popped(zs, ss)

(* The frames below one that goes have their scopes below its own.         *)
LEMMA BelowTop ==
  ASSUME NEW fs, NEW ss, Upright(fs, ss), NEW zs, Leaves(fs, zs, ss)
  PROVE  /\ Len(fs) \in Nat /\ Len(ss) \in Nat /\ Len(fs) > 1 /\ Len(ss) > 1
         /\ \A i \in 1..Len(fs) - 1 : fs[i].at \in 1..Len(ss) - 1 /\ fs[i].at < fs[Len(fs)].at
<1>1. PICK n, m : n \in Nat /\ m \in Nat /\ n = Len(fs) /\ m = Len(ss) /\ n > 0 /\ m > 0
  BY Sizes DEF Leaves
<1>2. n \in 1..n /\ n # 1 /\ fs[n].at \in 1..m /\ Own(fs[n]) = 1
  BY <1>1 DEF Leaves, Upright, Stacked, Own, Scoped
<1>3. ASSUME NEW i \in 1..n - 1 PROVE fs[i].at \in 1..m - 1 /\ fs[i].at < fs[n].at
  <2>1. i \in 1..n /\ i < n
    BY <1>1
  <2>2. fs[i].at \in 1..m /\ fs[i].at + 1 <= fs[n].at
    BY <1>1, <1>2, <2>1 DEF Upright, Stacked
  <2> QED BY <1>1, <1>2, <2>2
<1>4. 1 \in 1..n - 1
  BY <1>1, <1>2
<1>5. m > 1
  BY <1>1, <1>3, <1>4
<1> QED BY <1>1, <1>2, <1>3, <1>5

LEMMA LeaveUpright ==
  ASSUME NEW fs, NEW ss, Upright(fs, ss), NEW zs, Leaves(fs, zs, ss)
  PROVE  Upright(Front(fs), zs)
<1>1. PICK n, m : /\ n \in Nat /\ m \in Nat /\ n = Len(fs) /\ m = Len(ss) /\ n > 1 /\ m > 1
                  /\ \A i \in 1..n - 1 : fs[i].at \in 1..m - 1
  BY BelowTop
<1>2. PICK gs : gs = Front(fs)
  OBVIOUS
<1>3. IsSeq(gs) /\ Len(gs) = n - 1 /\ \A k \in 1..n - 1 : gs[k] = fs[k]
  BY <1>1, <1>2, Fronts DEF Upright, Stacked, Leaves
<1>4. Upright(gs, ss)
  BY <1>2, FrontUpright DEF Leaves
<1>5. IsScopes(zs) /\ Len(zs) = m - 1 /\ \A k \in 1..m - 1 : zs[k].type = ss[k].type
  BY <1>1, PoppedScopes DEF Upright, Leaves, Popped
<1>6. \A i \in 1..n - 1 : gs[i].at \in 1..m - 1
  BY <1>1, <1>3
<1>7. Stacked(gs, zs)
  BY <1>3, <1>4, <1>5, <1>6 DEF Upright, Stacked
<1> QED BY <1>2, <1>4, <1>5, <1>7 DEF Upright

LEMMA LeaveExact ==
  ASSUME NEW fs, NEW ss, Upright(fs, ss), Exact(fs, ss), NEW zs, Leaves(fs, zs, ss)
  PROVE  Exact(Front(fs), zs)
<1>1. PICK n, m : /\ n \in Nat /\ m \in Nat /\ n = Len(fs) /\ m = Len(ss) /\ n > 1 /\ m > 1
                  /\ \A i \in 1..n - 1 : fs[i].at \in 1..m - 1
  BY BelowTop
<1>2. PICK gs : gs = Front(fs)
  OBVIOUS
<1>3. IsSeq(gs) /\ Len(gs) = n - 1 /\ \A k \in 1..n - 1 : gs[k] = fs[k]
  BY <1>1, <1>2, Fronts DEF Upright, Stacked, Leaves
<1>4. /\ Len(zs) = m - 1
      /\ \A k \in 1..m - 1 :
           /\ zs[k].type = ss[k].type /\ zs[k].home = ss[k].home /\ zs[k].value = ss[k].value
           /\ zs[k].policy # ss[k].policy => k = m - 1
           /\ k = m - 1 /\ ss[m].policy # "Stay" /\ ss[m].type # "Function" =>
                zs[k].policy = ss[m].policy
           /\ k = m - 1 /\ (ss[m].policy = "Stay" \/ ss[m].type = "Function") =>
                zs[k].policy = ss[k].policy
  BY <1>1 DEF Leaves, Popped
<1>5. /\ n \in 2..n /\ n \in 1..n /\ n - 1 \in 1..n - 1 /\ m - 1 \in 1..m - 1
      /\ m \in 1..m /\ m \in 2..m /\ (m - 1) + 1 = m
      /\ \A i \in 1..n - 1 : i \in 1..n /\ i < n
      /\ \A k \in 1..m - 1 : k \in 1..m
      /\ \A i \in 2..n - 1 : i \in 2..n /\ i \in 1..n - 1 /\ i - 1 \in 1..n - 1
  BY <1>1
<1>6. /\ fs[n].at = m /\ ss[m].type = ScopeType(fs[n]) /\ fs[n].kind \in {"block", "call"}
      /\ fs[n - 1].at = m - 1
  <2>1. /\ fs[n].at = m /\ ss[m].type = ScopeType(fs[n]) /\ fs[n].kind \in {"block", "call"}
        /\ fs[n].at = fs[n - 1].at + 1
    BY <1>1, <1>5 DEF Leaves, Exact, Matched, Own, Scoped
  <2> QED BY <1>1, <1>5, <2>1
<1>7. /\ \A k \in 1..m : ss[k].home \in 1..k
      /\ ss[m].type # "Function" => ss[m].home = ss[m - 1].home
  BY <1>1, <1>5 DEF Upright, IsScopes
<1>8. \A k \in 1..m - 1 : ss[k].home \in 1..m - 1
  BY <1>1, <1>5, <1>7
<1>9. Matched(gs, zs)
  <2>1. gs[n - 1].at = m - 1
    BY <1>3, <1>5, <1>6
  <2>2. \A i \in 2..n - 1 : gs[i].at = gs[i - 1].at + Own(gs[i])
    BY <1>1, <1>3, <1>5 DEF Exact, Matched
  <2>3. ASSUME NEW i \in 1..n - 1, gs[i].kind \in Scoped
        PROVE  zs[gs[i].at].type = ScopeType(gs[i])
    <3>1. gs[i] = fs[i] /\ fs[i].at \in 1..m - 1 /\ i \in 1..n
      BY <1>1, <1>3, <1>5
    <3>2. ss[fs[i].at].type = ScopeType(fs[i])
      BY <1>1, <2>3, <3>1 DEF Exact, Matched
    <3> QED BY <1>4, <3>1, <3>2
  <2> QED BY <1>3, <1>4, <2>1, <2>2, <2>3 DEF Matched
<1>10. Left(zs)
  <2>1. ASSUME NEW k \in 1..m - 1, k = m - 1 \/ zs[k + 1].type = "Function",
               zs[zs[k].home].value # None
        PROVE  zs[k].policy # "Stay"
    <3>1. ss[ss[k].home].value # None
      BY <1>4, <1>8, <2>1
    <3>2. CASE k # m - 1
      <4>1. k + 1 \in 1..m - 1
        BY <1>1, <3>2
      <4>2. ss[k + 1].type = "Function" /\ zs[k].policy = ss[k].policy
        BY <1>4, <2>1, <3>2, <4>1
      <4>3. ss[k].policy # "Stay"
        BY <1>1, <1>5, <3>1, <4>2 DEF Exact, Left
      <4> QED BY <4>2, <4>3
    <3>3. CASE k = m - 1 /\ ss[m].type = "Function"
      <4>1. ss[k].policy # "Stay"
        BY <1>1, <1>5, <3>1, <3>3 DEF Exact, Left
      <4> QED BY <1>4, <3>3, <4>1
    <3>4. CASE k = m - 1 /\ ss[m].type # "Function"
      <4>1. ss[m].policy # "Stay"
        BY <1>1, <1>5, <1>7, <3>1, <3>4 DEF Exact, Left
      <4> QED BY <1>4, <3>4, <4>1
    <3> QED BY <3>2, <3>3, <3>4
  <2> QED BY <1>4, <2>1 DEF Left
<1>11. Paused(gs, zs)
  <2>1. ASSUME NEW i \in 2..n - 1, gs[i].kind = "await", gs[i - 1].got = << >>
        PROVE  zs[gs[i - 1].at].policy = "Stay"
    <3>1. i \in 2..n /\ i \in 1..n /\ i - 1 \in 1..n /\ i - 1 < n /\ (i - 1) + 1 = i
      BY <1>1
    <3>2. fs[i].kind = "await" /\ fs[i - 1].got = << >> /\ gs[i - 1] = fs[i - 1]
      BY <1>3, <1>5, <2>1
    <3>3. ss[fs[i - 1].at].policy = "Stay" /\ fs[i - 1].at \in 1..m - 1
      BY <1>1, <1>5, <3>1, <3>2 DEF Exact, Paused
    <3>4. fs[i - 1].kind \in Blocks
      BY <1>1, <3>1, <3>2 DEF Upright, Adjacent, Fits
    <3>5. CASE fs[n].kind = "call"
      BY <1>4, <1>6, <3>2, <3>3, <3>5 DEF ScopeType
    <3>6. CASE fs[n].kind = "block"
      <4>1. (i - 1) + 2 \in 1..n /\ (i - 1) + 2 < n /\ fs[(i - 1) + 2].kind = "call"
        BY <1>1, <1>5, <3>1, <3>2, <3>4, <3>6, WaitsForCall DEF Blocks
      <4>2. fs[i - 1].at + 1 <= fs[(i - 1) + 2].at /\ fs[(i - 1) + 2].at \in 1..m - 1
        <5>1. i - 1 < (i - 1) + 2 /\ (i - 1) + 2 \in 1..n - 1
          BY <1>1, <4>1
        <5> QED BY <1>1, <3>1, <4>1, <5>1 DEF Upright, Stacked, Own, Scoped
      <4>3. fs[i - 1].at # m - 1
        BY <1>1, <3>3, <4>2
      <4> QED BY <1>4, <3>2, <3>3, <4>3
    <3> QED BY <1>6, <3>5, <3>6
  <2> QED BY <1>3, <2>1 DEF Paused
<1>12. ASSUME NEW i \in 1..n - 1 PROVE Tries(gs[i], zs)
  <2>1. fs[i].at \in 1..m - 1 /\ Tries(fs[i], ss) /\ gs[i] = fs[i]
    BY <1>1, <1>3, <1>5 DEF Exact
  <2>2. zs[zs[fs[i].at].home].value = ss[ss[fs[i].at].home].value
    BY <1>4, <1>8, <2>1
  <2> QED BY <2>1, <2>2 DEF Tries
<1> QED BY <1>2, <1>3, <1>9, <1>10, <1>11, <1>12 DEF Exact

LEMMA LeaveOwned ==
  ASSUME NEW fs, NEW ss, Upright(fs, ss), Owned(fs, ss), NEW zs, Leaves(fs, zs, ss)
  PROVE  Owned(Front(fs), zs)
<1>1. PICK n, m : /\ n \in Nat /\ m \in Nat /\ n = Len(fs) /\ m = Len(ss) /\ n > 1 /\ m > 1
                  /\ \A i \in 1..n - 1 : fs[i].at \in 1..m - 1
  BY BelowTop
<1>2. PICK gs : gs = Front(fs)
  OBVIOUS
<1>3. Len(gs) = n - 1 /\ \A k \in 1..n - 1 : gs[k] = fs[k]
  BY <1>1, <1>2, Fronts DEF Upright, Stacked, Leaves
<1>4. /\ \A k \in 1..m - 1 : zs[k].names = ss[k].names
      /\ \A i \in 1..n - 1 : i \in 1..n
  BY <1>1 DEF Leaves, Popped
<1> QED BY <1>1, <1>2, <1>3, <1>4 DEF Owned

------------------------------------------------------------------------------
(* Elementary steps: all parts of the invariant together                   *)

LEMMA Domains ==
  ASSUME NEW s, IsSeq(s)
  PROVE  DOMAIN s = 1..Len(s)
  BY DEF IsSeq

(* The function of the current scope has not returned.                     *)
NoValue(ss) == ss[ss[Len(ss)].home].value = None

LEMMA StayHasNoValue ==
  ASSUME NEW ss, IsScopes(ss), Left(ss), Current(ss).policy = "Stay"
  PROVE  NoValue(ss)
<1>1. Len(ss) \in 1..Len(ss) /\ Current(ss) = ss[Len(ss)]
  BY ScopesFacts
<1> QED BY <1>1 DEF Left, NoValue

LEMMA TouchGood ==
  ASSUME NEW fs, NEW ss, NEW c, Good(fs, ss, c), NEW gs, Touched(gs, fs),
         ~ c => Tries(gs[Len(fs)], ss),
         fs[Len(fs)].kind \in Blocks =>
           Declared(gs[Len(fs)].block, gs[Len(fs)].pc) = Declared(fs[Len(fs)].block, fs[Len(fs)].pc)
  PROVE  Good(gs, ss, c)
  BY TouchUpright, TouchExact, TouchOwned DEF Good

LEMMA ReturnGood ==
  ASSUME NEW fs, NEW ss, NEW c, Good(fs, ss, c), fs # << >>,
         fs[Len(fs)].kind \in Blocks,
         fs[Len(fs)].got # << >> => \E k \in 1..Len(fs[Len(fs)].got) : fs[Len(fs)].got[k] = "error",
         NEW v
  PROVE  Good(fs, ReturnValue(ss, v), c)
<1>1. PICK zs : zs = ReturnValue(ss, v)
  OBVIOUS
<1>2. Returned(zs, ss, v)
  BY <1>1, ReturnIs DEF Good, Upright
<1>3. Upright(fs, zs)
  BY <1>2, ShapedUpright DEF Good, Returned
<1>4. ~ c => Exact(fs, zs)
  BY <1>2, ReturnExact DEF Good
<1>5. \A k \in 1..Len(ss) : zs[k].names = ss[k].names
  BY <1>2 DEF Returned
<1>6. ~ c => Owned(fs, zs)
  BY <1>5, SameNamesOwned DEF Good
<1> QED BY <1>1, <1>3, <1>4, <1>6 DEF Good

LEMMA BreakGood ==
  ASSUME NEW fs, NEW ss, NEW c, Good(fs, ss, c), fs # << >>, fs[Len(fs)].kind \in Blocks
  PROVE  Good(fs, BreakLoop(ss), c)
<1>1. PICK zs : zs = BreakLoop(ss)
  OBVIOUS
<1>2. Broke(zs, ss)
  BY <1>1, BreakIs DEF Good, Upright
<1>3. Upright(fs, zs)
  BY <1>2, ShapedUpright DEF Good, Broke
<1>4. ~ c => Exact(fs, zs)
  BY <1>2, BreakExact DEF Good
<1>5. \A k \in 1..Len(ss) : zs[k].names = ss[k].names
  BY <1>2 DEF Broke
<1>6. ~ c => Owned(fs, zs)
  BY <1>5, SameNamesOwned DEF Good
<1> QED BY <1>1, <1>3, <1>4, <1>6 DEF Good

LEMMA PlainGood ==
  ASSUME NEW fs, NEW ss, NEW c, Good(fs, ss, c), NEW f, PutOn(f, fs, ss), f.kind \notin Scoped,
         ~ c /\ f.kind = "await" /\ fs[Len(fs)].got = << >> => Current(ss).policy = "Stay"
  PROVE  Good(Append(fs, f), ss, c) /\ Append(fs, f) # << >>
<1>1. Current(ss) = ss[Len(ss)]
  BY ScopesFacts DEF Good, Upright
<1>2. PICK gs : gs = Append(fs, f)
  OBVIOUS
<1>3. Upright(gs, ss)
  BY <1>2, PlainUpright DEF Good
<1>4. ~ c => Exact(gs, ss)
  BY <1>1, <1>2, PlainExact DEF Good
<1>5. ~ c => Owned(gs, ss)
  BY <1>2, PlainOwned DEF Good
<1>6. IsSeq(gs) /\ Len(gs) = Len(fs) + 1 /\ Len(fs) \in Nat
  BY <1>2, Appends DEF Good, Upright, Stacked
<1>7. gs # << >>
  BY <1>6, Lengths
<1> QED BY <1>2, <1>3, <1>4, <1>5, <1>7 DEF Good

LEMMA ScopedGood ==
  ASSUME NEW fs, NEW ss, NEW c, Good(fs, ss, c), NEW f, PutOn(f, fs, ss),
         f.kind \in {"block", "call"}, f.kind = "block" => f.got = << >> /\ f.pc = 1,
         ~ c /\ f.kind = "block" => NoValue(ss)
  PROVE  Good(Append(fs, f), Push(ss, ScopeType(f)), c) /\ Append(fs, f) # << >>
<1>1. PICK gs, zs : gs = Append(fs, f) /\ zs = Push(ss, ScopeType(f))
  OBVIOUS
<1>2. Pushed(zs, ss, ScopeType(f))
  BY <1>1, PushIs DEF Good, Upright
<1>3. Upright(gs, zs)
  BY <1>1, <1>2, ScopedUpright DEF Good
<1>4. ~ c => Exact(gs, zs)
  BY <1>1, <1>2, ScopedExact DEF Good, NoValue
<1>5. ~ c => Owned(gs, zs)
  <2>1. f.at = Len(ss) + 1
    BY DEF PutOn, Own, Scoped
  <2> QED BY <1>1, <1>2, <2>1, ScopedOwned DEF Good
<1>6. IsSeq(gs) /\ Len(gs) = Len(fs) + 1 /\ Len(fs) \in Nat
  BY <1>1, Appends DEF Good, Upright, Stacked
<1>7. gs # << >>
  BY <1>6, Lengths
<1> QED BY <1>1, <1>3, <1>4, <1>5, <1>7 DEF Good

LEMMA FrontGood ==
  ASSUME NEW fs, NEW ss, NEW c, Good(fs, ss, c), fs # << >>, fs[Len(fs)].kind \notin Scoped
  PROVE  Good(Front(fs), ss, c)
  BY FrontUpright, FrontExact, FrontOwned DEF Good

LEMMA LeaveGood ==
  ASSUME NEW fs, NEW ss, NEW c, Good(fs, ss, c), fs # << >>, fs[Len(fs)].kind \in {"block", "call"}
  PROVE  Good(Front(fs), Pop(ss), c)
<1>1. PICK zs : zs = Pop(ss)
  OBVIOUS
<1>2. Leaves(fs, zs, ss)
  BY <1>1, PopIs DEF Good, Upright, Leaves
<1> QED BY <1>1, <1>2, LeaveUpright, LeaveExact, LeaveOwned DEF Good

------------------------------------------------------------------------------
(* Elementary steps: what the actions make of the frames                   *)

(* The block on top gets the value of a part.                              *)
GotOn(fs, kind) == [fs EXCEPT ![Len(fs)].got = Append(@, kind)]

LEMMA GotGood ==
  ASSUME NEW fs, NEW ss, NEW c, Good(fs, ss, c), fs # << >>,
         fs[Len(fs)].kind \in Blocks, ~ c /\ fs[Len(fs)].got = << >> => NoValue(ss),
         NEW kind, NEW gs, gs = GotOn(fs, kind)
  PROVE  /\ Good(gs, ss, c) /\ gs # << >> /\ Len(gs) = Len(fs)
         /\ gs[Len(fs)].kind \in Blocks
         /\ \E k \in 1..Len(gs[Len(fs)].got) : gs[Len(fs)].got[k] = kind
<1>1. PICK n : /\ n \in Nat /\ n = Len(fs) /\ n > 0 /\ n \in 1..n /\ IsSeq(fs)
               /\ IsFrame(fs[n])
  BY FramesFacts DEF Good, Upright
<1>2. PICK got, t : /\ got = Append(fs[n].got, kind) /\ t = [fs[n] EXCEPT !.got = got]
  OBVIOUS
<1>3. PICK us : us = With(fs, n, t)
  OBVIOUS
<1>4. us = gs
  BY <1>1, <1>2, <1>3 DEF With, GotOn
<1>5. IsSeq(us) /\ Len(us) = n /\ us[n] = t /\ \A k \in 1..n : k # n => us[k] = fs[k]
  BY <1>1, <1>3, Sets
<1>6. /\ {"kind", "at", "type", "block", "pc", "got"} \subseteq DOMAIN fs[n]
      /\ fs[n].pc \in Nat \ {0} /\ IsSeq(fs[n].got)
      /\ fs[n].kind = "block" => fs[n].type # "Function"
  BY <1>1 DEF IsFrame
<1>7. /\ {"kind", "at", "type", "block", "pc", "got"} \subseteq DOMAIN t
      /\ t.kind = fs[n].kind /\ t.at = fs[n].at /\ t.type = fs[n].type
      /\ t.block = fs[n].block /\ t.pc = fs[n].pc /\ t.got = got
  BY <1>2, <1>6
<1>8. /\ IsSeq(got) /\ Len(got) = Len(fs[n].got) + 1 /\ Len(fs[n].got) \in Nat
      /\ got[Len(fs[n].got) + 1] = kind
      /\ \A k \in 1..Len(fs[n].got) : got[k] = fs[n].got[k]
  BY <1>2, <1>6, Appends
<1>9. IsFrame(t)
  BY <1>6, <1>7, <1>8 DEF IsFrame
<1>10. Touched(us, fs)
  <2>1. \A i \in 1..n : IsFrame(fs[i])
    BY <1>1 DEF Good, Upright, Stacked
  <2> QED BY <1>1, <1>5, <1>7, <1>9, <2>1 DEF Touched
<1>11. ASSUME ~ c PROVE Tries(t, ss)
  <2>1. CASE fs[n].got = << >>
    <3>1. NoValue(ss) /\ fs[n].at = Len(ss)
      BY <1>1, <1>11, <2>1 DEF Good, Exact, Matched
    <3> QED BY <1>7, <3>1 DEF NoValue, Tries
  <2>2. CASE fs[n].got # << >>
    <3>1. Tries(fs[n], ss)
      BY <1>1, <1>11 DEF Good, Exact
    <3>2. ASSUME NEW k \in 1..Len(fs[n].got), fs[n].got[k] = "error" PROVE Tries(t, ss)
      <4>1. k \in 1..Len(got) /\ got[k] = "error"
        BY <1>8, <3>2
      <4> QED BY <1>7, <4>1 DEF Tries
    <3> QED BY <1>1, <1>7, <2>2, <3>1, <3>2 DEF Tries
  <2> QED BY <2>1, <2>2
<1>12. Good(us, ss, c)
  BY <1>1, <1>5, <1>7, <1>10, <1>11, TouchGood
<1>13. us # << >>
  BY <1>1, <1>5, Lengths
<1>14. Len(fs[n].got) + 1 \in 1..Len(got)
  BY <1>8
<1> QED BY <1>1, <1>4, <1>5, <1>7, <1>8, <1>12, <1>13, <1>14

(* The block on top goes on to its next statement.                         *)
Stepped(fs) == Append(Front(fs), [fs[Len(fs)] EXCEPT !.pc = @ + 1, !.got = << >>])

LEMMA SteppedIs ==
  ASSUME NEW fs, NEW ss, Upright(fs, ss), fs # << >>, fs[Len(fs)].kind \in Blocks,
         NEW gs, gs = Stepped(fs)
  PROVE  /\ Touched(gs, fs) /\ gs # << >> /\ Len(gs) = Len(fs)
         /\ gs[Len(fs)].kind = fs[Len(fs)].kind /\ gs[Len(fs)].got = << >>
         /\ gs[Len(fs)].block = fs[Len(fs)].block
         /\ gs[Len(fs)].pc = fs[Len(fs)].pc + 1
<1>1. PICK n : /\ n \in Nat /\ n = Len(fs) /\ n > 0 /\ n \in 1..n /\ IsSeq(fs)
               /\ IsFrame(fs[n])
  BY FramesFacts DEF Upright
<1>2. PICK m, us, t : m = n - 1 /\ us = Front(fs) /\ t = [fs[n] EXCEPT !.pc = @ + 1, !.got = << >>]
  OBVIOUS
<1>3. IsSeq(us) /\ Len(us) = m /\ \A k \in 1..m : us[k] = fs[k]
  BY <1>1, <1>2, Fronts
<1>4. gs = Append(us, t)
  BY <1>1, <1>2 DEF Stepped
<1>5. IsSeq(gs) /\ Len(gs) = n /\ gs[n] = t /\ \A k \in 1..m : gs[k] = fs[k]
  <2>1. /\ IsSeq(gs) /\ Len(gs) = m + 1 /\ gs[m + 1] = t
        /\ \A k \in 1..m : gs[k] = us[k]
    BY <1>3, <1>4, Appends
  <2>2. m + 1 = n
    BY <1>1, <1>2
  <2> QED BY <1>3, <2>1, <2>2
<1>6. /\ {"kind", "at", "type", "block", "pc", "got"} \subseteq DOMAIN fs[n]
      /\ fs[n].pc \in Nat \ {0}
      /\ fs[n].kind = "block" => fs[n].type # "Function"
  BY <1>1 DEF IsFrame
<1>7. /\ {"kind", "at", "type", "block", "pc", "got"} \subseteq DOMAIN t
      /\ t.kind = fs[n].kind /\ t.at = fs[n].at /\ t.type = fs[n].type
      /\ t.block = fs[n].block /\ t.pc = fs[n].pc + 1 /\ t.got = << >>
  BY <1>2, <1>6
<1>8. IsSeq(<< >>)
  <2>1. << >> \in Seq({})
    OBVIOUS
  <2> QED BY <2>1 DEF IsSeq
<1>9. IsFrame(t)
  BY <1>6, <1>7, <1>8 DEF IsFrame
<1>10. \A k \in 1..n : k \in 1..m \/ k = n
  BY <1>1, <1>2
<1>11. \A i \in 1..n : IsFrame(fs[i])
  BY <1>1 DEF Upright, Stacked
<1>12. Touched(gs, fs)
  BY <1>1, <1>5, <1>7, <1>9, <1>10, <1>11 DEF Touched
<1>13. gs # << >>
  BY <1>1, <1>5, Lengths
<1> QED BY <1>1, <1>5, <1>7, <1>12, <1>13

(* The names that a block has declared after one more statement.           *)
LEMMA OneMoreStatement ==
  ASSUME NEW block, NEW pc \in Nat \ {0}
  PROVE  /\ Body(program, block)[pc].do \in {"declare", "define"} =>
              Declared(block, pc + 1) = Declared(block, pc) \union {Body(program, block)[pc].name}
         /\ Body(program, block)[pc].do \notin {"declare", "define"} =>
              Declared(block, pc + 1) = Declared(block, pc)
<1>1. PICK body : body = Body(program, block)
  OBVIOUS
<1>2. \A k : k \in 1..(pc + 1) - 1 <=> k \in 1..pc - 1 \/ k = pc
  OBVIOUS
<1> QED BY <1>1, <1>2 DEF Declared

LEMMA SteppedGood ==
  ASSUME NEW fs, NEW ss, NEW c, Good(fs, ss, c), fs # << >>, fs[Len(fs)].kind \in Blocks,
         Body(program, fs[Len(fs)].block)[fs[Len(fs)].pc].do \notin {"declare", "define"}
  PROVE  /\ Good(Stepped(fs), ss, c) /\ Stepped(fs) # << >> /\ Len(Stepped(fs)) = Len(fs)
         /\ Stepped(fs)[Len(fs)].kind \in Blocks /\ Stepped(fs)[Len(fs)].got = << >>
<1>1. PICK gs, n : gs = Stepped(fs) /\ n = Len(fs)
  OBVIOUS
<1>2. /\ Touched(gs, fs) /\ gs # << >> /\ Len(gs) = n
      /\ gs[n].kind = fs[n].kind /\ gs[n].got = << >>
      /\ gs[n].block = fs[n].block
      /\ gs[n].pc = fs[n].pc + 1
  BY <1>1, SteppedIs DEF Good
<1>3. Tries(gs[n], ss)
  BY <1>2 DEF Tries
<1>4. fs[n].pc \in Nat \ {0}
  BY <1>1, FramesFacts DEF Good, Upright, IsFrame
<1>5. Declared(gs[n].block, gs[n].pc) = Declared(fs[n].block, fs[n].pc)
  <2>1. PICK b, p : b = fs[n].block /\ p = fs[n].pc
    OBVIOUS
  <2>2. p \in Nat \ {0} /\ Body(program, b)[p].do \notin {"declare", "define"}
    BY <1>1, <1>4, <2>1
  <2>3. Declared(b, p + 1) = Declared(b, p)
    BY <2>2, OneMoreStatement
  <2> QED BY <1>2, <2>1, <2>3
<1>6. Good(gs, ss, c)
  BY <1>1, <1>2, <1>3, <1>5, TouchGood
<1> QED BY <1>1, <1>2, <1>6

(* The block on top has declared the name of its statement.                *)
LEMMA DeclaredGood ==
  ASSUME NEW fs, NEW ss, NEW c, Good(fs, ss, c), fs # << >>, fs[Len(fs)].kind \in Blocks,
         NEW body, body = Body(program, fs[Len(fs)].block),
         body[fs[Len(fs)].pc].do \in {"declare", "define"}, NEW kind
  PROVE  /\ Good(Stepped(fs), Add(ss, body[fs[Len(fs)].pc].name, kind), c)
         /\ Stepped(fs) # << >>
<1>1. PICK gs, n, m, zs, name : /\ gs = Stepped(fs) /\ n = Len(fs) /\ m = Len(ss)
                                /\ name = body[fs[n].pc].name /\ zs = Add(ss, name, kind)
  OBVIOUS
<1>2. /\ Touched(gs, fs) /\ gs # << >> /\ Len(gs) = n
      /\ gs[n].kind = fs[n].kind /\ gs[n].got = << >>
      /\ gs[n].block = fs[n].block
      /\ gs[n].pc = fs[n].pc + 1
  BY <1>1, SteppedIs DEF Good
<1>3. n \in Nat /\ m \in Nat /\ n \in 1..n /\ m \in 1..m /\ fs[n].pc \in Nat \ {0}
  BY <1>1, FramesFacts, ScopesFacts DEF Good, Upright, IsFrame
<1>4. Named(zs, ss) /\ DOMAIN zs[m].names = DOMAIN ss[m].names \union {name}
  <2>1. IsScopes(ss) /\ zs = Add(ss, name, kind)
    BY <1>1 DEF Good, Upright
  <2>2. Named(zs, ss) /\ DOMAIN zs[Len(ss)].names = DOMAIN ss[Len(ss)].names \union {name}
    BY <2>1, AddIs
  <2> QED BY <1>1, <2>2
<1>5. Upright(gs, ss) /\ (~ c => Exact(gs, ss))
  BY <1>1, <1>2, TouchUpright, TouchExact DEF Good, Tries
<1>6. Upright(gs, zs)
  BY <1>4, <1>5, ShapedUpright DEF Named
<1>7. ~ c => Exact(gs, zs)
  BY <1>4, <1>5, NamedExact
<1>8. ASSUME ~ c PROVE Owned(gs, zs)
  <2>1. Owned(fs, ss) /\ fs[n].at = m
    BY <1>1, <1>8 DEF Good, Exact, Matched
  <2>2. ASSUME NEW i \in 1..n, gs[i].kind \in Blocks
        PROVE  DOMAIN zs[gs[i].at].names = Declared(gs[i].block, gs[i].pc)
    <3>1. fs[i].kind \in Blocks /\ gs[i].at = fs[i].at /\ (i < n => gs[i] = fs[i])
      BY <1>1, <1>2, <2>2 DEF Touched
    <3>2. DOMAIN ss[fs[i].at].names = Declared(fs[i].block, fs[i].pc)
      BY <1>1, <2>1, <3>1 DEF Owned
    <3>3. CASE i = n
      <4>1. Declared(gs[n].block, gs[n].pc) = Declared(fs[n].block, fs[n].pc) \union {name}
        <5>1. PICK b, p : b = fs[n].block /\ p = fs[n].pc
          OBVIOUS
        <5>2. /\ p \in Nat \ {0} /\ Body(program, b)[p].do \in {"declare", "define"}
              /\ Body(program, b)[p].name = name
          BY <1>1, <1>3, <5>1
        <5>3. Declared(b, p + 1) = Declared(b, p) \union {name}
          BY <5>2, OneMoreStatement
        <5> QED BY <1>2, <5>1, <5>3
      <4> QED BY <1>4, <2>1, <3>1, <3>2, <3>3, <4>1
    <3>4. CASE i < n
      <4>1. fs[i].at \in 1..m /\ fs[i].at + 1 <= fs[n].at
        BY <1>1, <1>2, <1>3, <3>1, <3>4 DEF Good, Upright, Stacked, Own, Blocks, Scoped
      <4>2. zs[fs[i].at] = ss[fs[i].at]
        <5>1. fs[i].at \in 1..m /\ fs[i].at < m
          BY <1>3, <2>1, <4>1
        <5> QED BY <1>1, <1>4, <5>1 DEF Named
      <4> QED BY <3>1, <3>2, <3>4, <4>2
    <3> QED BY <1>3, <3>3, <3>4
  <2> QED BY <1>2, <2>2 DEF Owned
<1>9. Good(gs, zs, c)
  BY <1>6, <1>7, <1>8 DEF Good
<1> QED BY <1>1, <1>2, <1>9

LEMMA SuspendIs ==
  ASSUME NEW fs, NEW ss, Upright(fs, ss), fs # << >>
  PROVE  Touched(Suspend(fs), fs) /\ Suspend(fs) # << >>
<1>1. PICK n : n \in Nat /\ n = Len(fs) /\ n > 0
  BY Sizes
<1>2. DOMAIN fs = 1..n /\ \A i \in 1..n : IsFrame(fs[i])
  BY <1>1, Domains DEF Upright, Stacked
<1>3. PICK gs : gs = Suspend(fs)
  OBVIOUS
<1>4. gs = [i \in 1..n |-> IF fs[i].kind = "await" THEN [fs[i] EXCEPT !.suspended = TRUE] ELSE fs[i]]
  BY <1>2, <1>3 DEF Suspend
<1>5. IsSeq(gs) /\ Len(gs) = n
  <2>1. PICK T : T = {gs[i] : i \in 1..n}
    OBVIOUS
  <2>2. gs \in [1..n -> T]
    BY <1>4, <2>1
  <2>3. gs \in Seq(T) /\ Len(gs) = n
    BY <1>1, <2>2
  <2> QED BY <2>3 DEF IsSeq
<1>6. ASSUME NEW i \in 1..n
      PROVE  /\ IsFrame(gs[i]) /\ gs[i].kind = fs[i].kind /\ gs[i].at = fs[i].at
             /\ fs[i].kind \in Blocks => gs[i] = fs[i]
  <2>1. CASE fs[i].kind = "await"
    <3>1. gs[i] = [fs[i] EXCEPT !.suspended = TRUE] /\ {"kind", "at"} \subseteq DOMAIN fs[i]
      BY <1>2, <1>4, <2>1 DEF IsFrame
    <3>2. /\ {"kind", "at"} \subseteq DOMAIN gs[i]
          /\ gs[i].kind = fs[i].kind /\ gs[i].at = fs[i].at
      BY <3>1
    <3> QED BY <2>1, <3>2 DEF IsFrame, Blocks
  <2>2. CASE fs[i].kind # "await"
    BY <1>2, <1>4, <2>2
  <2> QED BY <2>1, <2>2
<1>7. Touched(gs, fs)
  BY <1>1, <1>5, <1>6 DEF Touched
<1>8. gs # << >>
  BY <1>1, <1>5, Lengths
<1> QED BY <1>3, <1>7, <1>8

LEMMA SuspendGood ==
  ASSUME NEW fs, NEW ss, NEW c, Good(fs, ss, c), fs # << >>, fs[Len(fs)].kind \notin Blocks
  PROVE  Good(Suspend(fs), ss, c) /\ Suspend(fs) # << >>
<1>1. PICK gs, n : gs = Suspend(fs) /\ n = Len(fs)
  OBVIOUS
<1>2. Touched(gs, fs) /\ gs # << >>
  BY <1>1, SuspendIs DEF Good
<1>3. gs[n].kind \notin Blocks
  BY <1>1, <1>2, FramesFacts DEF Good, Upright, Touched
<1>4. Tries(gs[n], ss)
  BY <1>3 DEF Tries
<1>5. Good(gs, ss, c)
  BY <1>1, <1>2, <1>4, TouchGood
<1> QED BY <1>1, <1>2, <1>5

LEMMA ResolveGood ==
  ASSUME NEW fs, NEW ss, NEW c, Good(fs, ss, c), fs # << >>, fs[Len(fs)].kind = "await", NEW kind
  PROVE  Good(Resolve(fs, kind), ss, c) /\ Resolve(fs, kind) # << >>
<1>1. PICK n : /\ n \in Nat /\ n = Len(fs) /\ n > 0 /\ n \in 1..n /\ IsSeq(fs)
               /\ IsFrame(fs[n])
  BY FramesFacts DEF Good, Upright
<1>2. PICK t : t = [fs[n] EXCEPT !.result = kind]
  OBVIOUS
<1>3. PICK us : us = With(fs, n, t)
  OBVIOUS
<1>4. us = Resolve(fs, kind)
  BY <1>1, <1>2, <1>3 DEF With, Resolve
<1>5. IsSeq(us) /\ Len(us) = n /\ us[n] = t /\ \A k \in 1..n : k # n => us[k] = fs[k]
  BY <1>1, <1>3, Sets
<1>6. /\ {"kind", "at"} \subseteq DOMAIN t /\ t.kind = "await" /\ t.at = fs[n].at
  BY <1>1, <1>2 DEF IsFrame
<1>7. IsFrame(t) /\ Tries(t, ss)
  BY <1>6 DEF IsFrame, Tries, Blocks
<1>8. \A i \in 1..n : IsFrame(fs[i])
  BY <1>1 DEF Good, Upright, Stacked
<1>9. Touched(us, fs)
  BY <1>1, <1>5, <1>6, <1>7, <1>8 DEF Touched, Blocks
<1>10. Good(us, ss, c)
  BY <1>1, <1>5, <1>7, <1>9, TouchGood DEF Blocks
<1>11. us # << >>
  BY <1>1, <1>5, Lengths
<1> QED BY <1>4, <1>10, <1>11

(* The frame under the top one.                                            *)
LEMMA Under ==
  ASSUME NEW fs, NEW ss, NEW c, Good(fs, ss, c), fs # << >>, fs[Len(fs)].kind # "program"
  PROVE  /\ Front(fs) # << >> /\ Len(Front(fs)) = Len(fs) - 1 /\ Len(fs) \in Nat
         /\ Front(fs)[Len(fs) - 1] = fs[Len(fs) - 1] /\ Len(fs) - 1 \in 1..Len(fs)
         /\ Fits(fs[Len(fs) - 1], fs[Len(fs)])
<1>1. PICK n : /\ n \in Nat /\ n = Len(fs) /\ n > 0 /\ n \in 1..n /\ IsSeq(fs)
  BY FramesFacts DEF Good, Upright
<1>2. n # 1
  BY <1>1 DEF Good, Upright, Stacked
<1>3. n \in 2..n /\ n - 1 \in 1..n /\ n - 1 \in 1..n - 1
  BY <1>1, <1>2
<1>4. PICK gs : gs = Front(fs)
  OBVIOUS
<1>5. IsSeq(gs) /\ Len(gs) = n - 1 /\ \A k \in 1..n - 1 : gs[k] = fs[k]
  BY <1>1, <1>4, Fronts
<1>6. gs # << >>
  BY <1>1, <1>2, <1>5, Lengths
<1>7. Fits(fs[n - 1], fs[n])
  BY <1>1, <1>3 DEF Good, Upright, Adjacent
<1> QED BY <1>1, <1>3, <1>4, <1>5, <1>6, <1>7

------------------------------------------------------------------------------
(* What is known where an action may run                                   *)

LEMMA PrimedGood ==
  ASSUME program' = program, Good(frames', scopes', cut')
  PROVE  Good(frames, scopes, cut)'
  BY DEF Good, Owned, Declared

LEMMA GoesOn ==
  ASSUME FlowInv, status = "running", UNCHANGED <<program, status, target, cut>>,
         Good(frames', scopes', cut), frames' # << >>
  PROVE  FlowInv'
<1>1. Good(frames', scopes', cut')
  OBVIOUS
<1>2. Good(frames, scopes, cut)'
  BY <1>1, PrimedGood
<1> QED BY <1>2 DEF FlowInv, Targeted

LEMMA Stops ==
  ASSUME FlowInv, UNCHANGED <<program, frames, scopes, cut>>, status' # "running",
         status' = "unwinding" => target' = 0, target' \in Nat
  PROVE  FlowInv'
<1>1. Good(frames', scopes', cut')
  BY DEF FlowInv
<1>2. Good(frames, scopes, cut)'
  BY <1>1, PrimedGood
<1> QED BY <1>2 DEF FlowInv, Targeted

LEMMA ThrowStops ==
  ASSUME FlowInv, Throw
  PROVE  FlowInv'
<1>1. status' \in {"deadFrame", "unwinding"} /\ target' = 0 /\ UNCHANGED <<program, scopes, frames, cut>>
  BY DEF Throw
<1> QED BY <1>1, Stops

LEMMA RunningFacts ==
  ASSUME FlowInv, NEW kind, Running(kind)
  PROVE  /\ frames # << >> /\ status = "running" /\ Good(frames, scopes, cut)
         /\ Top = frames[Len(frames)] /\ Top.kind \in kind /\ frames[Len(frames)].kind \in kind
<1>1. frames # << >> /\ status = "running" /\ Good(frames, scopes, cut) /\ Top.kind \in kind
  BY DEF FlowInv, Running
<1>2. Top = frames[Len(frames)]
  BY <1>1, FramesFacts DEF Good, Upright, Top
<1> QED BY <1>1, <1>2

(* A block that begins a statement is in a function that has not returned. *)
LEMMA InStatementFacts ==
  ASSUME FlowInv, InStatement
  PROVE  /\ frames # << >> /\ status = "running" /\ Good(frames, scopes, cut)
         /\ Top = frames[Len(frames)] /\ frames[Len(frames)].kind \in Blocks
         /\ Top.got = << >> => Current(scopes).policy = "Stay"
         /\ ~ cut /\ Top.got = << >> => NoValue(scopes)
         /\ Statement = Body(program, frames[Len(frames)].block)[frames[Len(frames)].pc]
<1>1. Running(Blocks) /\ ~ BlockEnds
  BY DEF InStatement
<1>2. /\ frames # << >> /\ status = "running" /\ Good(frames, scopes, cut)
      /\ Top = frames[Len(frames)] /\ frames[Len(frames)].kind \in Blocks
  BY <1>1, RunningFacts
<1>3. Top.got = << >> => Current(scopes).policy = "Stay"
  BY <1>1 DEF BlockEnds, Ending
<1>4. ~ cut /\ Top.got = << >> => NoValue(scopes)
  BY <1>2, <1>3, StayHasNoValue DEF Good, Upright, Exact
<1>5. Statement = Body(program, frames[Len(frames)].block)[frames[Len(frames)].pc]
  BY <1>2 DEF Statement, Statements
<1> QED BY <1>2, <1>3, <1>4, <1>5

------------------------------------------------------------------------------
(* The parts of an expression                                              *)

LEMMA GotKeeps ==
  ASSUME FlowInv, InStatement, NEW kind, Got(kind),
         UNCHANGED <<program, scopes, status, target, cut>>
  PROVE  FlowInv'
<1>1. /\ frames # << >> /\ status = "running" /\ Good(frames, scopes, cut)
      /\ frames[Len(frames)].kind \in Blocks
      /\ ~ cut /\ frames[Len(frames)].got = << >> => NoValue(scopes)
  BY InStatementFacts
<1>2. PICK gs : gs = GotOn(frames, kind) /\ frames' = gs
  BY DEF Got, GotOn
<1>3. Good(gs, scopes, cut) /\ gs # << >>
  BY <1>1, <1>2, GotGood
<1> QED BY <1>1, <1>2, <1>3, GoesOn

LEMMA PartKeeps ==
  ASSUME FlowInv, EvalLiteral \/ EvalName \/ RefuseStatement \/ AwaitNothing
  PROVE  FlowInv'
<1>1. CASE RefuseStatement \/ AwaitNothing
  BY <1>1, ThrowStops DEF RefuseStatement, AwaitNothing
<1>2. CASE EvalLiteral
  <2>1. InStatement
    BY <1>2 DEF EvalLiteral, Eval
  <2> QED BY <1>2, <2>1, ThrowStops, GotKeeps DEF EvalLiteral
<1>3. CASE EvalName
  <2>1. InStatement
    BY <1>3 DEF EvalName, Eval
  <2> QED BY <1>3, <2>1, ThrowStops, GotKeeps DEF EvalName
<1> QED BY <1>1, <1>2, <1>3

LEMMA DeadFrameKeeps ==
  ASSUME FlowInv, RefuseCall \/ AnswerAtOnce
  PROVE  FlowInv'
<1>1. status' = "deadFrame" /\ UNCHANGED <<program, scopes, frames, target, cut>> /\ target \in Nat
  BY DEF RefuseCall, AnswerAtOnce, FlowInv
<1> QED BY <1>1, Stops

(* An await is put on the block on top.                                    *)
LEMMA AwaitGood ==
  ASSUME FlowInv, InStatement, NEW try
  PROVE  LET gs == Append(frames, AwaitFrame(try, Len(scopes)))
         IN  Good(gs, scopes, cut) /\ gs # << >> /\ gs[Len(gs)].kind = "await"
<1>1. /\ frames # << >> /\ Good(frames, scopes, cut)
      /\ frames[Len(frames)].kind \in Blocks
      /\ frames[Len(frames)].got = << >> => Current(scopes).policy = "Stay"
  BY InStatementFacts
<1>2. PICK f : f = AwaitFrame(try, Len(scopes))
  OBVIOUS
<1>3. /\ f.kind = "await" /\ f.at = Len(scopes) /\ Own(f) = 0 /\ IsFrame(f)
      /\ f.kind \notin Scoped
  BY <1>2 DEF AwaitFrame, IsFrame, Own, Scoped, Blocks
<1>4. Len(scopes) \in Nat
  BY <1>1, Sizes DEF Good
<1>5. PutOn(f, frames, scopes)
  BY <1>1, <1>3, <1>4 DEF PutOn, Fits, Blocks
<1>6. PICK gs : gs = Append(frames, f)
  OBVIOUS
<1>7. Good(gs, scopes, cut) /\ gs # << >>
  BY <1>1, <1>3, <1>5, <1>6, PlainGood
<1>8. gs[Len(gs)] = f
  BY <1>1, <1>6, Appends DEF Good, Upright, Stacked
<1> QED BY <1>2, <1>3, <1>6, <1>7, <1>8

(* A leaf is put on the frame on top, and all is suspended.                *)
LEMMA LeafGood ==
  ASSUME NEW fs, NEW ss, NEW c, Good(fs, ss, c), fs # << >>, NEW kind,
         \/ kind = "request" /\ fs[Len(fs)].kind = "await"
         \/ kind = "delay" /\ fs[Len(fs)].kind \in Blocks /\ fs[Len(fs)].got = << >>
  PROVE  LET gs == Suspend(Append(fs, Leaf(kind, Len(ss))))
         IN  Good(gs, ss, c) /\ gs # << >>
<1>1. PICK f : f = Leaf(kind, Len(ss))
  OBVIOUS
<1>2. /\ f.kind = kind /\ f.at = Len(ss) /\ Own(f) = 0 /\ IsFrame(f)
      /\ f.kind \notin Scoped
  BY <1>1 DEF Leaf, IsFrame, Own, Scoped, Blocks
<1>3. Len(ss) \in Nat
  BY Sizes DEF Good
<1>4. PutOn(f, fs, ss)
  BY <1>2, <1>3 DEF PutOn, Fits, Blocks
<1>5. PICK gs : gs = Append(fs, f)
  OBVIOUS
<1>6. Good(gs, ss, c) /\ gs # << >>
  BY <1>2, <1>4, <1>5, PlainGood
<1>7. gs[Len(gs)] = f
  BY <1>5, Appends DEF Good, Upright, Stacked
<1>8. Good(Suspend(gs), ss, c) /\ Suspend(gs) # << >>
  BY <1>2, <1>6, <1>7, SuspendGood DEF Blocks
<1> QED BY <1>1, <1>5, <1>8

LEMMA StartRequestKeeps ==
  ASSUME FlowInv, StartRequest
  PROVE  FlowInv'
<1>1. InStatement /\ UNCHANGED <<program, scopes, status, target, cut>>
  BY DEF StartRequest, Awaited, Eval
<1>2. status = "running" /\ IsSeq(frames)
  BY <1>1, InStatementFacts DEF Good, Upright, Stacked
<1>3. PICK try, f, g : /\ try = Part.try /\ f = AwaitFrame(try, Len(scopes))
                       /\ g = Leaf("request", Len(scopes))
  OBVIOUS
<1>4. frames' = Suspend(Append(Append(frames, f), g))
  <2>1. frames' = Suspend(frames \o <<f, g>>)
    BY <1>3 DEF StartRequest
  <2>2. frames \o <<f, g>> = Append(Append(frames, f), g)
    BY <1>2, Puts
  <2> QED BY <2>1, <2>2
<1>5. PICK gs : gs = Append(frames, f)
  OBVIOUS
<1>6. Good(gs, scopes, cut) /\ gs # << >> /\ gs[Len(gs)].kind = "await"
  BY <1>1, <1>3, <1>5, AwaitGood
<1>7. Good(Suspend(Append(gs, g)), scopes, cut) /\ Suspend(Append(gs, g)) # << >>
  BY <1>3, <1>6, LeafGood
<1>8. Good(frames', scopes', cut) /\ frames' # << >>
  BY <1>1, <1>4, <1>5, <1>7
<1> QED BY <1>1, <1>2, <1>8, GoesOn

(* The names of a call's scope, on which no block is.                      *)
LEMMA BoundGood ==
  ASSUME NEW fs, NEW ss, NEW c, Good(fs, ss, c), fs # << >>, fs[Len(fs)].kind = "call",
         NEW names, NEW zs, zs = [ss EXCEPT ![Len(ss)].names = names]
  PROVE  Good(fs, zs, c) /\ Named(zs, ss)
<1>1. PICK n, m : n \in Nat /\ m \in Nat /\ n = Len(fs) /\ m = Len(ss) /\ n > 0 /\ m > 0
  BY Sizes DEF Good
<1>2. Named(zs, ss)
  BY NamesAre DEF Good, Upright
<1>3. Upright(fs, zs)
  BY <1>2, ShapedUpright DEF Good, Named
<1>4. ~ c => Exact(fs, zs)
  BY <1>2, NamedExact DEF Good
<1>5. ASSUME ~ c PROVE Owned(fs, zs)
  <2>1. ASSUME NEW i \in 1..n, fs[i].kind \in Blocks
        PROVE  zs[fs[i].at] = ss[fs[i].at]
    <3>1. n \in 1..n /\ i < n
      BY <1>1, <2>1 DEF Blocks
    <3>2. fs[i].at \in 1..m /\ fs[n].at \in 1..m /\ fs[i].at + 1 <= fs[n].at
      BY <1>1, <3>1 DEF Good, Upright, Stacked, Own, Scoped
    <3>3. fs[i].at < m
      BY <1>1, <3>2
    <3> QED BY <1>1, <1>2, <3>2, <3>3 DEF Named
  <2>2. Owned(fs, ss)
    BY <1>5 DEF Good
  <2> QED BY <1>1, <2>1, <2>2 DEF Owned
<1> QED BY <1>2, <1>3, <1>4, <1>5 DEF Good

LEMMA StartCallKeeps ==
  ASSUME FlowInv, StartCall
  PROVE  FlowInv'
<1>1. InStatement /\ UNCHANGED <<program, status, target, cut>>
  BY DEF StartCall, Awaited, Eval
<1>2. /\ status = "running" /\ IsSeq(frames) /\ IsScopes(scopes)
  BY <1>1, InStatementFacts DEF Good, Upright, Stacked
<1>3. PICK m : m = Len(scopes) /\ m \in Nat /\ m > 0
  BY <1>2, ScopesFacts
<1>4. PICK try, a, w, b : /\ try = Part.try /\ a = AwaitFrame(try, m)
                          /\ w = CallFrame(Part.name, m + 1)
                          /\ b = BlockFrame("block", "Local", Part.name, m + 2)
  OBVIOUS
<1>5. PICK called : called = Push(scopes, "Function")
  OBVIOUS
<1>6. PICK bound : scopes' = Push([called EXCEPT ![Len(called)].names = bound], "Local")
  BY <1>5 DEF StartCall
<1>7. PICK named : named = [called EXCEPT ![Len(called)].names = bound]
  OBVIOUS
<1>8. frames' = Append(Append(Append(frames, a), w), b)
  <2>1. frames' = frames \o <<a, w, b>>
    BY <1>3, <1>4 DEF StartCall
  <2> QED BY <1>2, <2>1, Puts
<1>9. PICK fs, gs : fs = Append(frames, a) /\ gs = Append(fs, w)
  OBVIOUS
<1>10. Good(fs, scopes, cut) /\ fs # << >> /\ fs[Len(fs)].kind = "await"
  BY <1>1, <1>3, <1>4, <1>9, AwaitGood
<1>11. /\ w.kind = "call" /\ w.at = m + 1 /\ Own(w) = 1 /\ IsFrame(w)
       /\ ScopeType(w) = "Function"
  BY <1>4 DEF CallFrame, Own, Scoped, IsFrame, Blocks, ScopeType
<1>12. PutOn(w, fs, scopes)
  BY <1>3, <1>10, <1>11 DEF PutOn, Fits, Blocks
<1>13. Good(gs, called, cut) /\ gs # << >>
  BY <1>5, <1>9, <1>10, <1>11, <1>12, ScopedGood
<1>14. gs[Len(gs)] = w
  BY <1>9, <1>10, Appends DEF Good, Upright, Stacked
<1>15. Good(gs, named, cut) /\ Named(named, called)
  BY <1>7, <1>11, <1>13, <1>14, BoundGood
<1>16. Pushed(called, scopes, "Function")
  BY <1>2, <1>5, PushIs
<1>17. /\ Len(called) = m + 1 /\ called[m + 1].home = m + 1 /\ called[m + 1].value = None
  BY <1>3, <1>16 DEF Pushed, Scope
<1>18. /\ Len(named) = m + 1 /\ named[m + 1].home = m + 1 /\ named[m + 1].value = None
  BY <1>3, <1>15, <1>17 DEF Named, Shaped
<1>19. NoValue(named)
  BY <1>18 DEF NoValue
<1>20. /\ b.kind = "block" /\ b.at = m + 2 /\ Own(b) = 1 /\ ScopeType(b) = "Local"
       /\ b.got = << >> /\ b.pc = 1
  BY <1>4 DEF BlockFrame, Own, Scoped, ScopeType
<1>21. IsFrame(b)
  <2>1. << >> \in Seq({})
    OBVIOUS
  <2>2. IsSeq(<< >>)
    BY <2>1 DEF IsSeq
  <2> QED BY <1>4, <2>2 DEF BlockFrame, IsFrame
<1>22. PutOn(b, gs, named)
  <2>1. Fits(w, b)
    BY <1>11, <1>20 DEF Fits, Blocks
  <2> QED BY <1>3, <1>13, <1>14, <1>18, <1>20, <1>21, <2>1 DEF PutOn
<1>23. Good(Append(gs, b), Push(named, "Local"), cut) /\ Append(gs, b) # << >>
  BY <1>15, <1>19, <1>20, <1>22, <1>13, ScopedGood
<1>24. frames' = Append(gs, b) /\ scopes' = Push(named, "Local")
  BY <1>6, <1>7, <1>8, <1>9
<1> QED BY <1>1, <1>2, <1>23, <1>24, GoesOn

------------------------------------------------------------------------------
(* The statements                                                          *)

LEMMA AdvanceIs ==
  ASSUME FlowInv, InStatement
  PROVE  /\ \A above : Advance(above) <=> frames' = Stepped(frames) \o above
         /\ Advance(<< >>) <=> frames' = Stepped(frames)
<1>1. frames # << >> /\ Good(frames, scopes, cut) /\ Top = frames[Len(frames)]
      /\ frames[Len(frames)].kind \in Blocks
  BY InStatementFacts
<1>2. Append(Front(frames), NextStatement) = Stepped(frames)
  BY <1>1 DEF NextStatement, Stepped
<1>3. IsSeq(Stepped(frames))
  BY <1>1, SteppedIs DEF Good, Touched
<1>4. Stepped(frames) \o << >> = Stepped(frames)
  BY <1>3, Puts
<1> QED BY <1>2, <1>4 DEF Advance

LEMMA DeclareKeeps ==
  ASSUME FlowInv, Declare \/ Define
  PROVE  FlowInv'
<1>1. InStatement /\ Statement.do \in {"declare", "define"}
  BY DEF Declare, Define, Execute
<1>2. /\ frames # << >> /\ status = "running" /\ Good(frames, scopes, cut)
      /\ frames[Len(frames)].kind \in Blocks
      /\ Statement = Body(program, frames[Len(frames)].block)[frames[Len(frames)].pc]
  BY <1>1, InStatementFacts
<1>3. CASE Throw
  BY <1>3, ThrowStops
<1>4. CASE ~ Throw
  <2>1. PICK kind : scopes' = Add(scopes, Statement.name, kind) /\ Advance(<< >>)
                    /\ UNCHANGED <<program, status, target, cut>>
    BY <1>4 DEF Declare, Define
  <2>2. PICK body : body = Body(program, frames[Len(frames)].block)
    OBVIOUS
  <2>3. /\ Good(Stepped(frames), Add(scopes, body[frames[Len(frames)].pc].name, kind), cut)
        /\ Stepped(frames) # << >>
    BY <1>1, <1>2, <2>2, DeclaredGood
  <2>4. frames' = Stepped(frames)
    BY <1>1, <2>1, AdvanceIs
  <2>5. Statement.name = body[frames[Len(frames)].pc].name
    BY <1>2, <2>2
  <2>6. Good(frames', scopes', cut) /\ frames' # << >>
    BY <2>1, <2>3, <2>4, <2>5
  <2> QED BY <1>2, <2>1, <2>6, GoesOn
<1> QED BY <1>3, <1>4

(* Any other statement of the block on top is done.                        *)
LEMMA StatementGood ==
  ASSUME FlowInv, InStatement, Statement.do \notin {"declare", "define"}
  PROVE  /\ Good(Stepped(frames), scopes, cut) /\ Stepped(frames) # << >>
         /\ Stepped(frames)[Len(Stepped(frames))].kind \in Blocks
         /\ Stepped(frames)[Len(Stepped(frames))].got = << >>
         /\ status = "running" /\ IsSeq(Stepped(frames))
<1>1. /\ frames # << >> /\ status = "running" /\ Good(frames, scopes, cut)
      /\ frames[Len(frames)].kind \in Blocks
      /\ Statement = Body(program, frames[Len(frames)].block)[frames[Len(frames)].pc]
  BY InStatementFacts
<1>2. PICK gs : gs = Stepped(frames)
  OBVIOUS
<1>3. /\ Good(gs, scopes, cut) /\ gs # << >> /\ Len(gs) = Len(frames)
      /\ gs[Len(frames)].kind \in Blocks /\ gs[Len(frames)].got = << >>
  BY <1>1, <1>2, SteppedGood
<1> QED BY <1>1, <1>2, <1>3 DEF Good, Upright, Stacked

LEMMA LeavingKeeps ==
  ASSUME FlowInv, Assign \/ Return \/ Break \/ Raise
  PROVE  FlowInv'
<1>1. InStatement /\ Statement.do \notin {"declare", "define"}
  BY DEF Assign, Return, Break, Raise, Execute
<1>2. CASE Throw
  BY <1>2, ThrowStops
<1>3. CASE ~ Throw
  <2>1. /\ frames' = Stepped(frames) /\ UNCHANGED <<program, status, target, cut>>
        /\ \/ scopes' = scopes
           \/ \E v : scopes' = ReturnValue(scopes, v)
           \/ scopes' = BreakLoop(scopes)
    <3>1. Advance(<< >>) <=> frames' = Stepped(frames)
      BY <1>1, AdvanceIs
    <3> QED BY <1>3, <3>1 DEF Assign, Return, Break, Raise
  <2>2. PICK gs : gs = Stepped(frames)
    OBVIOUS
  <2>3. /\ Good(gs, scopes, cut) /\ gs # << >>
        /\ gs[Len(gs)].kind \in Blocks /\ gs[Len(gs)].got = << >> /\ status = "running"
    BY <1>1, <2>2, StatementGood
  <2>4. CASE \E v : scopes' = ReturnValue(scopes, v)
    <3>1. PICK v : scopes' = ReturnValue(scopes, v)
      BY <2>4
    <3>2. Good(gs, scopes', cut)
      BY <2>3, <3>1, ReturnGood
    <3> QED BY <2>1, <2>2, <2>3, <3>2, GoesOn
  <2>5. CASE scopes' = BreakLoop(scopes)
    <3>1. Good(gs, scopes', cut)
      BY <2>3, <2>5, BreakGood
    <3> QED BY <2>1, <2>2, <2>3, <3>1, GoesOn
  <2>6. CASE scopes' = scopes
    BY <2>1, <2>2, <2>3, <2>6, GoesOn
  <2> QED BY <2>1, <2>4, <2>5, <2>6
<1> QED BY <1>2, <1>3

LEMMA DelayKeeps ==
  ASSUME FlowInv, Delay
  PROVE  FlowInv'
<1>1. InStatement /\ Statement.do \notin {"declare", "define"}
  BY DEF Delay, Execute
<1>2. CASE Throw
  BY <1>2, ThrowStops
<1>3. CASE ~ Throw
  <2>1. /\ frames' = Suspend(Append(Front(frames), NextStatement) \o <<Leaf("delay", Len(scopes))>>)
        /\ UNCHANGED <<program, scopes, status, target, cut>>
    BY <1>3 DEF Delay
  <2>2. Append(Front(frames), NextStatement) = Stepped(frames)
    BY <1>1, InStatementFacts DEF NextStatement, Stepped
  <2>3. PICK gs, f : gs = Stepped(frames) /\ f = Leaf("delay", Len(scopes))
    OBVIOUS
  <2>4. /\ Good(gs, scopes, cut) /\ gs # << >> /\ gs[Len(gs)].kind \in Blocks
        /\ gs[Len(gs)].got = << >> /\ status = "running" /\ IsSeq(gs)
    BY <1>1, <2>3, StatementGood
  <2>5. gs \o <<f>> = Append(gs, f)
    BY <2>4, Puts
  <2>6. Good(Suspend(Append(gs, f)), scopes, cut) /\ Suspend(Append(gs, f)) # << >>
    BY <2>3, <2>4, LeafGood
  <2>7. Good(frames', scopes', cut) /\ frames' # << >>
    BY <2>1, <2>2, <2>3, <2>5, <2>6
  <2> QED BY <2>1, <2>4, <2>7, GoesOn
<1> QED BY <1>2, <1>3

LEMMA RepeatKeeps ==
  ASSUME FlowInv, Repeat
  PROVE  FlowInv'
<1>1. InStatement /\ Statement.do \notin {"declare", "define"}
  BY DEF Repeat, Execute
<1>2. PICK gs, f : gs = Stepped(frames) /\ f = RepeatFrame(Statement.block, Len(scopes))
  OBVIOUS
<1>3. /\ Good(gs, scopes, cut) /\ gs # << >> /\ gs[Len(gs)].kind \in Blocks
      /\ gs[Len(gs)].got = << >> /\ status = "running" /\ IsSeq(gs)
  BY <1>1, <1>2, StatementGood
<1>4. frames' = Append(gs, f) /\ UNCHANGED <<program, scopes, status, target, cut>>
  <2>1. Advance(<<f>>) <=> frames' = gs \o <<f>>
    BY <1>1, <1>2, AdvanceIs
  <2>2. gs \o <<f>> = Append(gs, f)
    BY <1>3, Puts
  <2> QED BY <1>2, <2>1, <2>2 DEF Repeat
<1>5. /\ f.kind = "repeat" /\ f.at = Len(scopes) /\ Own(f) = 0 /\ IsFrame(f)
      /\ f.kind \notin Scoped
  BY <1>2 DEF RepeatFrame, IsFrame, Own, Scoped, Blocks
<1>6. Len(scopes) \in Nat
  BY <1>3, Sizes DEF Good
<1>7. PutOn(f, gs, scopes)
  BY <1>3, <1>5, <1>6 DEF PutOn, Fits, Blocks
<1>8. Good(Append(gs, f), scopes, cut) /\ Append(gs, f) # << >>
  BY <1>3, <1>5, <1>7, PlainGood
<1> QED BY <1>3, <1>4, <1>8, GoesOn

(* A block is put on the frame on top.                                     *)
LEMMA BlockGood ==
  ASSUME NEW fs, NEW ss, NEW c, Good(fs, ss, c), fs # << >>,
         \/ fs[Len(fs)].kind = "repeat"
         \/ fs[Len(fs)].kind \in Blocks /\ fs[Len(fs)].got = << >>,
         ~ c => NoValue(ss), NEW type \in {"Local", "Loop"}, NEW block
  PROVE  LET gs == Append(fs, BlockFrame("block", type, block, Len(ss) + 1))
         IN  Good(gs, Push(ss, type), c) /\ gs # << >>
<1>1. PICK f : f = BlockFrame("block", type, block, Len(ss) + 1)
  OBVIOUS
<1>2. /\ f.kind = "block" /\ f.at = Len(ss) + 1 /\ Own(f) = 1 /\ ScopeType(f) = type
      /\ f.got = << >> /\ f.pc = 1
  BY <1>1 DEF BlockFrame, Own, Scoped, ScopeType
<1>3. IsFrame(f)
  <2>1. << >> \in Seq({})
    OBVIOUS
  <2>2. IsSeq(<< >>)
    BY <2>1 DEF IsSeq
  <2> QED BY <1>1, <2>2 DEF BlockFrame, IsFrame
<1>4. Len(ss) \in Nat
  BY Sizes DEF Good
<1>5. PutOn(f, fs, ss)
  BY <1>2, <1>3, <1>4 DEF PutOn, Fits, Blocks
<1>6. Good(Append(fs, f), Push(ss, type), c) /\ Append(fs, f) # << >>
  BY <1>2, <1>5, ScopedGood
<1> QED BY <1>1, <1>6

LEMMA IfKeeps ==
  ASSUME FlowInv, If
  PROVE  FlowInv'
<1>1. InStatement /\ Statement.do \notin {"declare", "define"}
  BY DEF If, Execute
<1>2. CASE Throw
  BY <1>2, ThrowStops
<1>3. CASE ~ Throw
  <2>1. PICK gs : gs = Stepped(frames)
    OBVIOUS
  <2>2. /\ Good(gs, scopes, cut) /\ gs # << >> /\ gs[Len(gs)].kind \in Blocks
        /\ gs[Len(gs)].got = << >> /\ status = "running" /\ IsSeq(gs)
    BY <1>1, <2>1, StatementGood
  <2>3. Value = "boolean" /\ UNCHANGED <<program, status, target, cut>>
    BY <1>3 DEF If
  <2>4. CASE Advance(<< >>) /\ UNCHANGED scopes
    <3>1. frames' = gs
      BY <1>1, <2>1, <2>4, AdvanceIs
    <3> QED BY <2>2, <2>3, <2>4, <3>1, GoesOn
  <2>5. CASE \E b : /\ Advance(<<BlockFrame("block", "Local", b, Len(scopes) + 1)>>)
                    /\ scopes' = Push(scopes, "Local")
    <3>1. PICK b : /\ Advance(<<BlockFrame("block", "Local", b, Len(scopes) + 1)>>)
                   /\ scopes' = Push(scopes, "Local")
      BY <2>5
    <3>2. PICK f : f = BlockFrame("block", "Local", b, Len(scopes) + 1)
      OBVIOUS
    <3>3. frames' = Append(gs, f)
      <4>1. Advance(<<f>>) <=> frames' = gs \o <<f>>
        BY <1>1, <2>1, AdvanceIs
      <4>2. gs \o <<f>> = Append(gs, f)
        BY <2>2, Puts
      <4> QED BY <3>1, <3>2, <4>1, <4>2
    <3>4. ASSUME ~ cut PROVE NoValue(scopes)
      <4>1. PICK t : t = frames[Len(frames)]
        OBVIOUS
      <4>2. t.kind \in Blocks /\ Top = t /\ Tries(t, scopes) /\ t.at = Len(scopes) /\ IsSeq(t.got)
        <5>1. frames # << >> /\ Good(frames, scopes, cut) /\ t.kind \in Blocks /\ Top = t
          BY <1>1, <4>1, InStatementFacts
        <5>2. Len(frames) \in 1..Len(frames) /\ IsFrame(t)
          BY <4>1, <5>1, FramesFacts DEF Good, Upright
        <5> QED BY <3>4, <4>1, <5>1, <5>2 DEF Good, Exact, Matched, IsFrame
      <4>3. t.got # << >> /\ Len(t.got) = 1 /\ t.got[1] = "boolean"
        BY <2>3, <4>2 DEF Value
      <4>4. \A k \in 1..Len(t.got) : t.got[k] # "error"
        BY <4>3
      <4> QED BY <4>2, <4>3, <4>4 DEF Tries, NoValue
    <3>5. Good(Append(gs, f), scopes', cut) /\ Append(gs, f) # << >>
      BY <2>2, <3>1, <3>2, <3>4, BlockGood
    <3> QED BY <2>2, <2>3, <3>3, <3>5, GoesOn
  <2> QED BY <1>3, <2>4, <2>5 DEF If
<1> QED BY <1>2, <1>3

------------------------------------------------------------------------------
(* Loops, and the ends of blocks, calls and awaits                         *)

LEMMA IterateKeeps ==
  ASSUME FlowInv, Iterate
  PROVE  FlowInv'
<1>1. /\ frames # << >> /\ status = "running" /\ Good(frames, scopes, cut)
      /\ frames[Len(frames)].kind = "repeat" /\ Top = frames[Len(frames)]
  <2>1. Running({"repeat"})
    BY DEF Iterate
  <2> QED BY <2>1, RunningFacts
<1>2. PICK n : /\ n \in Nat /\ n = Len(frames) /\ n > 0 /\ n \in 1..n /\ IsSeq(frames)
               /\ IsFrame(frames[n])
  BY <1>1, FramesFacts DEF Good, Upright
<1>3. PICK t : t = [frames[n] EXCEPT !.left = @ - 1]
  OBVIOUS
<1>4. PICK us, f : /\ us = With(frames, n, t)
                   /\ f = BlockFrame("block", "Loop", Top.block, Len(scopes) + 1)
  OBVIOUS
<1>5. frames' = Append(us, f)
  BY <1>2, <1>3, <1>4 DEF Iterate, With
<1>6. IsSeq(us) /\ Len(us) = n /\ us[n] = t /\ \A k \in 1..n : k # n => us[k] = frames[k]
  BY <1>2, <1>4, Sets
<1>7. /\ {"kind", "at"} \subseteq DOMAIN t /\ t.kind = "repeat" /\ t.at = frames[n].at
  BY <1>1, <1>2, <1>3 DEF IsFrame
<1>8. IsFrame(t) /\ Tries(t, scopes)
  BY <1>7 DEF IsFrame, Tries, Blocks
<1>9. \A i \in 1..n : IsFrame(frames[i])
  BY <1>1, <1>2 DEF Good, Upright, Stacked
<1>10. Touched(us, frames)
  BY <1>1, <1>2, <1>6, <1>7, <1>8, <1>9 DEF Touched, Blocks
<1>11. Good(us, scopes, cut)
  BY <1>1, <1>2, <1>6, <1>8, <1>10, TouchGood DEF Blocks
<1>12. us # << >>
  BY <1>2, <1>6, Lengths
<1>13. ~ cut => NoValue(scopes)
  BY <1>1, StayHasNoValue DEF Iterate, Ending, Good, Upright, Exact
<1>14. Good(Append(us, f), Push(scopes, "Loop"), cut) /\ Append(us, f) # << >>
  BY <1>4, <1>6, <1>7, <1>11, <1>12, <1>13, BlockGood
<1>15. scopes' = Push(scopes, "Loop") /\ UNCHANGED <<program, status, target, cut>>
  BY DEF Iterate
<1> QED BY <1>1, <1>5, <1>14, <1>15, GoesOn

LEMMA EndLoopKeeps ==
  ASSUME FlowInv, EndLoop \/ DelayExpires
  PROVE  FlowInv'
<1>1. /\ Running({"repeat", "delay"}) /\ frames' = Front(frames)
      /\ UNCHANGED <<program, scopes, status, target, cut>>
  BY DEF EndLoop, DelayExpires, Running
<1>2. /\ frames # << >> /\ status = "running" /\ Good(frames, scopes, cut)
      /\ frames[Len(frames)].kind \in {"repeat", "delay"}
  BY <1>1, RunningFacts
<1>3. Good(Front(frames), scopes, cut)
  BY <1>2, FrontGood DEF Scoped
<1>4. Front(frames) # << >>
  BY <1>2, Under
<1> QED BY <1>1, <1>2, <1>3, <1>4, GoesOn

LEMMA EndBlockKeeps ==
  ASSUME FlowInv, EndBlock
  PROVE  FlowInv'
<1>1. /\ Running({"block"}) /\ frames' = Front(frames) /\ scopes' = Pop(scopes)
      /\ UNCHANGED <<program, status, target, cut>>
  BY DEF EndBlock
<1>2. /\ frames # << >> /\ status = "running" /\ Good(frames, scopes, cut)
      /\ frames[Len(frames)].kind \in {"block"}
  BY <1>1, RunningFacts
<1>3. Good(Front(frames), Pop(scopes), cut)
  BY <1>2, LeaveGood
<1>4. Front(frames) # << >>
  BY <1>2, Under
<1> QED BY <1>1, <1>2, <1>3, <1>4, GoesOn

LEMMA EndProgramKeeps ==
  ASSUME FlowInv, EndProgram
  PROVE  FlowInv'
<1>1. status' = "finished" /\ UNCHANGED <<program, scopes, frames, target, cut>> /\ target \in Nat
  BY DEF EndProgram, FlowInv
<1> QED BY <1>1, Stops

LEMMA EndCallKeeps ==
  ASSUME FlowInv, EndCall
  PROVE  FlowInv'
<1>1. CASE Throw
  BY <1>1, ThrowStops
<1>2. CASE ~ Throw
  <2>1. PICK result : /\ Running({"call"}) /\ frames' = Resolve(Front(frames), result)
                      /\ scopes' = Pop(scopes) /\ UNCHANGED <<program, status, target, cut>>
    BY <1>2 DEF EndCall
  <2>2. /\ frames # << >> /\ status = "running" /\ Good(frames, scopes, cut)
        /\ frames[Len(frames)].kind \in {"call"}
    BY <2>1, RunningFacts
  <2>3. PICK gs : gs = Front(frames)
    OBVIOUS
  <2>4. Good(gs, Pop(scopes), cut)
    BY <2>2, <2>3, LeaveGood
  <2>5. gs # << >> /\ gs[Len(gs)].kind = "await"
    BY <2>2, <2>3, Under DEF Fits
  <2>6. Good(Resolve(gs, result), Pop(scopes), cut) /\ Resolve(gs, result) # << >>
    BY <2>4, <2>5, ResolveGood
  <2> QED BY <2>1, <2>2, <2>3, <2>6, GoesOn
<1> QED BY <1>1, <1>2

LEMMA RequestKeeps ==
  ASSUME FlowInv, RequestAnswers \/ RequestFails
  PROVE  FlowInv'
<1>1. CASE RequestFails
  BY <1>1, ThrowStops DEF RequestFails
<1>2. CASE RequestAnswers
  <2>1. /\ Running({"request"}) /\ frames' = Resolve(Front(frames), "reply")
        /\ UNCHANGED <<program, scopes, status, target, cut>>
    BY <1>2 DEF RequestAnswers
  <2>2. /\ frames # << >> /\ status = "running" /\ Good(frames, scopes, cut)
        /\ frames[Len(frames)].kind \in {"request"}
    BY <2>1, RunningFacts
  <2>3. PICK gs : gs = Front(frames)
    OBVIOUS
  <2>4. Good(gs, scopes, cut)
    BY <2>2, <2>3, FrontGood DEF Scoped
  <2>5. gs # << >> /\ gs[Len(gs)].kind = "await"
    BY <2>2, <2>3, Under DEF Fits
  <2>6. Good(Resolve(gs, "reply"), scopes, cut) /\ Resolve(gs, "reply") # << >>
    BY <2>4, <2>5, ResolveGood
  <2> QED BY <2>1, <2>2, <2>3, <2>6, GoesOn
<1> QED BY <1>1, <1>2

LEMMA EndAwaitKeeps ==
  ASSUME FlowInv, EndAwait
  PROVE  FlowInv'
<1>1. /\ frames # << >> /\ status = "running" /\ Good(frames, scopes, cut)
      /\ frames[Len(frames)].kind = "await" /\ Top = frames[Len(frames)]
      /\ UNCHANGED <<program, target, cut>>
  <2>1. Running({"await"}) /\ UNCHANGED <<program, target, cut>>
    BY DEF EndAwait
  <2> QED BY <2>1, RunningFacts
<1>2. CASE ~ Top.suspended
  <2>1. status' = "deadFrame" /\ UNCHANGED <<program, scopes, frames, target, cut>> /\ target \in Nat
    BY <1>1, <1>2 DEF EndAwait, FlowInv
  <2> QED BY <2>1, Stops
<1>3. CASE Top.suspended
  <2>1. PICK n : n = Len(frames) - 1
    OBVIOUS
  <2>2. PICK fs : fs = Front(frames)
    OBVIOUS
  <2>3. /\ fs # << >> /\ Len(fs) = n /\ fs[n] = frames[n] /\ fs[n].kind \in Blocks
        /\ n + 1 \in 2..Len(frames) /\ (n + 1) - 1 = n /\ n + 1 = Len(frames)
    <3>1. /\ fs # << >> /\ Len(fs) = n /\ fs[n] = frames[n] /\ n \in 1..Len(frames)
          /\ Len(frames) \in Nat /\ Fits(frames[n], frames[Len(frames)])
      BY <1>1, <2>1, <2>2, Under
    <3>2. frames[n].kind \in Blocks
      BY <1>1, <3>1 DEF Fits
    <3> QED BY <2>1, <3>1, <3>2
  <2>4. Good(fs, scopes, cut)
    BY <1>1, <2>2, FrontGood DEF Scoped
  <2>5. ASSUME ~ cut, fs[n].got = << >> PROVE NoValue(scopes)
    <3>1. scopes[frames[n].at].policy = "Stay"
      BY <1>1, <2>3, <2>5 DEF Good, Exact, Paused
    <3>2. frames[n].at = Len(scopes)
      BY <2>3, <2>4, <2>5 DEF Good, Exact, Matched
    <3>3. Current(scopes) = scopes[Len(scopes)]
      BY <1>1, ScopesFacts DEF Good, Upright
    <3> QED BY <1>1, <2>5, <3>1, <3>2, <3>3, StayHasNoValue DEF Good, Upright, Exact
  <2>6. PICK kind, gs : kind = Top.result /\ gs = [fs EXCEPT ![n].got = Append(@, kind)]
    OBVIOUS
  <2>7. /\ frames' = gs /\ UNCHANGED status
        /\ scopes' = IF Top.try /\ kind = "error" THEN ReturnValue(scopes, "error") ELSE scopes
    BY <1>3, <2>1, <2>2, <2>6 DEF EndAwait
  <2>8. /\ Good(gs, scopes, cut) /\ gs # << >> /\ Len(gs) = n
        /\ gs[n].kind \in Blocks
        /\ \E k \in 1..Len(gs[n].got) : gs[n].got[k] = kind
    <3>1. gs = GotOn(fs, kind)
      BY <2>3, <2>6 DEF GotOn
    <3>2. /\ fs # << >> /\ fs[Len(fs)].kind \in Blocks
          /\ ~ cut /\ fs[Len(fs)].got = << >> => NoValue(scopes)
      BY <2>3, <2>5
    <3>3. /\ Good(gs, scopes, cut) /\ gs # << >> /\ Len(gs) = Len(fs)
          /\ gs[Len(fs)].kind \in Blocks
          /\ \E k \in 1..Len(gs[Len(fs)].got) : gs[Len(fs)].got[k] = kind
      BY <2>4, <3>1, <3>2, GotGood
    <3> QED BY <2>3, <3>3
  <2>9. Good(gs, scopes', cut)
    <3>1. CASE kind = "error"
      <4>1. Good(gs, ReturnValue(scopes, "error"), cut)
        BY <2>8, <3>1, ReturnGood
      <4> QED BY <2>7, <2>8, <4>1
    <3>2. CASE kind # "error"
      BY <2>7, <2>8, <3>2
    <3> QED BY <3>1, <3>2
  <2> QED BY <1>1, <2>7, <2>8, <2>9, GoesOn
<1> QED BY <1>2, <1>3

------------------------------------------------------------------------------
(* Timeouts, and the frames that they and exceptions destroy               *)

LEMMA TimeoutKeeps ==
  ASSUME FlowInv, NEW i \in DOMAIN frames, Timeout(i)
  PROVE  FlowInv'
<1>1. /\ i \in Awaits /\ status' = "unwinding" /\ target' = i
      /\ UNCHANGED <<program, scopes, frames, cut>>
  BY DEF Timeout
<1>2. IsSeq(frames)
  BY DEF FlowInv, Good, Upright, Stacked
<1>3. Len(frames) \in Nat /\ DOMAIN frames = 1..Len(frames)
  BY <1>2, Lengths, Domains
<1>4. i \in 1..Len(frames) /\ i \in Nat /\ frames[i].kind = "await"
  BY <1>1, <1>3 DEF Awaits
<1>5. Good(frames', scopes', cut')
  BY <1>1 DEF FlowInv
<1>6. Good(frames, scopes, cut)'
  BY <1>1, <1>5, PrimedGood
<1> QED BY <1>1, <1>4, <1>6 DEF FlowInv, Targeted

(* Of the program's frame nothing is left.                                 *)
LEMMA ProgramGoes ==
  ASSUME NEW fs, NEW ss, NEW c, Good(fs, ss, c), fs # << >>, fs[Len(fs)].kind = "program"
  PROVE  Good(Front(fs), ss, c)
<1>1. PICK n : n \in Nat /\ n = Len(fs) /\ n > 0 /\ n \in 1..n
  BY FramesFacts DEF Good, Upright
<1>2. n = 1
  BY <1>1 DEF Good, Upright, Stacked
<1>3. PICK gs : gs = Front(fs)
  OBVIOUS
<1>4. Len(gs) = 0 /\ IsSeq(gs)
  <2>1. IsSeq(fs)
    BY DEF Good, Upright, Stacked
  <2>2. IsSeq(gs) /\ Len(gs) = Len(fs) - 1
    BY <1>3, <2>1, Fronts
  <2>3. Len(fs) = 1
    BY <1>1, <1>2
  <2> QED BY <2>2, <2>3
<1>5. gs = << >>
  BY <1>4, Lengths
<1>6. Upright(gs, ss)
  BY <1>3, FrontUpright DEF Good
<1>7. ASSUME ~ c PROVE Exact(gs, ss) /\ Owned(gs, ss)
  <2>1. Matched(gs, ss) /\ Paused(gs, ss)
    BY <1>4, <1>5 DEF Matched, Paused
  <2>2. Left(ss)
    BY <1>7 DEF Good, Exact
  <2> QED BY <1>4, <2>1, <2>2 DEF Exact, Owned
<1> QED BY <1>3, <1>6, <1>7 DEF Good

LEMMA UnwindKeeps ==
  ASSUME FlowInv, Unwind
  PROVE  FlowInv'
<1>1. /\ status = "unwinding" /\ Len(frames) > target /\ frames' = Front(frames)
      /\ scopes' = IF Top.kind = "block" THEN Pop(scopes) ELSE scopes
      /\ cut' = (cut \/ Top.kind = "call")
      /\ UNCHANGED <<program, status, target>>
  BY DEF Unwind
<1>2. Good(frames, scopes, cut) /\ target \in Nat /\ Targeted
  BY DEF FlowInv
<1>3. IsSeq(frames) /\ frames # << >>
  <2>1. IsSeq(frames)
    BY <1>2 DEF Good, Upright, Stacked
  <2> QED BY <1>1, <1>2, <2>1, Lengths
<1>4. PICK n : /\ n \in Nat /\ n = Len(frames) /\ n > 0 /\ Top = frames[n]
               /\ IsFrame(frames[n])
  BY <1>2, <1>3, FramesFacts DEF Good, Upright, Top
<1>5. PICK gs : gs = Front(frames)
  OBVIOUS
<1>6. Len(gs) = n - 1 /\ \A k \in 1..n - 1 : gs[k] = frames[k]
  BY <1>3, <1>4, <1>5, Fronts
<1>7. cut \in BOOLEAN
  BY <1>2 DEF Good
<1>8. Good(gs, scopes', cut')
  <2>1. CASE Top.kind = "block"
    <3>1. Good(gs, Pop(scopes), cut)
      BY <1>2, <1>3, <1>4, <1>5, <2>1, LeaveGood
    <3>2. cut' = cut /\ scopes' = Pop(scopes)
      BY <1>1, <1>7, <2>1
    <3> QED BY <3>1, <3>2
  <2>2. CASE Top.kind = "call"
    <3>1. Upright(gs, scopes)
      BY <1>2, <1>3, <1>5, FrontUpright DEF Good
    <3>2. cut' = TRUE /\ scopes' = scopes
      BY <1>1, <1>7, <2>2
    <3> QED BY <3>1, <3>2 DEF Good
  <2>3. CASE Top.kind = "program"
    <3>1. Good(gs, scopes, cut)
      BY <1>2, <1>3, <1>4, <1>5, <2>3, ProgramGoes
    <3>2. cut' = cut /\ scopes' = scopes
      BY <1>1, <1>7, <2>3
    <3> QED BY <3>1, <3>2
  <2>4. CASE Top.kind \notin Scoped
    <3>1. Good(gs, scopes, cut)
      BY <1>2, <1>3, <1>4, <1>5, <2>4, FrontGood
    <3>2. cut' = cut /\ scopes' = scopes
      BY <1>1, <1>7, <2>4 DEF Scoped
    <3> QED BY <3>1, <3>2
  <2> QED BY <2>1, <2>2, <2>3, <2>4 DEF Scoped
<1>9. Good(frames, scopes, cut)'
  BY <1>1, <1>5, <1>8, PrimedGood
<1>10. Targeted'
  <2>1. ASSUME target > 0 PROVE target \in 1..Len(gs) /\ gs[target].kind = "await"
    <3>1. target \in 1..n - 1 /\ frames[target].kind = "await"
      BY <1>1, <1>2, <1>4, <2>1 DEF Targeted
    <3> QED BY <1>6, <3>1
  <2> QED BY <1>1, <1>5, <2>1 DEF Targeted
<1> QED BY <1>1, <1>2, <1>9, <1>10 DEF FlowInv

LEMMA TimeoutReturnsKeeps ==
  ASSUME FlowInv, TimeoutReturns
  PROVE  FlowInv'
<1>1. /\ status = "unwinding" /\ Len(frames) = target /\ target > 0
      /\ frames' = Resolve(frames, "error") /\ status' = "running" /\ target' = 0
      /\ UNCHANGED <<program, scopes, cut>>
  BY DEF TimeoutReturns
<1>2. Good(frames, scopes, cut) /\ target \in Nat /\ frames[Len(frames)].kind = "await"
  BY <1>1 DEF FlowInv, Targeted
<1>3. frames # << >>
  <2>1. IsSeq(frames)
    BY <1>2 DEF Good, Upright, Stacked
  <2> QED BY <1>1, <1>2, <2>1, Lengths
<1>4. Good(Resolve(frames, "error"), scopes, cut) /\ Resolve(frames, "error") # << >>
  BY <1>2, <1>3, ResolveGood
<1>5. Good(frames', scopes', cut') /\ frames' # << >>
  BY <1>1, <1>4
<1>6. Good(frames, scopes, cut)'
  BY <1>1, <1>5, PrimedGood
<1> QED BY <1>1, <1>5, <1>6 DEF FlowInv, Targeted

LEMMA FailKeeps ==
  ASSUME FlowInv, Fail
  PROVE  FlowInv'
<1>1. status' = "failed" /\ UNCHANGED <<program, scopes, frames, target, cut>> /\ target \in Nat
  BY DEF Fail, FlowInv
<1> QED BY <1>1, Stops

------------------------------------------------------------------------------
(* The invariant                                                           *)

LEMMA InitFlow ==
  ASSUME Init
  PROVE  FlowInv
<1>1. PICK f, s : /\ f = BlockFrame("program", "Function", "main", 1) /\ s = Scope("Function", 1)
                  /\ frames = <<f>> /\ scopes = <<s>>
  BY DEF Init, BaseScope
<1>2. status = "running" /\ target = 0 /\ cut = FALSE
  BY DEF Init
<1>3. /\ IsSeq(frames) /\ Len(frames) = 1 /\ frames[1] = f /\ frames # << >>
      /\ IsSeq(scopes) /\ Len(scopes) = 1 /\ scopes[1] = s
  <2>1. frames \in Seq({f}) /\ scopes \in Seq({s})
    BY <1>1
  <2> QED BY <1>1, <2>1 DEF IsSeq
<1>4. /\ Fields \subseteq DOMAIN s /\ s.type = "Function" /\ s.home = 1 /\ s.value = None
      /\ s.names = << >>
  BY <1>1 DEF Scope, Fields, NoNames
<1>5. IsFrame(f)
  <2>1. << >> \in Seq({})
    OBVIOUS
  <2>2. IsSeq(<< >>)
    BY <2>1 DEF IsSeq
  <2> QED BY <1>1, <2>2 DEF BlockFrame, IsFrame, Blocks
<1>6. /\ f.kind = "program" /\ f.at = 1 /\ f.type = "Function" /\ f.pc = 1 /\ f.got = << >>
  BY <1>1 DEF BlockFrame
<1>7. \A i : i \in 1..1 <=> i = 1
  OBVIOUS
<1>8. IsScopes(scopes)
  BY <1>3, <1>4, <1>7 DEF IsScopes
<1>9. Stacked(frames, scopes) /\ Adjacent(frames)
  BY <1>3, <1>5, <1>6, <1>7 DEF Stacked, Adjacent
<1>10. Matched(frames, scopes) /\ Left(scopes) /\ Paused(frames, scopes) /\ Tries(frames[1], scopes)
  BY <1>3, <1>4, <1>6, <1>7 DEF Matched, Left, Paused, Tries, ScopeType
<1>11. Declared(f.block, 1) = {}
  BY DEF Declared
<1>12. Owned(frames, scopes)
  <2>1. DOMAIN s.names = {}
    BY <1>4
  <2> QED BY <1>3, <1>6, <1>7, <1>11, <2>1 DEF Owned
<1>13. Good(frames, scopes, cut)
  BY <1>2, <1>3, <1>7, <1>8, <1>9, <1>10, <1>12 DEF Good, Upright, Exact
<1> QED BY <1>2, <1>3, <1>13 DEF FlowInv, Targeted

LEMMA NextFlow ==
  ASSUME FlowInv, Next
  PROVE  FlowInv'
<1>1. CASE RefuseStatement \/ EvalLiteral \/ EvalName \/ AwaitNothing
  BY <1>1, PartKeeps
<1>2. CASE RefuseCall \/ AnswerAtOnce
  BY <1>2, DeadFrameKeeps
<1>3. CASE StartCall
  BY <1>3, StartCallKeeps
<1>4. CASE StartRequest
  BY <1>4, StartRequestKeeps
<1>5. CASE Declare \/ Define
  BY <1>5, DeclareKeeps
<1>6. CASE Assign \/ Return \/ Break \/ Raise
  BY <1>6, LeavingKeeps
<1>7. CASE Delay
  BY <1>7, DelayKeeps
<1>8. CASE If
  BY <1>8, IfKeeps
<1>9. CASE Repeat
  BY <1>9, RepeatKeeps
<1>10. CASE Iterate
  BY <1>10, IterateKeeps
<1>11. CASE EndLoop \/ DelayExpires
  BY <1>11, EndLoopKeeps
<1>12. CASE EndBlock
  BY <1>12, EndBlockKeeps
<1>13. CASE EndProgram
  BY <1>13, EndProgramKeeps
<1>14. CASE EndCall
  BY <1>14, EndCallKeeps
<1>15. CASE EndAwait
  BY <1>15, EndAwaitKeeps
<1>16. CASE RequestAnswers \/ RequestFails
  BY <1>16, RequestKeeps
<1>17. CASE \E i \in DOMAIN frames : Timeout(i)
  BY <1>17, TimeoutKeeps
<1>18. CASE Unwind
  BY <1>18, UnwindKeeps
<1>19. CASE TimeoutReturns
  BY <1>19, TimeoutReturnsKeeps
<1>20. CASE Fail
  BY <1>20, FailKeeps
<1> QED BY <1>1, <1>2, <1>3, <1>4, <1>5, <1>6, <1>7, <1>8, <1>9, <1>10, <1>11, <1>12,
           <1>13, <1>14, <1>15, <1>16, <1>17, <1>18, <1>19, <1>20 DEF Next

(* The inductive invariant: each frame's scope is above those of the       *)
(* frames below it, of calls those of functions; until a call is destroyed *)
(* there are no other scopes, a function that returned is left, and a      *)
(* block's names are those it declared.                                    *)
THEOREM FlowHolds == Spec => []FlowInv
<1>1. Init => FlowInv
  BY InitFlow
<1>2. FlowInv /\ [Next]_vars => FlowInv'
  <2>1. ASSUME FlowInv, UNCHANGED vars PROVE FlowInv'
    <3>1. UNCHANGED <<program, scopes, frames, status, target, cut>>
      BY <2>1 DEF vars
    <3>2. Good(frames', scopes', cut')
      BY <2>1, <3>1 DEF FlowInv
    <3>3. Good(frames, scopes, cut)'
      BY <3>1, <3>2, PrimedGood
    <3> QED BY <2>1, <3>1, <3>3 DEF FlowInv, Targeted
  <2> QED BY <2>1, NextFlow
<1> QED BY <1>1, <1>2, PTL DEF Spec

LEMMA ScopesMatchInv ==
  ASSUME FlowInv
  PROVE  ScopesMatchFrames
<1>1. Upright(frames, scopes) /\ (~ cut => Exact(frames, scopes))
  BY DEF FlowInv, Good
<1>2. PICK n : n \in Nat /\ n = Len(frames) /\ DOMAIN frames = 1..n
  BY <1>1, Lengths, Domains DEF Upright, Stacked
<1>3. frames # << >> => frames[1].at = 1 /\ Top = frames[n] /\ n \in 1..n
  BY <1>1, <1>2, FramesFacts DEF Upright, Stacked, Top
<1>4. frames # << >> => Top.at <= Len(scopes)
  BY <1>1, <1>2, <1>3, ScopesFacts DEF Upright, Stacked
<1>5. ASSUME NEW i \in 2..n
      PROVE  frames[i].at >= frames[i - 1].at + (IF frames[i].kind \in Scoped THEN 1 ELSE 0)
  <2>1. i \in 1..n /\ i - 1 \in 1..n /\ i - 1 < i
    BY <1>2
  <2>2. frames[i - 1].at + Own(frames[i]) <= frames[i].at
    BY <1>1, <1>2, <2>1 DEF Upright, Stacked
  <2>3. frames[i].at \in 1..Len(scopes) /\ frames[i - 1].at \in 1..Len(scopes)
    BY <1>1, <1>2, <2>1 DEF Upright, Stacked
  <2> QED BY <2>2, <2>3 DEF Own
<1>6. ASSUME ~ cut
      PROVE  /\ frames # << >> => Top.at = Len(scopes)
             /\ \A i \in 2..n :
                  frames[i].at = frames[i - 1].at + (IF frames[i].kind \in Scoped THEN 1 ELSE 0)
             /\ \A i \in DOMAIN frames :
                  frames[i].kind \in Scoped => scopes[frames[i].at].type = ScopeType(frames[i])
  BY <1>1, <1>2, <1>3, <1>6 DEF Exact, Matched, Own
<1> QED BY <1>2, <1>3, <1>4, <1>5, <1>6 DEF ScopesMatchFrames

(* For any programs, a frame's own scope is there as long as the frame, in *)
(* the order of the frames, and until a call is destroyed there are no     *)
(* other scopes (EvaluationScope::push and pop).                           *)
THEOREM ScopesMatch == Spec => []ScopesMatchFrames
BY FlowHolds, ScopesMatchInv, PTL

LEMMA NamesInv ==
  ASSUME FlowInv
  PROVE  NamesAreOwn
<1>1. IsSeq(frames) /\ (~ cut => Owned(frames, scopes))
  BY DEF FlowInv, Good, Upright, Stacked
<1>2. DOMAIN frames = 1..Len(frames)
  BY <1>1, Domains
<1> QED BY <1>1, <1>2 DEF NamesAreOwn, Owned

(* For any programs, the names in the scope of a block are those that it   *)
(* declared, whatever ran in between (Scope::add, the scope guards).       *)
THEOREM NamesStay == Spec => []NamesAreOwn
BY FlowHolds, NamesInv, PTL

------------------------------------------------------------------------------
(* Calls leave their caller's scopes alone                                 *)

(* Below the scopes of functions, zs is like ss.                           *)
Spared(zs, ss) ==
  /\ IsSeq(zs)
  /\ \A a \in 1..Len(ss) :
       ss[a].type = "Function" => a - 1 <= Len(zs) /\ \A k \in 1..a - 1 : zs[k] = ss[k]

LEMMA ShapedSpares ==
  ASSUME NEW ss, IsScopes(ss), NEW zs, NEW v,
         Returned(zs, ss, v) \/ Broke(zs, ss) \/ Named(zs, ss)
  PROVE  Spared(zs, ss)
<1>1. PICK m : m \in Nat /\ m = Len(ss) /\ m > 0 /\ m \in 1..m
  BY ScopesFacts
<1>2. IsSeq(zs) /\ Len(zs) = m
  BY <1>1 DEF Returned, Broke, Named, Shaped
<1>3. ASSUME NEW a \in 1..m, ss[a].type = "Function"
      PROVE  a - 1 <= m /\ \A k \in 1..a - 1 : zs[k] = ss[k]
  <2>1. ss[m].home >= a
    BY <1>1, <1>3 DEF IsScopes
  <2>2. \A k \in 1..a - 1 : k \in 1..m /\ k < m /\ k < ss[m].home
    <3>1. ss[m].home \in 1..m
      BY <1>1 DEF IsScopes
    <3> QED BY <1>1, <2>1, <3>1
  <2>3. \A k \in 1..a - 1 : zs[k] = ss[k]
    BY <1>1, <2>2 DEF Returned, Broke, Named
  <2> QED BY <1>1, <2>3
<1> QED BY <1>1, <1>2, <1>3 DEF Spared

LEMMA PushedSpares ==
  ASSUME NEW ss, IsScopes(ss), NEW zs, NEW type, Pushed(zs, ss, type)
  PROVE  Spared(zs, ss)
<1>1. PICK m : m \in Nat /\ m = Len(ss)
  BY ScopesFacts
<1>2. \A a \in 1..m : a - 1 <= m + 1 /\ \A k \in 1..a - 1 : k \in 1..m
  BY <1>1
<1> QED BY <1>1, <1>2 DEF Pushed, Spared

LEMMA PoppedSpares ==
  ASSUME NEW ss, IsScopes(ss), NEW zs, Popped(zs, ss)
  PROVE  Spared(zs, ss)
<1>1. PICK m : m \in Nat /\ m = Len(ss)
  BY ScopesFacts
<1>2. /\ IsSeq(zs) /\ Len(zs) = m - 1
      /\ \A k \in 1..m - 1 : k < m - 1 \/ ss[m].type = "Function" => zs[k] = ss[k]
  BY <1>1 DEF Popped
<1>3. ASSUME NEW a \in 1..m, ss[a].type = "Function", NEW k \in 1..a - 1
      PROVE  zs[k] = ss[k]
  <2>1. k \in 1..m - 1
    BY <1>1
  <2>2. k < m - 1 \/ a = m
    BY <1>1
  <2> QED BY <1>2, <1>3, <2>1, <2>2
<1>4. \A a \in 1..m : a - 1 <= m - 1
  BY <1>1
<1> QED BY <1>1, <1>2, <1>3, <1>4 DEF Spared

LEMMA StartCallSpares ==
  ASSUME FlowInv, StartCall
  PROVE  Spared(scopes', scopes)
<1>1. IsScopes(scopes)
  BY DEF FlowInv, Good, Upright
<1>2. PICK called : called = Push(scopes, "Function")
  OBVIOUS
<1>3. PICK bound : scopes' = Push([called EXCEPT ![Len(called)].names = bound], "Local")
  BY <1>2 DEF StartCall
<1>4. PICK named : named = [called EXCEPT ![Len(called)].names = bound]
  OBVIOUS
<1>5. Pushed(called, scopes, "Function") /\ IsScopes(called)
  BY <1>1, <1>2, PushIs, PushedScopes
<1>6. Named(named, called) /\ IsScopes(named)
  <2>1. Named(named, called)
    BY <1>4, <1>5, NamesAre
  <2> QED BY <1>5, <2>1, ShapedScopes DEF Named
<1>7. Pushed(scopes', named, "Local")
  <2>1. PICK zs : zs = Push(named, "Local")
    OBVIOUS
  <2>2. Pushed(zs, named, "Local")
    BY <1>6, <2>1, PushIs
  <2> QED BY <1>3, <1>4, <2>1, <2>2
<1>8. PICK m : m \in Nat /\ m = Len(scopes)
  BY <1>1, ScopesFacts
<1>9. Len(called) = m + 1 /\ Len(named) = m + 1 /\ \A k \in 1..m : called[k] = scopes[k]
  BY <1>5, <1>6, <1>8 DEF Pushed, Named, Shaped
<1>10. \A k \in 1..m : named[k] = scopes[k]
  <2>1. \A k \in 1..m : k \in 1..m + 1 /\ k < m + 1
    BY <1>8
  <2> QED BY <1>6, <1>9, <2>1 DEF Named
<1>11. IsSeq(scopes') /\ Len(scopes') = m + 2 /\ \A k \in 1..m : scopes'[k] = scopes[k]
  <2>1. \A k \in 1..m : k \in 1..m + 1
    BY <1>8
  <2> QED BY <1>7, <1>8, <1>9, <1>10, <2>1 DEF Pushed
<1>12. \A a \in 1..m : a - 1 <= m + 2 /\ \A k \in 1..a - 1 : k \in 1..m
  BY <1>8
<1> QED BY <1>8, <1>11, <1>12 DEF Spared

LEMMA SameSpares ==
  ASSUME NEW ss, IsScopes(ss)
  PROVE  Spared(ss, ss)
<1>1. Len(ss) \in Nat
  BY ScopesFacts
<1> QED BY <1>1 DEF Spared, IsScopes

(* What a step can make of the scopes.                                     *)
LEMMA ScopeSteps ==
  ASSUME Next
  PROVE  \/ scopes' = scopes
         \/ \E name, kind : scopes' = Add(scopes, name, kind)
         \/ \E v : scopes' = ReturnValue(scopes, v)
         \/ scopes' = BreakLoop(scopes)
         \/ \E type : scopes' = Push(scopes, type)
         \/ scopes' = Pop(scopes)
         \/ StartCall
<1>1. CASE Throw
  BY <1>1 DEF Throw
<1>2. CASE RefuseStatement \/ EvalLiteral \/ EvalName \/ AwaitNothing
  BY <1>2 DEF RefuseStatement, EvalLiteral, EvalName, AwaitNothing, Throw
<1>3. CASE RefuseCall \/ AnswerAtOnce \/ StartRequest
  BY <1>3 DEF RefuseCall, AnswerAtOnce, StartRequest
<1>4. CASE Declare \/ Define
  BY <1>1, <1>4 DEF Declare, Define
<1>5. CASE Assign \/ Delay \/ Repeat
  BY <1>1, <1>5 DEF Assign, Delay, Repeat
<1>6. CASE Return \/ Break \/ Raise
  BY <1>1, <1>6 DEF Return, Break, Raise
<1>7. CASE If
  BY <1>1, <1>7 DEF If
<1>8. CASE Iterate \/ EndLoop \/ EndBlock \/ EndProgram
  BY <1>8 DEF Iterate, EndLoop, EndBlock, EndProgram
<1>9. CASE EndCall
  BY <1>1, <1>9 DEF EndCall
<1>10. CASE EndAwait
  BY <1>10 DEF EndAwait
<1>11. CASE DelayExpires \/ RequestAnswers \/ RequestFails
  BY <1>1, <1>11 DEF DelayExpires, RequestAnswers, RequestFails
<1>12. CASE \E i \in DOMAIN frames : Timeout(i)
  BY <1>12 DEF Timeout
<1>13. CASE Unwind \/ TimeoutReturns \/ Fail
  BY <1>13 DEF Unwind, TimeoutReturns, Fail
<1> QED BY <1>2, <1>3, <1>4, <1>5, <1>6, <1>7, <1>8, <1>9, <1>10, <1>11, <1>12, <1>13 DEF Next

LEMMA StepSpares ==
  ASSUME FlowInv, Next
  PROVE  Spared(scopes', scopes)
<1>1. IsScopes(scopes)
  BY DEF FlowInv, Good, Upright
<1>2. CASE scopes' = scopes
  BY <1>1, <1>2, SameSpares
<1>3. CASE \E name, kind : scopes' = Add(scopes, name, kind)
  <2>1. PICK name, kind, zs : zs = Add(scopes, name, kind) /\ scopes' = zs
    BY <1>3
  <2>2. Named(zs, scopes)
    BY <1>1, <2>1, AddIs
  <2> QED BY <1>1, <2>1, <2>2, ShapedSpares
<1>4. CASE \E v : scopes' = ReturnValue(scopes, v)
  <2>1. PICK v, zs : zs = ReturnValue(scopes, v) /\ scopes' = zs
    BY <1>4
  <2>2. Returned(zs, scopes, v)
    BY <1>1, <2>1, ReturnIs
  <2> QED BY <1>1, <2>1, <2>2, ShapedSpares
<1>5. CASE scopes' = BreakLoop(scopes)
  <2>1. PICK zs : zs = BreakLoop(scopes) /\ scopes' = zs
    BY <1>5
  <2>2. Broke(zs, scopes)
    BY <1>1, <2>1, BreakIs
  <2> QED BY <1>1, <2>1, <2>2, ShapedSpares
<1>6. CASE \E type : scopes' = Push(scopes, type)
  <2>1. PICK type, zs : zs = Push(scopes, type) /\ scopes' = zs
    BY <1>6
  <2>2. Pushed(zs, scopes, type)
    BY <1>1, <2>1, PushIs
  <2> QED BY <1>1, <2>1, <2>2, PushedSpares
<1>7. CASE scopes' = Pop(scopes)
  <2>1. PICK zs : zs = Pop(scopes) /\ scopes' = zs
    BY <1>7
  <2>2. Popped(zs, scopes)
    BY <1>1, <2>1, PopIs
  <2> QED BY <1>1, <2>1, <2>2, PoppedSpares
<1>8. CASE StartCall
  BY <1>8, StartCallSpares
<1> QED BY <1>2, <1>3, <1>4, <1>5, <1>6, <1>7, <1>8, ScopeSteps

(* For any programs, no step in a workflow, at its end or in its           *)
(* destruction changes a scope of its callers: neither a return nor a      *)
(* declaration of the workflow reaches them.                               *)
THEOREM CallersStay == Spec => CallersUntouched
<1>1. ASSUME FlowInv, Next, NEW i \in DOMAIN frames, frames[i].kind = "call"
      PROVE  SubSeq(scopes', 1, frames[i].at - 1) = SubSeq(scopes, 1, frames[i].at - 1)
  <2>1. IsSeq(frames) /\ IsSeq(scopes) /\ IsScopes(scopes) /\ Stacked(frames, scopes)
    BY <1>1 DEF FlowInv, Good, Upright, Stacked, IsScopes
  <2>2. i \in 1..Len(frames)
    BY <2>1, Domains
  <2>3. frames[i].at \in 1..Len(scopes) /\ scopes[frames[i].at].type = "Function"
    BY <1>1, <2>1, <2>2 DEF Stacked
  <2>4. PICK a : a = frames[i].at - 1
    OBVIOUS
  <2>5. PICK zs : zs = scopes'
    OBVIOUS
  <2>6. /\ IsSeq(zs) /\ frames[i].at - 1 <= Len(zs)
        /\ \A k \in 1..frames[i].at - 1 : zs[k] = scopes[k]
    BY <1>1, <2>3, <2>5, StepSpares DEF Spared
  <2>7. a \in Nat /\ a <= Len(scopes)
    <3>1. Len(scopes) \in Nat
      BY <2>1, ScopesFacts
    <3> QED BY <2>3, <2>4, <3>1
  <2>8. SubSeq(zs, 1, a) = SubSeq(scopes, 1, a)
    <3>1. IsSeq(zs) /\ a <= Len(zs) /\ \A k \in 1..a : zs[k] = scopes[k]
      BY <2>4, <2>6
    <3> QED BY <2>1, <2>7, <3>1, EqualPrefixes
  <2> QED BY <2>4, <2>5, <2>8
<1>2. FlowInv /\ [Next]_vars =>
        [\A i \in DOMAIN frames :
           frames[i].kind = "call" => SubSeq(scopes', 1, frames[i].at - 1)
                                        = SubSeq(scopes, 1, frames[i].at - 1)]_vars
  BY <1>1
<1> QED BY <1>2, FlowHolds, PTL DEF Spec, CallersUntouched

------------------------------------------------------------------------------
(* A return ends its workflow                                              *)

(* t is the frame at i.                                                    *)
Has(fs, i, t) == IsSeq(fs) /\ i \in 1..Len(fs) /\ fs[i] = t

LEMMA AppendHas ==
  ASSUME NEW fs, NEW i, NEW t, Has(fs, i, t), NEW f
  PROVE  Has(Append(fs, f), i, t)
<1>1. PICK gs : gs = Append(fs, f)
  OBVIOUS
<1>2. /\ IsSeq(gs) /\ Len(gs) = Len(fs) + 1 /\ Len(fs) \in Nat
      /\ \A k \in 1..Len(fs) : gs[k] = fs[k]
  BY <1>1, Appends DEF Has
<1>3. i \in 1..Len(gs) /\ gs[i] = t
  BY <1>2 DEF Has
<1> QED BY <1>1, <1>2, <1>3 DEF Has

LEMMA SetHas ==
  ASSUME NEW fs, NEW i, NEW t, Has(fs, i, t), i # Len(fs), NEW x
  PROVE  Has(With(fs, Len(fs), x), i, t)
<1>1. PICK n : n = Len(fs)
  OBVIOUS
<1>2. n \in 1..Len(fs) /\ i \in 1..Len(fs) /\ IsSeq(fs) /\ i # n
  BY <1>1, Lengths DEF Has
<1>3. PICK gs : gs = With(fs, n, x)
  OBVIOUS
<1>4. IsSeq(gs) /\ Len(gs) = Len(fs) /\ \A k \in 1..Len(fs) : k # n => gs[k] = fs[k]
  BY <1>2, <1>3, Sets
<1> QED BY <1>1, <1>2, <1>3, <1>4 DEF Has

LEMMA FrontHas ==
  ASSUME NEW fs, NEW i, NEW t, Has(fs, i, t), i \in 1..Len(fs) - 1
  PROVE  Has(Front(fs), i, t)
<1>1. fs # << >>
  BY Lengths DEF Has
<1> QED BY <1>1, Fronts DEF Has

LEMMA SteppedHas ==
  ASSUME NEW fs, NEW i, NEW t, Has(fs, i, t), i # Len(fs)
  PROVE  Has(Stepped(fs), i, t)
<1>1. i \in 1..Len(fs) - 1
  BY Lengths DEF Has
<1>2. Has(Front(fs), i, t)
  BY <1>1, FrontHas
<1> QED BY <1>2, AppendHas DEF Stepped

LEMMA SuspendHas ==
  ASSUME NEW fs, NEW i, NEW t, Has(fs, i, t), t.kind \in Blocks
  PROVE  Has(Suspend(fs), i, t)
<1>1. PICK n : n \in Nat /\ n = Len(fs) /\ DOMAIN fs = 1..n
  BY Lengths, Domains DEF Has
<1>2. PICK gs : gs = Suspend(fs)
  OBVIOUS
<1>3. gs = [k \in 1..n |-> IF fs[k].kind = "await" THEN [fs[k] EXCEPT !.suspended = TRUE] ELSE fs[k]]
  BY <1>1, <1>2 DEF Suspend
<1>4. IsSeq(gs) /\ Len(gs) = n
  <2>1. PICK T : T = {gs[k] : k \in 1..n}
    OBVIOUS
  <2>2. gs \in [1..n -> T]
    BY <1>3, <2>1
  <2>3. gs \in Seq(T) /\ Len(gs) = n
    BY <1>1, <2>2
  <2> QED BY <2>3 DEF IsSeq
<1>5. i \in 1..n /\ gs[i] = t
  BY <1>1, <1>3 DEF Has, Blocks
<1> QED BY <1>2, <1>4, <1>5 DEF Has

LEMMA ResolveHas ==
  ASSUME NEW fs, NEW i, NEW t, Has(fs, i, t), i # Len(fs), NEW kind
  PROVE  Has(Resolve(fs, kind), i, t) /\ Has(GotOn(fs, kind), i, t)
<1>1. PICK x, y : /\ x = [fs[Len(fs)] EXCEPT !.result = kind]
                  /\ y = [fs[Len(fs)] EXCEPT !.got = Append(@, kind)]
  OBVIOUS
<1>2. Resolve(fs, kind) = With(fs, Len(fs), x) /\ GotOn(fs, kind) = With(fs, Len(fs), y)
  BY <1>1 DEF Resolve, GotOn, With
<1> QED BY <1>2, SetHas

(* The block at i is between two statements, and its function returned.    *)
Over(i) ==
  /\ ~ cut /\ frames[i].kind \in Blocks /\ frames[i].got = << >>
  /\ scopes[scopes[frames[i].at].home].value # None

LEMMA OverFacts ==
  ASSUME FlowInv, NEW i \in DOMAIN frames, Over(i)
  PROVE  /\ i \in 1..Len(frames) /\ Len(frames) \in Nat /\ frames # << >>
         /\ Has(frames, i, frames[i]) /\ Good(frames, scopes, cut)
         /\ Exact(frames, scopes) /\ Upright(frames, scopes)
<1>1. /\ Good(frames, scopes, cut) /\ Exact(frames, scopes) /\ Upright(frames, scopes)
      /\ IsSeq(frames)
  BY DEF FlowInv, Good, Upright, Stacked, Over
<1>2. i \in 1..Len(frames) /\ Len(frames) \in Nat
  BY <1>1, Domains, Lengths
<1>3. frames # << >>
  BY <1>1, <1>2, Lengths
<1> QED BY <1>1, <1>2, <1>3 DEF Has

(* Such a block is not on top of the stack where a statement goes on.      *)
LEMMA OverNotRuns ==
  ASSUME FlowInv, InStatement, NEW i \in DOMAIN frames, Over(i)
  PROVE  i # Len(frames)
<1>1. SUFFICES ASSUME i = Len(frames) PROVE FALSE
  OBVIOUS
<1>2. /\ Exact(frames, scopes) /\ frames # << >>
  BY OverFacts
<1>3. frames[i].at = Len(scopes) /\ Top = frames[i]
  BY <1>1, <1>2, InStatementFacts DEF Exact, Matched
<1>4. NoValue(scopes)
  BY <1>3, InStatementFacts DEF Over
<1> QED BY <1>3, <1>4 DEF Over, NoValue

(* Nor under an await that ends.                                           *)
LEMMA OverNotAwaits ==
  ASSUME FlowInv, NEW i \in DOMAIN frames, Over(i), frames[Len(frames)].kind = "await"
  PROVE  i \in 1..Len(frames) - 1 /\ i # Len(frames) - 1
<1>1. PICK n : n = Len(frames)
  OBVIOUS
<1>2. /\ i \in 1..n /\ n \in Nat /\ Exact(frames, scopes) /\ Upright(frames, scopes)
  BY <1>1, OverFacts
<1>3. i # n
  BY <1>1 DEF Over, Blocks
<1>4. ASSUME i = n - 1 PROVE FALSE
  <2>1. n \in 2..n /\ n \in 1..n /\ i \in 1..n /\ i \in 1..Len(frames)
    BY <1>1, <1>2, <1>4
  <2>2. frames[n].kind = "await" /\ frames[n - 1].got = << >>
    BY <1>1, <1>4 DEF Over
  <2>3. scopes[frames[i].at].policy = "Stay"
    BY <1>1, <1>2, <1>4, <2>1, <2>2 DEF Exact, Paused
  <2>4. frames[n].at = frames[n - 1].at + Own(frames[n]) /\ frames[n].at = Len(scopes)
    BY <1>1, <1>2, <2>1, OverFacts DEF Exact, Matched
  <2>5. frames[i].at \in 1..Len(scopes) /\ Own(frames[n]) = 0
    BY <1>2, <2>1, <2>2 DEF Upright, Stacked, Own, Scoped
  <2>6. frames[i].at = Len(scopes) /\ Current(scopes) = scopes[Len(scopes)]
    <3>1. Len(scopes) \in Nat /\ Current(scopes) = scopes[Len(scopes)]
      BY <1>2, ScopesFacts DEF Upright
    <3> QED BY <1>4, <2>4, <2>5, <3>1
  <2>7. NoValue(scopes)
    BY <1>2, <2>3, <2>6, StayHasNoValue DEF Upright, Exact
  <2> QED BY <2>6, <2>7 DEF Over, NoValue
<1> QED BY <1>1, <1>2, <1>3, <1>4

LEMMA OverInStatement ==
  ASSUME FlowInv, InStatement, NEW i \in DOMAIN frames, Over(i),
         \/ EvalLiteral \/ EvalName \/ StartCall \/ StartRequest \/ Declare \/ Define \/ Assign
         \/ Delay \/ Return \/ Break \/ Raise \/ If \/ Repeat,
         frames' # frames
  PROVE  Has(frames', i, frames[i])
<1>1. PICK t : t = frames[i]
  OBVIOUS
<1>2. Has(frames, i, t) /\ i # Len(frames) /\ t.kind \in Blocks /\ IsSeq(frames)
  BY <1>1, OverFacts, OverNotRuns DEF Over, Has
<1>3. ~ Throw
  BY DEF Throw
<1>4. CASE EvalLiteral \/ EvalName
  <2>1. PICK kind : frames' = GotOn(frames, kind)
    BY <1>3, <1>4 DEF EvalLiteral, EvalName, Got, GotOn
  <2> QED BY <1>1, <1>2, <2>1, ResolveHas
<1>5. CASE StartCall
  <2>1. PICK a, w, b : frames' = frames \o <<a, w, b>>
    BY <1>5 DEF StartCall
  <2>2. frames' = Append(Append(Append(frames, a), w), b)
    BY <1>2, <2>1, Puts
  <2> QED BY <1>1, <1>2, <2>2, AppendHas
<1>6. CASE StartRequest
  <2>1. PICK a, g : frames' = Suspend(frames \o <<a, g>>)
    BY <1>6 DEF StartRequest
  <2>2. frames \o <<a, g>> = Append(Append(frames, a), g)
    BY <1>2, Puts
  <2>3. Has(Append(Append(frames, a), g), i, t)
    BY <1>2, AppendHas
  <2> QED BY <1>1, <1>2, <2>1, <2>2, <2>3, SuspendHas
<1>7. Has(Stepped(frames), i, t) /\ IsSeq(Stepped(frames))
  <2>1. Has(Stepped(frames), i, t)
    BY <1>2, SteppedHas
  <2> QED BY <2>1 DEF Has
<1>8. CASE Declare \/ Define \/ Assign \/ Return \/ Break \/ Raise
  <2>1. Advance(<< >>)
    BY <1>3, <1>8 DEF Declare, Define, Assign, Return, Break, Raise
  <2>2. frames' = Stepped(frames)
    BY <2>1, AdvanceIs
  <2> QED BY <1>1, <1>7, <2>2
<1>9. CASE If \/ Repeat
  <2>1. Advance(<< >>) \/ \E f : Advance(<<f>>)
    BY <1>3, <1>9 DEF If, Repeat
  <2>2. CASE Advance(<< >>)
    <3>1. frames' = Stepped(frames)
      BY <2>2, AdvanceIs
    <3> QED BY <1>1, <1>7, <3>1
  <2>3. CASE \E f : Advance(<<f>>)
    <3>1. PICK f : Advance(<<f>>)
      BY <2>3
    <3>2. frames' = Stepped(frames) \o <<f>>
      BY <3>1, AdvanceIs
    <3>3. frames' = Append(Stepped(frames), f)
      BY <1>7, <3>2, Puts
    <3> QED BY <1>1, <1>7, <3>3, AppendHas
  <2> QED BY <2>1, <2>2, <2>3
<1>10. CASE Delay
  <2>1. PICK f : frames' = Suspend(Append(Front(frames), NextStatement) \o <<f>>)
    BY <1>3, <1>10 DEF Delay
  <2>2. Append(Front(frames), NextStatement) = Stepped(frames)
    BY InStatementFacts DEF NextStatement, Stepped
  <2>3. Stepped(frames) \o <<f>> = Append(Stepped(frames), f)
    BY <1>7, Puts
  <2>4. Has(Append(Stepped(frames), f), i, t)
    BY <1>7, AppendHas
  <2> QED BY <1>1, <1>2, <2>1, <2>2, <2>3, <2>4, SuspendHas
<1> QED BY <1>4, <1>5, <1>6, <1>8, <1>9, <1>10

LEMMA OverAround ==
  ASSUME FlowInv, NEW i \in DOMAIN frames, Over(i),
         \/ Iterate \/ EndLoop \/ EndBlock \/ EndCall \/ EndAwait
         \/ DelayExpires \/ RequestAnswers \/ Unwind \/ TimeoutReturns,
         frames' # frames, i \in DOMAIN frames'
  PROVE  frames'[i] = frames[i]
<1>1. PICK t, n : t = frames[i] /\ n = Len(frames)
  OBVIOUS
<1>2. /\ Has(frames, i, t) /\ t.kind \in Blocks /\ i \in 1..n /\ n \in Nat
      /\ Good(frames, scopes, cut) /\ frames # << >> /\ IsSeq(frames)
  BY <1>1, OverFacts DEF Over, Has
<1>3. /\ IsSeq(Front(frames)) /\ Len(Front(frames)) = n - 1
      /\ DOMAIN Front(frames) = 1..n - 1
  BY <1>1, <1>2, Fronts, Domains
<1>4. ~ Throw
  BY DEF Throw
<1>5. CASE EndLoop \/ EndBlock \/ DelayExpires \/ Unwind
  <2>1. frames' = Front(frames)
    BY <1>5 DEF EndLoop, EndBlock, DelayExpires, Unwind
  <2>2. Has(Front(frames), i, t)
    BY <1>1, <1>2, <1>3, <2>1, FrontHas
  <2> QED BY <1>1, <2>1, <2>2 DEF Has
<1>6. CASE EndCall \/ RequestAnswers
  <2>1. /\ Running({"call", "request"})
        /\ \E kind : frames' = Resolve(Front(frames), kind)
    BY <1>4, <1>6 DEF EndCall, RequestAnswers, Running
  <2>2. frames[n].kind \in {"call", "request"}
    BY <1>1, <2>1, RunningFacts
  <2>3. frames[n - 1].kind = "await"
    BY <1>1, <1>2, <2>2, Under DEF Fits
  <2>4. i # n /\ i # n - 1
    BY <1>1, <1>2, <2>2, <2>3 DEF Blocks
  <2>5. Has(Front(frames), i, t)
    BY <1>1, <1>2, <2>4, FrontHas
  <2>6. PICK kind : frames' = Resolve(Front(frames), kind)
    BY <2>1
  <2>7. Has(Resolve(Front(frames), kind), i, t)
    BY <1>3, <2>4, <2>5, ResolveHas
  <2> QED BY <1>1, <2>6, <2>7 DEF Has
<1>7. CASE EndAwait
  <2>1. Running({"await"})
    BY <1>7 DEF EndAwait
  <2>2. frames[Len(frames)].kind = "await"
    BY <2>1, RunningFacts
  <2>3. i \in 1..n - 1 /\ i # n - 1
    BY <1>1, <2>2, OverNotAwaits
  <2>4. Has(Front(frames), i, t)
    BY <1>1, <1>2, <2>3, FrontHas
  <2>5. PICK kind, fs : kind = Top.result /\ fs = Front(frames)
    OBVIOUS
  <2>6. frames' = GotOn(fs, kind)
    <3>1. frames' = [fs EXCEPT ![n - 1].got = Append(@, kind)]
      BY <1>1, <1>7, <2>5 DEF EndAwait
    <3>2. n - 1 = Len(fs)
      BY <1>3, <2>5
    <3> QED BY <3>1, <3>2 DEF GotOn
  <2>7. Has(GotOn(fs, kind), i, t)
    BY <1>3, <2>3, <2>4, <2>5, ResolveHas
  <2> QED BY <1>1, <2>6, <2>7 DEF Has
<1>8. CASE TimeoutReturns
  <2>1. frames' = Resolve(frames, "error") /\ frames[n].kind = "await"
    BY <1>1, <1>8 DEF TimeoutReturns, FlowInv, Targeted
  <2>2. i # n
    BY <1>1, <1>2, <2>1 DEF Blocks
  <2>3. Has(Resolve(frames, "error"), i, t)
    BY <1>1, <1>2, <2>2, ResolveHas
  <2> QED BY <1>1, <2>1, <2>3 DEF Has
<1>9. CASE Iterate
  <2>1. Running({"repeat"})
    BY <1>9 DEF Iterate
  <2>2. frames[n].kind = "repeat"
    BY <1>1, <2>1, RunningFacts
  <2>3. i # n
    BY <1>1, <1>2, <2>2 DEF Blocks
  <2>4. PICK x, us, f : /\ x = [frames[n] EXCEPT !.left = @ - 1] /\ us = With(frames, n, x)
                        /\ f = BlockFrame("block", "Loop", Top.block, Len(scopes) + 1)
    OBVIOUS
  <2>5. frames' = Append(us, f)
    BY <1>1, <1>9, <2>4 DEF Iterate, With
  <2>6. Has(us, i, t)
    BY <1>1, <1>2, <2>3, <2>4, SetHas
  <2>7. Has(Append(us, f), i, t)
    BY <2>6, AppendHas
  <2> QED BY <1>1, <2>5, <2>7 DEF Has
<1> QED BY <1>5, <1>6, <1>7, <1>8, <1>9

(* For any programs, once a workflow has a return value no block of it     *)
(* begins another statement, up to the destruction of a call: a return, a  *)
(* raise or the error of a try ends it.                                    *)
THEOREM ReturnsEnd == Spec => ReturnEnds
<1>1. ASSUME FlowInv, Next, NEW i \in DOMAIN frames \intersect DOMAIN frames', Over(i)
      PROVE  frames'[i] = frames[i]
  <2>1. CASE frames' = frames
    BY <2>1
  <2>2. CASE \/ RefuseStatement \/ AwaitNothing \/ RefuseCall \/ AnswerAtOnce \/ EndProgram
             \/ RequestFails \/ Fail \/ \E k \in DOMAIN frames : Timeout(k)
    <3>1. frames' = frames
      BY <2>2 DEF RefuseStatement, AwaitNothing, RefuseCall, AnswerAtOnce, EndProgram,
                  RequestFails, Fail, Timeout, Throw
    <3> QED BY <3>1
  <2>3. CASE \/ EvalLiteral \/ EvalName \/ StartCall \/ StartRequest \/ Declare \/ Define
             \/ Assign \/ Delay \/ Return \/ Break \/ Raise \/ If \/ Repeat
    <3>1. InStatement
      BY <2>3 DEF EvalLiteral, EvalName, StartCall, StartRequest, Awaited, Eval, Declare, Define,
                  Assign, Delay, Return, Break, Raise, If, Repeat, Execute
    <3> QED BY <1>1, <2>1, <2>3, <3>1, OverInStatement DEF Has
  <2>4. CASE \/ Iterate \/ EndLoop \/ EndBlock \/ EndCall \/ EndAwait
             \/ DelayExpires \/ RequestAnswers \/ Unwind \/ TimeoutReturns
    BY <1>1, <2>1, <2>4, OverAround
  <2> QED BY <1>1, <2>2, <2>3, <2>4 DEF Next
<1>2. FlowInv /\ [Next]_vars =>
        [\A i \in DOMAIN frames \intersect DOMAIN frames' :
           (/\ ~cut
            /\ frames[i].kind \in Blocks /\ frames[i].got = << >>
            /\ scopes[scopes[frames[i].at].home].value # None)
           => frames'[i] = frames[i]]_vars
  BY <1>1 DEF Over
<1> QED BY <1>2, FlowHolds, PTL DEF Spec, ReturnEnds
=============================================================================
