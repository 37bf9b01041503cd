----------------------------- MODULE AtomicSpec -----------------------------
(***************************************************************************)
(* What ez::Atomic promises: every access to a protected object takes      *)
(* effect at one instant.                                                  *)
(***************************************************************************)
CONSTANTS
  Objects,      (* the protected objects                                   *)
  Threads,
  Values,       (* the values they hold                                    *)
  Edited,       (* the value an edit makes of a value                      *)
  MovedFrom     (* the value of a new or moved-from object                 *)

VARIABLES
  data,         (* the value of each object                                *)
  seen          (* what each thread read last                              *)

Init ==
  /\ data \in [Objects -> Values]
  /\ seen \in [Threads -> Values]

Read(t, a) == seen' = [seen EXCEPT ![t] = data[a]] /\ UNCHANGED data

Edit(a) == data' = [data EXCEPT ![a] = Edited[data[a]]] /\ UNCHANGED seen

Copy(a, b) == data' = [data EXCEPT ![a] = data[b]] /\ UNCHANGED seen

Move(a, b) ==
  data' = [data EXCEPT ![b] = MovedFrom, ![a] = data[b]] /\ UNCHANGED seen

Take(t, a) ==
  /\ seen' = [seen EXCEPT ![t] = data[a]]
  /\ data' = [data EXCEPT ![a] = MovedFrom]

Next ==
  \E a \in Objects :
    \/ \E t \in Threads : Read(t, a) \/ Take(t, a)
    \/ Edit(a)
    \/ \E b \in Objects : Copy(a, b) \/ Move(a, b)

Spec == Init /\ [][Next]_<<data, seen>>
=============================================================================
