------------------------------ MODULE MCAtomic ------------------------------
(* An instance of Atomic for TLC.                                          *)
EXTENDS Atomic, TLC

CONSTANTS t1, t2

(* An edit increments the value, up to the largest one.                    *)
Increment == [v \in Values |-> IF v + 1 \in Values THEN v + 1 ELSE v]
=============================================================================
