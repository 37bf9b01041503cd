-------------------------------- MODULE MCRpc --------------------------------
(* Instances of Rpc for TLC: two calls with chosen fates.         *)
EXTENDS Rpc, TLC

CONSTANTS c1, c2

(* A call whose value the client cannot parse, and one with an argument    *)
(* the server cannot parse.                                                *)
KindBadData == (c1 :> "badValue") @@ (c2 :> "badArgs")

(* A function the service does not have, and an ordinary call next to it.  *)
KindUnknown == (c1 :> "unknown") @@ (c2 :> "value")
=============================================================================
