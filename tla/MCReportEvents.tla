--------------------------- MODULE MCReportEvents ---------------------------
(* Instances of ReportEvents for TLC.                                      *)
EXTENDS ReportEvents, TLC

CONSTANTS first, second, b1, b2

MCMaxKept == [message |-> 2, subReport |-> 1]

Symmetry == Permutations({first, second}) \union Permutations({b1, b2})
=============================================================================
