-------------------------- MODULE MCReportProgress ---------------------------
(***************************************************************************)
(* A root over an excluded leaf and a report of two leaves with a writer   *)
(* each, whose updates meet in both reports above them.                    *)
(***************************************************************************)
EXTENDS ReportProgress

MCReports == {"root", "mid", "a", "b", "c"}
MCParent  == [r \in MCReports |-> CASE r = "root" -> "none"
                                    [] r \in {"mid", "c"} -> "root"
                                    [] r \in {"a", "b"} -> "mid"]
MCSubs    == [r \in MCReports |-> CASE r = "root" -> <<"c", "mid">>
                                    [] r = "mid" -> <<"a", "b">>
                                    [] r \in {"a", "b", "c"} -> << >>]
MCWeight  == [r \in MCReports |-> CASE r = "c" -> 0
                                    [] r \in {"b", "mid", "root"} -> 1
                                    [] r = "a" -> 2]
MCValues  == [r \in MCReports |-> CASE r = "a" -> {10, 411}
                                    [] r = "b" -> {60}
                                    [] r = "mid" -> {20}
                                    [] r \in {"root", "c"} -> {}]
=============================================================================
