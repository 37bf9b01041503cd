--------------------------- MODULE MCReportStatus ----------------------------
(***************************************************************************)
(* A root with a sub report that has one too.                              *)
(***************************************************************************)
EXTENDS ReportStatus

MCReports == {"root", "one", "deep"}
MCParent  == [r \in MCReports |->
                CASE r = "root" -> "none" [] r = "one" -> "root" [] r = "deep" -> "one"]
MCAbove   == [r \in MCReports |->
                CASE r = "root" -> {} [] r = "one" -> {"root"} [] r = "deep" -> {"root", "one"}]
=============================================================================
