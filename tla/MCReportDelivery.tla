-------------------------- MODULE MCReportDelivery --------------------------
(***************************************************************************)
(* Two rounds; the bounds differ from run to run and stand in the .cfg.    *)
(***************************************************************************)
EXTENDS ReportDelivery

MCDocuments == [type : {"REPORT", "CONTINUOUS"}, time : Times]
                   \cup {OtherDocument}
=============================================================================
