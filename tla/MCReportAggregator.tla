------------------------ MODULE MCReportAggregator -------------------------
(* Small instances of ReportAggregator for TLC.                            *)
EXTENDS ReportAggregator
=============================================================================
