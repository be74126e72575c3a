--------------------------- MODULE MCReportBuild ---------------------------
(* Small instances of ReportBuild.  The .cfg files give the constants.      *)
EXTENDS ReportBuild, TLC

CONSTANT Span   \* response time claimed by ReportsSettle and JobsFollow

ReportsSettle == BuiltWithin(Span)
JobsFollow == JobWithin(Span)

Interchangeable == Permutations(Builder)
=============================================================================
