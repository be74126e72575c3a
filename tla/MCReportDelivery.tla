-------------------------- MODULE MCReportDelivery --------------------------
(* Small instances of ReportDelivery.  The .cfg files give the constants.   *)
EXTENDS ReportDelivery

CONSTANT Span   \* response time claimed by DeliverySettles

DeliverySettles == SettlesWithin(Span)
=============================================================================
