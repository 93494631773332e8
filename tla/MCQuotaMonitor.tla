--------------------------- MODULE MCQuotaMonitor ---------------------------
(* Instances of QuotaMonitor for TLC: the constants are given in the cfgs. *)
EXTENDS QuotaMonitor
=============================================================================
