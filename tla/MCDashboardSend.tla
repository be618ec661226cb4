--------------------------- MODULE MCDashboardSend ---------------------------
(* Small instances of DashboardSend.                                       *)
EXTENDS DashboardSend
=============================================================================
