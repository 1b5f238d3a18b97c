------------------------------ MODULE MCAlerts ------------------------------
(* The instance of Alerts that TLC checks; the cfg files give the constants. *)
EXTENDS Alerts
=============================================================================
