------------------------------ MODULE MCAlerts ------------------------------
(* Instances of AlertPipeline for TLC: the constants are given in the cfgs. *)
EXTENDS AlertPipeline

=============================================================================
