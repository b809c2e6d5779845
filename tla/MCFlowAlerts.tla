---------------------------- MODULE MCFlowAlerts ----------------------------
(***************************************************************************)
(* Instances of FlowAlerts: alert 1 is a notice of the client, alert 2 is  *)
(* a critical one of both ends.                                            *)
(***************************************************************************)
EXTENDS FlowAlerts

MCCliScore == [a \in Alerts |-> IF a = 1 THEN 10 ELSE 120]
MCSrvScore == [a \in Alerts |-> IF a = 1 THEN 0 ELSE 100]
=============================================================================
