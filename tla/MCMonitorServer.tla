-------------------------- MODULE MCMonitorServer --------------------------
(* Instances of MonitorServer for TLC.                                      *)
EXTENDS MonitorServer, TLC

CONSTANT v1

OneViewer == {v1}
=============================================================================
