------------------------ MODULE MCThresholdMonitor ------------------------
(* Small instances of ThresholdMonitor for TLC. *)
EXTENDS ThresholdMonitor

CONSTANTS u1, e1, e2
=============================================================================
