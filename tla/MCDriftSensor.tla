---------------------------- MODULE MCDriftSensor ----------------------------
(* Small instances of DriftSensor for TLC. *)
EXTENDS DriftSensor
=============================================================================
