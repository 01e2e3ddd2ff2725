------------------------------- MODULE MCScanRun -------------------------------
(* Instances of ScanRun for TLC. *)
EXTENDS ScanRun
===============================================================================
