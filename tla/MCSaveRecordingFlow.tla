-------------------------- MODULE MCSaveRecordingFlow --------------------------
(* The save flow for TLC: bounds in the .cfg files.                          *)
EXTENDS SaveRecordingFlow
===============================================================================
