---------------------------- MODULE MCRecordingPage ----------------------------
(* One recording page with its manager, for TLC: bounds in the .cfg files.   *)
EXTENDS RecordingPage
===============================================================================
