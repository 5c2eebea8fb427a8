------------------------- MODULE MCSpeechRecognition -------------------------
(* SpeechRecognition alone, for TLC: the bounds are given by the .cfg files. *)
EXTENDS SpeechRecognition
===============================================================================
