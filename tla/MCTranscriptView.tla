--------------------------- MODULE MCTranscriptView ---------------------------
(* The transcript for TLC: three words, two of them one word in two spellings,  *)
(* and keywords of one word, of two, and without any.                           *)
EXTENDS TranscriptView

MCWords == {"exam", "Exam", "the"}

MCLower == [word \in MCWords \cup {"."} |-> IF word = "Exam" THEN "exam" ELSE word]

MCKeywordSets == {{<<"Exam">>}, {<<>>, <<"the", "exam">>}}
===============================================================================
