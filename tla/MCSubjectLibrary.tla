--------------------------- MODULE MCSubjectLibrary ---------------------------
(* The subject library for TLC: values of the constants that a .cfg file      *)
(* cannot write down, the other bounds are in the .cfg files.                 *)
EXTENDS SubjectLibrary

MCNames == {"Math", "Art", "Law"}
MCNoSubjects == <<>>
MCFirstNames == <<"Math", "Art">>

\* The smallest library in which there is something to find, delete and add.
MCTwoNames == {"Math", "Art"}
MCOneSubject == <<"Math">>
===============================================================================
