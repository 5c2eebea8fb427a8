---------------------------- MODULE MCUserSession ----------------------------
(* Signing in and keywords for TLC: the array a document begins with (the code *)
(* puts three words in it); the other values are in the .cfg file.             *)
EXTENDS UserSession

MCDefaultKeywords == <<"Important">>
===============================================================================
