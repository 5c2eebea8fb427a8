--------------------------- MODULE MCFacebookLogin ---------------------------
(* Logging in with Facebook for TLC, users being interchangeable.             *)
EXTENDS FacebookLogin, TLC

Symmetry == Permutations(Users)
===============================================================================
