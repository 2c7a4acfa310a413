--------------------------- MODULE MCRegistration ---------------------------
(***************************************************************************)
(* A small instance of Registration: three names, so that two requests can *)
(* race for the one use of an invite that an admin made.                   *)
(***************************************************************************)
EXTENDS Registration, TLC

Sym == Permutations(Name) \cup Permutations(Request)
=============================================================================
