----------------------------- MODULE MCSessions -----------------------------
(***************************************************************************)
(* A small instance of Sessions: two users, browsers that have had two     *)
(* sessions, two requests at a time, a passkey and a ceremony with it.     *)
(***************************************************************************)
EXTENDS Sessions, TLC

Sym ==
  Permutations(Person) \cup Permutations(Sid) \cup Permutations(Handler)
    \cup Permutations(Challenge)
=============================================================================
