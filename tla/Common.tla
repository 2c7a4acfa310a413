------------------------------- MODULE Common -------------------------------
(***************************************************************************)
(* What the modules beside the file store share: the value that stands for *)
(* SQL NULL, for None and for a variable that holds nothing.               *)
(***************************************************************************)
CONSTANT None
=============================================================================
