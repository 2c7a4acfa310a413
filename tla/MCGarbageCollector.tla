------------------------- MODULE MCGarbageCollector -------------------------
(***************************************************************************)
(* Small instances of GarbageCollector.                                    *)
(***************************************************************************)
EXTENDS GarbageCollector, TLC

CONSTANTS v, j

NoThumbs == v :> None @@ j :> None

\* Files that are kept until somebody deletes them.
Plain == {[sha |-> j, burn |-> FALSE, expires |-> "never"]}

Sym == Permutations(Core) \cup Permutations(Upload) \cup Permutations(Painter)
         \cup Permutations(Ext) \cup Permutations(User)
=============================================================================
