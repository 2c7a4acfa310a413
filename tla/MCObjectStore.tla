--------------------------- MODULE MCObjectStore ---------------------------
(***************************************************************************)
(* Small instances of ObjectStore.  A video (sha v) has a thumbnail whose  *)
(* JPEG (sha j) is also a content that somebody may upload as a file.      *)
(***************************************************************************)
EXTENDS ObjectStore, TLC

CONSTANTS v, j

MCThumbOf == v :> j @@ j :> None
NoThumbs == v :> None @@ j :> None

Ask(d, b, e) == [sha |-> d, burn |-> b, expires |-> e]

\* One content, kept until it expires.
OneContent == {Ask(j, FALSE, "later")}
\* A video and the JPEG of its thumbnail, kept until they expire.
VideoAndFrame == {Ask(v, FALSE, "later"), Ask(j, FALSE, "never")}
\* A video, and its frame uploaded as a burn-after-read file.
VideoAndBurningFrame == {Ask(v, FALSE, "later"), Ask(j, TRUE, "later")}
\* A burn-after-read file and a plain one of the same content.
BurnAndPlain == {Ask(j, TRUE, "never"), Ask(j, FALSE, "later")}

Sym == Permutations(Core) \cup Permutations(Upload)
         \cup Permutations(Deleter) \cup Permutations(Reader)
=============================================================================
