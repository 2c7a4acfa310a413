----------------------------- MODULE FileVault -----------------------------
(***************************************************************************)
(* What the file service promises about an id core, as its users see it:   *)
(* a core is issued once, resolves to one content for as long as it is     *)
(* live, and never to anything again; a burn-after-read content is         *)
(* delivered at most once, and not before it is gone.                      *)
(* (try_claim_core: "a core can never resolve to two different contents    *)
(* over time".)                                                            *)
(***************************************************************************)
CONSTANTS Core, Digest, Reader, None

VARIABLES
  status,   \* of each core
  content,  \* what a live core resolves to
  served    \* who was delivered which burn-after-read content

vars == <<status, content, served>>

Status == {"free", "reserved", "live", "gone"}

Init ==
  /\ status = [c \in Core |-> "free"]
  /\ content = [c \in Core |-> None]
  /\ served = {}

\* A core is issued to one upload.
Reserve(c) ==
  /\ status[c] = "free"
  /\ status' = [status EXCEPT ![c] = "reserved"]
  /\ UNCHANGED <<content, served>>

\* The upload succeeds ...
Publish(c) ==
  /\ status[c] = "reserved"
  /\ status' = [status EXCEPT ![c] = "live"]
  /\ \E d \in Digest : content' = [content EXCEPT ![c] = d]
  /\ UNCHANGED served

\* ... or fails, and burns the core.
Abandon(c) ==
  /\ status[c] = "reserved"
  /\ status' = [status EXCEPT ![c] = "gone"]
  /\ UNCHANGED <<content, served>>

\* The content is deleted, expires or is read for the first and last time.
Remove(c) ==
  /\ status[c] = "live"
  /\ status' = [status EXCEPT ![c] = "gone"]
  /\ content' = [content EXCEPT ![c] = None]
  /\ UNCHANGED served

\* The reader that removed a burn-after-read content gets it.
Deliver(r, c) ==
  /\ status[c] = "gone"
  /\ \A s \in Reader : <<s, c>> \notin served
  /\ served' = served \cup {<<r, c>>}
  /\ UNCHANGED <<status, content>>

Next ==
  \E c \in Core :
    \/ Reserve(c) \/ Publish(c) \/ Abandon(c) \/ Remove(c)
    \/ \E r \in Reader : Deliver(r, c)

Spec == Init /\ [][Next]_vars
=============================================================================
