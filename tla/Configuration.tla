--------------------------- MODULE Configuration ----------------------------
(***************************************************************************)
(* The instance configuration: rows of keys and values that every request  *)
(* reads, and that admin::update_config reads, edits, validates and writes *)
(* back as a whole while other administrators do the same; and the cap of  *)
(* request bodies, a number in memory that follows max_file_bytes, set by  *)
(* the edit and by a task that looks at the rows from time to time.        *)
(***************************************************************************)
EXTENDS Common, Integers

CONSTANTS
  Editor,  \* requests that edit the configuration, each once
  Amount   \* the numbers a form may hold

ASSUME ConfigurationAssumption == Amount \subseteq Int /\ {1, 2} \subseteq Amount

VARIABLES
  stored,    \* the rows
  cap,       \* AppState::body_limit
  edit,      \* per editor: "new", "write", "store", "done" or "failed"
  before,    \* per editor: the configuration it read
  cfg,       \* per editor: the configuration it has made of it
  refresher  \* the configuration the refresher has read and not put to use

configvars == <<stored, cap, edit, before, cfg, refresher>>

\* The fields that validate compares, and a flag.
Numbers == {"max_file_bytes", "anonymous_max_bytes",
            "min_expiry_secs", "default_expiry_secs", "max_expiry_secs"}
Flag == "allow_never_expiry"

Default ==
  [k \in Numbers \cup {Flag} |->
     IF k = Flag THEN TRUE ELSE IF k \in {"anonymous_max_bytes", "min_expiry_secs"} THEN 1 ELSE 2]

\* InstanceConfig::validate
validate(c) ==
  /\ \A k \in Numbers : c[k] > 0
  /\ c["anonymous_max_bytes"] <= c["max_file_bytes"]
  /\ c["min_expiry_secs"] <= c["default_expiry_secs"]
  /\ c["default_expiry_secs"] <= c["max_expiry_secs"]

\* InstanceConfig::body_limit, less the room for the framing.
body_limit(c) == c["max_file_bytes"]

\* Forms that name up to two numbers, and the flag or not.
Forms == UNION {[{p[1], p[2]} -> Amount] : p \in Numbers \X Numbers}

\* A number that is missing from the form stays, a flag that is missing is unset.
Edited(c, f, flag) ==
  [k \in DOMAIN c |-> IF k = Flag THEN flag ELSE IF k \in DOMAIN f THEN f[k] ELSE c[k]]

-----------------------------------------------------------------------------
EditEnds(e, how) ==
  /\ edit' = [edit EXCEPT ![e] = how]
  /\ before' = [before EXCEPT ![e] = None] /\ cfg' = [cfg EXCEPT ![e] = None]

\* update_config up to the writes: what does not validate is refused.
ReadConfig(e, f, flag) ==
  /\ edit[e] = "new"
  /\ IF validate(Edited(stored, f, flag))
       THEN /\ before' = [before EXCEPT ![e] = stored]
            /\ cfg' = [cfg EXCEPT ![e] = Edited(stored, f, flag)]
            /\ edit' = [edit EXCEPT ![e] = "write"]
       ELSE EditEnds(e, "failed")
  /\ UNCHANGED <<stored, cap, refresher>>

Changed(e) == {k \in DOMAIN cfg[e] : cfg[e][k] # before[e][k]}

\* Mutant: only the keys that were changed are written.
WriteChanged(e) ==
  /\ edit[e] = "write"
  /\ stored' = [k \in DOMAIN stored |-> IF k \in Changed(e) THEN cfg[e][k] ELSE stored[k]]
  /\ edit' = [edit EXCEPT ![e] = "store"]
  /\ UNCHANGED <<cap, before, cfg, refresher>>

\* set_instance_config: one transaction that writes every key, if any was changed.
\* It may fail, and so may the audit entry after it; the cap is not set then.
WriteConfig(e) ==
  /\ edit[e] = "write"
  /\ \/ /\ stored' = IF Changed(e) = {} THEN stored ELSE cfg[e]
        /\ \/ edit' = [edit EXCEPT ![e] = "store"] /\ UNCHANGED <<before, cfg>>
           \/ EditEnds(e, "failed")
     \/ EditEnds(e, "failed") /\ UNCHANGED stored
  /\ UNCHANGED <<cap, refresher>>

\* The cap is that of the configuration this request wrote.
StoreCap(e) ==
  /\ edit[e] = "store"
  /\ cap' = body_limit(cfg[e])
  /\ EditEnds(e, "done")
  /\ UNCHANGED <<stored, refresher>>

-----------------------------------------------------------------------------
\* spawn_refresher reads the rows at a tick; a failure is logged.
RefreshRead ==
  /\ refresher = None
  /\ refresher' = stored
  /\ UNCHANGED <<stored, cap, edit, before, cfg>>

\* Mutant: the cap is raised and never lowered.
RefreshRaises ==
  /\ refresher # None
  /\ cap' = IF body_limit(refresher) > cap THEN body_limit(refresher) ELSE cap
  /\ refresher' = None
  /\ UNCHANGED <<stored, edit, before, cfg>>

\* Then it swaps the cap.
RefreshSwap ==
  /\ refresher # None
  /\ cap' = body_limit(refresher) /\ refresher' = None
  /\ UNCHANGED <<stored, edit, before, cfg>>

-----------------------------------------------------------------------------
ConfigInit ==
  /\ stored = Default /\ cap = body_limit(Default)
  /\ edit = [e \in Editor |-> "new"]
  /\ before = [e \in Editor |-> None] /\ cfg = [e \in Editor |-> None]
  /\ refresher = None

ConfigNext ==
  \/ \E e \in Editor :
       \/ edit[e] = "new" /\ \E f \in Forms, flag \in BOOLEAN : ReadConfig(e, f, flag)
       \/ WriteConfig(e) \/ StoreCap(e)
  \/ RefreshRead \/ RefreshSwap

ConfigSpec == ConfigInit /\ [][ConfigNext]_configvars

\* The interval ticks again and again, and the database answers.
ConfigFairness == WF_configvars(RefreshRead) /\ WF_configvars(RefreshSwap)

-----------------------------------------------------------------------------
IsConfig(c) == DOMAIN c = Numbers \cup {Flag} /\ c[Flag] \in BOOLEAN /\ \A k \in Numbers : c[k] \in Amount

ConfigTypeOK ==
  /\ IsConfig(stored) /\ (refresher = None \/ IsConfig(refresher)) /\ cap \in Amount
  /\ edit \in [Editor -> {"new", "write", "store", "done", "failed"}]
  /\ \A e \in {d \in Editor : edit[d] \in {"write", "store"}} : IsConfig(before[e]) /\ IsConfig(cfg[e])

\* Every edit validates the whole configuration it has made out of what it read.
\* Whatever edits overlap, what is stored satisfies every inequality: two edits that
\* are valid each for itself do not add up to a configuration that is not.
ConfigValid == validate(stored)

\* Once the edits are over the cap of request bodies is that of the configuration,
\* although a refresh or an edit that is late may have put back an older one.
CapFollows == <>[](cap = body_limit(stored))
=============================================================================
