----------------------------- MODULE SetLifetime -----------------------------
(***************************************************************************)
(* What the descriptor set allocator of layer.cpp promises to the code     *)
(* that records push descriptors: a set it hands out is a valid handle of  *)
(* the driver until the caller gives it back, and nothing else the         *)
(* allocator does (recycling a pool, destroying a surplus pool, failing to *)
(* create one) ends the life of a set somebody still uses.                 *)
(***************************************************************************)
CONSTANT Sets       \* the VkDescriptorSet handles

VARIABLES issued,   \* the sets handed out and not yet given back
          valid     \* the sets that are live objects of the driver

vars == <<issued, valid>>

Init == issued = {} /\ valid = {}

\* A handle that names no live set is handed out and becomes live.
Issue(s) ==
    /\ s \in Sets \ valid
    /\ issued' = issued \cup {s}
    /\ valid' = valid \cup {s}

\* The caller gives a set back; that set alone stops being valid.
Return(s) ==
    /\ s \in issued
    /\ issued' = issued \ {s}
    /\ valid' = valid \ {s}

Next == \E s \in Sets : Issue(s) \/ Return(s)

Spec == Init /\ [][Next]_vars

\* Nobody holds a dangling set and no set outlives its holder.
NoDangling == issued = valid
==============================================================================
