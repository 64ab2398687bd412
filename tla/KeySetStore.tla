----------------------------- MODULE KeySetStore -----------------------------
(***************************************************************************)
(* What a MerkleTrie promises its owner, as a set of keys: changes are     *)
(* made to a working set, commit makes them durable, and reload, like a    *)
(* restart, goes back to what is durable.                                  *)
(***************************************************************************)
CONSTANTS
    Key,       \* the keys that may be stored
    Sentinel   \* the key the set is created with

VARIABLES
    current,   \* the keys the owner sees
    durable    \* the keys a reload or a restart gives back

vars == <<current, durable>>

Init == current = {Sentinel} /\ durable = {Sentinel}

Insert(K)  == current' = current \cup K /\ UNCHANGED durable
Delete(K)  == current' = current \ K /\ UNCHANGED durable
Commit     == durable' = current /\ UNCHANGED current
Reload     == current' = durable /\ UNCHANGED durable

Next ==
    \/ \E K \in SUBSET Key : Insert(K) \/ Delete(K)
    \/ Commit
    \/ Reload

Spec == Init /\ [][Next]_vars
=============================================================================
