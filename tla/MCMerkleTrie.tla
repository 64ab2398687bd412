---------------------------- MODULE MCMerkleTrie ----------------------------
(* Keys of three characters, the first being the timestamp: they split and *)
(* compact at both levels below it.  The sentinel shares nothing with      *)
(* them.                                                                   *)
EXTENDS MerkleTrie

MCSentinel == <<1>>
MCKey == {<<0, 0, 0>>, <<0, 0, 1>>, <<0, 1, 0>>}
\* one key, or two different ones
MCBatch == {<<k>> : k \in MCKey} \cup {b \in MCKey \X MCKey : b[1] # b[2]}
\* two keys, the same one twice included
DuplicateBatch == MCKey \X MCKey
=============================================================================
