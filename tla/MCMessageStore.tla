--------------------------- MODULE MCMessageStore ---------------------------
(* A few messages per store that collide in every way: later and earlier,  *)
(* of equal timestamps with the hashes for and against the remove, of      *)
(* other fids, and links that predate padded keys.                         *)
EXTENDS StoreQueries, MessageSet, TLC

Msg(fid, type, time, hash, kind, target, targets) ==
    [fid |-> fid, type |-> type, time |-> time, hash |-> hash,
     kind |-> kind, target |-> target, targets |-> targets]

Casts ==
    {Msg(1, "add", 2, 1, 0, 7, {8}), Msg(1, "add", 2, 2, 0, 0, {7, 8}),
     Msg(1, "remove", 1, 3, 0, 1, {}), Msg(1, "remove", 1, 4, 0, 1, {}),
     Msg(2, "add", 1, 5, 0, 9, {})}
Links ==
    {Msg(1, "add", 1, 4, 1, 7, {}), Msg(1, "remove", 1, 2, 1, 7, {}),
     Msg(1, "add", 2, 3, 1, 8, {}), Msg(1, "add", 1, 8, 2, 7, {}), Msg(2, "add", 1, 9, 1, 7, {}),
     Msg(1, "compact", 2, 5, 1, 0, {8}), Msg(1, "compact", 1, 6, 1, 0, {7})}
LegacyLinks == {Msg(1, "add", 1, 1, 1, 7, {}), Msg(1, "remove", 2, 7, 1, 8, {})}
Reactions ==
    {Msg(1, "add", 1, 4, 1, 7, {}), Msg(1, "remove", 1, 2, 1, 7, {}),
     Msg(1, "add", 2, 3, 1, 7, {}), Msg(1, "add", 1, 5, 2, 7, {}), Msg(2, "add", 1, 6, 1, 9, {})}
UserData ==
    {Msg(1, "add", 1, 1, 1, 0, {}), Msg(1, "add", 1, 2, 1, 0, {}),
     Msg(1, "add", 2, 3, 2, 0, {}), Msg(2, "add", 1, 4, 1, 0, {})}


\* fid 1 competes for names and addresses with 2 and, under its own lock, 5
Usernames ==
    {Msg(1, "add", 1, 1, 0, 7, {}), Msg(5, "add", 1, 2, 0, 7, {}),
     Msg(2, "add", 2, 3, 0, 7, {}), Msg(5, "add", 1, 4, 0, 8, {})}
Verifications ==
    {Msg(1, "add", 1, 1, 0, 7, {}), Msg(5, "add", 2, 2, 0, 7, {}),
     Msg(5, "remove", 2, 3, 0, 7, {}), Msg(2, "add", 3, 4, 0, 7, {})}

Offers ==
    [cast |-> Casts, link |-> Links, reaction |-> Reactions, userdata |-> UserData,
     username |-> Usernames, verification |-> Verifications]
MCLegacy == [s \in StoreDefs |-> IF s = "link" THEN LegacyLinks ELSE {}]
MCStores == StoreDefs
ThreadSymmetry == Permutations(Thread)

(* Merges and prunes only: prune_messages runs in a pool of threads of its *)
(* own, and takes no lock.                                                 *)
PruneNext ==
    \E t \in Thread :
        \/ \E m \in Messages[store] : Merge(t, m) \/ MergeFails(t, m)
        \/ \E fid \in {m.fid : m \in offered}, excess \in 1..MaxPrune : Prune(t, fid, excess)
        \/ Commit(t)
PruneSpec == Init /\ [][PruneNext]_vars

\* the URL 9 continues the URL 7
UrlPrefixes == {<<7, 9>>}
=============================================================================
