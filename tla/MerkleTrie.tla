----------------------------- MODULE MerkleTrie -----------------------------
(***************************************************************************)
(* The Merkle trie of a shard: src/storage/trie/merkle_trie.rs and         *)
(* trie_node.rs over the key-value store of src/storage/db/rocksdb.rs, as  *)
(* ShardEngine (src/storage/store/engine.rs) creates it.                   *)
(*                                                                         *)
(* A node is in memory, with its children, or only in the database; what   *)
(* was changed since the last commit is also in a batch of puts and        *)
(* deletes.  Keys are message hashes, sequences of characters of one       *)
(* length, and the engine's shorter sentinel.  blake3 is injective: a hash *)
(* is what was hashed, and the empty sequence one never computed.          *)
(***************************************************************************)
EXTENDS Naturals, FiniteSets, FiniteSetsExt, Sequences, SequencesExt, TLC

CONSTANTS
    Char,             \* the bytes keys are made of
    Key,              \* the keys that are inserted and deleted
    Batch,            \* the batches of keys insert and delete are called with
    Sentinel,         \* the key ShardEngine::new inserts
    TimestampLength,  \* TIMESTAMP_LENGTH, 10 in the code
    RootPrefix        \* RootPrefix::SyncMerkleTrieNode, 11 in the code

\* message hashes are longer than the sentinel and never begin with it
ASSUME KeysAreHashes ==
    /\ Char \subseteq Nat
    /\ Sentinel \in Seq(Char) /\ Len(Sentinel) = TimestampLength
    /\ \A k \in Key : /\ k \in Seq(Char) /\ Len(k) > TimestampLength
                      /\ SubSeq(k, 1, TimestampLength) # Sentinel
    /\ \A k, l \in Key : Len(k) = Len(l)
ASSUME BatchesNonEmpty == \A b \in Batch : b # <<>> /\ Range(b) \subseteq Key

VARIABLES
    root,        \* MerkleTrie.root
    db,          \* path -> stored node, what RocksDB holds
    batch,       \* path -> {stored node} to put or {} to delete: txn_batch
    mustReload,  \* the caller has committed and not yet reloaded
    current,     \* history: the keys the owner asked for
    durable      \* history: those it has committed

vars == <<root, db, batch, mustReload, current, durable>>

Asked == INSTANCE KeySetStore

Empty == <<>>
Take(k, i) == SubSeq(k, 1, i)

\* the prefixes the queries are asked about
Prefix == {Take(k, i) : k \in Key, i \in 0..(TimestampLength + 1)}

-----------------------------------------------------------------------------
(* Nodes and their storage *)

\* TrieNode::default; a key is {} for None and {k} for Some(k)
Default == [serialized |-> FALSE, items |-> 0, hash |-> Empty, key |-> {}, kids |-> Empty]
\* SerializedTrieNode
Serialized(h) == [serialized |-> TRUE, hash |-> h]

IsLeaf(n) == DOMAIN n.kids = {}

\* unwrap_or(&vec![])
KeyOf(n) == IF n.key = {} THEN Empty ELSE CHOOSE k \in n.key : TRUE

Serialize(n) == [key |-> KeyOf(n), chars |-> DOMAIN n.kids, items |-> n.items, hash |-> n.hash]

(* deserialize: the children are not loaded, the key is never None.  A     *)
(* node that is not in the database is a default one.                      *)
Deserialize(D, path) ==
    IF path \in DOMAIN D
    THEN [serialized |-> FALSE, items |-> D[path].items, hash |-> D[path].hash,
          key |-> {D[path].key}, kids |-> [c \in D[path].chars |-> Serialized(Empty)]]
    ELSE Default

\* get_or_load_child, for a child that is there
Loaded(D, child, path) == IF child.serialized THEN Deserialize(D, path) ELSE child

\* put_to_txn, delete_to_txn: a later entry replaces an earlier one
Put(txn, path, n) == (path :> {Serialize(n)}) @@ txn
Erase(txn, path) == (path :> {}) @@ txn

\* blake3_20 of a key and of the children's hashes, one after the other
KeyHash(k) == <<"key", k>>
NodeHash(hs) ==
    LET computed == SelectSeq(hs, LAMBDA h : h # Empty)
    IN IF computed = Empty THEN KeyHash(Empty) ELSE <<"node", computed>>

\* mutant: children that are not in memory are left out
UpdateHash_LoadedOnly(D, n, path) ==
    IF IsLeaf(n) THEN [n EXCEPT !.hash = KeyHash(KeyOf(n))]
    ELSE LET sorted == SetToSortSeq(DOMAIN n.kids, <)
         IN [n EXCEPT !.hash = NodeHash([i \in DOMAIN sorted |-> n.kids[sorted[i]].hash])]

(* update_hash: children without a hash are loaded for it.                 *)
UpdateHash(D, n, path) ==
    IF IsLeaf(n) THEN [n EXCEPT !.hash = KeyHash(KeyOf(n))]
    ELSE LET kids == [c \in DOMAIN n.kids |->
                        IF n.kids[c].hash = Empty
                        THEN Loaded(D, n.kids[c], Append(path, c)) ELSE n.kids[c]]
             sorted == SetToSortSeq(DOMAIN kids, <)
         IN [n EXCEPT !.kids = kids,
                      !.hash = NodeHash([i \in DOMAIN sorted |-> kids[sorted[i]].hash])]

-----------------------------------------------------------------------------
(* Insertion *)

RECURSIVE NodeInsert(_, _, _, _)

(* split_leaf_node: the key moves into a new child.                        *)
Split(D, n, i) ==
    LET k == KeyOf(n)
        below == NodeInsert(D, Default, <<k>>, i + 1)
        node == UpdateHash(D, [n EXCEPT !.key = {}, !.kids = k[i + 1] :> below.node],
                           Take(k, i))
    IN [node |-> node, txn |-> Put(below.txn, Take(k, i), node)]

(* The keys, grouped by their next character, are inserted one level down; *)
(* the node counts the successes the children report.                      *)
InsertBelow(D, n, ks, i) ==
    LET path == Take(ks[1], i)
        chars == {ks[j][i + 1] : j \in DOMAIN ks}
        child(c) == IF c \in DOMAIN n.kids
                    THEN Loaded(D, n.kids[c], Append(path, c)) ELSE Default
        below == {[char |-> c,
                   done |-> NodeInsert(D, child(c), SelectSeq(ks, LAMBDA k : k[i + 1] = c), i + 1)]
                  : c \in chars}
        successes == MapThenSumSet(LAMBDA b : b.done.count, below)
        grown == [n EXCEPT !.kids = [c \in DOMAIN @ \cup chars |->
                    IF c \in chars THEN (CHOOSE b \in below : b.char = c).done.node ELSE @[c]]]
        node == UpdateHash(D, [grown EXCEPT !.items = @ + successes], path)
        txns == FoldSet(LAMBDA b, acc : b.done.txn @@ acc, Empty, below)
    IN IF successes = 0
       THEN [node |-> grown, txn |-> txns, count |-> 0]
       ELSE [node |-> node, txn |-> Put(txns, path, node), count |-> successes]

(* TrieNode::insert at depth i; count is the number of true results.  A    *)
(* leaf without a key takes the last key of the batch but reports it as    *)
(* the first, and a first key equal to the leaf's resets that report.      *)
NodeInsert(D, n, ks, i) ==
    LET path == Take(ks[1], i)
        leaf == i >= TimestampLength /\ IsLeaf(n)
        vacant == leaf /\ n.key = {}
        taken == IF vacant
                 THEN UpdateHash(D, [n EXCEPT !.key = {Last(ks)}, !.items = @ + 1], path) ELSE n
        rest == IF vacant THEN Front(ks) ELSE ks
        todo == IF leaf THEN SelectSeq(rest, LAMBDA k : taken.key # {k}) ELSE rest
        first == IF vacant /\ (rest = Empty \/ taken.key # {rest[1]}) THEN 1 ELSE 0
        txn == IF vacant THEN Put(Empty, path, taken) ELSE Empty
        split == IF leaf THEN Split(D, taken, i) ELSE [node |-> taken, txn |-> Empty]
        below == InsertBelow(D, split.node, todo, i)
    IN IF todo = Empty
       THEN [node |-> taken, txn |-> txn, count |-> first]
       ELSE [node |-> below.node, txn |-> below.txn @@ split.txn @@ txn,
             count |-> first + below.count]

-----------------------------------------------------------------------------
(* Deletion *)

\* mutant: a node left with one key keeps its child
Compact_Never(D, n, path) == [node |-> n, txn |-> Empty]

(* A node below the timestamp left with one item in one child takes over   *)
(* the child's key.  The key deleted from the database is the child's with *)
(* the root prefix twice.                                                  *)
Compact(D, n, path) ==
    LET c == CHOOSE c \in DOMAIN n.kids : TRUE
        child == Loaded(D, n.kids[c], Append(path, c))
    IN IF n.items = 1 /\ Cardinality(DOMAIN n.kids) = 1 /\ Len(path) >= TimestampLength
          /\ child.key # {}
       THEN [node |-> [n EXCEPT !.key = child.key, !.kids = Empty],
             txn |-> Erase(Empty, <<RootPrefix>> \o Append(path, c))]
       ELSE [node |-> n, txn |-> Empty]

RECURSIVE NodeDelete(_, _, _, _)

(* The keys, grouped by their next character, are deleted one level down;  *)
(* children left without items are dropped, and so is the node itself.     *)
DeleteBelow(D, n, ks, i) ==
    LET path == Take(ks[1], i)
        chars == {ks[j][i + 1] : j \in DOMAIN ks} \cap DOMAIN n.kids
        below == {[char |-> c,
                   done |-> NodeDelete(D, Loaded(D, n.kids[c], Append(path, c)),
                                       SelectSeq(ks, LAMBDA k : k[i + 1] = c), i + 1)]
                  : c \in chars}
        successes == MapThenSumSet(LAMBDA b : b.done.count, below)
        empty == {b.char : b \in {b \in below : b.done.node.items = 0}}
        pruned == [n EXCEPT !.items = @ - successes,
                            !.kids = [c \in DOMAIN @ \ empty |->
                    IF c \in chars THEN (CHOOSE b \in below : b.char = c).done.node ELSE @[c]]]
        txns == FoldSet(LAMBDA b, acc : b.done.txn @@ acc, Empty, below)
        compact == Compact(D, pruned, path)
        node == UpdateHash(D, compact.node, path)
    IN IF successes = 0 THEN [node |-> pruned, txn |-> txns, count |-> 0]
       ELSE IF pruned.items = 0
       THEN [node |-> UpdateHash(D, pruned, path), txn |-> Erase(txns, path),
             count |-> successes]
       ELSE [node |-> node, txn |-> Put(compact.txn @@ txns, path, node), count |-> successes]

\* mutant: every key of the batch is reported as deleted
NodeDelete_CountsAll(D, n, ks, i) ==
    IF ~IsLeaf(n) THEN DeleteBelow(D, n, ks, i)
    ELSE [node |-> n, txn |-> Empty, count |-> Len(ks)]

(* TrieNode::delete at depth i; count is the number of true results.       *)
NodeDelete(D, n, ks, i) ==
    IF ~IsLeaf(n) THEN DeleteBelow(D, n, ks, i)
    ELSE IF KeyOf(n) \in Range(ks)
    THEN [node |-> UpdateHash(D, [n EXCEPT !.key = {}, !.items = @ - 1], Take(ks[1], i)),
          txn |-> Erase(Empty, Take(ks[1], i)), count |-> 1]
    ELSE [node |-> n, txn |-> Empty, count |-> 0]

-----------------------------------------------------------------------------
(* The trie *)

RECURSIVE LoadPath(_, _, _, _)

(* TrieNode::exists walks to the key's leaf and loads what it passes.      *)
LoadPath(D, n, k, i) ==
    IF IsLeaf(n) \/ i >= Len(k) \/ k[i + 1] \notin DOMAIN n.kids THEN n
    ELSE [n EXCEPT !.kids[k[i + 1]] =
            LoadPath(D, Loaded(D, @, Take(k, i + 1)), k, i + 1)]

RECURSIVE LoadAll(_, _, _), LoadBelow(_, _, _, _), LoadAside(_, _, _, _)

\* TrieNode::get_all_values loads the subtree it returns the keys of
LoadAll(D, n, path) ==
    [n EXCEPT !.kids = [c \in DOMAIN @ |->
        LoadAll(D, Loaded(D, @[c], Append(path, c)), Append(path, c))]]

\* get_node_from_trie, to the node at p, and get_all_values from there
LoadBelow(D, n, p, i) ==
    IF i = Len(p) THEN LoadAll(D, n, p)
    ELSE IF p[i + 1] \notin DOMAIN n.kids THEN n
    ELSE [n EXCEPT !.kids[p[i + 1]] = LoadBelow(D, Loaded(D, @, Take(p, i + 1)), p, i + 1)]

\* get_snapshot loads the path and everything excluded_hash looks at beside it
LoadAside(D, n, p, i) ==
    IF i = Len(p) THEN n
    ELSE [n EXCEPT !.kids = [c \in DOMAIN @ |->
            LET child == Loaded(D, @[c], Append(Take(p, i), c))
            IN IF c = p[i + 1] THEN LoadAside(D, child, p, i + 1) ELSE child]]

\* RocksDB::commit
Written(D, txn) ==
    [p \in {p \in DOMAIN D \cup DOMAIN txn : p \in DOMAIN txn => txn[p] # {}} |->
        IF p \in DOMAIN txn THEN CHOOSE s \in txn[p] : TRUE ELSE D[p]]

\* unload_children
Unloaded(n) ==
    [n EXCEPT !.kids = [c \in {c \in DOMAIN n.kids : ~n.kids[c].serialized} |->
                          Serialized(n.kids[c].hash)]]

(* initialize on an empty database, then ShardEngine::new's insertion,     *)
(* commit and reload.                                                      *)
Init ==
    LET first == NodeInsert(Empty, Default, <<Sentinel>>, 0)
    IN /\ db = Written(Empty, first.txn @@ (Empty :> {Serialize(Default)}))
       /\ root = Deserialize(db, Empty)
       /\ batch = Empty
       /\ mustReload = FALSE
       /\ Asked!Init

Insert(ks) ==
    /\ ~mustReload
    /\ LET done == NodeInsert(db, root, ks, 0)
       IN root' = done.node /\ batch' = done.txn @@ batch
    /\ Asked!Insert(Range(ks))
    /\ UNCHANGED <<db, mustReload>>

Delete(ks) ==
    /\ ~mustReload
    /\ LET done == NodeDelete(db, root, ks, 0)
       IN root' = done.node /\ batch' = done.txn @@ batch
    /\ Asked!Delete(Range(ks))
    /\ UNCHANGED <<db, mustReload>>

Exists(k) ==
    /\ root' = LoadPath(db, root, k, 0)
    /\ UNCHANGED <<db, batch, mustReload, current, durable>>

GetAllValues(p) ==
    /\ root' = LoadBelow(db, root, p, 0)
    /\ UNCHANGED <<db, batch, mustReload, current, durable>>

GetSnapshot(p) ==
    /\ root' = LoadAside(db, root, p, 0)
    /\ UNCHANGED <<db, batch, mustReload, current, durable>>

(* The batch is written in one transaction and the children are unloaded.  *)
(* ShardEngine reloads before it changes the trie again.                   *)
Commit ==
    /\ ~mustReload
    /\ db' = Written(db, batch)
    /\ root' = Unloaded(root)
    /\ batch' = Empty
    /\ mustReload' = TRUE
    /\ Asked!Commit

\* mutant: the pending batch survives
Reload_KeepsBatch ==
    /\ root' = Deserialize(db, Empty)
    /\ mustReload' = FALSE
    /\ Asked!Reload
    /\ UNCHANGED <<db, batch>>

(* reload, and what a restart does: root and batch are those of the        *)
(* database.                                                               *)
Reload ==
    /\ root' = Deserialize(db, Empty)
    /\ batch' = Empty
    /\ mustReload' = FALSE
    /\ Asked!Reload
    /\ UNCHANGED db

Next ==
    \/ \E ks \in Batch : Insert(ks) \/ Delete(ks)
    \/ \E k \in Key : Exists(k)
    \/ \E p \in Prefix : GetAllValues(p) \/ GetSnapshot(p)
    \/ Commit
    \/ Reload

Spec == Init /\ [][Next]_vars

-----------------------------------------------------------------------------
(* Properties *)

RECURSIVE Contents(_, _, _)

\* get_all_values
Contents(D, n, path) ==
    IF IsLeaf(n) THEN n.key \ {Empty}
    ELSE UNION {Contents(D, Loaded(D, n.kids[c], Append(path, c)), Append(path, c))
                : c \in DOMAIN n.kids}

RECURSIVE Snapshot(_, _, _, _)

(* get_snapshot: at every step towards p the hash and the number of items  *)
(* of the other children (excluded_hash), then the hash of the node at p;  *)
(* it ends early where there is no child.                                  *)
Snapshot(D, n, p, i) ==
    LET Child(c) == Loaded(D, n.kids[c], Append(Take(p, i), c))
        aside == DOMAIN n.kids \ {p[i + 1]}
        sorted == SetToSortSeq(aside, <)
        excluded == NodeHash([j \in DOMAIN sorted |-> Child(sorted[j]).hash])
        items == MapThenSumSet(LAMBDA c : Child(c).items, aside)
        below == Snapshot(D, Child(p[i + 1]), p, i + 1)
    IN IF i = Len(p) THEN [prefix |-> p, hashes |-> <<n.hash>>, items |-> 0]
       ELSE IF p[i + 1] \notin DOMAIN n.kids
       THEN [prefix |-> Take(p, i), hashes |-> <<excluded>>, items |-> items]
       ELSE [prefix |-> below.prefix, hashes |-> <<excluded>> \o below.hashes,
             items |-> items + below.items]

RECURSIVE HashOf(_, _)

\* the hash of a subtree, from nothing but its keys
HashOf(K, i) ==
    IF i >= TimestampLength /\ Cardinality(K) = 1 THEN KeyHash(CHOOSE k \in K : TRUE)
    ELSE LET sorted == SetToSortSeq({k[i + 1] : k \in K}, <)
         IN NodeHash([j \in DOMAIN sorted |-> HashOf({k \in K : k[i + 1] = sorted[j]}, i + 1)])

RECURSIVE Accurate(_, _, _)

Accurate(D, n, path) ==
    LET K == Contents(D, n, path)
    IN /\ K # {}
       /\ n.items = Cardinality(K)
       /\ n.hash = HashOf(K, Len(path))
       /\ \A k \in K : Take(k, Len(path)) = path
       /\ \A c \in DOMAIN n.kids :
            LET child == Loaded(D, n.kids[c], Append(path, c))
            IN /\ n.kids[c].hash \in {Empty, child.hash}
               /\ Accurate(D, child, Append(path, c))

(* Type invariant: the root is a loaded node, the database and the batch   *)
(* map paths to stored nodes.                                              *)
TypeOK ==
    /\ ~root.serialized /\ root.items \in Nat /\ DOMAIN root.kids \subseteq Char
    /\ \A p \in DOMAIN db \cup DOMAIN batch : p \in Seq(Char \cup {RootPrefix})
    /\ \A p \in DOMAIN db : db[p].items \in Nat \ {0} /\ db[p].chars \subseteq Char
    /\ \A p \in DOMAIN batch : Cardinality(batch[p]) <= 1
    /\ mustReload \in BOOLEAN

(* Every node, loaded or stored, has the hash and the number of items of   *)
(* the keys below it, whatever sequence of insertions, deletions, splits,  *)
(* compactions, commits and reloads led there: two tries with the same     *)
(* keys have the same root hash, which is what validators compare          *)
(* (update_hash, and the compaction in delete).                            *)
NodesAccurate ==
    ~mustReload => Accurate(db, root, Empty)

(* The database alone always describes a sound trie: a reload or a restart *)
(* at any moment finds the last commit (commit, load_root).                *)
DatabaseAccurate ==
    LET stored == Deserialize(db, Empty)
    IN stored.items > 0 /\ Accurate(db, stored, Empty)

(* The trie is the set of keys its owner asked for, no batch of            *)
(* insertions or deletions being applied in part or to other keys, and the *)
(* database is the set last committed (insert, delete, commit, reload).    *)
(* A snapshot of any prefix is that of a trie into which the keys were     *)
(* just inserted, so two validators that hold the same keys never find a   *)
(* difference between their snapshots (get_snapshot).                      *)
HoldsKeys ==
    /\ ~mustReload =>
          LET fresh == NodeInsert(Empty, Default, SetToSeq(current), 0).node
          IN /\ Contents(db, root, Empty) = current
             /\ \A p \in Prefix : Snapshot(db, root, p, 0) = Snapshot(Empty, fresh, p, 0)
    /\ Contents(db, Deserialize(db, Empty), Empty) = durable
=============================================================================
