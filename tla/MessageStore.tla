---------------------------- MODULE MessageStore ----------------------------
(***************************************************************************)
(* The message stores of src/storage/store/account: the generic Store of   *)
(* store.rs with the StoreDef of casts, links, reactions, user data,       *)
(* username proofs and verifications.                                      *)
(*                                                                         *)
(* Each operation reads RocksDB, fills a RocksDbTransactionBatch and       *)
(* commits it; another thread can act between the reads and the commit.    *)
(* Merges hold one of the fid locks throughout, revoke and prune hold      *)
(* none.  Messages are valid and their hashes, compared as numbers,        *)
(* unique.                                                                 *)
(***************************************************************************)
EXTENDS Naturals, FiniteSets, Sequences

CONSTANTS
    Stores,           \* the stores checked, among those of StoreDefs
    Messages,         \* store -> the messages it is offered
    Legacy,           \* store -> the links stored under unpadded keys
    Thread,           \* the threads that call the store
    FidLocks,         \* FID_LOCKS_COUNT, 4 in the code
    MaxPrune          \* bound: messages one call of prune_messages deletes

StoreDefs == {"cast", "link", "reaction", "userdata", "username", "verification"}

Types == {"add", "remove", "compact"}

(* A message has a fid, a type, a time and a hash.  Its kind is the type   *)
(* of a link, a reaction or a piece of user data; its target the parent of *)
(* a cast (0: none), the hash a cast remove names, the target of a link or *)
(* a reaction, a username or an address; its targets the mentions of a     *)
(* cast or the target_fids of a compact state.                             *)
MessageFields == {"fid", "type", "time", "hash", "kind", "target", "targets"}

ASSUME StoresKnown == Stores \subseteq StoreDefs
ASSUME HashesUnique ==
    \A s \in Stores :
        /\ \A m \in Messages[s] \cup Legacy[s] :
              /\ DOMAIN m = MessageFields
              /\ m.fid \in Nat \ {0} /\ m.type \in Types
              /\ m.time \in Nat /\ m.hash \in Nat /\ m.kind \in Nat
              /\ m.type = "remove" => s \notin {"userdata", "username"}
              /\ m.type = "compact" => s = "link"
        /\ \A m, n \in Messages[s] \cup Legacy[s] : m.hash = n.hash => m = n
        /\ \A m, n \in Legacy[s] : m # n => <<m.fid, m.kind, m.target>> # <<n.fid, n.kind, n.target>>
        /\ \A m \in Legacy[s] : s = "link" /\ m.type # "compact"
ASSUME BoundsPositive == FidLocks \in Nat \ {0} /\ MaxPrune \in Nat

VARIABLES
    store,     \* which store this is
    db,        \* key -> value, what RocksDB holds
    thr,       \* thread -> idle, or the operation it has under way
    offered,   \* history: the messages given to merge
    trimmed,   \* history: revoke or prune_messages was called
    raced      \* history: operations no lock keeps apart met, see Meet

vars == <<store, db, thr, offered, trimmed, raced>>

-----------------------------------------------------------------------------
(* Keys with values, and the ones of f in place of those of g.             *)

Entry(key, value) == [k \in {key} |-> value]
Over(f, g) == [k \in DOMAIN f \cup DOMAIN g |-> IF k \in DOMAIN f THEN f[k] ELSE g[k]]

-----------------------------------------------------------------------------
(* Keys *)

\* make_ts_hash, and the byte order of its values
TsHash(m) == <<m.time, m.hash>>
TsLess(a, b) == a[1] < b[1] \/ (a[1] = b[1] /\ a[2] < b[2])

\* make_message_primary_key
MessageKey(fid, ts) == <<"message", fid, ts>>

\* what make_add_key and make_remove_key put after the fid, per StoreDef
CastSlot(m) == IF m.type = "add" THEN m.hash ELSE m.target
LinkSlot(m) == <<m.kind, m.target>>
ReactionSlot(m) == <<m.kind, m.target>>
UserDataSlot(m) == m.kind
UsernameSlot(m) == m.target
VerificationSlot(m) == m.target

Slot(m) ==
    CASE store = "cast" -> CastSlot(m)
      [] store = "link" -> LinkSlot(m)
      [] store = "reaction" -> ReactionSlot(m)
      [] store = "userdata" -> UserDataSlot(m)
      [] store = "username" -> UsernameSlot(m)
      [] store = "verification" -> VerificationSlot(m)

(* make_add_key and make_remove_key; only links have unpadded keys.        *)
SetKey(type, fid, slot) == <<type, fid, slot>>
UnpaddedKey(type, fid, slot) == <<type, fid, slot, "unpadded">>

\* link_compact_state_add_key
CompactKey(m) == <<"compact", m.fid, m.kind>>

RemoveSupported == store \notin {"userdata", "username"}

(* by_parent_secondary_index_key, by_mention_secondary_index_key: a cast   *)
(* without a parent has no parent key.  The value is TRUE_VALUE.           *)
CastIndex(m) ==
    [k \in {<<"parent", m.target, TsHash(m), m.fid>> : p \in {m.target} \ {0}}
             \cup {<<"mention", x, TsHash(m), m.fid>> : x \in m.targets} |-> 1]

\* links_by_target_key and make_reactions_by_target_key, with the kind as value
LinkIndex(m) == Entry(<<"target", m.target, TsHash(m), m.fid>>, m.kind)
ReactionIndex(m) == Entry(<<"target", m.target, TsHash(m), m.fid>>, m.kind)

\* make_username_proof_by_name_key and make_verification_by_address_key
OwnerKey(slot) == <<"owner", slot>>
UsernameIndex(m) == Entry(OwnerKey(m.target), m.fid)
VerificationIndex(m) == Entry(OwnerKey(m.target), m.fid)

\* build_secondary_indices
SecondaryIndex(m) ==
    CASE store = "cast" -> CastIndex(m)
      [] store = "link" -> LinkIndex(m)
      [] store = "reaction" -> ReactionIndex(m)
      [] store = "userdata" -> <<>>
      [] store = "username" -> UsernameIndex(m)
      [] store = "verification" -> VerificationIndex(m)

-----------------------------------------------------------------------------
(* Batches: key -> {value} to put, {} to delete; a later entry for a key   *)
(* replaces an earlier one.                                                *)

Puts(f) == [k \in DOMAIN f |-> {f[k]}]
Erase(keys) == [k \in keys |-> {}]

\* rocksdb commit: the whole batch at once
Written(D, txn) ==
    LET kept == {k \in DOMAIN D \cup DOMAIN txn : k \in DOMAIN txn => txn[k] # {}}
    IN [k \in kept |-> IF k \in DOMAIN txn THEN CHOOSE v \in txn[k] : TRUE ELSE D[k]]

Get(key) == IF key \in DOMAIN db THEN {db[key]} ELSE {}

\* get_message
GetMessage(fid, ts) == Get(MessageKey(fid, ts))

\* for_each_iterator_by_prefix over the primary keys of a fid
StoredBy(fid) == {db[k] : k \in {x \in DOMAIN db : x[1] = "message" /\ x[2] = fid}}
Stored == {db[k] : k \in {x \in DOMAIN db : x[1] = "message"}}
Compacts == {db[k] : k \in {x \in DOMAIN db : x[1] = "compact"}}

\* mutant: the value of the set index is the whole message
PutAdd_MessageAsValue(m) ==
    Puts(Over(SecondaryIndex(m), Over(Entry(SetKey("add", m.fid, Slot(m)), m),
                                      Entry(MessageKey(m.fid, TsHash(m)), m))))

\* put_add_transaction, put_remove_transaction, put_add_compact_state_transaction
PutAdd(m) ==
    Puts(Over(SecondaryIndex(m), Over(Entry(SetKey("add", m.fid, Slot(m)), TsHash(m)),
                                      Entry(MessageKey(m.fid, TsHash(m)), m))))
PutRemove(m) ==
    Puts(Over(Entry(SetKey("remove", m.fid, Slot(m)), TsHash(m)),
              Entry(MessageKey(m.fid, TsHash(m)), m)))
PutCompact(m) == Puts(Entry(CompactKey(m), m))

UnpaddedKeys(m) == IF store = "link" THEN {UnpaddedKey(m.type, m.fid, Slot(m))} ELSE {}

\* mutant: the secondary entries stay
DeleteAdd_KeepsIndex(m) ==
    UnpaddedKeys(m) \cup {SetKey("add", m.fid, Slot(m)), MessageKey(m.fid, TsHash(m))}

(* The keys delete_add_transaction with delete_secondary_indices,          *)
(* delete_remove_transaction with delete_remove_secondary_indices and      *)
(* delete_compact_state_transaction delete.                                *)
DeleteAdd(m) ==
    DOMAIN SecondaryIndex(m) \cup UnpaddedKeys(m)
      \cup {SetKey("add", m.fid, Slot(m)), MessageKey(m.fid, TsHash(m))}
DeleteRemove(m) ==
    UnpaddedKeys(m) \cup {SetKey("remove", m.fid, Slot(m)), MessageKey(m.fid, TsHash(m))}
DeleteCompact(m) == {CompactKey(m)}

DeleteKeys(m) ==
    CASE m.type = "add" -> DeleteAdd(m)
      [] m.type = "remove" -> DeleteRemove(m)
      [] m.type = "compact" -> DeleteCompact(m)

\* delete_many_transaction
DeleteMany(ms) == Erase(UNION {DeleteKeys(m) : m \in ms})

-----------------------------------------------------------------------------
(* Conflicts *)

\* mutant: the hash alone breaks a tie of timestamps
DefaultBelow_HashTies(aType, a, bType, b) == TsLess(a, b)

(* message_compare < 0.  An existing entry that is not below the new       *)
(* message rejects it, as the more recent one or as its duplicate.         *)
DefaultBelow(aType, a, bType, b) ==
    IF a[1] # b[1] THEN a[1] < b[1]
    ELSE IF aType # bType THEN aType = "add" ELSE a[2] < b[2]

CastBelow(aType, a, bType, b) ==
    IF aType # bType THEN aType = "add" ELSE TsLess(a, b)

Below(aType, a, bType, b) ==
    IF store = "cast" THEN CastBelow(aType, a, bType, b) ELSE DefaultBelow(aType, a, bType, b)

(* The index entries get_merge_conflicts compares m with, each with the    *)
(* type it stands for, the fid it belongs to and the ts_hash in it.        *)
EntriesAt(type, fid, key) == {[type |-> type, fid |-> fid, ts |-> ts] : ts \in Get(key)}

DefaultRivals(m) ==
    EntriesAt("add", m.fid, SetKey("add", m.fid, Slot(m)))
      \cup (IF RemoveSupported
            THEN EntriesAt("remove", m.fid, SetKey("remove", m.fid, Slot(m))) ELSE {})

LinkRivals(m) ==
    DefaultRivals(m)
      \cup UNION {EntriesAt(type, m.fid, UnpaddedKey(type, m.fid, Slot(m))) :
                    type \in {"add", "remove"}}

\* mutant: only the fid's own entries are looked at
VerificationRivals_OwnFid(m) == DefaultRivals(m)

(* An add also meets the add of the address's owner, if it is another fid. *)
VerificationRivals(m) ==
    DefaultRivals(m)
      \cup (IF m.type = "add"
            THEN UNION {EntriesAt("add", f, SetKey("add", f, Slot(m))) :
                          f \in Get(OwnerKey(Slot(m))) \ {m.fid}}
            ELSE {})

(* The add of the name's owner, compared only if its message is stored.    *)
UsernameRivals(m) ==
    {e \in UNION {EntriesAt("add", f, SetKey("add", f, Slot(m))) : f \in Get(OwnerKey(Slot(m)))} :
        GetMessage(e.fid, e.ts) # {}}

\* vec_to_u8_24 fails for a name whose owner has no entry in the adds set
UsernameLookupFails(m) ==
    \E f \in Get(OwnerKey(Slot(m))) : Get(SetKey("add", f, Slot(m))) = {}

Rivals(m) ==
    CASE store = "link" -> LinkRivals(m)
      [] store = "verification" -> VerificationRivals(m)
      [] store = "username" -> UsernameRivals(m)
      [] OTHER -> DefaultRivals(m)

\* get_merge_conflicts: no error, and the messages it returns
Accepts(m) ==
    /\ store = "username" => ~UsernameLookupFails(m)
    /\ \A e \in Rivals(m) : Below(e.type, e.ts, m.type, TsHash(m))
Conflicts(m) == UNION {GetMessage(e.fid, e.ts) : e \in Rivals(m)}

-----------------------------------------------------------------------------
(* Operations *)

Idle == [busy |-> FALSE]
Under(fid, locked, txn) == [busy |-> TRUE, fid |-> fid, locked |-> locked, txn |-> txn]

LockOf(fid) == fid % FidLocks

\* mutant: every merge takes the lock at once
LockFree_Ignored(fid) == TRUE

\* the fid lock merge waits for
LockFree(fid) ==
    \A t \in Thread : thr[t].busy /\ thr[t].locked => LockOf(thr[t].fid) # LockOf(fid)

CompactOf(m) == IF store = "link" THEN Get(CompactKey(m)) ELSE {}

\* mutant: adds are not held against the compact state
MergeAdd_IgnoresCompact(m) == Accepts(m)

(* merge_add, merge_remove, merge_compact_state: whether the message is    *)
(* merged, and the batch if it is.                                         *)
MergeAdd(m) ==
    /\ \A c \in CompactOf(m) : m.time < c.time => m.target \in c.targets
    /\ Accepts(m)
AddBatch(m) == Over(PutAdd(m), DeleteMany(Conflicts(m)))

MergeRemove(m) == (\A c \in CompactOf(m) : m.time >= c.time) /\ Accepts(m)
RemoveBatch(m) == Over(PutRemove(m), DeleteMany(Conflicts(m)))

MergeCompact(m) == \A c \in CompactOf(m) : c.time < m.time
CompactBatch(m) ==
    Over(PutCompact(m), DeleteMany(CompactOf(m) \cup
        {s \in StoredBy(m.fid) : s.time <= m.time /\ (s.type = "add" => s.target \notin m.targets)}))

Merged(m) ==
    CASE m.type = "add" -> MergeAdd(m)
      [] m.type = "remove" -> MergeRemove(m)
      [] m.type = "compact" -> MergeCompact(m)
MergeBatch(m) ==
    CASE m.type = "add" -> AddBatch(m)
      [] m.type = "remove" -> RemoveBatch(m)
      [] m.type = "compact" -> CompactBatch(m)

\* merge enters once it has the lock
MayMerge(t, m) == ~thr[t].busy /\ LockFree(m.fid)

(* Two operations under way meet if one touches a fid or a key of the      *)
(* other: the fid locks are there to keep them apart.                      *)
FidsOf(w) == {w.fid} \cup {k[2] : k \in {x \in DOMAIN w.txn : x[1] \in {"message", "compact"}}}
Meet(w, x) ==
    /\ w.busy /\ x.busy
    /\ FidsOf(w) \cap FidsOf(x) # {} \/ DOMAIN w.txn \cap DOMAIN x.txn # {}

\* thread t has read what it needs; stale: what it was called with is gone
Begin(t, w, stale) ==
    /\ thr' = [thr EXCEPT ![t] = w]
    /\ raced' = (raced \/ stale \/ \E u \in Thread : Meet(thr[u], w))

(* merge up to db.commit: under the lock, until Commit.                    *)
Merge(t, m) ==
    /\ MayMerge(t, m)
    /\ Merged(m)
    /\ Begin(t, Under(m.fid, TRUE, MergeBatch(m)), FALSE)
    /\ offered' = offered \cup {m}
    /\ UNCHANGED <<store, db, trimmed>>

\* merge that returns an error
MergeFails(t, m) ==
    /\ MayMerge(t, m)
    /\ ~Merged(m)
    /\ offered' = offered \cup {m}
    /\ UNCHANGED <<store, db, thr, trimmed, raced>>

(* revoke, of whatever message its caller names, stored or not.            *)
Revoke(t, m) ==
    /\ ~thr[t].busy /\ m \in offered
    /\ Begin(t, Under(m.fid, FALSE, Erase(DeleteKeys(m))), m \notin Stored \cup Compacts)
    /\ trimmed' = TRUE
    /\ UNCHANGED <<store, db, offered>>

(* prune_messages: the oldest messages of the fid, as many as the cached   *)
(* count exceeds the limit by.  Compact states have keys of their own.     *)
Prune(t, fid, excess) ==
    LET older(m) == {s \in StoredBy(fid) : TsLess(TsHash(s), TsHash(m))}
        pruned == {m \in StoredBy(fid) : Cardinality(older(m)) < excess}
    IN /\ ~thr[t].busy
       /\ pruned # {}
       /\ Begin(t, Under(fid, FALSE, DeleteMany(pruned)), FALSE)
       /\ trimmed' = TRUE
       /\ UNCHANGED <<store, db, offered>>

\* db.commit; a merge's lock is released on return
Commit(t) ==
    /\ thr[t].busy
    /\ db' = Written(db, thr[t].txn)
    /\ thr' = [thr EXCEPT ![t] = Idle]
    /\ UNCHANGED <<store, offered, trimmed, raced>>

-----------------------------------------------------------------------------

\* a link stored before its keys were padded
Unpadded(m) ==
    Over(Entry(UnpaddedKey(m.type, m.fid, LinkSlot(m)), TsHash(m)),
         Over(Entry(MessageKey(m.fid, TsHash(m)), m), IF m.type = "add" THEN LinkIndex(m) ELSE <<>>))

Init ==
    /\ store \in Stores
    /\ offered \in SUBSET Legacy[store]
    /\ db = LET keys == UNION {DOMAIN Unpadded(m) : m \in offered}
            IN [k \in keys |-> Unpadded(CHOOSE m \in offered : k \in DOMAIN Unpadded(m))[k]]
    /\ thr = [t \in Thread |-> Idle]
    /\ trimmed = FALSE
    /\ raced = FALSE

Next ==
    \E t \in Thread :
        \/ \E m \in Messages[store] : Merge(t, m) \/ MergeFails(t, m)
        \/ \E m \in Messages[store] \cup Legacy[store] : Revoke(t, m)
        \/ \E fid \in {m.fid : m \in offered}, excess \in 1..MaxPrune : Prune(t, fid, excess)
        \/ Commit(t)

Spec == Init /\ [][Next]_vars

-----------------------------------------------------------------------------
(* Properties *)

(* Every value in the database is what its key is for: messages under      *)
(* primary keys, their ts_hash in the sets of adds and removes, fids as    *)
(* owners.  Batches hold at most one value per key, and no two merges hold *)
(* the same lock.                                                          *)
TypeOK ==
    /\ store \in Stores
    /\ \A k \in DOMAIN db :
          CASE k[1] = "message" -> db[k] \in Messages[store] \cup Legacy[store]
            [] k[1] = "compact" -> db[k] \in Messages[store] /\ db[k].type = "compact"
            [] k[1] \in {"add", "remove"} ->
                 db[k] \in {TsHash(m) : m \in Messages[store] \cup Legacy[store]}
            [] k[1] = "owner" -> db[k] \in Nat \ {0}
            [] OTHER -> db[k] \in Nat
    /\ \A t \in Thread : thr[t].busy =>
          /\ thr[t].locked \in BOOLEAN
          /\ \A k \in DOMAIN thr[t].txn : Cardinality(thr[t].txn[k]) <= 1
    /\ \A t, u \in Thread :
          t # u /\ thr[t].busy /\ thr[u].busy /\ thr[t].locked /\ thr[u].locked
            => LockOf(thr[t].fid) # LockOf(thr[u].fid)
    /\ offered \subseteq Messages[store] \cup Legacy[store]

(* Messages about the same thing; for names, and for the adds of           *)
(* addresses, of whatever fids.                                            *)
Collide(m, n) ==
    /\ Slot(m) = Slot(n)
    /\ \/ m.fid = n.fid
       \/ store \in {"username", "verification"} /\ m.type = "add" /\ n.type = "add"

(* "For adds, we also need to check for conflicts across all fids": no two *)
(* stored messages are about the same thing, so that a name or an address  *)
(* has one owner.  The merges of two fids hold two locks, and neither sees *)
(* the other's add.                                                        *)
OneOwner == \A m, n \in Stored : Collide(m, n) => m = n

(* link_store.rs: "Indices are built to look up link adds in the adds set, *)
(* link removes in the remove set and all links for a given target".       *)
(* Every stored message has exactly one entry in its set and all its       *)
(* secondary entries, there is no entry of anything else, and no two       *)
(* stored messages are about the same thing.  Revoke and prune hold no     *)
(* lock: what they read may be superseded before they commit.              *)
IndexesOK ==
    /\ \A m \in Stored :
          /\ Cardinality({k \in {SetKey(m.type, m.fid, Slot(m)),
                                 UnpaddedKey(m.type, m.fid, Slot(m))} :
                            Get(k) = {TsHash(m)}}) = 1
          /\ m.type = "add" =>
                \A k \in DOMAIN SecondaryIndex(m) : Get(k) = {SecondaryIndex(m)[k]}
    /\ \A k \in DOMAIN db :
          CASE k[1] \in {"message", "compact"} -> TRUE
            [] k[1] \in {"add", "remove"} ->
                 \E m \in StoredBy(k[2]) : m.type = k[1] /\ Slot(m) = k[3] /\ TsHash(m) = db[k]
            [] OTHER -> \E m \in Stored : m.type = "add" /\ k \in DOMAIN SecondaryIndex(m)
    /\ OneOwner

(* Where the fid locks are not enough: revoke and prune take none, and     *)
(* fids of different locks compete for names and addresses.                *)
Exposed == trimmed \/ store \in {"username", "verification"}

(* What the fid locks guarantee of that.  The merges of casts, links,      *)
(* reactions and user data keep every index exact in every interleaving;   *)
(* where the locks are not enough, that lasts until two operations meet or *)
(* a revoke names a message that is not stored any more.                   *)
IndexesMatch == (Exposed /\ raced) \/ IndexesOK

(* The order the stores document: for casts removes win, then the highest  *)
(* timestamp, then the highest hash; for the others the highest timestamp, *)
(* then removes, then the highest hash.                                    *)
Rank(m) ==
    LET removes == IF m.type = "remove" THEN 1 ELSE 0
    IN IF store = "cast" THEN <<removes, m.time, m.hash>> ELSE <<m.time, removes, m.hash>>
Outranks(m, n) ==
    LET a == Rank(m)
        b == Rank(n)
    IN \E i \in 1..3 : a[i] > b[i] /\ \A j \in 1..(i - 1) : a[j] = b[j]
Winners == {m \in offered : ~\E n \in offered : Collide(m, n) /\ Outranks(n, m)}

(* "a two-phase CRDT set to guarantee eventual consistency": as long as    *)
(* nothing was revoked, pruned or compacted, and no merges of different    *)
(* locks met over a name or an address, an idle store holds the winners    *)
(* among all messages it was ever offered, whatever the order and the      *)
(* interleaving of the merges.  It holds nothing else, except              *)
(* verifications once removes are among them: the add of another fid is    *)
(* deleted, not outranked, so that after a remove of the winner what was   *)
(* merged when decides whether an older add is held.                       *)
Converges ==
    ~trimmed /\ ~(Exposed /\ raced) /\ (\A m \in offered : m.type # "compact")
      /\ (\A t \in Thread : ~thr[t].busy) =>
        /\ Winners \subseteq Stored
        /\ (store = "verification" => \A m \in offered : m.type = "add") => Stored \subseteq Winners

(* No link older than a compact state of its kind survives it or is merged *)
(* after it, except adds of targets the compact state lists.               *)
CompactRespected ==
    \A c \in Compacts, m \in Stored :
        m.fid = c.fid /\ m.kind = c.kind /\ m.time < c.time
            => m.type = "add" /\ m.target \in c.targets
=============================================================================
