------------------------- MODULE MessageStoreProofs -------------------------
(***************************************************************************)
(* TLAPS proofs for MessageStore: the six stores with any messages, any    *)
(* number of threads and locks.                                            *)
(***************************************************************************)
EXTENDS StoreQueries, MessageSet, FiniteSetTheorems, TLAPS

All == Messages[store] \cup Legacy[store]

StoreOK == store \in Stores

LEMMA MessageFacts ==
    ASSUME StoreOK, NEW m \in All
    PROVE  /\ m.fid \in Nat \ {0} /\ m.type \in Types
           /\ m.time \in Nat /\ m.hash \in Nat /\ m.kind \in Nat
           /\ m.type = "remove" => RemoveSupported
           /\ m.type = "compact" => store = "link" /\ m \in Messages[store]
           /\ m \in Legacy[store] => store = "link"
           /\ \A n \in All : m.hash = n.hash => m = n
BY HashesUnique DEF StoreOK, All, RemoveSupported

-----------------------------------------------------------------------------
(* What a message puts, and what is deleted with it *)

(* The entries put for a message, and those of a link stored unpadded.     *)
Index(m) ==
    IF m.type = "compact" THEN Entry(CompactKey(m), m)
    ELSE IF m.type = "add"
    THEN Over(SecondaryIndex(m), Over(Entry(SetKey("add", m.fid, Slot(m)), TsHash(m)),
                                      Entry(MessageKey(m.fid, TsHash(m)), m)))
    ELSE Over(Entry(SetKey("remove", m.fid, Slot(m)), TsHash(m)), Entry(MessageKey(m.fid, TsHash(m)), m))

\* the key that holds the message itself
HoldKey(m) == IF m.type = "compact" THEN CompactKey(m) ELSE MessageKey(m.fid, TsHash(m))

LEMMA OverIs ==
    ASSUME NEW f, NEW g
    PROVE  /\ DOMAIN Over(f, g) = DOMAIN f \cup DOMAIN g
           /\ \A k \in DOMAIN f : Over(f, g)[k] = f[k]
           /\ \A k \in DOMAIN g : k \notin DOMAIN f => Over(f, g)[k] = g[k]
BY DEF Over

SecondaryKinds == {"parent", "mention", "target", "owner"}

(* A secondary key names its message, or the slot if it is an owner key.   *)
LEMMA SecondaryForm ==
    ASSUME StoreOK, NEW m \in All, NEW k \in DOMAIN SecondaryIndex(m)
    PROVE  \/ /\ store \in {"cast", "link", "reaction"}
              /\ \E w \in {"parent", "mention", "target"} : \E x : k = <<w, x, TsHash(m), m.fid>>
              /\ SecondaryIndex(m)[k] \in Nat
           \/ /\ store \in {"username", "verification"}
              /\ k = OwnerKey(Slot(m))
              /\ SecondaryIndex(m)[k] = m.fid
<1>1. store \in StoreDefs
  BY StoresKnown DEF StoreOK
<1>2. CASE store = "cast"
  <2>1. SecondaryIndex(m) = CastIndex(m)
    BY <1>2 DEF SecondaryIndex
  <2>2. /\ k \in {<<"parent", m.target, TsHash(m), m.fid>> : p \in {m.target} \ {0}}
                   \cup {<<"mention", x, TsHash(m), m.fid>> : x \in m.targets}
        /\ CastIndex(m)[k] = 1
    BY <2>1 DEF CastIndex
  <2> QED
    BY <1>2, <2>1, <2>2
<1>3. CASE store = "link"
  <2>1. SecondaryIndex(m) = Entry(<<"target", m.target, TsHash(m), m.fid>>, m.kind)
    BY <1>3 DEF SecondaryIndex, LinkIndex
  <2>2. k = <<"target", m.target, TsHash(m), m.fid>> /\ SecondaryIndex(m)[k] = m.kind
    BY <2>1 DEF Entry
  <2> QED
    BY <1>3, <2>2, MessageFacts
<1>4. CASE store = "reaction"
  <2>1. SecondaryIndex(m) = Entry(<<"target", m.target, TsHash(m), m.fid>>, m.kind)
    BY <1>4 DEF SecondaryIndex, ReactionIndex
  <2>2. k = <<"target", m.target, TsHash(m), m.fid>> /\ SecondaryIndex(m)[k] = m.kind
    BY <2>1 DEF Entry
  <2> QED
    BY <1>4, <2>2, MessageFacts
<1>5. CASE store = "userdata"
  <2>1. SecondaryIndex(m) = <<>>
    BY <1>5 DEF SecondaryIndex
  <2> QED
    BY <2>1
<1>6. CASE store = "username"
  <2>1. SecondaryIndex(m) = Entry(OwnerKey(m.target), m.fid) /\ Slot(m) = m.target
    BY <1>6 DEF SecondaryIndex, UsernameIndex, Slot, UsernameSlot
  <2>2. k = OwnerKey(m.target) /\ SecondaryIndex(m)[k] = m.fid
    BY <2>1 DEF Entry
  <2> QED
    BY <1>6, <2>1, <2>2
<1>7. CASE store = "verification"
  <2>1. SecondaryIndex(m) = Entry(OwnerKey(m.target), m.fid) /\ Slot(m) = m.target
    BY <1>7 DEF SecondaryIndex, VerificationIndex, Slot, VerificationSlot
  <2>2. k = OwnerKey(m.target) /\ SecondaryIndex(m)[k] = m.fid
    BY <2>1 DEF Entry
  <2> QED
    BY <1>7, <2>1, <2>2
<1> QED
  BY <1>1, <1>2, <1>3, <1>4, <1>5, <1>6, <1>7 DEF StoreDefs

(* A stored name or address has its owner entry.                           *)
LEMMA OwnerEntry ==
    ASSUME NEW m, store \in {"username", "verification"}
    PROVE  DOMAIN SecondaryIndex(m) = {OwnerKey(Slot(m))}
<1>1. SecondaryIndex(m) = Entry(OwnerKey(m.target), m.fid) /\ Slot(m) = m.target
  BY DEF SecondaryIndex, UsernameIndex, VerificationIndex, Slot, UsernameSlot, VerificationSlot
<1> QED
  BY <1>1 DEF Entry

LEMMA OwnerValue ==
    ASSUME NEW m, store \in {"username", "verification"}
    PROVE  SecondaryIndex(m)[OwnerKey(Slot(m))] = m.fid
<1>1. SecondaryIndex(m) = Entry(OwnerKey(m.target), m.fid) /\ Slot(m) = m.target
  BY DEF SecondaryIndex, UsernameIndex, VerificationIndex, Slot, UsernameSlot, VerificationSlot
<1> QED
  BY <1>1 DEF Entry

(* The keys deleted with a message.                                        *)
SecondaryKey(m, k) ==
    \/ /\ store \in {"cast", "link", "reaction"}
       /\ \E w \in {"parent", "mention", "target"} : \E x : k = <<w, x, TsHash(m), m.fid>>
    \/ /\ store \in {"username", "verification"}
       /\ k = OwnerKey(Slot(m))

LEMMA DeletedForm ==
    ASSUME StoreOK, NEW m \in All, NEW k \in DeleteKeys(m)
    PROVE  \/ m.type = "compact" /\ k = CompactKey(m)
           \/ /\ m.type # "compact"
              /\ \/ k = MessageKey(m.fid, TsHash(m))
                 \/ k = SetKey(m.type, m.fid, Slot(m))
                 \/ store = "link" /\ k = UnpaddedKey(m.type, m.fid, Slot(m))
                 \/ m.type = "add" /\ k \in DOMAIN SecondaryIndex(m) /\ SecondaryKey(m, k)
<1>1. m.type \in Types
  BY MessageFacts
<1>2. CASE m.type = "compact"
  BY <1>2 DEF DeleteKeys, DeleteCompact
<1>3. CASE m.type = "add"
  <2>1. k \in DeleteAdd(m)
    BY <1>3 DEF DeleteKeys
  <2>2. CASE k \in DOMAIN SecondaryIndex(m)
    BY <1>3, <2>2, SecondaryForm DEF SecondaryKey
  <2>3. CASE k \in UnpaddedKeys(m)
    BY <1>3, <2>3 DEF UnpaddedKeys
  <2> QED
    BY <1>3, <2>1, <2>2, <2>3 DEF DeleteAdd
<1>4. CASE m.type = "remove"
  <2>1. k \in DeleteRemove(m)
    BY <1>4 DEF DeleteKeys
  <2> QED
    BY <1>4, <2>1 DEF DeleteRemove, UnpaddedKeys
<1> QED
  BY <1>1, <1>2, <1>3, <1>4 DEF Types

(* The entries of a message and of a link stored unpadded.                 *)
EntriesOK(m, f) ==
    /\ DOMAIN f \subseteq DeleteKeys(m)
    /\ HoldKey(m) \in DOMAIN f /\ f[HoldKey(m)] = m
    /\ m.type # "compact" =>
         /\ SetKey(m.type, m.fid, Slot(m)) \in DOMAIN f
              <=> UnpaddedKey(m.type, m.fid, Slot(m)) \notin DOMAIN f
         /\ \A k \in {SetKey(m.type, m.fid, Slot(m)), UnpaddedKey(m.type, m.fid, Slot(m))} \cap DOMAIN f :
              f[k] = TsHash(m)
    /\ m.type = "add" => \A k \in DOMAIN SecondaryIndex(m) : k \in DOMAIN f /\ f[k] = SecondaryIndex(m)[k]

(* A secondary key is the key of no message, compact state or set entry.   *)
LEMMA SecondaryApart ==
    ASSUME StoreOK, NEW m \in All, NEW k \in DOMAIN SecondaryIndex(m)
    PROVE  /\ \A a, b : k # <<"message", a, b>> /\ k # <<"compact", a, b>> /\ k # <<"add", a, b>>
                        /\ k # <<"remove", a, b>>
           /\ \A a, b, c : k # <<"add", a, b, c>> /\ k # <<"remove", a, b, c>>
<1>1. \/ \E w \in {"parent", "mention", "target"} : \E x : k = <<w, x, TsHash(m), m.fid>>
      \/ k = <<"owner", Slot(m)>>
  BY SecondaryForm DEF OwnerKey
<1>2. k[1] \in SecondaryKinds
  BY <1>1 DEF SecondaryKinds
<1> QED
  BY <1>2 DEF SecondaryKinds

LEMMA IndexEntries ==
    ASSUME StoreOK, NEW m \in All
    PROVE  EntriesOK(m, Index(m))
<1>1. m.type \in Types
  BY MessageFacts
<1>2. CASE m.type = "compact"
  <2>1. Index(m) = Entry(CompactKey(m), m) /\ DeleteKeys(m) = {CompactKey(m)} /\ HoldKey(m) = CompactKey(m)
    BY <1>2 DEF Index, DeleteKeys, DeleteCompact, HoldKey
  <2>2. DOMAIN Index(m) = {CompactKey(m)} /\ Index(m)[CompactKey(m)] = m
    BY <2>1 DEF Entry
  <2> QED
    BY <1>2, <2>1, <2>2 DEF EntriesOK
<1>3. CASE m.type = "remove"
  <2> DEFINE s == SetKey("remove", m.fid, Slot(m))
             u == UnpaddedKey("remove", m.fid, Slot(m))
             h == MessageKey(m.fid, TsHash(m))
  <2>1. Index(m) = Over(Entry(s, TsHash(m)), Entry(h, m)) /\ HoldKey(m) = h
        /\ s \in DeleteKeys(m) /\ h \in DeleteKeys(m)
    BY <1>3 DEF Index, DeleteKeys, DeleteRemove, HoldKey
  <2>2. s # h /\ u # h /\ u # s
    BY DEF SetKey, UnpaddedKey, MessageKey
  <2> HIDE DEF s, u, h
  <2>3. DOMAIN Index(m) = {s, h} /\ Index(m)[s] = TsHash(m) /\ Index(m)[h] = m
    BY <2>1, <2>2 DEF Entry, Over
  <2> QED
    BY <1>3, <2>1, <2>2, <2>3 DEF EntriesOK, s, u
<1>4. CASE m.type = "add"
  <2> DEFINE s == SetKey("add", m.fid, Slot(m))
             u == UnpaddedKey("add", m.fid, Slot(m))
             h == MessageKey(m.fid, TsHash(m))
             x == SecondaryIndex(m)
  <2>1. Index(m) = Over(x, Over(Entry(s, TsHash(m)), Entry(h, m))) /\ HoldKey(m) = h
        /\ s \in DeleteKeys(m) /\ h \in DeleteKeys(m) /\ DOMAIN x \subseteq DeleteKeys(m)
    BY <1>4 DEF Index, DeleteKeys, DeleteAdd, HoldKey
  <2>2. s # h /\ u # h /\ u # s
    BY DEF SetKey, UnpaddedKey, MessageKey
  <2>3. s \notin DOMAIN x /\ u \notin DOMAIN x /\ h \notin DOMAIN x
    BY SecondaryApart DEF SetKey, UnpaddedKey, MessageKey
  <2> HIDE DEF s, u, h, x
  <2>4. /\ DOMAIN Index(m) = DOMAIN x \cup {s, h} /\ Index(m)[s] = TsHash(m) /\ Index(m)[h] = m
        /\ \A k \in DOMAIN x : Index(m)[k] = x[k]
    BY <2>1, <2>2, <2>3 DEF Entry, Over
  <2> QED
    BY <1>4, <2>1, <2>2, <2>3, <2>4 DEF EntriesOK, s, u, x
<1> QED
  BY <1>1, <1>2, <1>3, <1>4 DEF Types

LEMMA UnpaddedEntries ==
    ASSUME StoreOK, NEW m \in Legacy[store]
    PROVE  EntriesOK(m, Unpadded(m))
<1>1. m \in All /\ store = "link" /\ m.type \in {"add", "remove"}
  BY MessageFacts, HashesUnique DEF All, Types, StoreOK
<1> DEFINE s == SetKey(m.type, m.fid, Slot(m))
           u == UnpaddedKey(m.type, m.fid, Slot(m))
           h == MessageKey(m.fid, TsHash(m))
           x == IF m.type = "add" THEN SecondaryIndex(m) ELSE <<>>
<1>2. Unpadded(m) = Over(Entry(u, TsHash(m)), Over(Entry(h, m), x))
  BY <1>1 DEF Unpadded, Slot, SecondaryIndex
<1>3. HoldKey(m) = h /\ u \in DeleteKeys(m) /\ h \in DeleteKeys(m) /\ DOMAIN x \subseteq DeleteKeys(m)
  BY <1>1 DEF DeleteKeys, DeleteAdd, DeleteRemove, UnpaddedKeys, HoldKey
<1>4. s # h /\ u # h /\ u # s
  BY <1>1 DEF SetKey, UnpaddedKey, MessageKey
<1>5. s \notin DOMAIN x /\ u \notin DOMAIN x /\ h \notin DOMAIN x
  BY <1>1, SecondaryApart DEF SetKey, UnpaddedKey, MessageKey
<1>6. m.type = "add" => x = SecondaryIndex(m)
  OBVIOUS
<1> HIDE DEF s, u, h, x
<1>7. /\ DOMAIN Unpadded(m) = DOMAIN x \cup {u, h} /\ Unpadded(m)[u] = TsHash(m) /\ Unpadded(m)[h] = m
      /\ \A k \in DOMAIN x : Unpadded(m)[k] = x[k]
  BY <1>2, <1>4, <1>5 DEF Entry, Over
<1> QED
  BY <1>1, <1>3, <1>4, <1>5, <1>6, <1>7 DEF EntriesOK, s, u

-----------------------------------------------------------------------------
(* Messages that share keys *)

(* Two messages are about the same thing: compact states of one fid and    *)
(* kind, other messages of one fid with one slot, adds of one name or      *)
(* address.                                                                *)
Clash(m, n) ==
    IF m.type = "compact" \/ n.type = "compact"
    THEN m.type = n.type /\ CompactKey(m) = CompactKey(n)
    ELSE /\ Slot(m) = Slot(n)
         /\ \/ m.fid = n.fid
            \/ store \in {"username", "verification"} /\ m.type = "add" /\ n.type = "add"

(* Two messages that are about different things share no key: deleting one *)
(* leaves the entries of the other.                                        *)
LEMMA KeysApart ==
    ASSUME StoreOK, NEW m \in All, NEW n \in All, ~Clash(m, n)
    PROVE  DeleteKeys(m) \cap DeleteKeys(n) = {}
<1> SUFFICES ASSUME NEW k \in DeleteKeys(m), k \in DeleteKeys(n)
             PROVE  FALSE
  OBVIOUS
<1>1. m.hash = n.hash => m = n
  BY MessageFacts
<1>2. m # n
  BY DEF Clash
<1>3. m.type \in Types /\ n.type \in Types
  BY MessageFacts
<1>4. CASE m.type = "compact" \/ n.type = "compact"
  <2>1. /\ m.type = "compact" => k = <<"compact", m.fid, m.kind>>
        /\ n.type = "compact" => k = <<"compact", n.fid, n.kind>>
    BY DeletedForm DEF CompactKey
  <2>2. m.type # "compact" => k[1] # "compact"
    BY <1>3, DeletedForm DEF MessageKey, SetKey, UnpaddedKey, SecondaryKey, OwnerKey
  <2>3. n.type # "compact" => k[1] # "compact"
    BY <1>3, DeletedForm DEF MessageKey, SetKey, UnpaddedKey, SecondaryKey, OwnerKey
  <2> QED
    BY <1>4, <2>1, <2>2, <2>3 DEF Clash, CompactKey
<1>5. CASE m.type # "compact" /\ n.type # "compact"
  <2>1. \/ k = MessageKey(m.fid, TsHash(m))
        \/ k = SetKey(m.type, m.fid, Slot(m))
        \/ store = "link" /\ k = UnpaddedKey(m.type, m.fid, Slot(m))
        \/ m.type = "add" /\ SecondaryKey(m, k)
    BY <1>5, DeletedForm
  <2>2. \/ k = MessageKey(n.fid, TsHash(n))
        \/ k = SetKey(n.type, n.fid, Slot(n))
        \/ store = "link" /\ k = UnpaddedKey(n.type, n.fid, Slot(n))
        \/ n.type = "add" /\ SecondaryKey(n, k)
    BY <1>5, DeletedForm
  <2>3. m.type \in {"add", "remove"} /\ n.type \in {"add", "remove"}
    BY <1>3, <1>5 DEF Types
  <2>4. Slot(m) = Slot(n) => /\ m.fid # n.fid
                             /\ ~(store \in {"username", "verification"} /\ m.type = "add" /\ n.type = "add")
    BY <1>5 DEF Clash
  <2>5. TsHash(m) # TsHash(n)
    BY <1>1, <1>2 DEF TsHash
  <2>6. CASE k = MessageKey(m.fid, TsHash(m))
    BY <2>2, <2>3, <2>5, <2>6 DEF MessageKey, SetKey, UnpaddedKey, SecondaryKey, OwnerKey
  <2>7. CASE k = SetKey(m.type, m.fid, Slot(m))
    BY <2>2, <2>3, <2>4, <2>7 DEF MessageKey, SetKey, UnpaddedKey, SecondaryKey, OwnerKey
  <2>8. CASE k = UnpaddedKey(m.type, m.fid, Slot(m))
    BY <2>2, <2>3, <2>4, <2>8 DEF MessageKey, SetKey, UnpaddedKey, SecondaryKey, OwnerKey
  <2>9. CASE m.type = "add" /\ SecondaryKey(m, k)
    <3>1. CASE \E w \in {"parent", "mention", "target"} : \E x : k = <<w, x, TsHash(m), m.fid>>
      BY <2>2, <2>3, <2>5, <3>1 DEF MessageKey, SetKey, UnpaddedKey, SecondaryKey, OwnerKey
    <3>2. CASE k = OwnerKey(Slot(m)) /\ store \in {"username", "verification"}
      BY <2>2, <2>3, <2>4, <2>9, <3>2 DEF MessageKey, SetKey, UnpaddedKey, SecondaryKey, OwnerKey
    <3> QED
      BY <2>9, <3>1, <3>2 DEF SecondaryKey
  <2> QED
    BY <2>1, <2>6, <2>7, <2>8, <2>9
<1> QED
  BY <1>4, <1>5

\* a message holds its own key, and no other message's
LEMMA HoldKeyForm ==
    ASSUME StoreOK, NEW m \in All, NEW n \in All, HoldKey(m) \in DeleteKeys(n)
    PROVE  HoldKey(m) = HoldKey(n)
<1>1. m.type \in Types /\ n.type \in Types
  BY MessageFacts
<1>2. HoldKey(m)[1] \in {"message", "compact"}
  BY DEF HoldKey, CompactKey, MessageKey
<1>3. CASE n.type = "compact"
  BY <1>3, DeletedForm DEF HoldKey
<1>4. CASE n.type # "compact"
  <2>1. HoldKey(m) = MessageKey(n.fid, TsHash(n))
    BY <1>1, <1>2, <1>4, DeletedForm DEF MessageKey, SetKey, UnpaddedKey, SecondaryKey, OwnerKey, Types
  <2> QED
    BY <1>4, <2>1 DEF HoldKey
<1> QED
  BY <1>3, <1>4

-----------------------------------------------------------------------------
(* Batches *)

Deleted(C) == UNION {DeleteKeys(n) : n \in C}

\* the batch of a merge that replaces the messages of C
Putting(m, C) == Over(Puts(Index(m)), DeleteMany(C))

\* what a merge deletes
Replaced(m) ==
    IF m.type = "compact"
    THEN CompactOf(m) \cup
           {s \in StoredBy(m.fid) : s.time <= m.time /\ (s.type = "add" => s.target \notin m.targets)}
    ELSE Conflicts(m)

(* Whatever path a merge takes (add, remove, compact state), its batch     *)
(* puts the entries of one message and deletes those of what it replaces.  *)
LEMMA MergeBatchIs ==
    ASSUME StoreOK, NEW m \in All
    PROVE  MergeBatch(m) = Putting(m, Replaced(m))
<1>1. m.type \in Types
  BY MessageFacts
<1>2. CASE m.type = "add"
  <2>1. PutAdd(m) = Puts(Index(m)) /\ Replaced(m) = Conflicts(m) /\ MergeBatch(m) = AddBatch(m)
    BY <1>2 DEF PutAdd, Index, Replaced, MergeBatch
  <2> QED
    BY <2>1, Zenon DEF AddBatch, Putting
<1>3. CASE m.type = "remove"
  <2>1. PutRemove(m) = Puts(Index(m)) /\ Replaced(m) = Conflicts(m) /\ MergeBatch(m) = RemoveBatch(m)
    BY <1>3 DEF PutRemove, Index, Replaced, MergeBatch
  <2> QED
    BY <2>1, Zenon DEF RemoveBatch, Putting
<1>4. CASE m.type = "compact"
  <2>1. PutCompact(m) = Puts(Index(m)) /\ MergeBatch(m) = CompactBatch(m)
    BY <1>4 DEF PutCompact, Index, MergeBatch
  <2>2. CompactBatch(m) = Over(PutCompact(m), DeleteMany(Replaced(m)))
    BY <1>4, Zenon DEF CompactBatch, Replaced
  <2> QED
    BY <2>1, <2>2, Zenon DEF Putting
<1> QED
  BY <1>1, <1>2, <1>3, <1>4 DEF Types

(* What a batch leaves in the database.                                    *)
LEMMA WrittenDeletes ==
    ASSUME NEW D, NEW C
    PROVE  /\ DOMAIN Written(D, DeleteMany(C)) = DOMAIN D \ Deleted(C)
           /\ \A k \in DOMAIN D \ Deleted(C) : Written(D, DeleteMany(C))[k] = D[k]
<1> DEFINE txn == DeleteMany(C)
<1>1. DOMAIN txn = Deleted(C) /\ \A k \in Deleted(C) : txn[k] = {}
  BY DEF DeleteMany, Erase, Deleted
<1> HIDE DEF txn
<1>2. DOMAIN Written(D, txn) = DOMAIN D \ Deleted(C)
  BY <1>1 DEF Written
<1>3. \A k \in DOMAIN D \ Deleted(C) : Written(D, txn)[k] = D[k]
  BY <1>1 DEF Written
<1> QED
  BY <1>2, <1>3 DEF txn

LEMMA PuttingIs ==
    ASSUME NEW m, NEW C
    PROVE  /\ DOMAIN Putting(m, C) = DOMAIN Index(m) \cup Deleted(C)
           /\ \A k \in DOMAIN Index(m) : Putting(m, C)[k] = {Index(m)[k]}
           /\ \A k \in Deleted(C) : k \notin DOMAIN Index(m) => Putting(m, C)[k] = {}
<1> DEFINE e == DeleteMany(C)
           p == Puts(Index(m))
<1>1. DOMAIN e = Deleted(C) /\ \A k \in Deleted(C) : e[k] = {}
  BY DEF DeleteMany, Erase, Deleted
<1>2. DOMAIN p = DOMAIN Index(m) /\ \A k \in DOMAIN Index(m) : p[k] = {Index(m)[k]}
  BY DEF Puts
<1>3. Putting(m, C) = Over(p, e)
  BY Zenon DEF Putting
<1> HIDE DEF e, p
<1> QED
  BY <1>1, <1>2, <1>3 DEF Over

LEMMA PuttingAt ==
    ASSUME NEW m, NEW C
    PROVE  \A k \in DOMAIN Index(m) : Putting(m, C)[k] = {Index(m)[k]}
BY PuttingIs, Zenon

LEMMA PuttingElsewhere ==
    ASSUME NEW m, NEW C
    PROVE  \A k \in Deleted(C) : k \notin DOMAIN Index(m) => Putting(m, C)[k] = {}
BY PuttingIs, Zenon

LEMMA WrittenDomain ==
    ASSUME NEW D, NEW m, NEW C
    PROVE  DOMAIN Written(D, Putting(m, C)) = DOMAIN Index(m) \cup (DOMAIN D \ Deleted(C))
<1> DEFINE txn == Putting(m, C)
<1>1. DOMAIN txn = DOMAIN Index(m) \cup Deleted(C)
  BY PuttingIs
<1>2. \A k \in DOMAIN Index(m) : txn[k] = {Index(m)[k]}
  BY PuttingAt
<1>3. \A k \in Deleted(C) : k \notin DOMAIN Index(m) => txn[k] = {}
  BY PuttingElsewhere
<1> HIDE DEF txn
<1>4. DOMAIN Written(D, txn) = DOMAIN Index(m) \cup (DOMAIN D \ Deleted(C))
  BY <1>1, <1>2, <1>3 DEF Written
<1> QED
  BY <1>4 DEF txn

LEMMA WrittenNew ==
    ASSUME NEW D, NEW m, NEW C, NEW k \in DOMAIN Index(m)
    PROVE  Written(D, Putting(m, C))[k] = Index(m)[k]
<1> DEFINE txn == Putting(m, C)
<1>1. k \in DOMAIN txn
  BY PuttingIs
<1>2. txn[k] = {Index(m)[k]}
  BY PuttingAt
<1> HIDE DEF txn
<1>3. (CHOOSE v \in txn[k] : TRUE) = Index(m)[k]
  BY <1>2
<1>4. Written(D, txn)[k] = Index(m)[k]
  BY <1>1, <1>2, <1>3 DEF Written
<1> QED
  BY <1>4 DEF txn

LEMMA WrittenOld ==
    ASSUME NEW D, NEW m, NEW C, NEW k \in DOMAIN D \ Deleted(C), k \notin DOMAIN Index(m)
    PROVE  Written(D, Putting(m, C))[k] = D[k]
<1> DEFINE txn == Putting(m, C)
<1>1. k \notin DOMAIN txn
  BY PuttingIs
<1> HIDE DEF txn
<1>2. Written(D, txn)[k] = D[k]
  BY <1>1 DEF Written
<1> QED
  BY <1>2 DEF txn

(* The definitions that read store do not change.                          *)
LEMMA SameStore ==
    ASSUME store' = store, NEW m
    PROVE  /\ Slot(m)' = Slot(m) /\ SecondaryIndex(m)' = SecondaryIndex(m)
           /\ DeleteKeys(m)' = DeleteKeys(m) /\ Index(m)' = Index(m)
           /\ Unpadded(m)' = Unpadded(m) /\ All' = All
<1>1. Slot(m)' = Slot(m)
  BY DEF Slot, CastSlot, LinkSlot, ReactionSlot, UserDataSlot, UsernameSlot, VerificationSlot
<1>2. SecondaryIndex(m)' = SecondaryIndex(m)
  BY DEF SecondaryIndex, CastIndex, LinkIndex, ReactionIndex, UsernameIndex, VerificationIndex,
         TsHash, OwnerKey, Entry
<1>3. UnpaddedKeys(m)' = UnpaddedKeys(m)
  BY <1>1 DEF UnpaddedKeys, UnpaddedKey
<1>4. DeleteKeys(m)' = DeleteKeys(m)
  BY <1>1, <1>2, <1>3 DEF DeleteKeys, DeleteAdd, DeleteRemove, DeleteCompact, SetKey, MessageKey,
                          CompactKey, TsHash
<1>5. Index(m)' = Index(m)
  BY <1>1, <1>2 DEF Index, Over, Entry, SetKey, MessageKey, CompactKey, TsHash
<1>6. Unpadded(m)' = Unpadded(m) /\ All' = All
  BY DEF Unpadded, LinkIndex, LinkSlot, Over, Entry, UnpaddedKey, MessageKey, TsHash, All
<1> QED
  BY <1>1, <1>2, <1>4, <1>5, <1>6

-----------------------------------------------------------------------------
(* Types *)

\* v is what message n has under k
ValueOf(n, k, v) ==
    \/ k \in DOMAIN Index(n) /\ v = Index(n)[k]
    \/ n \in Legacy[store] /\ k \in DOMAIN Unpadded(n) /\ v = Unpadded(n)[k]

(* The database holds entries of messages, and batches put entries of one. *)
DbOK == \A k \in DOMAIN db : \E n \in All : ValueOf(n, k, db[k])

WorkOK(w) ==
    \/ w = Idle
    \/ \E fid, C : w = Under(fid, FALSE, DeleteMany(C))
    \/ \E m \in Messages[store] : \E C : w = Under(m.fid, TRUE, Putting(m, C))

OneHolder ==
    \A t, u \in Thread :
        t # u /\ thr[t].busy /\ thr[u].busy /\ thr[t].locked /\ thr[u].locked
          => LockOf(thr[t].fid) # LockOf(thr[u].fid)

ThreadsOK == DOMAIN thr = Thread /\ \A t \in Thread : WorkOK(thr[t])

TypeInv == StoreOK /\ ThreadsOK /\ OneHolder /\ DbOK /\ offered \subseteq All

LEMMA ValueEntries ==
    ASSUME StoreOK, NEW n \in All, NEW k, NEW v, ValueOf(n, k, v)
    PROVE  /\ k \in DeleteKeys(n)
           /\ k = HoldKey(n) => v = n
           /\ n.type # "compact" /\ k \in {SetKey(n.type, n.fid, Slot(n)), UnpaddedKey(n.type, n.fid, Slot(n))}
                => v = TsHash(n)
           /\ n.type = "add" /\ k \in DOMAIN SecondaryIndex(n) => v = SecondaryIndex(n)[k]
<1>1. PICK f : EntriesOK(n, f) /\ k \in DOMAIN f /\ v = f[k]
  BY IndexEntries, UnpaddedEntries DEF ValueOf
<1> QED
  BY <1>1 DEF EntriesOK

LEMMA ValueForm ==
    ASSUME StoreOK, NEW n \in All, NEW k, NEW v, ValueOf(n, k, v)
    PROVE  /\ k[1] = "message" => n.type # "compact" /\ v = n /\ k = HoldKey(n)
           /\ k[1] = "compact" => n.type = "compact" /\ v = n /\ k = HoldKey(n)
           /\ k[1] \in {"add", "remove"} =>
                /\ n.type = k[1] /\ k[2] = n.fid /\ k[3] = Slot(n) /\ v = TsHash(n)
           /\ k[1] \notin {"message", "compact", "add", "remove"} =>
                n.type = "add" /\ k \in DOMAIN SecondaryIndex(n) /\ v = SecondaryIndex(n)[k]
<1>1. n.type \in Types /\ k \in DeleteKeys(n)
  BY MessageFacts, ValueEntries
<1>2. CASE k = HoldKey(n)
  BY <1>1, <1>2, ValueEntries DEF HoldKey, MessageKey, CompactKey
<1>3. CASE n.type # "compact" /\ k \in {SetKey(n.type, n.fid, Slot(n)), UnpaddedKey(n.type, n.fid, Slot(n))}
  <2>1. v = TsHash(n)
    BY <1>3, ValueEntries
  <2>2. k[1] = n.type /\ k[2] = n.fid /\ k[3] = Slot(n)
    BY <1>3 DEF SetKey, UnpaddedKey
  <2> QED
    BY <1>1, <1>3, <2>1, <2>2 DEF Types
<1>4. CASE n.type = "add" /\ k \in DOMAIN SecondaryIndex(n) /\ SecondaryKey(n, k)
  <2>1. v = SecondaryIndex(n)[k]
    BY <1>4, ValueEntries
  <2>2. k[1] \notin {"message", "compact", "add", "remove"}
    BY <1>4 DEF SecondaryKey, OwnerKey
  <2> QED
    BY <1>4, <2>1, <2>2
<1> QED
  BY <1>1, <1>2, <1>3, <1>4, DeletedForm DEF HoldKey

LEMMA TypeInit == Init => TypeInv
<1> SUFFICES ASSUME Init PROVE TypeInv
  OBVIOUS
<1>1. StoreOK /\ offered \subseteq All
  BY DEF Init, StoreOK, All
<1>2. ThreadsOK /\ OneHolder
  BY DEF Init, ThreadsOK, OneHolder, WorkOK, Idle
<1>3. ASSUME NEW k \in DOMAIN db
      PROVE  \E n \in All : ValueOf(n, k, db[k])
  <2> DEFINE n == CHOOSE m \in offered : k \in DOMAIN Unpadded(m)
  <2>1. k \in UNION {DOMAIN Unpadded(m) : m \in offered} /\ db[k] = Unpadded(n)[k]
    BY DEF Init
  <2>2. n \in offered /\ k \in DOMAIN Unpadded(n)
    BY <2>1
  <2> HIDE DEF n
  <2> QED
    BY <2>1, <2>2, <1>1 DEF Init, ValueOf, All
<1> QED
  BY <1>1, <1>2, <1>3 DEF TypeInv, DbOK

(* The steps: a thread begins a merge, or deletions, or commits.           *)
Begins(t, w) ==
    /\ ~thr[t].busy /\ thr' = [thr EXCEPT ![t] = w]
    /\ db' = db /\ store' = store
    /\ ~raced' => ~raced /\ \A u \in Thread : ~Meet(thr[u], w)

\* C is what prune_messages chooses of the messages of a fid
Pruned(fid, C) ==
    /\ C # {}
    /\ \E excess \in 1..MaxPrune :
          C = {m \in StoredBy(fid) :
                 Cardinality({s \in StoredBy(fid) : TsLess(TsHash(s), TsHash(m))}) < excess}

(* The steps by what they do to the database and the threads: the          *)
(* induction proofs split on these.                                        *)
LEMMA StepKinds ==
    ASSUME TypeInv, [Next]_vars
    PROVE  \/ UNCHANGED <<store, db, thr>> /\ (trimmed' = trimmed) /\ (raced' = raced)
              /\ \/ offered' = offered
                 \/ \E t \in Thread : \E m \in Messages[store] : MergeFails(t, m)
           \/ \E t \in Thread : \E m \in Messages[store] :
                Merge(t, m) /\ Begins(t, Under(m.fid, TRUE, Putting(m, Replaced(m))))
           \/ \E t \in Thread : \E m \in All :
                Revoke(t, m) /\ Begins(t, Under(m.fid, FALSE, DeleteMany({m})))
           \/ \E t \in Thread : \E fid : \E C \in SUBSET StoredBy(fid) :
                /\ Begins(t, Under(fid, FALSE, DeleteMany(C)))
                /\ trimmed' /\ offered' = offered /\ Pruned(fid, C)
           \/ \E t \in Thread : Commit(t)
<1>1. CASE UNCHANGED vars
  BY <1>1 DEF vars
<1>2. ASSUME NEW t \in Thread, NEW m \in Messages[store], Merge(t, m)
      PROVE  Begins(t, Under(m.fid, TRUE, Putting(m, Replaced(m))))
  <2>1. MergeBatch(m) = Putting(m, Replaced(m))
    BY MergeBatchIs DEF TypeInv, All
  <2>2. /\ thr' = [thr EXCEPT ![t] = Under(m.fid, TRUE, MergeBatch(m))] /\ ~thr[t].busy /\ db' = db /\ store' = store
        /\ ~raced' => ~raced /\ \A u \in Thread : ~Meet(thr[u], Under(m.fid, TRUE, MergeBatch(m)))
    BY <1>2, Zenon DEF Merge, MayMerge, Begin
  <2> QED
    BY <2>1, <2>2, Zenon DEF Begins
<1>3. ASSUME NEW t \in Thread, NEW m \in All, Revoke(t, m)
      PROVE  Begins(t, Under(m.fid, FALSE, DeleteMany({m})))
  <2>1. UNION {DeleteKeys(n) : n \in {m}} = DeleteKeys(m)
    OBVIOUS
  <2>2. DeleteMany({m}) = Erase(DeleteKeys(m))
    BY <2>1, Zenon DEF DeleteMany
  <2>3. /\ thr' = [thr EXCEPT ![t] = Under(m.fid, FALSE, Erase(DeleteKeys(m)))] /\ ~thr[t].busy
        /\ db' = db /\ store' = store
        /\ ~raced' => ~raced /\ \A u \in Thread : ~Meet(thr[u], Under(m.fid, FALSE, Erase(DeleteKeys(m))))
    BY <1>3, Zenon DEF Revoke, Begin
  <2> QED
    BY <2>2, <2>3, Zenon DEF Begins
<1>4. ASSUME NEW t \in Thread, NEW fid, NEW excess \in 1..MaxPrune, Prune(t, fid, excess)
      PROVE  \E C \in SUBSET StoredBy(fid) :
               /\ Begins(t, Under(fid, FALSE, DeleteMany(C)))
               /\ trimmed' /\ offered' = offered /\ Pruned(fid, C)
  <2> DEFINE older(m) == {s \in StoredBy(fid) : TsLess(TsHash(s), TsHash(m))}
             C == {m \in StoredBy(fid) : Cardinality(older(m)) < excess}
  <2>1. /\ ~thr[t].busy
        /\ thr' = [thr EXCEPT ![t] = Under(fid, FALSE, DeleteMany(C))]
        /\ ~raced' => ~raced /\ \A u \in Thread : ~Meet(thr[u], Under(fid, FALSE, DeleteMany(C)))
        /\ trimmed' = TRUE /\ db' = db /\ store' = store /\ offered' = offered
    BY <1>4, Zenon DEF Prune, Begin
  <2>2. C \in SUBSET StoredBy(fid)
    OBVIOUS
  <2>3. C # {}
    BY <1>4, Zenon DEF Prune
  <2>4. Pruned(fid, C)
    BY <2>3, Zenon DEF Pruned
  <2> HIDE DEF C
  <2> QED
    BY <2>1, <2>2, <2>4, Zenon DEF Begins
<1>5. ASSUME NEW t \in Thread, NEW m \in Messages[store], MergeFails(t, m)
      PROVE  UNCHANGED <<store, db, thr>> /\ trimmed' = trimmed /\ raced' = raced
  BY <1>5 DEF MergeFails
<1>6. CASE Next
  BY <1>2, <1>3, <1>4, <1>5, <1>6, Zenon DEF Next, All
<1> QED
  BY <1>1, <1>6

LEMMA BusyForm ==
    ASSUME TypeInv, NEW t \in Thread, thr[t].busy
    PROVE  \/ \E C : thr[t].txn = DeleteMany(C) /\ thr[t].locked = FALSE
           \/ \E m \in Messages[store] : \E C :
                thr[t].txn = Putting(m, C) /\ thr[t].locked = TRUE /\ thr[t].fid = m.fid
<1>1. WorkOK(thr[t])
  BY DEF TypeInv, ThreadsOK
<1>2. thr[t] # Idle
  BY DEF Idle
<1>3. CASE \E fid, C : thr[t] = Under(fid, FALSE, DeleteMany(C))
  <2>1. PICK fid, C : thr[t] = Under(fid, FALSE, DeleteMany(C))
    BY <1>3
  <2> DEFINE e == DeleteMany(C)
  <2> HIDE DEF e
  <2>2. thr[t].txn = e /\ thr[t].locked = FALSE
    BY <2>1 DEF Under, e
  <2> QED
    BY <2>2 DEF e
<1>4. CASE \E m \in Messages[store] : \E C : thr[t] = Under(m.fid, TRUE, Putting(m, C))
  <2>1. PICK m \in Messages[store] : \E C : thr[t] = Under(m.fid, TRUE, Putting(m, C))
    BY <1>4
  <2>2. PICK C : thr[t] = Under(m.fid, TRUE, Putting(m, C))
    BY <2>1
  <2> DEFINE e == Putting(m, C)
  <2> HIDE DEF e
  <2>3. thr[t].txn = e /\ thr[t].locked = TRUE /\ thr[t].fid = m.fid
    BY <2>2 DEF Under, e
  <2> QED
    BY <2>3 DEF e
<1> QED
  BY <1>1, <1>2, <1>3, <1>4 DEF WorkOK

(* What a thread commits, and what the others keep.                        *)
LEMMA CommitIs ==
    ASSUME TypeInv, NEW t \in Thread, Commit(t)
    PROVE  /\ thr[t].busy /\ store' = store /\ db' = Written(db, thr[t].txn)
           /\ DOMAIN thr' = Thread /\ thr'[t] = Idle
           /\ \A u \in Thread \ {t} : thr'[u] = thr[u]
           /\ offered' = offered /\ trimmed' = trimmed /\ raced' = raced
           /\ \/ \E C : thr[t].txn = DeleteMany(C) /\ thr[t].locked = FALSE
              \/ \E m \in Messages[store] : \E C :
                   thr[t].txn = Putting(m, C) /\ thr[t].locked = TRUE /\ thr[t].fid = m.fid
<1>1. DOMAIN thr = Thread
  BY DEF TypeInv, ThreadsOK
<1>2. /\ thr[t].busy /\ store' = store /\ db' = Written(db, thr[t].txn)
      /\ thr' = [thr EXCEPT ![t] = Idle] /\ offered' = offered /\ trimmed' = trimmed
      /\ raced' = raced
  BY DEF Commit
<1>4. \/ \E C : thr[t].txn = DeleteMany(C) /\ thr[t].locked = FALSE
      \/ \E m \in Messages[store] : \E C :
           thr[t].txn = Putting(m, C) /\ thr[t].locked = TRUE /\ thr[t].fid = m.fid
  BY <1>2, BusyForm
<1> QED
  BY <1>1, <1>2, <1>4

LEMMA BeginsThreads ==
    ASSUME ThreadsOK, NEW t \in Thread, NEW w, Begins(t, w)
    PROVE  DOMAIN thr' = Thread /\ thr'[t] = w /\ \A u \in Thread \ {t} : thr'[u] = thr[u]
BY DEF ThreadsOK, Begins

LEMMA WorkKept ==
    ASSUME store' = store, NEW w, WorkOK(w)
    PROVE  WorkOK(w)'
<1>1. \A C : DeleteMany(C)' = DeleteMany(C)
  BY SameStore DEF DeleteMany, Erase
<1>2. \A m, C : Putting(m, C)' = Putting(m, C)
  <2> SUFFICES ASSUME NEW m, NEW C PROVE Putting(m, C)' = Putting(m, C)
    OBVIOUS
  <2>1. Index(m)' = Index(m)
    BY SameStore
  <2> QED
    BY <1>1, <2>1 DEF Putting, Over, Puts
<1> QED
  BY <1>1, <1>2 DEF WorkOK, Under, Idle

LEMMA ValueKept ==
    ASSUME store' = store, NEW n, NEW k, NEW v
    PROVE  ValueOf(n, k, v)' <=> ValueOf(n, k, v)
<1>1. Index(n)' = Index(n) /\ Unpadded(n)' = Unpadded(n)
  BY SameStore
<1> QED
  BY <1>1 DEF ValueOf

(* A committed batch leaves entries of messages.                           *)
LEMMA WrittenValue ==
    ASSUME TypeInv, NEW t \in Thread, Commit(t), NEW k \in DOMAIN db'
    PROVE  \/ k \in DOMAIN db /\ db'[k] = db[k] /\ ~\E C : thr[t].txn = DeleteMany(C) /\ k \in Deleted(C)
           \/ \E m \in Messages[store] : \E C :
                /\ thr[t].txn = Putting(m, C) /\ thr[t].locked = TRUE /\ thr[t].fid = m.fid
                /\ \/ k \in DOMAIN Index(m) /\ db'[k] = Index(m)[k]
                   \/ k \in DOMAIN db \ Deleted(C) /\ db'[k] = db[k]
<1>1. CASE \E C : thr[t].txn = DeleteMany(C)
  <2>1. ASSUME NEW C, thr[t].txn = DeleteMany(C)
        PROVE  k \in DOMAIN db \ Deleted(C) /\ db'[k] = db[k]
    <3>1. db' = Written(db, DeleteMany(C))
      BY <2>1, CommitIs
    <3> QED
      BY <3>1, WrittenDeletes
  <2> QED
    BY <1>1, <2>1
<1>2. CASE \E m \in Messages[store] : \E C :
             thr[t].txn = Putting(m, C) /\ thr[t].locked = TRUE /\ thr[t].fid = m.fid
  <2>2. ASSUME NEW n \in Messages[store], NEW B, thr[t].txn = Putting(n, B)
        PROVE  \/ k \in DOMAIN Index(n) /\ db'[k] = Index(n)[k]
               \/ k \in DOMAIN db \ Deleted(B) /\ db'[k] = db[k]
    <3>1. db' = Written(db, Putting(n, B))
      BY <2>2, CommitIs
    <3>2. k \in DOMAIN Index(n) \cup (DOMAIN db \ Deleted(B))
      BY <3>1, WrittenDomain
    <3>3. CASE k \in DOMAIN Index(n)
      BY <3>1, <3>3, WrittenNew
    <3>4. CASE k \notin DOMAIN Index(n)
      BY <3>1, <3>2, <3>4, WrittenOld
    <3> QED
      BY <3>3, <3>4
  <2> QED
    BY <1>2, <2>2
<1> QED
  BY <1>1, <1>2, CommitIs

LEMMA TypeStep == TypeInv /\ [Next]_vars => TypeInv'
<1> SUFFICES ASSUME TypeInv, [Next]_vars PROVE TypeInv'
  OBVIOUS
<1>1. store' = store
  BY StepKinds DEF Begins, Commit
<1>2. StoreOK' /\ All' = All
  BY <1>1, SameStore DEF TypeInv, StoreOK
<1>3. offered' \subseteq All
  <2>1. \/ offered' = offered
        \/ \E m \in All : offered' = offered \cup {m}
    BY StepKinds DEF MergeFails, Merge, Revoke, Commit, All
  <2> QED
    BY <2>1 DEF TypeInv
<1>4. ThreadsOK' /\ OneHolder'
  <2>1. CASE UNCHANGED thr
    <3>1. ThreadsOK'
      BY <1>1, <2>1, WorkKept DEF TypeInv, ThreadsOK
    <3> QED
      BY <2>1, <3>1 DEF TypeInv, OneHolder
  <2>2. ASSUME NEW t \in Thread, NEW m \in Messages[store], Merge(t, m), NEW w,
               w = Under(m.fid, TRUE, Putting(m, Replaced(m))), Begins(t, w)
        PROVE  ThreadsOK' /\ OneHolder'
    <3>1. DOMAIN thr' = Thread /\ thr'[t] = w /\ \A u \in Thread \ {t} : thr'[u] = thr[u]
      BY <2>2, BeginsThreads DEF TypeInv
    <3>2. WorkOK(w)
      BY <2>2 DEF WorkOK
    <3>3. \A u \in Thread : WorkOK(thr'[u])
      BY <3>1, <3>2 DEF TypeInv, ThreadsOK
    <3>4. ThreadsOK'
      BY <1>1, <3>1, <3>3, WorkKept DEF ThreadsOK
    <3>5. w.fid = m.fid
      BY <2>2 DEF Under
    <3>6. \A u \in Thread : thr[u].busy /\ thr[u].locked => LockOf(thr[u].fid) # LockOf(m.fid)
      BY <2>2 DEF Merge, MayMerge, LockFree
    <3>7. OneHolder'
      BY <3>1, <3>5, <3>6 DEF TypeInv, OneHolder
    <3> QED
      BY <3>4, <3>7
  <2>3. ASSUME NEW t \in Thread, NEW fid, NEW C, NEW w,
               w = Under(fid, FALSE, DeleteMany(C)), Begins(t, w)
        PROVE  ThreadsOK' /\ OneHolder'
    <3>1. DOMAIN thr' = Thread /\ thr'[t] = w /\ \A u \in Thread \ {t} : thr'[u] = thr[u]
      BY <2>3, BeginsThreads DEF TypeInv
    <3>2. WorkOK(w) /\ w.locked = FALSE
      BY <2>3 DEF WorkOK, Under
    <3>3. \A u \in Thread : WorkOK(thr'[u])
      BY <3>1, <3>2 DEF TypeInv, ThreadsOK
    <3>4. ThreadsOK'
      BY <1>1, <3>1, <3>3, WorkKept DEF ThreadsOK
    <3>5. OneHolder'
      BY <3>1, <3>2 DEF TypeInv, OneHolder
    <3> QED
      BY <3>4, <3>5
  <2>4. ASSUME NEW t \in Thread, Commit(t)
        PROVE  ThreadsOK' /\ OneHolder'
    <3>1. DOMAIN thr' = Thread /\ thr'[t] = Idle /\ \A u \in Thread \ {t} : thr'[u] = thr[u]
      BY <2>4, CommitIs
    <3>2. \A u \in Thread : WorkOK(thr'[u])
      BY <3>1 DEF TypeInv, ThreadsOK, WorkOK
    <3>3. ThreadsOK'
      BY <1>1, <3>1, <3>2, WorkKept DEF ThreadsOK
    <3>4. OneHolder'
      BY <3>1 DEF TypeInv, OneHolder, Idle
    <3> QED
      BY <3>3, <3>4
  <2> QED
    BY <2>1, <2>2, <2>3, <2>4, StepKinds
<1>5. DbOK'
  <2>1. CASE UNCHANGED db
    BY <1>1, <1>2, <2>1, ValueKept DEF TypeInv, DbOK
  <2>2. ASSUME NEW t \in Thread, Commit(t), NEW k \in DOMAIN db'
        PROVE  \E n \in All : ValueOf(n, k, db'[k])
    BY <2>2, WrittenValue DEF TypeInv, DbOK, ValueOf, All
  <2>3. UNCHANGED db \/ \E t \in Thread : Commit(t)
    BY StepKinds DEF Begins
  <2> QED
    BY <1>1, <1>2, <2>1, <2>2, <2>3, ValueKept DEF DbOK
<1> QED
  BY <1>2, <1>3, <1>4, <1>5 DEF TypeInv

LEMMA TypeHolds == Spec => []TypeInv
BY TypeInit, TypeStep, PTL DEF Spec

(* Every value in the database is what its key is for, batches have one    *)
(* value per key at most, and a fid lock has one holder: for any messages, *)
(* threads and number of locks.                                            *)
THEOREM TypeCorrect == Spec => []TypeOK
<1>1. TypeInv => TypeOK
  <2> SUFFICES ASSUME TypeInv PROVE TypeOK
    OBVIOUS
  <2>1. ASSUME NEW k \in DOMAIN db
        PROVE  CASE k[1] = "message" -> db[k] \in Messages[store] \cup Legacy[store]
                 [] k[1] = "compact" -> db[k] \in Messages[store] /\ db[k].type = "compact"
                 [] k[1] \in {"add", "remove"} ->
                      db[k] \in {TsHash(m) : m \in Messages[store] \cup Legacy[store]}
                 [] k[1] = "owner" -> db[k] \in Nat \ {0}
                 [] OTHER -> db[k] \in Nat
    <3>1. PICK n \in All : ValueOf(n, k, db[k])
      BY DEF TypeInv, DbOK
    <3>2. CASE k[1] \in {"message", "compact", "add", "remove"}
      BY <3>1, <3>2, ValueForm, MessageFacts DEF TypeInv, All
    <3>3. CASE k[1] \notin {"message", "compact", "add", "remove"}
      <4>1. k \in DOMAIN SecondaryIndex(n) /\ db[k] = SecondaryIndex(n)[k]
        BY <3>1, <3>3, ValueForm DEF TypeInv
      <4>2. /\ k[1] = "owner" => db[k] \in Nat \ {0}
            /\ db[k] \in Nat
        BY <4>1, SecondaryForm, MessageFacts DEF TypeInv, OwnerKey
      <4> QED
        BY <3>3, <4>2
    <3> QED
      BY <3>2, <3>3
  <2>2. ASSUME NEW t \in Thread, thr[t].busy
        PROVE  thr[t].locked \in BOOLEAN /\ \A k \in DOMAIN thr[t].txn : Cardinality(thr[t].txn[k]) <= 1
    <3>1. \/ \E C : thr[t].txn = DeleteMany(C) /\ thr[t].locked = FALSE
          \/ \E m \in Messages[store] : \E C :
               thr[t].txn = Putting(m, C) /\ thr[t].locked = TRUE /\ thr[t].fid = m.fid
      BY <2>2, BusyForm
    <3>2. thr[t].locked \in BOOLEAN
      BY <3>1, Zenon
    <3>3. ASSUME NEW C, thr[t].txn = DeleteMany(C), NEW k \in DOMAIN thr[t].txn
          PROVE  thr[t].txn[k] = {}
      BY <3>3 DEF DeleteMany, Erase
    <3>4. ASSUME NEW m, NEW C, thr[t].txn = Putting(m, C), NEW k \in DOMAIN thr[t].txn
          PROVE  thr[t].txn[k] = {} \/ \E v : thr[t].txn[k] = {v}
      <4>1. /\ k \in DOMAIN Index(m) \cup Deleted(C)
            /\ k \in DOMAIN Index(m) => thr[t].txn[k] = {Index(m)[k]}
            /\ k \in Deleted(C) /\ k \notin DOMAIN Index(m) => thr[t].txn[k] = {}
        <5> DEFINE E == Putting(m, C)
        <5>1. /\ DOMAIN E = DOMAIN Index(m) \cup Deleted(C)
              /\ \A x \in DOMAIN Index(m) : E[x] = {Index(m)[x]}
              /\ \A x \in Deleted(C) : x \notin DOMAIN Index(m) => E[x] = {}
          BY PuttingIs
        <5> HIDE DEF E
        <5>2. thr[t].txn = E
          BY <3>4 DEF E
        <5> QED
          BY <3>4, <5>1, <5>2
      <4> QED
        BY <4>1
    <3>5. \A k \in DOMAIN thr[t].txn : thr[t].txn[k] = {} \/ \E v : thr[t].txn[k] = {v}
      BY <3>1, <3>3, <3>4
    <3>6. ASSUME NEW k \in DOMAIN thr[t].txn PROVE Cardinality(thr[t].txn[k]) <= 1
      <4>1. CASE thr[t].txn[k] = {}
        BY <4>1, FS_EmptySet
      <4>2. CASE \E v : thr[t].txn[k] = {v}
        <5>1. PICK v : thr[t].txn[k] = {v}
          BY <4>2
        <5>2. Cardinality({v}) = 1
          BY FS_Singleton
        <5> QED
          BY <5>1, <5>2
      <4> QED
        BY <3>5, <4>1, <4>2
    <3> QED
      BY <3>2, <3>6
  <2> QED
    BY <2>1, <2>2 DEF TypeInv, StoreOK, OneHolder, TypeOK, All
<1> QED
  BY <1>1, TypeHolds, PTL

-----------------------------------------------------------------------------
(* Compact states *)

\* Stored and Compacts, of any database
StoredIn(D) == {D[k] : k \in {x \in DOMAIN D : x[1] = "message"}}
CompactsIn(D) == {D[k] : k \in {x \in DOMAIN D : x[1] = "compact"}}

DbIs(D) == \A k \in DOMAIN D : \E n \in All : ValueOf(n, k, D[k])

LEMMA HeldForm ==
    ASSUME StoreOK, NEW D, DbIs(D)
    PROVE  /\ \A s \in StoredIn(D) : /\ s \in All /\ s.type # "compact"
                                     /\ HoldKey(s) \in DOMAIN D /\ D[HoldKey(s)] = s
           /\ \A c \in CompactsIn(D) : /\ c \in All /\ c.type = "compact"
                                       /\ HoldKey(c) \in DOMAIN D /\ D[HoldKey(c)] = c
<1>1. ASSUME NEW k \in DOMAIN D, k[1] \in {"message", "compact"}
      PROVE  D[k] \in All /\ k = HoldKey(D[k]) /\ (k[1] = "compact" <=> D[k].type = "compact")
  <2>1. PICK n \in All : ValueOf(n, k, D[k])
    BY DEF DbIs
  <2> QED
    BY <1>1, <2>1, ValueForm
<1> QED
  BY <1>1 DEF StoredIn, CompactsIn

\* what a committed merge of m leaves was there before, or is m
LEMMA HeldAfter ==
    ASSUME StoreOK, NEW D, DbIs(D), NEW m \in All, NEW C, NEW E, E = Written(D, Putting(m, C)), DbIs(E)
    PROVE  /\ \A s \in StoredIn(E) : \/ s \in StoredIn(D) /\ HoldKey(s) \notin Deleted(C)
                                     \/ s = m /\ m.type # "compact"
           /\ \A c \in CompactsIn(E) : \/ c \in CompactsIn(D) /\ HoldKey(c) \notin Deleted(C)
                                       \/ c = m /\ m.type = "compact"
<1>1. ASSUME NEW k \in DOMAIN E, k[1] \in {"message", "compact"}
      PROVE  \/ k \in DOMAIN D \ Deleted(C) /\ E[k] = D[k]
             \/ E[k] = m /\ k = HoldKey(m)
  <2>1. k \in DOMAIN Index(m) \cup (DOMAIN D \ Deleted(C))
    BY WrittenDomain
  <2>2. CASE k \in DOMAIN Index(m)
    <3>1. E[k] = Index(m)[k]
      BY <2>2, WrittenNew
    <3>2. ValueOf(m, k, E[k])
      BY <2>2, <3>1 DEF ValueOf
    <3> QED
      BY <1>1, <3>2, ValueForm
  <2>3. CASE k \notin DOMAIN Index(m)
    BY <2>1, <2>3, WrittenOld
  <2> QED
    BY <2>2, <2>3
<1>2. ASSUME NEW s \in StoredIn(E)
      PROVE  \/ s \in StoredIn(D) /\ HoldKey(s) \notin Deleted(C)
             \/ s = m /\ m.type # "compact"
  <2>1. s.type # "compact" /\ HoldKey(s) \in DOMAIN E /\ E[HoldKey(s)] = s
    BY HeldForm
  <2>2. HoldKey(s)[1] = "message"
    BY <2>1 DEF HoldKey, MessageKey
  <2> QED
    BY <1>1, <2>1, <2>2 DEF StoredIn
<1>3. ASSUME NEW c \in CompactsIn(E)
      PROVE  \/ c \in CompactsIn(D) /\ HoldKey(c) \notin Deleted(C)
             \/ c = m /\ m.type = "compact"
  <2>1. c.type = "compact" /\ HoldKey(c) \in DOMAIN E /\ E[HoldKey(c)] = c
    BY HeldForm
  <2>2. HoldKey(c)[1] = "compact"
    BY <2>1 DEF HoldKey, CompactKey
  <2> QED
    BY <1>1, <2>1, <2>2 DEF CompactsIn
<1> QED
  BY <1>2, <1>3

(* Deleting never adds a message or a compact state.                       *)
LEMMA HeldFewer ==
    ASSUME NEW D, NEW C, NEW E, E = Written(D, DeleteMany(C))
    PROVE  StoredIn(E) \subseteq StoredIn(D) /\ CompactsIn(E) \subseteq CompactsIn(D)
<1>1. DOMAIN E = DOMAIN D \ Deleted(C)
  BY WrittenDeletes
<1>2. \A k \in DOMAIN E : E[k] = D[k]
  BY <1>1, WrittenDeletes, Zenon
<1> QED
  BY <1>1, <1>2 DEF StoredIn, CompactsIn

Respects(c, m) ==
    m.fid = c.fid /\ m.kind = c.kind /\ m.time < c.time => m.type = "add" /\ m.target \in c.targets

(* A pending merge does not break CompactRespected when it commits: the    *)
(* compact states in the database respect the message, or the messages     *)
(* that do not respect the compact state go with it.                       *)
Safe(m, C, D) ==
    /\ m.type # "compact" => \A c \in CompactsIn(D) : Respects(c, m)
    /\ m.type = "compact" => \A s \in StoredIn(D) : Respects(m, s) \/ HoldKey(s) \in Deleted(C)

PendingSafe(w, D) ==
    w.busy /\ w.locked =>
        \E m \in Messages[store] : \E C : w.fid = m.fid /\ w.txn = Putting(m, C) /\ Safe(m, C, D)

CompactsRespected(D) == \A c \in CompactsIn(D), m \in StoredIn(D) : Respects(c, m)

CompactInv == CompactsRespected(db) /\ \A t \in Thread : PendingSafe(thr[t], db)

LEMMA PendingKept ==
    ASSUME store' = store, NEW w, NEW D, PendingSafe(w, D)
    PROVE  PendingSafe(w, D)'
<1>1. \A C : Deleted(C)' = Deleted(C) /\ DeleteMany(C)' = DeleteMany(C)
  BY SameStore DEF Deleted, DeleteMany, Erase
<1>2. \A m, C : Putting(m, C)' = Putting(m, C)
  <2> SUFFICES ASSUME NEW m, NEW C PROVE Putting(m, C)' = Putting(m, C)
    OBVIOUS
  <2>1. Index(m)' = Index(m)
    BY SameStore
  <2> QED
    BY <1>1, <2>1 DEF Putting, Over, Puts
<1>3. \A m, C : Safe(m, C, D)' <=> Safe(m, C, D)
  BY <1>1 DEF Safe, Respects, HoldKey, CompactKey, MessageKey, TsHash, StoredIn, CompactsIn
<1> QED
  BY <1>2, <1>3 DEF PendingSafe

\* the checks of merge make its batch safe
LEMMA MergeSafe ==
    ASSUME TypeInv, NEW m \in Messages[store], Merged(m)
    PROVE  Safe(m, Replaced(m), db)
<1>1. StoreOK /\ DbIs(db) /\ m \in All
  BY DEF TypeInv, DbOK, DbIs, All
<1>2. m.type \in Types
  BY <1>1, MessageFacts
<1>3. ASSUME m.type # "compact", NEW c \in CompactsIn(db)
      PROVE  Respects(c, m)
  <2> SUFFICES ASSUME m.fid = c.fid, m.kind = c.kind, m.time < c.time
               PROVE  m.type = "add" /\ m.target \in c.targets
    BY DEF Respects
  <2>1. c \in All /\ c.type = "compact" /\ HoldKey(c) \in DOMAIN db /\ db[HoldKey(c)] = c
    BY <1>1, HeldForm
  <2>2. CompactKey(m) \in DOMAIN db /\ db[CompactKey(m)] = c
    BY <2>1 DEF HoldKey, CompactKey
  <2>3. store = "link"
    BY <1>1, <2>1, MessageFacts
  <2>4. c \in CompactOf(m)
    BY <2>2, <2>3 DEF CompactOf, Get
  <2>5. m.time \in Nat /\ c.time \in Nat
    BY <1>1, <2>1, MessageFacts
  <2>6. CASE m.type = "add"
    BY <2>4, <2>6 DEF Merged, MergeAdd
  <2>7. CASE m.type = "remove"
    <3>1. m.time >= c.time
      BY <2>4, <2>7 DEF Merged, MergeRemove
    <3> QED
      BY <2>5, <3>1
  <2> QED
    BY <1>2, <1>3, <2>6, <2>7 DEF Types
<1>4. ASSUME m.type = "compact", NEW s \in StoredIn(db), ~Respects(m, s)
      PROVE  HoldKey(s) \in Deleted(Replaced(m))
  <2>1. s \in All /\ s.type # "compact" /\ HoldKey(s) \in DOMAIN db /\ db[HoldKey(s)] = s
    BY <1>1, HeldForm
  <2>2. s.fid = m.fid /\ s.time < m.time /\ (s.type = "add" => s.target \notin m.targets)
    BY <1>4 DEF Respects
  <2>3. s \in StoredBy(m.fid)
    BY <2>1, <2>2 DEF StoredBy, HoldKey, MessageKey
  <2>4. s.time <= m.time
    BY <1>1, <2>1, <2>2, MessageFacts
  <2>5. s \in Replaced(m)
    BY <1>4, <2>2, <2>3, <2>4 DEF Replaced
  <2>6. HoldKey(s) \in DeleteKeys(s)
    BY <1>1, <2>1, IndexEntries DEF EntriesOK
  <2> QED
    BY <2>5, <2>6 DEF Deleted
<1> QED
  BY <1>3, <1>4 DEF Safe

LEMMA CompactInit == Init => CompactInv
<1> SUFFICES ASSUME Init PROVE CompactInv
  OBVIOUS
<1>1. TypeInv
  BY TypeInit
<1>2. \A t \in Thread : PendingSafe(thr[t], db)
  BY DEF Init, PendingSafe, Idle
<1>3. ASSUME NEW c \in CompactsIn(db) PROVE FALSE
  <2>1. c.type = "compact" /\ HoldKey(c) \in DOMAIN db
    BY <1>1, <1>3, HeldForm DEF TypeInv, DbOK, DbIs
  <2>2. PICK m \in Legacy[store] : HoldKey(c) \in DOMAIN Unpadded(m)
    BY <2>1 DEF Init
  <2>3. m \in All /\ m.type # "compact"
    BY <1>1, HashesUnique DEF TypeInv, StoreOK, All
  <2>4. ValueOf(m, HoldKey(c), Unpadded(m)[HoldKey(c)])
    BY <2>2 DEF ValueOf
  <2>5. HoldKey(c)[1] = "compact"
    BY <2>1 DEF HoldKey, CompactKey
  <2> QED
    BY <1>1, <2>3, <2>4, <2>5, ValueForm DEF TypeInv
<1> QED
  BY <1>2, <1>3 DEF CompactInv, CompactsRespected

LEMMA CompactStep == TypeInv /\ CompactInv /\ [Next]_vars => CompactInv'
<1> SUFFICES ASSUME TypeInv, CompactInv, [Next]_vars PROVE CompactInv'
  OBVIOUS
<1>1. store' = store /\ StoreOK
  BY StepKinds DEF Begins, Commit, TypeInv
<1>2. TypeInv'
  BY TypeStep
<1>3. DbIs(db) /\ DbIs(db')
  BY <1>1, <1>2, SameStore, ValueKept DEF TypeInv, DbOK, DbIs
<1>4. SUFFICES CompactsRespected(db') /\ \A u \in Thread : PendingSafe(thr'[u], db')
  <2>1. \A u \in Thread : PendingSafe(thr'[u], db') => PendingSafe(thr[u], db)'
    BY <1>1, PendingKept DEF PendingSafe
  <2>2. CompactsRespected(db)' <=> CompactsRespected(db')
    BY DEF CompactsRespected, CompactsIn, StoredIn, Respects
  <2> QED
    BY <2>1, <2>2 DEF CompactInv
<1>5. CASE UNCHANGED <<db, thr>>
  BY <1>5 DEF CompactInv
<1>6. ASSUME NEW t \in Thread, NEW m \in Messages[store], Merge(t, m), NEW w,
             w = Under(m.fid, TRUE, Putting(m, Replaced(m))), Begins(t, w)
      PROVE  CompactsRespected(db') /\ \A u \in Thread : PendingSafe(thr'[u], db')
  <2>1. db' = db /\ thr'[t] = w /\ \A u \in Thread \ {t} : thr'[u] = thr[u]
    BY <1>6, BeginsThreads DEF TypeInv, Begins
  <2>2. Safe(m, Replaced(m), db)
    BY <1>6, MergeSafe DEF Merge
  <2>3. w.fid = m.fid /\ w.txn = Putting(m, Replaced(m))
    BY <1>6, Zenon DEF Under
  <2>4. PendingSafe(w, db)
    BY <2>2, <2>3 DEF PendingSafe
  <2> QED
    BY <2>1, <2>4 DEF CompactInv
<1>7. ASSUME NEW t \in Thread, NEW fid, NEW C, NEW w, w = Under(fid, FALSE, DeleteMany(C)), Begins(t, w)
      PROVE  CompactsRespected(db') /\ \A u \in Thread : PendingSafe(thr'[u], db')
  <2>1. db' = db /\ thr'[t] = w /\ \A u \in Thread \ {t} : thr'[u] = thr[u]
    BY <1>7, BeginsThreads DEF TypeInv, Begins
  <2>2. ~w.locked
    BY <1>7 DEF Under
  <2>3. PendingSafe(w, db)
    BY <2>2 DEF PendingSafe
  <2> QED
    BY <2>1, <2>3 DEF CompactInv
<1>8. ASSUME NEW t \in Thread, Commit(t), thr[t].locked # TRUE
      PROVE  CompactsRespected(db') /\ \A u \in Thread : PendingSafe(thr'[u], db')
  <2>1. PICK C : thr[t].txn = DeleteMany(C)
    BY <1>8, CommitIs
  <2>2. db' = Written(db, DeleteMany(C))
    BY <1>8, <2>1, CommitIs
  <2>3. StoredIn(db') \subseteq StoredIn(db) /\ CompactsIn(db') \subseteq CompactsIn(db)
    BY <2>2, HeldFewer
  <2>4. thr'[t] = Idle /\ \A u \in Thread \ {t} : thr'[u] = thr[u]
    BY <1>8, CommitIs
  <2>5. ASSUME NEW u \in Thread \ {t} PROVE PendingSafe(thr[u], db')
    <3>1. PendingSafe(thr[u], db)
      BY DEF CompactInv
    <3> QED
      BY <2>3, <3>1 DEF PendingSafe, Safe
  <2>6. PendingSafe(Idle, db')
    BY DEF PendingSafe, Idle
  <2> QED
    BY <2>3, <2>4, <2>5, <2>6 DEF CompactInv, CompactsRespected
<1>9. ASSUME NEW t \in Thread, Commit(t), thr[t].locked = TRUE
      PROVE  CompactsRespected(db') /\ \A u \in Thread : PendingSafe(thr'[u], db')
  <2>1. thr[t].busy /\ thr'[t] = Idle /\ \A u \in Thread \ {t} : thr'[u] = thr[u]
    BY <1>9, CommitIs
  <2>2. PendingSafe(thr[t], db)
    BY DEF CompactInv
  <2>3. PICK m \in Messages[store] : \E C : thr[t].fid = m.fid /\ thr[t].txn = Putting(m, C) /\ Safe(m, C, db)
    BY <1>9, <2>1, <2>2 DEF PendingSafe
  <2>4. PICK C : thr[t].fid = m.fid /\ thr[t].txn = Putting(m, C) /\ Safe(m, C, db)
    BY <2>3
  <2>5. db' = Written(db, Putting(m, C)) /\ m \in All
    BY <1>9, <2>4, CommitIs DEF All
  <2>6. ASSUME NEW s \in StoredIn(db')
        PROVE  \/ s \in StoredIn(db) /\ HoldKey(s) \notin Deleted(C)
               \/ s = m /\ m.type # "compact"
    BY <1>1, <1>3, <2>5, HeldAfter
  <2>7. ASSUME NEW c \in CompactsIn(db')
        PROVE  c \in CompactsIn(db) \/ (c = m /\ m.type = "compact")
    BY <1>1, <1>3, <2>5, HeldAfter
  <2>8. CompactsRespected(db')
    <3> SUFFICES ASSUME NEW c \in CompactsIn(db'), NEW s \in StoredIn(db') PROVE Respects(c, s)
      BY DEF CompactsRespected
    <3> QED
      BY <2>4, <2>6, <2>7 DEF CompactInv, CompactsRespected, Safe
  <2>9. ASSUME NEW u \in Thread \ {t} PROVE PendingSafe(thr[u], db')
    <3> SUFFICES ASSUME thr[u].busy, thr[u].locked
                 PROVE  \E n \in Messages[store] : \E B :
                          thr[u].fid = n.fid /\ thr[u].txn = Putting(n, B) /\ Safe(n, B, db')
      BY DEF PendingSafe
    <3>1. PendingSafe(thr[u], db)
      BY DEF CompactInv
    <3>2. PICK n \in Messages[store] : \E B : thr[u].fid = n.fid /\ thr[u].txn = Putting(n, B) /\ Safe(n, B, db)
      BY <3>1 DEF PendingSafe
    <3>3. PICK B : thr[u].fid = n.fid /\ thr[u].txn = Putting(n, B) /\ Safe(n, B, db)
      BY <3>2
    <3>4. LockOf(thr[t].fid) # LockOf(thr[u].fid)
      BY <1>9, <2>1 DEF TypeInv, OneHolder
    <3>5. m.fid # n.fid
      BY <2>4, <3>3, <3>4
    <3>6. Safe(n, B, db')
      BY <2>6, <2>7, <3>3, <3>5 DEF Safe, Respects
    <3> QED
      BY <3>3, <3>6
  <2>10. PendingSafe(Idle, db')
    BY DEF PendingSafe, Idle
  <2> QED
    BY <2>1, <2>8, <2>9, <2>10
<1> QED
  BY <1>5, <1>6, <1>7, <1>8, <1>9, StepKinds

(* No link older than a compact state of its kind survives it or is merged *)
(* after it, unless the compact state lists its target.  It needs the fid  *)
(* lock alone: revoke and prune, which take none, only delete.             *)
THEOREM CompactStatesRespected == Spec => []CompactRespected
<1>1. CompactInv => CompactRespected
  BY DEF CompactInv, CompactsRespected, CompactRespected, Respects, StoredIn, CompactsIn, Stored, Compacts
<1>2. Init => TypeInv /\ CompactInv
  BY TypeInit, CompactInit
<1>3. TypeInv /\ CompactInv /\ [Next]_vars => (TypeInv /\ CompactInv)'
  BY TypeStep, CompactStep
<1> QED
  BY <1>1, <1>2, <1>3, PTL DEF Spec

-----------------------------------------------------------------------------
(* Indexes: the database holds the entries of the messages it holds, and   *)
(* nothing else.                                                           *)

Held(D) == StoredIn(D) \cup CompactsIn(D)

\* D has the set entry and the secondary entries of n
Indexed(n, D) ==
    n.type # "compact" =>
        /\ SetKey(n.type, n.fid, Slot(n)) \in DOMAIN D
             <=> UnpaddedKey(n.type, n.fid, Slot(n)) \notin DOMAIN D
        /\ \A k \in {SetKey(n.type, n.fid, Slot(n)), UnpaddedKey(n.type, n.fid, Slot(n))} \cap DOMAIN D :
             D[k] = TsHash(n)
        /\ n.type = "add" => \A k \in DOMAIN SecondaryIndex(n) : k \in DOMAIN D /\ D[k] = SecondaryIndex(n)[k]

\* no two messages held are about the same thing
Distinct(D) == \A m, n \in Held(D) : Clash(m, n) => m = n
\* every key is one of a message held
Owned(D) == \A k \in DOMAIN D : \E n \in Held(D) : k \in DeleteKeys(n)

Match(D) == Distinct(D) /\ Owned(D) /\ \A n \in Held(D) : Indexed(n, D)

LEMMA HeldIs ==
    ASSUME StoreOK, NEW D, DbIs(D), NEW n
    PROVE  n \in Held(D) <=> n \in All /\ HoldKey(n) \in DOMAIN D /\ D[HoldKey(n)] = n
<1>1. CASE n \in Held(D)
  BY <1>1, HeldForm DEF Held
<1>2. ASSUME n \in All, HoldKey(n) \in DOMAIN D, D[HoldKey(n)] = n
      PROVE  n \in Held(D)
  <2>1. HoldKey(n)[1] \in {"message", "compact"}
    BY DEF HoldKey, MessageKey, CompactKey
  <2> QED
    BY <1>2, <2>1 DEF Held, StoredIn, CompactsIn
<1> QED
  BY <1>1, <1>2

(* A delete of a message removes at least every key its merge wrote.       *)
LEMMA OwnKey ==
    ASSUME StoreOK, NEW n \in All
    PROVE  HoldKey(n) \in DeleteKeys(n) /\ DOMAIN Index(n) \subseteq DeleteKeys(n)
BY IndexEntries DEF EntriesOK

LEMMA ClashSame ==
    ASSUME NEW m, NEW n
    PROVE  (Clash(m, n) <=> Clash(n, m)) /\ Clash(m, m)
BY DEF Clash

\* only links have unpadded keys
LEMMA NoUnpadded ==
    ASSUME StoreOK, NEW D, DbIs(D), NEW type \in {"add", "remove"}, NEW fid, NEW slot,
           UnpaddedKey(type, fid, slot) \in DOMAIN D
    PROVE  store = "link"
<1> DEFINE k == UnpaddedKey(type, fid, slot)
<1>1. PICK n \in All : ValueOf(n, k, D[k])
  BY DEF DbIs
<1>2. k \in DeleteKeys(n)
  BY <1>1, ValueEntries
<1>3. n.type \in Types
  BY MessageFacts
<1> QED
  BY <1>2, <1>3, DeletedForm DEF UnpaddedKey, MessageKey, SetKey, CompactKey, SecondaryKey, OwnerKey

(* A message whose keys have the same entries is held and indexed as well. *)
LEMMA Unaffected ==
    ASSUME StoreOK, NEW D, DbIs(D), NEW E, DbIs(E), NEW n \in Held(D), Indexed(n, D),
           \A k \in DeleteKeys(n) : k \in DOMAIN E <=> k \in DOMAIN D,
           \A k \in DeleteKeys(n) : k \in DOMAIN D => E[k] = D[k]
    PROVE  n \in Held(E) /\ Indexed(n, E)
<1>1. n \in All /\ HoldKey(n) \in DOMAIN D /\ D[HoldKey(n)] = n
  BY HeldIs
<1>2. HoldKey(n) \in DeleteKeys(n)
  BY <1>1, OwnKey
<1>3. n \in Held(E)
  BY <1>1, <1>2, HeldIs
<1>4. n.type \in Types
  BY <1>1, MessageFacts
<1>5. ASSUME n.type # "compact" PROVE Indexed(n, E)
  <2> DEFINE s == SetKey(n.type, n.fid, Slot(n))
             u == UnpaddedKey(n.type, n.fid, Slot(n))
  <2>1. n.type \in {"add", "remove"}
    BY <1>4, <1>5 DEF Types
  <2>2. s \in DeleteKeys(n)
    BY <2>1 DEF DeleteKeys, DeleteAdd, DeleteRemove
  <2>3. store = "link" => u \in DeleteKeys(n)
    BY <2>1 DEF DeleteKeys, DeleteAdd, DeleteRemove, UnpaddedKeys
  <2>4. store # "link" => u \notin DOMAIN D /\ u \notin DOMAIN E
    BY <2>1, NoUnpadded
  <2>5. n.type = "add" => DOMAIN SecondaryIndex(n) \subseteq DeleteKeys(n)
    BY DEF DeleteKeys, DeleteAdd
  <2>6. /\ s \in DOMAIN D <=> u \notin DOMAIN D
        /\ \A k \in {s, u} \cap DOMAIN D : D[k] = TsHash(n)
        /\ n.type = "add" => \A k \in DOMAIN SecondaryIndex(n) : k \in DOMAIN D /\ D[k] = SecondaryIndex(n)[k]
    BY <1>5 DEF Indexed
  <2> HIDE DEF s, u
  <2>7. /\ s \in DOMAIN E <=> u \notin DOMAIN E
        /\ \A k \in {s, u} \cap DOMAIN E : E[k] = TsHash(n)
    BY <2>2, <2>3, <2>4, <2>6
  <2>8. n.type = "add" => \A k \in DOMAIN SecondaryIndex(n) : k \in DOMAIN E /\ E[k] = SecondaryIndex(n)[k]
    BY <2>5, <2>6
  <2> QED
    BY <2>7, <2>8 DEF Indexed, s, u
<1>6. n.type = "compact" => Indexed(n, E)
  BY DEF Indexed
<1> QED
  BY <1>3, <1>5, <1>6

\* the keys of a message that stays are not among those deleted
LEMMA StaysApart ==
    ASSUME StoreOK, NEW D, DbIs(D), Distinct(D), NEW C \in SUBSET Held(D), NEW n \in Held(D) \ C
    PROVE  DeleteKeys(n) \cap Deleted(C) = {}
<1> SUFFICES ASSUME NEW c \in C PROVE DeleteKeys(n) \cap DeleteKeys(c) = {}
  BY DEF Deleted
<1>1. n \in All /\ c \in All
  BY HeldIs
<1>2. ~Clash(n, c)
  BY DEF Distinct
<1> QED
  BY <1>1, <1>2, KeysApart

LEMMA GoneKey ==
    ASSUME StoreOK, NEW D, DbIs(D), NEW C \in SUBSET Held(D), NEW n \in C
    PROVE  HoldKey(n) \in Deleted(C)
<1>1. n \in All
  BY HeldIs
<1> QED
  BY <1>1, OwnKey DEF Deleted

(* Deleting held messages keeps the indexes matching and removes exactly   *)
(* those messages.                                                         *)
LEMMA MatchDeletes ==
    ASSUME StoreOK, NEW D, DbIs(D), Match(D), NEW C \in SUBSET Held(D),
           NEW E, E = Written(D, DeleteMany(C)), DbIs(E)
    PROVE  Match(E) /\ Held(E) = Held(D) \ C
<1>1. DOMAIN E = DOMAIN D \ Deleted(C)
  BY WrittenDeletes
<1>2. \A k \in DOMAIN E : E[k] = D[k]
  BY <1>1, WrittenDeletes, Zenon
<1>3. ASSUME NEW n \in Held(D) \ C PROVE n \in Held(E) /\ Indexed(n, E)
  <2>1. DeleteKeys(n) \cap Deleted(C) = {}
    BY StaysApart DEF Match
  <2>2. \A k \in DeleteKeys(n) : k \in DOMAIN E <=> k \in DOMAIN D
    BY <1>1, <2>1
  <2>3. \A k \in DeleteKeys(n) : k \in DOMAIN D => E[k] = D[k]
    BY <1>2, <2>2
  <2> QED
    BY <2>2, <2>3, Unaffected DEF Match
<1>4. ASSUME NEW n \in Held(E) PROVE n \in Held(D) \ C
  <2>1. n \in All /\ HoldKey(n) \in DOMAIN E /\ E[HoldKey(n)] = n
    BY HeldIs
  <2>2. n \in Held(D)
    BY <1>1, <1>2, <2>1, HeldIs
  <2> QED
    BY <1>1, <2>1, <2>2, GoneKey
<1>5. Held(E) = Held(D) \ C
  BY <1>3, <1>4
<1>6. Distinct(E)
  BY <1>5 DEF Distinct, Match
<1>7. Owned(E)
  BY <1>1, <1>5 DEF Owned, Match, Deleted
<1> QED
  BY <1>3, <1>5, <1>6, <1>7 DEF Match

(* A merge that replaces every message its own is in conflict with.        *)
LEMMA MatchPuts ==
    ASSUME StoreOK, NEW D, DbIs(D), Match(D), NEW C \in SUBSET Held(D), NEW m \in All,
           \A n \in Held(D) : Clash(n, m) => n \in C,
           NEW E, E = Written(D, Putting(m, C)), DbIs(E)
    PROVE  Match(E) /\ Held(E) = (Held(D) \ C) \cup {m}
<1>1. DOMAIN E = DOMAIN Index(m) \cup (DOMAIN D \ Deleted(C))
  BY WrittenDomain
<1>2. \A k \in DOMAIN Index(m) : E[k] = Index(m)[k]
  BY WrittenNew
<1>3. \A k \in DOMAIN D \ Deleted(C) : k \notin DOMAIN Index(m) => E[k] = D[k]
  BY WrittenOld
<1>4. EntriesOK(m, Index(m))
  BY IndexEntries
<1>5. ASSUME NEW n \in Held(D) \ C PROVE DeleteKeys(n) \cap DeleteKeys(m) = {} /\ ~Clash(n, m) /\ ~Clash(m, n)
  <2>1. n \in All /\ ~Clash(n, m)
    BY HeldIs
  <2> QED
    BY <2>1, KeysApart, ClashSame
<1>6. ASSUME NEW n \in Held(D) \ C PROVE n \in Held(E) /\ Indexed(n, E)
  <2>1. DeleteKeys(n) \cap Deleted(C) = {}
    BY StaysApart DEF Match
  <2>2. DeleteKeys(n) \cap DOMAIN Index(m) = {}
    BY <1>4, <1>5 DEF EntriesOK
  <2>3. \A k \in DeleteKeys(n) : k \in DOMAIN E <=> k \in DOMAIN D
    BY <1>1, <2>1, <2>2
  <2>4. \A k \in DeleteKeys(n) : k \in DOMAIN D => E[k] = D[k]
    BY <1>3, <2>1, <2>2
  <2> QED
    BY <2>3, <2>4, Unaffected DEF Match
<1>7. HoldKey(m) \in DOMAIN Index(m) /\ Index(m)[HoldKey(m)] = m
  BY <1>4 DEF EntriesOK
<1>8. m \in Held(E)
  <2>1. HoldKey(m) \in DOMAIN E /\ E[HoldKey(m)] = m
    BY <1>1, <1>2, <1>7
  <2> QED
    BY <2>1, HeldIs
<1>9. ASSUME NEW n \in Held(E), n # m PROVE n \in Held(D) \ C
  <2>1. \/ n \in StoredIn(D) /\ HoldKey(n) \notin Deleted(C)
        \/ n \in CompactsIn(D) /\ HoldKey(n) \notin Deleted(C)
    BY <1>9, HeldAfter DEF Held
  <2> QED
    BY <2>1, GoneKey DEF Held
<1>10. Held(E) = (Held(D) \ C) \cup {m}
  BY <1>6, <1>8, <1>9
<1>11. Distinct(E)
  BY <1>5, <1>10 DEF Distinct, Match
<1>12. Owned(E)
  <2> SUFFICES ASSUME NEW k \in DOMAIN E PROVE \E n \in Held(E) : k \in DeleteKeys(n)
    BY DEF Owned
  <2>1. CASE k \in DOMAIN Index(m)
    BY <1>4, <1>8, <2>1 DEF EntriesOK
  <2>2. CASE k \in DOMAIN D \ Deleted(C)
    BY <1>10, <2>2 DEF Owned, Match, Deleted
  <2> QED
    BY <1>1, <2>1, <2>2
<1>13. Indexed(m, E)
  <2>1. ASSUME NEW k \in DeleteKeys(m), k \in DOMAIN D \ Deleted(C) PROVE FALSE
    BY <1>5, <2>1 DEF Owned, Match, Deleted
  <2>2. \A k \in DeleteKeys(m) : k \in DOMAIN E <=> k \in DOMAIN Index(m)
    BY <1>1, <2>1
  <2>3. ASSUME m.type # "compact" PROVE Indexed(m, E)
    <3> DEFINE s == SetKey(m.type, m.fid, Slot(m))
               u == UnpaddedKey(m.type, m.fid, Slot(m))
    <3>1. m.type \in {"add", "remove"}
      BY <2>3, MessageFacts DEF Types
    <3>2. s \in DeleteKeys(m)
      BY <3>1 DEF DeleteKeys, DeleteAdd, DeleteRemove
    <3>3. store = "link" => u \in DeleteKeys(m)
      BY <3>1 DEF DeleteKeys, DeleteAdd, DeleteRemove, UnpaddedKeys
    <3>4. store # "link" => u \notin DOMAIN E
      BY <3>1, NoUnpadded
    <3>5. m.type = "add" => DOMAIN SecondaryIndex(m) \subseteq DeleteKeys(m)
      BY DEF DeleteKeys, DeleteAdd
    <3>6. /\ s \in DOMAIN Index(m) <=> u \notin DOMAIN Index(m)
          /\ \A k \in {s, u} \cap DOMAIN Index(m) : Index(m)[k] = TsHash(m)
          /\ m.type = "add" =>
               \A k \in DOMAIN SecondaryIndex(m) : k \in DOMAIN Index(m) /\ Index(m)[k] = SecondaryIndex(m)[k]
      BY <1>4, <2>3 DEF EntriesOK
    <3> HIDE DEF s, u
    <3>7. u \in DOMAIN E <=> u \in DOMAIN Index(m)
      BY <1>1, <2>2, <3>3, <3>4
    <3>8. /\ s \in DOMAIN E <=> u \notin DOMAIN E
          /\ \A k \in {s, u} \cap DOMAIN E : E[k] = TsHash(m)
      BY <1>2, <2>2, <3>2, <3>6, <3>7
    <3>9. m.type = "add" => \A k \in DOMAIN SecondaryIndex(m) : k \in DOMAIN E /\ E[k] = SecondaryIndex(m)[k]
      BY <1>1, <1>2, <3>6
    <3> QED
      BY <3>8, <3>9 DEF Indexed, s, u
  <2>4. m.type = "compact" => Indexed(m, E)
    BY DEF Indexed
  <2> QED
    BY <2>3, <2>4
<1> QED
  BY <1>6, <1>10, <1>11, <1>12, <1>13 DEF Match

(* What the inductive invariant is for: the two properties the run checks. *)
LEMMA MatchIndexes ==
    ASSUME TypeInv, Match(db)
    PROVE  IndexesOK
<1>1. StoreOK /\ DbIs(db) /\ Stored = StoredIn(db)
  BY DEF TypeInv, DbOK, DbIs, Stored, StoredIn
<1>2. ASSUME NEW m \in Stored
      PROVE  /\ m \in Held(db) /\ m \in All /\ m.type # "compact" /\ Indexed(m, db)
             /\ HoldKey(m) \in DOMAIN db /\ db[HoldKey(m)] = m
  BY <1>1, HeldForm DEF Match, Held
<1>3. ASSUME NEW m \in Stored
      PROVE  Cardinality({k \in {SetKey(m.type, m.fid, Slot(m)), UnpaddedKey(m.type, m.fid, Slot(m))} :
                            Get(k) = {TsHash(m)}}) = 1
  <2> DEFINE s == SetKey(m.type, m.fid, Slot(m))
             u == UnpaddedKey(m.type, m.fid, Slot(m))
             K == {k \in {s, u} : Get(k) = {TsHash(m)}}
  <2>1. s # u
    BY DEF SetKey, UnpaddedKey
  <2>2. /\ s \in DOMAIN db <=> u \notin DOMAIN db
        /\ \A k \in {s, u} \cap DOMAIN db : db[k] = TsHash(m)
    BY <1>2 DEF Indexed
  <2> HIDE DEF s, u
  <2>3. K = {s} \/ K = {u}
    BY <2>1, <2>2 DEF Get
  <2>4. Cardinality({s}) = 1 /\ Cardinality({u}) = 1
    BY FS_Singleton
  <2>5. Cardinality(K) = 1
    BY <2>3, <2>4
  <2> QED
    BY <2>5 DEF s, u
<1>4. ASSUME NEW m \in Stored, m.type = "add", NEW k \in DOMAIN SecondaryIndex(m)
      PROVE  Get(k) = {SecondaryIndex(m)[k]}
  BY <1>2, <1>4 DEF Indexed, Get
<1>5. ASSUME NEW k \in DOMAIN db, k[1] \in {"add", "remove"}
      PROVE  \E m \in StoredBy(k[2]) : m.type = k[1] /\ Slot(m) = k[3] /\ TsHash(m) = db[k]
  <2>1. PICK n \in Held(db) : k \in DeleteKeys(n)
    BY DEF Match, Owned
  <2>2. n \in All /\ HoldKey(n) \in DOMAIN db /\ db[HoldKey(n)] = n /\ Indexed(n, db)
    BY <1>1, HeldIs DEF Match
  <2>3. n.type # "compact" /\ k \in {SetKey(n.type, n.fid, Slot(n)), UnpaddedKey(n.type, n.fid, Slot(n))}
    BY <1>1, <1>5, <2>1, <2>2, DeletedForm DEF CompactKey, MessageKey, SecondaryKey, OwnerKey
  <2>4. db[k] = TsHash(n)
    BY <2>2, <2>3 DEF Indexed
  <2>5. k[1] = n.type /\ k[2] = n.fid /\ k[3] = Slot(n)
    BY <2>3 DEF SetKey, UnpaddedKey
  <2>6. n \in StoredBy(n.fid)
    BY <2>2, <2>3 DEF StoredBy, HoldKey, MessageKey
  <2> QED
    BY <2>4, <2>5, <2>6
<1>6. ASSUME NEW k \in DOMAIN db, k[1] \notin {"message", "compact", "add", "remove"}
      PROVE  \E m \in Stored : m.type = "add" /\ k \in DOMAIN SecondaryIndex(m)
  <2>1. PICK n \in Held(db) : k \in DeleteKeys(n)
    BY DEF Match, Owned
  <2>2. n \in All /\ n.type \in Types
    BY <1>1, HeldIs, MessageFacts
  <2>3. n.type = "add" /\ k \in DOMAIN SecondaryIndex(n)
    BY <1>1, <1>6, <2>1, <2>2, DeletedForm DEF CompactKey, MessageKey, SetKey, UnpaddedKey, Types
  <2>4. n \in Stored
    BY <1>1, <2>3, HeldForm DEF Held
  <2> QED
    BY <2>3, <2>4
<1>7. ASSUME NEW m \in Stored, NEW n \in Stored, Clash(m, n)
      PROVE  m = n
  BY <1>2, <1>7 DEF Match, Distinct
<1>8. ASSUME NEW m \in Stored, NEW n \in Stored, Collide(m, n) PROVE m = n
  <2>1. Clash(m, n)
    BY <1>2, <1>8 DEF Clash, Collide
  <2> QED
    BY <1>7, <2>1
<1>9. \A k \in DOMAIN db :
        CASE k[1] \in {"message", "compact"} -> TRUE
          [] k[1] \in {"add", "remove"} ->
               \E m \in StoredBy(k[2]) : m.type = k[1] /\ Slot(m) = k[3] /\ TsHash(m) = db[k]
          [] OTHER -> \E m \in Stored : m.type = "add" /\ k \in DOMAIN SecondaryIndex(m)
  BY <1>5, <1>6
<1> QED
  BY <1>3, <1>4, <1>8, <1>9 DEF IndexesOK, OneOwner

LEMMA MatchInit == Init => Match(db) /\ Held(db) = offered
<1> SUFFICES ASSUME Init PROVE Match(db) /\ Held(db) = offered
  OBVIOUS
<1>1. TypeInv /\ StoreOK /\ DbIs(db)
  BY TypeInit DEF TypeInv, DbOK, DbIs
<1>2. ASSUME NEW m \in offered
      PROVE  m \in Legacy[store] /\ m \in All /\ m.type # "compact" /\ store = "link" /\ EntriesOK(m, Unpadded(m))
  BY <1>1, HashesUnique, UnpaddedEntries DEF Init, StoreOK, All
<1>3. ASSUME NEW m \in offered, NEW n \in offered, Clash(m, n) PROVE m = n
  <2>1. m.fid = n.fid /\ <<m.kind, m.target>> = <<n.kind, n.target>>
    BY <1>2, <1>3 DEF Clash, Slot, LinkSlot
  <2>2. <<m.fid, m.kind, m.target>> = <<n.fid, n.kind, n.target>>
    BY <2>1
  <2> QED
    BY <1>1, <1>2, <2>2, HashesUnique DEF StoreOK
<1>4. ASSUME NEW m \in offered, NEW n \in offered, NEW k \in DeleteKeys(m), k \in DeleteKeys(n) PROVE m = n
  BY <1>1, <1>2, <1>3, <1>4, KeysApart
<1>5. DOMAIN db = UNION {DOMAIN Unpadded(m) : m \in offered}
  BY DEF Init
<1>6. ASSUME NEW m \in offered, NEW k \in DOMAIN Unpadded(m) PROVE k \in DOMAIN db /\ db[k] = Unpadded(m)[k]
  <2> DEFINE n == CHOOSE x \in offered : k \in DOMAIN Unpadded(x)
  <2>1. n \in offered /\ k \in DOMAIN Unpadded(n)
    OBVIOUS
  <2>2. db[k] = Unpadded(n)[k]
    BY <1>5, <2>1 DEF Init
  <2> HIDE DEF n
  <2>3. n = m
    BY <1>2, <1>4, <2>1 DEF EntriesOK
  <2> QED
    BY <1>5, <2>2, <2>3
<1>7. ASSUME NEW m \in offered, NEW k \in DeleteKeys(m), k \in DOMAIN db PROVE k \in DOMAIN Unpadded(m)
  BY <1>2, <1>4, <1>5, <1>7 DEF EntriesOK
<1>8. Held(db) = offered
  <2>1. ASSUME NEW n \in Held(db) PROVE n \in offered
    <3>1. n \in All /\ HoldKey(n) \in DOMAIN db /\ db[HoldKey(n)] = n
      BY <1>1, HeldIs
    <3>2. PICK m \in offered : HoldKey(n) \in DOMAIN Unpadded(m)
      BY <1>5, <3>1
    <3>3. HoldKey(n) = HoldKey(m)
      BY <1>1, <1>2, <3>1, <3>2, HoldKeyForm DEF EntriesOK
    <3> QED
      BY <1>2, <1>6, <3>1, <3>2, <3>3 DEF EntriesOK
  <2>2. ASSUME NEW m \in offered PROVE m \in Held(db)
    <3>1. HoldKey(m) \in DOMAIN Unpadded(m) /\ Unpadded(m)[HoldKey(m)] = m
      BY <1>2 DEF EntriesOK
    <3> QED
      BY <1>1, <1>2, <1>6, <3>1, HeldIs
  <2> QED
    BY <2>1, <2>2
<1>9. Distinct(db)
  BY <1>3, <1>8 DEF Distinct
<1>10. Owned(db)
  BY <1>2, <1>5, <1>8 DEF Owned, EntriesOK
<1>11. ASSUME NEW m \in offered PROVE Indexed(m, db)
  <2> DEFINE s == SetKey(m.type, m.fid, Slot(m))
             u == UnpaddedKey(m.type, m.fid, Slot(m))
  <2>1. m.type \in {"add", "remove"}
    BY <1>1, <1>2, MessageFacts DEF Types
  <2>2. s \in DeleteKeys(m) /\ u \in DeleteKeys(m)
    BY <1>2, <2>1 DEF DeleteKeys, DeleteAdd, DeleteRemove, UnpaddedKeys
  <2>3. /\ s \in DOMAIN Unpadded(m) <=> u \notin DOMAIN Unpadded(m)
        /\ \A k \in {s, u} \cap DOMAIN Unpadded(m) : Unpadded(m)[k] = TsHash(m)
        /\ m.type = "add" =>
             \A k \in DOMAIN SecondaryIndex(m) : k \in DOMAIN Unpadded(m) /\ Unpadded(m)[k] = SecondaryIndex(m)[k]
    BY <1>2 DEF EntriesOK
  <2> HIDE DEF s, u
  <2>4. /\ s \in DOMAIN db <=> s \in DOMAIN Unpadded(m)
        /\ u \in DOMAIN db <=> u \in DOMAIN Unpadded(m)
    BY <1>6, <1>7, <2>2
  <2>5. /\ s \in DOMAIN db <=> u \notin DOMAIN db
        /\ \A k \in {s, u} \cap DOMAIN db : db[k] = TsHash(m)
    BY <1>6, <2>3, <2>4
  <2>6. m.type = "add" => \A k \in DOMAIN SecondaryIndex(m) : k \in DOMAIN db /\ db[k] = SecondaryIndex(m)[k]
    BY <1>6, <2>3
  <2> QED
    BY <2>5, <2>6 DEF Indexed, s, u
<1> QED
  BY <1>8, <1>9, <1>10, <1>11 DEF Match

-----------------------------------------------------------------------------
(* Conflicts: get_merge_conflicts returns the messages held that are about *)
(* the same thing, and no others.                                          *)

\* e is the entry of n, which is held if the indexes match
EntryOf(e, n) == e.type = n.type /\ e.fid = n.fid /\ e.ts = TsHash(n) /\ (Match(db) => n \in Held(db))

(* An entry of a set comes from some message of that set, fid and slot.    *)
LEMMA EntryFound ==
    ASSUME StoreOK, DbIs(db), NEW type \in {"add", "remove"}, NEW fid, NEW slot,
           NEW key \in {SetKey(type, fid, slot), UnpaddedKey(type, fid, slot)},
           NEW e \in EntriesAt(type, fid, key)
    PROVE  \E n \in All : n.type = type /\ n.fid = fid /\ Slot(n) = slot /\ EntryOf(e, n)
<1>1. key \in DOMAIN db /\ e.type = type /\ e.fid = fid /\ e.ts = db[key]
  BY DEF EntriesAt, Get
<1>2. key[1] = type /\ key[2] = fid /\ key[3] = slot
  BY DEF SetKey, UnpaddedKey
<1>3. PICK n \in All : ValueOf(n, key, db[key])
  BY <1>1 DEF DbIs
<1>4. n.type = type /\ n.fid = fid /\ Slot(n) = slot /\ db[key] = TsHash(n)
  BY <1>2, <1>3, ValueForm
<1>5. ASSUME Match(db) PROVE n \in Held(db)
  <2>1. PICK h \in Held(db) : key \in DeleteKeys(h)
    BY <1>1, <1>5 DEF Match, Owned
  <2>2. h \in All /\ h.type \in Types /\ Indexed(h, db)
    BY <1>5, HeldIs, MessageFacts DEF Match
  <2>3. h.type # "compact" /\ key \in {SetKey(h.type, h.fid, Slot(h)), UnpaddedKey(h.type, h.fid, Slot(h))}
    BY <1>2, <2>1, <2>2, DeletedForm DEF CompactKey, MessageKey, SecondaryKey, OwnerKey
  <2>4. db[key] = TsHash(h)
    BY <1>1, <2>2, <2>3 DEF Indexed
  <2>5. h = n
    BY <1>4, <2>2, <2>4, MessageFacts DEF TsHash
  <2> QED
    BY <2>5
<1> QED
  BY <1>1, <1>4, <1>5 DEF EntryOf

LEMMA EntryGiven ==
    ASSUME NEW n, NEW key \in DOMAIN db, db[key] = TsHash(n)
    PROVE  [type |-> n.type, fid |-> n.fid, ts |-> TsHash(n)] \in EntriesAt(n.type, n.fid, key)
BY DEF EntriesAt, Get

LEMMA DefaultRivalForm ==
    ASSUME StoreOK, DbIs(db), NEW m \in All, NEW e \in DefaultRivals(m)
    PROVE  \E n \in All : n.type # "compact" /\ n.fid = m.fid /\ Slot(n) = Slot(m) /\ EntryOf(e, n)
<1>1. \E type \in {"add", "remove"} : e \in EntriesAt(type, m.fid, SetKey(type, m.fid, Slot(m)))
  BY DEF DefaultRivals
<1>2. PICK type \in {"add", "remove"} : e \in EntriesAt(type, m.fid, SetKey(type, m.fid, Slot(m)))
  BY <1>1
<1>3. \E n \in All : n.type = type /\ n.fid = m.fid /\ Slot(n) = Slot(m) /\ EntryOf(e, n)
  BY <1>2, EntryFound
<1> QED
  BY <1>3

(* Every entry get_merge_conflicts reads is that of a message about the    *)
(* same thing.                                                             *)
LEMMA RivalForm ==
    ASSUME StoreOK, DbIs(db), NEW m \in All, m.type # "compact", NEW e \in Rivals(m)
    PROVE  \E n \in All : n.type # "compact" /\ Clash(n, m) /\ EntryOf(e, n)
<1> SUFFICES \E n \in All : /\ n.type # "compact" /\ EntryOf(e, n) /\ Slot(n) = Slot(m)
                            /\ \/ n.fid = m.fid
                               \/ store \in {"username", "verification"} /\ m.type = "add" /\ n.type = "add"
  BY DEF Clash
<1>1. CASE e \in DefaultRivals(m)
  BY <1>1, DefaultRivalForm
<1>2. CASE \E type \in {"add", "remove"} : e \in EntriesAt(type, m.fid, UnpaddedKey(type, m.fid, Slot(m)))
  <2>1. PICK type \in {"add", "remove"} : e \in EntriesAt(type, m.fid, UnpaddedKey(type, m.fid, Slot(m)))
    BY <1>2
  <2>2. \E n \in All : n.type = type /\ n.fid = m.fid /\ Slot(n) = Slot(m) /\ EntryOf(e, n)
    BY <2>1, EntryFound
  <2> QED
    BY <2>2
<1>3. CASE /\ store \in {"username", "verification"} /\ m.type = "add"
           /\ \E f : e \in EntriesAt("add", f, SetKey("add", f, Slot(m)))
  <2>1. PICK f : e \in EntriesAt("add", f, SetKey("add", f, Slot(m)))
    BY <1>3
  <2>2. \E n \in All : n.type = "add" /\ n.fid = f /\ Slot(n) = Slot(m) /\ EntryOf(e, n)
    BY <2>1, EntryFound
  <2> QED
    BY <1>3, <2>2
<1>4. CASE store = "username"
  <2>1. m.type = "add"
    BY <1>4, MessageFacts DEF RemoveSupported, Types
  <2>2. e \in UsernameRivals(m)
    BY <1>4 DEF Rivals
  <2> QED
    BY <1>3, <1>4, <2>1, <2>2 DEF UsernameRivals
<1>5. CASE store = "verification"
  <2>1. e \in VerificationRivals(m)
    BY <1>5 DEF Rivals
  <2> QED
    BY <1>1, <1>3, <1>5, <2>1 DEF VerificationRivals
<1>6. CASE store = "link"
  <2>1. e \in LinkRivals(m)
    BY <1>6 DEF Rivals
  <2> QED
    BY <1>1, <1>2, <2>1 DEF LinkRivals
<1>7. CASE store \notin {"username", "verification", "link"}
  <2>1. e \in DefaultRivals(m)
    BY <1>7 DEF Rivals
  <2> QED
    BY <1>1, <2>1
<1> QED
  BY <1>4, <1>5, <1>6, <1>7

LEMMA RivalGiven ==
    ASSUME StoreOK, DbIs(db), Match(db), NEW m \in All, m.type # "compact", NEW n \in Held(db), Clash(n, m)
    PROVE  [type |-> n.type, fid |-> n.fid, ts |-> TsHash(n)] \in Rivals(m) /\ n \in GetMessage(n.fid, TsHash(n))
<1> DEFINE e == [type |-> n.type, fid |-> n.fid, ts |-> TsHash(n)]
           s == SetKey(n.type, n.fid, Slot(n))
           u == UnpaddedKey(n.type, n.fid, Slot(n))
<1>1. n \in All /\ HoldKey(n) \in DOMAIN db /\ db[HoldKey(n)] = n /\ Indexed(n, db)
  BY HeldIs DEF Match
<1>2. /\ n.type # "compact" /\ Slot(n) = Slot(m)
      /\ \/ n.fid = m.fid
         \/ store \in {"username", "verification"} /\ m.type = "add" /\ n.type = "add"
  BY DEF Clash
<1>3. n.type \in {"add", "remove"} /\ (n.type = "remove" => RemoveSupported)
  BY <1>1, <1>2, MessageFacts DEF Types
<1>4. n \in GetMessage(n.fid, TsHash(n))
  BY <1>1, <1>2 DEF GetMessage, Get, HoldKey
<1>5. e.fid = n.fid /\ e.ts = TsHash(n)
  OBVIOUS
<1>6. \/ s \in DOMAIN db /\ db[s] = TsHash(n)
      \/ u \in DOMAIN db /\ db[u] = TsHash(n)
  BY <1>1, <1>2 DEF Indexed
<1>7. e \in EntriesAt(n.type, n.fid, s) \/ e \in EntriesAt(n.type, n.fid, u)
  BY <1>6, EntryGiven
<1>8. store # "link" => e \in EntriesAt(n.type, n.fid, s)
  BY <1>3, <1>6, EntryGiven, NoUnpadded
<1>9. ASSUME store \in {"username", "verification"}, n.type = "add" PROVE n.fid \in Get(OwnerKey(Slot(m)))
  <2>1. DOMAIN SecondaryIndex(n) = {OwnerKey(Slot(n))}
    BY <1>9, OwnerEntry
  <2>2. SecondaryIndex(n)[OwnerKey(Slot(n))] = n.fid
    BY <1>9, OwnerValue
  <2>3. OwnerKey(Slot(n)) \in DOMAIN db /\ db[OwnerKey(Slot(n))] = n.fid
    BY <1>1, <1>9, <2>1, <2>2 DEF Indexed
  <2> QED
    BY <1>2, <2>3 DEF Get
<1> HIDE DEF e
<1>10. n.fid = m.fid /\ e \in EntriesAt(n.type, n.fid, s) => e \in DefaultRivals(m)
  BY <1>2, <1>3 DEF DefaultRivals
<1>11. CASE store = "username"
  <2>1. n.type = "add"
    BY <1>3, <1>11 DEF RemoveSupported
  <2>2. e \in EntriesAt("add", n.fid, SetKey("add", n.fid, Slot(m)))
    BY <1>2, <1>8, <1>11, <2>1
  <2>3. GetMessage(e.fid, e.ts) # {}
    BY <1>4, <1>5
  <2>4. e \in UsernameRivals(m)
    BY <1>9, <1>11, <2>1, <2>2, <2>3 DEF UsernameRivals
  <2> QED
    BY <1>4, <1>11, <2>4 DEF Rivals, e
<1>12. CASE store = "verification"
  <2>1. e \in VerificationRivals(m)
    <3>1. CASE n.fid = m.fid
      BY <1>8, <1>10, <1>12, <3>1 DEF VerificationRivals
    <3>2. CASE n.fid # m.fid
      <4>1. n.type = "add" /\ m.type = "add"
        BY <1>2, <3>2
      <4>2. e \in EntriesAt("add", n.fid, SetKey("add", n.fid, Slot(m)))
        BY <1>2, <1>8, <1>12, <4>1
      <4> QED
        BY <1>9, <1>12, <3>2, <4>1, <4>2 DEF VerificationRivals
    <3> QED
      BY <3>1, <3>2
  <2> QED
    BY <1>4, <1>12, <2>1 DEF Rivals, e
<1>13. CASE store = "link"
  <2>1. n.fid = m.fid
    BY <1>2, <1>13
  <2>2. e \in EntriesAt(n.type, n.fid, u) => e \in LinkRivals(m)
    BY <1>2, <1>3, <2>1 DEF LinkRivals
  <2>3. e \in EntriesAt(n.type, n.fid, s) => e \in LinkRivals(m)
    BY <1>10, <2>1 DEF LinkRivals
  <2> QED
    BY <1>4, <1>7, <1>13, <2>2, <2>3 DEF Rivals, e
<1>14. CASE store \notin {"username", "verification", "link"}
  <2>1. e \in DefaultRivals(m)
    BY <1>2, <1>8, <1>10, <1>14
  <2> QED
    BY <1>4, <1>14, <2>1 DEF Rivals, e
<1> QED
  BY <1>11, <1>12, <1>13, <1>14

(* get_merge_conflicts returns exactly the held messages about the same    *)
(* thing, whichever of the keys they were stored under.                    *)
LEMMA ConflictsAre ==
    ASSUME StoreOK, DbIs(db), Match(db), NEW m \in All, m.type # "compact"
    PROVE  Conflicts(m) = {n \in Held(db) : Clash(n, m)}
<1>1. ASSUME NEW x \in Conflicts(m) PROVE x \in Held(db) /\ Clash(x, m)
  <2>1. PICK e \in Rivals(m) : x \in GetMessage(e.fid, e.ts)
    BY DEF Conflicts
  <2>2. PICK n \in All : n.type # "compact" /\ Clash(n, m) /\ EntryOf(e, n)
    BY RivalForm
  <2> DEFINE k == MessageKey(n.fid, TsHash(n))
  <2>3. k \in DOMAIN db /\ x = db[k]
    BY <2>1, <2>2 DEF EntryOf, GetMessage, Get
  <2>4. PICK y \in All : ValueOf(y, k, db[k])
    BY <2>3 DEF DbIs
  <2>5. k[1] = "message"
    BY DEF MessageKey
  <2>6. y.type # "compact" /\ x = y /\ k = HoldKey(y)
    BY <2>3, <2>4, <2>5, ValueForm
  <2>7. TsHash(y) = TsHash(n)
    BY <2>6 DEF HoldKey, MessageKey
  <2>8. y = n
    BY <2>7, MessageFacts DEF TsHash
  <2> QED
    BY <2>2, <2>3, <2>6, <2>8, HeldIs
<1>2. ASSUME NEW n \in Held(db), Clash(n, m) PROVE n \in Conflicts(m)
  <2> DEFINE e == [type |-> n.type, fid |-> n.fid, ts |-> TsHash(n)]
  <2>1. e \in Rivals(m) /\ n \in GetMessage(n.fid, TsHash(n))
    BY <1>2, RivalGiven
  <2>2. e.fid = n.fid /\ e.ts = TsHash(n)
    OBVIOUS
  <2> HIDE DEF e
  <2> QED
    BY <2>1, <2>2 DEF Conflicts
<1> QED
  BY <1>1, <1>2

-----------------------------------------------------------------------------
(* The indexes under concurrent operations *)

SharedStores == {"username", "verification"}

\* the batch of w has the key of message n and, for an add, its secondary keys
Touches(w, n) ==
    /\ HoldKey(n) \in DOMAIN w.txn
    /\ n.type = "add" => DOMAIN SecondaryIndex(n) \subseteq DOMAIN w.txn

(* A batch touches what it deletes and what it puts.                       *)
LEMMA TouchesDeleted ==
    ASSUME StoreOK, NEW C \in SUBSET All, NEW w, Deleted(C) \subseteq DOMAIN w.txn, NEW n \in C
    PROVE  Touches(w, n)
<1>1. n \in All /\ DeleteKeys(n) \subseteq DOMAIN w.txn
  BY DEF Deleted
<1>2. HoldKey(n) \in DeleteKeys(n)
  BY <1>1, OwnKey
<1>3. n.type = "add" => DOMAIN SecondaryIndex(n) \subseteq DeleteKeys(n)
  BY DEF DeleteKeys, DeleteAdd
<1> QED
  BY <1>1, <1>2, <1>3 DEF Touches

LEMMA TouchesPut ==
    ASSUME StoreOK, NEW m \in All, NEW w, DOMAIN Index(m) \subseteq DOMAIN w.txn
    PROVE  Touches(w, m)
<1>1. EntriesOK(m, Index(m))
  BY IndexEntries
<1> QED
  BY <1>1 DEF EntriesOK, Touches

LEMMA BatchKeys ==
    ASSUME NEW m, NEW C
    PROVE  DOMAIN DeleteMany(C) = Deleted(C) /\ DOMAIN Putting(m, C) = DOMAIN Index(m) \cup Deleted(C)
BY PuttingIs DEF DeleteMany, Erase, Deleted

LEMMA BatchTouches ==
    ASSUME StoreOK, NEW C \in SUBSET All, NEW w
    PROVE  /\ w.txn = DeleteMany(C) => \A n \in C : Touches(w, n)
           /\ \A m \in All : w.txn = Putting(m, C) => Touches(w, m) /\ \A n \in C : Touches(w, n)
<1>1. ASSUME w.txn = DeleteMany(C) PROVE \A n \in C : Touches(w, n)
  <2>1. Deleted(C) \subseteq DOMAIN w.txn
    BY <1>1, BatchKeys
  <2> QED
    BY <2>1, TouchesDeleted
<1>2. ASSUME NEW m \in All, w.txn = Putting(m, C)
      PROVE  Touches(w, m) /\ \A n \in C : Touches(w, n)
  <2>1. Deleted(C) \subseteq DOMAIN w.txn /\ DOMAIN Index(m) \subseteq DOMAIN w.txn
    BY <1>2, BatchKeys
  <2> QED
    BY <2>1, TouchesDeleted, TouchesPut
<1> QED
  BY <1>1, <1>2

\* the fid of a message touched is one the operation holds
LEMMA TouchedFid ==
    ASSUME NEW w, NEW n, Touches(w, n)
    PROVE  n.fid \in FidsOf(w)
<1>1. HoldKey(n) \in DOMAIN w.txn /\ HoldKey(n)[1] \in {"message", "compact"} /\ HoldKey(n)[2] = n.fid
  BY DEF Touches, HoldKey, MessageKey, CompactKey
<1> QED
  BY <1>1 DEF FidsOf

(* Operations that do not meet have nothing to do with each other's        *)
(* messages: those of one are of other fids, and about other things.       *)
LEMMA Apart ==
    ASSUME NEW w, NEW x, w.busy, x.busy, ~Meet(w, x), NEW n, Touches(x, n)
    PROVE  n.fid \notin FidsOf(w) /\ \A m : Touches(w, m) => ~Clash(n, m)
<1>1. FidsOf(w) \cap FidsOf(x) = {} /\ DOMAIN w.txn \cap DOMAIN x.txn = {}
  BY DEF Meet
<1>2. n.fid \in FidsOf(x)
  BY TouchedFid
<1>3. ASSUME NEW m, Touches(w, m), Clash(n, m) PROVE FALSE
  <2>1. m.fid \in FidsOf(w)
    BY <1>3, TouchedFid
  <2>2. n.fid # m.fid
    BY <1>1, <1>2, <2>1
  <2>3. store \in {"username", "verification"} /\ m.type = "add" /\ n.type = "add" /\ Slot(m) = Slot(n)
    BY <1>3, <2>2 DEF Clash, CompactKey
  <2>4. OwnerKey(Slot(n)) \in DOMAIN SecondaryIndex(n) /\ OwnerKey(Slot(n)) \in DOMAIN SecondaryIndex(m)
    <3>1. DOMAIN SecondaryIndex(n) = {OwnerKey(Slot(n))}
      BY <2>3, OwnerEntry
    <3>2. DOMAIN SecondaryIndex(m) = {OwnerKey(Slot(m))}
      BY <2>3, OwnerEntry
    <3> QED
      BY <2>3, <3>1, <3>2
  <2>5. OwnerKey(Slot(n)) \in DOMAIN x.txn /\ OwnerKey(Slot(n)) \in DOMAIN w.txn
    BY <1>3, <2>3, <2>4 DEF Touches
  <2> QED
    BY <1>1, <2>5
<1> QED
  BY <1>1, <1>2, <1>3

LEMMA MeetSame ==
    ASSUME NEW w, NEW x
    PROVE  Meet(w, x) <=> Meet(x, w)
BY DEF Meet

LEMMA StoredByForm ==
    ASSUME StoreOK, DbIs(db), NEW fid, NEW s \in StoredBy(fid)
    PROVE  s \in Held(db) /\ s.fid = fid
<1>1. PICK k \in DOMAIN db : k[1] = "message" /\ k[2] = fid /\ s = db[k]
  BY DEF StoredBy
<1>2. PICK n \in All : ValueOf(n, k, s)
  BY <1>1 DEF DbIs
<1>3. s = n /\ n.type # "compact" /\ k = HoldKey(n)
  BY <1>1, <1>2, ValueForm
<1>4. s.fid = fid
  BY <1>1, <1>3 DEF HoldKey, MessageKey
<1> QED
  BY <1>1, <1>4 DEF Held, StoredIn

\* what a merge replaces is held and includes all it is in conflict with
LEMMA MergeReplaces ==
    ASSUME StoreOK, DbIs(db), Match(db), NEW m \in All
    PROVE  /\ Replaced(m) \in SUBSET Held(db)
           /\ store \notin SharedStores => \A n \in Replaced(m) : n.fid = m.fid
           /\ \A n \in Held(db) : Clash(n, m) => n \in Replaced(m)
<1>1. CASE m.type # "compact"
  <2>1. Replaced(m) = {n \in Held(db) : Clash(n, m)}
    BY <1>1, ConflictsAre DEF Replaced
  <2>2. ASSUME store \notin SharedStores, NEW n, Clash(n, m) PROVE n.fid = m.fid
    BY <1>1, <2>2 DEF Clash, SharedStores
  <2> QED
    BY <2>1, <2>2
<1>2. CASE m.type = "compact"
  <2>1. store = "link"
    BY <1>2, MessageFacts
  <2>2. ASSUME NEW c \in CompactOf(m) PROVE c \in Held(db) /\ c.fid = m.fid
    <3>1. CompactKey(m) \in DOMAIN db /\ c = db[CompactKey(m)] /\ CompactKey(m)[1] = "compact"
      BY <2>1 DEF CompactOf, Get, CompactKey
    <3>2. c \in CompactsIn(db)
      BY <3>1 DEF CompactsIn
    <3>3. PICK n \in All : ValueOf(n, CompactKey(m), c)
      BY <3>1 DEF DbIs
    <3>4. n.type = "compact" /\ c = n /\ CompactKey(m) = HoldKey(n)
      BY <3>1, <3>3, ValueForm
    <3>5. c.fid = m.fid
      BY <3>4 DEF HoldKey, CompactKey
    <3> QED
      BY <3>2, <3>5 DEF Held
  <2>3. ASSUME NEW s \in StoredBy(m.fid) PROVE s \in Held(db) /\ s.fid = m.fid
    BY StoredByForm
  <2>4. ASSUME NEW n \in Held(db), Clash(n, m) PROVE n \in CompactOf(m)
    <3>1. n \in All /\ HoldKey(n) \in DOMAIN db /\ db[HoldKey(n)] = n
      BY HeldIs
    <3>2. HoldKey(n) = CompactKey(m)
      BY <1>2, <2>4 DEF Clash, HoldKey
    <3> QED
      BY <2>1, <3>1, <3>2 DEF CompactOf, Get
  <2>5. Replaced(m) = CompactOf(m) \cup
           {s \in StoredBy(m.fid) : s.time <= m.time /\ (s.type = "add" => s.target \notin m.targets)}
    BY <1>2, Zenon DEF Replaced
  <2> QED
    BY <2>2, <2>3, <2>4, <2>5
<1> QED
  BY <1>1, <1>2

(* The batch of a thread deletes messages held; one that puts a message    *)
(* deletes all it is in conflict with.                                     *)
PendingIndexed(w, D) ==
    w.busy => \E C \in SUBSET Held(D) :
        /\ store \notin SharedStores => \A n \in C : n.fid = w.fid
        /\ \/ w.txn = DeleteMany(C)
           \/ \E m \in Messages[store] :
                /\ w.fid = m.fid /\ w.txn = Putting(m, C)
                /\ \A n \in Held(D) : Clash(n, m) => n \in C

\* no two operations under way meet
NoMeet == \A t, u \in Thread : t # u => ~Meet(thr[t], thr[u])

IndexInv == Match(db) /\ NoMeet /\ \A t \in Thread : PendingIndexed(thr[t], db)

LEMMA MatchKept ==
    ASSUME store' = store, NEW D
    PROVE  Match(D)' <=> Match(D)
<1>1. \A m : Slot(m)' = Slot(m)
  BY SameStore
<1>2. \A m : DeleteKeys(m)' = DeleteKeys(m)
  BY SameStore
<1>3. \A m : SecondaryIndex(m)' = SecondaryIndex(m)
  BY SameStore
<1>4. \A m, n : Clash(m, n)' <=> Clash(m, n)
  BY <1>1 DEF Clash, CompactKey
<1>5. Held(D)' = Held(D)
  BY DEF Held, StoredIn, CompactsIn
<1>6. ASSUME NEW n PROVE Indexed(n, D)' <=> Indexed(n, D)
  BY <1>1, <1>3 DEF Indexed, SetKey, UnpaddedKey, TsHash
<1>7. Distinct(D)' <=> Distinct(D)
  BY <1>4, <1>5 DEF Distinct
<1>8. Owned(D)' <=> Owned(D)
  BY <1>2, <1>5 DEF Owned
<1> QED
  BY <1>5, <1>6, <1>7, <1>8 DEF Match

LEMMA IndexedKept ==
    ASSUME store' = store, NEW w, NEW D, PendingIndexed(w, D)
    PROVE  PendingIndexed(w, D)'
<1>1. \A C : DeleteMany(C)' = DeleteMany(C)
  BY SameStore DEF DeleteMany, Erase
<1>2. ASSUME NEW m, NEW C PROVE Putting(m, C)' = Putting(m, C)
  <2>1. Index(m)' = Index(m)
    BY SameStore
  <2> QED
    BY <1>1, <2>1 DEF Putting, Over, Puts
<1>3. \A m : Slot(m)' = Slot(m)
  BY SameStore
<1>4. \A m, n : Clash(m, n)' <=> Clash(m, n)
  BY <1>3 DEF Clash, CompactKey
<1>5. Held(D)' = Held(D)
  BY DEF Held, StoredIn, CompactsIn
<1> QED
  BY <1>1, <1>2, <1>4, <1>5 DEF PendingIndexed, SharedStores

\* a commit does not concern the batches of operations it does not meet
LEMMA OthersKept ==
    ASSUME StoreOK, NEW D, DbIs(D), NEW E, NEW C \in SUBSET All, NEW P \in SUBSET All, NEW x, x.busy,
           \A n \in C \cup P : Touches(x, n),
           Held(E) = (Held(D) \ C) \cup P,
           NEW w, ~Meet(w, x), PendingIndexed(w, D)
    PROVE  PendingIndexed(w, E)
<1> SUFFICES ASSUME w.busy
             PROVE  \E B \in SUBSET Held(E) :
                      /\ store \notin SharedStores => \A n \in B : n.fid = w.fid
                      /\ \/ w.txn = DeleteMany(B)
                         \/ \E m \in Messages[store] :
                              /\ w.fid = m.fid /\ w.txn = Putting(m, B)
                              /\ \A n \in Held(E) : Clash(n, m) => n \in B
  BY DEF PendingIndexed
<1>1. PICK B \in SUBSET Held(D) :
        /\ store \notin SharedStores => \A n \in B : n.fid = w.fid
        /\ \/ w.txn = DeleteMany(B)
           \/ \E m \in Messages[store] :
                /\ w.fid = m.fid /\ w.txn = Putting(m, B)
                /\ \A n \in Held(D) : Clash(n, m) => n \in B
  BY DEF PendingIndexed
<1>2. B \in SUBSET All
  BY <1>1, HeldIs
<1>3. \A n \in B : Touches(w, n)
  BY <1>1, <1>2, BatchTouches DEF All
<1>4. ASSUME NEW n \in B PROVE n \notin C
  BY <1>3, <1>4, Apart, ClashSame
<1>5. B \in SUBSET Held(E)
  BY <1>1, <1>4
<1>6. ASSUME NEW m \in Messages[store], w.txn = Putting(m, B), \A n \in Held(D) : Clash(n, m) => n \in B,
             NEW n \in Held(E), Clash(n, m)
      PROVE  n \in B
  <2>1. Touches(w, m)
    BY <1>2, <1>6, BatchTouches DEF All
  <2>2. n \notin P
    BY <1>6, <2>1, Apart
  <2> QED
    BY <1>6, <2>2
<1> QED
  BY <1>1, <1>5, <1>6

LEMMA IndexInit == Init => IndexInv
BY MatchInit DEF Init, IndexInv, NoMeet, Meet, PendingIndexed, Idle

LEMMA IndexStep ==
    ASSUME ~raced', TypeInv, IndexInv, [Next]_vars
    PROVE  IndexInv'
<1>1. store' = store /\ StoreOK
  BY StepKinds DEF Begins, Commit, TypeInv
<1>2. TypeInv'
  BY TypeStep
<1>3. DbIs(db) /\ DbIs(db')
  BY <1>1, <1>2, SameStore, ValueKept DEF TypeInv, DbOK, DbIs
<1>4. SUFFICES Match(db') /\ NoMeet' /\ \A u \in Thread : PendingIndexed(thr'[u], db')
  <2>1. \A u \in Thread : PendingIndexed(thr'[u], db') => PendingIndexed(thr[u], db)'
    BY <1>1, IndexedKept DEF PendingIndexed
  <2>2. Match(db') => Match(db)'
    BY <1>1, MatchKept DEF Match
  <2> QED
    BY <2>1, <2>2 DEF IndexInv
<1>5. CASE UNCHANGED <<db, thr>>
  BY <1>5 DEF IndexInv, NoMeet
<1>6. ASSUME NEW t \in Thread, NEW w, Begins(t, w), PendingIndexed(w, db)
      PROVE  Match(db') /\ NoMeet' /\ \A u \in Thread : PendingIndexed(thr'[u], db')
  <2>1. db' = db /\ thr'[t] = w /\ \A u \in Thread \ {t} : thr'[u] = thr[u]
    BY <1>6, BeginsThreads DEF TypeInv, Begins
  <2>2. \A u \in Thread : ~Meet(thr[u], w) /\ ~Meet(w, thr[u])
    BY <1>6, MeetSame DEF Begins
  <2>3. NoMeet'
    BY <2>1, <2>2 DEF NoMeet, IndexInv
  <2> QED
    BY <1>6, <2>1, <2>3 DEF IndexInv
<1>7. ASSUME NEW t \in Thread, NEW m \in Messages[store], NEW w,
             w = Under(m.fid, TRUE, Putting(m, Replaced(m))), Begins(t, w)
      PROVE  Match(db') /\ NoMeet' /\ \A u \in Thread : PendingIndexed(thr'[u], db')
  <2>1. w.fid = m.fid /\ w.txn = Putting(m, Replaced(m))
    BY <1>7, Zenon DEF Under
  <2>2. m \in All
    BY DEF All
  <2>3. /\ Replaced(m) \in SUBSET Held(db)
        /\ store \notin SharedStores => \A n \in Replaced(m) : n.fid = m.fid
        /\ \A n \in Held(db) : Clash(n, m) => n \in Replaced(m)
    BY <1>1, <1>3, <2>2, MergeReplaces DEF IndexInv
  <2>4. PendingIndexed(w, db)
    BY <2>1, <2>3 DEF PendingIndexed
  <2> QED
    BY <1>6, <1>7, <2>4
<1>8. ASSUME NEW t \in Thread, NEW fid, NEW C \in SUBSET Held(db), \A n \in C : n.fid = fid,
             NEW w, w = Under(fid, FALSE, DeleteMany(C)), Begins(t, w)
      PROVE  Match(db') /\ NoMeet' /\ \A u \in Thread : PendingIndexed(thr'[u], db')
  <2>1. w.fid = fid /\ w.txn = DeleteMany(C)
    BY <1>8, Zenon DEF Under
  <2>2. PendingIndexed(w, db)
    BY <1>8, <2>1 DEF PendingIndexed
  <2> QED
    BY <1>6, <1>8, <2>2
<1>9. ASSUME NEW t \in Thread, NEW m \in All, Revoke(t, m), Begins(t, Under(m.fid, FALSE, DeleteMany({m})))
      PROVE  Match(db') /\ NoMeet' /\ \A u \in Thread : PendingIndexed(thr'[u], db')
  <2>1. m \in Held(db)
    BY <1>9 DEF Revoke, Begin, Held, Stored, Compacts, StoredIn, CompactsIn
  <2>2. {m} \in SUBSET Held(db) /\ \A n \in {m} : n.fid = m.fid
    BY <2>1
  <2> QED
    BY <1>8, <1>9, <2>2
<1>10. ASSUME NEW t \in Thread, NEW fid, NEW C \in SUBSET StoredBy(fid),
              Begins(t, Under(fid, FALSE, DeleteMany(C)))
       PROVE  Match(db') /\ NoMeet' /\ \A u \in Thread : PendingIndexed(thr'[u], db')
  <2>1. C \in SUBSET Held(db) /\ \A n \in C : n.fid = fid
    BY <1>1, <1>3, StoredByForm
  <2> QED
    BY <1>8, <1>10, <2>1
<1>11. ASSUME NEW t \in Thread, Commit(t)
       PROVE  Match(db') /\ NoMeet' /\ \A u \in Thread : PendingIndexed(thr'[u], db')
  <2>1. /\ thr[t].busy /\ db' = Written(db, thr[t].txn)
        /\ thr'[t] = Idle /\ \A u \in Thread \ {t} : thr'[u] = thr[u]
    BY <1>11, CommitIs
  <2>2. NoMeet'
    BY <2>1 DEF IndexInv, NoMeet, Meet, Idle
  <2>3. PendingIndexed(thr[t], db)
    BY DEF IndexInv
  <2>4. PICK C \in SUBSET Held(db) :
          \/ thr[t].txn = DeleteMany(C)
          \/ \E m \in Messages[store] :
               /\ thr[t].fid = m.fid /\ thr[t].txn = Putting(m, C)
               /\ \A n \in Held(db) : Clash(n, m) => n \in C
    BY <2>1, <2>3 DEF PendingIndexed
  <2>5. C \in SUBSET All
    BY <1>1, <1>3, HeldIs
  <2>6. \E P \in SUBSET All : /\ Match(db') /\ Held(db') = (Held(db) \ C) \cup P
                              /\ \A n \in C \cup P : Touches(thr[t], n)
    <3>1. CASE thr[t].txn = DeleteMany(C)
      <4>1. Match(db') /\ Held(db') = Held(db) \ C
        BY <1>1, <1>3, <2>1, <3>1, MatchDeletes DEF IndexInv
      <4>2. \A n \in C : Touches(thr[t], n)
        BY <1>1, <2>5, <3>1, BatchTouches
      <4>3. /\ Held(db') = (Held(db) \ C) \cup {} /\ {} \in SUBSET All
            /\ \A n \in C \cup {} : Touches(thr[t], n)
        BY <4>1, <4>2
      <4> QED
        BY <4>1, <4>3, Zenon
    <3>2. ASSUME NEW m \in Messages[store], thr[t].fid = m.fid, thr[t].txn = Putting(m, C),
                 \A n \in Held(db) : Clash(n, m) => n \in C
          PROVE  \E P \in SUBSET All : /\ Match(db') /\ Held(db') = (Held(db) \ C) \cup P
                                       /\ \A n \in C \cup P : Touches(thr[t], n)
      <4>1. m \in All /\ db' = Written(db, Putting(m, C))
        BY <2>1, <3>2 DEF All
      <4>2. Match(db') /\ Held(db') = (Held(db) \ C) \cup {m}
        BY <1>1, <1>3, <3>2, <4>1, MatchPuts DEF IndexInv
      <4>3. Touches(thr[t], m) /\ \A n \in C : Touches(thr[t], n)
        BY <1>1, <2>5, <3>2, <4>1, BatchTouches
      <4>4. {m} \in SUBSET All /\ \A n \in C \cup {m} : Touches(thr[t], n)
        BY <4>1, <4>3
      <4> QED
        BY <4>2, <4>4
    <3> QED
      BY <2>4, <3>1, <3>2
  <2>7. PICK P \in SUBSET All : /\ Match(db') /\ Held(db') = (Held(db) \ C) \cup P
                                /\ \A n \in C \cup P : Touches(thr[t], n)
    BY <2>6
  <2>8. ASSUME NEW u \in Thread \ {t} PROVE PendingIndexed(thr[u], db')
    <3>1. PendingIndexed(thr[u], db) /\ ~Meet(thr[u], thr[t])
      BY DEF IndexInv, NoMeet
    <3> QED
      BY <1>1, <1>3, <2>1, <2>5, <2>7, <3>1, OthersKept
  <2>9. PendingIndexed(Idle, db')
    BY DEF PendingIndexed, Idle
  <2> QED
    BY <2>1, <2>2, <2>7, <2>8, <2>9
<1> QED
  BY <1>5, <1>7, <1>9, <1>10, <1>11, StepKinds

-----------------------------------------------------------------------------
(* What the fid locks are enough for *)

\* the operations under way are merges
AllLocked == \A t \in Thread : thr[t].busy => thr[t].locked = TRUE

(* Operations meet only where the locks are not enough.                    *)
Unmet == raced => Exposed

SerialInv == (~trimmed => AllLocked) /\ Unmet /\ (~raced => IndexInv)

LEMMA LockedStep ==
    ASSUME TypeInv, ~trimmed => AllLocked, [Next]_vars, ~trimmed'
    PROVE  ~trimmed /\ AllLocked'
<1>1. ~trimmed
  BY DEF Next, Merge, MergeFails, Revoke, Prune, Commit, vars
<1>2. CASE UNCHANGED <<store, db, thr>>
  BY <1>1, <1>2 DEF AllLocked
<1>3. ASSUME NEW t \in Thread, NEW m \in Messages[store], Merge(t, m), NEW w,
             w = Under(m.fid, TRUE, Putting(m, Replaced(m))), Begins(t, w)
      PROVE  AllLocked'
  <2>1. w.locked = TRUE
    BY <1>3, Zenon DEF Under
  <2>2. thr'[t] = w /\ \A u \in Thread \ {t} : thr'[u] = thr[u]
    BY <1>3, BeginsThreads DEF TypeInv
  <2> QED
    BY <1>1, <2>1, <2>2 DEF AllLocked
<1>4. ASSUME NEW t \in Thread, Commit(t) PROVE AllLocked'
  <2>1. thr'[t] = Idle /\ \A u \in Thread \ {t} : thr'[u] = thr[u]
    BY <1>4, CommitIs
  <2> QED
    BY <1>1, <2>1 DEF AllLocked, Idle
<1>5. ASSUME NEW t \in Thread, NEW m, Revoke(t, m) PROVE FALSE
  BY <1>5 DEF Revoke
<1> QED
  BY <1>1, <1>2, <1>3, <1>4, <1>5, StepKinds

(* The keys of a batch are those of the messages it deletes and puts, all  *)
(* of the fid of the operation.                                            *)
LEMMA OwnFidKeys ==
    ASSUME StoreOK, DbIs(db), store \notin SharedStores, NEW w, w.busy, PendingIndexed(w, db)
    PROVE  \A k \in DOMAIN w.txn : \E n \in All : n.fid = w.fid /\ k \in DeleteKeys(n)
<1>1. PICK C \in SUBSET Held(db) :
        /\ \A n \in C : n.fid = w.fid
        /\ w.txn = DeleteMany(C) \/ \E m \in Messages[store] : w.fid = m.fid /\ w.txn = Putting(m, C)
  BY DEF PendingIndexed
<1>2. C \in SUBSET All
  BY HeldIs
<1>3. \A k \in Deleted(C) : \E n \in All : n.fid = w.fid /\ k \in DeleteKeys(n)
  BY <1>1, <1>2 DEF Deleted
<1>4. CASE w.txn = DeleteMany(C)
  BY <1>3, <1>4, BatchKeys
<1>5. ASSUME NEW m \in Messages[store], w.fid = m.fid, w.txn = Putting(m, C)
      PROVE  \A k \in DOMAIN w.txn : \E n \in All : n.fid = w.fid /\ k \in DeleteKeys(n)
  <2>1. DOMAIN w.txn = DOMAIN Index(m) \cup Deleted(C)
    BY <1>5, BatchKeys
  <2>2. m \in All /\ DOMAIN Index(m) \subseteq DeleteKeys(m)
    BY OwnKey DEF All
  <2> QED
    BY <1>3, <1>5, <2>1, <2>2
<1> QED
  BY <1>1, <1>4, <1>5

\* operations of two fids do not meet where a message concerns its own fid only
LEMMA FidsApart ==
    ASSUME StoreOK, DbIs(db), store \notin SharedStores,
           NEW w, w.busy, PendingIndexed(w, db), NEW x, x.busy, PendingIndexed(x, db), w.fid # x.fid
    PROVE  ~Meet(w, x)
<1>1. \A k \in DOMAIN w.txn : \E n \in All : n.fid = w.fid /\ k \in DeleteKeys(n)
  BY OwnFidKeys
<1>2. \A k \in DOMAIN x.txn : \E n \in All : n.fid = x.fid /\ k \in DeleteKeys(n)
  BY OwnFidKeys
<1>3. ASSUME NEW k, NEW n \in All, k \in DeleteKeys(n), k[1] \in {"message", "compact"}
      PROVE  k[2] = n.fid
  <2>1. n.type \in Types
    BY MessageFacts
  <2> QED
    BY <1>3, <2>1, DeletedForm DEF MessageKey, CompactKey, SetKey, UnpaddedKey, SecondaryKey, OwnerKey, Types
<1>4. FidsOf(w) = {w.fid} /\ FidsOf(x) = {x.fid}
  BY <1>1, <1>2, <1>3 DEF FidsOf
<1>5. ASSUME NEW k \in DOMAIN w.txn, k \in DOMAIN x.txn PROVE FALSE
  <2>1. PICK n \in All : n.fid = w.fid /\ k \in DeleteKeys(n)
    BY <1>1
  <2>2. PICK m \in All : m.fid = x.fid /\ k \in DeleteKeys(m)
    BY <1>2, <1>5
  <2>3. ~Clash(n, m)
    BY <2>1, <2>2 DEF Clash, CompactKey, SharedStores
  <2> QED
    BY <2>1, <2>2, <2>3, KeysApart
<1> QED
  BY <1>4, <1>5 DEF Meet

(* A merge that has its lock meets no other merge.                         *)
LEMMA UnmetStep ==
    ASSUME TypeInv, SerialInv, [Next]_vars
    PROVE  Unmet'
<1>1. store' = store /\ StoreOK /\ DbIs(db)
  BY StepKinds DEF Begins, Commit, TypeInv, DbOK, DbIs
<1> SUFFICES ASSUME ~trimmed', store \notin SharedStores PROVE ~raced'
  BY <1>1 DEF Unmet, Exposed, SharedStores
<1>2. ~trimmed /\ AllLocked /\ ~raced /\ IndexInv
  BY LockedStep DEF SerialInv, Unmet, Exposed, SharedStores
<1>3. ASSUME NEW t \in Thread, NEW m \in Messages[store], Merge(t, m) PROVE ~raced'
  <2> DEFINE w == Under(m.fid, TRUE, Putting(m, Replaced(m)))
  <2>1. m \in All
    BY DEF All
  <2>2. MergeBatch(m) = Putting(m, Replaced(m))
    BY <1>1, <2>1, MergeBatchIs
  <2>3. raced' = (raced \/ FALSE \/ \E u \in Thread : Meet(thr[u], Under(m.fid, TRUE, MergeBatch(m))))
    BY <1>3, Zenon DEF Merge, Begin
  <2>4. w.busy /\ w.fid = m.fid /\ w.txn = Putting(m, Replaced(m))
    BY Zenon DEF Under
  <2>5. raced' => \E u \in Thread : Meet(thr[u], w)
    BY <1>2, <2>2, <2>3, Zenon
  <2> HIDE DEF w
  <2>6. /\ Replaced(m) \in SUBSET Held(db)
        /\ \A n \in Replaced(m) : n.fid = m.fid
        /\ \A n \in Held(db) : Clash(n, m) => n \in Replaced(m)
    BY <1>1, <1>2, <2>1, MergeReplaces DEF IndexInv
  <2>7. PendingIndexed(w, db)
    BY <2>4, <2>6 DEF PendingIndexed
  <2>8. ASSUME NEW u \in Thread PROVE ~Meet(thr[u], w)
    <3>1. CASE ~thr[u].busy
      BY <3>1 DEF Meet
    <3>2. CASE thr[u].busy
      <4>1. LockOf(thr[u].fid) # LockOf(m.fid)
        BY <1>2, <1>3, <3>2 DEF Merge, MayMerge, LockFree, AllLocked
      <4>2. thr[u].fid # w.fid /\ PendingIndexed(thr[u], db)
        BY <1>2, <2>4, <4>1 DEF IndexInv
      <4> QED
        BY <1>1, <2>4, <2>7, <3>2, <4>2, FidsApart
    <3> QED
      BY <3>1, <3>2
  <2> QED
    BY <2>5, <2>8
<1>4. ASSUME NEW t \in Thread, NEW m, Revoke(t, m) PROVE FALSE
  BY <1>4 DEF Revoke
<1>5. ASSUME NEW t \in Thread, Commit(t) PROVE ~raced'
  BY <1>2, <1>5 DEF Commit
<1> QED
  BY <1>2, <1>3, <1>4, <1>5, StepKinds

LEMMA SerialStep ==
    ASSUME TypeInv, SerialInv, [Next]_vars
    PROVE  SerialInv'
<1>1. ~trimmed' => AllLocked'
  BY LockedStep DEF SerialInv
<1>2. ASSUME ~raced' PROVE IndexInv'
  <2>1. ~raced
    BY <1>2, StepKinds DEF Begins, Commit
  <2> QED
    BY <1>2, <2>1, IndexStep DEF SerialInv
<1> QED
  BY <1>1, <1>2, UnmetStep DEF SerialInv

LEMMA IndexHolds == Spec => [](TypeInv /\ SerialInv)
<1>1. Init => TypeInv /\ SerialInv
  BY TypeInit, IndexInit DEF SerialInv, Unmet, Init, AllLocked, Idle
<1>2. TypeInv /\ SerialInv /\ [Next]_vars => (TypeInv /\ SerialInv)'
  BY TypeStep, SerialStep
<1> QED
  BY <1>1, <1>2, PTL DEF Spec

(* The fid locks are enough where a message concerns its own fid only: as  *)
(* long as casts, links, reactions and user data are merged, and not       *)
(* revoked or pruned, no two operations under way touch a common fid or    *)
(* write a common key.                                                     *)
THEOREM FidLocksSuffice == Spec => [](raced => Exposed)
<1>1. SerialInv => (raced => Exposed)
  BY DEF SerialInv, Unmet
<1> QED
  BY <1>1, IndexHolds, PTL

(* Every stored message has exactly one entry in its set and all its       *)
(* secondary entries, no entry is of anything else and no two stored       *)
(* messages are about the same thing: in every interleaving of the merges  *)
(* of casts, links, compact states, reactions and user data; and in every  *)
(* store, with revokes, prunes and fids that compete for names and         *)
(* addresses, until two operations meet.                                   *)
THEOREM IndexesAlwaysMatch == Spec => []IndexesMatch
<1>1. TypeInv /\ SerialInv => IndexesMatch
  <2> SUFFICES ASSUME TypeInv, SerialInv, ~raced PROVE IndexesOK
    BY DEF IndexesMatch, SerialInv, Unmet
  <2> QED
    BY MatchIndexes DEF SerialInv, IndexInv
<1> QED
  BY <1>1, IndexHolds, PTL

-----------------------------------------------------------------------------
(* Convergence: the order of the messages *)

\* Rank compares like a triple of numbers
LEMMA OutranksIs ==
    ASSUME StoreOK, NEW m \in All, NEW n \in All
    PROVE  Outranks(m, n) <=>
             \/ Rank(m)[1] > Rank(n)[1]
             \/ Rank(m)[1] = Rank(n)[1] /\ Rank(m)[2] > Rank(n)[2]
             \/ Rank(m)[1] = Rank(n)[1] /\ Rank(m)[2] = Rank(n)[2] /\ Rank(m)[3] > Rank(n)[3]
<1> DEFINE a == Rank(m)
           b == Rank(n)
<1>1. Outranks(m, n) <=> \E i \in 1..3 : a[i] > b[i] /\ \A j \in 1..(i - 1) : a[j] = b[j]
  BY Zenon DEF Outranks
<1> HIDE DEF a, b
<1>2. (\E i \in 1..3 : a[i] > b[i] /\ \A j \in 1..(i - 1) : a[j] = b[j]) <=>
        \/ a[1] > b[1]
        \/ a[1] = b[1] /\ a[2] > b[2]
        \/ a[1] = b[1] /\ a[2] = b[2] /\ a[3] > b[3]
  <2>1. \A j : (j \in 1..(1 - 1) <=> FALSE) /\ (j \in 1..(2 - 1) <=> j = 1) /\ (j \in 1..(3 - 1) <=> j = 1 \/ j = 2)
    OBVIOUS
  <2>2. \A i : i \in 1..3 <=> i = 1 \/ i = 2 \/ i = 3
    OBVIOUS
  <2> QED
    BY <2>1, <2>2
<1> QED
  BY <1>1, <1>2 DEF a, b

LEMMA RankIs ==
    ASSUME StoreOK, NEW m \in All
    PROVE  /\ Rank(m)[1] \in Nat /\ Rank(m)[2] \in Nat /\ Rank(m)[3] = m.hash /\ m.hash \in Nat
           /\ store = "cast" => Rank(m)[1] = (IF m.type = "remove" THEN 1 ELSE 0) /\ Rank(m)[2] = m.time
           /\ store # "cast" => Rank(m)[2] = (IF m.type = "remove" THEN 1 ELSE 0) /\ Rank(m)[1] = m.time
<1>1. m.time \in Nat /\ m.hash \in Nat
  BY MessageFacts
<1> QED
  BY <1>1 DEF Rank

(* The documented order is a strict order on messages.                     *)
LEMMA RankOrder ==
    ASSUME StoreOK, NEW x \in All, NEW y \in All, NEW z \in All
    PROVE  /\ Outranks(x, y) /\ Outranks(y, z) => Outranks(x, z)
           /\ ~(Outranks(x, y) /\ Outranks(y, x))
           /\ ~Outranks(x, x)
<1>1. \A v \in {x, y, z} : Rank(v)[1] \in Nat /\ Rank(v)[2] \in Nat /\ Rank(v)[3] \in Nat
  BY RankIs
<1>2. Outranks(x, y) /\ Outranks(y, z) => Outranks(x, z)
  BY <1>1, OutranksIs
<1>3. ~(Outranks(x, y) /\ Outranks(y, x))
  BY <1>1, OutranksIs
<1>4. ~Outranks(x, x)
  BY <1>1, OutranksIs
<1> QED
  BY <1>2, <1>3, <1>4

(* message_compare orders the messages as documented.                      *)
LEMMA BelowIs ==
    ASSUME StoreOK, NEW m \in All, m.type # "compact", NEW n \in All, n.type # "compact"
    PROVE  /\ Below(n.type, TsHash(n), m.type, TsHash(m)) <=> Outranks(m, n)
           /\ m = n \/ Outranks(m, n) \/ Outranks(n, m)
<1>1. /\ m.type \in {"add", "remove"} /\ n.type \in {"add", "remove"}
      /\ m.time \in Nat /\ n.time \in Nat /\ m.hash \in Nat /\ n.hash \in Nat
      /\ m.hash = n.hash => m = n
  BY MessageFacts DEF Types
<1>2. TsHash(m)[1] = m.time /\ TsHash(m)[2] = m.hash /\ TsHash(n)[1] = n.time /\ TsHash(n)[2] = n.hash
  BY DEF TsHash
<1>3. CASE store = "cast"
  <2>1. /\ Rank(m)[1] = (IF m.type = "remove" THEN 1 ELSE 0) /\ Rank(m)[2] = m.time /\ Rank(m)[3] = m.hash
        /\ Rank(n)[1] = (IF n.type = "remove" THEN 1 ELSE 0) /\ Rank(n)[2] = n.time /\ Rank(n)[3] = n.hash
    BY <1>3, RankIs
  <2>2. Below(n.type, TsHash(n), m.type, TsHash(m)) <=> Outranks(m, n)
    BY <1>1, <1>2, <1>3, <2>1, OutranksIs DEF Below, CastBelow, TsLess
  <2>3. m = n \/ Outranks(m, n) \/ Outranks(n, m)
    BY <1>1, <2>1, OutranksIs
  <2> QED
    BY <2>2, <2>3
<1>4. CASE store # "cast"
  <2>1. /\ Rank(m)[2] = (IF m.type = "remove" THEN 1 ELSE 0) /\ Rank(m)[1] = m.time /\ Rank(m)[3] = m.hash
        /\ Rank(n)[2] = (IF n.type = "remove" THEN 1 ELSE 0) /\ Rank(n)[1] = n.time /\ Rank(n)[3] = n.hash
    BY <1>4, RankIs
  <2>2. Below(n.type, TsHash(n), m.type, TsHash(m)) <=> Outranks(m, n)
    BY <1>1, <1>2, <1>4, <2>1, OutranksIs DEF Below, DefaultBelow
  <2>3. m = n \/ Outranks(m, n) \/ Outranks(n, m)
    BY <1>1, <2>1, OutranksIs
  <2> QED
    BY <2>2, <2>3
<1> QED
  BY <1>3, <1>4

(* What the documented order calls a collision is what the store takes as  *)
(* a conflict.                                                             *)
LEMMA CollideIs ==
    ASSUME NEW m, m.type # "compact", NEW n, n.type # "compact"
    PROVE  Collide(m, n) <=> Clash(m, n)
BY DEF Collide, Clash

\* the addresses of verifications are added, none is removed
Plain(O) == store = "verification" => \A m \in O : m.type = "add"

LEMMA CollideSame ==
    ASSUME NEW x, NEW y
    PROVE  Collide(x, x) /\ (Collide(x, y) => Collide(y, x))
BY DEF Collide

LEMMA CollideAcross ==
    ASSUME StoreOK, NEW x \in All, NEW y \in All, NEW z \in All, Plain({x, y, z}), Collide(x, y), Collide(y, z)
    PROVE  Collide(x, z)
<1>1. store = "username" => x.type # "remove" /\ y.type # "remove" /\ z.type # "remove"
  BY MessageFacts DEF RemoveSupported
<1>2. store = "username" => x.type = "add" /\ y.type = "add" /\ z.type = "add"
  BY <1>1, MessageFacts DEF Types
<1> QED
  BY <1>2 DEF Collide, Plain

(* A merge fails only because of a message held that wins.                 *)
LEMMA RejectedBy ==
    ASSUME StoreOK, DbIs(db), Match(db), NEW m \in All, m.type # "compact", ~Accepts(m)
    PROVE  \E n \in Held(db) : /\ n \in All /\ n.type # "compact" /\ Clash(n, m)
                               /\ ~Below(n.type, TsHash(n), m.type, TsHash(m))
<1>1. ASSUME store = "username", UsernameLookupFails(m) PROVE FALSE
  <2>1. PICK f \in Get(OwnerKey(Slot(m))) : Get(SetKey("add", f, Slot(m))) = {}
    BY <1>1 DEF UsernameLookupFails
  <2> DEFINE k == OwnerKey(Slot(m))
  <2>2. k \in DOMAIN db /\ f = db[k] /\ k[1] = "owner"
    BY DEF Get, OwnerKey
  <2>3. PICK n \in Held(db) : k \in DeleteKeys(n)
    BY <2>2 DEF Match, Owned
  <2>4. n \in All /\ n.type \in Types /\ Indexed(n, db)
    BY HeldIs, MessageFacts DEF Match
  <2>5. n.type = "add" /\ k \in DOMAIN SecondaryIndex(n)
    BY <2>2, <2>3, <2>4, DeletedForm DEF CompactKey, MessageKey, SetKey, UnpaddedKey, Types
  <2>6. k = OwnerKey(Slot(n)) /\ SecondaryIndex(n)[k] = n.fid
    BY <1>1, <2>4, <2>5, SecondaryForm
  <2>7. Slot(n) = Slot(m) /\ f = n.fid
    <3>1. Slot(n) = Slot(m)
      BY <2>6 DEF OwnerKey
    <3>2. db[k] = SecondaryIndex(n)[k]
      BY <2>4, <2>5 DEF Indexed
    <3> QED
      BY <2>2, <2>6, <3>1, <3>2
  <2>8. UnpaddedKey("add", n.fid, Slot(n)) \notin DOMAIN db
    BY <1>1, NoUnpadded
  <2>9. SetKey("add", n.fid, Slot(n)) \in DOMAIN db
    BY <2>4, <2>5, <2>8 DEF Indexed
  <2> QED
    BY <2>1, <2>7, <2>9 DEF Get
<1>2. PICK e \in Rivals(m) : ~Below(e.type, e.ts, m.type, TsHash(m))
  BY <1>1 DEF Accepts
<1>3. PICK n \in All : n.type # "compact" /\ Clash(n, m) /\ EntryOf(e, n)
  BY RivalForm
<1>4. n \in Held(db) /\ e.type = n.type /\ e.ts = TsHash(n)
  BY <1>3 DEF EntryOf
<1> QED
  BY <1>2, <1>3, <1>4

\* a merge is accepted only if it wins over every message it replaces
LEMMA AcceptedOver ==
    ASSUME StoreOK, DbIs(db), Match(db), NEW m \in All, m.type # "compact", Accepts(m),
           NEW n \in Held(db), Clash(n, m)
    PROVE  n.type # "compact" /\ Below(n.type, TsHash(n), m.type, TsHash(m))
<1> DEFINE e == [type |-> n.type, fid |-> n.fid, ts |-> TsHash(n)]
<1>1. e \in Rivals(m)
  BY RivalGiven
<1>2. e.type = n.type /\ e.ts = TsHash(n)
  OBVIOUS
<1> HIDE DEF e
<1>3. Below(e.type, e.ts, m.type, TsHash(m))
  BY <1>1 DEF Accepts
<1> QED
  BY <1>2, <1>3 DEF Clash

-----------------------------------------------------------------------------
(* Convergence: every message offered is held, about to be, or outranked   *)
(* by one that is.                                                         *)

Wins(y, x) == y = x \/ (Collide(x, y) /\ Outranks(y, x))

\* the batch of a thread puts y
Coming(w, y) == w.busy /\ HoldKey(y) \in DOMAIN w.txn /\ w.txn[HoldKey(y)] = {y}

PendingWins(w, D, O) ==
    w.busy => \E C \in SUBSET Held(D) : \E m \in Messages[store] :
        /\ m \in O /\ w.fid = m.fid /\ w.txn = Putting(m, C)
        /\ \A n \in C : Clash(n, m) /\ Wins(m, n)
        /\ \A n \in Held(D) : Clash(n, m) => n \in C

Present(x, D, T) == x \in Held(D) \/ \E t \in Thread : Coming(T[t], x)

Covered(x, D, O, T) == \E y \in O : Present(y, D, T) /\ Wins(y, x)

\* a winner is held or about to be
Kept(x, D, O, T) == Present(x, D, T) \/ \E y \in O : Collide(x, y) /\ Outranks(y, x)

CoverInv(D, O, T) ==
    /\ Held(D) \subseteq O /\ O \subseteq All
    /\ \A m \in O : m.type # "compact"
    /\ \A t \in Thread : PendingWins(T[t], D, O)
    /\ \A x \in O : Kept(x, D, O, T)
    /\ Plain(O) => \A x \in O : Covered(x, D, O, T)

LEMMA WinsOrder ==
    ASSUME StoreOK, NEW x \in All, NEW y \in All, NEW z \in All, Plain({x, y, z}), Wins(x, y), Wins(y, z)
    PROVE  Wins(x, z)
<1>1. Plain({z, y, x})
  BY DEF Plain
<1> QED
  BY <1>1, RankOrder, CollideAcross DEF Wins

LEMMA CoverKept ==
    ASSUME store' = store, NEW D, NEW O, NEW T, CoverInv(D, O, T)
    PROVE  CoverInv(D, O, T)'
<1>1. \A C : DeleteMany(C)' = DeleteMany(C)
  BY SameStore DEF DeleteMany, Erase
<1>2. ASSUME NEW m, NEW C PROVE Putting(m, C)' = Putting(m, C)
  <2>1. Index(m)' = Index(m)
    BY SameStore
  <2> QED
    BY <1>1, <2>1 DEF Putting, Over, Puts
<1>3. \A m : Slot(m)' = Slot(m)
  BY SameStore
<1>4. \A m, n : Clash(m, n)' <=> Clash(m, n)
  BY <1>3 DEF Clash, CompactKey
<1>5. Held(D)' = Held(D) /\ All' = All
  BY DEF Held, StoredIn, CompactsIn, All
<1>6. ASSUME NEW m, NEW n PROVE Wins(m, n)' <=> Wins(m, n)
  <2>1. Rank(m)' = Rank(m) /\ Rank(n)' = Rank(n)
    BY DEF Rank
  <2>2. Outranks(m, n)' <=> Outranks(m, n)
    BY <2>1 DEF Outranks
  <2>3. Collide(n, m)' <=> Collide(n, m)
    BY <1>3 DEF Collide
  <2> QED
    BY <2>2, <2>3 DEF Wins
<1>7. ASSUME NEW w, PendingWins(w, D, O) PROVE PendingWins(w, D, O)'
  BY <1>2, <1>4, <1>5, <1>6, <1>7 DEF PendingWins
<1>8. ASSUME NEW x PROVE Present(x, D, T)' <=> Present(x, D, T)
  BY <1>5 DEF Present, Coming, HoldKey, CompactKey, MessageKey, TsHash
<1>9. ASSUME NEW x, Covered(x, D, O, T) PROVE Covered(x, D, O, T)'
  BY <1>6, <1>8, <1>9 DEF Covered
<1>10. ASSUME NEW x, NEW y PROVE (Collide(x, y) /\ Outranks(y, x))' <=> Collide(x, y) /\ Outranks(y, x)
  <2>1. Rank(x)' = Rank(x) /\ Rank(y)' = Rank(y)
    BY DEF Rank
  <2>2. Slot(x)' = Slot(x) /\ Slot(y)' = Slot(y)
    BY <1>3
  <2> QED
    BY <2>1, <2>2 DEF Outranks, Collide
<1>11. ASSUME NEW x, Kept(x, D, O, T) PROVE Kept(x, D, O, T)'
  BY <1>8, <1>10, <1>11 DEF Kept
<1>12. Plain(O)' <=> Plain(O)
  BY DEF Plain
<1> QED
  BY <1>5, <1>7, <1>9, <1>11, <1>12 DEF CoverInv

LEMMA ComingPut ==
    ASSUME StoreOK, NEW m \in All, NEW C, NEW w, w.busy, w.txn = Putting(m, C)
    PROVE  Coming(w, m)
<1>1. HoldKey(m) \in DOMAIN Index(m) /\ Index(m)[HoldKey(m)] = m
  BY IndexEntries DEF EntriesOK
<1>2. HoldKey(m) \in DOMAIN Putting(m, C)
  <2>1. DOMAIN Putting(m, C) = DOMAIN Index(m) \cup Deleted(C)
    BY PuttingIs
  <2> QED
    BY <1>1, <2>1
<1>3. Putting(m, C)[HoldKey(m)] = {m}
  BY <1>1, PuttingAt
<1> QED
  BY <1>2, <1>3 DEF Coming

(* What a pending batch puts is held once it commits.                      *)
LEMMA ComingHeld ==
    ASSUME StoreOK, NEW D, NEW w, NEW E, E = Written(D, w.txn), DbIs(E), NEW y \in All, Coming(w, y)
    PROVE  y \in Held(E)
<1> DEFINE k == HoldKey(y)
<1>1. k \in DOMAIN w.txn /\ w.txn[k] = {y}
  BY DEF Coming
<1>2. (CHOOSE v \in w.txn[k] : TRUE) = y
  BY <1>1
<1> HIDE DEF k
<1>3. k \in DOMAIN E /\ E[k] = y
  BY <1>1, <1>2 DEF Written
<1> QED
  BY <1>3, HeldIs DEF k

\* a message offered changes no other thread's batch
LEMMA OfferedMore ==
    ASSUME NEW w, NEW D, NEW O, NEW P, O \subseteq P, PendingWins(w, D, O)
    PROVE  PendingWins(w, D, P)
BY DEF PendingWins

(* A merge that fails leaves its message covered by one that is held.      *)
LEMMA CoverFails ==
    ASSUME TypeInv, Match(db), CoverInv(db, offered, thr),
           NEW m \in Messages[store], ~Merged(m)
    PROVE  CoverInv(db, offered \cup {m}, thr)
<1>1. StoreOK /\ DbIs(db) /\ m \in All
  BY DEF TypeInv, DbOK, DbIs, All
<1>2. CompactOf(m) = {}
  <2> SUFFICES ASSUME NEW c \in CompactOf(m) PROVE FALSE
    OBVIOUS
  <2>1. CompactKey(m) \in DOMAIN db /\ c = db[CompactKey(m)]
    BY DEF CompactOf, Get
  <2>2. c \in CompactsIn(db)
    BY <2>1 DEF CompactsIn, CompactKey
  <2>3. c \in Held(db) /\ c.type = "compact"
    BY <1>1, <2>2, HeldForm DEF Held
  <2> QED
    BY <2>3 DEF CoverInv
<1>3. m.type \in Types
  BY <1>1, MessageFacts
<1>4. m.type # "compact" /\ ~Accepts(m)
  BY <1>2, <1>3 DEF Merged, MergeAdd, MergeRemove, MergeCompact, Types
<1>5. PICK n \in Held(db) : /\ n \in All /\ n.type # "compact" /\ Clash(n, m)
                            /\ ~Below(n.type, TsHash(n), m.type, TsHash(m))
  BY <1>1, <1>4, RejectedBy
<1>6. Wins(n, m)
  <2>1. Collide(m, n)
    BY <1>1, <1>4, <1>5, CollideIs, CollideSame
  <2>2. n = m \/ Outranks(n, m)
    BY <1>1, <1>4, <1>5, BelowIs
  <2> QED
    BY <2>1, <2>2 DEF Wins
<1>7. n \in offered /\ Present(n, db, thr)
  BY DEF CoverInv, Present
<1>8. ASSUME Plain(offered \cup {m}), NEW x \in offered \cup {m} PROVE Covered(x, db, offered \cup {m}, thr)
  <2>1. Plain(offered)
    BY <1>8 DEF Plain
  <2>2. x \in offered => Covered(x, db, offered, thr)
    BY <2>1 DEF CoverInv
  <2> QED
    BY <1>6, <1>7, <2>2 DEF Covered
<1>10. ASSUME NEW x \in offered \cup {m} PROVE Kept(x, db, offered \cup {m}, thr)
  <2>1. CASE x \in offered
    BY <2>1 DEF CoverInv, Kept
  <2>2. CASE x = m
    BY <1>6, <1>7, <2>2 DEF Kept, Wins
  <2> QED
    BY <2>1, <2>2
<1>9. \A t \in Thread : PendingWins(thr[t], db, offered \cup {m})
  BY OfferedMore DEF CoverInv
<1> QED
  BY <1>1, <1>4, <1>8, <1>9, <1>10 DEF CoverInv

(* A merge that begins covers its message by its own batch, and what that  *)
(* batch deletes by the message.                                           *)
LEMMA CoverMerge ==
    ASSUME TypeInv, Match(db), CoverInv(db, offered, thr),
           NEW t \in Thread, NEW m \in Messages[store], Merged(m), m.type # "compact", NEW w,
           w = Under(m.fid, TRUE, Putting(m, Replaced(m))), Begins(t, w)
    PROVE  CoverInv(db, offered \cup {m}, thr')
<1>1. StoreOK /\ DbIs(db) /\ m \in All
  BY DEF TypeInv, DbOK, DbIs, All
<1>2. ~thr[t].busy /\ thr'[t] = w /\ \A u \in Thread \ {t} : thr'[u] = thr[u]
  BY BeginsThreads DEF TypeInv, Begins
<1>3. w.busy /\ w.fid = m.fid /\ w.txn = Putting(m, Replaced(m))
  BY Zenon DEF Under
<1>4. Accepts(m)
  BY <1>1, MessageFacts DEF Merged, MergeAdd, MergeRemove, Types
<1>5. Replaced(m) = {n \in Held(db) : Clash(n, m)}
  BY <1>1, ConflictsAre DEF Replaced
<1>6. ASSUME NEW n \in Held(db), Clash(n, m) PROVE Wins(m, n)
  <2>1. n \in All
    BY <1>1, HeldIs
  <2>2. n.type # "compact" /\ Below(n.type, TsHash(n), m.type, TsHash(m))
    BY <1>1, <1>4, <1>6, AcceptedOver
  <2>3. Collide(n, m)
    BY <1>1, <1>6, <2>1, <2>2, CollideIs
  <2>4. Outranks(m, n)
    BY <1>1, <2>1, <2>2, BelowIs
  <2> QED
    BY <2>3, <2>4 DEF Wins
<1>7. PendingWins(w, db, offered \cup {m})
  BY <1>3, <1>5, <1>6 DEF PendingWins
<1>8. \A u \in Thread : PendingWins(thr'[u], db, offered \cup {m})
  BY <1>2, <1>7, OfferedMore DEF CoverInv
<1>9. Coming(thr'[t], m)
  BY <1>1, <1>2, <1>3, ComingPut
<1>10. ASSUME NEW y, Present(y, db, thr) PROVE Present(y, db, thr')
  <2>1. \A u \in Thread : Coming(thr[u], y) => Coming(thr'[u], y)
    BY <1>2 DEF Coming
  <2> QED
    BY <1>10, <2>1 DEF Present
<1>11. Present(m, db, thr')
  BY <1>9 DEF Present
<1>12. ASSUME Plain(offered \cup {m}), NEW x \in offered \cup {m} PROVE Covered(x, db, offered \cup {m}, thr')
  <2>1. Plain(offered)
    BY <1>12 DEF Plain
  <2>2. x \in offered => Covered(x, db, offered, thr)
    BY <2>1 DEF CoverInv
  <2> QED
    BY <1>10, <1>11, <2>2 DEF Covered, Wins
<1>13. ASSUME NEW x \in offered \cup {m} PROVE Kept(x, db, offered \cup {m}, thr')
  BY <1>10, <1>11 DEF CoverInv, Kept
<1> QED
  BY <1>1, <1>8, <1>12, <1>13 DEF CoverInv

(* A commit keeps every offered message covered: what it deletes was       *)
(* outranked by what it puts.                                              *)
LEMMA CoverCommit ==
    ASSUME TypeInv, IndexInv, CoverInv(db, offered, thr), NEW t \in Thread, Commit(t), DbIs(db')
    PROVE  CoverInv(db', offered, thr')
<1>1. StoreOK /\ DbIs(db)
  BY DEF TypeInv, DbOK, DbIs
<1>2. /\ thr[t].busy /\ db' = Written(db, thr[t].txn)
      /\ thr'[t] = Idle /\ \A u \in Thread \ {t} : thr'[u] = thr[u]
  BY CommitIs
<1>3. PICK C \in SUBSET Held(db) : \E m \in Messages[store] :
        /\ m \in offered /\ thr[t].fid = m.fid /\ thr[t].txn = Putting(m, C)
        /\ \A n \in C : Clash(n, m) /\ Wins(m, n)
        /\ \A n \in Held(db) : Clash(n, m) => n \in C
  BY <1>2 DEF CoverInv, PendingWins
<1>4. PICK m \in Messages[store] :
        /\ m \in offered /\ thr[t].fid = m.fid /\ thr[t].txn = Putting(m, C)
        /\ \A n \in C : Clash(n, m) /\ Wins(m, n)
        /\ \A n \in Held(db) : Clash(n, m) => n \in C
  BY <1>3
<1>5. m \in All /\ Held(db') = (Held(db) \ C) \cup {m}
  BY <1>1, <1>2, <1>4, MatchPuts DEF IndexInv, All
<1>6. ASSUME NEW u \in Thread \ {t} PROVE PendingWins(thr[u], db', offered)
  <2> SUFFICES ASSUME thr[u].busy
               PROVE  \E B \in SUBSET Held(db') : \E n \in Messages[store] :
                        /\ n \in offered /\ thr[u].fid = n.fid /\ thr[u].txn = Putting(n, B)
                        /\ \A x \in B : Clash(x, n) /\ Wins(n, x)
                        /\ \A x \in Held(db') : Clash(x, n) => x \in B
    BY DEF PendingWins
  <2>1. PICK B \in SUBSET Held(db) : \E n \in Messages[store] :
          /\ n \in offered /\ thr[u].fid = n.fid /\ thr[u].txn = Putting(n, B)
          /\ \A x \in B : Clash(x, n) /\ Wins(n, x)
          /\ \A x \in Held(db) : Clash(x, n) => x \in B
    BY DEF CoverInv, PendingWins
  <2>2. PICK n \in Messages[store] :
          /\ n \in offered /\ thr[u].fid = n.fid /\ thr[u].txn = Putting(n, B)
          /\ \A x \in B : Clash(x, n) /\ Wins(n, x)
          /\ \A x \in Held(db) : Clash(x, n) => x \in B
    BY <2>1
  <2>3. /\ n \in All /\ B \in SUBSET All /\ C \in SUBSET All
        /\ ~Meet(thr[u], thr[t])
    BY <1>1, <2>2, HeldIs DEF IndexInv, NoMeet, All
  <2>4. ASSUME NEW x \in B PROVE x \notin C
    <3>1. Touches(thr[u], x)
      BY <1>1, <2>2, <2>3, BatchTouches
    <3>2. x \in C => Touches(thr[t], x)
      BY <1>1, <1>4, <1>5, <2>3, BatchTouches
    <3> QED
      BY <1>2, <2>3, <3>1, <3>2, Apart, ClashSame
  <2>5. ~Clash(m, n)
    <3>1. Touches(thr[u], n)
      BY <1>1, <2>2, <2>3, BatchTouches
    <3>2. Touches(thr[t], m)
      BY <1>1, <1>4, <1>5, <2>3, BatchTouches
    <3> QED
      BY <1>2, <2>3, <3>1, <3>2, Apart
  <2>6. B \in SUBSET Held(db')
    BY <1>5, <2>4
  <2>7. \A x \in Held(db') : Clash(x, n) => x \in B
    BY <1>5, <2>2, <2>5
  <2> QED
    BY <2>2, <2>6, <2>7
<1>7. PendingWins(Idle, db', offered)
  BY DEF PendingWins, Idle
<1>8. ASSUME NEW y \in offered, Present(y, db, thr), y \notin C PROVE Present(y, db', thr')
  <2>1. y \in All
    BY DEF CoverInv
  <2>2. CASE y \in Held(db)
    BY <1>5, <1>8, <2>2 DEF Present
  <2>3. CASE Coming(thr[t], y)
    BY <1>1, <1>2, <2>1, <2>3, ComingHeld DEF Present
  <2>4. ASSUME NEW u \in Thread \ {t}, Coming(thr[u], y) PROVE Present(y, db', thr')
    <3>1. Coming(thr'[u], y)
      BY <1>2, <2>4
    <3> QED
      BY <3>1 DEF Present
  <2> QED
    BY <1>8, <2>2, <2>3, <2>4 DEF Present
<1>11. m \in offered /\ Present(m, db', thr') /\ C \subseteq All
  BY <1>1, <1>4, <1>5, HeldIs DEF Present
<1>12. ASSUME Plain(offered), NEW x \in offered PROVE Covered(x, db', offered, thr')
  <2>1. PICK y \in offered : Present(y, db, thr) /\ Wins(y, x)
    BY <1>12 DEF CoverInv, Covered
  <2>2. x \in All /\ y \in All
    BY DEF CoverInv
  <2>3. CASE y \in C
    <3>1. Plain({m, y, x}) /\ Wins(m, y)
      BY <1>4, <1>12, <2>3 DEF Plain
    <3>2. Wins(m, x)
      BY <1>1, <1>5, <2>1, <2>2, <3>1, WinsOrder
    <3> QED
      BY <1>11, <3>2 DEF Covered
  <2>4. CASE y \notin C
    BY <1>8, <2>1, <2>4 DEF Covered
  <2> QED
    BY <2>3, <2>4
<1>13. ASSUME NEW x \in offered PROVE Kept(x, db', offered, thr')
  <2>1. Kept(x, db, offered, thr)
    BY DEF CoverInv
  <2>2. CASE x \in C
    BY <1>4, <1>11, <2>2 DEF Kept, Wins
  <2>3. CASE x \notin C
    BY <1>8, <2>1, <2>3 DEF Kept
  <2> QED
    BY <2>2, <2>3
<1>9. \A u \in Thread : PendingWins(thr'[u], db', offered)
  BY <1>2, <1>6, <1>7
<1>10. Held(db') \subseteq offered
  BY <1>4, <1>5 DEF CoverInv
<1> QED
  BY <1>9, <1>10, <1>12, <1>13 DEF CoverInv

NoCompact(O) == \A m \in O : m.type # "compact"

ConvergeInv == ~trimmed /\ ~raced /\ NoCompact(offered) => CoverInv(db, offered, thr)

LEMMA ConvergeInit == Init => ConvergeInv
<1> SUFFICES ASSUME Init PROVE ConvergeInv
  OBVIOUS
<1>1. TypeInv /\ Held(db) = offered
  BY TypeInit, MatchInit
<1>2. \A m \in offered : m.type # "compact"
  BY <1>1, HashesUnique DEF Init, TypeInv, StoreOK
<1>3. \A t \in Thread : PendingWins(thr[t], db, offered)
  BY DEF Init, PendingWins, Idle
<1>4. \A x \in offered : Present(x, db, thr)
  BY <1>1 DEF Present
<1> QED
  BY <1>1, <1>2, <1>3, <1>4 DEF ConvergeInv, CoverInv, TypeInv, Covered, Kept, Wins

LEMMA ConvergeStep ==
    ASSUME TypeInv, SerialInv, ConvergeInv, [Next]_vars
    PROVE  ConvergeInv'
<1> SUFFICES ASSUME ~trimmed', ~raced', NoCompact(offered') PROVE CoverInv(db, offered, thr)'
  BY DEF ConvergeInv, NoCompact
<1>1. store' = store /\ StoreOK
  BY StepKinds DEF Begins, Commit, TypeInv
<1>2. ~trimmed /\ ~raced
  <2>1. ~trimmed
    BY LockedStep DEF SerialInv
  <2>2. ~raced
    BY StepKinds DEF Begins, Commit
  <2> QED
    BY <2>1, <2>2
<1>12. NoCompact(offered)
  <2>1. offered \subseteq offered'
    BY StepKinds DEF MergeFails, Merge, Revoke, Commit
  <2> QED
    BY <2>1 DEF NoCompact
<1>3. IndexInv /\ CoverInv(db, offered, thr)
  BY <1>2, <1>12 DEF ConvergeInv, SerialInv
<1>4. TypeInv'
  BY TypeStep
<1>5. DbIs(db')
  BY <1>1, <1>4, SameStore, ValueKept DEF TypeInv, DbOK, DbIs
<1>6. SUFFICES CoverInv(db', offered', thr')
  BY <1>1, CoverKept DEF CoverInv
<1>7. CASE UNCHANGED <<db, thr>> /\ offered' = offered
  BY <1>3, <1>7
<1>8. ASSUME NEW t \in Thread, NEW m \in Messages[store], MergeFails(t, m)
      PROVE  CoverInv(db', offered', thr')
  <2>1. ~Merged(m) /\ offered' = offered \cup {m} /\ db' = db /\ thr' = thr
    BY <1>8 DEF MergeFails
  <2>2. CoverInv(db, offered \cup {m}, thr)
    BY <1>3, <2>1, CoverFails DEF IndexInv
  <2> QED
    BY <2>1, <2>2
<1>9. ASSUME NEW t \in Thread, NEW m \in Messages[store], Merge(t, m), NEW w,
             w = Under(m.fid, TRUE, Putting(m, Replaced(m))), Begins(t, w)
      PROVE  CoverInv(db', offered', thr')
  <2>1. Merged(m) /\ offered' = offered \cup {m} /\ db' = db /\ m.type # "compact"
    BY <1>9 DEF Merge, NoCompact
  <2>2. CoverInv(db, offered \cup {m}, thr')
    BY <1>3, <1>9, <2>1, CoverMerge DEF IndexInv
  <2> QED
    BY <2>1, <2>2
<1>10. ASSUME NEW t \in Thread, Commit(t) PROVE CoverInv(db', offered', thr')
  <2>1. offered' = offered
    BY <1>10, CommitIs
  <2>2. CoverInv(db', offered, thr')
    BY <1>3, <1>5, <1>10, CoverCommit
  <2> QED
    BY <2>1, <2>2
<1>11. ASSUME NEW t \in Thread, NEW m, Revoke(t, m) PROVE FALSE
  BY <1>11 DEF Revoke
<1> QED
  BY <1>7, <1>8, <1>9, <1>10, <1>11, StepKinds

(* "A two-phase CRDT set": as long as nothing was revoked, pruned or       *)
(* compacted, an idle store holds the winners among all messages it was    *)
(* offered, whatever the order and the interleaving of the merges, and     *)
(* nothing else unless verifications were removed.  For casts, links,      *)
(* reactions and user data the fid locks are enough (FidLocksSuffice); for *)
(* names and addresses it holds until merges of two fids meet.             *)
THEOREM StoresConverge == Spec => []Converges
<1>1. TypeInv /\ SerialInv /\ ConvergeInv => Converges
  <2> SUFFICES ASSUME TypeInv, SerialInv, ConvergeInv, ~trimmed, ~raced, NoCompact(offered),
                      \A t \in Thread : ~thr[t].busy
               PROVE  /\ Winners \subseteq Stored
                      /\ Plain(offered) => Stored \subseteq Winners
    BY DEF Converges, Plain, NoCompact, SerialInv, Unmet
  <2>1. StoreOK /\ DbIs(db) /\ Match(db) /\ CoverInv(db, offered, thr)
    BY DEF TypeInv, DbOK, DbIs, ConvergeInv, SerialInv, IndexInv
  <2>2. Stored = Held(db)
    <3>1. CompactsIn(db) = {}
      BY <2>1, HeldForm DEF CoverInv, Held
    <3> QED
      BY <3>1 DEF Held, Stored, StoredIn
  <2>3. ASSUME NEW y, Present(y, db, thr) PROVE y \in Held(db)
    BY <2>3 DEF Present, Coming
  <2>4. ASSUME NEW m \in Winners PROVE m \in Held(db)
    <3>1. m \in offered /\ ~\E n \in offered : Collide(m, n) /\ Outranks(n, m)
      BY DEF Winners
    <3>2. Kept(m, db, offered, thr)
      BY <2>1, <3>1 DEF CoverInv
    <3> QED
      BY <2>3, <3>1, <3>2 DEF Kept
  <2>5. ASSUME Plain(offered), NEW m \in Held(db), NEW n \in offered, Collide(m, n), Outranks(n, m) PROVE FALSE
    <3>1. m \in offered /\ m \in All /\ n \in All /\ m.type # "compact"
      BY <2>1 DEF CoverInv
    <3>2. Covered(n, db, offered, thr)
      BY <2>1, <2>5 DEF CoverInv
    <3>3. PICK y \in offered : y \in Held(db) /\ Wins(y, n)
      BY <2>3, <3>2 DEF Covered
    <3>4. y \in All /\ y.type # "compact" /\ (y = n \/ (Collide(n, y) /\ Outranks(y, n)))
      BY <2>1, <3>3 DEF CoverInv, Wins
    <3>5. Plain({m, n, y})
      BY <2>5, <3>1 DEF Plain
    <3>6. Collide(m, y)
      BY <2>1, <2>5, <3>1, <3>4, <3>5, CollideAcross
    <3>7. y = m
      BY <2>1, <3>1, <3>3, <3>4, <3>6, CollideIs DEF Match, Distinct
    <3> QED
      BY <2>1, <2>5, <3>1, <3>4, <3>7, RankOrder
  <2>6. Held(db) \subseteq offered
    BY <2>1 DEF CoverInv
  <2> QED
    BY <2>2, <2>4, <2>5, <2>6 DEF Winners
<1>2. Init => TypeInv /\ ConvergeInv
  BY TypeInit, ConvergeInit
<1>3. TypeInv /\ SerialInv /\ ConvergeInv /\ [Next]_vars => ConvergeInv'
  BY ConvergeStep
<1> QED
  BY <1>1, <1>2, <1>3, IndexHolds, PTL DEF Spec

-----------------------------------------------------------------------------
(* Queries *)

(* What a matching database says of a stored message.                      *)
LEMMA StoredIs ==
    ASSUME TypeInv, Match(db), NEW n
    PROVE  /\ n \in Stored <=> n \in Held(db) /\ n.type # "compact"
           /\ n \in Stored => /\ n \in All /\ Indexed(n, db) /\ n.type \in {"add", "remove"}
                              /\ GetMessage(n.fid, TsHash(n)) = {n}
           /\ \A fid : n \in StoredBy(fid) <=> n \in Stored /\ n.fid = fid
<1>1. StoreOK /\ DbIs(db) /\ Stored = StoredIn(db)
  BY DEF TypeInv, DbOK, DbIs, Stored, StoredIn
<1>2. n \in Stored <=> n \in Held(db) /\ n.type # "compact"
  BY <1>1, HeldForm DEF Held
<1>3. ASSUME n \in Stored
      PROVE  /\ n \in All /\ Indexed(n, db) /\ n.type \in {"add", "remove"}
             /\ MessageKey(n.fid, TsHash(n)) \in DOMAIN db /\ db[MessageKey(n.fid, TsHash(n))] = n
  BY <1>1, <1>2, <1>3, HeldIs, MessageFacts DEF Match, Types, HoldKey
<1>4. n \in Stored => GetMessage(n.fid, TsHash(n)) = {n}
  BY <1>3 DEF GetMessage, Get
<1>5. ASSUME NEW fid, n \in StoredBy(fid) PROVE n \in Stored /\ n.fid = fid
  <2>1. n.fid = fid
    BY <1>1, <1>5, StoredByForm
  <2> QED
    BY <1>5, <2>1 DEF Stored, StoredBy
<1>6. ASSUME n \in Stored PROVE n \in StoredBy(n.fid)
  BY <1>3, <1>6 DEF StoredBy, MessageKey
<1> QED
  BY <1>2, <1>3, <1>4, <1>5, <1>6

\* the stored messages of a fid with a type and a slot
One(type, fid, slot) == {n \in StoredBy(fid) : n.type = type /\ Slot(n) = slot}

LEMMA OneIsOne ==
    ASSUME TypeInv, Match(db), NEW type, NEW fid, NEW slot, NEW m \in One(type, fid, slot), NEW n \in One(type, fid, slot)
    PROVE  m = n
<1>1. m \in Held(db) /\ n \in Held(db) /\ m.type # "compact" /\ n.type # "compact"
      /\ m.fid = fid /\ n.fid = fid /\ Slot(m) = Slot(n)
  BY StoredIs DEF One
<1> QED
  BY <1>1 DEF Match, Distinct, Clash

LEMMA NamedWithin ==
    ASSUME TypeInv, Match(db), NEW type \in {"add", "remove"}, NEW fid, NEW slot,
           NEW key \in {SetKey(type, fid, slot), UnpaddedKey(type, fid, slot)}, NEW x \in Named(fid, key)
    PROVE  x \in One(type, fid, slot)
<1>1. StoreOK /\ DbIs(db)
  BY DEF TypeInv, DbOK, DbIs
<1>2. PICK ts \in Get(key) : x \in GetMessage(fid, ts)
  BY DEF Named
<1> DEFINE e == [type |-> type, fid |-> fid, ts |-> ts]
<1>3. e \in EntriesAt(type, fid, key)
  BY DEF EntriesAt
<1>4. e.ts = ts
  OBVIOUS
<1> HIDE DEF e
<1>5. PICK n \in All : n.type = type /\ n.fid = fid /\ Slot(n) = slot /\ EntryOf(e, n)
  BY <1>1, <1>3, EntryFound
<1>6. n \in Stored /\ ts = TsHash(n)
  BY <1>4, <1>5, StoredIs DEF EntryOf
<1>7. x = n
  BY <1>2, <1>5, <1>6, StoredIs
<1> QED
  BY <1>5, <1>6, <1>7, StoredIs DEF One

LEMMA NamedFinds ==
    ASSUME TypeInv, Match(db), NEW type \in {"add", "remove"}, NEW fid, NEW slot, NEW n \in One(type, fid, slot)
    PROVE  \/ n \in Named(fid, SetKey(type, fid, slot))
           \/ store = "link" /\ n \in Named(fid, UnpaddedKey(type, fid, slot))
<1>1. StoreOK /\ DbIs(db)
  BY DEF TypeInv, DbOK, DbIs
<1>2. n \in Stored /\ n.fid = fid /\ n.type = type /\ Slot(n) = slot
  BY StoredIs DEF One
<1>3. Indexed(n, db) /\ GetMessage(fid, TsHash(n)) = {n}
  BY <1>2, StoredIs
<1>4. \/ SetKey(type, fid, slot) \in DOMAIN db /\ db[SetKey(type, fid, slot)] = TsHash(n)
      \/ UnpaddedKey(type, fid, slot) \in DOMAIN db /\ db[UnpaddedKey(type, fid, slot)] = TsHash(n)
  BY <1>2, <1>3 DEF Indexed
<1>5. UnpaddedKey(type, fid, slot) \in DOMAIN db => store = "link"
  BY <1>1, NoUnpadded
<1> QED
  BY <1>3, <1>4, <1>5 DEF Named, Get

(* A lookup by set key finds the one stored message of that slot.          *)
LEMMA NamedIs ==
    ASSUME TypeInv, Match(db), store # "link", NEW type \in {"add", "remove"}, NEW fid, NEW slot
    PROVE  Named(fid, SetKey(type, fid, slot)) = One(type, fid, slot)
BY NamedWithin, NamedFinds

(* A link is found under its padded or its unpadded key alike.             *)
LEMMA GetLinkIs ==
    ASSUME TypeInv, Match(db), store = "link", NEW type \in {"add", "remove"}, NEW fid, NEW kind, NEW target
    PROVE  GetLink(type, fid, kind, target) = Found(One(type, fid, <<kind, target>>))
<1> DEFINE slot == <<kind, target>>
           padded == Named(fid, SetKey(type, fid, slot))
           unpadded == Named(fid, UnpaddedKey(type, fid, slot))
<1>1. GetLink(type, fid, kind, target) = Found(IF padded # {} THEN padded ELSE unpadded)
  BY DEF GetLink
<1> HIDE DEF slot
<1>2. padded \subseteq One(type, fid, slot) /\ unpadded \subseteq One(type, fid, slot)
  BY NamedWithin
<1>3. One(type, fid, slot) \subseteq padded \cup unpadded
  BY NamedFinds
<1>4. \A m, n \in One(type, fid, slot) : m = n
  BY OneIsOne
<1>5. (IF padded # {} THEN padded ELSE unpadded) = One(type, fid, slot)
  BY <1>2, <1>3, <1>4
<1> QED
  BY <1>1, <1>5 DEF slot

LEMMA LookupsAreExact ==
    ASSUME TypeInv, Match(db)
    PROVE  LookupsExact
<1>1. StoreOK /\ DbIs(db) /\ Asked = All
  BY DEF TypeInv, DbOK, DbIs, Asked, All
<1> SUFFICES ASSUME NEW m \in All,
                    NEW one, one = Found(One(m.type, m.fid, Slot(m)))
             PROVE  CASE m.type = "compact" -> m \in Compacts => m \in GetCompactsByFid(m.fid).messages
                      [] store = "cast" ->
                           IF m.type = "add" THEN GetCastAdd(m.fid, m.hash) = one
                           ELSE GetCastRemove(m.fid, m.target) = one
                      [] store = "link" /\ m.type # "compact" ->
                           IF m.type = "add" THEN GetLinkAdd(m.fid, m.kind, m.target) = one
                           ELSE GetLinkRemove(m.fid, m.kind, m.target) = one
                      [] store = "reaction" ->
                           IF m.type = "add" THEN GetReactionAdd(m.fid, m.kind, m.target) = one
                           ELSE GetReactionRemove(m.fid, m.kind, m.target) = one
                      [] store = "userdata" -> GetUserDataAdd(m.fid, m.kind) = one
                      [] store = "username" ->
                           /\ GetUsernameProofByFidAndName(m.fid, m.target) = one
                           /\ one.messages # {} => GetUsernameProof(m.target) = one
                      [] store = "verification" ->
                           IF m.type = "add" THEN GetVerificationAdd(m.fid, m.target) = one
                           ELSE GetVerificationRemove(m.fid, m.target) = one
  BY <1>1 DEF LookupsExact, One
<1>2. m.type \in Types /\ (m.type = "remove" => RemoveSupported) /\ (m.type = "compact" => store = "link")
      /\ store \in StoreDefs
  BY <1>1, MessageFacts, StoresKnown DEF StoreOK
<1>3. CASE m.type = "compact"
  <2>1. m \in Compacts => m \in GetCompactsByFid(m.fid).messages
    BY <1>2, <1>3 DEF GetCompactsByFid, Found
  <2> QED
    BY <1>2, <1>3, <2>1
<1>4. CASE m.type # "compact" /\ store # "link"
  <2>1. m.type \in {"add", "remove"}
    BY <1>2, <1>4 DEF Types
  <2>2. m.type = "add" => GetAdd(m.fid, Slot(m)) = one
    BY <1>4, NamedIs DEF GetAdd
  <2>3. m.type = "remove" => GetRemove(m.fid, Slot(m)) = one
    BY <1>2, <1>4, NamedIs DEF GetRemove
  <2>4. CASE store = "cast"
    BY <2>1, <2>2, <2>3, <2>4, <1>4 DEF Slot, CastSlot, GetCastAdd, GetCastRemove
  <2>5. CASE store = "reaction"
    BY <2>1, <2>2, <2>3, <2>5, <1>4 DEF Slot, ReactionSlot, GetReactionAdd, GetReactionRemove
  <2>6. CASE store = "userdata"
    BY <1>2, <2>1, <2>2, <2>6, <1>4 DEF Slot, UserDataSlot, GetUserDataAdd, RemoveSupported
  <2>7. CASE store = "verification"
    BY <2>1, <2>2, <2>3, <2>7, <1>4 DEF Slot, VerificationSlot, GetVerificationAdd, GetVerificationRemove
  <2>8. CASE store = "username"
    <3>1. m.type = "add" /\ Slot(m) = m.target
      BY <1>2, <2>1, <2>8 DEF RemoveSupported, Slot, UsernameSlot
    <3>2. GetUsernameProofByFidAndName(m.fid, m.target) = one
      BY <2>2, <3>1 DEF GetUsernameProofByFidAndName
    <3>3. ASSUME one.messages # {} PROVE GetUsernameProof(m.target) = one
      <4>1. PICK n : n \in One(m.type, m.fid, Slot(m))
        BY <3>3 DEF Found
      <4>2. n \in Stored /\ n.fid = m.fid /\ n.type = "add" /\ Slot(n) = Slot(m) /\ Indexed(n, db)
        BY <3>1, <4>1, StoredIs DEF One
      <4>3. DOMAIN SecondaryIndex(n) = {OwnerKey(Slot(n))}
        BY <2>8, OwnerEntry
      <4>4. SecondaryIndex(n)[OwnerKey(Slot(n))] = n.fid
        BY <2>8, OwnerValue
      <4>5. OwnerKey(Slot(n)) \in DOMAIN db /\ db[OwnerKey(Slot(n))] = n.fid
        BY <4>2, <4>3, <4>4 DEF Indexed
      <4>6. Get(OwnerKey(m.target)) = {m.fid}
        BY <3>1, <4>2, <4>5 DEF Get
      <4>7. (CHOOSE f \in Get(OwnerKey(m.target)) : TRUE) = m.fid
        BY <4>6
      <4> QED
        BY <2>2, <3>1, <4>6, <4>7 DEF GetUsernameProof
    <3> QED
      BY <1>4, <2>8, <3>2, <3>3
  <2> QED
    BY <1>2, <1>4, <2>4, <2>5, <2>6, <2>7, <2>8 DEF StoreDefs
<1>5. CASE m.type # "compact" /\ store = "link"
  <2>1. m.type \in {"add", "remove"} /\ Slot(m) = <<m.kind, m.target>>
    BY <1>2, <1>5 DEF Types, Slot, LinkSlot
  <2>2. GetLink(m.type, m.fid, m.kind, m.target) = one
    BY <1>5, <2>1, GetLinkIs
  <2> QED
    BY <1>5, <2>1, <2>2 DEF GetLinkAdd, GetLinkRemove
<1> QED
  BY <1>3, <1>4, <1>5

(* An index entry by target names a stored add.                            *)
LEMMA TargetEntry ==
    ASSUME TypeInv, Match(db), NEW k \in DOMAIN db, k[1] \in {"parent", "mention", "target"}
    PROVE  \E n \in Stored : /\ n.type = "add" /\ k \in DOMAIN SecondaryIndex(n) /\ db[k] = SecondaryIndex(n)[k]
                             /\ GetMessage(k[4], k[3]) = {n}
<1>1. StoreOK
  BY DEF TypeInv
<1>2. PICK n \in Held(db) : k \in DeleteKeys(n)
  BY DEF Match, Owned
<1>3. n \in All /\ n.type \in Types /\ Indexed(n, db)
  BY <1>1, HeldIs, MessageFacts DEF Match, TypeInv, DbOK, DbIs
<1>4. n.type = "add" /\ k \in DOMAIN SecondaryIndex(n) /\ SecondaryKey(n, k)
  BY <1>1, <1>2, <1>3, DeletedForm DEF CompactKey, MessageKey, SetKey, UnpaddedKey, Types
<1>5. k[3] = TsHash(n) /\ k[4] = n.fid
  BY <1>4 DEF SecondaryKey, OwnerKey
<1>6. n \in Stored
  BY <1>4, StoredIs
<1>7. GetMessage(k[4], k[3]) = {n}
  BY <1>5, <1>6, StoredIs
<1> QED
  BY <1>3, <1>4, <1>6, <1>7 DEF Indexed

\* the stored adds with an entry that is asked for
AddsIndexed(index, target, kind) ==
    {n \in Stored : n.type = "add" /\ \E k \in DOMAIN SecondaryIndex(n) :
                        k[1] = index /\ k[2] = target /\ (kind = 0 \/ SecondaryIndex(n)[k] = kind)}

(* A scan of a secondary index returns the adds it indexes, and meets no   *)
(* entry whose message is missing.                                         *)
LEMMA GetManyIs ==
    ASSUME TypeInv, Match(db), NEW index \in {"parent", "mention", "target"}, NEW target, NEW kind
    PROVE  GetMany(Entries(index, target, kind)) = Found(AddsIndexed(index, target, kind))
<1> DEFINE keys == Entries(index, target, kind)
           found == UNION {GetMessage(k[4], k[3]) : k \in keys}
<1>1. ASSUME NEW k \in keys
      PROVE  \E n \in AddsIndexed(index, target, kind) : GetMessage(k[4], k[3]) = {n}
  <2>1. k \in DOMAIN db /\ k[1] = index /\ k[2] = target /\ (kind = 0 \/ db[k] = kind)
    BY DEF Entries
  <2>2. PICK n \in Stored : /\ n.type = "add" /\ k \in DOMAIN SecondaryIndex(n) /\ db[k] = SecondaryIndex(n)[k]
                            /\ GetMessage(k[4], k[3]) = {n}
    BY <2>1, TargetEntry
  <2> QED
    BY <2>1, <2>2 DEF AddsIndexed
<1>2. ASSUME NEW n \in AddsIndexed(index, target, kind)
      PROVE  \E k \in keys : n \in GetMessage(k[4], k[3])
  <2>1. n \in Stored /\ n.type = "add"
    BY DEF AddsIndexed
  <2>2. PICK k \in DOMAIN SecondaryIndex(n) :
          k[1] = index /\ k[2] = target /\ (kind = 0 \/ SecondaryIndex(n)[k] = kind)
    BY DEF AddsIndexed
  <2>3. n \in All /\ Indexed(n, db) /\ GetMessage(n.fid, TsHash(n)) = {n}
    BY <2>1, StoredIs
  <2>4. k \in DOMAIN db /\ db[k] = SecondaryIndex(n)[k]
    BY <2>1, <2>3 DEF Indexed
  <2>5. k \in keys
    BY <2>2, <2>4 DEF Entries
  <2>6. k[3] = TsHash(n) /\ k[4] = n.fid
    BY <2>2, <2>3, SecondaryForm DEF OwnerKey, TypeInv
  <2> QED
    BY <2>3, <2>5, <2>6
<1> HIDE DEF keys
<1>3. found = AddsIndexed(index, target, kind)
  BY <1>1, <1>2
<1>4. \A k \in keys : GetMessage(k[4], k[3]) # {}
  BY <1>1
<1>5. GetMany(keys) = Found(found)
  BY <1>4 DEF GetMany
<1> QED
  BY <1>3, <1>5 DEF keys

(* A cast has an entry under its parent, and under no other target.        *)
LEMMA CastParentEntry ==
    ASSUME store = "cast", NEW n, NEW t, t # 0
    PROVE  (\E k \in DOMAIN SecondaryIndex(n) : k[1] = "parent" /\ k[2] = t) <=> n.target = t
<1>1. DOMAIN SecondaryIndex(n) = {<<"parent", n.target, TsHash(n), n.fid>> : p \in {n.target} \ {0}}
                                   \cup {<<"mention", x, TsHash(n), n.fid>> : x \in n.targets}
  BY DEF SecondaryIndex, CastIndex
<1>2. ASSUME NEW k \in DOMAIN SecondaryIndex(n)
      PROVE  \/ k[1] = "parent" /\ k[2] = n.target
             \/ k[1] = "mention" /\ k[2] \in n.targets
  BY <1>1
<1>3. n.target = t => \E k \in DOMAIN SecondaryIndex(n) : k[1] = "parent" /\ k[2] = t
  <2> SUFFICES ASSUME n.target = t PROVE \E k \in DOMAIN SecondaryIndex(n) : k[1] = "parent" /\ k[2] = t
    OBVIOUS
  <2> DEFINE k == <<"parent", n.target, TsHash(n), n.fid>>
  <2>1. k \in DOMAIN SecondaryIndex(n)
    BY <1>1
  <2>2. k[1] = "parent" /\ k[2] = t
    OBVIOUS
  <2> QED
    BY <2>1, <2>2
<1> QED
  BY <1>2, <1>3

(* The same for a mention: a cast has an entry under every fid it mentions. *)
LEMMA CastMentionEntry ==
    ASSUME store = "cast", NEW n, NEW t, t # 0
    PROVE  (\E k \in DOMAIN SecondaryIndex(n) : k[1] = "mention" /\ k[2] = t) <=> t \in n.targets
<1>1. DOMAIN SecondaryIndex(n) = {<<"parent", n.target, TsHash(n), n.fid>> : p \in {n.target} \ {0}}
                                   \cup {<<"mention", x, TsHash(n), n.fid>> : x \in n.targets}
  BY DEF SecondaryIndex, CastIndex
<1>2. ASSUME NEW k \in DOMAIN SecondaryIndex(n)
      PROVE  \/ k[1] = "parent" /\ k[2] = n.target
             \/ k[1] = "mention" /\ k[2] \in n.targets
  BY <1>1
<1>3. t \in n.targets => \E k \in DOMAIN SecondaryIndex(n) : k[1] = "mention" /\ k[2] = t
  <2> SUFFICES ASSUME t \in n.targets PROVE \E k \in DOMAIN SecondaryIndex(n) : k[1] = "mention" /\ k[2] = t
    OBVIOUS
  <2> DEFINE k == <<"mention", t, TsHash(n), n.fid>>
  <2>1. k \in DOMAIN SecondaryIndex(n)
    BY <1>1
  <2>2. k[1] = "mention" /\ k[2] = t
    OBVIOUS
  <2> QED
    BY <2>1, <2>2
<1> QED
  BY <1>2, <1>3

(* A link or a reaction has an entry under its target, with its kind as    *)
(* value.                                                                  *)
LEMMA TargetOf ==
    ASSUME store \in {"link", "reaction"}, NEW n, NEW t, NEW kind
    PROVE  (\E k \in DOMAIN SecondaryIndex(n) :
              k[1] = "target" /\ k[2] = t /\ (kind = 0 \/ SecondaryIndex(n)[k] = kind))
             <=> n.target = t /\ OfKind(n, kind)
<1> DEFINE k == <<"target", n.target, TsHash(n), n.fid>>
<1>1. SecondaryIndex(n) = Entry(k, n.kind)
  BY DEF SecondaryIndex, LinkIndex, ReactionIndex
<1>2. k[1] = "target" /\ k[2] = n.target
  OBVIOUS
<1> HIDE DEF k
<1>3. DOMAIN SecondaryIndex(n) = {k} /\ SecondaryIndex(n)[k] = n.kind
  BY <1>1 DEF Entry
<1> QED
  BY <1>2, <1>3 DEF OfKind

LEMMA TargetQueriesAreExact ==
    ASSUME TypeInv, Match(db)
    PROVE  TargetQueriesExact
<1>1. ASSUME NEW t, t # 0, store = "cast"
      PROVE  /\ ~MeetsLonger("parent", t, 0) =>
                   GetCastsByParent(t) = Found({m \in Stored : m.type = "add" /\ m.target = t})
             /\ GetCastsByMention(t) = Found({m \in Stored : m.type = "add" /\ t \in m.targets})
  <2>1. ASSUME NEW m
        PROVE  /\ m \in AddsIndexed("parent", t, 0) <=> m \in Stored /\ m.type = "add" /\ m.target = t
               /\ m \in AddsIndexed("mention", t, 0) <=> m \in Stored /\ m.type = "add" /\ t \in m.targets
    <3>1. (\E k \in DOMAIN SecondaryIndex(m) : k[1] = "parent" /\ k[2] = t) <=> m.target = t
      BY <1>1, CastParentEntry
    <3>2. (\E k \in DOMAIN SecondaryIndex(m) : k[1] = "mention" /\ k[2] = t) <=> t \in m.targets
      BY <1>1, CastMentionEntry
    <3> QED
      BY <3>1, <3>2 DEF AddsIndexed
  <2>2. /\ AddsIndexed("parent", t, 0) = {m \in Stored : m.type = "add" /\ m.target = t}
        /\ AddsIndexed("mention", t, 0) = {m \in Stored : m.type = "add" /\ t \in m.targets}
    BY <2>1
  <2>3. /\ GetMany(Entries("parent", t, 0)) = Found(AddsIndexed("parent", t, 0))
        /\ GetMany(Entries("mention", t, 0)) = Found(AddsIndexed("mention", t, 0))
    BY GetManyIs
  <2> QED
    BY <2>2, <2>3 DEF GetCastsByParent, GetByUrl, GetCastsByMention
<1>2. ASSUME NEW t, NEW k, store \in {"link", "reaction"}
      PROVE  GetMany(Entries("target", t, k)) = Found({m \in Stored : m.type = "add" /\ m.target = t /\ OfKind(m, k)})
  <2>1. ASSUME NEW m
        PROVE  m \in AddsIndexed("target", t, k) <=> m \in Stored /\ m.type = "add" /\ m.target = t /\ OfKind(m, k)
    <3>1. (\E x \in DOMAIN SecondaryIndex(m) :
             x[1] = "target" /\ x[2] = t /\ (k = 0 \/ SecondaryIndex(m)[x] = k)) <=> m.target = t /\ OfKind(m, k)
      BY <1>2, TargetOf
    <3> QED
      BY <3>1 DEF AddsIndexed
  <2>2. AddsIndexed("target", t, k) = {m \in Stored : m.type = "add" /\ m.target = t /\ OfKind(m, k)}
    BY <2>1
  <2> QED
    BY <2>2, GetManyIs
<1>3. ASSUME NEW t, NEW k, store = "reaction", ~MeetsLonger("target", t, k)
      PROVE  GetReactionsByTarget(t, k) = Found({m \in Stored : m.type = "add" /\ m.target = t /\ OfKind(m, k)})
  BY <1>2, <1>3 DEF GetReactionsByTarget, GetByUrl
<1>4. ASSUME NEW t, NEW k, store = "link"
      PROVE  GetLinksByTarget(t, k) = Found({m \in Stored : m.type = "add" /\ m.target = t /\ OfKind(m, k)})
  BY <1>2, <1>4 DEF GetLinksByTarget
<1> QED
  BY <1>1, <1>3, <1>4 DEF TargetQueriesExact, AddsWhere

LEMMA FidQueriesAreExact ==
    ASSUME TypeInv, Match(db)
    PROVE  FidQueriesExact
<1>1. ASSUME NEW fid, NEW k
      PROVE  GetAddsByFid(fid, k) = Found({m \in Stored : m.type = "add" /\ m.fid = fid /\ OfKind(m, k)})
  <2>1. \A m : m \in StoredBy(fid) <=> m \in Stored /\ m.fid = fid
    BY StoredIs
  <2>2. StoredBy(fid) \cap {m \in Stored : m.type = "add" /\ OfKind(m, k)}
          = {m \in Stored : m.type = "add" /\ m.fid = fid /\ OfKind(m, k)}
    BY <2>1
  <2> QED
    BY <2>2 DEF GetAddsByFid, PageWhere
<1>2. ASSUME NEW fid, NEW start, NEW stop
      PROVE  GetAllMessagesByFid(fid, start, stop).messages =
               {m \in GetAddsByFid(fid, 0).messages \cup GetRemovesByFid(fid, 0).messages : InTimeRange(m, start, stop)}
  <2> DEFINE Adds == {m \in StoredBy(fid) : m \in Stored /\ m.type = "add"}
             Removes == {m \in StoredBy(fid) : m \in Stored /\ m.type = "remove" /\ RemoveSupported}
             Both == {m \in StoredBy(fid) : m \in Stored /\ InTimeRange(m, start, stop)
                                              /\ (m.type = "add" \/ (RemoveSupported /\ m.type = "remove"))}
  <2>1. GetAddsByFid(fid, 0).messages = Adds
    BY DEF GetAddsByFid, PageWhere, Found, OfKind
  <2>2. GetRemovesByFid(fid, 0).messages = Removes
    BY DEF GetRemovesByFid, PageWhere, Found, Failed, OfKind
  <2>3. GetAllMessagesByFid(fid, start, stop).messages = Both
    BY DEF GetAllMessagesByFid, PageWhere, Found
  <2>4. Both = {m \in Adds \cup Removes : InTimeRange(m, start, stop)}
    OBVIOUS
  <2> HIDE DEF Adds, Removes, Both
  <2> QED
    BY <2>1, <2>2, <2>3, <2>4
<1> QED
  BY <1>1, <1>2 DEF FidQueriesExact, AddsWhere

(* Through every index, whichever of its keys a message was stored under,  *)
(* a query answers exactly the stored messages it asks for and never fails *)
(* on an entry left behind: until two operations meet.                     *)
THEOREM QueriesAlwaysExact == Spec => []QueriesExact
<1>1. TypeInv /\ IndexInv => LookupsExact /\ TargetQueriesExact /\ FidQueriesExact
  BY LookupsAreExact, TargetQueriesAreExact, FidQueriesAreExact DEF IndexInv
<1>2. TypeInv /\ SerialInv => QueriesExact
  BY <1>1 DEF SerialInv, Unmet, QueriesExact
<1> QED
  BY <1>2, IndexHolds, PTL

-----------------------------------------------------------------------------
(* The store as a set: what an operation reads *)

LEMMA HeldNow == held = Held(db)
BY DEF held, Held, Stored, Compacts, StoredIn, CompactsIn

LEMMA CompactOfIs ==
    ASSUME StoreOK, DbIs(db), NEW m \in All
    PROVE  CompactOf(m) = CompactsFor(m, Held(db))
<1>1. ASSUME NEW c \in CompactOf(m) PROVE c \in CompactsFor(m, Held(db))
  <2>1. CompactKey(m) \in DOMAIN db /\ c = db[CompactKey(m)] /\ CompactKey(m)[1] = "compact"
    BY DEF CompactOf, Get, CompactKey
  <2>2. c \in CompactsIn(db)
    BY <2>1 DEF CompactsIn
  <2>3. PICK n \in All : ValueOf(n, CompactKey(m), c)
    BY <2>1 DEF DbIs
  <2>4. n.type = "compact" /\ c = n /\ CompactKey(m) = HoldKey(n)
    BY <2>1, <2>3, ValueForm
  <2>5. c.fid = m.fid /\ c.kind = m.kind
    BY <2>4 DEF HoldKey, CompactKey
  <2> QED
    BY <2>2, <2>4, <2>5 DEF Held, CompactsFor
<1>2. ASSUME NEW c \in CompactsFor(m, Held(db)) PROVE c \in CompactOf(m)
  <2>1. c \in Held(db) /\ c.type = "compact" /\ c.fid = m.fid /\ c.kind = m.kind
    BY DEF CompactsFor
  <2>2. c \in All /\ HoldKey(c) \in DOMAIN db /\ db[HoldKey(c)] = c
    BY <2>1, HeldIs
  <2>3. HoldKey(c) = CompactKey(m) /\ store = "link"
    BY <2>1, <2>2, MessageFacts DEF HoldKey, CompactKey
  <2> QED
    BY <2>2, <2>3 DEF CompactOf, Get
<1> QED
  BY <1>1, <1>2

LEMMA StoredByIs ==
    ASSUME StoreOK, DbIs(db), NEW fid
    PROVE  StoredBy(fid) = MessagesOf(fid, Held(db))
<1>1. ASSUME NEW s \in StoredBy(fid) PROVE s \in MessagesOf(fid, Held(db))
  <2>1. s \in Held(db) /\ s.fid = fid
    BY StoredByForm
  <2>2. s \in StoredIn(db)
    BY DEF StoredBy, StoredIn
  <2> QED
    BY <2>1, <2>2, HeldForm DEF MessagesOf
<1>2. ASSUME NEW s \in MessagesOf(fid, Held(db)) PROVE s \in StoredBy(fid)
  <2>1. s \in Held(db) /\ s.type # "compact" /\ s.fid = fid
    BY DEF MessagesOf
  <2>2. HoldKey(s) \in DOMAIN db /\ db[HoldKey(s)] = s
    BY <2>1, HeldIs
  <2>3. HoldKey(s)[1] = "message" /\ HoldKey(s)[2] = fid
    BY <2>1 DEF HoldKey, MessageKey
  <2> QED
    BY <2>2, <2>3 DEF StoredBy
<1> QED
  BY <1>1, <1>2

(* The messages get_merge_conflicts returns are the contenders.            *)
LEMMA ContendersAre ==
    ASSUME StoreOK, DbIs(db), NEW m \in All, m.type # "compact"
    PROVE  Contenders(m, Held(db)) = {n \in Held(db) : Clash(n, m)}
<1>1. ASSUME NEW n \in Held(db) PROVE (n.type # "compact" /\ Collide(m, n)) <=> Clash(n, m)
  <2>1. n.type # "compact" => (Collide(m, n) <=> Clash(m, n))
    BY CollideIs
  <2>2. Clash(m, n) <=> Clash(n, m)
    BY ClashSame
  <2>3. n.type = "compact" => ~Clash(n, m)
    BY DEF Clash
  <2> QED
    BY <2>1, <2>2, <2>3
<1> QED
  BY <1>1 DEF Contenders

\* what a merge deletes is what gives way to its message
LEMMA ReplacedIs ==
    ASSUME StoreOK, DbIs(db), Match(db), NEW m \in All
    PROVE  Replaced(m) = GivesWay(m, Held(db))
<1>1. CASE m.type # "compact"
  BY <1>1, ConflictsAre, ContendersAre DEF Replaced, GivesWay
<1>2. CASE m.type = "compact"
  <2>1. Replaced(m) = CompactOf(m) \cup
           {s \in StoredBy(m.fid) : s.time <= m.time /\ (s.type = "add" => s.target \notin m.targets)}
    BY <1>2, Zenon DEF Replaced
  <2>2. {s \in StoredBy(m.fid) : s.time <= m.time /\ (s.type = "add" => s.target \notin m.targets)} = Swept(m, Held(db))
    BY StoredByIs DEF Swept, MessagesOf
  <2>3. GivesWay(m, Held(db)) = CompactsFor(m, Held(db)) \cup Swept(m, Held(db))
    BY <1>2 DEF GivesWay
  <2> QED
    BY <2>1, <2>2, <2>3, CompactOfIs
<1> QED
  BY <1>1, <1>2

LEMMA AcceptsIs ==
    ASSUME StoreOK, DbIs(db), Match(db), NEW m \in All, m.type # "compact"
    PROVE  Accepts(m) <=> \A n \in Contenders(m, Held(db)) : Outranks(m, n)
<1>1. Contenders(m, Held(db)) = {n \in Held(db) : Clash(n, m)}
  BY ContendersAre
<1>2. ASSUME Accepts(m), NEW n \in Contenders(m, Held(db)) PROVE Outranks(m, n)
  <2>1. n \in Held(db) /\ Clash(n, m) /\ n \in All
    BY <1>1, HeldIs
  <2>2. n.type # "compact" /\ Below(n.type, TsHash(n), m.type, TsHash(m))
    BY <1>2, <2>1, AcceptedOver
  <2> QED
    BY <2>1, <2>2, BelowIs
<1>3. ASSUME ~Accepts(m) PROVE \E n \in Contenders(m, Held(db)) : ~Outranks(m, n)
  <2>1. PICK n \in Held(db) : /\ n \in All /\ n.type # "compact" /\ Clash(n, m)
                              /\ ~Below(n.type, TsHash(n), m.type, TsHash(m))
    BY <1>3, RejectedBy
  <2>2. ~Outranks(m, n)
    BY <2>1, BelowIs
  <2> QED
    BY <1>1, <2>1, <2>2
<1> QED
  BY <1>2, <1>3

\* merge decides on the set
LEMMA MergedIs ==
    ASSUME StoreOK, DbIs(db), Match(db), NEW m \in All
    PROVE  Merged(m) <=> Admissible(m, Held(db))
<1>1. m.type \in Types /\ m.time \in Nat
  BY MessageFacts
<1>2. CompactOf(m) = CompactsFor(m, Held(db))
  BY CompactOfIs
<1>3. \A c \in CompactsFor(m, Held(db)) : c.time \in Nat
  BY HeldIs, MessageFacts DEF CompactsFor
<1>4. CASE m.type = "compact"
  BY <1>2, <1>4 DEF Merged, MergeCompact, Admissible
<1>5. CASE m.type = "add"
  <2>1. Merged(m) <=> (\A c \in CompactsFor(m, Held(db)) : m.time < c.time => m.target \in c.targets) /\ Accepts(m)
    BY <1>2, <1>5 DEF Merged, MergeAdd
  <2> QED
    BY <1>5, <2>1, AcceptsIs DEF Admissible
<1>6. CASE m.type = "remove"
  <2>1. Merged(m) <=> (\A c \in CompactsFor(m, Held(db)) : m.time >= c.time) /\ Accepts(m)
    BY <1>2, <1>6 DEF Merged, MergeRemove
  <2>2. Admissible(m, Held(db)) <=>
          /\ \A n \in Contenders(m, Held(db)) : Outranks(m, n)
          /\ \A c \in CompactsFor(m, Held(db)) : ~(m.time < c.time)
    BY <1>6 DEF Admissible
  <2> QED
    BY <1>1, <1>3, <1>6, <2>1, <2>2, AcceptsIs
<1> QED
  BY <1>1, <1>4, <1>5, <1>6 DEF Types

(* get_merge_conflicts reads a handful of index entries.  They are enough: *)
(* in every state, merge admits exactly the messages that outrank all      *)
(* stored ones about the same thing and that no compact state excludes.    *)
MergeExact == \A m \in Messages[store] : Merged(m) <=> Admissible(m, held)

(* The index entries merge reads are enough: it admits exactly the         *)
(* messages that outrank all stored ones about the same thing and that no  *)
(* compact state excludes, until two operations meet.                      *)
THEOREM MergeAlwaysExact == Spec => [](~raced => MergeExact)
<1>1. TypeInv /\ IndexInv => MergeExact
  <2> SUFFICES ASSUME TypeInv, IndexInv, NEW m \in Messages[store]
               PROVE  Merged(m) <=> Admissible(m, held)
    BY DEF MergeExact
  <2>1. StoreOK /\ DbIs(db) /\ Match(db) /\ m \in All
    BY DEF TypeInv, DbOK, DbIs, IndexInv, All
  <2>2. Merged(m) <=> Admissible(m, Held(db))
    BY <2>1, MergedIs
  <2> QED
    BY <2>2, HeldNow
<1>2. TypeInv /\ SerialInv => (~raced => MergeExact)
  BY <1>1 DEF SerialInv
<1> QED
  BY <1>2, IndexHolds, PTL

-----------------------------------------------------------------------------
(* The store as a set: what an operation read is still true when it        *)
(* commits.                                                                *)

(* The batch of a thread is the one of its operation on what is held now.  *)
PendingMerge(w, H, m) == w.fid = m.fid /\ Admissible(m, H) /\ w.txn = Putting(m, GivesWay(m, H))
PendingRevoke(w, H, m) == w.fid = m.fid /\ m \in H /\ w.txn = DeleteMany({m})
PendingPrune(w, H, m) ==
    /\ w.fid = m.fid /\ m \in H
    /\ \E excess \in 1..MaxPrune : w.txn = DeleteMany(Oldest(m.fid, excess, H))

PendingAtomic(w, H) ==
    w.busy => \/ \E m \in Messages[store] : PendingMerge(w, H, m)
              \/ \E m \in All : PendingRevoke(w, H, m) \/ PendingPrune(w, H, m)

AtomicInv == \A t \in Thread : PendingAtomic(thr[t], Held(db))

\* H and G hold the same messages of the fid of w, and about what w touches
Alike(H, G, w) ==
    /\ H \subseteq All /\ G \subseteq All
    /\ \A n \in All : n.fid = w.fid => (n \in H <=> n \in G)
    /\ \A n, m \in All : Touches(w, m) /\ Clash(n, m) => (n \in H <=> n \in G)

(* What an operation reads are messages of its fid, and those in conflict  *)
(* with the message it merges.                                             *)
LEMMA ReadsOfFid ==
    ASSUME StoreOK, NEW m \in All, NEW H, NEW G, NEW w, w.fid = m.fid, Alike(H, G, w)
    PROVE  /\ CompactsFor(m, H) = CompactsFor(m, G)
           /\ Swept(m, H) = Swept(m, G)
           /\ MessagesOf(m.fid, H) = MessagesOf(m.fid, G)
<1>1. \A n \in All : n.fid = m.fid => (n \in H <=> n \in G)
  BY DEF Alike
<1>2. H \subseteq All /\ G \subseteq All
  BY DEF Alike
<1>3. CompactsFor(m, H) = CompactsFor(m, G)
  BY <1>1, <1>2 DEF CompactsFor
<1>4. Swept(m, H) = Swept(m, G)
  BY <1>1, <1>2 DEF Swept
<1>5. MessagesOf(m.fid, H) = MessagesOf(m.fid, G)
  BY <1>1, <1>2 DEF MessagesOf
<1> QED
  BY <1>3, <1>4, <1>5

LEMMA ReadsContenders ==
    ASSUME StoreOK, NEW m \in All, m.type # "compact", NEW H, NEW G, NEW w, Touches(w, m), Alike(H, G, w)
    PROVE  Contenders(m, H) = Contenders(m, G)
<1>1. H \subseteq All /\ G \subseteq All
  BY DEF Alike
<1>2. ASSUME NEW n \in All, n.type # "compact", Collide(m, n) PROVE n \in H <=> n \in G
  <2>1. Clash(n, m)
    BY <1>2, CollideIs, ClashSame
  <2> QED
    BY <2>1 DEF Alike
<1> QED
  BY <1>1, <1>2 DEF Contenders

LEMMA OldestAlike ==
    ASSUME NEW fid, NEW excess, NEW H, NEW G, MessagesOf(fid, H) = MessagesOf(fid, G)
    PROVE  Oldest(fid, excess, H) = Oldest(fid, excess, G)
BY Zenon DEF Oldest

LEMMA AtomicAlike ==
    ASSUME StoreOK, NEW w, NEW H, NEW G, Alike(H, G, w), PendingAtomic(w, H)
    PROVE  PendingAtomic(w, G)
<1>1. ASSUME NEW m \in Messages[store], PendingMerge(w, H, m) PROVE PendingMerge(w, G, m)
  <2>1. m \in All /\ w.fid = m.fid /\ Admissible(m, H) /\ w.txn = Putting(m, GivesWay(m, H))
    BY <1>1 DEF PendingMerge, All
  <2>2. CompactsFor(m, H) = CompactsFor(m, G)
    BY <2>1, ReadsOfFid
  <2>3. Contenders(m, H) = Contenders(m, G) \/ m.type = "compact"
    <3>1. DOMAIN Index(m) \subseteq DOMAIN w.txn
      BY <2>1, BatchKeys
    <3> QED
      BY <2>1, <3>1, TouchesPut, ReadsContenders
  <2>4. Swept(m, H) = Swept(m, G)
    BY <2>1, ReadsOfFid
  <2>5. GivesWay(m, H) = GivesWay(m, G)
    BY <2>2, <2>3, <2>4 DEF GivesWay
  <2>6. Admissible(m, G)
    BY <2>1, <2>2, <2>3 DEF Admissible
  <2> QED
    BY <2>1, <2>5, <2>6 DEF PendingMerge
<1>2. ASSUME NEW m \in All, PendingRevoke(w, H, m) PROVE PendingRevoke(w, G, m)
  BY <1>2 DEF PendingRevoke, Alike
<1>3. ASSUME NEW m \in All, PendingPrune(w, H, m) PROVE PendingPrune(w, G, m)
  <2>1. w.fid = m.fid /\ m \in H
    BY <1>3 DEF PendingPrune
  <2>2. m \in G
    BY <2>1 DEF Alike
  <2>3. MessagesOf(m.fid, H) = MessagesOf(m.fid, G)
    BY <2>1, ReadsOfFid
  <2>4. PICK excess \in 1..MaxPrune : w.txn = DeleteMany(Oldest(m.fid, excess, H))
    BY <1>3 DEF PendingPrune
  <2>5. Oldest(m.fid, excess, H) = Oldest(m.fid, excess, G)
    BY <2>3, OldestAlike
  <2> QED
    BY <2>1, <2>2, <2>4, <2>5 DEF PendingPrune
<1> QED
  BY <1>1, <1>2, <1>3 DEF PendingAtomic

LEMMA AtomicKept ==
    ASSUME store' = store, NEW w, NEW H, PendingAtomic(w, H)
    PROVE  PendingAtomic(w, H)'
<1>1. \A C : DeleteMany(C)' = DeleteMany(C)
  BY SameStore DEF DeleteMany, Erase
<1>2. ASSUME NEW m, NEW C PROVE Putting(m, C)' = Putting(m, C)
  <2>1. Index(m)' = Index(m)
    BY SameStore
  <2> QED
    BY <1>1, <2>1 DEF Putting, Over, Puts
<1>3. All' = All
  BY DEF All
<1>4. ASSUME NEW m, NEW n PROVE (Collide(m, n)' <=> Collide(m, n)) /\ (Outranks(m, n)' <=> Outranks(m, n))
  <2>1. Rank(m)' = Rank(m) /\ Rank(n)' = Rank(n)
    BY DEF Rank
  <2>2. Slot(m)' = Slot(m) /\ Slot(n)' = Slot(n)
    BY SameStore
  <2> QED
    BY <2>1, <2>2 DEF Outranks, Collide
<1>5. ASSUME NEW m PROVE Contenders(m, H)' = Contenders(m, H) /\ CompactsFor(m, H)' = CompactsFor(m, H)
  BY <1>4 DEF Contenders, CompactsFor
<1>6. ASSUME NEW m PROVE Swept(m, H)' = Swept(m, H)
  BY DEF Swept
<1>7. ASSUME NEW m PROVE Admissible(m, H)' <=> Admissible(m, H)
  BY <1>4, <1>5 DEF Admissible
<1>8. ASSUME NEW m PROVE GivesWay(m, H)' = GivesWay(m, H)
  BY <1>5, <1>6 DEF GivesWay
<1>9. ASSUME NEW m, PendingMerge(w, H, m) PROVE PendingMerge(w, H, m)'
  BY <1>2, <1>7, <1>8, <1>9 DEF PendingMerge
<1>10. ASSUME NEW m, PendingRevoke(w, H, m) PROVE PendingRevoke(w, H, m)'
  BY <1>1, <1>10 DEF PendingRevoke
<1>11. ASSUME NEW m, PendingPrune(w, H, m) PROVE PendingPrune(w, H, m)'
  <2>1. \A excess : Oldest(m.fid, excess, H)' = Oldest(m.fid, excess, H)
    BY Zenon DEF Oldest, MessagesOf, TsLess, TsHash
  <2> QED
    BY <1>1, <1>11, <2>1 DEF PendingPrune
<1> QED
  BY <1>3, <1>9, <1>10, <1>11 DEF PendingAtomic

(* What gives way is held and includes all that is about the same thing.   *)
LEMMA GivesWayForm ==
    ASSUME StoreOK, DbIs(db), NEW m \in All
    PROVE  /\ GivesWay(m, Held(db)) \in SUBSET Held(db)
           /\ \A n \in Held(db) : Clash(n, m) => n \in GivesWay(m, Held(db))
<1>1. CASE m.type # "compact"
  <2>1. GivesWay(m, Held(db)) = {n \in Held(db) : Clash(n, m)}
    BY <1>1, ContendersAre DEF GivesWay
  <2> QED
    BY <2>1
<1>2. CASE m.type = "compact"
  <2>1. GivesWay(m, Held(db)) = CompactsFor(m, Held(db)) \cup Swept(m, Held(db))
    BY <1>2 DEF GivesWay
  <2>2. ASSUME NEW n \in Held(db), Clash(n, m) PROVE n \in CompactsFor(m, Held(db))
    BY <1>2, <2>2 DEF Clash, CompactKey, CompactsFor
  <2>3. \A n \in CompactsFor(m, Held(db)) \cup Swept(m, Held(db)) : n \in Held(db)
    BY DEF CompactsFor, Swept
  <2> QED
    BY <2>1, <2>2, <2>3
<1> QED
  BY <1>1, <1>2

(* A commit is the atomic step of its operation, and concerns the messages *)
(* its batch touches only.                                                 *)
LEMMA AtomicCommit ==
    ASSUME TypeInv, IndexInv, AtomicInv, NEW t \in Thread, Commit(t), DbIs(db')
    PROVE  /\ AtomicStep
           /\ \A n \in All : ~Touches(thr[t], n) => (n \in Held(db) <=> n \in Held(db'))
<1> DEFINE Local == \A n \in All : ~Touches(thr[t], n) => (n \in Held(db) <=> n \in Held(db'))
<1>1. StoreOK /\ DbIs(db) /\ Match(db)
  BY DEF TypeInv, DbOK, DbIs, IndexInv
<1>2. thr[t].busy /\ db' = Written(db, thr[t].txn) /\ store' = store
  BY CommitIs
<1>3. held = Held(db) /\ held' = Held(db')
  BY DEF held, Held, Stored, Compacts, StoredIn, CompactsIn
<1>9. Held(db) \subseteq All
  BY <1>1, HeldIs
<1>4. ASSUME NEW m \in Messages[store], PendingMerge(thr[t], Held(db), m) PROVE AtomicStep /\ Local
  <2> DEFINE C == GivesWay(m, Held(db))
  <2>1. m \in All /\ thr[t].fid = m.fid /\ Admissible(m, Held(db)) /\ thr[t].txn = Putting(m, C)
    BY <1>4 DEF PendingMerge, All
  <2>2. C \in SUBSET Held(db) /\ \A n \in Held(db) : Clash(n, m) => n \in C
    BY <1>1, <2>1, GivesWayForm
  <2> HIDE DEF C
  <2>3. Touches(thr[t], m) /\ \A n \in C : Touches(thr[t], n)
    BY <1>1, <1>9, <2>1, <2>2, BatchTouches
  <2>4. Held(db') = (Held(db) \ C) \cup {m}
    BY <1>1, <1>2, <2>1, <2>2, MatchPuts
  <2>5. AtomicMerge(m)
    BY <1>3, <2>1, <2>4 DEF AtomicMerge, C
  <2>6. Local
    BY <2>3, <2>4
  <2> QED
    BY <2>5, <2>6 DEF AtomicStep
<1>5. ASSUME NEW m \in All, PendingRevoke(thr[t], Held(db), m) PROVE AtomicStep /\ Local
  <2>1. thr[t].fid = m.fid /\ m \in Held(db) /\ thr[t].txn = DeleteMany({m})
    BY <1>5 DEF PendingRevoke
  <2>2. {m} \in SUBSET Held(db)
    BY <2>1
  <2>3. Held(db') = Held(db) \ {m}
    BY <1>1, <1>2, <2>1, <2>2, MatchDeletes
  <2>4. m \in held /\ AtomicRevoke(m)
    BY <1>3, <2>1, <2>3 DEF AtomicRevoke
  <2>5. Local
    <3>1. \A n \in {m} : Touches(thr[t], n)
      BY <1>1, <1>9, <2>1, <2>2, BatchTouches
    <3> QED
      BY <2>3, <3>1
  <2> QED
    BY <2>4, <2>5 DEF AtomicStep
<1>6. ASSUME NEW m \in All, PendingPrune(thr[t], Held(db), m) PROVE AtomicStep /\ Local
  <2>1. thr[t].fid = m.fid /\ m \in Held(db)
    BY <1>6 DEF PendingPrune
  <2>2. PICK excess \in 1..MaxPrune : thr[t].txn = DeleteMany(Oldest(m.fid, excess, Held(db)))
    BY <1>6 DEF PendingPrune
  <2> DEFINE C == Oldest(m.fid, excess, Held(db))
  <2>3. C \in SUBSET Held(db) /\ \A n \in C : n.fid = m.fid
    BY DEF Oldest, MessagesOf
  <2> HIDE DEF C
  <2>4. Held(db') = Held(db) \ C
    BY <1>1, <1>2, <2>2, <2>3, MatchDeletes DEF C
  <2>5. m \in held /\ AtomicPrune(m.fid, excess)
    BY <1>3, <2>1, <2>4 DEF AtomicPrune, C
  <2>6. Local
    <3>1. \A n \in C : Touches(thr[t], n)
      BY <1>1, <1>9, <2>2, <2>3, BatchTouches DEF C
    <3> QED
      BY <2>4, <3>1
  <2> QED
    BY <2>5, <2>6 DEF AtomicStep
<1>7. PendingAtomic(thr[t], Held(db))
  BY DEF AtomicInv
<1> HIDE DEF Local
<1>8. AtomicStep /\ Local
  BY <1>2, <1>4, <1>5, <1>6, <1>7 DEF PendingAtomic
<1> QED
  BY <1>8 DEF Local

LEMMA AtomicInvStep ==
    ASSUME ~raced', TypeInv, IndexInv, AtomicInv, [Next]_vars
    PROVE  AtomicInv'
<1>1. store' = store /\ StoreOK
  BY StepKinds DEF Begins, Commit, TypeInv
<1>2. TypeInv'
  BY TypeStep
<1>3. DbIs(db) /\ DbIs(db') /\ Match(db)
  BY <1>1, <1>2, SameStore, ValueKept DEF TypeInv, DbOK, DbIs, IndexInv
<1>4. SUFFICES \A u \in Thread : PendingAtomic(thr'[u], Held(db'))
  <2>1. ASSUME NEW u \in Thread, PendingAtomic(thr'[u], Held(db')) PROVE PendingAtomic(thr[u], Held(db))'
    <3>1. Held(db)' = Held(db')
      BY DEF Held, StoredIn, CompactsIn
    <3> QED
      BY <1>1, <2>1, <3>1, AtomicKept DEF PendingAtomic
  <2> QED
    BY <2>1 DEF AtomicInv
<1>5. CASE UNCHANGED <<db, thr>>
  BY <1>5 DEF AtomicInv
<1>6. ASSUME NEW t \in Thread, NEW w, Begins(t, w), PendingAtomic(w, Held(db))
      PROVE  \A u \in Thread : PendingAtomic(thr'[u], Held(db'))
  <2>1. db' = db /\ thr'[t] = w /\ \A u \in Thread \ {t} : thr'[u] = thr[u]
    BY <1>6, BeginsThreads DEF TypeInv, Begins
  <2> QED
    BY <1>6, <2>1 DEF AtomicInv
<1>7. ASSUME NEW t \in Thread, NEW m \in Messages[store], Merge(t, m), NEW w,
             w = Under(m.fid, TRUE, Putting(m, Replaced(m))), Begins(t, w)
      PROVE  \A u \in Thread : PendingAtomic(thr'[u], Held(db'))
  <2>1. w.fid = m.fid /\ w.txn = Putting(m, Replaced(m)) /\ m \in All
    BY <1>7, Zenon DEF Under, All
  <2>2. Replaced(m) = GivesWay(m, Held(db))
    BY <1>1, <1>3, <2>1, ReplacedIs
  <2>3. Admissible(m, Held(db))
    BY <1>1, <1>3, <1>7, <2>1, MergedIs DEF Merge
  <2>4. PendingMerge(w, Held(db), m)
    BY <2>1, <2>2, <2>3 DEF PendingMerge
  <2> QED
    BY <1>6, <1>7, <2>4 DEF PendingAtomic
<1>8. ASSUME NEW t \in Thread, NEW m \in All, Revoke(t, m), NEW w,
             w = Under(m.fid, FALSE, DeleteMany({m})), Begins(t, w)
      PROVE  \A u \in Thread : PendingAtomic(thr'[u], Held(db'))
  <2>1. w.fid = m.fid /\ w.txn = DeleteMany({m})
    BY <1>8, Zenon DEF Under
  <2>3. m \in Held(db)
    BY <1>8 DEF Revoke, Begin, Held, Stored, Compacts, StoredIn, CompactsIn
  <2>4. PendingRevoke(w, Held(db), m)
    BY <2>1, <2>3 DEF PendingRevoke
  <2> QED
    BY <1>6, <1>8, <2>4 DEF PendingAtomic
<1>9. ASSUME NEW t \in Thread, NEW fid, NEW C \in SUBSET StoredBy(fid), Pruned(fid, C), NEW w,
             w = Under(fid, FALSE, DeleteMany(C)), Begins(t, w)
      PROVE  \A u \in Thread : PendingAtomic(thr'[u], Held(db'))
  <2>1. w.fid = fid /\ w.txn = DeleteMany(C)
    BY <1>9, Zenon DEF Under
  <2>2. PICK m \in C : TRUE
    BY <1>9 DEF Pruned
  <2>3. m \in Held(db) /\ m.fid = fid
    BY <1>1, <1>3, StoredByForm
  <2>4. m \in All
    BY <1>1, <1>3, <2>3, HeldIs
  <2>5. PICK excess \in 1..MaxPrune :
          C = {n \in StoredBy(fid) :
                 Cardinality({s \in StoredBy(fid) : TsLess(TsHash(s), TsHash(n))}) < excess}
    BY <1>9 DEF Pruned
  <2>6. C = Oldest(fid, excess, Held(db))
    <3>1. StoredBy(fid) = MessagesOf(fid, Held(db))
      BY <1>1, <1>3, StoredByIs
    <3> QED
      BY <2>5, <3>1, Zenon DEF Oldest
  <2>7. PendingPrune(w, Held(db), m)
    BY <2>1, <2>3, <2>6 DEF PendingPrune
  <2> QED
    BY <1>6, <1>9, <2>4, <2>7 DEF PendingAtomic
<1>10. ASSUME NEW t \in Thread, Commit(t)
       PROVE  \A u \in Thread : PendingAtomic(thr'[u], Held(db'))
  <2>1. thr[t].busy /\ thr'[t] = Idle /\ \A u \in Thread \ {t} : thr'[u] = thr[u]
    BY <1>10, CommitIs
  <2>2. \A n \in All : ~Touches(thr[t], n) => (n \in Held(db) <=> n \in Held(db'))
    BY <1>3, <1>10, AtomicCommit
  <2>3. Held(db) \subseteq All /\ Held(db') \subseteq All
    BY <1>1, <1>3, HeldIs
  <2>4. ASSUME NEW u \in Thread \ {t} PROVE PendingAtomic(thr[u], Held(db'))
    <3>1. CASE thr[u].busy
      <4>1. ~Meet(thr[u], thr[t]) /\ thr[u].fid \in FidsOf(thr[u])
        BY DEF IndexInv, NoMeet, FidsOf
      <4>2. Alike(Held(db), Held(db'), thr[u])
        <5>1. ASSUME NEW n \in All, n.fid = thr[u].fid PROVE ~Touches(thr[t], n)
          BY <2>1, <3>1, <4>1, <5>1, Apart
        <5>2. ASSUME NEW n \in All, NEW m \in All, Touches(thr[u], m), Clash(n, m) PROVE ~Touches(thr[t], n)
          BY <2>1, <3>1, <4>1, <5>2, Apart
        <5> QED
          BY <2>2, <2>3, <5>1, <5>2 DEF Alike
      <4>3. PendingAtomic(thr[u], Held(db))
        BY DEF AtomicInv
      <4> QED
        BY <1>1, <4>2, <4>3, AtomicAlike
    <3>2. CASE ~thr[u].busy
      BY <3>2 DEF PendingAtomic
    <3> QED
      BY <3>1, <3>2
  <2>5. PendingAtomic(Idle, Held(db'))
    BY DEF PendingAtomic, Idle
  <2> QED
    BY <2>1, <2>4, <2>5
<1> QED
  BY <1>5, <1>7, <1>8, <1>9, <1>10, StepKinds

LEMMA AtomicSteps ==
    ASSUME TypeInv, IndexInv, AtomicInv, [Next]_vars
    PROVE  [AtomicStep]_held
<1>1. TypeInv' /\ store' = store
  BY TypeStep, StepKinds DEF Begins, Commit
<1>2. DbIs(db')
  BY <1>1, SameStore, ValueKept DEF TypeInv, DbOK, DbIs
<1>3. CASE db' = db
  BY <1>3 DEF held, Stored, Compacts
<1>4. ASSUME NEW t \in Thread, Commit(t) PROVE AtomicStep
  BY <1>2, <1>4, AtomicCommit
<1> QED
  BY <1>3, <1>4, StepKinds DEF Begins

(* Merges of casts, links, compact states, reactions and user data are     *)
(* atomic, however their reads and commits interleave: each commit does to *)
(* the set of messages held what its operation would have done at that     *)
(* moment.  In every store all operations are, until two of them meet.     *)
THEOREM StoreIsAtomic == Spec => AtomicStore
<1> DEFINE Inv == ~raced => AtomicInv
<1>1. Init => Inv
  BY DEF Init, AtomicInv, PendingAtomic, Idle
<1>2. TypeInv /\ SerialInv /\ Inv /\ [Next]_vars => Inv'
  <2> SUFFICES ASSUME TypeInv, SerialInv, Inv, [Next]_vars, ~raced'
               PROVE  AtomicInv'
    OBVIOUS
  <2>1. ~raced
    BY StepKinds DEF Begins, Commit
  <2> QED
    BY <2>1, AtomicInvStep DEF SerialInv
<1>3. TypeInv /\ SerialInv /\ Inv /\ [Next]_vars => [(Exposed /\ raced) \/ AtomicStep]_held
  <2> SUFFICES ASSUME TypeInv, SerialInv, Inv, [Next]_vars, ~raced
               PROVE  [AtomicStep]_held
    BY DEF SerialInv, Unmet
  <2> QED
    BY AtomicSteps DEF SerialInv
<1> QED
  BY <1>1, <1>2, <1>3, IndexHolds, PTL DEF Spec, AtomicStore
=============================================================================
