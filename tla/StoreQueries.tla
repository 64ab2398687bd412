---------------------------- MODULE StoreQueries ----------------------------
(***************************************************************************)
(* The queries of the message stores.  Each reads index entries and then   *)
(* the messages they name; here between two commits, so the answer is a    *)
(* function of db.  A page holds every entry: the paging of the iterators  *)
(* is in BlockSync.                                                        *)
(***************************************************************************)
EXTENDS MessageStore

CONSTANT Extends    \* <<t, u>>: the key bytes of target u begin with those of t

ASSUME ExtendsProper == \A e \in Extends : e[1] # e[2]

\* an answer, Ok or Err
Found(ms) == [ok |-> TRUE, messages |-> ms]
Failed == [ok |-> FALSE, messages |-> {}]

-----------------------------------------------------------------------------
(* One message, through the sets of adds and removes *)

\* the message an entry names, if there are both
Named(fid, key) == UNION {GetMessage(fid, ts) : ts \in Get(key)}

GetAdd(fid, slot) == Found(Named(fid, SetKey("add", fid, slot)))
GetRemove(fid, slot) ==
    IF RemoveSupported THEN Found(Named(fid, SetKey("remove", fid, slot))) ELSE Failed

\* the unpadded key if the padded one gave nothing
GetLink(type, fid, kind, target) ==
    LET slot == <<kind, target>>
        padded == Named(fid, SetKey(type, fid, slot))
    IN Found(IF padded # {} THEN padded ELSE Named(fid, UnpaddedKey(type, fid, slot)))

GetLinkAdd(fid, kind, target) == GetLink("add", fid, kind, target)
GetLinkRemove(fid, kind, target) == GetLink("remove", fid, kind, target)
GetCastAdd(fid, hash) == GetAdd(fid, hash)
GetCastRemove(fid, hash) == GetRemove(fid, hash)
GetReactionAdd(fid, kind, target) == GetAdd(fid, <<kind, target>>)
GetReactionRemove(fid, kind, target) == GetRemove(fid, <<kind, target>>)
GetUserDataAdd(fid, kind) == GetAdd(fid, kind)
GetVerificationAdd(fid, address) == GetAdd(fid, address)
GetVerificationRemove(fid, address) == GetRemove(fid, address)
GetUsernameProofByFidAndName(fid, name) == GetAdd(fid, name)

\* get_username_proof: by the owner's fid
GetUsernameProof(name) ==
    IF Get(OwnerKey(name)) = {} THEN Failed
    ELSE GetAdd(CHOOSE f \in Get(OwnerKey(name)) : TRUE, name)

-----------------------------------------------------------------------------
(* The messages of a fid, through the primary keys *)

\* get_messages_page_by_prefix
PageWhere(fid, wanted) == Found(StoredBy(fid) \cap wanted)

\* the filter of links and reactions; kind 0 asks for any
OfKind(m, kind) == kind = 0 \/ m.kind = kind
InTimeRange(m, start, stop) == m.time \in start..stop

GetAddsByFid(fid, kind) == PageWhere(fid, {m \in Stored : m.type = "add" /\ OfKind(m, kind)})
GetRemovesByFid(fid, kind) ==
    IF RemoveSupported THEN PageWhere(fid, {m \in Stored : m.type = "remove" /\ OfKind(m, kind)})
    ELSE Failed
GetAllMessagesByFid(fid, start, stop) ==
    PageWhere(fid, {m \in Stored : InTimeRange(m, start, stop)
                                      /\ (m.type = "add" \/ (RemoveSupported /\ m.type = "remove"))})

\* get_compact_state_messages_by_fid
GetCompactsByFid(fid) ==
    IF store = "link" THEN Found({c \in Compacts : c.fid = fid}) ELSE Failed

-----------------------------------------------------------------------------
(* The adds about a target, through the secondary indices *)

(* get_many_messages_as_bytes of the primary keys read from index keys: an *)
(* error if one of them has no message.                                    *)
GetMany(keys) ==
    IF \A k \in keys : GetMessage(k[4], k[3]) # {}
    THEN Found(UNION {GetMessage(k[4], k[3]) : k \in keys}) ELSE Failed

Entries(index, target, kind) ==
    {k \in DOMAIN db : k[1] = index /\ k[2] = target /\ (kind = 0 \/ db[k] = kind)}

(* A parent or a target can be a URL, which no delimiter ends in the key:  *)
(* the iterator also meets the entries of every longer URL, takes ts_hash  *)
(* and fid from the wrong bytes and finds no message.                      *)
MeetsLonger(index, target, kind) ==
    \E e \in Extends : e[1] = target /\ Entries(index, e[2], kind) # {}

GetByUrl(index, target, kind) ==
    IF MeetsLonger(index, target, kind) THEN Failed ELSE GetMany(Entries(index, target, kind))

GetCastsByParent(parent) == GetByUrl("parent", parent, 0)
GetCastsByMention(fid) == GetMany(Entries("mention", fid, 0))
GetReactionsByTarget(target, kind) == GetByUrl("target", target, kind)

GetLinksByTarget(target, kind) == GetMany(Entries("target", target, kind))

-----------------------------------------------------------------------------
(* Properties *)

Asked == Messages[store] \cup Legacy[store]
Kinds == {0} \cup {m.kind : m \in Asked}
Targets == {m.target : m \in Asked} \cup UNION {m.targets : m \in Asked}
Times == {m.time : m \in Asked}
AddsWhere(P(_)) == Found({m \in Stored : m.type = "add" /\ P(m)})

\* the lookups of one message
LookupsExact ==
    \A m \in Asked :
        LET one == Found({n \in StoredBy(m.fid) : n.type = m.type /\ Slot(n) = Slot(m)})
        IN CASE m.type = "compact" -> m \in Compacts => m \in GetCompactsByFid(m.fid).messages
             [] store = "cast" ->
                  IF m.type = "add" THEN GetCastAdd(m.fid, m.hash) = one
                  ELSE GetCastRemove(m.fid, m.target) = one
             [] store = "link" /\ m.type # "compact" ->
                  IF m.type = "add" THEN GetLinkAdd(m.fid, m.kind, m.target) = one
                  ELSE GetLinkRemove(m.fid, m.kind, m.target) = one
             [] store = "reaction" ->
                  IF m.type = "add" THEN GetReactionAdd(m.fid, m.kind, m.target) = one
                  ELSE GetReactionRemove(m.fid, m.kind, m.target) = one
             [] store = "userdata" -> GetUserDataAdd(m.fid, m.kind) = one
             [] store = "username" ->
                  /\ GetUsernameProofByFidAndName(m.fid, m.target) = one
                  /\ one.messages # {} => GetUsernameProof(m.target) = one
             [] store = "verification" ->
                  IF m.type = "add" THEN GetVerificationAdd(m.fid, m.target) = one
                  ELSE GetVerificationRemove(m.fid, m.target) = one

\* the queries by parent, mention and target
TargetQueriesExact ==
    \A t \in Targets, k \in Kinds :
        /\ store = "cast" /\ t # 0 =>
              /\ ~MeetsLonger("parent", t, 0) =>
                    GetCastsByParent(t) = AddsWhere(LAMBDA m : m.target = t)
              /\ GetCastsByMention(t) = AddsWhere(LAMBDA m : t \in m.targets)
        /\ store = "reaction" /\ ~MeetsLonger("target", t, k) =>
              GetReactionsByTarget(t, k) = AddsWhere(LAMBDA m : m.target = t /\ OfKind(m, k))
        /\ store = "link" =>
              GetLinksByTarget(t, k) = AddsWhere(LAMBDA m : m.target = t /\ OfKind(m, k))

\* the queries by fid
FidQueriesExact ==
    \A fid \in {m.fid : m \in Asked}, k \in Kinds :
        /\ GetAddsByFid(fid, k) = AddsWhere(LAMBDA m : m.fid = fid /\ OfKind(m, k))
        /\ \A start, stop \in Times :
              GetAllMessagesByFid(fid, start, stop).messages =
                  {m \in GetAddsByFid(fid, 0).messages \cup GetRemovesByFid(fid, 0).messages :
                     InTimeRange(m, start, stop)}

(* "Indices are built to look up link adds in the adds set, link removes   *)
(* in the remove set and all links for a given target": through every      *)
(* index, whichever of its keys a message was stored under, a query        *)
(* answers exactly the stored messages it asks for, no superseded, revoked *)
(* or pruned one, and never fails on an entry left behind, unless          *)
(* operations met that no lock keeps apart.  Excepted is a URL some stored *)
(* message's longer URL begins with.                                       *)
QueriesExact == (Exposed /\ raced) \/ (LookupsExact /\ TargetQueriesExact /\ FidQueriesExact)
=============================================================================
