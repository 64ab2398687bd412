-------------------------- MODULE ShardEngineProofs -------------------------
(***************************************************************************)
(* TLAPS proofs for ShardEngine: what a node's trie, store and proposals   *)
(* are worth after any number of crashes of the node and restarts of the   *)
(* network, for any messages, heights and size of the mempool.             *)
(***************************************************************************)
EXTENDS ShardEngine, SequenceTheorems, TLAPS

-----------------------------------------------------------------------------
(* Type correctness *)

ChunkType == [height : Height, parent : Nat, msgs : SUBSET Msg, root : SUBSET Msg]

(* What the type invariant needs to be inductive: the network is never     *)
(* more than a height past the bound, and a node that commits or has       *)
(* committed is at a decided position.                                     *)
PositionOK ==
    /\ agreed \in Seq(ChunkType)
    /\ Len(agreed) <= base + MaxHeight
    /\ phase \in {"committing", "decided"} => Position <= Len(agreed)

TypeInv == TypeOK /\ PositionOK

LEMMA RangeType ==
    ASSUME NEW S, NEW s \in Seq(S)
    PROVE  Range(s) \subseteq S
BY DEF Range

LEMMA RangeAppend ==
    ASSUME NEW S, NEW s \in Seq(S), NEW e \in S
    PROVE  Range(Append(s, e)) = Range(s) \cup {e}
BY AppendProperties, LenProperties DEF Range

LEMMA RangeEmpty == Range(<<>>) = {}
BY DEF Range

(* The reverse scan of the shared database meets a trie node first, so     *)
(* get_confirmed_height is 0 however many chunks are stored.               *)
LEMMA ConfirmedHeightIsZero == ConfirmedHeight = 0
<1> DEFINE root == <<TriePrefix, 0>>
<1>1. root \in Keys /\ \A j \in Keys : Before(j, root)
  BY BoundsNat DEF Keys, Before, ShardPrefix, TriePrefix
<1>2. ASSUME NEW k \in Keys, \A j \in Keys : Before(j, k)
      PROVE  k[1] # ShardPrefix
  BY <1>1, <1>2 DEF Before, ShardPrefix, TriePrefix
<1>3. DEFINE last == CHOOSE k \in Keys : \A j \in Keys : Before(j, k)
<1>4. last \in Keys /\ \A j \in Keys : Before(j, last)
  BY <1>1
<1>5. last[1] # ShardPrefix
  BY <1>2, <1>4
<1> QED
  BY <1>5 DEF ConfirmedHeight

LEMMA ChunksTyped ==
    ASSUME NEW s \in Seq(ChunkType), NEW i \in DOMAIN s
    PROVE  s[i].height \in Height /\ s[i].msgs \subseteq Msg /\ s[i].root \subseteq Msg
<1>1. s[i] \in ChunkType
  OBVIOUS
<1> QED
  BY <1>1 DEF ChunkType

LEMMA TypeInit == Init => TypeInv
<1> SUFFICES ASSUME Init PROVE TypeInv
  OBVIOUS
<1>1. agreed \in Seq(ChunkType) /\ Len(agreed) = 0 /\ DOMAIN agreed = {}
  BY DEF Init
<1>2. mempool \in Seq(Msg) /\ Len(mempool) = 0
  BY DEF Init
<1>3. store \in [Height -> SUBSET (1..Len(agreed))] /\ offers \in [Msg -> 0..2]
  BY DEF Init
<1>4. height \in Height
  BY BoundsNat DEF Init, Height
<1>5. PositionOK
  BY <1>1, BoundsNat DEF Init, PositionOK
<1>6. /\ base \in 0..Len(agreed) /\ eras \in 0..MaxEras /\ joined \in 0..MaxHeight /\ recorded \in 0..MaxHeight
      /\ lastChunk \in 0..Len(agreed) /\ Len(mempool) <= MempoolSize /\ crashes \in 0..MaxCrashes
  BY <1>1, <1>2, BoundsNat DEF Init
<1>7. /\ seen \subseteq 1..Len(agreed) /\ began \subseteq 1..(Len(agreed) + MaxHeight)
      /\ proposed \subseteq [height : Height, parent : 0..Len(agreed), msgs : SUBSET Msg, root : SUBSET Msg]
  BY DEF Init
<1>8. /\ others \subseteq Msg /\ halted \in BOOLEAN /\ phase \in Phase /\ trie \subseteq Msg
      /\ gapped \in BOOLEAN /\ accepted \subseteq Msg
  BY DEF Init, Phase
<1> QED
  BY <1>1, <1>2, <1>3, <1>4, <1>5, <1>6, <1>7, <1>8 DEF TypeInv, TypeOK

(* What the proposals, this node's or another's, are made of.              *)
LEMMA DecidedType ==
    ASSUME TypeInv, NEW c \in {OthersChunk(ms) : ms \in SUBSET Msg} \cup proposed,
           c.height \in Height
    PROVE  c \in ChunkType /\ c.parent \in 0..Len(agreed)
<1>1. Len(agreed) \in Nat /\ base \in Nat /\ NetHeight \in Nat
  BY LenProperties DEF TypeInv, TypeOK, PositionOK, NetHeight
<1>2. CASE c \in proposed
  BY <1>1, <1>2 DEF TypeInv, TypeOK, ChunkType
<1>3. ASSUME NEW ms \in SUBSET Msg, c = OthersChunk(ms)
      PROVE  c \in ChunkType /\ c.parent \in 0..Len(agreed)
  BY <1>1, <1>3 DEF TypeInv, TypeOK, ChunkType, OthersChunk, Chunk
<1> QED
  BY <1>2, <1>3

LEMMA TypeDecides ==
    ASSUME TypeInv, NEW c \in {OthersChunk(ms) : ms \in SUBSET Msg} \cup proposed,
           NetworkDecides(c)
    PROVE  TypeInv'
<1>1. c \in ChunkType
  BY DecidedType DEF NetworkDecides
<1>2. /\ agreed' \in Seq(ChunkType) /\ Len(agreed') = Len(agreed) + 1
      /\ Len(agreed) \in Nat /\ base \in Nat
      /\ Len(agreed') <= base + MaxHeight
  BY <1>1, BoundsNat, AppendProperties, LenProperties
  DEF NetworkDecides, TypeInv, TypeOK, PositionOK, NetHeight, Height
<1>3. \A i \in DOMAIN agreed' : agreed'[i].height \in Height /\ agreed'[i].msgs \subseteq Msg
  BY <1>2, ChunksTyped
<1>4. others' \subseteq Msg /\ halted' \in BOOLEAN
  BY <1>1 DEF NetworkDecides, TypeInv, TypeOK, ChunkType
<1>5. PositionOK'
  BY <1>2 DEF NetworkDecides, TypeInv, TypeOK, PositionOK, Position, memory, Height
<1>6. proposed' \subseteq [height : Height, parent : 0..Len(agreed'), msgs : SUBSET Msg, root : SUBSET Msg]
  BY <1>2 DEF NetworkDecides, TypeInv, TypeOK
<1>7. store' \in [Height -> SUBSET (1..Len(agreed'))]
  BY <1>2 DEF NetworkDecides, TypeInv, TypeOK, disk
<1>8. /\ base' \in 0..Len(agreed') /\ lastChunk' \in 0..Len(agreed')
      /\ seen' \subseteq 1..Len(agreed') /\ began' \subseteq 1..(Len(agreed') + MaxHeight)
  BY <1>2, BoundsNat DEF NetworkDecides, TypeInv, TypeOK, memory, history
<1> QED
  BY <1>3, <1>4, <1>5, <1>6, <1>7, <1>8
  DEF NetworkDecides, TypeInv, TypeOK, memory, disk, history

LEMMA TypeNode ==
    ASSUME TypeInv,
           \/ NetworkRestarts \/ \E m \in Msg : SubmitMessage(m)
           \/ \E h \in Height : StartHeight(h)
           \/ NextHeight \/ Crash \/ Restart
    PROVE  TypeInv'
<1>1. Len(agreed) \in Nat /\ base \in Nat
  BY LenProperties DEF TypeInv, TypeOK, PositionOK
<1>2. CASE NetworkRestarts
  <2>1. base' \in 0..Len(agreed') /\ eras' \in 0..MaxEras
    BY <1>1, <1>2, BoundsNat DEF NetworkRestarts, TypeInv, TypeOK
  <2>2. PositionOK'
    BY <1>1, <1>2, BoundsNat DEF NetworkRestarts, TypeInv, PositionOK, memory
  <2> QED
    BY <1>2, <2>1, <2>2 DEF NetworkRestarts, TypeInv, TypeOK, memory, disk, history
<1>3. ASSUME NEW m \in Msg, SubmitMessage(m) PROVE TypeInv'
  <2>1. mempool' \in Seq(Msg) /\ Len(mempool') <= MempoolSize
    BY <1>3, AppendProperties, LenProperties, BoundsNat DEF SubmitMessage, HasRoom, TypeInv, TypeOK
  <2> QED
    BY <1>3, <2>1
    DEF SubmitMessage, TypeInv, TypeOK, PositionOK, Position, network, memory, disk
<1>4. ASSUME NEW h \in Height, StartHeight(h) PROVE TypeInv'
  <2>1. base + h \in 1..(Len(agreed) + MaxHeight)
    BY <1>1, BoundsNat DEF TypeInv, TypeOK, Height
  <2>2. gapped' \in BOOLEAN /\ phase' = "running"
    BY <1>4 DEF StartHeight, TypeInv, TypeOK
  <2> QED
    BY <1>4, <2>1, <2>2
    DEF StartHeight, TypeInv, TypeOK, PositionOK, Position, Phase, network, disk
<1>5. CASE NextHeight
  <2>1. height' \in Height
    BY <1>5, BoundsNat DEF NextHeight, TypeInv, TypeOK, Height
  <2>2. phase' = "running" /\ PositionOK'
    BY <1>5 DEF NextHeight, TypeInv, PositionOK, network
  <2> QED
    BY <1>5, <2>1, <2>2 DEF NextHeight, TypeInv, TypeOK, Phase, network, disk, history
<1>6. CASE Crash
  <2>1. mempool' \in Seq(Msg) /\ Len(mempool') = 0
    BY <1>6 DEF Crash
  <2> QED
    BY <1>1, <1>6, <2>1, BoundsNat
    DEF Crash, TypeInv, TypeOK, PositionOK, Position, Phase, Height, network, disk
<1>7. CASE Restart
  BY <1>1, <1>7, ConfirmedHeightIsZero, BoundsNat
  DEF Restart, StartsAt, Recovered, NetHeight, TypeInv, TypeOK, PositionOK, Position, Phase, Height,
      network, history
<1> QED
  BY <1>2, <1>3, <1>4, <1>5, <1>6, <1>7

LEMMA TypeChunk ==
    ASSUME TypeInv, ProposeValue \/ CommitTrie \/ PutShardChunk
    PROVE  TypeInv'
<1>1. Len(agreed) \in Nat /\ base \in Nat /\ height \in Nat /\ height >= 1
  BY LenProperties, BoundsNat DEF TypeInv, TypeOK, PositionOK, Height
<1>2. CASE ProposeValue
  <2>1. Range(mempool) \subseteq Msg
    BY RangeType DEF TypeInv, TypeOK
  <2>2. proposed' \subseteq [height : Height, parent : 0..Len(agreed), msgs : SUBSET Msg, root : SUBSET Msg]
    BY <1>2, <2>1 DEF ProposeValue, Chunk, TypeInv, TypeOK
  <2>3. offers' \in [Msg -> 0..2]
    BY <1>2 DEF ProposeValue, TypeInv, TypeOK
  <2>4. mempool' \in Seq(Msg) /\ Len(mempool') <= MempoolSize
    BY <1>2, BoundsNat DEF ProposeValue, Drained
  <2> QED
    BY <1>2, <2>2, <2>3, <2>4
    DEF ProposeValue, Reloaded, TypeInv, TypeOK, PositionOK, Position, Phase, network, memory
<1>3. CASE CommitTrie
  <2>1. Position \in 1..Len(agreed) /\ Position \in 0..Len(agreed)
    BY <1>1, <1>3 DEF CommitTrie, Position
  <2>2. agreed[Position].msgs \subseteq Msg
    BY <2>1 DEF TypeInv, TypeOK, PositionOK
  <2>3. /\ phase' \in {"committing", "panicked"} /\ trie' \subseteq Msg /\ seen' \subseteq 1..Len(agreed)
        /\ lastChunk' \in 0..Len(agreed)
    BY <1>3, <2>1, <2>2 DEF CommitTrie, Pushed, TypeInv, TypeOK
  <2>4. UNCHANGED <<agreed, base, height>> /\ Position' = Position
    BY <1>3 DEF CommitTrie, network, Position
  <2> QED
    BY <1>3, <2>1, <2>3, <2>4
    DEF CommitTrie, TypeInv, TypeOK, PositionOK, Phase, network
<1>4. CASE PutShardChunk
  <2>1. Position \in 1..Len(agreed) /\ Position' = Position
    BY <1>1, <1>4 DEF PutShardChunk, Position, TypeInv, PositionOK, network
  <2>2. store' \in [Height -> SUBSET (1..Len(agreed))]
    BY <1>4, <2>1 DEF PutShardChunk, ShardKey, TypeInv, TypeOK
  <2> QED
    BY <1>4, <2>1, <2>2
    DEF PutShardChunk, TypeInv, TypeOK, PositionOK, Phase, network, history
<1> QED
  BY <1>2, <1>3, <1>4

LEMMA TypeStep == TypeInv /\ [Next]_vars => TypeInv'
<1> SUFFICES ASSUME TypeInv, [Next]_vars PROVE TypeInv'
  OBVIOUS
<1>1. CASE UNCHANGED vars
  BY <1>1 DEF vars, network, memory, disk, history, TypeInv, TypeOK, PositionOK, Position
<1>2. CASE Next
  BY <1>2, TypeDecides, TypeNode, TypeChunk DEF Next
<1> QED
  BY <1>1, <1>2

(* Chunks, proposals, tries and records keep their types, through every    *)
(* crash, replay and restart of the network.                               *)
THEOREM TypeCorrect == Spec => []TypeOK
<1>1. TypeInv => TypeOK
  BY DEF TypeInv
<1> QED
  BY <1>1, TypeInit, TypeStep, PTL DEF Spec

LEMMA TypeHolds == Spec => []TypeInv
BY TypeInit, TypeStep, PTL DEF Spec

(* A decision adds a chunk after the others and changes none of them.      *)
LEMMA DecidesAppends ==
    ASSUME TypeInv, NEW c \in {OthersChunk(ms) : ms \in SUBSET Msg} \cup proposed,
           NetworkDecides(c)
    PROVE  /\ Len(agreed) \in Nat
           /\ Len(agreed') = Len(agreed) + 1
           /\ agreed'[Len(agreed) + 1] = c
           /\ \A i \in 1..Len(agreed) : agreed'[i] = agreed[i]
<1>1. c \in ChunkType
  BY DecidedType DEF NetworkDecides
<1> QED
  BY <1>1, AppendProperties, LenProperties DEF NetworkDecides, TypeInv, PositionOK

-----------------------------------------------------------------------------
(* The trie *)

LEMMA UnionInsert ==
    ASSUME NEW a, NEW S, NEW p
    PROVE  UNION {a[i].msgs : i \in S \cup {p}} = (UNION {a[i].msgs : i \in S}) \cup a[p].msgs
<1>1. {a[i].msgs : i \in S \cup {p}} = {a[i].msgs : i \in S} \cup {a[p].msgs}
  OBVIOUS
<1>2. ASSUME NEW A, NEW b PROVE UNION (A \cup {b}) = (UNION A) \cup b
  OBVIOUS
<1> QED
  BY <1>1, <1>2

(* The chunk about to be written is in the trie already.                   *)
TrieInv == TrieIsCommittedChunks /\ (phase = "committing" => Position \in seen)

LEMMA TrieDecides ==
    ASSUME TypeInv, TrieInv, NEW c \in {OthersChunk(ms) : ms \in SUBSET Msg} \cup proposed,
           NetworkDecides(c)
    PROVE  TrieInv'
<1>1. seen' = seen /\ \A i \in seen : agreed'[i] = agreed[i]
  BY DecidesAppends DEF NetworkDecides, TypeInv, TypeOK, history
<1>2. {agreed'[i].msgs : i \in seen'} = {agreed[i].msgs : i \in seen}
  BY <1>1
<1> QED
  BY <1>1, <1>2 DEF NetworkDecides, TrieInv, TrieIsCommittedChunks, Position, memory, disk

LEMMA TrieStep == TypeInv /\ TrieInv /\ [Next]_vars => TrieInv'
<1> SUFFICES ASSUME TypeInv, TrieInv, [Next]_vars PROVE TrieInv'
  OBVIOUS
<1> USE DEF TrieInv, TrieIsCommittedChunks
<1>1. ASSUME NEW c \in {OthersChunk(ms) : ms \in SUBSET Msg} \cup proposed, NetworkDecides(c)
      PROVE  TrieInv'
  BY <1>1, TrieDecides
<1>2. CASE NetworkRestarts
  BY <1>2 DEF NetworkRestarts, memory, disk, history
<1>3. ASSUME NEW m \in Msg, SubmitMessage(m) PROVE TrieInv'
  BY <1>3 DEF SubmitMessage, Position, network, memory, disk
<1>4. CASE ProposeValue
  BY <1>4 DEF ProposeValue, Reloaded, Position, network, memory
<1>5. ASSUME NEW h \in Height, StartHeight(h) PROVE TrieInv'
  BY <1>5 DEF StartHeight, network, disk
<1>6. CASE NextHeight
  BY <1>6 DEF NextHeight, network, disk, history
<1>7. CASE CommitTrie
  <2>1. Position' = Position /\ UNCHANGED <<agreed, store>>
    BY <1>7 DEF CommitTrie, Position, network
  <2>2. CASE UNCHANGED <<trie, seen>> /\ phase' = "panicked"
    BY <2>1, <2>2
  <2>3. CASE /\ trie' = trie \cup agreed[Position].msgs
             /\ seen' = seen \cup {Position}
    <3>1. UNION {agreed[i].msgs : i \in seen \cup {Position}}
             = (UNION {agreed[i].msgs : i \in seen}) \cup agreed[Position].msgs
      BY UnionInsert
    <3>2. UNION {agreed'[i].msgs : i \in seen'} = UNION {agreed[i].msgs : i \in seen \cup {Position}}
      BY <2>1, <2>3
    <3> QED
      BY <2>1, <2>3, <3>1, <3>2
  <2> QED
    BY <1>7, <2>2, <2>3 DEF CommitTrie
<1>8. CASE PutShardChunk
  <2>1. \A h \in Height : store'[h] \subseteq seen
    BY <1>8 DEF PutShardChunk, ShardKey, TypeInv, TypeOK
  <2> QED
    BY <1>8, <2>1 DEF PutShardChunk, network, history
<1>9. CASE Crash
  BY <1>9 DEF Crash, network, disk
<1>10. CASE Restart
  BY <1>10 DEF Restart, Recovered, network, history
<1>11. CASE UNCHANGED vars
  BY <1>11 DEF vars, network, memory, disk, history, Position
<1> QED
  BY <1>1, <1>2, <1>3, <1>4, <1>5, <1>6, <1>7, <1>8, <1>9, <1>10, <1>11 DEF Next

(* The committed trie holds the messages of the chunks committed to it,    *)
(* whatever was proposed and reloaded in between, and every stored chunk   *)
(* is one of them, wherever between the two writes a crash came.           *)
THEOREM TrieSurvivesCrashes == Spec => []TrieIsCommittedChunks
<1>1. Init => TrieInv
  BY DEF Init, TrieInv, TrieIsCommittedChunks
<1>2. TrieInv => TrieIsCommittedChunks
  BY DEF TrieInv
<1> QED
  BY <1>1, <1>2, TypeHolds, TrieStep, PTL DEF Spec

-----------------------------------------------------------------------------
(* Messages *)

(* Only messages that were answered Ok are queued or proposed.             *)
OnceInv ==
    /\ MessageOnce
    /\ \A m \in Msg : m \in Range(mempool) \/ offers[m] # 0 => m \in accepted

LEMMA OnceStep == TypeInv /\ OnceInv /\ [Next]_vars => OnceInv'
<1> SUFFICES ASSUME TypeInv, OnceInv, [Next]_vars PROVE OnceInv'
  OBVIOUS
<1> USE DEF OnceInv, MessageOnce
<1>1. ASSUME NEW m \in Msg, SubmitMessage(m) PROVE OnceInv'
  <2>1. Range(mempool') = Range(mempool) \cup {m}
    BY <1>1, RangeAppend DEF SubmitMessage, TypeInv, TypeOK
  <2> QED
    BY <1>1, <2>1 DEF SubmitMessage, TypeInv, TypeOK
<1>2. CASE ProposeValue
  <2>1. Range(mempool') = {}
    BY <1>2, RangeEmpty DEF ProposeValue, Drained
  <2>2. ASSUME NEW m \in Msg
        PROVE  offers'[m] = IF m \in Range(mempool) THEN 1 ELSE offers[m]
    BY <1>2 DEF ProposeValue, TypeInv, TypeOK
  <2> QED
    BY <1>2, <2>1, <2>2 DEF ProposeValue, TypeInv, TypeOK
<1>3. CASE Crash
  <2>1. Range(mempool') = {} /\ crashes' # 0
    BY <1>3, RangeEmpty DEF Crash, TypeInv, TypeOK
  <2> QED
    BY <1>3, <2>1 DEF Crash
<1>4. CASE UNCHANGED <<mempool, offers, accepted, crashes>>
  BY <1>4 DEF Range
<1>5. \/ \E m \in Msg : SubmitMessage(m)
      \/ ProposeValue \/ Crash \/ UNCHANGED <<mempool, offers, accepted, crashes>>
  BY DEF Next, NetworkDecides, NetworkRestarts, StartHeight, NextHeight, CommitTrie, PutShardChunk,
         Restart, vars, history
<1> QED
  BY <1>1, <1>2, <1>3, <1>4, <1>5

(* An accepted message is in the mempool or in exactly one proposal this   *)
(* node ever made; only a crash can take it from the mempool unproposed.   *)
THEOREM ProposedOnce == Spec => []MessageOnce
<1>1. Init => OnceInv
  BY RangeEmpty DEF Init, OnceInv, MessageOnce
<1>2. OnceInv => MessageOnce
  BY DEF OnceInv
<1> QED
  BY <1>1, <1>2, TypeHolds, OnceStep, PTL DEF Spec

-----------------------------------------------------------------------------
(* Parents *)

(* A proposal builds on the chunk before, or the node was started at its   *)
(* height; while a node runs, the last chunk in its memory is the one      *)
(* before unless it was started there.                                     *)
LinkInv ==
    /\ UnlinkedOnlyWhereStarted
    /\ \A c \in proposed :
           c.height = 1 \/ c.parent = base + c.height - 1 \/ base + c.height \in began
    /\ phase = "running" => lastChunk = Position - 1 \/ Position \in began
    /\ phase \in {"committing", "decided"} => lastChunk = Position

LEMMA LinkDecides ==
    ASSUME TypeInv, LinkInv, NEW c \in {OthersChunk(ms) : ms \in SUBSET Msg} \cup proposed,
           NetworkDecides(c)
    PROVE  UnlinkedOnlyWhereStarted'
<1> DEFINE n == Len(agreed)
<1>1. n \in Nat /\ base \in Nat /\ c.height = n - base + 1
  BY DecidesAppends DEF NetworkDecides, NetHeight, TypeInv, TypeOK
<1>2. c.height > 1 /\ c.parent # n => n + 1 \in began
  <2>1. CASE c \in proposed
    <3>1. c.height = 1 \/ c.parent = base + c.height - 1 \/ base + c.height \in began
      BY <2>1 DEF LinkInv
    <3>2. base + c.height = n + 1 /\ base + c.height - 1 = n
      BY <1>1
    <3> QED
      BY <1>1, <3>1, <3>2
  <2>2. ASSUME NEW ms \in SUBSET Msg, c = OthersChunk(ms)
        PROVE  c.height = 1 \/ c.parent = n
    BY <2>2 DEF OthersChunk, Chunk
  <2> QED
    BY <1>1, <2>1, <2>2
<1>3. ASSUME NEW i \in DOMAIN agreed', agreed'[i].height > 1, agreed'[i].parent # i - 1
      PROVE  i \in began
  <2>1. i \in 1..(n + 1) /\ DOMAIN agreed = 1..n
    BY <1>3, DecidesAppends, TypeDecides, LenProperties DEF TypeInv, PositionOK
  <2>2. CASE i \in 1..n
    BY <1>3, <2>1, <2>2, DecidesAppends DEF LinkInv, UnlinkedOnlyWhereStarted
  <2>3. CASE i = n + 1
    BY <1>1, <1>2, <1>3, <2>3, DecidesAppends
  <2> QED
    BY <1>1, <2>1, <2>2, <2>3
<1> QED
  BY <1>3 DEF UnlinkedOnlyWhereStarted, NetworkDecides, history

LEMMA LinkStep == TypeInv /\ LinkInv /\ [Next]_vars => LinkInv'
<1> SUFFICES ASSUME TypeInv, LinkInv, [Next]_vars PROVE LinkInv'
  OBVIOUS
<1>1. base \in Nat /\ height \in Nat /\ height >= 1 /\ Len(agreed) \in Nat
  BY LenProperties, BoundsNat DEF TypeInv, TypeOK, PositionOK, Height
<1>2. ASSUME NEW c \in {OthersChunk(ms) : ms \in SUBSET Msg} \cup proposed, NetworkDecides(c)
      PROVE  LinkInv'
  BY <1>2, LinkDecides DEF NetworkDecides, LinkInv, Position, memory, history
<1>3. CASE NetworkRestarts
  BY <1>3 DEF NetworkRestarts, LinkInv, UnlinkedOnlyWhereStarted, memory, history
<1>4. ASSUME NEW m \in Msg, SubmitMessage(m) PROVE LinkInv'
  BY <1>4 DEF SubmitMessage, LinkInv, UnlinkedOnlyWhereStarted, Position, network, memory
<1>5. CASE ProposeValue
  <2>1. PICK ms, root : proposed' = proposed \cup {Chunk(height, lastChunk, ms, root)}
    BY <1>5 DEF ProposeValue
  <2>2. ASSUME NEW c \in proposed'
        PROVE  c.height = 1 \/ c.parent = base + c.height - 1 \/ base + c.height \in began
    <3>1. CASE c \in proposed
      BY <3>1 DEF LinkInv
    <3>2. CASE c.height = height /\ c.parent = lastChunk
      <4>1. lastChunk = Position - 1 \/ Position \in began
        BY <1>5 DEF ProposeValue, LinkInv
      <4> QED
        BY <1>1, <3>2, <4>1 DEF Position
    <3> QED
      BY <2>1, <2>2, <3>1, <3>2 DEF Chunk
  <2> QED
    BY <1>5, <2>2 DEF ProposeValue, LinkInv, UnlinkedOnlyWhereStarted, Position, network, memory
<1>6. ASSUME NEW h \in Height, StartHeight(h) PROVE LinkInv'
  BY <1>6 DEF StartHeight, LinkInv, UnlinkedOnlyWhereStarted, Position, network
<1>7. CASE NextHeight
  BY <1>1, <1>7 DEF NextHeight, LinkInv, UnlinkedOnlyWhereStarted, Position, network, history
<1>8. CASE CommitTrie
  BY <1>8 DEF CommitTrie, Pushed, LinkInv, UnlinkedOnlyWhereStarted, Position, network
<1>9. CASE PutShardChunk
  BY <1>9 DEF PutShardChunk, LinkInv, UnlinkedOnlyWhereStarted, Position, network, history
<1>10. CASE Crash
  BY <1>10 DEF Crash, LinkInv, UnlinkedOnlyWhereStarted, network
<1>11. CASE Restart
  BY <1>11 DEF Restart, LinkInv, UnlinkedOnlyWhereStarted, network, history
<1>12. CASE UNCHANGED vars
  BY <1>12 DEF vars, LinkInv, UnlinkedOnlyWhereStarted, Position, network, memory, history
<1> QED
  BY <1>2, <1>3, <1>4, <1>5, <1>6, <1>7, <1>8, <1>9, <1>10, <1>11, <1>12 DEF Next

(* A restart costs the chain at most the link of the chunk this node       *)
(* proposes at the height it was started at.                               *)
THEOREM LinksSurviveRestarts == Spec => []UnlinkedOnlyWhereStarted
<1>1. Init => LinkInv
  BY DEF Init, LinkInv, UnlinkedOnlyWhereStarted
<1>2. LinkInv => UnlinkedOnlyWhereStarted
  BY DEF LinkInv
<1> QED
  BY <1>1, <1>2, TypeHolds, LinkStep, PTL DEF Spec

-----------------------------------------------------------------------------
(* The store *)

(* Under a height there is at most one chunk, and one of this run of the   *)
(* network is the chunk of that height.                                    *)
StoreInv ==
    \A h \in Height : \A i \in store[h] :
        (i > base => i = base + h) /\ \A j \in store[h] : i = j

LEMMA StoreStep == TypeInv /\ StoreInv /\ [Next]_vars => StoreInv'
<1> SUFFICES ASSUME TypeInv, StoreInv, [Next]_vars PROVE StoreInv'
  OBVIOUS
<1>1. CASE NetworkRestarts
  BY <1>1 DEF NetworkRestarts, StoreInv, disk, TypeInv, TypeOK
<1>2. CASE PutShardChunk
  BY <1>2 DEF PutShardChunk, ShardKey, Position, StoreInv, network, TypeInv, TypeOK
<1>3. CASE UNCHANGED <<base, store>>
  BY <1>3 DEF StoreInv
<1>4. NetworkRestarts \/ PutShardChunk \/ UNCHANGED <<base, store>>
  BY DEF Next, NetworkDecides, SubmitMessage, ProposeValue, StartHeight, NextHeight, CommitTrie, Crash,
         Restart, vars, network, disk
<1> QED
  BY <1>1, <1>2, <1>3, <1>4

(* However often its height is replayed after crashes, a stored chunk of   *)
(* this run of the network is not replaced by another one.                 *)
THEOREM StoredChunksStay == Spec => StoreWriteOnce
<1> DEFINE Keeps == \A h \in Height :
        store[h] # {} /\ store'[h] # store[h] => \A i \in store[h] : i <= base
<1>1. Init => StoreInv
  BY DEF Init, StoreInv
<1>2. TypeInv /\ StoreInv /\ [Next]_vars => [Keeps]_vars
  <2> SUFFICES ASSUME TypeInv, StoreInv, Next PROVE Keeps
    BY DEF vars
  <2>1. CASE PutShardChunk
    <3> SUFFICES ASSUME NEW h \in Height, store'[h] # store[h], NEW i \in store[h], ~(i <= base)
                 PROVE  FALSE
      OBVIOUS
    <3>1. i \in Nat /\ base \in Nat /\ i = base + h
      BY DEF StoreInv, TypeInv, TypeOK
    <3>2. h = height /\ store'[h] = {Position}
      BY <2>1 DEF PutShardChunk, ShardKey, TypeInv, TypeOK
    <3>3. store[h] = {i}
      BY DEF StoreInv
    <3> QED
      BY <3>1, <3>2, <3>3 DEF Position
  <2>2. PutShardChunk \/ UNCHANGED store
    BY DEF Next, NetworkDecides, NetworkRestarts, SubmitMessage, ProposeValue, StartHeight, NextHeight,
           CommitTrie, Crash, Restart, disk
  <2> QED
    BY <2>1, <2>2
<1> QED
  BY <1>1, <1>2, TypeHolds, StoreStep, PTL DEF Spec, StoreWriteOnce

-----------------------------------------------------------------------------
(* Panics *)

\* the messages of the chunks of a at the positions in S
Messages(a, S) == UNION {a[i].msgs : i \in S}

LEMMA MessagesSame ==
    ASSUME NEW a, NEW b, NEW S, \A i \in S : a[i] = b[i]
    PROVE  Messages(a, S) = Messages(b, S)
<1>1. {a[i].msgs : i \in S} = {b[i].msgs : i \in S}
  OBVIOUS
<1> QED
  BY <1>1 DEF Messages

LEMMA MessagesNext ==
    ASSUME NEW a, NEW n \in Nat
    PROVE  Messages(a, 1..(n + 1)) = Messages(a, 1..n) \cup a[n + 1].msgs
<1>1. 1..(n + 1) = (1..n) \cup {n + 1}
  OBVIOUS
<1> QED
  BY <1>1, UnionInsert DEF Messages

(* As long as no height was started with an earlier one missing: the       *)
(* others have the messages of every chunk, every header has the root of   *)
(* the chunks up to it, and a proposal that can still be decided is for    *)
(* the others' height and has the root they will get.                      *)
NetworkOK ==
    /\ ~halted
    /\ others = Messages(agreed, 1..Len(agreed))
    /\ \A i \in 1..Len(agreed) : agreed[i].root = Messages(agreed, 1..i)
    /\ \A c \in proposed : c.height >= NetHeight => c.height = NetHeight /\ c.root = others \cup c.msgs

(* Nothing after the node's position is in the trie when it commits.       *)
SeenNotBeyond ==
    /\ phase = "idle" => seen \subseteq 1..(base + joined)
    /\ phase = "running" /\ height >= joined => seen \subseteq 1..Position
    /\ phase \in {"committing", "decided"} => height >= joined /\ seen \subseteq 1..Position

(* Everything before it is.                                                *)
SeenAllBefore ==
    /\ phase = "running" => 1..(Position - 1) \subseteq seen
    /\ phase \in {"committing", "decided"} => 1..Position \subseteq seen

GapInv ==
    /\ SeenNotBeyond
    /\ ~gapped => NetworkOK /\ SeenAllBefore /\ phase # "panicked"

LEMMA GapDecides ==
    ASSUME TypeInv, GapInv, NEW c \in {OthersChunk(ms) : ms \in SUBSET Msg} \cup proposed,
           NetworkDecides(c), ~gapped
    PROVE  NetworkOK'
<1> DEFINE n == Len(agreed)
<1>1. n \in Nat /\ base \in Nat /\ Len(agreed') = n + 1 /\ NetHeight = n - base + 1 /\ NetworkOK
  BY DecidesAppends DEF NetHeight, TypeInv, TypeOK, GapInv
<1>2. c.root = others \cup c.msgs
  <2>1. CASE c \in proposed
    BY <1>1, <2>1 DEF NetworkDecides, NetworkOK
  <2>2. ASSUME NEW ms \in SUBSET Msg, c = OthersChunk(ms)
        PROVE  c.root = others \cup c.msgs
    BY <2>2 DEF OthersChunk, Chunk
  <2> QED
    BY <2>1, <2>2
<1>3. ~halted' /\ others' = others \cup c.msgs
  BY <1>2 DEF NetworkDecides
<1>4. \A i \in 1..n : agreed'[i] = agreed[i] /\ Messages(agreed', 1..i) = Messages(agreed, 1..i)
  <2>1. \A i \in 1..n : agreed'[i] = agreed[i]
    BY DecidesAppends
  <2>2. ASSUME NEW i \in 1..n PROVE \A j \in 1..i : agreed'[j] = agreed[j]
    BY <1>1, <2>1, <2>2
  <2> QED
    BY <2>1, <2>2, MessagesSame
<1>5. Messages(agreed', 1..n) = Messages(agreed, 1..n)
  <2>1. \A j \in 1..n : agreed'[j] = agreed[j]
    BY DecidesAppends
  <2> QED
    BY <2>1, MessagesSame
<1>6. Messages(agreed', 1..(n + 1)) = others \cup c.msgs
  <2>1. Messages(agreed', 1..(n + 1)) = Messages(agreed', 1..n) \cup agreed'[n + 1].msgs
    BY <1>1, MessagesNext
  <2> QED
    BY <1>1, <1>5, <2>1, DecidesAppends DEF NetworkOK
<1>7. \A i \in 1..(n + 1) : agreed'[i].root = Messages(agreed', 1..i)
  <2>1. agreed'[n + 1].root = Messages(agreed', 1..(n + 1))
    BY <1>2, <1>6, DecidesAppends
  <2>2. \A i \in 1..n : agreed'[i].root = Messages(agreed', 1..i)
    BY <1>1, <1>4 DEF NetworkOK
  <2> QED
    BY <1>1, <2>1, <2>2
<1>8. ASSUME NEW d \in proposed PROVE ~(d.height >= NetHeight')
  <2>1. d.height \in Nat
    BY <1>8, BoundsNat DEF TypeInv, TypeOK, Height
  <2>2. NetHeight' = NetHeight + 1
    BY <1>1 DEF NetHeight, NetworkDecides
  <2>3. d.height >= NetHeight => d.height = NetHeight
    BY <1>1, <1>8 DEF NetworkOK
  <2> QED
    BY <1>1, <2>1, <2>2, <2>3
<1> QED
  BY <1>1, <1>3, <1>6, <1>7, <1>8 DEF NetworkOK, NetworkDecides

(* A node that is not missing a height proposes on the trie of the others, *)
(* and only for heights they are not past.                                 *)
LEMMA GapProposes ==
    ASSUME TypeInv, TrieInv, GapInv, ProposeValue, ~gapped
    PROVE  NetworkOK'
<1> DEFINE n == Len(agreed)
           ms == Range(mempool)
           d  == Chunk(height, lastChunk, ms, trie \cup ms)
<1>1. /\ n \in Nat /\ base \in Nat /\ height \in Nat /\ NetHeight = n - base + 1
      /\ seen \subseteq 1..n /\ 1..(base + height - 1) \subseteq seen
  BY LenProperties, BoundsNat
  DEF ProposeValue, GapInv, SeenAllBefore, Position, NetHeight, TypeInv, TypeOK, PositionOK, Height
<1>2. height <= NetHeight
  <2>1. CASE base + height - 1 \in 1..n
    BY <1>1, <2>1
  <2>2. CASE base + height - 1 \notin 1..n
    <3>1. base + height - 1 \notin 1..(base + height - 1)
      BY <1>1, <2>2
    <3>2. height >= 1
      BY BoundsNat DEF TypeInv, TypeOK, Height
    <3> QED
      BY <1>1, <3>1, <3>2
  <2> QED
    BY <2>1, <2>2
<1>3. height = NetHeight => trie = others
  <2> SUFFICES ASSUME height = NetHeight PROVE trie = others
    OBVIOUS
  <2>1. base + height - 1 = n
    BY <1>1
  <2>2. seen = 1..n
    BY <1>1, <2>1
  <2> QED
    BY <2>2 DEF TrieInv, TrieIsCommittedChunks, GapInv, NetworkOK, Messages
<1>4. UNCHANGED <<agreed, base, others, halted>> /\ NetHeight' = NetHeight
  BY DEF ProposeValue, network, NetHeight
<1>5. ASSUME NEW c \in proposed', c.height >= NetHeight
      PROVE  c.height = NetHeight /\ c.root = others \cup c.msgs
  <2>1. CASE c \in proposed
    BY <1>5, <2>1 DEF GapInv, NetworkOK
  <2>2. CASE c = d
    <3>1. c.height = height /\ c.root = trie \cup ms /\ c.msgs = ms
      BY <2>2 DEF Chunk
    <3>2. height = NetHeight
      BY <1>1, <1>2, <1>5, <3>1
    <3> QED
      BY <1>3, <3>1, <3>2
  <2> QED
    BY <1>5, <2>1, <2>2 DEF ProposeValue
<1> QED
  BY <1>4, <1>5 DEF GapInv, NetworkOK

(* A node that is not missing a height gets the root of the header.        *)
LEMMA GapCommits ==
    ASSUME TypeInv, TrieInv, GapInv, CommitTrie, ~gapped
    PROVE  /\ phase' = "committing"
           /\ seen' = 1..Position
<1> DEFINE n == Position - 1
<1>1. Position \in 1..Len(agreed) /\ Position \in Nat /\ n \in Nat /\ Len(agreed) \in Nat
  BY LenProperties, BoundsNat DEF CommitTrie, Position, TypeInv, TypeOK, PositionOK, Height
<1>2. 1..n \subseteq seen /\ seen \subseteq 1..Position
  BY DEF CommitTrie, GapInv, SeenAllBefore, SeenNotBeyond
<1>3. seen \cup {Position} = 1..Position
  <2>1. 1..Position = (1..n) \cup {Position}
    BY <1>1
  <2> QED
    BY <1>2, <2>1
<1>4. trie \cup agreed[Position].msgs = Messages(agreed, 1..Position)
  <2>1. Messages(agreed, seen \cup {Position}) = Messages(agreed, seen) \cup agreed[Position].msgs
    BY UnionInsert DEF Messages
  <2>2. trie = Messages(agreed, seen)
    BY DEF TrieInv, TrieIsCommittedChunks, Messages
  <2> QED
    BY <1>3, <2>1, <2>2
<1>5. agreed[Position].root = Messages(agreed, 1..Position)
  BY <1>1 DEF GapInv, NetworkOK
<1> QED
  BY <1>3, <1>4, <1>5 DEF CommitTrie

LEMMA GapNode ==
    ASSUME TypeInv, GapInv,
           \/ \E h \in Height : StartHeight(h)
           \/ NextHeight \/ PutShardChunk \/ Crash \/ Restart
    PROVE  GapInv'
<1>1. /\ base \in Nat /\ height \in Nat /\ height >= 1 /\ Len(agreed) \in Nat /\ joined \in Nat
      /\ base <= Len(agreed) /\ seen \subseteq 1..Len(agreed)
  BY LenProperties, BoundsNat DEF TypeInv, TypeOK, PositionOK, Height
<1>2. ASSUME UNCHANGED network, proposed' \subseteq proposed, NetworkOK
      PROVE  NetworkOK'
  BY <1>2 DEF NetworkOK, NetHeight, network
<1>3. ASSUME NEW h \in Height, StartHeight(h) PROVE GapInv'
  <2>1. h \in Nat /\ Position' = base + h /\ phase' = "running" /\ height' = h
        /\ UNCHANGED <<seen, joined, base>>
    BY <1>3, BoundsNat DEF StartHeight, Height, Position, network
  <2>2. SeenNotBeyond'
    BY <1>1, <1>3, <2>1 DEF StartHeight, GapInv, SeenNotBeyond
  <2>3. ~gapped' => ~gapped /\ 1..(Position' - 1) \subseteq seen'
    BY <1>3, <2>1 DEF StartHeight, Missed
  <2>4. ~gapped' => NetworkOK' /\ SeenAllBefore' /\ phase' # "panicked"
    BY <1>2, <1>3, <2>1, <2>3 DEF StartHeight, GapInv, SeenAllBefore
  <2> QED
    BY <2>2, <2>4 DEF GapInv
<1>4. CASE NextHeight
  <2>1. Position' = Position + 1 /\ Position \in Nat /\ phase' = "running" /\ phase = "decided"
        /\ UNCHANGED <<seen, joined, base, gapped>> /\ height' = height + 1
    BY <1>1, <1>4 DEF NextHeight, Position, network, history
  <2>2. SeenNotBeyond'
    BY <1>1, <2>1 DEF GapInv, SeenNotBeyond
  <2>3. ~gapped' => SeenAllBefore'
    BY <2>1 DEF GapInv, SeenAllBefore
  <2> QED
    BY <1>2, <1>4, <2>1, <2>2, <2>3 DEF NextHeight, GapInv
<1>5. CASE PutShardChunk
  <2>1. Position' = Position /\ phase' = "decided" /\ phase = "committing"
        /\ UNCHANGED <<seen, joined, base, gapped, height>>
    BY <1>5 DEF PutShardChunk, Position, network, history
  <2> QED
    BY <1>2, <1>5, <2>1 DEF PutShardChunk, GapInv, SeenNotBeyond, SeenAllBefore
<1>6. CASE Crash
  BY <1>2, <1>6 DEF Crash, GapInv, SeenNotBeyond, SeenAllBefore
<1>7. CASE Restart
  <2>1. base + joined' = Len(agreed) /\ phase' = "idle" /\ UNCHANGED <<seen, base, gapped>>
    BY <1>1, <1>7 DEF Restart, NetHeight, network, history
  <2> QED
    BY <1>1, <1>2, <1>7, <2>1 DEF Restart, GapInv, SeenNotBeyond, SeenAllBefore
<1> QED
  BY <1>3, <1>4, <1>5, <1>6, <1>7

LEMMA GapStep == TypeInv /\ TrieInv /\ GapInv /\ [Next]_vars => GapInv'
<1> SUFFICES ASSUME TypeInv, TrieInv, GapInv, [Next]_vars PROVE GapInv'
  OBVIOUS
<1>1. ASSUME NEW c \in {OthersChunk(ms) : ms \in SUBSET Msg} \cup proposed, NetworkDecides(c)
      PROVE  GapInv'
  <2>1. SeenNotBeyond' /\ (~gapped => SeenAllBefore') /\ UNCHANGED <<phase, gapped>>
    BY <1>1 DEF NetworkDecides, GapInv, SeenNotBeyond, SeenAllBefore, Position, memory, history
  <2> QED
    BY <1>1, <2>1, GapDecides DEF GapInv
<1>2. CASE NetworkRestarts
  <2>1. phase' = "down" /\ gapped' = gapped
    BY <1>2 DEF NetworkRestarts, memory, history
  <2>2. NetworkOK => NetworkOK'
    BY <1>2 DEF NetworkRestarts, NetworkOK
  <2> QED
    BY <2>1, <2>2 DEF GapInv, SeenNotBeyond, SeenAllBefore
<1>3. ASSUME NEW m \in Msg, SubmitMessage(m) PROVE GapInv'
  BY <1>3 DEF SubmitMessage, GapInv, NetworkOK, SeenNotBeyond, SeenAllBefore, Position, NetHeight,
              network, memory
<1>4. CASE ProposeValue
  <2>1. SeenNotBeyond' /\ (~gapped => SeenAllBefore') /\ UNCHANGED <<phase, gapped>>
    BY <1>4 DEF ProposeValue, GapInv, SeenNotBeyond, SeenAllBefore, Position, memory, network
  <2> QED
    BY <1>4, <2>1, GapProposes DEF GapInv
<1>5. CASE CommitTrie
  <2>1. Position' = Position /\ UNCHANGED <<gapped, joined, height, base>> /\ height >= joined
    BY <1>5 DEF CommitTrie, Position, network
  <2>2. Position \in Nat /\ Position >= 1
    BY BoundsNat DEF Position, TypeInv, TypeOK, Height
  <2>3. \/ phase' = "committing" /\ seen' = seen \cup {Position}
        \/ phase' = "panicked"
    BY <1>5 DEF CommitTrie
  <2>4. SeenNotBeyond'
    BY <1>5, <2>1, <2>2, <2>3 DEF CommitTrie, GapInv, SeenNotBeyond
  <2>5. NetworkOK => NetworkOK'
    BY <1>5 DEF CommitTrie, NetworkOK, NetHeight, network
  <2> QED
    BY <1>5, <2>1, <2>4, <2>5, GapCommits DEF GapInv, SeenAllBefore
<1>6. CASE UNCHANGED vars
  BY <1>6 DEF vars, GapInv, NetworkOK, SeenNotBeyond, SeenAllBefore, Position, NetHeight,
              network, memory, history
<1> QED
  BY <1>1, <1>2, <1>3, <1>4, <1>5, <1>6, GapNode DEF Next

(* "hashes don't match" takes a missed decision: as long as no height was  *)
(* started with an earlier one missing, neither this node nor, by its      *)
(* proposals, the others panic, however often nodes crash and replay.      *)
THEOREM NoPanicWithoutGap == Spec => []PanicOnlyAfterGap
<1>1. Init => TrieInv /\ GapInv
  <2>1. ASSUME Init PROVE Messages(agreed, 1..Len(agreed)) = {} /\ Len(agreed) = 0
    BY <2>1 DEF Init, Messages
  <2> QED
    <3> SUFFICES ASSUME Init PROVE TrieInv /\ GapInv
      OBVIOUS
    <3>1. TrieInv
      BY DEF Init, TrieInv, TrieIsCommittedChunks
    <3>2. NetworkOK
      <4>1. others = Messages(agreed, 1..Len(agreed)) /\ Len(agreed) = 0
        BY <2>1 DEF Init
      <4>2. ~halted /\ proposed = {}
        BY DEF Init
      <4>3. \A i \in 1..Len(agreed) : FALSE
        BY <4>1
      <4> QED
        BY <4>1, <4>2, <4>3 DEF NetworkOK
    <3> QED
      BY <3>1, <3>2 DEF Init, GapInv, SeenNotBeyond, SeenAllBefore
<1>2. GapInv => PanicOnlyAfterGap
  BY DEF GapInv, NetworkOK, PanicOnlyAfterGap
<1> QED
  BY <1>1, <1>2, TypeHolds, TrieStep, GapStep, PTL DEF Spec
=============================================================================
