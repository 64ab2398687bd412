------------------------- MODULE BlockProposerProofs ------------------------
(***************************************************************************)
(* TLAPS proofs for BlockProposer: what becomes of the chunks the shards   *)
(* decide, for any number of nodes, shards, heights and rounds and any     *)
(* capacity of the decision channel.                                       *)
(***************************************************************************)
EXTENDS BlockProposer, SequenceTheorems, TLAPS

-----------------------------------------------------------------------------
(* Sequences *)

Distinct(s) == \A i, j \in DOMAIN s : s[i] = s[j] => i = j

LEMMA RangeOf ==
    ASSUME NEW S, NEW s \in Seq(S)
    PROVE  Range(s) = {s[i] : i \in 1..Len(s)} /\ Range(s) \subseteq S
BY LenProperties, ElementOfSeq DEF Range

LEMMA EmptyRange == Range(<<>>) = {} /\ Distinct(<<>>)
BY DEF Range, Distinct

LEMMA AppendRange ==
    ASSUME NEW S, NEW s \in Seq(S), NEW e \in S
    PROVE  /\ Append(s, e) \in Seq(S)
           /\ Range(Append(s, e)) = Range(s) \cup {e}
           /\ Distinct(s) /\ e \notin Range(s) => Distinct(Append(s, e))
<1>1. /\ Append(s, e) \in Seq(S) /\ Len(s) \in Nat /\ Len(Append(s, e)) = Len(s) + 1
      /\ DOMAIN s = 1..Len(s) /\ DOMAIN Append(s, e) = 1..(Len(s) + 1)
      /\ \A i \in 1..Len(s) : Append(s, e)[i] = s[i]
      /\ Append(s, e)[Len(s) + 1] = e
  BY AppendProperties, LenProperties
<1>2. Range(Append(s, e)) = Range(s) \cup {e}
  BY <1>1 DEF Range
<1>3. ASSUME Distinct(s), e \notin Range(s) PROVE Distinct(Append(s, e))
  BY <1>1, <1>3 DEF Distinct, Range
<1> QED
  BY <1>1, <1>2, <1>3

LEMMA TailRange ==
    ASSUME NEW S, NEW s \in Seq(S), s # <<>>
    PROVE  /\ Head(s) \in S /\ Tail(s) \in Seq(S)
           /\ Range(s) = Range(Tail(s)) \cup {Head(s)}
           /\ Distinct(s) => Distinct(Tail(s)) /\ Head(s) \notin Range(Tail(s))
<1>1. /\ Head(s) \in S /\ Tail(s) \in Seq(S) /\ Head(s) = s[1] /\ Len(s) \in Nat /\ Len(s) >= 1
      /\ Len(Tail(s)) = Len(s) - 1 /\ DOMAIN s = 1..Len(s) /\ DOMAIN Tail(s) = 1..(Len(s) - 1)
      /\ \A i \in 1..(Len(s) - 1) : Tail(s)[i] = s[i + 1]
  BY HeadTailProperties, LenProperties, EmptySeq
<1>2. ASSUME NEW i \in 1..Len(s) PROVE s[i] \in Range(Tail(s)) \cup {Head(s)}
  <2>1. CASE i = 1
    BY <1>1, <2>1
  <2>2. CASE i # 1
    <3>1. i - 1 \in 1..(Len(s) - 1) /\ (i - 1) + 1 = i
      BY <1>1, <2>2
    <3> QED
      BY <1>1, <3>1 DEF Range
  <2> QED
    BY <2>1, <2>2
<1>3. ASSUME NEW i \in 1..(Len(s) - 1) PROVE Tail(s)[i] \in Range(s) /\ i + 1 \in 1..Len(s)
  BY <1>1 DEF Range
<1>4. Range(s) = Range(Tail(s)) \cup {Head(s)}
  <2>1. Range(s) \subseteq Range(Tail(s)) \cup {Head(s)}
    BY <1>1, <1>2, RangeOf
  <2>2. Range(Tail(s)) = {Tail(s)[i] : i \in 1..(Len(s) - 1)}
    BY <1>1, RangeOf
  <2>3. Head(s) \in Range(s)
    BY <1>1 DEF Range
  <2> QED
    BY <1>3, <2>1, <2>2, <2>3
<1>5. ASSUME Distinct(s) PROVE Distinct(Tail(s)) /\ Head(s) \notin Range(Tail(s))
  BY <1>1, <1>3, <1>5 DEF Distinct, Range
<1> QED
  BY <1>1, <1>4, <1>5

-----------------------------------------------------------------------------
(* Type correctness *)

(* A node collects only for a height of its own.                           *)
TypeInv == TypeOK /\ \A n \in Node : collecting[n] # Idle => height[n] \in Height

LEMMA TypeInit == Init => TypeInv
BY HeightsNat, CountsNat DEF Init, TypeInv, TypeOK, Node, Shard, Height, Round

\* what a proposal is
ProposalType(p) == p.proposer \in Node /\ p.round \in Round /\ p.block.chunks \in Seq(Chunk)

\* proposals are only added to
LEMMA NetGrows ==
    ASSUME TypeOK, net \subseteq net'
    PROVE  /\ proposed \in [Node -> SUBSET net'] /\ received \in [Node -> SUBSET net']
           /\ blocks \in [Node -> Seq({p.block : p \in net'})]
           /\ chosen \in [Height -> SUBSET {p.block.header : p \in net'}]
<1>1. {p.block : p \in net} \subseteq {p.block : p \in net'}
  OBVIOUS
<1>2. Seq({p.block : p \in net}) \subseteq Seq({p.block : p \in net'})
  BY <1>1, SeqMonotonic
<1> QED
  BY <1>2 DEF TypeOK

(* What the end of propose_value does.                                     *)
LEMMA ProposeType ==
    ASSUME TypeInv, NEW n \in Node, collecting[n] # Idle, NEW cs \in Seq(Chunk), Propose(n, cs)
    PROVE  /\ net \subseteq net' /\ \A p \in net' : ProposalType(p)
           /\ proposed' \in [Node -> SUBSET net'] /\ received' \in [Node -> SUBSET net']
           /\ collecting' = [collecting EXCEPT ![n] = Idle]
           /\ \A p \in net' : p \in net \/ (p.block.header.height = height[n] /\ p.block.chunks = cs)
<1>1. PICK p : \E t \in Time :
        /\ p = [proposer |-> n, round |-> collecting[n],
                block |-> [header |-> [height |-> height[n], parent |-> LastHash(n), time |-> t],
                           chunks |-> cs]]
        /\ net' = net \cup {p}
        /\ proposed' = [proposed EXCEPT ![n] = Insert(@, p)]
        /\ received' = [received EXCEPT ![n] = @ \cup {p}]
        /\ collecting' = [collecting EXCEPT ![n] = Idle]
  BY DEF Propose, Broadcast
<1>2. ProposalType(p) /\ p.block.header.height = height[n] /\ p.block.chunks = cs
  BY <1>1 DEF TypeInv, TypeOK, ProposalType
<1>3. \A q \in net : ProposalType(q)
  BY DEF TypeInv, TypeOK, ProposalType
<1>4. proposed \in [Node -> SUBSET net'] /\ received \in [Node -> SUBSET net']
  BY <1>1, NetGrows DEF TypeInv
<1>5. received' \in [Node -> SUBSET net']
  BY <1>1, <1>4
<1>6. proposed' \in [Node -> SUBSET net']
  BY <1>1, <1>4 DEF Insert
<1> QED
  BY <1>1, <1>2, <1>3, <1>5, <1>6

(* What one turn of the collecting loop does to the channel and the        *)
(* pending chunks.                                                         *)
Filed(n) == IF channel[n] = <<>> THEN pending[n] ELSE File(pending[n], Head(channel[n]), height[n])

LEMMA FiledType ==
    ASSUME TypeInv, NEW n \in Node
    PROVE  /\ Filed(n) \in [Height -> Seq(Chunk)]
           /\ channel[n] # <<>> =>
                /\ Head(channel[n]) \in Chunk /\ Tail(channel[n]) \in Seq(Chunk)
                /\ \A h \in Height : Filed(n)[h] =
                      IF h = Head(channel[n]).height THEN Append(pending[n][h], Head(channel[n]))
                      ELSE pending[n][h]
<1>1. channel[n] \in Seq(Chunk) /\ pending[n] \in [Height -> Seq(Chunk)]
  BY DEF TypeInv, TypeOK
<1>2. CASE channel[n] = <<>>
  BY <1>1, <1>2 DEF Filed
<1>3. CASE channel[n] # <<>>
  <2>1. Head(channel[n]) \in Chunk /\ Tail(channel[n]) \in Seq(Chunk)
    BY <1>1, <1>3, TailRange
  <2>2. Head(channel[n]).height \in Height
    BY <2>1 DEF Chunk
  <2>3. Filed(n) = [pending[n] EXCEPT ![Head(channel[n]).height] = Append(@, Head(channel[n]))]
    BY <1>3 DEF Filed, File
  <2>4. \A h \in Height : Append(pending[n][h], Head(channel[n])) \in Seq(Chunk)
    BY <1>1, <2>1, AppendRange
  <2> QED
    BY <1>1, <2>1, <2>2, <2>3, <2>4
<1> QED
  BY <1>2, <1>3

LEMMA PollIs ==
    ASSUME TypeInv, NEW n \in Node, Poll(n)
    PROVE  /\ channel' = [channel EXCEPT ![n] = IF @ = <<>> THEN @ ELSE Tail(@)]
           /\ pending' = [pending EXCEPT ![n] = Filed(n)]
           /\ collecting[n] # Idle /\ UNCHANGED <<shardHeight, height, blocks, chosen>>
           /\ \/ Propose(n, Filed(n)[height[n]])
              \/ UNCHANGED <<collecting, proposed, received, net>>
BY DEF Poll, Filed

LEMMA TypePoll ==
    ASSUME TypeInv, NEW n \in Node, Poll(n)
    PROVE  TypeInv'
<1>1. channel' \in [Node -> Seq(Chunk)] /\ pending' \in [Node -> [Height -> Seq(Chunk)]]
  <2>1. (IF channel[n] = <<>> THEN channel[n] ELSE Tail(channel[n])) \in Seq(Chunk)
    BY FiledType DEF TypeInv, TypeOK
  <2>2. channel \in [Node -> Seq(Chunk)] /\ pending \in [Node -> [Height -> Seq(Chunk)]]
    BY DEF TypeInv, TypeOK
  <2>3. channel' \in [Node -> Seq(Chunk)]
    BY <2>1, <2>2, PollIs
  <2>4. pending' \in [Node -> [Height -> Seq(Chunk)]]
    <3>1. Filed(n) \in [Height -> Seq(Chunk)]
      BY FiledType
    <3>2. pending' = [pending EXCEPT ![n] = Filed(n)]
      BY PollIs
    <3> QED
      BY <2>2, <3>1, <3>2
  <2> QED
    BY <2>3, <2>4
<1>2. height[n] \in Height /\ Filed(n)[height[n]] \in Seq(Chunk)
  BY PollIs, FiledType DEF TypeInv
<1>3. CASE Propose(n, Filed(n)[height[n]])
  <2>1. /\ net \subseteq net' /\ \A p \in net' : ProposalType(p)
        /\ proposed' \in [Node -> SUBSET net'] /\ received' \in [Node -> SUBSET net']
        /\ collecting' = [collecting EXCEPT ![n] = Idle]
    BY <1>2, <1>3, PollIs, ProposeType
  <2>2. /\ blocks' \in [Node -> Seq({p.block : p \in net'})]
        /\ chosen' \in [Height -> SUBSET {p.block.header : p \in net'}]
    BY <2>1, NetGrows, PollIs DEF TypeInv
  <2> QED
    BY <1>1, <2>1, <2>2, PollIs DEF TypeInv, TypeOK, ProposalType
<1>4. CASE UNCHANGED <<collecting, proposed, received, net>>
  BY <1>1, <1>4, PollIs DEF TypeInv, TypeOK
<1> QED
  BY <1>3, <1>4, PollIs

LEMMA TypeTimeout ==
    ASSUME TypeInv, NEW n \in Node, CollectTimeout(n)
    PROVE  TypeInv'
<1>1. collecting[n] # Idle /\ Propose(n, pending[n][height[n]])
      /\ UNCHANGED <<shardHeight, channel, pending, height, blocks, chosen>>
  BY DEF CollectTimeout
<1>2. pending[n][height[n]] \in Seq(Chunk)
  BY <1>1 DEF TypeInv, TypeOK
<1>3. /\ net \subseteq net' /\ \A p \in net' : ProposalType(p)
      /\ proposed' \in [Node -> SUBSET net'] /\ received' \in [Node -> SUBSET net']
      /\ collecting' = [collecting EXCEPT ![n] = Idle]
  BY <1>1, <1>2, ProposeType
<1>4. /\ blocks' \in [Node -> Seq({p.block : p \in net'})]
      /\ chosen' \in [Height -> SUBSET {p.block.header : p \in net'}]
  BY <1>1, <1>3, NetGrows DEF TypeInv
<1> QED
  BY <1>1, <1>3, <1>4 DEF TypeInv, TypeOK, ProposalType

LEMMA TypeStep == TypeInv /\ [Next]_vars => TypeInv'
<1> SUFFICES ASSUME TypeInv, [Next]_vars PROVE TypeInv'
  OBVIOUS
<1>1. ASSUME NEW n \in Node, NEW s \in Shard, ShardDecides(n, s) PROVE TypeInv'
  <2>1. shardHeight[n][s] \in 0..MaxHeight /\ shardHeight[n][s] + 1 \in Height
    BY <1>1, HeightsNat DEF ShardDecides, TypeInv, TypeOK, Height
  <2>2. [shard |-> s, height |-> shardHeight[n][s] + 1] \in Chunk
    BY <2>1 DEF Chunk
  <2>3. channel' \in [Node -> Seq(Chunk)]
    BY <1>1, <2>2, AppendRange DEF ShardDecides, TypeInv, TypeOK
  <2>4. shardHeight' \in [Node -> [Shard -> 0..MaxHeight]]
    BY <1>1, <2>1, HeightsNat DEF ShardDecides, TypeInv, TypeOK, Height
  <2> QED
    BY <1>1, <2>3, <2>4 DEF ShardDecides, TypeInv, TypeOK
<1>2. ASSUME NEW n \in Node, NEW r \in Round, StartCollecting(n, r) PROVE TypeInv'
  BY <1>2 DEF StartCollecting, TypeInv, TypeOK
<1>3. ASSUME NEW n \in Node, NEW p \in net, ReceivedFullProposal(n, p) PROVE TypeInv'
  BY <1>3 DEF ReceivedFullProposal, Insert, TypeInv, TypeOK
<1>4. ASSUME NEW n \in Node, Decide(n) PROVE TypeInv'
  <2>1. PICK p \in proposed[n] : /\ blocks' = [blocks EXCEPT ![n] = Append(@, p.block)]
                                 /\ proposed' = [proposed EXCEPT ![n] = @ \ {p}]
    BY <1>4 DEF Decide
  <2>2. p.block \in {q.block : q \in net}
    BY DEF TypeInv, TypeOK
  <2>3. blocks' \in [Node -> Seq({q.block : q \in net})]
    BY <2>1, <2>2, AppendRange DEF TypeInv, TypeOK
  <2>4. proposed' \in [Node -> SUBSET net]
    BY <2>1 DEF TypeInv, TypeOK
  <2>5. pending' \in [Node -> [Height -> Seq(Chunk)]]
    <3>1. <<>> \in Seq(Chunk)
      OBVIOUS
    <3>2. Forget(pending[n], height[n]) \in [Height -> Seq(Chunk)]
      BY <3>1 DEF Forget, TypeInv, TypeOK
    <3> QED
      BY <1>4, <3>2 DEF Decide, TypeInv, TypeOK
  <2>6. height' \in [Node -> 1..(MaxHeight + 1)]
    <3>1. height[n] \in Height /\ height' = [height EXCEPT ![n] = height[n] + 1]
      BY <1>4 DEF Decide, TypeInv, TypeOK
    <3>2. height[n] + 1 \in 1..(MaxHeight + 1)
      BY <3>1, HeightsNat DEF Height
    <3>3. height \in [Node -> 1..(MaxHeight + 1)]
      BY DEF TypeInv, TypeOK
    <3> QED
      BY <3>1, <3>2, <3>3
  <2>7. \A m \in Node : collecting'[m] # Idle => height'[m] \in Height
    BY <1>4 DEF Decide, TypeInv, TypeOK
  <2> QED
    BY <1>4, <2>3, <2>4, <2>5, <2>6, <2>7 DEF Decide, TypeInv, TypeOK
<1>5. ASSUME NEW h \in Height, Choose(h) PROVE TypeInv'
  <2>1. chosen' \in [Height -> SUBSET {p.block.header : p \in net}]
    <3>1. PICK p \in net : chosen' = [chosen EXCEPT ![h] = {p.block.header}]
      BY <1>5 DEF Choose
    <3>2. {p.block.header} \in SUBSET {q.block.header : q \in net}
      OBVIOUS
    <3> QED
      BY <3>1, <3>2 DEF TypeInv, TypeOK
  <2> QED
    BY <1>5, <2>1 DEF Choose, TypeInv, TypeOK
<1>6. CASE UNCHANGED vars
  BY <1>6 DEF vars, TypeInv, TypeOK
<1> QED
  BY <1>1, <1>2, <1>3, <1>4, <1>5, <1>6, TypePoll, TypeTimeout DEF Next

(* Chunks, proposals, blocks and hashes keep their types; what a node      *)
(* keeps or appends was broadcast.                                         *)
THEOREM TypeCorrect == Spec => []TypeOK
<1>1. TypeInv => TypeOK
  BY DEF TypeInv
<1> QED
  BY <1>1, TypeInit, TypeStep, PTL DEF Spec

LEMMA TypeHolds == Spec => []TypeInv
BY TypeInit, TypeStep, PTL DEF Spec

-----------------------------------------------------------------------------
(* The chunks of a block *)

\* a proposal's chunks
FitsBlock(p) ==
    /\ \A i \in DOMAIN p.block.chunks : p.block.chunks[i].height = p.block.header.height
    /\ \A i, j \in DOMAIN p.block.chunks :
           p.block.chunks[i].shard = p.block.chunks[j].shard => i = j

(* Each decision is in one place at most: once in the channel, or once     *)
(* among the pending chunks of its height, and none is there that its      *)
(* shard has not decided.                                                  *)
OnePlace(n) ==
    /\ Distinct(channel[n])
    /\ \A c \in Range(channel[n]) : c.height <= shardHeight[n][c.shard]
    /\ \A h \in Height :
         /\ Distinct(pending[n][h])
         /\ Range(channel[n]) \cap Range(pending[n][h]) = {}
         /\ \A c \in Range(pending[n][h]) : c.height = h /\ h <= shardHeight[n][c.shard]

ChunkInv == ChunksFitBlock /\ \A n \in Node : OnePlace(n)

LEMMA FitIs == ChunksFitBlock <=> \A p \in net : FitsBlock(p)
BY DEF ChunksFitBlock, FitsBlock

(* Chunks of one height that are distinct are of distinct shards.          *)
LEMMA DistinctShards ==
    ASSUME NEW h, NEW s \in Seq(Chunk), Distinct(s), \A c \in Range(s) : c.height = h
    PROVE  /\ \A i \in DOMAIN s : s[i].height = h
           /\ \A i, j \in DOMAIN s : s[i].shard = s[j].shard => i = j
<1>1. \A i \in DOMAIN s : s[i] \in Range(s) /\ s[i] \in Chunk
  BY RangeOf DEF Range
<1>2. \A c, d \in Chunk : c.shard = d.shard /\ c.height = d.height => c = d
  BY DEF Chunk
<1> QED
  BY <1>1, <1>2 DEF Distinct

LEMMA ProposesFit ==
    ASSUME TypeInv, ChunkInv, NEW n \in Node, collecting[n] # Idle,
           NEW cs \in Seq(Chunk), Propose(n, cs), Distinct(cs), \A c \in Range(cs) : c.height = height[n]
    PROVE  ChunksFitBlock'
<1>1. \A p \in net' : p \in net \/ (p.block.header.height = height[n] /\ p.block.chunks = cs)
  BY ProposeType
<1>2. \A p \in net : FitsBlock(p)
  BY FitIs DEF ChunkInv
<1>3. ASSUME NEW p, p.block.header.height = height[n], p.block.chunks = cs PROVE FitsBlock(p)
  BY <1>3, DistinctShards DEF FitsBlock
<1>4. \A p \in net' : FitsBlock(p)
  BY <1>1, <1>2, <1>3
<1> QED
  BY <1>4 DEF ChunksFitBlock, FitsBlock

LEMMA ShardDecidesOnePlace ==
    ASSUME TypeInv, NEW n \in Node, OnePlace(n), NEW s \in Shard, ShardDecides(n, s)
    PROVE  OnePlace(n)'
<1> DEFINE c == [shard |-> s, height |-> shardHeight[n][s] + 1]
<1>1. shardHeight[n] \in [Shard -> 0..MaxHeight] /\ shardHeight[n][s] \in Nat /\ shardHeight[n][s] + 1 \in Height
  BY HeightsNat DEF ShardDecides, TypeInv, TypeOK, Height
<1>2. /\ c \in Chunk /\ channel[n] \in Seq(Chunk)
      /\ channel'[n] = Append(channel[n], c) /\ pending' = pending
      /\ shardHeight'[n] = [shardHeight[n] EXCEPT ![s] = @ + 1]
  BY <1>1 DEF ShardDecides, TypeInv, TypeOK, Chunk
<1>3. c \notin Range(channel[n]) /\ \A h \in Height : c \notin Range(pending[n][h])
  BY <1>1 DEF OnePlace
<1>4. Distinct(channel'[n]) /\ Range(channel'[n]) = Range(channel[n]) \cup {c}
  BY <1>2, <1>3, AppendRange DEF OnePlace
<1>5. \A t \in Shard : shardHeight[n][t] <= shardHeight'[n][t] /\ shardHeight[n][t] \in Nat /\ shardHeight'[n][t] \in Nat
  BY <1>1, <1>2, HeightsNat
<1>6. \A d \in Range(channel[n]) : d \in Chunk
  BY <1>2, RangeOf
<1>7. \A h \in Height : \A d \in Range(pending[n][h]) : d \in Chunk
  BY RangeOf DEF TypeInv, TypeOK
<1>8. \A d \in Chunk : d.shard \in Shard /\ d.height \in Nat
  BY HeightsNat DEF Chunk, Height
<1>9. \A d \in Range(channel'[n]) : d.height <= shardHeight'[n][d.shard]
  <2>1. c.height <= shardHeight'[n][c.shard]
    BY <1>1, <1>2
  <2>2. ASSUME NEW d \in Range(channel[n]) PROVE d.height <= shardHeight'[n][d.shard]
    <3>1. d.height <= shardHeight[n][d.shard] /\ d.shard \in Shard /\ d.height \in Nat
      BY <1>6, <1>8 DEF OnePlace
    <3> QED
      BY <1>5, <3>1
  <2> QED
    BY <1>4, <2>1, <2>2
<1>10. ASSUME NEW h \in Height, NEW d \in Range(pending[n][h])
       PROVE  d.height = h /\ h <= shardHeight'[n][d.shard]
  <2>1. d.height = h /\ h <= shardHeight[n][d.shard] /\ d.shard \in Shard /\ h \in Nat
    BY <1>7, <1>8, HeightsNat DEF OnePlace, Height
  <2> QED
    BY <1>5, <2>1
<1>11. \A h \in Height : Distinct(pending[n][h]) /\ Range(channel'[n]) \cap Range(pending[n][h]) = {}
  BY <1>3, <1>4 DEF OnePlace
<1> QED
  BY <1>2, <1>4, <1>9, <1>10, <1>11 DEF OnePlace

LEMMA FiledOnePlace ==
    ASSUME TypeInv, NEW n \in Node, OnePlace(n), channel[n] # <<>>
    PROVE  /\ Distinct(Tail(channel[n]))
           /\ \A c \in Range(Tail(channel[n])) : c.height <= shardHeight[n][c.shard]
           /\ \A h \in Height :
                /\ Distinct(Filed(n)[h])
                /\ Range(Tail(channel[n])) \cap Range(Filed(n)[h]) = {}
                /\ \A c \in Range(Filed(n)[h]) : c.height = h /\ h <= shardHeight[n][c.shard]
<1> DEFINE e == Head(channel[n])
<1>1. /\ e \in Chunk /\ Range(channel[n]) = Range(Tail(channel[n])) \cup {e}
      /\ Distinct(Tail(channel[n])) /\ e \notin Range(Tail(channel[n]))
  BY TailRange DEF OnePlace, TypeInv, TypeOK
<1>2. \A c \in Range(Tail(channel[n])) : c.height <= shardHeight[n][c.shard]
  BY <1>1 DEF OnePlace
<1>3. ASSUME NEW h \in Height
      PROVE  /\ Distinct(Filed(n)[h])
             /\ Range(Tail(channel[n])) \cap Range(Filed(n)[h]) = {}
             /\ \A c \in Range(Filed(n)[h]) : c.height = h /\ h <= shardHeight[n][c.shard]
  <2>1. CASE h # e.height
    <3>1. Filed(n)[h] = pending[n][h]
      BY <2>1, FiledType
    <3> QED
      BY <1>1, <3>1 DEF OnePlace
  <2>2. CASE h = e.height
    <3>1. Filed(n)[h] = Append(pending[n][h], e) /\ pending[n][h] \in Seq(Chunk)
      <4>1. Filed(n)[h] = IF h = e.height THEN Append(pending[n][h], e) ELSE pending[n][h]
        BY FiledType
      <4>2. pending[n][h] \in Seq(Chunk)
        BY DEF TypeInv, TypeOK
      <4> QED
        BY <2>2, <4>1, <4>2
    <3>2. e \notin Range(pending[n][h]) /\ Distinct(pending[n][h]) /\ h <= shardHeight[n][e.shard]
      BY <1>1, <2>2 DEF OnePlace
    <3>3. Distinct(Filed(n)[h]) /\ Range(Filed(n)[h]) = Range(pending[n][h]) \cup {e}
      BY <1>1, <3>1, <3>2, AppendRange
    <3> QED
      BY <1>1, <2>2, <3>2, <3>3 DEF OnePlace
  <2> QED
    BY <2>1, <2>2
<1> QED
  BY <1>1, <1>2, <1>3

LEMMA PollChunks ==
    ASSUME TypeInv, ChunkInv, NEW n \in Node, Poll(n)
    PROVE  ChunkInv'
<1>1. /\ channel'[n] = (IF channel[n] = <<>> THEN channel[n] ELSE Tail(channel[n]))
      /\ pending'[n] = Filed(n) /\ shardHeight' = shardHeight
      /\ \A m \in Node \ {n} : channel'[m] = channel[m] /\ pending'[m] = pending[m]
  <2>1. channel \in [Node -> Seq(Chunk)] /\ pending \in [Node -> [Height -> Seq(Chunk)]]
    BY DEF TypeInv, TypeOK
  <2>2. /\ channel' = [channel EXCEPT ![n] = IF @ = <<>> THEN @ ELSE Tail(@)]
        /\ pending' = [pending EXCEPT ![n] = Filed(n)] /\ shardHeight' = shardHeight
    BY PollIs
  <2> QED
    BY <2>1, <2>2
<1>2. OnePlace(n)'
  <2>1. CASE channel[n] = <<>>
    <3>1. Filed(n) = pending[n]
      BY <2>1 DEF Filed
    <3> QED
      BY <1>1, <2>1, <3>1 DEF ChunkInv, OnePlace
  <2>2. CASE channel[n] # <<>>
    <3>1. OnePlace(n)
      BY DEF ChunkInv
    <3> QED
      BY <1>1, <2>2, <3>1, FiledOnePlace DEF OnePlace
  <2> QED
    BY <2>1, <2>2
<1>3. \A m \in Node : OnePlace(m)'
  BY <1>1, <1>2 DEF ChunkInv, OnePlace
<1>4. height[n] \in Height /\ collecting[n] # Idle /\ Filed(n)[height[n]] \in Seq(Chunk)
  BY PollIs, FiledType DEF TypeInv
<1>5. /\ Distinct(Filed(n)[height[n]])
      /\ \A c \in Range(Filed(n)[height[n]]) : c.height = height[n]
  BY <1>1, <1>2, <1>4 DEF OnePlace
<1>6. CASE Propose(n, Filed(n)[height[n]])
  BY <1>3, <1>4, <1>5, <1>6, ProposesFit DEF ChunkInv
<1>7. CASE net' = net
  BY <1>3, <1>7 DEF ChunkInv, ChunksFitBlock
<1> QED
  BY <1>6, <1>7, PollIs

LEMMA ChunkStep == TypeInv /\ ChunkInv /\ [Next]_vars => ChunkInv'
<1> SUFFICES ASSUME TypeInv, ChunkInv, [Next]_vars PROVE ChunkInv'
  OBVIOUS
<1>1. ASSUME NEW n \in Node, NEW s \in Shard, ShardDecides(n, s) PROVE ChunkInv'
  <2>1. OnePlace(n)'
    BY <1>1, ShardDecidesOnePlace DEF ChunkInv
  <2>2. ASSUME NEW m \in Node \ {n} PROVE OnePlace(m)'
    <3>1. channel'[m] = channel[m] /\ shardHeight'[m] = shardHeight[m] /\ pending' = pending
      BY <1>1 DEF ShardDecides, TypeInv, TypeOK
    <3> QED
      BY <3>1 DEF ChunkInv, OnePlace
  <2>3. net' = net
    BY <1>1 DEF ShardDecides
  <2> QED
    BY <2>1, <2>2, <2>3 DEF ChunkInv, ChunksFitBlock
<1>2. ASSUME NEW n \in Node, CollectTimeout(n) PROVE ChunkInv'
  <2>1. /\ collecting[n] # Idle /\ height[n] \in Height /\ Propose(n, pending[n][height[n]])
        /\ UNCHANGED <<channel, pending, shardHeight>>
    BY <1>2 DEF CollectTimeout, TypeInv
  <2>2. /\ pending[n][height[n]] \in Seq(Chunk) /\ Distinct(pending[n][height[n]])
        /\ \A c \in Range(pending[n][height[n]]) : c.height = height[n]
    BY <2>1 DEF TypeInv, TypeOK, ChunkInv, OnePlace
  <2>3. ChunksFitBlock'
    BY <2>1, <2>2, ProposesFit
  <2> QED
    BY <2>1, <2>3 DEF ChunkInv, OnePlace
<1>3. ASSUME NEW n \in Node, Decide(n) PROVE ChunkInv'
  <2>1. UNCHANGED <<channel, shardHeight, net>>
    BY <1>3 DEF Decide
  <2>2. \A m \in Node, h \in Height : pending'[m][h] = pending[m][h] \/ pending'[m][h] = <<>>
    BY <1>3 DEF Decide, Forget, TypeInv, TypeOK
  <2> QED
    BY <2>1, <2>2, EmptyRange DEF ChunkInv, OnePlace, ChunksFitBlock
<1>4. CASE UNCHANGED <<channel, pending, shardHeight, net>>
  BY <1>4 DEF ChunkInv, OnePlace, ChunksFitBlock
<1>5. \/ \E n \in Node : (\E s \in Shard : ShardDecides(n, s)) \/ Poll(n) \/ CollectTimeout(n) \/ Decide(n)
      \/ UNCHANGED <<channel, pending, shardHeight, net>>
  BY DEF Next, StartCollecting, ReceivedFullProposal, Choose, vars
<1> QED
  BY <1>1, <1>2, <1>3, <1>4, <1>5, PollChunks

(* A block is made of chunks of its own height, at most one per shard,     *)
(* however far some shards are ahead and however late the channel is read. *)
THEOREM BlocksFit == Spec => []ChunksFitBlock
<1>1. TypeInv /\ Init => ChunkInv
  BY EmptyRange DEF Init, ChunkInv, ChunksFitBlock, OnePlace
<1>2. ChunkInv => ChunksFitBlock
  BY DEF ChunkInv
<1> QED
  BY <1>1, <1>2, TypeInit, TypeHolds, ChunkStep, PTL DEF Spec

-----------------------------------------------------------------------------
(* No chunk is lost *)

\* where the chunks of node n are
Kept(n) ==
    \A s \in Shard : \A h \in height[n]..shardHeight[n][s] :
        [shard |-> s, height |-> h] \in Range(channel[n]) \cup Range(pending[n][h])

LEMMA LostIs == NoChunkLost <=> \A n \in Node : Kept(n)
BY DEF NoChunkLost, Kept

LEMMA ShardDecidesKeeps ==
    ASSUME TypeInv, NEW n \in Node, Kept(n), NEW s \in Shard, ShardDecides(n, s)
    PROVE  Kept(n)'
<1> DEFINE c == [shard |-> s, height |-> shardHeight[n][s] + 1]
<1>1. /\ shardHeight[n] \in [Shard -> 0..MaxHeight] /\ shardHeight[n][s] \in Nat
      /\ shardHeight[n][s] + 1 \in Height /\ height[n] \in Nat
  BY HeightsNat DEF ShardDecides, TypeInv, TypeOK, Height
<1>2. /\ c \in Chunk /\ channel[n] \in Seq(Chunk)
      /\ channel'[n] = Append(channel[n], c) /\ pending' = pending /\ height' = height
      /\ shardHeight'[n] = [shardHeight[n] EXCEPT ![s] = @ + 1]
  BY <1>1 DEF ShardDecides, TypeInv, TypeOK, Chunk
<1>3. Range(channel'[n]) = Range(channel[n]) \cup {c}
  BY <1>2, AppendRange
<1>4. ASSUME NEW t \in Shard, NEW h \in height[n]..shardHeight'[n][t]
      PROVE  [shard |-> t, height |-> h] \in Range(channel'[n]) \cup Range(pending[n][h])
  <2>1. CASE t = s /\ h = shardHeight[n][s] + 1
    BY <1>3, <2>1
  <2>2. CASE ~(t = s /\ h = shardHeight[n][s] + 1)
    <3>1. h \in height[n]..shardHeight[n][t]
      BY <1>1, <1>2, <2>2
    <3> QED
      BY <1>3, <3>1 DEF Kept
  <2> QED
    BY <2>1, <2>2
<1> QED
  BY <1>2, <1>4 DEF Kept

LEMMA PollKeeps ==
    ASSUME TypeInv, NEW n \in Node, Kept(n), Poll(n)
    PROVE  Kept(n)'
<1>1. /\ channel \in [Node -> Seq(Chunk)] /\ pending \in [Node -> [Height -> Seq(Chunk)]]
      /\ height[n] \in Nat /\ height[n] >= 1 /\ \A s \in Shard : shardHeight[n][s] \in 0..MaxHeight
  BY HeightsNat DEF TypeInv, TypeOK
<1>2. /\ channel' = [channel EXCEPT ![n] = IF @ = <<>> THEN @ ELSE Tail(@)]
      /\ pending' = [pending EXCEPT ![n] = Filed(n)] /\ UNCHANGED <<shardHeight, height>>
  BY PollIs
<1>3. ASSUME NEW s \in Shard, NEW h \in height[n]..shardHeight[n][s]
      PROVE  [shard |-> s, height |-> h] \in Range(channel'[n]) \cup Range(pending'[n][h])
  <2> DEFINE d == [shard |-> s, height |-> h]
             e == Head(channel[n])
  <2>1. h \in Height /\ d \in Range(channel[n]) \cup Range(pending[n][h])
    BY <1>1, HeightsNat DEF Kept, Height
  <2>2. CASE channel[n] = <<>>
    BY <1>1, <1>2, <2>1, <2>2 DEF Filed
  <2>3. CASE channel[n] # <<>>
    <3>1. channel'[n] = Tail(channel[n]) /\ pending'[n] = Filed(n)
      BY <1>1, <1>2, <2>3
    <3>2. e \in Chunk /\ Range(channel[n]) = Range(Tail(channel[n])) \cup {e}
      BY <1>1, <2>3, TailRange
    <3>3. Filed(n)[h] = IF h = e.height THEN Append(pending[n][h], e) ELSE pending[n][h]
      BY <2>1, <2>3, FiledType
    <3>4. Range(pending[n][h]) \subseteq Range(Filed(n)[h]) /\ (h = e.height => e \in Range(Filed(n)[h]))
      <4>1. CASE h = e.height
        BY <1>1, <2>1, <3>2, <3>3, <4>1, AppendRange
      <4>2. CASE h # e.height
        BY <3>3, <4>2
      <4> QED
        BY <4>1, <4>2
    <3>5. d.height = h
      OBVIOUS
    <3> QED
      BY <2>1, <3>1, <3>2, <3>4, <3>5
  <2> QED
    BY <2>2, <2>3
<1> QED
  BY <1>2, <1>3 DEF Kept

LEMMA DecideKeeps ==
    ASSUME TypeInv, NEW n \in Node, Kept(n), Decide(n)
    PROVE  Kept(n)'
<1>1. height[n] \in Height /\ height[n] \in Nat /\ \A s \in Shard : shardHeight[n][s] \in 0..MaxHeight
  BY HeightsNat DEF Decide, TypeInv, TypeOK, Height
<1>2. height'[n] = height[n] + 1 /\ UNCHANGED <<shardHeight, channel>>
  BY DEF Decide, TypeInv, TypeOK
<1>3. \A h \in Height : h # height[n] => pending'[n][h] = pending[n][h]
  BY DEF Decide, Forget, TypeInv, TypeOK
<1>4. ASSUME NEW s \in Shard, NEW h \in height'[n]..shardHeight[n][s]
      PROVE  [shard |-> s, height |-> h] \in Range(channel[n]) \cup Range(pending'[n][h])
  <2>1. h \in height[n]..shardHeight[n][s] /\ h \in Height /\ h # height[n]
    BY <1>1, <1>2, HeightsNat DEF Height
  <2> QED
    BY <1>3, <2>1 DEF Kept
<1> QED
  BY <1>2, <1>4 DEF Kept

LEMMA LostStep == TypeInv /\ NoChunkLost /\ [Next]_vars => NoChunkLost'
<1> SUFFICES ASSUME TypeInv, NoChunkLost, [Next]_vars, NEW m \in Node PROVE Kept(m)'
  BY DEF NoChunkLost, Kept
<1>1. Kept(m)
  BY LostIs
<1>2. ASSUME channel'[m] = channel[m], pending'[m] = pending[m], height'[m] = height[m],
             shardHeight'[m] = shardHeight[m]
      PROVE  Kept(m)'
  BY <1>1, <1>2 DEF Kept
<1>3. ASSUME NEW n \in Node, NEW s \in Shard, ShardDecides(n, s) PROVE Kept(m)'
  <2>1. CASE n = m
    BY <1>1, <1>3, <2>1, ShardDecidesKeeps
  <2>2. CASE n # m
    BY <1>2, <1>3, <2>2 DEF ShardDecides, TypeInv, TypeOK
  <2> QED
    BY <2>1, <2>2
<1>4. ASSUME NEW n \in Node, Poll(n) PROVE Kept(m)'
  <2>1. CASE n = m
    BY <1>1, <1>4, <2>1, PollKeeps
  <2>2. CASE n # m
    <3>1. /\ channel' = [channel EXCEPT ![n] = IF @ = <<>> THEN @ ELSE Tail(@)]
          /\ pending' = [pending EXCEPT ![n] = Filed(n)] /\ UNCHANGED <<shardHeight, height>>
      BY <1>4, PollIs
    <3> QED
      BY <1>2, <2>2, <3>1 DEF TypeInv, TypeOK
  <2> QED
    BY <2>1, <2>2
<1>5. ASSUME NEW n \in Node, Decide(n) PROVE Kept(m)'
  <2>1. CASE n = m
    BY <1>1, <1>5, <2>1, DecideKeeps
  <2>2. CASE n # m
    BY <1>2, <1>5, <2>2 DEF Decide, TypeInv, TypeOK
  <2> QED
    BY <2>1, <2>2
<1>6. CASE UNCHANGED <<channel, pending, height, shardHeight>>
  BY <1>2, <1>6
<1>7. \/ \E n \in Node : (\E s \in Shard : ShardDecides(n, s)) \/ Poll(n) \/ Decide(n)
      \/ UNCHANGED <<channel, pending, height, shardHeight>>
  BY DEF Next, StartCollecting, CollectTimeout, ReceivedFullProposal, Choose, vars
<1> QED
  BY <1>3, <1>4, <1>5, <1>6, <1>7

(* A chunk its shard has decided waits in the channel or among the pending *)
(* chunks until the block of its height is decided on that node.           *)
THEOREM ChunksKept == Spec => []NoChunkLost
<1>1. Init => NoChunkLost
  BY DEF Init, NoChunkLost
<1> QED
  BY <1>1, TypeHolds, LostStep, PTL DEF Spec
=============================================================================
