---------------------------- MODULE BlockProposer ----------------------------
(***************************************************************************)
(* How shard chunks become blocks: the BlockProposer of                    *)
(* src/consensus/proposer.rs on every node, fed by the decision channel    *)
(* the node's shard actors write to (src/node/snapchain_node.rs).          *)
(*                                                                         *)
(* The block consensus is used through what it promises: per height one    *)
(* header hash is chosen among those proposed (see ShardConsensus), and    *)
(* every node decides the heights in order.  The shard chains are agreed   *)
(* upon, so a chunk is named by its shard and height; how far each shard   *)
(* actor has come differs from node to node.                               *)
(*                                                                         *)
(* The hash of a block is its header.  The header holds the height, the    *)
(* parent's hash and a timestamp in seconds, and nothing about the chunks: *)
(* shard_headers_hash is always empty.                                     *)
(***************************************************************************)
EXTENDS Integers, FiniteSets, Sequences, SequencesExt

CONSTANTS
    NumNodes,    \* validators, in the order of their addresses
    NumShards,   \* config.num_shards()
    MaxHeight,   \* bound on block heights
    MaxRound,    \* bound on rounds within a height
    ChannelCap,  \* capacity of the decision channel (100 in the code)
    Time,        \* timestamps, in seconds, proposers may read
    Genesis      \* the parent hash [0, 32] of a first block

ASSUME CountsNat == /\ NumNodes \in Nat \ {0} /\ NumShards \in Nat \ {0}
                    /\ ChannelCap \in Nat \ {0}
ASSUME HeightsNat == MaxHeight \in Nat \ {0} /\ MaxRound \in Nat

Node   == 1..NumNodes
Shard  == 1..NumShards
Height == 1..MaxHeight
Round  == 0..MaxRound
Chunk  == [shard : Shard, height : Height]
Idle   == -1

VARIABLES
    shardHeight, \* [Node -> [Shard -> Nat]] chunks the shard actor decided
    channel,     \* [Node -> Seq(Chunk)]     shard_decision_rx
    pending,     \* [Node -> [Height -> Seq(Chunk)]] pending_chunks
    height,      \* [Node -> Nat]            height the block actor works on
    collecting,  \* [Node -> Round or Idle]  propose_value is waiting for chunks
    proposed,    \* [Node -> set of proposals] proposed_blocks, keyed by hash
    blocks,      \* [Node -> Seq(block)]     blocks published and appended
    received,    \* [Node -> set of proposals] broadcasts a node has seen
    net,         \* full proposals broadcast so far
    chosen       \* [Height -> set]          the hash consensus chose, if any

vars == <<shardHeight, channel, pending, height, collecting, proposed, blocks,
          received, net, chosen>>

Init ==
    /\ shardHeight = [n \in Node |-> [s \in Shard |-> 0]]
    /\ channel = [n \in Node |-> <<>>]
    /\ pending = [n \in Node |-> [h \in Height |-> <<>>]]
    /\ height = [n \in Node |-> 1]
    /\ collecting = [n \in Node |-> Idle]
    /\ proposed = [n \in Node |-> {}]
    /\ blocks = [n \in Node |-> <<>>]
    /\ received = [n \in Node |-> {}]
    /\ net = {}
    /\ chosen = [h \in Height |-> {}]

(* The shard actor's decide: tx_decision.send waits while the channel is   *)
(* full.                                                                   *)
ShardDecides(n, s) ==
    /\ shardHeight[n][s] < MaxHeight
    /\ Len(channel[n]) < ChannelCap
    /\ shardHeight' = [shardHeight EXCEPT ![n][s] = @ + 1]
    /\ channel' = [channel EXCEPT
         ![n] = Append(@, [shard |-> s, height |-> shardHeight[n][s] + 1])]
    /\ UNCHANGED <<pending, height, collecting, proposed, blocks, received, net, chosen>>

(* select_proposer's round robin.                                          *)
Proposer(h, r) == ((h - 1 + r) % NumNodes) + 1

(* Effect::GetValue: propose_value starts collecting for its height.       *)
StartCollecting(n, r) ==
    /\ collecting[n] = Idle
    /\ height[n] \in Height
    /\ n = Proposer(height[n], r)
    /\ \A p \in net : p.proposer = n /\ p.block.header.height = height[n] => p.round < r
    /\ collecting' = [collecting EXCEPT ![n] = r]
    /\ UNCHANGED <<shardHeight, channel, pending, height, proposed, blocks, received, net,
                   chosen>>

(* proposed_blocks.insert: a proposal with the same hash is replaced.      *)
Insert(P, p) == {q \in P : q.block.header # p.block.header} \cup {p}

\* the hash of the last block, or [0, 32]
LastHash(n) == IF blocks[n] = <<>> THEN Genesis ELSE Last(blocks[n]).header

\* mutant: the proposal is kept but not broadcast
Broadcast_Dropped(p) == net

\* GossipEvent::BroadcastFullProposal
Broadcast(p) == net \cup {p}

(* The end of propose_value: a block of what was collected for the height, *)
(* kept and broadcast.                                                     *)
Propose(n, chunks) ==
    \E t \in Time :
        LET p == [proposer |-> n, round |-> collecting[n],
                  block |-> [header |-> [height |-> height[n], parent |-> LastHash(n),
                                         time |-> t],
                             chunks |-> chunks]]
        IN /\ net' = Broadcast(p)
           /\ proposed' = [proposed EXCEPT ![n] = Insert(@, p)]
           /\ received' = [received EXCEPT ![n] = @ \cup {p}]
           /\ collecting' = [collecting EXCEPT ![n] = Idle]

\* mutant: the chunk is filed under the height being collected
File_Requested(P, c, h) == [P EXCEPT ![h] = Append(@, c)]

\* a received chunk is filed under its own height
File(P, c, h) == [P EXCEPT ![c.height] = Append(@, c)]

(* One tick of collect_confirmed_shard_chunks: take at most one decision   *)
(* from the channel, stop when the height has a chunk of every shard.      *)
Poll(n) ==
    /\ collecting[n] # Idle
    /\ LET h == height[n]
           filed == IF channel[n] = <<>> THEN pending[n]
                    ELSE File(pending[n], Head(channel[n]), h)
       IN /\ channel' = [channel EXCEPT ![n] = IF @ = <<>> THEN @ ELSE Tail(@)]
          /\ pending' = [pending EXCEPT ![n] = filed]
          /\ \/ /\ Len(filed[h]) = NumShards
                /\ Propose(n, filed[h])
             \/ /\ Len(filed[h]) # NumShards
                /\ UNCHANGED <<collecting, proposed, received, net>>
    /\ UNCHANGED <<shardHeight, height, blocks, chosen>>

\* mutant: with no chunk at all the deadline is waited for again
CollectTimeout_NeedsChunk(n) ==
    /\ collecting[n] # Idle
    /\ pending[n][height[n]] # <<>>
    /\ Propose(n, pending[n][height[n]])
    /\ UNCHANGED <<shardHeight, channel, pending, height, blocks, chosen>>

(* The deadline passes: propose the chunks there are, possibly none.       *)
CollectTimeout(n) ==
    /\ collecting[n] # Idle
    /\ Propose(n, pending[n][height[n]])
    /\ UNCHANGED <<shardHeight, channel, pending, height, blocks, chosen>>

(* ReceivedFullProposal: kept, always Valid.  The actor handles nothing    *)
(* while propose_value is waiting; gossip delivers a broadcast once.       *)
ReceivedFullProposal(n, p) ==
    /\ collecting[n] = Idle
    /\ p \notin received[n]
    /\ received' = [received EXCEPT ![n] = @ \cup {p}]
    /\ proposed' = [proposed EXCEPT ![n] = Insert(@, p)]
    /\ UNCHANGED <<shardHeight, channel, pending, height, collecting, blocks, net, chosen>>

(* Block consensus settles on one of the hashes proposed for a height.     *)
Choose(h) ==
    /\ chosen[h] = {}
    /\ \E p \in net : /\ p.block.header.height = h
                      /\ chosen' = [chosen EXCEPT ![h] = {p.block.header}]
    /\ UNCHANGED <<shardHeight, channel, pending, height, collecting, proposed, blocks,
                   received, net>>

\* mutant: the chunks of the next height are dropped
Forget_Next(P, h) == [k \in Height |-> IF k = h + 1 THEN <<>> ELSE P[k]]

\* pending_chunks.remove(height)
Forget(P, h) == [P EXCEPT ![h] = <<>>]

(* Effect::Decide: the block held under the chosen hash is published and   *)
(* appended, its proposal and the height's pending chunks are removed and  *)
(* the next height is started.                                             *)
Decide(n) ==
    /\ collecting[n] = Idle
    /\ height[n] \in Height
    /\ \E p \in proposed[n] :
         /\ p.block.header \in chosen[height[n]]
         /\ blocks' = [blocks EXCEPT ![n] = Append(@, p.block)]
         /\ proposed' = [proposed EXCEPT ![n] = @ \ {p}]
    /\ pending' = [pending EXCEPT ![n] = Forget(@, height[n])]
    /\ height' = [height EXCEPT ![n] = @ + 1]
    /\ UNCHANGED <<shardHeight, channel, collecting, received, net, chosen>>

Next ==
    \/ \E n \in Node :
         \/ \E s \in Shard : ShardDecides(n, s)
         \/ \E r \in Round : StartCollecting(n, r)
         \/ Poll(n)
         \/ CollectTimeout(n)
         \/ \E p \in net : ReceivedFullProposal(n, p)
         \/ Decide(n)
    \/ \E h \in Height : Choose(h)

(* The poll interval and the deadline of a collecting node both elapse, the*)
(* first round's proposer is asked for a value, broadcasts arrive, and the *)
(* consensus on a height for which there is a proposal ends.  Nothing is   *)
(* assumed of the shard actors.                                            *)
Fairness ==
    /\ \A n \in Node : /\ WF_vars(StartCollecting(n, 0))
                       /\ WF_vars(CollectTimeout(n))
                       /\ WF_vars(\E p \in net : ReceivedFullProposal(n, p))
                       /\ WF_vars(Decide(n))
    /\ \A h \in Height : WF_vars(Choose(h))

Spec == Init /\ [][Next]_vars
FairSpec == Spec /\ Fairness

-----------------------------------------------------------------------------
(* Type invariant; what is proposed or appended was broadcast.             *)
TypeOK ==
    /\ shardHeight \in [Node -> [Shard -> 0..MaxHeight]]
    /\ channel \in [Node -> Seq(Chunk)]
    /\ pending \in [Node -> [Height -> Seq(Chunk)]]
    /\ height \in [Node -> 1..(MaxHeight + 1)]
    /\ collecting \in [Node -> Round \cup {Idle}]
    /\ proposed \in [Node -> SUBSET net] /\ received \in [Node -> SUBSET net]
    /\ blocks \in [Node -> Seq({p.block : p \in net})]
    /\ \A p \in net : p.proposer \in Node /\ p.round \in Round /\ p.block.chunks \in Seq(Chunk)
    /\ chosen \in [Height -> SUBSET {p.block.header : p \in net}]

(* A block is made of chunks of its own height, at most one per shard, in  *)
(* whatever order the shards decide and however late the channel is read.  *)
ChunksFitBlock ==
    \A p \in net :
        LET cs == p.block.chunks IN
        /\ \A i \in DOMAIN cs : cs[i].height = p.block.header.height
        /\ \A i, j \in DOMAIN cs : cs[i].shard = cs[j].shard => i = j

(* No chunk is lost on the way: one its shard has decided waits in the     *)
(* channel or among the pending chunks until the block of its height is    *)
(* decided on that node.                                                   *)
NoChunkLost ==
    \A n \in Node, s \in Shard :
        \A h \in height[n]..shardHeight[n][s] :
            [shard |-> s, height |-> h] \in Range(channel[n]) \cup Range(pending[n][h])

(* Blocks go on even if shards stop: no proposer waits for a chunk for     *)
(* ever, so every node decides every height.                               *)
BlocksKeepComing == \A n \in Node : <>(height[n] > MaxHeight)

(* Nodes that decided a height stored the same block, chunks included.     *)
BlockContentsAgree ==
    \A n, m \in Node : \A i \in DOMAIN blocks[n] \cap DOMAIN blocks[m] :
        blocks[n][i].header = blocks[m][i].header => blocks[n][i] = blocks[m][i]
=============================================================================
