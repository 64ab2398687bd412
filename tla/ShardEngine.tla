----------------------------- MODULE ShardEngine ----------------------------
(***************************************************************************)
(* One shard of one node, with its crashes: the mempool, the ShardProposer *)
(* (consensus/proposer.rs), the ShardEngine (storage/store/engine.rs) with *)
(* its trie, and the ShardStore (storage/store/shard.rs), which share one  *)
(* database.  ShardConsensus has several nodes and no crash; here the      *)
(* other validators are one environment, in step with each other, that     *)
(* decides one chunk after the other, some of them proposed by this node.  *)
(*                                                                         *)
(* What a crash keeps is the trie's committed nodes and the stored chunks; *)
(* a chunk is committed to the trie and then written in a second step.     *)
(* After a restart the heights begin at 1 again with no chunks in memory,  *)
(* or at the height of the first message received.  Gossip does not repeat *)
(* the messages of heights that were decided before the node came up,      *)
(* except those of the last one, which may still be on their way.          *)
(*                                                                         *)
(* The root of a trie is the set of message hashes in it.  A chunk is      *)
(* named by its position in agreed; 0 is the parent [0, 32] of a first one.*)
(***************************************************************************)
EXTENDS Naturals, FiniteSets, Sequences, Functions

CONSTANTS
    Msg,          \* user messages, each submitted once to this node
    MempoolSize,  \* capacity of the messages channel (10,000)
    MaxHeight,    \* bound on heights
    MaxCrashes,   \* bound on crashes of this node
    MaxEras       \* bound on how often the whole network starts from height 1

ASSUME BoundsNat ==
    MempoolSize \in Nat /\ MaxHeight \in Nat \ {0} /\ MaxCrashes \in Nat /\ MaxEras \in Nat

VARIABLES
    \* the other validators
    agreed,     \* Seq(Chunk)  every chunk decided so far
    base,       \* Nat         how many of them before the network last restarted
    eras,       \* Nat         how often it restarted
    others,     \* SUBSET Msg  their trie
    halted,     \* BOOLEAN     they panicked
    \* in the memory of this node
    phase,      \* Phase
    height,     \* Nat         driver.height()
    joined,     \* Nat         messages of heights below it were missed
    lastChunk,  \* Nat         the last element of ShardProposer.chunks
    mempool,    \* Seq(Msg)    the messages channel
    proposed,   \* SUBSET Chunk  this node's proposals, all broadcast
    recorded,   \* Nat         the height the actor records for itself
    \* in its database
    trie,       \* SUBSET Msg
    store,      \* [Height -> set of at most one position in agreed]
    \* history
    seen,       \* SUBSET Nat  positions committed to the trie
    began,      \* SUBSET Nat  positions at which the node was started
    gapped,     \* BOOLEAN     a height was started with an earlier one missing
    accepted,   \* SUBSET Msg  messages submit_message answered Ok for
    offers,     \* [Msg -> Nat]  proposals made with a message, counted to 2
    crashes     \* Nat

network == <<agreed, base, eras, others, halted>>
memory  == <<phase, height, joined, lastChunk, recorded>>
disk    == <<trie, store>>
history == <<seen, began, gapped, accepted, offers, crashes>>
vars == <<network, memory, mempool, proposed, disk, history>>

Height == 1..MaxHeight
Phase  == {"down", "idle", "running", "committing", "decided", "panicked"}
Up     == phase \in {"idle", "running", "committing", "decided"}

\* the height the others are at, and the position of this node's height
NetHeight == Len(agreed) - base + 1
Position  == base + height

\* some chunk before position i is not in the trie
Missed(i) == \E j \in 1..(i - 1) : j \notin seen

Chunk(h, p, ms, r) == [height |-> h, parent |-> p, msgs |-> ms, root |-> r]

-----------------------------------------------------------------------------
(* The database *)

(* The keys of the database by their prefix: the chunks have a smaller one *)
(* than the nodes of the trie, of which ShardEngine::new commits the first *)
(* before anything else is stored.                                         *)
ShardPrefix == 2
TriePrefix  == 11
Keys == {<<ShardPrefix, h>> : h \in {k \in Height : store[k] # {}}} \cup {<<TriePrefix, 0>>}

Before(j, k) == j[1] < k[1] \/ (j[1] = k[1] /\ j[2] <= k[2])

(* get_confirmed_height: the reverse scan for one value has no upper       *)
(* bound.  A trie node does not decode as a chunk (items, field 3, is a    *)
(* varint where a chunk has its transactions), and the error becomes 0.    *)
ConfirmedHeight ==
    LET last == CHOOSE k \in Keys : \A j \in Keys : Before(j, k)
    IN IF last[1] = ShardPrefix THEN last[2] ELSE 0

Init ==
    /\ agreed = <<>> /\ base = 0 /\ eras = 0 /\ others = {} /\ halted = FALSE
    /\ phase = "idle" /\ height = 1 /\ joined = 0 /\ lastChunk = 0 /\ recorded = 0
    /\ mempool = <<>> /\ proposed = {}
    /\ trie = {} /\ store = [h \in Height |-> {}]
    /\ seen = {} /\ began = {} /\ gapped = FALSE /\ accepted = {} /\ offers = [m \in Msg |-> 0] /\ crashes = 0

-----------------------------------------------------------------------------
(* The other validators *)

(* The others decide the chunk c and replay it: they too panic when the    *)
(* root is not the one they get.                                           *)
NetworkDecides(c) ==
    /\ ~halted
    /\ c.height = NetHeight
    /\ c.height \in Height
    /\ agreed' = Append(agreed, c)
    /\ \/ c.root = others \cup c.msgs /\ others' = c.root /\ UNCHANGED halted
       \/ c.root # others \cup c.msgs /\ halted' = TRUE /\ UNCHANGED others
    /\ UNCHANGED <<base, eras, memory, mempool, proposed, disk, history>>

(* A chunk proposed by one of them.                                        *)
OthersChunk(ms) ==
    Chunk(NetHeight, IF NetHeight = 1 THEN 0 ELSE Len(agreed), ms, others \cup ms)

(* All the others restart, this node being down too: they are at height 1  *)
(* again, with the tries they had.                                         *)
NetworkRestarts ==
    /\ phase = "down"
    /\ eras < MaxEras
    /\ eras' = eras + 1
    /\ base' = Len(agreed)
    /\ halted' = FALSE
    /\ proposed' = {}
    /\ UNCHANGED <<agreed, others, memory, mempool, disk, history>>

-----------------------------------------------------------------------------
(* Messages *)

\* mutant: the channel is unbounded
HasRoom_Always == TRUE

\* mpsc::channel(10_000)
HasRoom == Len(mempool) < MempoolSize

(* submit_message: send waits while the channel is full, and fails when    *)
(* the actor that holds the receiver has ended.                            *)
SubmitMessage(m) ==
    /\ Up
    /\ m \notin accepted
    /\ HasRoom
    /\ mempool' = Append(mempool, m)
    /\ accepted' = accepted \cup {m}
    /\ UNCHANGED <<network, memory, proposed, disk, seen, began, gapped, offers, crashes>>

\* mutant: the messages are copied, not received
Drained_Kept == mempool

\* the channel after propose_state_change has received all there is
Drained == <<>>

\* mutant: the trie is committed where it should be reloaded
Reloaded_Committed(root) == root

\* propose_state_change reloads the trie after taking the root
Reloaded(root) == trie

(* Effect::GetValue in any round of the height in which this node is the   *)
(* proposer.                                                               *)
ProposeValue ==
    LET ms == Range(mempool)
        root == trie \cup ms
    IN /\ phase = "running"
       /\ proposed' = proposed \cup {Chunk(height, lastChunk, ms, root)}
       /\ mempool' = Drained
       /\ trie' = Reloaded(root)
       /\ offers' = [m \in Msg |-> IF m \in ms /\ offers[m] < 2 THEN offers[m] + 1 ELSE offers[m]]
       /\ UNCHANGED <<network, memory, store, seen, began, gapped, accepted, crashes>>

-----------------------------------------------------------------------------
(* Heights *)

\* the height of a node that has not started: 1 by the third registration,
\* or that of the first vote or proposal received
StartHeight(h) ==
    /\ phase = "idle"
    /\ h \in Height
    /\ h = 1 \/ h \in {NetHeight, NetHeight - 1}
    /\ phase' = "running"
    /\ height' = h
    /\ began' = began \cup {base + h}
    /\ gapped' = (gapped \/ Missed(base + h))
    /\ UNCHANGED <<network, joined, lastChunk, recorded, mempool, proposed, disk,
                   seen, accepted, offers, crashes>>

\* StartHeight of the next height, cast by Decide
NextHeight ==
    /\ phase = "decided"
    /\ height < MaxHeight
    /\ phase' = "running"
    /\ height' = height + 1
    /\ UNCHANGED <<network, joined, lastChunk, recorded, mempool, proposed, disk, history>>

\* mutant: the chunk is not kept in memory
Pushed_Never(i) == lastChunk

\* ShardProposer::decide pushes the chunk
Pushed(i) == i

(* Effect::Decide up to trie.commit(): the chunk is pushed, its messages   *)
(* inserted, and the trie committed if the root is the header's; otherwise *)
(* commit_shard_chunk panics and the actor ends.                           *)
CommitTrie ==
    LET c == agreed[Position]
        root == trie \cup c.msgs
    IN /\ phase = "running"
       /\ height >= joined
       /\ Position <= Len(agreed)
       /\ lastChunk' = Pushed(Position)
       /\ \/ /\ root = c.root
             /\ trie' = root
             /\ seen' = seen \cup {Position}
             /\ phase' = "committing"
          \/ /\ root # c.root
             /\ phase' = "panicked"
             /\ UNCHANGED <<trie, seen>>
       /\ UNCHANGED <<network, height, joined, recorded, mempool, proposed, store,
                      began, gapped, accepted, offers, crashes>>

\* mutant: the block number is not part of the key
ShardKey_Constant(h) == 1

\* make_shard_key
ShardKey(h) == h

(* put_shard_chunk, a transaction of its own; an error is only logged.     *)
PutShardChunk ==
    /\ phase = "committing"
    /\ phase' = "decided"
    /\ store' \in {store, [store EXCEPT ![ShardKey(height)] = {Position}]}
    /\ proposed' = proposed \ {agreed[Position]}
    /\ UNCHANGED <<network, height, joined, lastChunk, recorded, mempool, trie, history>>

-----------------------------------------------------------------------------
(* Crashes *)

(* The process ends: what was in memory is gone.  (Proposals stay in the   *)
(* hands of the others.)  A panicked actor is restarted with its process.  *)
Crash ==
    /\ phase # "down"
    /\ crashes < MaxCrashes
    /\ crashes' = crashes + 1
    /\ phase' = "down"
    /\ mempool' = <<>>
    /\ lastChunk' = 0
    /\ UNCHANGED <<network, height, joined, recorded, proposed, disk,
                   seen, began, gapped, accepted, offers>>

\* ConsensusParams::start_height
StartsAt == 1

\* mutant: the trie begins empty
Recovered_Empty == {}

\* MerkleTrie::initialize loads the root that was committed last; the key
\* ShardEngine::new always inserts is found and changes nothing
Recovered == trie

(* SnapchainNode::create, ShardEngine::new, post_start.                  *)
Restart ==
    /\ phase = "down"
    /\ phase' = "idle"
    /\ height' = StartsAt
    /\ joined' = NetHeight - 1
    /\ recorded' = ConfirmedHeight
    /\ trie' = Recovered
    /\ UNCHANGED <<network, lastChunk, mempool, proposed, store, history>>

Next ==
    \/ \E c \in {OthersChunk(ms) : ms \in SUBSET Msg} \cup proposed : NetworkDecides(c)
    \/ NetworkRestarts
    \/ \E m \in Msg : SubmitMessage(m)
    \/ ProposeValue
    \/ \E h \in Height : StartHeight(h)
    \/ NextHeight
    \/ CommitTrie
    \/ PutShardChunk
    \/ Crash
    \/ Restart

Spec == Init /\ [][Next]_vars

-----------------------------------------------------------------------------
(* Type invariant: a panicked or crashed node keeps no part of a commit.   *)
TypeOK ==
    /\ \A i \in DOMAIN agreed : agreed[i].height \in Height /\ agreed[i].msgs \subseteq Msg
    /\ base \in 0..Len(agreed)
    /\ eras \in 0..MaxEras
    /\ others \subseteq Msg
    /\ halted \in BOOLEAN
    /\ phase \in Phase
    /\ height \in Height
    /\ joined \in 0..MaxHeight
    /\ lastChunk \in 0..Len(agreed)
    /\ mempool \in Seq(Msg) /\ Len(mempool) <= MempoolSize
    /\ proposed \subseteq [height : Height, parent : 0..Len(agreed), msgs : SUBSET Msg, root : SUBSET Msg]
    /\ recorded \in 0..MaxHeight
    /\ trie \subseteq Msg
    /\ store \in [Height -> SUBSET (1..Len(agreed))]
    /\ seen \subseteq 1..Len(agreed)
    /\ began \subseteq 1..(Len(agreed) + MaxHeight)
    /\ gapped \in BOOLEAN
    /\ accepted \subseteq Msg
    /\ offers \in [Msg -> 0..2]
    /\ crashes \in 0..MaxCrashes

(* Whatever crashed between the trie's commit and the write of the chunk,  *)
(* and whatever was proposed meanwhile, the committed trie is made of the  *)
(* chunks committed and contains every stored one.                         *)
TrieIsCommittedChunks ==
    /\ trie = UNION {agreed[i].msgs : i \in seen}
    /\ \A h \in Height : store[h] \subseteq seen

(* "hashes don't match" takes a missed decision: a restarted node that     *)
(* replays a chunk its trie already has, or continues after it, does not   *)
(* panic, and its proposals do not make the others panic.                  *)
PanicOnlyAfterGap == phase = "panicked" \/ halted => gapped

(* A message accepted by submit_message is in the mempool or in exactly    *)
(* one proposal this node ever made, and only a crash takes it from the    *)
(* mempool otherwise: a failed round does not propose it again.            *)
MessageOnce ==
    \A m \in Msg :
        /\ offers[m] <= 1
        /\ m \in Range(mempool) => offers[m] = 0
        /\ m \in accepted /\ crashes = 0 => m \in Range(mempool) \/ offers[m] = 1

(* A restart costs the chain at most one link: a chunk that is not the     *)
(* first and does not build on the one before was proposed by this node    *)
(* at the height it was started at.                                        *)
UnlinkedOnlyWhereStarted ==
    \A i \in DOMAIN agreed :
        agreed[i].height > 1 /\ agreed[i].parent # i - 1 => i \in began

(* A stored chunk is never replaced by another one of the same run of the  *)
(* network, however often heights are replayed after crashes; only when    *)
(* the whole network begins at height 1 again is it overwritten.           *)
StoreWriteOnce ==
    [][\A h \in Height :
         store[h] # {} /\ store'[h] # store[h] => \A i \in store[h] : i <= base]_vars
=============================================================================
