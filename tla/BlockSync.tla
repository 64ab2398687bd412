------------------------------ MODULE BlockSync ------------------------------
(***************************************************************************)
(* How a node that joins late gets the blocks it missed: registrations     *)
(* with the sender's height (src/main.rs), the catching up of              *)
(* BlockProposer::register_validator (src/consensus/proposer.rs), the RPC  *)
(* and block store it reads from (src/network/server.rs,                   *)
(* src/storage/store/block.rs, src/storage/db/rocksdb.rs) and the task     *)
(* that writes its blocks (src/main.rs).                                   *)
(*                                                                         *)
(* The chain is agreed upon (see ShardConsensus), so a block is its        *)
(* number.  Peers took part from block 1 and are at different heights of   *)
(* the chain; one node joins.                                              *)
(***************************************************************************)
EXTENDS Naturals, FiniteSets, FiniteSetsExt, Sequences, SequencesExt

CONSTANTS
    Peer,      \* the validators that serve blocks
    MaxChain,  \* bound on the number of blocks
    PageSize,  \* PAGE_SIZE, 100 in the code
    QueueCap   \* capacity of the block channel, 100 in the code

ASSUME SizesPositive == MaxChain \in Nat /\ PageSize \in Nat \ {0} /\ QueueCap \in Nat \ {0}

VARIABLES
    peerStore,  \* [Peer -> set of blocks] the peers' block stores
    ads,        \* registrations on their way: <<peer, current_height>>
    known,      \* validator_set of the joining node's block actor
    fetched,    \* blocks register_validator has yet to append
    blocks,     \* BlockProposer.blocks
    queue,      \* block_tx
    store,      \* the joining node's block store
    started,    \* ShardValidator.started
    height,     \* driver.height()
    promised,   \* history: the greatest height a successful sync was asked for
    joined      \* history: the node has taken part in consensus before

netVars == <<peerStore, ads>>
vars == <<netVars, known, fetched, blocks, queue, store, started, height, promised, joined>>

Block == 1..MaxChain

-----------------------------------------------------------------------------
(* The block store.  Keys order blocks by number.                          *)

(* get_iterator_options, with the token 0 for None: the iteration is from  *)
(* lower, inclusive, to upper, exclusive.                                  *)
Lower(start, token) == IF token = 0 THEN start ELSE token + 1
Upper(token) == IF token = 0 THEN MaxChain + 1 ELSE token

(* The iterator's order: the i-th block has i - 1 smaller ones.            *)
Ascending(S) ==
    [i \in 1..Cardinality(S) |-> CHOOSE b \in S : Cardinality({c \in S : c < b}) = i - 1]

(* get_block_page_by_prefix: up to PageSize blocks, and the key of the     *)
(* last one as token if the page is full.                                  *)
PageOf(S, start, token) ==
    LET found == Ascending({b \in S : Lower(start, token) <= b /\ b < Upper(token)})
    IN SubSeq(found, 1, IF Len(found) < PageSize THEN Len(found) ELSE PageSize)
NextToken(page) == IF Len(page) >= PageSize THEN page[Len(page)] ELSE 0

\* get_blocks: pages until one has no token
GetBlocks(S, start) ==
    LET from[token \in {0} \cup S] ==
            LET page == PageOf(S, start, token)
            IN IF NextToken(page) = 0 THEN page ELSE page \o from[NextToken(page)]
    IN from[0]

\* mutant: the key after the last
MaxBlockNumber_Next(S) == Max(S \cup {0}) + 1

\* max_block_number: the last block in reverse order, 0 for an empty store
MaxBlockNumber(S) == Max(S \cup {0})

\* the number of the last element of blocks, 0 if there is none
LastBlock == IF blocks = <<>> THEN 0 ELSE blocks[Len(blocks)]

-----------------------------------------------------------------------------
Init ==
    /\ peerStore = [p \in Peer |-> {}]
    /\ ads = {}
    /\ known = {}
    /\ fetched = <<>>
    /\ blocks = <<>>
    /\ queue = <<>>
    /\ store = {}
    /\ started = FALSE
    /\ height = 1
    /\ promised = 0
    /\ joined = FALSE

\* BlockProposer::decide on a peer stores the block before anything else
PeerDecides(p) ==
    /\ MaxBlockNumber(peerStore[p]) < MaxChain
    /\ peerStore' = [peerStore EXCEPT ![p] = @ \cup {MaxBlockNumber(@) + 1}]
    /\ UNCHANGED <<ads, known, fetched, blocks, queue, store, started, height, promised, joined>>

\* every fifth tick of the main loop: register with the height stored now
Advertise(p) ==
    /\ ads' = ads \cup {<<p, MaxBlockNumber(peerStore[p])>>}
    /\ UNCHANGED <<peerStore, known, fetched, blocks, queue, store, started, height, promised, joined>>

\* mutant: from the last block on
MissingFrom_Last == LastBlock

\* start_block_number of the request
MissingFrom == LastBlock + 1

\* SnapchainService::get_blocks of a peer, with no stop_block_number
Answer(p) == GetBlocks(peerStore[p], MissingFrom)

(* RegisterValidator on the block actor, up to the response to get_blocks. *)
(* A peer already seen is ignored; the actor handles nothing else until    *)
(* the blocks are appended.  The peer's store is read when it answers.     *)
RegisterValidator(a) ==
    /\ fetched = <<>>
    /\ a[1] \notin known
    /\ known' = known \cup {a[1]}
    /\ IF a[2] > LastBlock
       THEN /\ fetched' = Answer(a[1])
            /\ promised' = Max({promised, a[2]})
       ELSE UNCHANGED <<fetched, promised>>
    /\ UNCHANGED <<netVars, blocks, queue, store, started, height, joined>>

\* the peer cannot be reached: the error is logged, and the peer is known
RegisterFails(a) ==
    /\ fetched = <<>>
    /\ a[1] \notin known /\ a[2] > LastBlock
    /\ known' = known \cup {a[1]}
    /\ UNCHANGED <<netVars, fetched, blocks, queue, store, started, height, promised, joined>>

\* mutant: a block that finds the channel full is dropped
PublishMissing_Drops ==
    /\ fetched # <<>>
    /\ blocks' = Append(blocks, Head(fetched))
    /\ queue' = IF Len(queue) < QueueCap THEN Append(queue, Head(fetched)) ELSE queue
    /\ fetched' = Tail(fetched)
    /\ UNCHANGED <<netVars, known, store, started, height, promised, joined>>

\* one turn of register_validator's loop; publish_new_block waits for room
PublishMissing ==
    /\ fetched # <<>>
    /\ Len(queue) < QueueCap
    /\ blocks' = Append(blocks, Head(fetched))
    /\ queue' = Append(queue, Head(fetched))
    /\ fetched' = Tail(fetched)
    /\ UNCHANGED <<netVars, known, store, started, height, promised, joined>>

\* the task that puts published blocks
WriteBlock ==
    /\ queue # <<>>
    /\ store' = store \cup {Head(queue)}
    /\ queue' = Tail(queue)
    /\ UNCHANGED <<netVars, known, fetched, blocks, started, height, promised, joined>>

(* Consensus starts: at height 1 by the third registration, or at the      *)
(* height of a vote or proposal of a peer, the one after its last block.   *)
Start(h) ==
    /\ fetched = <<>> /\ ~started
    /\ h \in {1} \cup {MaxBlockNumber(peerStore[p]) + 1 : p \in Peer}
    /\ started' = TRUE
    /\ height' = h
    /\ joined' = TRUE
    /\ UNCHANGED <<netVars, known, fetched, blocks, queue, store, promised>>

(* BlockProposer::decide: commit_block, publish_new_block, push; then the  *)
(* next height.  Waiting for room between commit_block and push only       *)
(* delays: the actor does nothing else, and a crash meanwhile leaves the   *)
(* database as a crash after Decide does.                                  *)
Decide ==
    /\ fetched = <<>> /\ started
    /\ height <= MaxChain
    /\ Len(queue) < QueueCap
    /\ store' = store \cup {height}
    /\ queue' = Append(queue, height)
    /\ blocks' = Append(blocks, height)
    /\ height' = height + 1
    /\ UNCHANGED <<netVars, known, fetched, started, promised, joined>>

(* A crash and SnapchainNode::create: only the database survives.          *)
Restart ==
    /\ known' = {}
    /\ fetched' = <<>>
    /\ blocks' = <<>>
    /\ queue' = <<>>
    /\ started' = FALSE
    /\ height' = 1
    /\ promised' = 0
    /\ UNCHANGED <<netVars, store, joined>>

Next ==
    \/ \E p \in Peer : PeerDecides(p) \/ Advertise(p)
    \/ \E a \in ads : RegisterValidator(a) \/ RegisterFails(a)
    \/ PublishMissing
    \/ WriteBlock
    \/ \E h \in 1..(MaxChain + 1) : Start(h)
    \/ Decide
    \/ Restart

Spec == Init /\ [][Next]_vars

-----------------------------------------------------------------------------
(* Type invariant; a registration never promises more than its sender has  *)
(* stored, and what is fetched was stored by a peer.                       *)
TypeOK ==
    /\ peerStore \in [Peer -> SUBSET Block]
    /\ \A a \in ads : a[1] \in Peer /\ a[2] \in {0} \cup peerStore[a[1]]
    /\ known \subseteq Peer
    /\ Range(fetched) \subseteq UNION Range(peerStore)
    /\ blocks \in Seq(Block) /\ queue \in Seq(Block) /\ Len(queue) <= QueueCap
    /\ store \subseteq Block
    /\ started \in BOOLEAN /\ joined \in BOOLEAN
    /\ height \in 1..(MaxChain + 1) /\ promised \in 0..MaxChain

(* Whatever peer is asked, and however it went on since it registered,     *)
(* catching up continues blocks with the next number each time: no gap and *)
(* no block twice (register_validator asks from the last block on).        *)
SyncContinues ==
    [][fetched # <<>> /\ fetched' # fetched /\ blocks' # <<>>
         => blocks' = Append(blocks, LastBlock + 1)]_vars

(* Until the node takes part in consensus its store has no gap, whatever   *)
(* peers it synced from and wherever it crashed, with the channel to the   *)
(* writer at its limit: a restart that lost queued blocks asks again from  *)
(* block 1.                                                                *)
StoreIsPrefix == ~joined => store = 1..MaxBlockNumber(store)

(* "Node 4 should have confirmed blocks" (test_basic_block_sync): a node   *)
(* that synced with a validator has as many blocks as it announced.        *)
SyncComplete == fetched = <<>> /\ queue = <<>> => MaxBlockNumber(store) >= promised
=============================================================================
