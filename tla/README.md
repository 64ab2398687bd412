# A TLA+ model of snapchain

Snapchain orders Farcaster messages. Validators run one consensus instance per
shard and one for blocks; each decided shard chunk changes the shard's Merkle
trie, and every block collects the chunks of all shards at one height. This
directory holds TLA+ modules of the parts that carry that logic, the TLC
configurations that check them, and TLAPS proofs. `PROJECT.json` maps every
definition to the source lines it stands for and lists runs, mutants, hazards,
findings and theorems. Paths below are relative to the repository.

## Inventory

| Component | State it keeps | Operations | Talks to |
|---|---|---|---|
| Timer scheduler (`src/consensus/timers.rs`) | active timers by key, a generation counter, spawned tasks, messages in the actor's mailbox | start, cancel, cancel all, intercept a timeout message | the consensus actor |
| Consensus actor (`src/consensus/consensus.rs`, `validator.rs`, `src/core/types.rs`) | known validators, `started`, height, timeouts, Malachite's state | register a validator, start a height, receive a vote / proposal / full proposal, timeout, and Malachite's effects (get a value, decide, set timers, broadcast) | Malachite, proposer, gossip, timers |
| Shard proposer and engine (`src/consensus/proposer.rs`, `src/storage/store/engine.rs`) | decided chunks, proposals received, mempool, trie, shard store | propose a state change, receive a proposal, commit a chunk | trie, stores, decision channel |
| Block proposer (`src/consensus/proposer.rs`) | chunks by height, proposals by hash, blocks | collect chunks (polls, with a deadline), propose, receive, decide, catch up from a new validator | shard actors through a channel of 100 decisions |
| Merkle trie (`src/storage/trie`) | nodes in memory, pending batch, nodes in RocksDB | initialize, insert, delete, exists, commit, reload, unload | RocksDB |
| Block and shard stores, paging (`src/storage/store/block.rs`, `shard.rs`, `src/storage/db/rocksdb.rs`) | blocks and chunks by height | put, get a page, current height | RPC, engine |
| Message stores (`src/storage/store/account`) | messages, sets of adds and removes, secondary indexes, compact states | merge an add / remove / compact state, revoke, prune, query | RocksDB, event handler |
| Store event handler and name registry (`account/store_event_handler.rs`, `name_registry_events.rs`) | last timestamp and sequence; fname proofs by name and by fid | number and write an event; merge a username proof | message stores |
| Gossip and main loops (`src/network/gossip.rs`, `src/main.rs`) | two channels of 100 | forward events | consensus actors |
| RPC (`src/network/server.rs`) | none of its own | submit a message, get blocks | mempool, block store |
| Connectors, configuration, binaries | cursors, options | fetch, log | outside services |

What is hard in this code: timeout messages that outlive their timer; votes
that overtake the registrations a node waits for; nodes that enter one height
with different validator sets; an engine that computes a proposal's root by
changing the trie in place; chunks of several shards that run ahead of a slow
block proposer through a bounded channel; a trie that is partly in memory,
partly in a batch and partly in the database; message merges that read, decide
and only then commit, under locks that cover less than they read; a node that
catches up from peers while they go on, through a queue a crash empties; a trie
and a chunk that are written one after the other; event loops that wait for each
other's channels; event ids given out under one lock and committed under another.
The list, line by line, is under `hazards` in `PROJECT.json`.

## Modules

| Module | Models | Checked by |
|---|---|---|
| `TimerScheduler` | the timers of an actor | `MCTimerScheduler`, `TimerSchedulerProofs` |
| `ShardConsensus` | one shard on several nodes | `MCShardConsensus`, `ShardConsensusProofs`, `ShardRefinementProofs` |
| `ShardLog`, `ShardRefinement` | abstract: one replicated log; the mapping from `ShardConsensus` to it | `MCShardConsensus`, `ShardRefinementProofs` |
| `ShardEngine` | one shard of one node, with crashes | `MCShardEngine`, `ShardEngineProofs` |
| `BlockProposer` | block proposers and the decision channel | `MCBlockProposer`, `BlockProposerProofs` |
| `BlockSync` | a node that joins, block store, paging | `MCBlockSync`, `BlockSyncProofs` |
| `EventLoops` | main and gossip loop with their channels | itself |
| `MerkleTrie`, `KeySetStore` | the trie over memory, batch and database; the abstract set of keys it carries along | `MCMerkleTrie` |
| `MessageStore`, `StoreQueries` | the six message stores; their queries | `MCMessageStore`, `MessageStoreProofs` |
| `MessageSet` | abstract: a store as a set of messages changed in atomic steps | `MCMessageStore`, `MessageStoreProofs` |
| `StoreEventHandler`, `NameRegistry` | event ids; fname proofs beside them | `MCNameRegistry`, `NameRegistryProofs` |

Operators with an underscore in their names (`LockFree_Ignored`) are faulty
variants of the definition they precede; `PROJECT.json` says which property each
must break.

**TimerScheduler.** `timers` is the map from key to active timer, `tasks` the
spawned sleeps, `mailbox` the messages already cast. Each method of
`TimerScheduler` is an action; `TimeoutElapsed` is the whole handler:
interception, then growth of the timeout. Durations are left out, so a task may
fire at any moment after its start, also after an abort that came too late.

**ShardConsensus.** One shard on several nodes: registrations, the `== 3` start
rule with its delayed `StartHeight`, `start_height` with its early return,
starting on a received message, proposing (with the trie changed and reloaded),
precommitting, deciding and committing with the comparison of roots. Malachite
is external and appears as its contract: one current precommit per node and
height, given up only for a polka of another value counted in the voter's own
validator set (`Locked`), decisions by more than 2/3 of the set the height was
started with. Hashes are injective. A broadcast stays in `net`: it is received
late, twice or never by the node that acts on it.

**ShardLog** is what the shard's actors promise together: one log that only
grows, executed by every node in order, the state after each entry being the
root its header names. `ShardRefinement` gives the mapping: a node counts when
it started every height up to its own with validators of whom a quorum is a
majority of all (`FullViews`: three of up to five, five of six or seven;
`FullHistory`), it has executed as many entries as it has committed chunks
(`Position`), the log is that of the node that is furthest, and the state is its
trie. `Implements` says that every step of `ShardConsensus` is then a step of the
log or leaves it alone.

**ShardEngine.** One shard of one node with what a crash keeps and loses. The
mempool channel, `ShardProposer` and the engine's memory are lost; the trie's
nodes and the stored chunks share one database and stay. `CommitTrie` is
`decide` up to `trie.commit()`, with the panic; `PutShardChunk` is the separate
write, whose error is only logged. After `Restart` the heights begin at 1 with no
chunks, or at the height of the first message received. The other validators are
one environment that stays in step, decides its own chunks or this node's, and
may restart as a whole. `ShardConsensus` and `ShardEngine` divide the work: the
first has disagreement and no crash, the second a crash and an agreed sequence.

**BlockProposer.** Every node's block proposer with the decision channel in
front of it. The shard chains are agreed upon, so a chunk is named by shard and
height. The header holds no hash of the chunks (`shard_headers_hash` is empty in
the code), hence two proposals may have one hash; a node keeps the later one.

**BlockSync.** One node that joins: peers register with the height they have
stored, the block actor fetches what it lacks (once per peer, and not again if
that fails), appends it and publishes it through the bounded block channel to
the task that writes it. It may start consensus at any moment, at height 1 or at
a peer's height, decide blocks, crash and come back with its database alone.
`Lower`, `Upper`, `PageOf` and `GetBlocks` are the paging of the block store
with RocksDB's bounds. The chain is agreed upon, so a block is its number.

**EventLoops.** The `select!` loops of `main.rs` and `gossip.rs`, each of which
waits inside a branch when the channel it sends to is full, and the consensus
actors that broadcast into `gossip_tx`. Messages have no contents; the actors'
mailboxes are unbounded and left out.

**MerkleTrie.** Insertion with splits, deletion with compaction, lazy loading,
`update_hash`, commit and reload over explicit `root`, `batch` and `db`, and the
queries `exists`, `get_all_values` and `get_snapshot` with the nodes they load
(`LoadAll`, `LoadBelow`, `LoadAside`). The characters, key length and sentinel
are constants; blake3 is injective. `current` and `durable`, the keys asked for
and committed, evolve as in `KeySetStore`; `HoldsKeys` says the nodes hold exactly
these, and that every snapshot is that of a trie built afresh from them.

**MessageStore.** The generic store with each of the six definitions. `db` is
one map from keys to values as in RocksDB, a batch maps keys to a value or to a
deletion. An operation is two actions, the reads with the construction of the
batch, and `Commit`; between them another thread may act unless a fid lock keeps
it out. Only merges take a lock, that of `fid % FidLocks`; revoke and prune may
begin and commit at any moment, and a revoke may name a message that is not
stored any more. Two histories say how far the locks carry: `trimmed`, that
something was revoked or pruned, and `raced`, that an operation began while
another one touched a fid or a key of it, or on a message already gone. The
JavaScript bindings are left out. The directory is not yet compiled
into the crate (`src/storage/store/mod.rs` does not name it).

**MessageSet** is what a store promises: a set of messages, with merge, revoke
and prune as single steps. `Admissible` is the documented rule on the set alone,
without keys, indexes or batches; `held` reads the set from the primary keys and
the compact states. `AtomicStore` says that every commit of `MessageStore` is
such a step. A compact state sweeps the links of its fid whatever their kind, as
the code does.

**StoreQueries.** Every query of the stores as a function of `db`: one message
through the sets of adds and removes (links with both key formats), a fid's
messages through the primary keys, messages about a target through the secondary
indexes. A URL ends in no delimiter in its key; `Extends` says which targets
begin with which others.

**StoreEventHandler, NameRegistry.** `generate_id` with its two limits, called by
merges (under a fid lock until their commit), by revocations and prunes (under
none), by username proofs and by `js_get_next_event_id`, with a clock that moves
as it likes and restarts from the last event or from nothing. `visible` is what
`db.commit` wrote. The registry has the proofs by name and by fid, with
`merge_username_proof` as one step, since it runs on the JavaScript thread.

## Runs

| Run | Instance | States | What it shows |
|---|---|---|---|
| `timers` | 2 rounds, 3 timers started | 75,450 | no cancelled, replaced or repeated timer is taken as elapsed; every active timer has its task or its message outstanding; timeouts grow only on live timeouts; every timer ends |
| `consensus` | 3 nodes, 2 heights, 2 rounds, 1 message, in three scopes | 208,924 | starts and messages in any order never move a node back, and a node that knows all, or has decided, goes on; nodes with overlapping validator sets agree, the chain is linked, the "hashes don't match" panic is unreachable, and `ShardLog` is implemented |
| `consensus_fork` | as `consensus`, 1 height | | **violation** of `Agreement`: see Findings |
| `engine` | 2 messages, mempool of 1, 2 heights, a crash, a restart of the whole network | 3,282,279 | the trie is that of the chunks committed, wherever the crash fell; only a missed decision leads to a panic; a message is in one proposal at most; a restart costs at most one link; stored chunks are overwritten only after a restart of the whole network |
| `block_proposer` | 2 nodes, 2 shards, 2 heights, channel of 2 | 31,424 | chunks end in the block of their height, none is lost or doubled on the way, and blocks keep coming |
| `block_hash` | 1 height, 2 rounds | | **violation** of `BlockContentsAgree` |
| `sync` | 2 peers, a chain of 3, pages of 2, a channel of 1 | 1,047,478 | catching up continues with the next block each time, and the store has no gap until the node takes part in consensus, crashes included |
| `loops` | 2 actors, channels of 2 and 3 | 480 | **violation** of `RegistrationGoesOut` |
| `trie` | 3 keys of 3 characters, all batches of 1 or 2 distinct keys | 35,585 | every node has the hash and the count of the keys below it, in memory and in the database, whatever happened before; the trie holds the keys asked for and, after a reload, those committed |
| `message_store` | 6 stores with 4 to 9 messages, 3 fids on 2 of 4 locks, 2 threads, prunes of up to 2 | 857,940 | what the fid locks guarantee: indexes fit the messages, and an address or name has one owner; merges in any order leave the documented winners; compact states are respected; every query answers exactly what is stored; every commit is an atomic step of `MessageSet`; for a store that was trimmed, and for names and addresses, until operations the locks do not keep apart meet |
| `address_owners` | the verifications of the same instance | | **violation** of `OneOwner` |
| `events` | 2 threads, 2 fid locks, 2 timestamps of 2 numbers and one too large, 2 names, 2 fids, 6 proofs | 456,624 | ids are unique while the clock does not go back; merges under one lock of one store become visible in the order of their ids; the newest proof of a name wins; the entry by fid is exact |

Further configurations show what the code does where the properties above are
stated around it; `tlc -config X.cfg M` runs them:

| Configuration | Module | Result |
|---|---|---|
| `MCConsensusViews.cfg` | `MCShardConsensus` | scope `views` with 4 nodes, the least with which a lock may fail to guard a quorum: passes, 1,066,238 states |
| `MCBlockSyncPaging.cfg` | `MCBlockSync` | `SyncComplete` is violated: a node that joins stays behind |
| `MCTrieDuplicates.cfg` | `MCMerkleTrie` | batches with one key twice: `NodesAccurate` is violated |
| `MCPruneRace.cfg` | `MCMessageStore` | merges and prunes of links: `IndexesOK` is violated |
| `MCEventOrder.cfg` | `MCNameRegistry` | `CommitLock` is violated |

Why the bounds are enough. Three timers allow a key to be restarted twice with
older messages in flight. Three nodes are the smallest set that starts by the
`== 3` rule and allow three different partial views; two heights and two rounds
give every start, restart and competing proposal its successor. Both at once are
too many states, so `consensus` has three scopes in one state space: `start` begins
before the first registration and has only empty proposals of round 0, `views`
has nodes that lack up to two registrations compete over the first height, `chain`
begins registered and has everything. Two heights and one crash let a node miss,
replay or continue each of them, and one restart of the network puts a second
chain over the first. A channel of two is full when one shard runs a height
ahead. Keys of three characters split and compact at two levels below the
timestamp part. The messages of each store collide in every way the comparison
distinguishes: earlier, later, equal timestamps with the hashes for and against
the remove, another fid, another kind, an unpadded link, a URL that continues
another. A chain of three has blocks beyond the first page, and a channel of one
is full while the second block of a page is published. Two numbers per
millisecond are used up by the three calls of `events`, which also has a
timestamp past the limit.

`CHECK_DEADLOCK FALSE` is set where the bounds, or a shutdown, let the system stop.

`message_store` makes no assumption about callers: revoke and prune run beside
merges, of stored and of superseded messages, and fids that compete for a name
or an address share a lock (1 and 5) or not (1 and 2). Its threads are
symmetric. `QueriesExact` asks every lookup, every
scan by target and every scan by fid, over all time ranges between two
messages; it allows a query to fail when a stored target continues the one asked
for.

### Fairness

Only liveness uses it. In TimerScheduler: a spawned sleep ends and the actor
handles its mailbox (tokio and ractor). In ShardConsensus: a `StartHeight` sent
with `send_after` or cast by `decide` is handled; nothing is assumed of votes.
In BlockProposer: the block actor starts the height it is at and its first
round's collection, the collection's deadline passes, gossip delivers proposals,
and Malachite chooses and reports a value once there is one. Shard actors are
not assumed to make progress: blocks keep coming without them. In EventLoops,
strong fairness of each branch and each waiting sender: `select!` polls its ready
branches in random order and a tokio channel serves its senders in turn. The
counterexample needs none of it to fail: both loops are blocked for ever.

## Findings

1. `consensus_fork`: a node that gets a vote or a proposal before the
   registrations of its peers starts with itself as the only validator
   (`consensus.rs:277`) and decides alone.
2. `block_hash`: the block hash does not cover the chunks (`proposer.rs:338`);
   nodes that decide the same hash can store different blocks.
3. `loops`: the main loop waits for room in `gossip_tx` (`main.rs:204`) while the
   gossip loop waits for room in `system_tx` (`gossip.rs:186`), which only the main
   loop empties; with both channels full the node is stuck.
4. `address_owners`: a merge locks its own fid (`store.rs:653`), but a verification
   conflicts with another fid's: two fids verify one address at once and both
   adds stay, although "we also need to check for conflicts across all fids"
   (`verification_store.rs:238`). Username proofs have the same locks.

By the further configurations:

5. with a page token the upper bound of a forward iteration is below its lower
   bound (`rocksdb.rs:245`), so a node that joins gets at most one page of 100 blocks
   from a validator, and does not ask it again (`MCBlockSyncPaging.cfg`; the
   theorem `OnePage` proves it of every chain and page size). The sync test
   (`tests/consensus_test.rs:398`) has fewer blocks than a page.
6. prune and revoke take no lock (`store.rs:955`, `680`). A prune that read a link
   before it was superseded deletes the set entry of the link that superseded it,
   which stays stored and cannot be looked up (`MCPruneRace.cfg`), although "Indices
   are built to look up link adds in the adds set" (`link_store.rs:40`).
7. the comment that the generator's lock "also serves as the commit lock"
   (`store_event_handler.rs:95`) does not hold: the lock is released before
   `db.commit`, so an event may appear behind one with a larger id
   (`MCEventOrder.cfg`). Only the merges under one lock of one store are in order
   (`LockedEventsInOrder`): each store has its own array of locks (`store.rs:380`)
   over one event handler, so not even the events of one fid are.
8. a key twice in one insert batch is stored, but its success is overwritten and
   no node above counts or hashes it (`trie_node.rs:209`, `MCTrieDuplicates.cfg`).
   The engine inserts all messages drained from the mempool as one batch, so a
   message submitted twice is enough.

### Observations

Read from the models, where the properties are stated around them:

- a message drained into a proposal whose round fails, or in the mempool at a
  crash, is never proposed again (`engine.rs:66`, `MessageOnce`);
- when the whole network restarts, heights begin at 1 and stored chunks are
  overwritten (`StoreWriteOnce`); a node that joined late may propose a root that
  makes the others panic (`PanicOnlyAfterGap`);
- `get_confirmed_height` is always 0: the reverse scan of the shared database
  meets a trie node first (`shard.rs:75`, `ConfirmedHeight`);
- a clock that steps back, or a timestamp given to `js_get_next_event_id`, repeats
  ids (`monotone` in `EventIdsUnique`);
- when a name goes to another fid, or a fid takes a second name, the entry by fid
  is not exact any more (`unclear` in `ByFidExact`): the old owner's lookup returns
  the new owner's proof;
- a query by a parent or target URL fails when a longer stored URL begins with
  it (`MeetsLonger`); `get_many_messages_as_bytes` returns an error where its
  comment (`message.rs:285`) speaks of a missing entry;
- `unload_children` forgets children that are not in memory (`trie_node.rs:562`);
  only the engine's reload of the root after every commit, which `MerkleTrie`
  models (`mustReload`), hides it.

## Proofs

All proofs are checked by tlapm with Z3, Zenon and LS4.

*TimerSchedulerProofs*, for any rounds, number of timers and timeouts (naturals):
`TypeCorrect`, `StaleTimeoutsDiscarded` (`NoStaleTimeout`), `NoTimerLost`
(`ActiveTimerHasDelivery`), `OnlyLiveTimeoutsBackOff`
(`BackoffOnlyOnLiveTimeout`). `NoStaleTimeout` is not inductive: that a message of
an old generation is no longer active needs generations to be unique among
timers, tasks and messages (`GenerationsUnique`), an active timer to be fresh
(`ActiveIsFresh`) and generations not yet handed out to occur nowhere
(`FutureIsBlank`). Their conjunction with the type invariant is. The back-off
needs that durations never fall below the configured ones (`NeverShorter`):
then a reset cannot lengthen one.

*ShardConsensusProofs*, for any finite set of nodes, messages, heights and rounds:
`TypeCorrect`; `HeightsOnlyAdvance` (`NeverGoesBack`), from the type invariant
and the early return of `start_height`; `OverlappingViewsAgree`
(`AgreementOfOverlappingViews`) and its corollary `StartedNodesAgree`. Agreement
is stated for nodes whose validator sets V and W are such that any quorum of V
meets any quorum of W: |V ∪ W| < q(V) + q(W), where q is the smallest quorum
(`QuorumsMeet`, `OverlapMeets`), and whose voters are locked by sets that guard
those quorums (`Firm`): a voter gives its precommit up for a polka in its own set,
so that set must meet the quorum too, or be so small that a polka needs the
voter itself. With seven validators and a voter that knows four it need not, and
nothing is claimed of such a height. It rests on
`DecidedByQuorum`: every decided chunk whose voters' locks guard it still has,
among the validators its node started the height with, a quorum of current votes.
Precommits keep it because of the locking rule, `EnterHeight` because it changes
only a height not decided yet (hence `NotStartedIsBlank`). A node in both quorums
has one vote, which is for both chunks. With at most five validators any two sets
of three or more overlap so (`ThreeAreFull`), and every lock guards them,
whatever its voter knew (`FewFirm`): that is what the `== 3` start rule gives
(`StartedNodesAgree`). With six it does not: nodes that know disjoint threes may
disagree.

*ShardRefinementProofs*, for any heights, rounds and messages:
`ImplementsShardLog` (`Implements`), for at most five validators, since the nodes
outside the log vote too, with locks of their own; `CommitNeverPanics`
(`NoCommitPanic`) and `ChainIsLinked` (`ChainLinked`), for any number, as they
speak of executions in which every node has a set of `FullViews`. Quorums of two
such sets meet (`FullViewsMeet`). Three invariants carry them.
`StartInv`: a node enters its heights one after the other, with the validators
it knows, and keeps knowing them; without it a full history could be lost later.
`ChainInv`: the chunks of a node are those it decided, one per height, and its
trie is the root of the last one. `ProposalInv`: a proposal on the network has
the root its batch gives on the chain it builds on. Together with
`OverlappingViewsAgree`, two full histories are prefixes of one another, so the
log of the node that is furthest is well defined; that such a node exists is an
induction on the distance to the last height (`LeastElement`). A step is then
the furthest node's decision (`Extend`), another node's (`Follow`), or leaves
the mapping alone.

*ShardEngineProofs*, for any messages, heights, crashes and restarts:
`TypeCorrect`, `TrieSurvivesCrashes` (`TrieIsCommittedChunks`), `ProposedOnce`
(`MessageOnce`), `LinksSurviveRestarts` (`UnlinkedOnlyWhereStarted`),
`StoredChunksStay` (`StoreWriteOnce`), `NoPanicWithoutGap`
(`PanicOnlyAfterGap`). The type invariant needs a node that commits to be at a
decided position (`PositionOK`). `PanicOnlyAfterGap` is the deepest: `GapInv` says
that every header has the root of the chunks up to it and every proposal that
can still be decided the root the others will get (`NetworkOK`), and that the
trie holds nothing beyond the node's position and everything before it
(`SeenNotBeyond`, `SeenAllBefore`), so that roots agree whenever they are
compared. `ConfirmedHeightIsZero`
proves the observation above about `get_confirmed_height`.

*BlockProposerProofs*, for any nodes, shards, heights, rounds and channel:
`TypeCorrect`, `BlocksFit` (`ChunksFitBlock`), `ChunksKept` (`NoChunkLost`).
`ChunksFitBlock` needs to know that a chunk is in one place, in the channel or
pending, and pending under its own height (`OnePlace`); `NoChunkLost` is
inductive once the types are known.

*BlockSyncProofs*, for any peers, chain, page size and channel: `TypeCorrect`,
`CatchUpContinues` (`SyncContinues`), `StoreHasNoGap` (`StoreIsPrefix`). First,
what `get_blocks` computes: on a store without gaps the first page counts up from
its start (`FirstPage`), every page with a token is empty (`LaterPage`), so the
answer is the first page (`OnePage`). `SyncInv` then says that the peers' stores have no gap, that what is
fetched continues `blocks`, and that the channel holds the last blocks appended
while the store has every block before them. The last part is what a crash
needs: it empties the channel, and the node asks again from block 1.

*NameRegistryProofs*, for any threads, locks, clocks, limits, names, fids and
proofs: `TypeCorrect`, `IdsUnique` (`EventIdsUnique`), `LockedInOrder`
(`LockedEventsInOrder`), `NewestWins` (`NewestProofWins`), `EntriesExact`
(`ByFidExact`). Uniqueness follows from the generator's position being past
every id given out (`IdsBelow`, `Counted`) while the clock is monotone; the order
under one lock of one store from one batch at a time being under way for it; the registry's two
theorems from one proof per name, none of those merged being newer
(`NoneNewer`), and the entries being exact for fids whose names were never
unclear (`EntryExact`).

*MessageStoreProofs*, for any messages of the six stores, threads, fids and
number of locks: `TypeCorrect`, `CompactStatesRespected` (`CompactRespected`),
`IndexesAlwaysMatch` (`IndexesMatch`), `StoresConverge` (`Converges`),
`QueriesAlwaysExact` (`QueriesExact`), `StoreIsAtomic` (`AtomicStore`), and
`MergeAlwaysExact`: the few index entries a merge reads decide as the whole set
would, it admits exactly what `Admissible` allows. None assumes anything of the
callers or of which fids share a lock. `FidLocksSuffice` says what the locks
guarantee by themselves: operations meet (`raced`) only after a revoke or a
prune, or in the stores of names and addresses (`Exposed`). In the other four,
merges of adds, removes and compact states keep the indexes, the queries and
atomicity in every interleaving; where the locks are not enough, all this lasts
until operations meet, and findings 4 and 6 show what happens then.

- `TypeInv`: every entry of the database is an entry of some message, every
  batch under way puts the entries of one message and deletes those of others,
  and a lock has one holder. `StepKinds` reduces `Next` to these batches.
- `CompactInv`: besides the property, a merge under way is still allowed by the
  compact states stored under its lock. Revoke and prune take no lock, but only
  delete, so this theorem makes no assumption about callers.
- `IndexInv`: the database matches its messages (`Match`: held messages are about
  different things, every entry belongs to one, every one has its entries), no two
  operations under way meet (`NoMeet`), and each was computed from what is still
  held. Its core is that messages about different things share no key
  (`KeysApart`) and that `get_merge_conflicts` returns exactly the held messages
  about the same thing, padded and unpadded keys alike (`ConflictsAre`).
  `SerialInv` says when it holds: while nothing raced. Until the first revoke or
  prune all operations under way hold their locks (`AllLocked`), and a merge
  of a cast, link, reaction or user data touches its own fid only (`Touches`), so
  that merges under different locks stay apart (`Apart`, `FidsApart`).
- `ConvergeInv`: every message offered is held, about to be, or outranked by
  another one offered (`Kept`), so winners are held; and by one that is held or
  about to be (`Covered`), so nothing else is. The second part needs collisions
  to be transitive, which fails for verifications with removes: two fids' adds of
  an address collide, an add and a remove only within a fid. `message_compare` is
  the documented order (`BelowIs`), which is strict (`RankOrder`).
- `AtomicInv`: the batch of every operation under way is the one it would make of
  what is held now. A commit of an operation it does not meet changes nothing it
  read (`AtomicCommit`); hence `StoreIsAtomic`.
- The queries follow from `Match` alone.

Only model-checked: `EveryTimerEnds`, `KeepsStarting` and `BlocksKeepComing`
(liveness under fairness is beyond the prover), and everything about the trie
(its operators are recursive, and what they compute takes an induction over the
tree). Every other property of a passing run is stated by a theorem.

## Not modelled, and the plan

Left out for good: connectors, whose fetched events are only logged;
configuration, binaries, tracing and generated types, which have no protocol
state; the JavaScript wrappers around the stores; the trie's `clear`, which
nothing calls, and the metadata read from its nodes; the paging of the stores'
queries, whose bounds are those of `BlockSync`; `migrate_verifications`, a
one-time rewrite of keys. Malachite stays a contract.

Worth doing next: the trie, with its operators as recursive functions on paths,
so that at least its type invariant and what a commit writes can be proved.
