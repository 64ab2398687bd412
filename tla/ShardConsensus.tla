--------------------------- MODULE ShardConsensus ---------------------------
(***************************************************************************)
(* The consensus actors of one shard on several nodes: the actor of        *)
(* src/consensus/consensus.rs with its ShardValidator (validator.rs),      *)
(* ShardProposer (proposer.rs) and ShardEngine (storage/store/engine.rs).  *)
(*                                                                         *)
(* The voting itself is the Malachite library, which is external: here it  *)
(* is its contract.  Within one height every validator has at most one     *)
(* current precommit; it is locked on it until more than 2/3 of the        *)
(* validators it was started with may prevote another value; and a node    *)
(* decides a value it holds when more than 2/3 of the validators it was    *)
(* started with precommit that value.  What those validators are, when a   *)
(* height starts, what is proposed and what a decision does to the local   *)
(* state is the program's, and modelled in full.                           *)
(*                                                                         *)
(* Hashes are injective: the hash of a chunk is its header, the root of a  *)
(* trie is the set of message hashes in it.  A broadcast stays in net and  *)
(* is received, late or never, by the node that acts on it; proposed_chunks*)
(* is therefore any part of net (of two proposals with one hash a node     *)
(* holds the one it received last).  Nodes do not crash here.              *)
(***************************************************************************)
EXTENDS Naturals, FiniteSets, Sequences

CONSTANTS
    Node,       \* the validators, numbered in the order of their addresses
    Msg,        \* user message hashes
    MaxHeight,  \* bound on heights
    MaxRound,   \* bound on rounds within a height
    Genesis     \* the parent hash [0, 32] of a first chunk

ASSUME NodeFinite == Node \subseteq Nat /\ IsFiniteSet(Node)
ASSUME BoundsNat == MaxHeight \in Nat \ {0} /\ MaxRound \in Nat

VARIABLES
    validators,   \* [Node -> SUBSET Node]  ShardValidator.validator_set
    started,      \* [Node -> BOOLEAN]      ShardValidator.started
    pendingStart, \* [Node -> SUBSET Nat]   StartHeight messages on their way
    height,       \* [Node -> Nat]          driver.height()
    phase,        \* [Node -> Phase]
    view,         \* [Node -> [Height -> SUBSET Node]] the set a height started with
    vote,         \* [Node -> [Height -> set]] the header precommitted, if any
    net,          \* full proposals broadcast so far
    chunks,       \* [Node -> Seq(chunk)]   ShardProposer.chunks
    trie          \* [Node -> SUBSET Msg]   the engine's committed trie

actorVars  == <<validators, started, pendingStart>>
driverVars == <<height, phase, view, vote>>
engineVars == <<chunks, trie>>
vars == <<actorVars, driverVars, net, engineVars>>

Height == 1..MaxHeight
Round  == 0..MaxRound
Phase  == {"idle", "running", "decided", "panicked"}
StartPeers == 3

(* SnapchainValidatorContext::select_proposer: round robin over the        *)
(* validators in address order.                                            *)
Proposer(V, h, r) ==
    CHOOSE n \in V :
        Cardinality({m \in V : m < n}) = (h - 1 + r) % Cardinality(V)

(* Malachite's default threshold: more than 2/3 of the voting power, every *)
(* validator having power 1.                                               *)
IsQuorum(Q, V) == 3 * Cardinality(Q) > 2 * Cardinality(V)

VotersFor(v, h, V) == {m \in V : vote[m][h] = {v}}

\* mutant: Height::decrement is called
NextHeight_Decrement(h) == h - 1

\* Height::increment
NextHeight(h) == h + 1

Alive(n) == phase[n] # "panicked"
Running(n) == phase[n] = "running"

\* mutant: the parent is not looked up
LastHash_Genesis(n) == Genesis

\* the parent hash of the next chunk: that of the last one
LastHash(n) == IF chunks[n] = <<>> THEN Genesis ELSE chunks[n][Len(chunks[n])].header

Init ==
    /\ validators = [n \in Node |-> {n}]    \* post_start adds the node itself
    /\ started = [n \in Node |-> FALSE]
    /\ pendingStart = [n \in Node |-> {}]
    /\ height = [n \in Node |-> 1]
    /\ phase = [n \in Node |-> "idle"]
    /\ view = [n \in Node |-> [h \in Height |-> {}]]
    /\ vote = [n \in Node |-> [h \in Height |-> {}]]
    /\ net = {}
    /\ chunks = [n \in Node |-> <<>>]
    /\ trie = [n \in Node |-> {}]

-----------------------------------------------------------------------------
(* Starting *)

\* mutant: off by one, the node itself is not counted
StartsConsensus_NotSelf(V) == Cardinality(V) = StartPeers + 1

\* the registration that makes the set three strong schedules the start
StartsConsensus(V) == Cardinality(V) = StartPeers

(* RegisterValidator: a validator already in the set is ignored; the third *)
(* member schedules StartHeight with the driver's height of that moment.   *)
(* (sync_with_new_validator does nothing for a shard.)                     *)
RegisterValidator(n, m) ==
    /\ Alive(n)
    /\ m \notin validators[n]
    /\ LET V == validators[n] \cup {m} IN
         /\ validators' = [validators EXCEPT ![n] = V]
         /\ pendingStart' = [pendingStart EXCEPT
              ![n] = IF StartsConsensus(V) THEN @ \cup {height[n]} ELSE @]
    /\ UNCHANGED <<started, driverVars, net, engineVars>>

\* mutant: a start at a height already reached is not ignored
IgnoresStart_Never(n, h) == FALSE

\* start_height's early return
IgnoresStart(n, h) == started[n] /\ height[n] >= h

(* start_height: the driver starts the height with the validators known    *)
(* now; they stay its validators for the whole height.                     *)
EnterHeight(n, h) ==
    /\ height' = [height EXCEPT ![n] = h]
    /\ phase' = [phase EXCEPT ![n] = "running"]
    /\ view' = [view EXCEPT ![n][h] = validators[n]]
    /\ started' = [started EXCEPT ![n] = TRUE]
    /\ UNCHANGED <<validators, vote, net, engineVars>>

(* The StartHeight message is handled.                                     *)
StartHeight(n, h) ==
    /\ Alive(n)
    /\ h \in pendingStart[n]
    /\ h \in Height
    /\ pendingStart' = [pendingStart EXCEPT ![n] = @ \ {h}]
    /\ \/ /\ ~IgnoresStart(n, h)
          /\ EnterHeight(n, h)
       \/ /\ IgnoresStart(n, h)
          /\ UNCHANGED <<validators, started, driverVars, net, engineVars>>

(* ReceivedSignedVote and ReceivedSignedProposal start a node that has not *)
(* started, at the height of the message and with whatever validators it   *)
(* has seen so far.  (On a started node they only feed the library.)  A    *)
(* node that is at height h may have sent one: it votes, for nil if need   *)
(* be, when its propose timeout elapses.                                   *)
StartOnMessage(n, h) ==
    /\ Alive(n)
    /\ ~started[n]
    /\ \E m \in Node \ {n} : view[m][h] # {}
    /\ EnterHeight(n, h)
    /\ UNCHANGED pendingStart

-----------------------------------------------------------------------------
(* Proposing *)

(* The state root a batch leads to (insert into the trie, take the root,   *)
(* reload).                                                                *)
RootAfter(n, msgs) == trie[n] \cup msgs

ProposalOf(n, r, msgs) ==
    [proposer |-> n, round |-> r,
     chunk |-> [header |-> [height |-> height[n], parent |-> LastHash(n),
                            root |-> RootAfter(n, msgs)],
                msgs |-> msgs]]

(* n is the proposer of round r and has not proposed in it or a later one: *)
(* a node reaches any round by timeouts and never goes back.               *)
MayPropose(n, r) ==
    /\ Running(n)
    /\ n = Proposer(view[n][height[n]], height[n], r)
    /\ \A q \in net :
         q.proposer = n /\ q.chunk.header.height = height[n] => q.round < r

\* mutant: the trie is not reloaded after computing the root
ProposeValue_NoReload(n, r, msgs) ==
    /\ MayPropose(n, r)
    /\ net' = net \cup {ProposalOf(n, r, msgs)}
    /\ trie' = [trie EXCEPT ![n] = RootAfter(n, msgs)]
    /\ UNCHANGED <<actorVars, driverVars, chunks>>

(* Effect::GetValue: propose_value drains the mempool (any set of messages *)
(* users have submitted to this node), takes the root the batch leads to   *)
(* and builds the chunk on the last one; the proposal is kept and          *)
(* broadcast.  All proposals carry one timestamp: the case in which        *)
(* headers collide most.                                                   *)
ProposeValue(n, r, msgs) ==
    /\ MayPropose(n, r)
    /\ net' = net \cup {ProposalOf(n, r, msgs)}
    /\ UNCHANGED <<actorVars, driverVars, engineVars>>

-----------------------------------------------------------------------------
(* Voting and deciding *)

(* Malachite: a precommit is given up only for a polka of another value,   *)
(* counted in the voter's own validator set; those who precommit the same  *)
(* value do not prevote another.  (Votes carry no rounds here: a precommit *)
(* that was given up no longer counts for anybody.)                        *)
Locked(n, h) ==
    \E v \in vote[n][h] :
        ~IsQuorum({m \in view[n][h] : vote[m][h] # {v}}, view[n][h])

(* Malachite: precommit a value that is held and was proposed for this     *)
(* height by the proposer of its round.                                    *)
Precommit(n, p) ==
    LET h == height[n]
        v == p.chunk.header
    IN /\ Running(n)
       /\ v.height = h
       /\ p.proposer = Proposer(view[n][h], h, p.round)
       /\ v \notin vote[n][h]
       /\ ~Locked(n, h)
       /\ vote' = [vote EXCEPT ![n][h] = {v}]
       /\ UNCHANGED <<actorVars, height, phase, view, net, engineVars>>

\* mutant: the votes are counted against a simple majority
CanDecide_Majority(n, v) ==
    2 * Cardinality(VotersFor(v, height[n], view[n][height[n]]))
        > Cardinality(view[n][height[n]])

\* Malachite: a quorum of the validators the height was started with
CanDecide(n, v) ==
    IsQuorum(VotersFor(v, height[n], view[n][height[n]]), view[n][height[n]])

(* Effect::Decide: the chunk is appended, the batch replayed on the trie   *)
(* and committed if the root is the header's (commit_shard_chunk panics    *)
(* otherwise, which ends the actor), the proposal removed and StartHeight  *)
(* of the next height cast.                                                *)
Decide(n, p) ==
    LET h == height[n]
        v == p.chunk.header
        root == RootAfter(n, p.chunk.msgs)
    IN /\ Running(n)
       /\ v.height = h
       /\ CanDecide(n, v)
       /\ chunks' = [chunks EXCEPT ![n] = Append(@, p.chunk)]
       /\ \/ /\ root = v.root
             /\ trie' = [trie EXCEPT ![n] = root]
             /\ pendingStart' = [pendingStart EXCEPT ![n] = @ \cup {NextHeight(h)}]
             /\ phase' = [phase EXCEPT ![n] = "decided"]
          \/ /\ root # v.root
             /\ phase' = [phase EXCEPT ![n] = "panicked"]
             /\ UNCHANGED <<trie, pendingStart>>
       /\ UNCHANGED <<validators, started, height, view, vote, net>>

Next ==
    \E n \in Node :
        \/ \E m \in Node : RegisterValidator(n, m)
        \/ \E h \in Height : StartHeight(n, h) \/ StartOnMessage(n, h)
        \/ \E r \in Round, msgs \in SUBSET Msg : ProposeValue(n, r, msgs)
        \/ \E p \in net : Precommit(n, p) \/ Decide(n, p)

(* A StartHeight that was sent is handled: ractor delivers every message   *)
(* of a live actor's mailbox and send_after's sleep ends.                  *)
Fairness == \A n \in Node : WF_vars(\E h \in Height : StartHeight(n, h))

Spec == Init /\ [][Next]_vars
FairSpec == Spec /\ Fairness

-----------------------------------------------------------------------------
(* Type invariant; votes and chunks are of proposals that were broadcast.  *)
TypeOK ==
    /\ validators \in [Node -> SUBSET Node]
    /\ started \in [Node -> BOOLEAN]
    /\ pendingStart \in [Node -> SUBSET (1..(MaxHeight + 1))]
    /\ height \in [Node -> Height]
    /\ phase \in [Node -> Phase]
    /\ view \in [Node -> [Height -> SUBSET Node]]
    /\ vote \in [Node -> [Height -> SUBSET {p.chunk.header : p \in net}]]
    /\ chunks \in [Node -> Seq({p.chunk : p \in net})]
    /\ \A p \in net : p.chunk.msgs \subseteq Msg
    /\ trie \in [Node -> SUBSET Msg]

(* All nodes that decided a height decided the same chunk.                 *)
Agreement ==
    \A n, m \in Node :
        \A i \in DOMAIN chunks[n], j \in DOMAIN chunks[m] :
            LET v == chunks[n][i].header
                w == chunks[m][j].header
            IN v.height = w.height => v = w

(* The least number of votes that is a quorum of V, and validator sets     *)
(* too large in common for two quorums to miss each other.                 *)
MinQuorum(V) == (2 * Cardinality(V)) \div 3 + 1
QuorumsMeet(V, W) == Cardinality(V \cup W) < MinQuorum(V) + MinQuorum(W)

(* The lock of a voter that counts W guards a quorum of V: a polka in W    *)
(* would need a member of that quorum, or the voter itself.                *)
Guards(W, V) == QuorumsMeet(V, W) \/ MinQuorum(W) = Cardinality(W)

(* All voters of V have entered the height with sets that guard it.        *)
Firm(V, h) == \A x \in V : view[x][h] = {} \/ Guards(view[x][h], V)

(* Every node counts the quorum, and is locked, by the validators it knew  *)
(* when it entered the height (start_height), so nodes may count against   *)
(* different sets.  Still, two nodes that decided one height with sets     *)
(* whose quorums must meet, and whose voters' locks guard them, decided    *)
(* the same chunk.                                                         *)
AgreementOfOverlappingViews ==
    \A n, m \in Node :
        \A i \in DOMAIN chunks[n], j \in DOMAIN chunks[m] :
            LET v == chunks[n][i].header
                w == chunks[m][j].header
                h == v.height
            IN /\ w.height = h
               /\ QuorumsMeet(view[n][h], view[m][h])
               /\ Firm(view[n][h], h) /\ Firm(view[m][h], h)
               => v = w

(* The sets of which a quorum is a majority of all validators: with at     *)
(* most five, those of three or more, the number of registrations that     *)
(* starts consensus.                                                       *)
FullViews == {V \in SUBSET Node : V # {} /\ Cardinality(Node) < 2 * MinQuorum(V)}

(* No node started late or with too few validators.                        *)
Synced ==
    \A n \in Node, h \in Height :
        view[n][h] # {} => \A k \in 1..h : view[n][k] \in FullViews

(* While no node joined late, replaying a decided batch always gives the   *)
(* root its proposer computed, in whatever round and on whatever node: the *)
(* "hashes don't match" panic of commit_shard_chunk is unreachable.        *)
NoCommitPanic == Synced => \A n \in Node : phase[n] # "panicked"

(* While no node joined late, every chunk a node holds builds on the one   *)
(* before it and the first on Genesis.                                     *)
ChainLinked ==
    Synced => \A n \in Node : \A i \in DOMAIN chunks[n] :
        /\ chunks[n][i].header.height = i
        /\ chunks[n][i].header.parent =
               IF i = 1 THEN Genesis ELSE chunks[n][i - 1].header

(* A started node never goes back: neither a delayed StartHeight nor a     *)
(* message of an old height lowers its height or reopens a decided one.    *)
NeverGoesBack ==
    [][\A n \in Node : started[n] =>
         /\ height'[n] >= height[n]
         /\ phase[n] \in {"decided", "panicked"} /\ phase'[n] = "running"
                => height'[n] > height[n]]_vars

(* A node that knows all validators starts, and a node that decided goes   *)
(* on to the next height: no StartHeight is wrongly ignored or never sent. *)
KeepsStarting ==
    \A n \in Node :
        /\ (validators[n] = Node) ~> started[n]
        /\ (phase[n] = "decided" /\ height[n] < MaxHeight) ~> (phase[n] = "running")
=============================================================================
