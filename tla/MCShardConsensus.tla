-------------------------- MODULE MCShardConsensus --------------------------
(***************************************************************************)
(* Instances of ShardConsensus.  One run explores three parts of its state *)
(* space, told apart by scope: "start" is everything from the very first   *)
(* registration, with every order of registrations, votes and delayed      *)
(* starts, but only empty batches of round 0; "views" has nodes that know  *)
(* different validators compete over the first height; "chain" begins when *)
(* all nodes have registered each other and follows them through all       *)
(* heights and rounds with competing batches.                              *)
(***************************************************************************)
EXTENDS ShardRefinement

CONSTANT MaxMissing     \* bound on the registrations missing in "views"

VARIABLE scope      \* the part of the state space a behaviour is in

(* Nodes that have received the registrations known and started nothing.   *)
RegisteredInit(known) ==
    /\ validators = known
    /\ started = [n \in Node |-> FALSE]
    /\ pendingStart = [n \in Node |-> IF Cardinality(known[n]) >= StartPeers THEN {1} ELSE {}]
    /\ height = [n \in Node |-> 1]
    /\ phase = [n \in Node |-> "idle"]
    /\ view = [n \in Node |-> [h \in Height |-> {}]]
    /\ vote = [n \in Node |-> [h \in Height |-> {}]]
    /\ net = {}
    /\ chunks = [n \in Node |-> <<>>]
    /\ trie = [n \in Node |-> {}]

\* every node knows itself and most of the others
PartlyKnown ==
    {known \in [Node -> SUBSET Node] :
        /\ \A n \in Node : n \in known[n]
        /\ Cardinality({x \in Node \X Node : x[2] \notin known[x[1]]}) <= MaxMissing}

ScopedInit ==
    \/ scope = "start" /\ Init
    \/ scope = "views" /\ \E known \in PartlyKnown : RegisteredInit(known)
    \/ scope = "chain" /\ RegisteredInit([n \in Node |-> Node])

ScopedNext ==
    /\ Next
    /\ scope = "start" => \A p \in net' : p.round = 0 /\ p.chunk.msgs = {}
    /\ scope = "views" => \A p \in net' : p.chunk.header.height = 1
    /\ scope = "views" => validators' = validators
    /\ UNCHANGED scope

ScopedSpec == ScopedInit /\ [][ScopedNext]_<<vars, scope>> /\ Fairness

\* "views" alone, for more nodes
ViewsSpec == scope = "views" /\ ScopedInit /\ [][ScopedNext]_<<vars, scope>>
=============================================================================
