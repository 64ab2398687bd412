------------------------------ MODULE ShardLog ------------------------------
(***************************************************************************)
(* What the consensus actors of a shard promise together: one log of       *)
(* entries that only grows, which every node executes in order, its state  *)
(* being after each entry the one the entry's header names.  A node may    *)
(* fall behind, or stop, but never skips an entry or executes another.     *)
(* ShardConsensus is shown to implement it in ShardRefinement.             *)
(***************************************************************************)
EXTENDS Naturals, Sequences

CONSTANTS
    Node,
    InitState,      \* the state before the first entry
    StateAfter(_)   \* the state an entry leads to

VARIABLES
    log,        \* sequence of entries
    executed,   \* [Node -> Nat]   how much of it a node has executed
    state       \* [Node -> state of the trie]

vars == <<log, executed, state>>

Init ==
    /\ log = <<>>
    /\ executed = [n \in Node |-> 0]
    /\ state = [n \in Node |-> InitState]

\* n executes the entry e, the next one in its log
Execute(n, e) ==
    /\ executed' = [executed EXCEPT ![n] = @ + 1]
    /\ state' = [state EXCEPT ![n] = StateAfter(e)]

(* The first node to execute an entry extends the log.                     *)
Extend(n) ==
    /\ executed[n] = Len(log)
    /\ Len(log') = Len(log) + 1
    /\ SubSeq(log', 1, Len(log)) = log
    /\ Execute(n, log'[Len(log) + 1])

(* The others follow.                                                      *)
Follow(n) ==
    /\ executed[n] < Len(log)
    /\ Execute(n, log[executed[n] + 1])
    /\ UNCHANGED log

\* one node at a time moves on
Next == \E n \in Node : executed'[n] # executed[n] /\ (Extend(n) \/ Follow(n))

Spec == Init /\ [][Next]_vars
=============================================================================
