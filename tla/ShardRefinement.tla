--------------------------- MODULE ShardRefinement --------------------------
(***************************************************************************)
(* ShardConsensus implements ShardLog: the mapping from the actors' state  *)
(* to the replicated log.  A node takes part in the log when it started    *)
(* every height up to its own with validators of whom a quorum is a        *)
(* majority of all: three of up to five, five of seven, and so on.         *)
(***************************************************************************)
EXTENDS ShardConsensus

(* n has started every height up to its own with enough validators.        *)
FullHistory(n) ==
    \A k \in 1..height[n] : view[n][k] \in FullViews

(* How many chunks n has committed: a panic comes after the chunk is       *)
(* appended and before its batch reaches the trie.                         *)
Position(n) ==
    IF ~FullHistory(n) THEN 0
    ELSE IF phase[n] = "panicked" THEN Len(chunks[n]) - 1
    ELSE Len(chunks[n])

Executed == [n \in Node |-> Position(n)]

Furthest ==
    LET reached == Executed
    IN CHOOSE n \in Node : \A m \in Node : reached[m] <= reached[n]

HeaderRoot(v) == v.root

\* the headers the furthest node has committed
SharedLog == LET n == Furthest IN [i \in 1..Position(n) |-> chunks[n][i].header]

State == [n \in Node |-> IF FullHistory(n) THEN trie[n] ELSE {}]

Log == INSTANCE ShardLog WITH
    InitState <- {},
    StateAfter <- HeaderRoot,
    log <- SharedLog,
    executed <- Executed,
    state <- State

(* The nodes that started each of their heights with enough validators     *)
(* (FullViews) behave as one replicated state machine: every decision of   *)
(* theirs extends the common log or repeats it, in order and without gaps, *)
(* and leaves the trie at the root the decided header names.               *)
Implements == Log!Spec
=============================================================================
