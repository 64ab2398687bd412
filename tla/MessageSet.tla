----------------------------- MODULE MessageSet -----------------------------
(***************************************************************************)
(* What a message store promises: it is a set of messages, changed by      *)
(* merges, revokes and prunes that each happen at once.  The set is what   *)
(* the primary keys and the compact states of db hold; an operation of     *)
(* MessageStore, which reads db in one step and writes it in another,      *)
(* takes effect at its Commit.                                             *)
(***************************************************************************)
EXTENDS MessageStore

held == Stored \cup Compacts

-----------------------------------------------------------------------------
(* A new message m and a set H of messages held *)

\* the compact states a link is held against, and a new one replaces
CompactsFor(m, H) == {c \in H : c.type = "compact" /\ c.fid = m.fid /\ c.kind = m.kind}

\* the messages about the same thing
Contenders(m, H) == {n \in H : n.type # "compact" /\ Collide(m, n)}

(* A message may enter if it outranks all it contends with, and no compact *)
(* state speaks against it; a compact state if it is later than the last.  *)
Admissible(m, H) ==
    IF m.type = "compact" THEN \A c \in CompactsFor(m, H) : c.time < m.time
    ELSE /\ \A n \in Contenders(m, H) : Outranks(m, n)
         /\ \A c \in CompactsFor(m, H) :
               m.time < c.time => m.type = "add" /\ m.target \in c.targets

(* What gives way to it.  A compact state sweeps the links of its fid that *)
(* are not later and not listed, whatever their kind.                      *)
Swept(m, H) ==
    {n \in H : /\ n.type # "compact" /\ n.fid = m.fid /\ n.time <= m.time
               /\ n.type = "add" => n.target \notin m.targets}
GivesWay(m, H) ==
    IF m.type = "compact" THEN CompactsFor(m, H) \cup Swept(m, H) ELSE Contenders(m, H)

\* the messages of a fid that fewer than excess are older than
MessagesOf(fid, H) == {m \in H : m.type # "compact" /\ m.fid = fid}
Oldest(fid, excess, H) ==
    LET older(m) == {n \in MessagesOf(fid, H) : TsLess(TsHash(n), TsHash(m))}
    IN {m \in MessagesOf(fid, H) : Cardinality(older(m)) < excess}

-----------------------------------------------------------------------------
(* The operations *)

AtomicMerge(m) == Admissible(m, held) /\ held' = (held \ GivesWay(m, held)) \cup {m}

AtomicRevoke(m) == m \in held /\ held' = held \ {m}

AtomicPrune(fid, excess) == held' = held \ Oldest(fid, excess, held)

AtomicStep ==
    \/ \E m \in Messages[store] : AtomicMerge(m)
    \/ \E m \in held : AtomicRevoke(m) \/ \E excess \in 1..MaxPrune : AtomicPrune(m.fid, excess)

-----------------------------------------------------------------------------
(* Properties *)

(* The fid locks make merges atomic: however their reads and commits       *)
(* interleave, each commit does to the set what its operation would have   *)
(* done at that moment.  What a merge read is still true: its message      *)
(* still outranks what is stored, and it replaces exactly what contends    *)
(* with it.  Where the locks are not enough, operations are atomic until   *)
(* two of them meet.                                                       *)
AtomicStore == [][(Exposed /\ raced) \/ AtomicStep]_held
=============================================================================
