-------------------------- MODULE StoreEventHandler -------------------------
(***************************************************************************)
(* The numbering of hub events (store_event_handler.rs) by the threads     *)
(* that merge, revoke and prune messages (store.rs).  commit_transaction   *)
(* takes the generator's lock, numbers an event and puts it in the         *)
(* caller's batch; the batch reaches the database later, by db.commit,     *)
(* when the generator's lock is free again.  A merge holds the lock of its *)
(* fid from before the numbering until after db.commit; revoke and         *)
(* prune_messages hold none, and a prune numbers an event per message      *)
(* before its one commit.                                                  *)
(*                                                                         *)
(* Timestamps are milliseconds since the epoch, and 2^41 and 2^12 are the  *)
(* constants TimeLimit and SeqSize.                                        *)
(***************************************************************************)
EXTENDS Naturals, FiniteSets

CONSTANTS
    Thread,     \* the thread pool
    Lock,       \* the fid locks: each store has its own array of them
    Unlocked,   \* what revoke and prune hold
    TimeLimit,  \* 2^TIMESTAMP_BITS
    SeqSize,    \* 2^SEQUENCE_BITS
    MaxIds      \* bound on calls of generate_id

ASSUME LimitsPositive == TimeLimit \in Nat \ {0} /\ SeqSize \in Nat \ {0} /\ MaxIds \in Nat
ASSUME UnlockedNotLock == Unlocked \notin Lock

VARIABLES
    now,        \* the system clock, since the epoch
    lastTs,     \* HubEventIdGenerator.last_timestamp
    lastSeq,    \* HubEventIdGenerator.last_seq
    work,       \* [Thread -> the lock held and the ids in the batch, if at work]
    visible,    \* events in the database: [id, lock] records
    \* history
    floor,      \* a call of generate_id with a smaller timestamp goes back
    monotone,   \* no call went back
    issued,     \* the ids given out
    calls,      \* how many calls of generate_id there were
    failures    \* how many of them failed

generator == <<lastTs, lastSeq, floor, monotone, issued, calls, failures>>
vars == <<now, generator, work, visible>>

Time == 1..TimeLimit    \* TimeLimit stands for every timestamp that is too large
Idle == [lock |-> Unlocked, ids |-> {}]

Init ==
    /\ now = 1 /\ lastTs = 0 /\ lastSeq = 0
    /\ work = [t \in Thread |-> Idle]
    /\ visible = {}
    /\ floor = 1 /\ monotone = TRUE /\ issued = {} /\ calls = 0 /\ failures = 0

-----------------------------------------------------------------------------
(* generate_id *)

SeqAfter(ts) == IF ts = lastTs THEN lastSeq + 1 ELSE 0

\* make_event_id: the sequence number is cut to its bits
EventId(ts, seq) == ts * SeqSize + (seq % SeqSize)

\* mutant: an off-by-one in the test of the sequence number
Exhausted_OffByOne(ts, seq) == ts >= TimeLimit \/ seq > SeqSize

\* mutant: the timestamp is not tested
Exhausted_AnyTime(ts, seq) == seq >= SeqSize

\* generate_id returns an error
Exhausted(ts, seq) == ts >= TimeLimit \/ seq >= SeqSize

(* The generator keeps the timestamp and the number even when it fails.    *)
Generate(ts) ==
    /\ calls < MaxIds
    /\ calls' = calls + 1
    /\ lastTs' = ts
    /\ lastSeq' = SeqAfter(ts)
    /\ floor' = IF ts > floor THEN ts ELSE floor
    /\ monotone' = (monotone /\ ts >= floor)

(* A call that succeeds with id, and one that fails.                       *)
GenerateId(ts, id) ==
    /\ Generate(ts)
    /\ ~Exhausted(ts, SeqAfter(ts))
    /\ id = EventId(ts, SeqAfter(ts))
    /\ issued' = issued \cup {id}
    /\ UNCHANGED failures

GenerateFails(ts) ==
    /\ Generate(ts)
    /\ Exhausted(ts, SeqAfter(ts))
    /\ failures' = failures + 1
    /\ UNCHANGED issued

\* the id the next event gets, if any
NextId == EventId(now, SeqAfter(now))

-----------------------------------------------------------------------------
(* The threads *)

\* mutant: the lock of the fid is not taken
LockFree_Ignored(l) == TRUE

\* fid_locks[..].lock()
LockFree(l) == \A t \in Thread : work[t].lock # l

(* merge up to commit_transaction.  When the numbering fails the merge     *)
(* returns the error and writes nothing.                                   *)
Merge(t, l) ==
    /\ work[t] = Idle
    /\ LockFree(l)
    /\ \/ GenerateId(now, NextId) /\ work' = [work EXCEPT ![t] = [lock |-> l, ids |-> {NextId}]]
       \/ GenerateFails(now) /\ UNCHANGED work
    /\ UNCHANGED <<now, visible>>

(* revoke up to commit_transaction, or the next message of a prune; when   *)
(* the numbering fails the whole batch is dropped.                         *)
Prune(t) ==
    /\ work[t].lock = Unlocked
    /\ \/ GenerateId(now, NextId) /\ work' = [work EXCEPT ![t].ids = @ \cup {NextId}]
       \/ GenerateFails(now) /\ work' = [work EXCEPT ![t] = Idle]
    /\ UNCHANGED <<now, visible>>

(* db.commit writes the batch, or fails and nothing is written; then the   *)
(* lock is dropped.                                                        *)
Commit(t) ==
    /\ work[t] # Idle
    /\ visible' \in {visible, visible \cup {[id |-> i, lock |-> work[t].lock] : i \in work[t].ids}}
    /\ work' = [work EXCEPT ![t] = Idle]
    /\ UNCHANGED <<now, generator>>

(* js_get_next_event_id, with the clock or with a timestamp of the caller; *)
(* one before the epoch wraps around and is too large.                     *)
GetNextEventId(ts) ==
    /\ \/ GenerateId(ts, EventId(ts, SeqAfter(ts)))
       \/ GenerateFails(ts)
    /\ UNCHANGED <<now, work, visible>>

(* The clock goes on or is set.                                            *)
ClockChanges ==
    /\ now' \in Time \ {now}
    /\ UNCHANGED <<generator, work, visible>>

(* The process ends and is started again, which takes longer than a        *)
(* millisecond.  js_create_store_event_handler is called with what the     *)
(* last event in the database says, or with nothing.                       *)
Restart ==
    /\ now < TimeLimit
    /\ now' = now + 1
    /\ work' = [t \in Thread |-> Idle]
    /\ \/ lastTs' = 0 /\ lastSeq' = 0
       \/ \E e \in visible :
            /\ \A d \in visible : d.id <= e.id
            /\ lastTs' = e.id \div SeqSize
            /\ lastSeq' = e.id % SeqSize
    /\ floor' = IF floor <= TimeLimit THEN floor + 1 ELSE floor
    /\ UNCHANGED <<monotone, issued, calls, failures, visible>>

Next ==
    \/ \E t \in Thread : (\E l \in Lock : Merge(t, l)) \/ Prune(t) \/ Commit(t)
    \/ \E ts \in Time : GetNextEventId(ts)
    \/ ClockChanges
    \/ Restart

Spec == Init /\ [][Next]_vars

-----------------------------------------------------------------------------
(* Type invariant: ids fit in 53 bits, which a JavaScript number holds.    *)
TypeOK ==
    /\ now \in Time
    /\ lastTs \in 0..TimeLimit /\ lastSeq \in Nat
    /\ issued \subseteq 0..(TimeLimit * SeqSize - 1)
    /\ work \in [Thread -> [lock : Lock \cup {Unlocked}, ids : SUBSET issued]]
    /\ visible \subseteq [id : issued, lock : Lock \cup {Unlocked}]
    /\ floor \in 1..(TimeLimit + 1)
    /\ monotone \in BOOLEAN
    /\ calls \in 0..MaxIds
    /\ failures \in 0..calls

(* While the clock and the callers' timestamps do not go back, no id is    *)
(* given out twice: not when a millisecond's numbers are used up, not by   *)
(* calls that fail, not across restarts.                                   *)
EventIdsUnique == monotone => Cardinality(issued) + failures = calls

(* While the clock does not go back, merges that hold one and the same     *)
(* lock, a lock of one store's fid_locks, become visible in the order of   *)
(* their ids, whatever other threads number and commit in between.  This   *)
(* is all the order there is: a fid has a lock in each of the stores, and  *)
(* revoke and prune_messages hold none, so that of the events of one fid   *)
(* only the merges of one store are ordered.                               *)
LockedEventsInOrder ==
    [][\A e \in visible' \ visible :
         monotone /\ e.lock # Unlocked =>
             \A d \in visible : d.lock = e.lock => d.id < e.id]_vars

(* What commit_transaction says of the generator's lock: "This also serves *)
(* as the commit lock".  While the clock does not go back, an event that   *)
(* waits for its commit is numbered above every event in the database, so  *)
(* that none appears behind one already read.  The code does not keep it:  *)
(* commit_transaction drops the lock when it returns, before db.commit.    *)
CommitLock ==
    monotone => \A t \in Thread : \A i \in work[t].ids : \A e \in visible : e.id < i
=============================================================================
