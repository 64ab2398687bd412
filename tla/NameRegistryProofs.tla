------------------------- MODULE NameRegistryProofs -------------------------
(***************************************************************************)
(* TLAPS proofs for StoreEventHandler and NameRegistry, for any number of  *)
(* threads, fid locks, names and fids, any width of timestamps and         *)
(* sequence numbers, and any number of events.                             *)
(***************************************************************************)
EXTENDS NameRegistry, FiniteSetTheorems, TLAPS

-----------------------------------------------------------------------------
(* Arithmetic of event ids *)

LEMMA ProductMonotone ==
    ASSUME NEW a \in Nat, NEW b \in Nat, NEW s \in Nat, a <= b
    PROVE  a * s <= b * s
<1>1. PICK k \in Nat : b = a + k
  BY b - a \in Nat
<1>2. b * s = a * s + k * s /\ k * s \in Nat /\ a * s \in Nat
  BY <1>1
<1> QED
  BY <1>2

LEMMA ProductSuccessor ==
    ASSUME NEW a \in Nat, NEW s \in Nat
    PROVE  a * s \in Nat /\ (a + 1) * s = a * s + s
OBVIOUS

(* A sequence number in range is not cut, so ids of one timestamp differ.  *)
LEMMA NoCut ==
    ASSUME NEW s \in Nat \ {0}, NEW q \in Nat, q < s
    PROVE  q % s = q
OBVIOUS

(* The timestamp of an id below the first id of ts is below ts.            *)
LEMMA TimestampOf ==
    ASSUME NEW s \in Nat \ {0}, NEW i \in Nat, NEW ts \in Nat, i < ts * s
    PROVE  i \div s \in Nat /\ i \div s < ts
<1> DEFINE q == i \div s
<1>1. q \in Nat /\ q * s <= i
  OBVIOUS
<1> HIDE DEF q
<1>2. ASSUME ts <= q PROVE FALSE
  <2>1. ts * s <= q * s
    BY <1>1, <1>2, ProductMonotone
  <2>2. ts * s \in Nat /\ q * s \in Nat
    BY <1>1
  <2> QED
    BY <1>1, <2>1, <2>2
<1>3. q < ts
  BY <1>1, <1>2
<1> QED
  BY <1>1, <1>3 DEF q

-----------------------------------------------------------------------------
(* Type correctness *)

(* A number generate_id returns is that of its timestamp and sequence, and *)
(* fits in its bits.                                                       *)
LEMMA IdInRange ==
    ASSUME NEW ts \in Time, NEW q \in Nat, ~Exhausted(ts, q)
    PROVE  /\ EventId(ts, q) = ts * SeqSize + q
           /\ ts * SeqSize \in Nat
           /\ q < SeqSize
           /\ EventId(ts, q) \in 0..(TimeLimit * SeqSize - 1)
<1>1. ts \in Nat /\ ts + 1 \in Nat /\ ts + 1 <= TimeLimit /\ q < SeqSize
  BY LimitsPositive DEF Exhausted, Time
<1>2. EventId(ts, q) = ts * SeqSize + q
  BY <1>1, LimitsPositive, NoCut DEF EventId
<1>3. (ts + 1) * SeqSize <= TimeLimit * SeqSize
  BY <1>1, LimitsPositive, ProductMonotone
<1>4. (ts + 1) * SeqSize = ts * SeqSize + SeqSize
  BY <1>1, LimitsPositive
<1>5. ts * SeqSize \in Nat /\ TimeLimit * SeqSize \in Nat
  BY <1>1, LimitsPositive
<1> QED
  BY <1>1, <1>2, <1>3, <1>4, <1>5, LimitsPositive

LEMMA SeqAfterType ==
    ASSUME TypeOK, NEW ts \in Time
    PROVE  SeqAfter(ts) \in Nat
BY DEF TypeOK, SeqAfter

\* the generator's part of the type invariant
GeneratorOK ==
    /\ lastTs \in 0..TimeLimit /\ lastSeq \in Nat
    /\ issued \subseteq 0..(TimeLimit * SeqSize - 1)
    /\ floor \in 1..(TimeLimit + 1)
    /\ monotone \in BOOLEAN
    /\ calls \in 0..MaxIds
    /\ failures \in 0..calls

LEMMA GenerateType ==
    ASSUME TypeOK, NEW ts \in Time, Generate(ts)
    PROVE  /\ lastTs' \in 0..TimeLimit /\ lastSeq' \in Nat
           /\ floor' \in 1..(TimeLimit + 1)
           /\ monotone' \in BOOLEAN
           /\ calls \in Nat /\ calls' = calls + 1 /\ calls' \in 0..MaxIds
<1>1. lastSeq' \in Nat
  BY SeqAfterType DEF Generate
<1>2. lastTs' \in 0..TimeLimit /\ floor' \in 1..(TimeLimit + 1)
  BY LimitsPositive DEF Generate, TypeOK, Time
<1>3. monotone' \in BOOLEAN
  BY DEF Generate
<1>4. calls \in Nat /\ calls' = calls + 1 /\ calls' \in 0..MaxIds
  BY LimitsPositive DEF Generate, TypeOK
<1> QED
  BY <1>1, <1>2, <1>3, <1>4

LEMMA GenerateIdType ==
    ASSUME TypeOK, NEW ts \in Time, NEW id, GenerateId(ts, id)
    PROVE  GeneratorOK' /\ issued \subseteq issued' /\ id \in issued'
<1>1. id \in 0..(TimeLimit * SeqSize - 1)
  BY IdInRange, SeqAfterType DEF GenerateId
<1>2. issued' = issued \cup {id} /\ failures' = failures /\ Generate(ts)
  BY DEF GenerateId
<1>3. failures' \in 0..calls'
  BY <1>2, GenerateType DEF TypeOK
<1> QED
  BY <1>1, <1>2, <1>3, GenerateType DEF TypeOK, GeneratorOK

LEMMA GenerateFailsType ==
    ASSUME TypeOK, NEW ts \in Time, GenerateFails(ts)
    PROVE  GeneratorOK' /\ issued' = issued
<1>1. issued' = issued /\ failures' = failures + 1 /\ Generate(ts)
  BY DEF GenerateFails
<1>2. failures' \in 0..calls'
  BY <1>1, GenerateType DEF TypeOK
<1> QED
  BY <1>1, <1>2, GenerateType DEF TypeOK, GeneratorOK

LEMMA RestartType ==
    ASSUME TypeOK, Restart
    PROVE  TypeOK'
<1>1. now' \in Time
  BY LimitsPositive DEF Restart, TypeOK, Time
<1>2. lastTs' \in 0..TimeLimit /\ lastSeq' \in Nat
  <2>1. CASE lastTs' = 0 /\ lastSeq' = 0
    BY <2>1, LimitsPositive
  <2>2. CASE \E e \in visible : lastTs' = e.id \div SeqSize /\ lastSeq' = e.id % SeqSize
    <3>1. PICK e \in visible : lastTs' = e.id \div SeqSize /\ lastSeq' = e.id % SeqSize
      BY <2>2
    <3>2. e.id \in Nat /\ e.id < TimeLimit * SeqSize
      <4>1. e.id \in 0..(TimeLimit * SeqSize - 1)
        BY DEF TypeOK
      <4>2. TimeLimit * SeqSize \in Nat
        BY LimitsPositive
      <4> QED
        BY <4>1, <4>2
    <3>3. e.id \div SeqSize \in Nat /\ e.id \div SeqSize < TimeLimit
      BY <3>2, LimitsPositive, TimestampOf
    <3>4. e.id % SeqSize \in Nat
      BY <3>2, LimitsPositive
    <3> QED
      BY <3>1, <3>3, <3>4, LimitsPositive
  <2> QED
    BY <2>1, <2>2 DEF Restart
<1>3. work' \in [Thread -> [lock : Lock \cup {Unlocked}, ids : SUBSET issued']]
  BY DEF Restart, Idle
<1>4. floor' \in 1..(TimeLimit + 1)
  BY LimitsPositive DEF Restart, TypeOK
<1> QED
  BY <1>1, <1>2, <1>3, <1>4 DEF Restart, TypeOK

(* A step that leaves the generator sound and forgets no id keeps the rest *)
(* of the type invariant if work and visible hold only ids given out.      *)
LEMMA TypeFromParts ==
    ASSUME GeneratorOK', now' \in Time,
           work' \in [Thread -> [lock : Lock \cup {Unlocked}, ids : SUBSET issued']],
           visible' \subseteq [id : issued', lock : Lock \cup {Unlocked}]
    PROVE  TypeOK'
BY DEF GeneratorOK, TypeOK

LEMMA TypeNext ==
    ASSUME TypeOK, [RegistryNext]_allVars
    PROVE  TypeOK'
<1> USE DEF Idle
<1>0. now \in Time /\ GeneratorOK
  BY DEF TypeOK, GeneratorOK
<1>1. ASSUME NEW t \in Thread, NEW l \in Lock, Merge(t, l)
      PROVE  TypeOK'
  <2>1. CASE GenerateId(now, NextId) /\ work' = [work EXCEPT ![t] = [lock |-> l, ids |-> {NextId}]]
    <3>1. GeneratorOK' /\ issued \subseteq issued' /\ NextId \in issued'
      BY <1>0, <2>1, GenerateIdType
    <3>2. work' \in [Thread -> [lock : Lock \cup {Unlocked}, ids : SUBSET issued']]
      BY <2>1, <3>1 DEF TypeOK
    <3>3. visible' \subseteq [id : issued', lock : Lock \cup {Unlocked}] /\ now' \in Time
      BY <1>0, <1>1, <3>1 DEF Merge, TypeOK
    <3> QED
      BY <3>1, <3>2, <3>3, TypeFromParts
  <2>2. CASE GenerateFails(now) /\ UNCHANGED work
    BY <1>0, <1>1, <2>2, GenerateFailsType, TypeFromParts DEF Merge, TypeOK
  <2> QED
    BY <1>1, <2>1, <2>2 DEF Merge
<1>2. ASSUME NEW t \in Thread, Prune(t)
      PROVE  TypeOK'
  <2>1. CASE GenerateId(now, NextId) /\ work' = [work EXCEPT ![t].ids = @ \cup {NextId}]
    <3>1. GeneratorOK' /\ issued \subseteq issued' /\ NextId \in issued'
      BY <1>0, <2>1, GenerateIdType
    <3>2. work' \in [Thread -> [lock : Lock \cup {Unlocked}, ids : SUBSET issued']]
      BY <2>1, <3>1 DEF TypeOK
    <3>3. visible' \subseteq [id : issued', lock : Lock \cup {Unlocked}] /\ now' \in Time
      BY <1>0, <1>2, <3>1 DEF Prune, TypeOK
    <3> QED
      BY <3>1, <3>2, <3>3, TypeFromParts
  <2>2. CASE GenerateFails(now) /\ work' = [work EXCEPT ![t] = Idle]
    <3>1. GeneratorOK' /\ issued' = issued
      BY <1>0, <2>2, GenerateFailsType
    <3>2. work' \in [Thread -> [lock : Lock \cup {Unlocked}, ids : SUBSET issued']]
      BY <2>2, <3>1 DEF TypeOK
    <3> QED
      BY <1>0, <1>2, <3>1, <3>2, TypeFromParts DEF Prune, TypeOK
  <2> QED
    BY <1>2, <2>1, <2>2 DEF Prune
<1>3. ASSUME NEW t \in Thread, Commit(t)
      PROVE  TypeOK'
  <2>1. UNCHANGED <<now, generator>> /\ work' = [work EXCEPT ![t] = Idle]
    BY <1>3 DEF Commit
  <2>2. work' \in [Thread -> [lock : Lock \cup {Unlocked}, ids : SUBSET issued']]
    BY <2>1 DEF TypeOK, generator
  <2>3. visible' \subseteq [id : issued', lock : Lock \cup {Unlocked}]
    BY <1>3, <2>1 DEF Commit, TypeOK, generator
  <2>4. GeneratorOK'
    BY <1>0, <2>1 DEF GeneratorOK, generator
  <2> QED
    BY <1>0, <2>1, <2>2, <2>3, <2>4, TypeFromParts
<1>4. ASSUME NEW ts \in Time, GetNextEventId(ts)
      PROVE  TypeOK'
  <2>1. GeneratorOK' /\ issued \subseteq issued'
    BY <1>4, GenerateIdType, GenerateFailsType DEF GetNextEventId
  <2> QED
    BY <1>0, <1>4, <2>1, TypeFromParts DEF GetNextEventId, TypeOK
<1>5. CASE ClockChanges
  BY <1>5 DEF ClockChanges, TypeOK, generator
<1>6. CASE Restart
  BY <1>6, RestartType
<1>7. ASSUME NEW p \in Proof, RefuseProof(p)
      PROVE  TypeOK'
  BY <1>7 DEF RefuseProof, vars, generator, TypeOK
<1>8. ASSUME NEW p \in Proof, MergeProof(p)
      PROVE  TypeOK'
  <2>1. GeneratorOK' /\ issued \subseteq issued' /\ NextId \in issued'
    BY <1>0, <1>8, GenerateIdType DEF MergeProof
  <2>2. visible' \subseteq [id : issued', lock : Lock \cup {Unlocked}]
    <3>1. visible' = visible \cup {[id |-> NextId, lock |-> Unlocked]}
      BY <1>8 DEF MergeProof
    <3>2. [id |-> NextId, lock |-> Unlocked] \in [id : issued', lock : Lock \cup {Unlocked}]
      BY <2>1
    <3>3. [id : issued, lock : Lock \cup {Unlocked}] \subseteq [id : issued', lock : Lock \cup {Unlocked}]
      BY <2>1
    <3> QED
      BY <3>1, <3>2, <3>3 DEF TypeOK
  <2> QED
    BY <1>0, <1>8, <2>1, <2>2, TypeFromParts DEF MergeProof, TypeOK
<1>9. ASSUME NEW p \in Proof, MergeProofFails(p)
      PROVE  TypeOK'
  <2>1. GeneratorOK' /\ issued \subseteq issued'
    BY <1>0, <1>9, GenerateIdType, GenerateFailsType DEF MergeProofFails
  <2> QED
    BY <1>0, <1>9, <2>1, TypeFromParts DEF MergeProofFails, TypeOK
<1>10. CASE UNCHANGED allVars
  BY <1>10 DEF allVars, vars, generator, TypeOK
<1> QED
  BY <1>1, <1>2, <1>3, <1>4, <1>5, <1>6, <1>7, <1>8, <1>9, <1>10
     DEF RegistryNext, Next, MergeUsernameProof

(* Every id fits in the 53 bits of a JavaScript number, and batches and    *)
(* the database hold only ids that were given out (store_event_handler.rs).*)
THEOREM TypeCorrect == RegistrySpec => []TypeOK
<1>1. RegistryInit => TypeOK
  BY LimitsPositive DEF RegistryInit, Init, Idle, Time, TypeOK
<1>2. TypeOK /\ [RegistryNext]_allVars => TypeOK'
  BY TypeNext
<1> QED
  BY <1>1, <1>2, PTL DEF RegistrySpec

-----------------------------------------------------------------------------
(* Uniqueness of event ids *)

(* While no call went back, every id given out is below the position of    *)
(* the generator: its timestamp is at most floor, and the ids of floor are *)
(* those up to lastSeq, none if the generator has not reached floor since  *)
(* a restart.                                                              *)
IdsBelow ==
    monotone =>
        /\ lastTs <= floor
        /\ \A i \in issued :
             /\ i < (floor + 1) * SeqSize
             /\ lastTs = floor => i <= floor * SeqSize + lastSeq
             /\ lastTs # floor => i < floor * SeqSize

(* Ids are finitely many, and while no call went back as many as the calls *)
(* that succeeded.                                                         *)
Counted == IsFiniteSet(issued) /\ EventIdsUnique

LEMMA IdType ==
    ASSUME TypeOK, NEW i \in issued
    PROVE  i \in Nat
<1>1. i \in 0..(TimeLimit * SeqSize - 1)
  BY DEF TypeOK
<1> QED
  BY <1>1

(* A call that does not go back moves the generator past all ids given     *)
(* out, also when it fails or begins a new millisecond.                    *)
LEMMA GenerateAbove ==
    ASSUME TypeOK, IdsBelow, NEW ts \in Time, Generate(ts), monotone'
    PROVE  /\ monotone /\ lastTs' = ts /\ floor' = ts /\ lastSeq' = SeqAfter(ts)
           /\ \A i \in issued : i < ts * SeqSize + SeqAfter(ts) /\ i < (ts + 1) * SeqSize
<1> DEFINE S == SeqSize
<1>1. /\ ts \in Nat /\ floor \in Nat /\ lastTs \in Nat /\ lastSeq \in Nat /\ S \in Nat \ {0}
      /\ ts * S \in Nat /\ floor * S \in Nat
  BY LimitsPositive DEF TypeOK, Time
<1>2. monotone /\ ts >= floor /\ lastTs' = ts /\ lastSeq' = SeqAfter(ts) /\ floor' = ts
  <2>1. monotone' = (monotone /\ ts >= floor)
    BY DEF Generate
  <2>2. monotone /\ ts >= floor
    BY <2>1
  <2>3. floor' = IF ts > floor THEN ts ELSE floor
    BY DEF Generate
  <2>4. floor' = ts
    BY <1>1, <2>2, <2>3
  <2> QED
    BY <2>2, <2>4 DEF Generate
<1>3. lastTs <= floor
  BY <1>2 DEF IdsBelow
<1>4. ASSUME NEW i \in issued
      PROVE  i < ts * S + SeqAfter(ts) /\ i < (ts + 1) * S
  <2>0. i \in Nat /\ i < (floor + 1) * S
    BY <1>2, IdType DEF IdsBelow
  <2>1. CASE ts = lastTs
    <3>1. ts = floor
      BY <1>1, <1>2, <1>3, <2>1
    <3>2. i <= ts * S + lastSeq
      BY <1>2, <2>1, <3>1 DEF IdsBelow
    <3>3. SeqAfter(ts) = lastSeq + 1
      BY <2>1 DEF SeqAfter
    <3> QED
      BY <1>1, <2>0, <3>1, <3>2, <3>3
  <2>2. CASE ts # lastTs /\ ts = floor
    <3>1. i < ts * S /\ SeqAfter(ts) = 0
      BY <1>2, <2>2 DEF IdsBelow, SeqAfter
    <3> QED
      BY <1>1, <2>0, <2>2, <3>1
  <2>3. CASE ts # lastTs /\ ts # floor
    <3>1. SeqAfter(ts) = 0
      BY <2>3 DEF SeqAfter
    <3>2. floor + 1 \in Nat /\ floor + 1 <= ts
      BY <1>1, <1>2, <2>3
    <3>3. (floor + 1) * S <= ts * S
      BY <1>1, <3>2, ProductMonotone
    <3>4. ts * S <= (ts + 1) * S
      BY <1>1, ProductMonotone
    <3>5. (floor + 1) * S \in Nat /\ (ts + 1) * S \in Nat
      BY <1>1
    <3> QED
      BY <1>1, <2>0, <3>1, <3>3, <3>4, <3>5
  <2> QED
    BY <2>1, <2>2, <2>3
<1> QED
  BY <1>2, <1>4

LEMMA GenerateIdBelow ==
    ASSUME TypeOK, IdsBelow, NEW ts \in Time, NEW id, GenerateId(ts, id)
    PROVE  /\ IdsBelow'
           /\ monotone' => monotone /\ \A i \in issued : i < id
<1> SUFFICES ASSUME monotone'
             PROVE  IdsBelow' /\ monotone /\ \A i \in issued : i < id
  BY DEF IdsBelow
<1>1. /\ Generate(ts) /\ ~Exhausted(ts, SeqAfter(ts)) /\ id = EventId(ts, SeqAfter(ts))
      /\ issued' = issued \cup {id}
  BY DEF GenerateId
<1>2. /\ monotone /\ lastTs' = ts /\ floor' = ts /\ lastSeq' = SeqAfter(ts)
      /\ \A i \in issued : i < ts * SeqSize + SeqAfter(ts) /\ i < (ts + 1) * SeqSize
  BY <1>1, GenerateAbove
<1>3. id = ts * SeqSize + SeqAfter(ts) /\ SeqAfter(ts) < SeqSize /\ ts * SeqSize \in Nat
  BY <1>1, IdInRange, SeqAfterType
<1>4. ts \in Nat /\ SeqAfter(ts) \in Nat /\ (ts + 1) * SeqSize = ts * SeqSize + SeqSize
  BY SeqAfterType, LimitsPositive DEF Time
<1>5. ASSUME NEW i \in issued'
      PROVE  i < (ts + 1) * SeqSize /\ i <= ts * SeqSize + SeqAfter(ts)
  <2>1. CASE i = id
    BY <1>3, <1>4, <2>1, LimitsPositive
  <2>2. CASE i \in issued
    <3>1. i \in Nat
      BY <2>2, IdType
    <3> QED
      BY <1>2, <1>3, <1>4, <2>2, <3>1
  <2> QED
    BY <1>1, <2>1, <2>2
<1>6. ts <= ts
  BY <1>4
<1>7. IdsBelow'
  BY <1>2, <1>5, <1>6 DEF IdsBelow
<1> QED
  BY <1>2, <1>3, <1>7

LEMMA GenerateFailsBelow ==
    ASSUME TypeOK, IdsBelow, NEW ts \in Time, GenerateFails(ts)
    PROVE  IdsBelow' /\ (monotone' => monotone)
<1> SUFFICES ASSUME monotone'
             PROVE  IdsBelow' /\ monotone
  BY DEF IdsBelow
<1>1. /\ monotone /\ lastTs' = ts /\ floor' = ts /\ lastSeq' = SeqAfter(ts)
      /\ \A i \in issued : i < ts * SeqSize + SeqAfter(ts) /\ i < (ts + 1) * SeqSize
  BY GenerateAbove DEF GenerateFails
<1>2. ts \in Nat /\ SeqAfter(ts) \in Nat /\ ts * SeqSize \in Nat /\ issued' = issued
  BY SeqAfterType, LimitsPositive DEF Time, GenerateFails
<1>3. \A i \in issued : i \in Nat
  BY IdType
<1>4. ts <= ts
  BY <1>2
<1>5. \A i \in issued' : i < (ts + 1) * SeqSize /\ i <= ts * SeqSize + SeqAfter(ts)
  BY <1>1, <1>2, <1>3
<1> QED
  BY <1>1, <1>4, <1>5 DEF IdsBelow

LEMMA GenerateIdCounted ==
    ASSUME TypeOK, IdsBelow, Counted, NEW ts \in Time, NEW id, GenerateId(ts, id)
    PROVE  Counted'
<1>1. /\ issued' = issued \cup {id} /\ failures' = failures /\ calls' = calls + 1
      /\ failures \in Nat /\ calls \in Nat
  BY LimitsPositive DEF GenerateId, Generate, TypeOK
<1>2. IsFiniteSet(issued')
  BY <1>1, FS_AddElement DEF Counted
<1>3. ASSUME monotone' PROVE Cardinality(issued') + failures' = calls'
  <2>1. monotone /\ \A i \in issued : i < id
    BY <1>3, GenerateIdBelow
  <2>2. id \notin issued
    <3> SUFFICES ASSUME id \in issued PROVE FALSE
      OBVIOUS
    <3>1. id \in Nat /\ id < id
      BY <2>1, IdType
    <3> QED
      BY <3>1
  <2>3. Cardinality(issued') = Cardinality(issued) + 1
    BY <1>1, <2>2, FS_AddElement DEF Counted
  <2>4. Cardinality(issued) \in Nat
    BY FS_CardinalityType DEF Counted
  <2>5. Cardinality(issued) + failures = calls
    BY <2>1 DEF Counted, EventIdsUnique
  <2> QED
    BY <1>1, <2>3, <2>4, <2>5
<1> QED
  BY <1>2, <1>3 DEF Counted, EventIdsUnique

LEMMA GenerateFailsCounted ==
    ASSUME TypeOK, IdsBelow, Counted, NEW ts \in Time, GenerateFails(ts)
    PROVE  Counted'
<1>1. /\ issued' = issued /\ failures' = failures + 1 /\ calls' = calls + 1
      /\ failures \in Nat /\ calls \in Nat
  BY LimitsPositive DEF GenerateFails, Generate, TypeOK
<1>2. monotone' => monotone
  BY GenerateFailsBelow
<1>3. Cardinality(issued) \in Nat
  BY FS_CardinalityType DEF Counted
<1> QED
  BY <1>1, <1>2, <1>3 DEF Counted, EventIdsUnique

(* A restart with what the last event says, or with nothing, begins below  *)
(* the timestamps that can still come.                                     *)
LEMMA RestartBelow ==
    ASSUME TypeOK, IdsBelow, Restart
    PROVE  IdsBelow'
<1> SUFFICES ASSUME monotone'
             PROVE  IdsBelow'
  BY DEF IdsBelow
<1>1. /\ monotone /\ issued' = issued /\ floor \in Nat /\ floor' \in Nat \ {0}
      /\ SeqSize \in Nat \ {0} /\ TimeLimit \in Nat
  BY LimitsPositive DEF Restart, TypeOK
<1>2. ASSUME NEW i \in issued
      PROVE  i < floor' * SeqSize
  <2>1. CASE floor <= TimeLimit
    BY <1>1, <2>1 DEF Restart, IdsBelow
  <2>2. CASE ~(floor <= TimeLimit)
    <3>1. floor' = floor /\ TimeLimit <= floor
      BY <1>1, <2>2 DEF Restart
    <3>2. TimeLimit * SeqSize <= floor' * SeqSize
      BY <1>1, <3>1, ProductMonotone
    <3>3. i \in 0..(TimeLimit * SeqSize - 1)
      BY DEF TypeOK
    <3>4. TimeLimit * SeqSize \in Nat /\ floor' * SeqSize \in Nat
      BY <1>1, ProductSuccessor
    <3> QED
      BY <3>2, <3>3, <3>4
  <2> QED
    BY <2>1, <2>2
<1>3. lastTs' \in Nat /\ lastTs' < floor'
  <2>1. CASE lastTs' = 0
    BY <1>1, <2>1
  <2>2. CASE \E e \in visible : lastTs' = e.id \div SeqSize
    <3>1. PICK e \in visible : lastTs' = e.id \div SeqSize
      BY <2>2
    <3>2. e.id \in issued
      BY DEF TypeOK
    <3>3. e.id \in Nat /\ e.id < floor' * SeqSize
      BY <1>2, <3>2, IdType
    <3> QED
      BY <1>1, <3>1, <3>3, TimestampOf
  <2> QED
    BY <2>1, <2>2 DEF Restart
<1>4. ASSUME NEW i \in issued PROVE i < (floor' + 1) * SeqSize
  <2>1. (floor' + 1) * SeqSize = floor' * SeqSize + SeqSize /\ floor' * SeqSize \in Nat
    BY <1>1, ProductSuccessor
  <2> QED
    BY <1>1, <1>2, <2>1, IdType
<1> QED
  BY <1>1, <1>2, <1>3, <1>4 DEF IdsBelow

(* What any step does to the generator.                                    *)
LEMMA GeneratorStep ==
    ASSUME TypeOK, [RegistryNext]_allVars
    PROVE  \/ UNCHANGED generator
           \/ \E ts \in Time : (\E id : GenerateId(ts, id)) \/ GenerateFails(ts)
           \/ Restart
<1>1. now \in Time
  BY DEF TypeOK
<1>2. CASE Next
  BY <1>1, <1>2 DEF Next, Merge, Prune, Commit, GetNextEventId, ClockChanges
<1>3. ASSUME NEW p \in Proof, MergeUsernameProof(p)
      PROVE  UNCHANGED generator \/ (\E id : GenerateId(now, id)) \/ GenerateFails(now)
  BY <1>3 DEF MergeUsernameProof, RefuseProof, MergeProof, MergeProofFails, vars
<1>4. CASE UNCHANGED allVars
  BY <1>4 DEF allVars, vars
<1> QED
  BY <1>1, <1>2, <1>3, <1>4 DEF RegistryNext

LEMMA UniqueNext ==
    ASSUME TypeOK, IdsBelow, Counted, [RegistryNext]_allVars
    PROVE  IdsBelow' /\ Counted'
<1>1. CASE UNCHANGED generator
  BY <1>1 DEF generator, IdsBelow, Counted, EventIdsUnique
<1>2. ASSUME NEW ts \in Time, NEW id, GenerateId(ts, id)
      PROVE  IdsBelow' /\ Counted'
  BY <1>2, GenerateIdBelow, GenerateIdCounted
<1>3. ASSUME NEW ts \in Time, GenerateFails(ts)
      PROVE  IdsBelow' /\ Counted'
  BY <1>3, GenerateFailsBelow, GenerateFailsCounted
<1>4. CASE Restart
  <2>1. Counted'
    BY <1>4 DEF Restart, Counted, EventIdsUnique
  <2> QED
    BY <1>4, <2>1, RestartBelow
<1> QED
  BY <1>1, <1>2, <1>3, <1>4, GeneratorStep

LEMMA UniqueAlways == RegistrySpec => [](TypeOK /\ IdsBelow /\ Counted)
<1>1. RegistryInit => IdsBelow /\ Counted
  <2> SUFFICES ASSUME RegistryInit PROVE IdsBelow /\ Counted
    OBVIOUS
  <2>1. issued = {} /\ lastTs <= floor /\ failures = 0 /\ calls = 0
    BY DEF RegistryInit, Init
  <2>2. IsFiniteSet(issued) /\ Cardinality(issued) = 0
    BY <2>1, FS_EmptySet
  <2> QED
    BY <2>1, <2>2 DEF IdsBelow, Counted, EventIdsUnique
<1>2. TypeOK /\ IdsBelow /\ Counted /\ [RegistryNext]_allVars => IdsBelow' /\ Counted'
  BY UniqueNext
<1> QED
  BY <1>1, <1>2, TypeCorrect, PTL DEF RegistrySpec

(* generate_id gives out no number twice while neither the clock nor the   *)
(* timestamps its callers pass go back: not at a millisecond's last        *)
(* number, not after calls that failed, not after restarts.                *)
THEOREM IdsUnique == RegistrySpec => []EventIdsUnique
<1>1. Counted => EventIdsUnique
  BY DEF Counted
<1> QED
  BY <1>1, UniqueAlways, PTL

-----------------------------------------------------------------------------
(* The order in which events become visible *)

(* A fid lock has one holder (fid_locks in store.rs).                      *)
OneHolder ==
    \A t, u \in Thread :
        work[t].lock # Unlocked /\ work[t].lock = work[u].lock => t = u

(* What the holder of a lock is about to write comes after everything      *)
(* written under that lock.                                                *)
WorkAbove ==
    monotone => \A t \in Thread :
        work[t].lock # Unlocked =>
            \A i \in work[t].ids, d \in visible : d.lock = work[t].lock => d.id < i

\* a step that lets no thread take a lock, change a locked batch or write under a lock
NoLockedWork ==
    /\ \A t \in Thread : work'[t] = work[t] \/ work'[t].lock = Unlocked
    /\ \A d \in visible' : d \in visible \/ d.lock = Unlocked
    /\ monotone' => monotone

LEMMA NoLockedWorkKeeps ==
    ASSUME OneHolder, WorkAbove, NoLockedWork
    PROVE  OneHolder' /\ WorkAbove'
<1>1. OneHolder'
  BY DEF OneHolder, NoLockedWork
<1>2. WorkAbove'
  <2> SUFFICES ASSUME monotone', NEW t \in Thread, work'[t].lock # Unlocked,
                      NEW i \in work'[t].ids, NEW d \in visible', d.lock = work'[t].lock
               PROVE  d.id < i
    BY DEF WorkAbove
  <2>1. work'[t] = work[t] /\ d \in visible /\ monotone
    BY DEF NoLockedWork
  <2> QED
    BY <2>1 DEF WorkAbove
<1> QED
  BY <1>1, <1>2

LEMMA MonotoneKept ==
    ASSUME TypeOK, IdsBelow, [RegistryNext]_allVars
    PROVE  monotone' => monotone
<1>1. ASSUME NEW ts \in Time, NEW id, GenerateId(ts, id) PROVE monotone' => monotone
  BY <1>1, GenerateIdBelow
<1>2. ASSUME NEW ts \in Time, GenerateFails(ts) PROVE monotone' => monotone
  BY <1>2, GenerateFailsBelow
<1>3. UNCHANGED generator \/ Restart => monotone' = monotone
  BY DEF generator, Restart
<1> QED
  BY <1>1, <1>2, <1>3, GeneratorStep

LEMMA MergeOrdered ==
    ASSUME TypeOK, IdsBelow, OneHolder, WorkAbove,
           NEW t \in Thread, NEW l \in Lock, Merge(t, l), monotone' => monotone
    PROVE  OneHolder' /\ WorkAbove'
<1>0. now \in Time /\ l # Unlocked /\ visible' = visible
  BY UnlockedNotLock DEF TypeOK, Merge
<1>1. CASE GenerateFails(now) /\ UNCHANGED work
  BY <1>0, <1>1, NoLockedWorkKeeps DEF NoLockedWork
<1>2. CASE GenerateId(now, NextId) /\ work' = [work EXCEPT ![t] = [lock |-> l, ids |-> {NextId}]]
  <2>1. work'[t] = [lock |-> l, ids |-> {NextId}] /\ \A u \in Thread \ {t} : work'[u] = work[u]
    BY <1>2 DEF TypeOK
  <2>2. \A u \in Thread : work[u].lock # l
    BY DEF Merge, LockFree
  <2>3. OneHolder'
    BY <2>1, <2>2 DEF OneHolder
  <2>4. WorkAbove'
    <3> SUFFICES ASSUME monotone', NEW u \in Thread, work'[u].lock # Unlocked,
                        NEW i \in work'[u].ids, NEW d \in visible', d.lock = work'[u].lock
                 PROVE  d.id < i
      BY DEF WorkAbove
    <3>1. CASE u = t
      <4>1. i = NextId
        BY <2>1, <3>1
      <4>2. d.id \in issued
        BY <1>0 DEF TypeOK
      <4>3. \A j \in issued : j < NextId
        BY <1>0, <1>2, GenerateIdBelow
      <4> QED
        BY <4>1, <4>2, <4>3
    <3>2. CASE u # t
      BY <1>0, <2>1, <3>2 DEF WorkAbove
    <3> QED
      BY <3>1, <3>2
  <2> QED
    BY <2>3, <2>4
<1> QED
  BY <1>1, <1>2 DEF Merge

LEMMA CommitOrdered ==
    ASSUME TypeOK, OneHolder, WorkAbove, NEW t \in Thread, Commit(t)
    PROVE  /\ OneHolder' /\ WorkAbove'
           /\ \A e \in visible' \ visible : monotone /\ e.lock # Unlocked =>
                 \A d \in visible : d.lock = e.lock => d.id < e.id
<1>1. /\ monotone' = monotone /\ work' = [work EXCEPT ![t] = Idle]
      /\ visible' \in {visible, visible \cup {[id |-> i, lock |-> work[t].lock] : i \in work[t].ids}}
  BY DEF Commit, generator
<1>2. work'[t].lock = Unlocked /\ \A u \in Thread \ {t} : work'[u] = work[u]
  BY <1>1 DEF TypeOK, Idle
<1>3. \A e \in visible' \ visible : e.lock = work[t].lock /\ e.id \in work[t].ids
  BY <1>1
<1>4. OneHolder'
  BY <1>2 DEF OneHolder
<1>5. WorkAbove'
  <2> SUFFICES ASSUME monotone', NEW u \in Thread, work'[u].lock # Unlocked,
                      NEW i \in work'[u].ids, NEW d \in visible', d.lock = work'[u].lock
               PROVE  d.id < i
    BY DEF WorkAbove
  <2>1. u # t /\ work'[u] = work[u]
    BY <1>2
  <2>2. d \in visible
    BY <1>3, <2>1 DEF OneHolder
  <2> QED
    BY <1>1, <2>1, <2>2 DEF WorkAbove
<1>6. \A e \in visible' \ visible : monotone /\ e.lock # Unlocked =>
         \A d \in visible : d.lock = e.lock => d.id < e.id
  BY <1>3 DEF WorkAbove
<1> QED
  BY <1>4, <1>5, <1>6

\* the steps that are neither a merge nor a commit
LEMMA OtherStepsUnlocked ==
    ASSUME TypeOK, IdsBelow, [RegistryNext]_allVars,
           \A t \in Thread : ~Commit(t) /\ \A l \in Lock : ~Merge(t, l)
    PROVE  NoLockedWork
<1>0. (monotone' => monotone) /\ work \in [Thread -> [lock : Lock \cup {Unlocked}, ids : SUBSET issued]]
  BY MonotoneKept DEF TypeOK
<1>1. ASSUME NEW t \in Thread, Prune(t) PROVE NoLockedWork
  <2>1. work[t].lock = Unlocked /\ visible' = visible
    BY <1>1 DEF Prune
  <2>2. CASE work' = [work EXCEPT ![t].ids = @ \cup {NextId}]
    <3>1. \A u \in Thread \ {t} : work'[u] = work[u]
      BY <1>0, <2>2
    <3>2. work'[t].lock = Unlocked
      BY <1>0, <2>1, <2>2
    <3> QED
      BY <1>0, <2>1, <3>1, <3>2 DEF NoLockedWork
  <2>3. CASE work' = [work EXCEPT ![t] = Idle]
    BY <1>0, <2>1, <2>3 DEF NoLockedWork, Idle
  <2> QED
    BY <1>1, <2>2, <2>3 DEF Prune
<1>2. CASE Restart
  BY <1>0, <1>2 DEF Restart, NoLockedWork, Idle
<1>3. CASE work' = work /\ visible' = visible
  BY <1>0, <1>3 DEF NoLockedWork
<1>4. ASSUME NEW p \in Proof, MergeProof(p) PROVE NoLockedWork
  <2>1. visible' = visible \cup {[id |-> NextId, lock |-> Unlocked]} /\ work' = work
    BY <1>4 DEF MergeProof
  <2> QED
    BY <1>0, <2>1 DEF NoLockedWork
<1>5. ASSUME NEW p \in Proof, RefuseProof(p) \/ MergeProofFails(p)
      PROVE  work' = work /\ visible' = visible
  BY <1>5 DEF RefuseProof, MergeProofFails, vars
<1>6. UNCHANGED allVars => work' = work /\ visible' = visible
  BY DEF allVars, vars
<1>7. ClockChanges \/ (\E ts \in Time : GetNextEventId(ts)) => work' = work /\ visible' = visible
  BY DEF ClockChanges, GetNextEventId
<1> QED
  BY <1>1, <1>2, <1>3, <1>4, <1>5, <1>6, <1>7 DEF RegistryNext, Next, MergeUsernameProof

LEMMA OrderedNext ==
    ASSUME TypeOK, IdsBelow, OneHolder, WorkAbove, [RegistryNext]_allVars
    PROVE  /\ OneHolder' /\ WorkAbove'
           /\ \A e \in visible' \ visible : monotone /\ e.lock # Unlocked =>
                 \A d \in visible : d.lock = e.lock => d.id < e.id
<1>1. ASSUME NEW t \in Thread, NEW l \in Lock, Merge(t, l)
      PROVE  OneHolder' /\ WorkAbove' /\ visible' = visible
  BY <1>1, MonotoneKept, MergeOrdered DEF Merge
<1>2. CASE \E t \in Thread : Commit(t)
  BY <1>2, CommitOrdered
<1>3. CASE \A t \in Thread : ~Commit(t) /\ \A l \in Lock : ~Merge(t, l)
  <2>1. NoLockedWork
    BY <1>3, OtherStepsUnlocked
  <2> QED
    BY <2>1, NoLockedWorkKeeps DEF NoLockedWork
<1> QED
  BY <1>1, <1>2, <1>3

(* Merges under one lock of one store become visible in the order of their *)
(* ids (merge in store.rs holds the lock over db.commit), for any number   *)
(* of threads and locks, while no call of generate_id goes back.  Nothing  *)
(* is said of events of different stores, nor of revoke and prune, which   *)
(* hold no lock: CommitLock, which would order them all, does not hold.    *)
THEOREM LockedInOrder == RegistrySpec => LockedEventsInOrder
<1>1. RegistryInit => OneHolder /\ WorkAbove
  BY DEF RegistryInit, Init, Idle, OneHolder, WorkAbove
<1>2. TypeOK /\ IdsBelow /\ OneHolder /\ WorkAbove /\ [RegistryNext]_allVars
        => OneHolder' /\ WorkAbove'
  BY OrderedNext
<1>3. TypeOK /\ IdsBelow /\ OneHolder /\ WorkAbove /\ [RegistryNext]_allVars
        => [\A e \in visible' \ visible : monotone /\ e.lock # Unlocked =>
              \A d \in visible : d.lock = e.lock => d.id < e.id]_vars
  BY OrderedNext
<1> QED
  BY <1>1, <1>2, <1>3, UniqueAlways, PTL DEF RegistrySpec, LockedEventsInOrder

-----------------------------------------------------------------------------
(* The name registry *)

RegistryOK ==
    /\ proofs \in [Name -> SUBSET Proof]
    /\ byFid \in [Fid -> SUBSET Name]
    /\ offered \subseteq Proof
    /\ unclear \subseteq Fid

(* A name has at most one proof, stored under its own name and one that    *)
(* was offered.                                                            *)
OneProof ==
    \A n \in Name : \A p \in proofs[n] :
        p.name = n /\ p \in offered /\ proofs[n] = {p}

(* For every proof of an owner that was offered, that proof or one that    *)
(* is not older is stored.                                                 *)
NoneNewer ==
    \A p \in offered : p.fid # 0 => \E q \in proofs[p.name] : q = p \/ ~Older(q, p)

(* The names of a fid, and its entry: the fids that had one name at a time *)
(* and lost none to another fid have exactly that name as entry.           *)
NamesOf(f) == {n \in Name : \E p \in proofs[n] : p.fid = f}
EntryExact ==
    \A f \in Fid \ unclear : byFid[f] = NamesOf(f) /\ \A n, k \in byFid[f] : n = k

RegistryInv == RegistryOK /\ OneProof /\ NoneNewer /\ EntryExact

LEMMA ProofFields ==
    ASSUME NEW p \in Proof
    PROVE  /\ p.name \in Name /\ p.fid \in Fid \cup {0}
           /\ p.timestamp \in Nat /\ p.signature \in Nat
BY ProofType

(* username_proof_compare is a total preorder.                             *)
LEMMA OlderTransitive ==
    ASSUME NEW p \in Proof, NEW q \in Proof, NEW r \in Proof, Older(p, q), ~Older(p, r)
    PROVE  ~Older(q, r)
BY ProofFields DEF Older

LEMMA RefuseKeeps ==
    ASSUME RegistryInv, NEW p \in Proof, RefuseProof(p)
    PROVE  RegistryInv'
<1>1. UNCHANGED <<proofs, byFid, unclear>> /\ offered' = offered \cup {p} /\ Refused(p)
  BY DEF RefuseProof
<1>2. RegistryOK' /\ OneProof' /\ EntryExact'
  BY <1>1 DEF RegistryInv, RegistryOK, OneProof, EntryExact, NamesOf
<1>3. NoneNewer'
  <2>1. p.fid # 0 => \E q \in proofs[p.name] : ~Older(q, p)
    BY <1>1 DEF Refused
  <2> QED
    BY <1>1, <2>1 DEF RegistryInv, NoneNewer, Older
<1> QED
  BY <1>2, <1>3 DEF RegistryInv

LEMMA MergeKeepsProofs ==
    ASSUME RegistryInv, NEW p \in Proof, MergeProof(p)
    PROVE  RegistryOK' /\ OneProof' /\ NoneNewer'
<1>1. /\ proofs' = [proofs EXCEPT ![p.name] = {p}] /\ byFid' = ByFidAfter(p)
      /\ offered' = offered \cup {p} /\ unclear' = unclear \cup Unclear(p)
      /\ \A q \in proofs[p.name] : Older(q, p)
  BY DEF MergeProof, Refused
<1>2. p.name \in Name /\ p.fid \in Fid \cup {0}
  BY ProofFields
<1>3. RegistryOK /\ OneProof /\ NoneNewer
  BY DEF RegistryInv
<1>4. proofs'[p.name] = {p} /\ \A n \in Name \ {p.name} : proofs'[n] = proofs[n]
  BY <1>1, <1>2, <1>3 DEF RegistryOK
<1>5. RegistryOK'
  <2>1. proofs' \in [Name -> SUBSET Proof] /\ offered' \subseteq Proof
    BY <1>1, <1>3 DEF RegistryOK
  <2>2. unclear' \subseteq Fid
    BY <1>1, <1>3 DEF RegistryOK, Unclear
  <2>3. byFid' \in [Fid -> SUBSET Name]
    <3>1. CASE p.fid = 0
      BY <1>1, <1>3, <3>1 DEF RegistryOK, ByFidAfter
    <3>2. CASE p.fid # 0
      BY <1>1, <1>2, <1>3, <3>2 DEF RegistryOK, ByFidAfter
    <3> QED
      BY <3>1, <3>2
  <2> QED
    BY <2>1, <2>2, <2>3 DEF RegistryOK
<1>6. OneProof'
  BY <1>1, <1>3, <1>4 DEF OneProof
<1>7. NoneNewer'
  <2> SUFFICES ASSUME NEW r \in offered', r.fid # 0
               PROVE  \E q \in proofs'[r.name] : q = r \/ ~Older(q, r)
    BY DEF NoneNewer, Older
  <2>1. CASE r = p
    BY <1>4, <2>1
  <2>2. CASE r \in offered /\ r.name # p.name
    <3>1. r.name \in Name
      BY <1>3, <2>2, ProofFields DEF RegistryOK
    <3> QED
      BY <1>3, <1>4, <2>2, <3>1 DEF NoneNewer
  <2>3. CASE r \in offered /\ r.name = p.name
    <3>1. PICK q \in proofs[p.name] : q = r \/ ~Older(q, r)
      BY <1>3, <2>3 DEF NoneNewer
    <3>2. Older(q, p) /\ q \in Proof /\ r \in Proof
      BY <1>1, <1>2, <1>3, <2>3 DEF RegistryOK
    <3>3. ~Older(p, r)
      <4>1. CASE q = r
        BY <3>2, <4>1, ProofFields DEF Older
      <4>2. CASE ~Older(q, r)
        BY <3>2, <4>2, OlderTransitive
      <4> QED
        BY <3>1, <4>1, <4>2
    <3> QED
      BY <1>4, <2>3, <3>3
  <2> QED
    BY <1>1, <2>1, <2>2, <2>3
<1> QED
  BY <1>5, <1>6, <1>7

LEMMA MergeKeepsEntries ==
    ASSUME RegistryInv, NEW p \in Proof, MergeProof(p)
    PROVE  EntryExact'
<1>1. /\ proofs' = [proofs EXCEPT ![p.name] = {p}] /\ byFid' = ByFidAfter(p)
      /\ unclear' = unclear \cup Unclear(p)
  BY DEF MergeProof
<1>2. /\ p.name \in Name /\ p.fid \in Fid \cup {0}
      /\ proofs \in [Name -> SUBSET Proof] /\ byFid \in [Fid -> SUBSET Name]
  BY ProofFields DEF RegistryInv, RegistryOK
<1>3. proofs'[p.name] = {p} /\ \A n \in Name \ {p.name} : proofs'[n] = proofs[n]
  BY <1>1, <1>2
<1> SUFFICES ASSUME NEW f \in Fid, f \notin unclear'
             PROVE  byFid'[f] = NamesOf(f)' /\ \A n, k \in byFid'[f] : n = k
  BY DEF EntryExact
<1>4. byFid[f] = NamesOf(f) /\ \A n, k \in byFid[f] : n = k
  BY <1>1 DEF RegistryInv, EntryExact
<1>5. f # 0
  BY FidPositive
<1>6. NamesOf(f)' = IF p.fid = f THEN NamesOf(f) \cup {p.name} ELSE NamesOf(f) \ {p.name}
  BY <1>2, <1>3 DEF NamesOf
<1>7. CASE p.fid = 0
  <2>1. byFid'[f] = IF \E q \in proofs[p.name] : q.fid = f THEN {} ELSE byFid[f]
    BY <1>1, <1>7 DEF ByFidAfter
  <2>2. (\E q \in proofs[p.name] : q.fid = f) <=> p.name \in NamesOf(f)
    BY <1>2 DEF NamesOf
  <2>3. NamesOf(f)' = NamesOf(f) \ {p.name}
    BY <1>5, <1>6, <1>7
  <2>4. CASE p.name \in NamesOf(f)
    <3>1. NamesOf(f) \subseteq {p.name}
      BY <1>4, <2>4
    <3> QED
      BY <2>1, <2>2, <2>3, <2>4, <3>1
  <2>5. CASE p.name \notin NamesOf(f)
    BY <1>4, <2>1, <2>2, <2>3, <2>5
  <2> QED
    BY <2>4, <2>5
<1>8. CASE p.fid # 0 /\ p.fid = f
  <2>1. byFid'[f] = {p.name}
    BY <1>1, <1>2, <1>8 DEF ByFidAfter
  <2>2. \A n \in Name \ {p.name} : \A q \in proofs[n] : q.fid # f
    BY <1>1, <1>8 DEF Unclear
  <2>3. NamesOf(f) \subseteq {p.name}
    BY <2>2 DEF NamesOf
  <2> QED
    BY <1>6, <1>8, <2>1, <2>3
<1>9. CASE p.fid # 0 /\ p.fid # f
  <2>1. byFid'[f] = byFid[f]
    BY <1>1, <1>2, <1>9 DEF ByFidAfter
  <2>2. \A q \in proofs[p.name] : q.fid # f
    BY <1>1, <1>9 DEF Unclear
  <2>3. p.name \notin NamesOf(f)
    BY <2>2 DEF NamesOf
  <2> QED
    BY <1>4, <1>6, <1>9, <2>1, <2>3
<1> QED
  BY <1>7, <1>8, <1>9

LEMMA RegistryNextKeeps ==
    ASSUME RegistryInv, [RegistryNext]_allVars
    PROVE  RegistryInv'
<1>1. CASE UNCHANGED registry
  BY <1>1 DEF registry, RegistryInv, RegistryOK, OneProof, NoneNewer, EntryExact, NamesOf, Older
<1>2. ASSUME NEW p \in Proof, RefuseProof(p) PROVE RegistryInv'
  BY <1>2, RefuseKeeps
<1>3. ASSUME NEW p \in Proof, MergeProof(p) PROVE RegistryInv'
  BY <1>3, MergeKeepsProofs, MergeKeepsEntries DEF RegistryInv
<1>4. ASSUME NEW p \in Proof, MergeProofFails(p) PROVE UNCHANGED registry
  BY <1>4 DEF MergeProofFails
<1> QED
  BY <1>1, <1>2, <1>3, <1>4 DEF RegistryNext, MergeUsernameProof, allVars

LEMMA RegistryAlways == RegistrySpec => []RegistryInv
<1>1. RegistryInit => RegistryInv
  BY DEF RegistryInit, RegistryInv, RegistryOK, OneProof, NoneNewer, EntryExact, NamesOf
<1>2. RegistryInv /\ [RegistryNext]_allVars => RegistryInv'
  BY RegistryNextKeeps
<1> QED
  BY <1>1, <1>2, PTL DEF RegistrySpec

(* merge_username_proof keeps the newest proof of a name in whatever order *)
(* the proofs of its owners come, for any names, fids and proofs.          *)
THEOREM NewestWins == RegistrySpec => []NewestProofWins
<1>1. RegistryInv => NewestProofWins
  <2> SUFFICES ASSUME RegistryInv, NEW p \in offered, p.fid # 0,
                      \A q \in offered : q.name = p.name /\ q # p => Older(q, p)
               PROVE  proofs[p.name] = {p}
    BY DEF NewestProofWins
  <2>1. p.name \in Name
    BY ProofFields DEF RegistryInv, RegistryOK
  <2>2. PICK q \in proofs[p.name] : q = p \/ ~Older(q, p)
    BY DEF RegistryInv, NoneNewer
  <2>3. q.name = p.name /\ q \in offered /\ proofs[p.name] = {q}
    BY <2>1, <2>2 DEF RegistryInv, OneProof
  <2> QED
    BY <2>2, <2>3
<1> QED
  BY <1>1, RegistryAlways, PTL

(* get_fname_proof_by_fid finds the proof of a fid, and no other, through  *)
(* any merges and deletions that do not give a fid two names or one of its *)
(* names to another fid.                                                   *)
THEOREM EntriesExact == RegistrySpec => []ByFidExact
<1>1. RegistryInv => ByFidExact
  <2> SUFFICES ASSUME RegistryInv, NEW f \in Fid \ unclear
               PROVE  ProofByFid(f) = {p \in UNION {proofs[n] : n \in Name} : p.fid = f}
    BY DEF ByFidExact
  <2>1. byFid[f] = NamesOf(f)
    BY DEF RegistryInv, EntryExact
  <2>2. \A n \in Name : \A p \in proofs[n] : p.fid = f => proofs[n] = {p}
    BY DEF RegistryInv, OneProof
  <2>3. \A n \in NamesOf(f) : n \in Name /\ \A p \in proofs[n] : p.fid = f
    BY <2>2 DEF NamesOf
  <2> QED
    BY <2>1, <2>3 DEF ProofByFid, NamesOf
<1> QED
  BY <1>1, RegistryAlways, PTL
=============================================================================
