--------------------------- MODULE BlockSyncProofs --------------------------
(***************************************************************************)
(* TLAPS proofs for BlockSync: catching up continues the chain and leaves  *)
(* no gap in the store, for any number of peers, any length of the chain,  *)
(* any page size and any capacity of the channel to the writer.            *)
(***************************************************************************)
EXTENDS BlockSync, FiniteSetTheorems, SequenceTheorems, TLAPS

-----------------------------------------------------------------------------
(* Stores without gaps *)

LEMMA MaxOfPrefix ==
    ASSUME NEW k \in Nat
    PROVE  MaxBlockNumber(1..k) = k
<1>1. k \in (1..k) \cup {0} /\ \A y \in (1..k) \cup {0} : k >= y
  OBVIOUS
<1>2. \A x \in (1..k) \cup {0} : (\A y \in (1..k) \cup {0} : x >= y) => x = k
  OBVIOUS
<1> QED
  BY <1>1, <1>2 DEF MaxBlockNumber, Max

LEMMA PrefixNext ==
    ASSUME NEW k \in Nat
    PROVE  (1..k) \cup {k + 1} = 1..(k + 1)
OBVIOUS

LEMMA IntervalSize ==
    ASSUME NEW a \in Nat, NEW b \in Nat
    PROVE  /\ Cardinality(a..b) \in Nat
           /\ a <= b => Cardinality(a..b) = b - a + 1
           /\ b < a => Cardinality(a..b) = 0
<1>1. Cardinality(a..b) = IF a > b THEN 0 ELSE b - a + 1
  BY FS_Interval
<1>2. CASE a <= b
  BY <1>1, <1>2
<1>3. CASE b < a
  BY <1>1, <1>3
<1> QED
  BY <1>2, <1>3

(* In the order of the iterator an interval is counted up.                 *)
LEMMA AscendingInterval ==
    ASSUME NEW a \in Nat, NEW b \in Nat
    PROVE  /\ Ascending(a..b) \in Seq(a..b)
           /\ \A i \in 1..Len(Ascending(a..b)) : Ascending(a..b)[i] = a + i - 1
<1> DEFINE S == a..b
           n == Cardinality(S)
<1>1. n \in Nat /\ (a <= b => n = b - a + 1) /\ (b < a => n = 0)
  BY IntervalSize
<1>2. ASSUME NEW x \in S PROVE Cardinality({c \in S : c < x}) = x - a
  <2>1. CASE x = 0
    <3>1. a = 0 /\ {c \in S : c < x} = {}
      BY <2>1
    <3> QED
      BY <2>1, <3>1, FS_EmptySet
  <2>2. CASE x # 0
    <3>1. x \in Nat /\ x - 1 \in Nat /\ a <= x /\ x <= b
      BY <2>2
    <3>2. {c \in S : c < x} = a..(x - 1)
      BY <3>1
    <3>3. /\ a <= x - 1 => Cardinality(a..(x - 1)) = x - 1 - a + 1
          /\ x - 1 < a => Cardinality(a..(x - 1)) = 0
      BY <3>1, IntervalSize
    <3>4. Cardinality(a..(x - 1)) = x - a
      BY <3>1, <3>3
    <3> QED
      BY <3>2, <3>4, Zenon
  <2> QED
    BY <2>1, <2>2
<1>3. ASSUME NEW i \in 1..n
      PROVE  (CHOOSE x \in S : Cardinality({c \in S : c < x}) = i - 1) = a + i - 1
  <2>1. a + i - 1 \in S
    BY <1>1
  <2>2. Cardinality({c \in S : c < a + i - 1}) = i - 1
    BY <1>2, <2>1
  <2>3. \A x \in S : Cardinality({c \in S : c < x}) = i - 1 => x = a + i - 1
    BY <1>2
  <2> QED
    BY <2>1, <2>2, <2>3
<1>4. Ascending(S) = [i \in 1..n |-> a + i - 1]
  BY <1>3 DEF Ascending
<1>5. \A i \in 1..n : a + i - 1 \in S
  BY <1>1
<1> HIDE DEF n
<1>6. [i \in 1..n |-> a + i - 1] \in Seq(S) /\ Len([i \in 1..n |-> a + i - 1]) = n
  BY <1>1, <1>5
<1> QED
  BY <1>4, <1>6

(* The first page continues from start; a page with a token is empty,      *)
(* since its upper bound is below its lower bound.                         *)
LEMMA FirstPage ==
    ASSUME NEW k \in 0..MaxChain, NEW start \in Nat \ {0}
    PROVE  /\ PageOf(1..k, start, 0) \in Seq(1..k)
           /\ \A i \in 1..Len(PageOf(1..k, start, 0)) : PageOf(1..k, start, 0)[i] = start + i - 1
<1> USE SizesPositive
<1> DEFINE found == Ascending(start..k)
           n == IF Len(found) < PageSize THEN Len(found) ELSE PageSize
<1>1. k \in Nat
  OBVIOUS
<1>2. {b \in 1..k : Lower(start, 0) <= b /\ b < Upper(0)} = start..k
  BY DEF Lower, Upper
<1>3. PageOf(1..k, start, 0) = SubSeq(found, 1, n)
  BY <1>2 DEF PageOf
<1>4. found \in Seq(start..k) /\ \A i \in 1..Len(found) : found[i] = start + i - 1
  BY <1>1, AscendingInterval
<1> HIDE DEF found
<1>5. Len(found) \in Nat /\ n \in 0..Len(found)
  BY <1>4
<1> HIDE DEF n
<1>6. /\ Len(SubSeq(found, 1, n)) = n
      /\ SubSeq(found, 1, n) \in Seq(start..k)
      /\ \A i \in 1..n : SubSeq(found, 1, n)[i] = found[i]
  BY <1>4, <1>5
<1>7. \A i \in 1..n : found[i] = start + i - 1
  BY <1>4, <1>5
<1>8. start..k \subseteq 1..k
  OBVIOUS
<1>9. SubSeq(found, 1, n) \in Seq(1..k)
  BY <1>6, <1>8
<1> QED
  BY <1>3, <1>6, <1>7, <1>9

LEMMA LaterPage ==
    ASSUME NEW k \in 0..MaxChain, NEW start \in Nat \ {0}, NEW token \in 1..k
    PROVE  PageOf(1..k, start, token) = <<>>
<1>1. {b \in 1..k : Lower(start, token) <= b /\ b < Upper(token)} = {}
  BY DEF Lower, Upper
<1>2. Ascending({}) = <<>>
  <2>1. Cardinality({}) = 0
    BY FS_EmptySet
  <2> QED
    BY <2>1 DEF Ascending
<1>3. PageOf(1..k, start, token) = SubSeq(<<>>, 1, IF Len(<<>>) < PageSize THEN Len(<<>>) ELSE PageSize)
  BY <1>1, <1>2 DEF PageOf
<1>4. (IF Len(<<>>) < PageSize THEN Len(<<>>) ELSE PageSize) = 0
  BY SizesPositive
<1> QED
  BY <1>3, <1>4

(* So get_blocks answers with the first page only: a node that joins gets  *)
(* at most PageSize blocks however many a peer without gaps has stored,    *)
(* for every chain and page size.                                          *)
THEOREM OnePage ==
    ASSUME NEW k \in 0..MaxChain, NEW start \in Nat \ {0}
    PROVE  GetBlocks(1..k, start) = PageOf(1..k, start, 0)
<1> DEFINE D == {0} \cup (1..k)
           page(t) == PageOf(1..k, start, t)
           step(f, t) == IF NextToken(page(t)) = 0 THEN page(t) ELSE page(t) \o f[NextToken(page(t))]
           from == CHOOSE f : f = [t \in D |-> step(f, t)]
           all == [t \in D |-> page(t)]
<1>1. page(0) \in Seq(1..k) /\ page(0) \o <<>> = page(0)
  <2>1. page(0) \in Seq(1..k)
    BY FirstPage
  <2> HIDE DEF page
  <2> QED
    BY <2>1, ConcatEmptySeq
<1>2. \A t \in 1..k : page(t) = <<>>
  BY LaterPage
<1>3. NextToken(<<>>) = 0
  BY SizesPositive DEF NextToken
<1>4. NextToken(page(0)) # 0 => NextToken(page(0)) \in 1..k
  <2> HIDE DEF page
  <2> SUFFICES ASSUME Len(page(0)) >= PageSize
               PROVE  page(0)[Len(page(0))] \in 1..k
    BY DEF NextToken
  <2>1. Len(page(0)) \in 1..Len(page(0))
    BY <1>1, SizesPositive
  <2> QED
    BY <1>1, <2>1
<1> HIDE DEF page
<1>5. ASSUME NEW f, \A t \in 1..k : f[t] = <<>>
      PROVE  \A t \in D : step(f, t) = page(t)
  <2>1. \A t \in 1..k : step(f, t) = page(t)
    BY <1>2, <1>3
  <2>2. step(f, 0) = page(0)
    BY <1>1, <1>4, <1>5
  <2> QED
    BY <2>1, <2>2
<1>6. all = [t \in D |-> step(all, t)]
  <2>1. \A t \in 1..k : all[t] = <<>>
    BY <1>2
  <2> HIDE DEF all
  <2>2. \A t \in D : step(all, t) = page(t)
    BY <2>1, <1>5
  <2> HIDE DEF step
  <2> QED
    BY <2>2 DEF all
<1>7. from = [t \in D |-> step(from, t)]
  <2> HIDE DEF all, step
  <2> QED
    BY <1>6
<1> HIDE DEF from
<1>8. \A t \in 1..k : from[t] = <<>>
  <2> SUFFICES ASSUME NEW t \in 1..k
               PROVE  from[t] = <<>>
    OBVIOUS
  <2>1. from[t] = step(from, t)
    <3> HIDE DEF step
    <3> QED
      BY <1>7
  <2> QED
    BY <2>1, <1>2, <1>3
<1>9. from[0] = page(0)
  <2>1. from[0] = step(from, 0)
    <3> HIDE DEF step
    <3> QED
      BY <1>7
  <2> QED
    BY <2>1, <1>5, <1>8
<1>10. GetBlocks(1..k, start) = from[0]
  BY DEF GetBlocks, from, step, page
<1> QED
  BY <1>9, <1>10 DEF page

-----------------------------------------------------------------------------
(* The inductive invariant *)

(* A peer took part from block 1, so its store has no gap.                 *)
PeersOK == \A p \in Peer : \E k \in 0..MaxChain : peerStore[p] = 1..k

(* What is fetched continues the blocks appended so far.                   *)
FetchOK ==
    /\ fetched \in Seq(Block)
    /\ \A i \in 1..Len(fetched) : /\ fetched[i] = LastBlock + i
                                  /\ \E p \in Peer : fetched[i] \in peerStore[p]

(* Before the node takes part, the channel holds the last blocks appended, *)
(* and the store every block before them, perhaps more after a restart.    *)
StoreOK ==
    /\ started => joined
    /\ ~joined => \E k \in 0..MaxChain :
         /\ store = 1..k
         /\ Len(queue) <= LastBlock
         /\ LastBlock - Len(queue) <= k
         /\ \A i \in 1..Len(queue) : queue[i] = LastBlock - Len(queue) + i

StateOK ==
    /\ peerStore \in [Peer -> SUBSET Block]
    /\ known \subseteq Peer
    /\ blocks \in Seq(Block) /\ queue \in Seq(Block) /\ Len(queue) <= QueueCap
    /\ store \subseteq Block
    /\ started \in BOOLEAN /\ joined \in BOOLEAN
    /\ height \in 1..(MaxChain + 1) /\ promised \in 0..MaxChain

AdsOK == \A a \in ads : a[1] \in Peer /\ a[2] \in {0} \cup peerStore[a[1]]

SyncInv == StateOK /\ AdsOK /\ PeersOK /\ FetchOK /\ StoreOK

LEMMA LastBlockType ==
    ASSUME StateOK
    PROVE  LastBlock \in 0..MaxChain
<1>1. CASE blocks = <<>>
  BY <1>1, SizesPositive DEF LastBlock
<1>2. CASE blocks # <<>>
  <2>1. blocks \in Seq(Block) /\ Len(blocks) \in 1..Len(blocks)
    BY <1>2 DEF StateOK
  <2>2. blocks[Len(blocks)] \in Block
    BY <2>1
  <2> QED
    BY <1>2, <2>2, SizesPositive DEF LastBlock, Block
<1> QED
  BY <1>1, <1>2

LEMMA LastOfAppend ==
    ASSUME StateOK, NEW b \in Block, blocks' = Append(blocks, b)
    PROVE  LastBlock' = b /\ blocks' \in Seq(Block)
<1>1. blocks \in Seq(Block)
  BY DEF StateOK
<1>2. Len(blocks') = Len(blocks) + 1 /\ blocks'[Len(blocks) + 1] = b /\ blocks' # <<>>
  BY <1>1
<1> QED
  BY <1>1, <1>2 DEF LastBlock

LEMMA PeerDecidesStep ==
    ASSUME SyncInv, NEW p \in Peer, PeerDecides(p)
    PROVE  SyncInv'
<1> USE SizesPositive
<1>1. PICK k \in 0..MaxChain : peerStore[p] = 1..k
  BY DEF SyncInv, PeersOK
<1>2. MaxBlockNumber(peerStore[p]) = k
  BY <1>1, MaxOfPrefix
<1>3. k < MaxChain /\ peerStore' = [peerStore EXCEPT ![p] = peerStore[p] \cup {k + 1}]
  BY <1>2 DEF PeerDecides, SyncInv, StateOK
<1>4. peerStore[p] \cup {k + 1} = 1..(k + 1) /\ k + 1 \in 0..MaxChain
  BY <1>1, <1>3, PrefixNext
<1>5. /\ peerStore'[p] = 1..(k + 1)
      /\ \A q \in Peer : q # p => peerStore'[q] = peerStore[q]
      /\ \A q \in Peer : peerStore[q] \subseteq peerStore'[q]
      /\ peerStore' \in [Peer -> SUBSET Block]
  BY <1>1, <1>3, <1>4 DEF SyncInv, StateOK, Block
<1>6. PeersOK'
  BY <1>4, <1>5 DEF SyncInv, PeersOK
<1>7. AdsOK'
  BY <1>5 DEF SyncInv, AdsOK, PeerDecides
<1>8. UNCHANGED <<known, fetched, blocks, queue, store, started, height, promised, joined>>
  BY DEF PeerDecides
<1>9. StateOK' /\ StoreOK'
  BY <1>5, <1>8 DEF SyncInv, StateOK, StoreOK, LastBlock
<1>10. FetchOK'
  BY <1>5, <1>8 DEF SyncInv, FetchOK, LastBlock
<1> QED
  BY <1>6, <1>7, <1>9, <1>10 DEF SyncInv

LEMMA AdvertiseStep ==
    ASSUME SyncInv, NEW p \in Peer, Advertise(p)
    PROVE  SyncInv'
<1> USE SizesPositive
<1>1. PICK k \in 0..MaxChain : peerStore[p] = 1..k
  BY DEF SyncInv, PeersOK
<1>2. MaxBlockNumber(peerStore[p]) \in {0} \cup peerStore[p]
  BY <1>1, MaxOfPrefix
<1>3. ads' = ads \cup {<<p, MaxBlockNumber(peerStore[p])>>}
      /\ UNCHANGED <<peerStore, known, fetched, blocks, queue, store, started, height, promised, joined>>
  BY DEF Advertise
<1>4. AdsOK'
  BY <1>2, <1>3 DEF SyncInv, AdsOK
<1> QED
  BY <1>3, <1>4 DEF SyncInv, StateOK, PeersOK, FetchOK, StoreOK, LastBlock

LEMMA MaxOfTwo ==
    ASSUME NEW m \in 0..MaxChain, NEW n \in 0..MaxChain
    PROVE  Max({m, n}) \in 0..MaxChain
<1>1. \E x \in {m, n} : \A y \in {m, n} : x >= y
  BY SizesPositive
<1>2. Max({m, n}) \in {m, n}
  BY <1>1 DEF Max
<1> QED
  BY <1>2

(* What a peer answers continues from the last block.                      *)
LEMMA AnswerContinues ==
    ASSUME SyncInv, NEW p \in Peer
    PROVE  /\ Answer(p) \in Seq(Block)
           /\ \A i \in 1..Len(Answer(p)) : /\ Answer(p)[i] = LastBlock + i
                                           /\ Answer(p)[i] \in peerStore[p]
<1> USE SizesPositive
<1>1. PICK k \in 0..MaxChain : peerStore[p] = 1..k
  BY DEF SyncInv, PeersOK
<1>2. LastBlock \in Nat /\ MissingFrom = LastBlock + 1 /\ MissingFrom \in Nat \ {0}
  BY LastBlockType DEF SyncInv, MissingFrom
<1> DEFINE page == PageOf(1..k, MissingFrom, 0)
<1>3. Answer(p) = page
  BY <1>1, <1>2, OnePage DEF Answer
<1>4. /\ page \in Seq(1..k)
      /\ \A i \in 1..Len(page) : page[i] = MissingFrom + i - 1
  BY <1>2, FirstPage
<1> HIDE DEF page
<1>5. 1..k \subseteq Block
  BY DEF Block
<1>6. page \in Seq(Block)
  BY <1>4, <1>5
<1>7. \A i \in 1..Len(page) : page[i] \in 1..k
  BY <1>4
<1>8. \A i \in 1..Len(page) : page[i] = LastBlock + i
  <2>1. \A i \in 1..Len(page) : i \in Nat
    BY <1>4
  <2> QED
    BY <1>2, <1>4, <2>1
<1> QED
  BY <1>1, <1>3, <1>6, <1>7, <1>8

LEMMA RegisterValidatorStep ==
    ASSUME SyncInv, NEW a \in ads, RegisterValidator(a)
    PROVE  SyncInv'
<1> USE SizesPositive
<1>1. a[1] \in Peer /\ a[2] \in 0..MaxChain
  <2>1. a[1] \in Peer /\ a[2] \in {0} \cup peerStore[a[1]]
    BY DEF SyncInv, AdsOK
  <2>2. peerStore[a[1]] \subseteq 1..MaxChain
    BY <2>1 DEF SyncInv, StateOK, Block
  <2> QED
    BY <2>1, <2>2
<1>2. /\ known' = known \cup {a[1]}
      /\ UNCHANGED <<netVars, blocks, queue, store, started, height, joined>>
  BY DEF RegisterValidator
<1>3. LastBlock' = LastBlock
  BY <1>2 DEF LastBlock
<1>4. PeersOK' /\ AdsOK' /\ StoreOK'
  BY <1>2, <1>3 DEF SyncInv, PeersOK, AdsOK, StoreOK, netVars
<1>5. CASE a[2] > LastBlock
  <2>1. fetched' = Answer(a[1]) /\ promised' = Max({promised, a[2]})
    BY <1>5 DEF RegisterValidator
  <2>2. promised' \in 0..MaxChain
    BY <1>1, <2>1, MaxOfTwo DEF SyncInv, StateOK
  <2>3. StateOK'
    BY <1>1, <1>2, <2>2 DEF SyncInv, StateOK, netVars
  <2>4. /\ fetched' \in Seq(Block)
        /\ \A i \in 1..Len(fetched') : fetched'[i] = LastBlock + i /\ fetched'[i] \in peerStore[a[1]]
    BY <1>1, <2>1, AnswerContinues
  <2>5. FetchOK'
    BY <1>1, <1>2, <1>3, <2>4 DEF FetchOK, netVars
  <2> QED
    BY <1>4, <2>3, <2>5 DEF SyncInv
<1>6. CASE ~(a[2] > LastBlock)
  <2>1. UNCHANGED <<fetched, promised>>
    BY <1>6 DEF RegisterValidator
  <2>2. StateOK' /\ FetchOK'
    BY <1>1, <1>2, <1>3, <2>1 DEF SyncInv, StateOK, FetchOK, netVars
  <2> QED
    BY <1>4, <2>2 DEF SyncInv
<1> QED
  BY <1>5, <1>6

LEMMA RegisterFailsStep ==
    ASSUME SyncInv, NEW a \in ads, RegisterFails(a)
    PROVE  SyncInv'
BY DEF SyncInv, StateOK, AdsOK, PeersOK, FetchOK, StoreOK, RegisterFails, LastBlock, netVars

LEMMA HeadOfFetched ==
    ASSUME SyncInv, fetched # <<>>
    PROVE  Head(fetched) = LastBlock + 1 /\ Head(fetched) \in Block
<1>1. fetched \in Seq(Block) /\ 1 \in 1..Len(fetched)
  BY DEF SyncInv, FetchOK
<1>2. Head(fetched) = fetched[1] /\ fetched[1] \in Block
  BY <1>1
<1>3. fetched[1] = LastBlock + 1
  BY <1>1 DEF SyncInv, FetchOK
<1> QED
  BY <1>2, <1>3

LEMMA PublishMissingStep ==
    ASSUME SyncInv, PublishMissing
    PROVE  SyncInv'
<1> USE SizesPositive
<1>1. /\ blocks' = Append(blocks, Head(fetched)) /\ queue' = Append(queue, Head(fetched))
      /\ fetched' = Tail(fetched) /\ fetched # <<>> /\ Len(queue) < QueueCap
      /\ UNCHANGED <<netVars, known, store, started, height, promised, joined>>
  BY DEF PublishMissing
<1>2. Head(fetched) = LastBlock + 1 /\ Head(fetched) \in Block
  BY <1>1, HeadOfFetched
<1>3. LastBlock \in Nat
  BY LastBlockType DEF SyncInv
<1>4. LastBlock' = LastBlock + 1 /\ blocks' \in Seq(Block)
  BY <1>1, <1>2, LastOfAppend DEF SyncInv
<1>5. queue \in Seq(Block)
  BY DEF SyncInv, StateOK
<1>6. /\ queue' \in Seq(Block) /\ Len(queue') = Len(queue) + 1
      /\ \A i \in 1..Len(queue) : queue'[i] = queue[i]
      /\ queue'[Len(queue) + 1] = LastBlock + 1
  BY <1>1, <1>2, <1>5
<1>7. StateOK'
  BY <1>1, <1>4, <1>5, <1>6 DEF SyncInv, StateOK, netVars
<1>8. PeersOK' /\ AdsOK'
  BY <1>1 DEF SyncInv, PeersOK, AdsOK, netVars
<1>9. FetchOK'
  <2>1. fetched \in Seq(Block)
    BY DEF SyncInv, FetchOK
  <2>2. /\ fetched' \in Seq(Block) /\ Len(fetched') \in Nat /\ Len(fetched) = Len(fetched') + 1
        /\ \A i \in 1..Len(fetched') : fetched'[i] = fetched[i + 1]
    BY <1>1, <2>1
  <2>3. \A i \in 1..Len(fetched') : i + 1 \in 1..Len(fetched) /\ i \in Nat
    BY <2>2
  <2>4. \A i \in 1..Len(fetched') : /\ fetched'[i] = LastBlock + (i + 1)
                                    /\ \E p \in Peer : fetched'[i] \in peerStore[p]
    BY <2>2, <2>3 DEF SyncInv, FetchOK
  <2>5. \A i \in 1..Len(fetched') : fetched'[i] = LastBlock' + i
    BY <1>3, <1>4, <2>3, <2>4
  <2> QED
    BY <1>1, <2>2, <2>4, <2>5 DEF FetchOK, netVars
<1>10. StoreOK'
  <2>1. (started => joined)'
    BY <1>1 DEF SyncInv, StoreOK
  <2> SUFFICES ASSUME ~joined
               PROVE  \E k \in 0..MaxChain :
                        /\ store = 1..k
                        /\ Len(queue') <= LastBlock'
                        /\ LastBlock' - Len(queue') <= k
                        /\ \A i \in 1..Len(queue') : queue'[i] = LastBlock' - Len(queue') + i
    BY <1>1, <2>1 DEF StoreOK
  <2>2. PICK k \in 0..MaxChain :
          /\ store = 1..k
          /\ Len(queue) <= LastBlock
          /\ LastBlock - Len(queue) <= k
          /\ \A i \in 1..Len(queue) : queue[i] = LastBlock - Len(queue) + i
    BY DEF SyncInv, StoreOK
  <2>3. Len(queue) \in Nat
    BY <1>5
  <2>4. /\ Len(queue') <= LastBlock'
        /\ LastBlock' - Len(queue') = LastBlock - Len(queue)
    BY <1>3, <1>4, <1>6, <2>2, <2>3
  <2>5. ASSUME NEW i \in 1..Len(queue')
        PROVE  queue'[i] = LastBlock' - Len(queue') + i
    <3>1. CASE i \in 1..Len(queue)
      BY <1>6, <2>2, <2>4, <3>1
    <3>2. CASE i = Len(queue) + 1
      BY <1>3, <1>4, <1>6, <2>3, <2>4, <3>2
    <3> QED
      BY <1>6, <2>3, <3>1, <3>2
  <2> QED
    BY <2>2, <2>4, <2>5
<1> QED
  BY <1>7, <1>8, <1>9, <1>10 DEF SyncInv

LEMMA WriteBlockStep ==
    ASSUME SyncInv, WriteBlock
    PROVE  SyncInv'
<1> USE SizesPositive
<1>1. /\ queue # <<>> /\ store' = store \cup {Head(queue)} /\ queue' = Tail(queue)
      /\ UNCHANGED <<netVars, known, fetched, blocks, started, height, promised, joined>>
  BY DEF WriteBlock
<1>2. queue \in Seq(Block) /\ Len(queue) <= QueueCap
  BY DEF SyncInv, StateOK
<1>3. /\ Head(queue) = queue[1] /\ Head(queue) \in Block /\ 1 \in 1..Len(queue)
      /\ queue' \in Seq(Block) /\ Len(queue') \in Nat /\ Len(queue) = Len(queue') + 1
      /\ \A i \in 1..Len(queue') : queue'[i] = queue[i + 1]
  BY <1>1, <1>2
<1>4. LastBlock' = LastBlock /\ LastBlock \in Nat
  BY <1>1, LastBlockType DEF LastBlock, SyncInv
<1>5. StateOK'
  BY <1>1, <1>2, <1>3 DEF SyncInv, StateOK, netVars
<1>6. PeersOK' /\ AdsOK' /\ FetchOK'
  BY <1>1, <1>4 DEF SyncInv, PeersOK, AdsOK, FetchOK, netVars
<1>7. StoreOK'
  <2>1. (started => joined)'
    BY <1>1 DEF SyncInv, StoreOK
  <2> SUFFICES ASSUME ~joined
               PROVE  \E k \in 0..MaxChain :
                        /\ store' = 1..k
                        /\ Len(queue') <= LastBlock
                        /\ LastBlock - Len(queue') <= k
                        /\ \A i \in 1..Len(queue') : queue'[i] = LastBlock - Len(queue') + i
    BY <1>1, <1>4, <2>1 DEF StoreOK
  <2>2. PICK k \in 0..MaxChain :
          /\ store = 1..k
          /\ Len(queue) <= LastBlock
          /\ LastBlock - Len(queue) <= k
          /\ \A i \in 1..Len(queue) : queue[i] = LastBlock - Len(queue) + i
    BY DEF SyncInv, StoreOK
  <2>3. queue[1] = LastBlock - Len(queue') /\ queue[1] \in 1..MaxChain /\ queue[1] <= k + 1
    BY <1>3, <1>4, <2>2 DEF Block
  <2>4. \A i \in 1..Len(queue') : queue'[i] = LastBlock - Len(queue') + i
    <3>1. \A i \in 1..Len(queue') : i \in Nat /\ i + 1 \in 1..Len(queue)
      BY <1>3
    <3>2. \A i \in 1..Len(queue') : queue'[i] = LastBlock - Len(queue) + (i + 1)
      BY <1>3, <2>2, <3>1
    <3> QED
      BY <1>3, <1>4, <3>1, <3>2
  <2>5. Len(queue') <= LastBlock
    BY <1>3, <1>4, <2>2
  <2>6. CASE queue[1] <= k
    <3>1. store' = 1..k
      BY <1>1, <1>3, <2>2, <2>3, <2>6
    <3> QED
      BY <2>3, <2>4, <2>5, <2>6, <3>1
  <2>7. CASE queue[1] = k + 1
    <3>1. store' = 1..(k + 1) /\ k + 1 \in 0..MaxChain
      BY <1>1, <1>3, <2>2, <2>3, <2>7, PrefixNext
    <3> QED
      BY <2>3, <2>4, <2>5, <2>7, <3>1
  <2> QED
    BY <2>3, <2>6, <2>7
<1> QED
  BY <1>5, <1>6, <1>7 DEF SyncInv

LEMMA StartStep ==
    ASSUME SyncInv, NEW h \in 1..(MaxChain + 1), Start(h)
    PROVE  SyncInv'
BY DEF SyncInv, StateOK, AdsOK, PeersOK, FetchOK, StoreOK, Start, LastBlock, netVars

LEMMA DecideStep ==
    ASSUME SyncInv, Decide
    PROVE  SyncInv'
<1> USE SizesPositive
<1>1. /\ fetched = <<>> /\ started /\ height <= MaxChain /\ Len(queue) < QueueCap
      /\ store' = store \cup {height} /\ queue' = Append(queue, height)
      /\ blocks' = Append(blocks, height) /\ height' = height + 1
      /\ UNCHANGED <<netVars, known, fetched, started, promised, joined>>
  BY DEF Decide
<1>2. height \in Block
  BY <1>1 DEF SyncInv, StateOK, Block
<1>3. /\ queue' \in Seq(Block) /\ Len(queue') = Len(queue) + 1 /\ blocks' \in Seq(Block)
      /\ Len(queue) \in Nat
  BY <1>1, <1>2 DEF SyncInv, StateOK
<1>4. StateOK'
  <2>1. height' \in 1..(MaxChain + 1) /\ Len(queue') <= QueueCap
    BY <1>1, <1>2, <1>3 DEF Block
  <2>2. store' \subseteq Block
    BY <1>1, <1>2 DEF SyncInv, StateOK
  <2> QED
    BY <1>1, <1>3, <2>1, <2>2 DEF SyncInv, StateOK, netVars
<1>5. PeersOK' /\ AdsOK'
  BY <1>1 DEF SyncInv, PeersOK, AdsOK, netVars
<1>6. FetchOK'
  <2>1. fetched' = <<>> /\ Len(<<>>) = 0
    BY <1>1
  <2> QED
    BY <2>1 DEF FetchOK
<1>7. StoreOK'
  BY <1>1 DEF SyncInv, StoreOK
<1> QED
  BY <1>4, <1>5, <1>6, <1>7 DEF SyncInv

LEMMA RestartStep ==
    ASSUME SyncInv, Restart
    PROVE  SyncInv'
<1> USE SizesPositive
<1>1. /\ known' = {} /\ fetched' = <<>> /\ blocks' = <<>> /\ queue' = <<>>
      /\ started' = FALSE /\ height' = 1 /\ promised' = 0
      /\ UNCHANGED <<netVars, store, joined>>
  BY DEF Restart
<1>2. LastBlock' = 0 /\ Len(<<>>) = 0
  BY <1>1 DEF LastBlock
<1>3. StateOK'
  <2>1. <<>> \in Seq(Block) /\ 0 <= QueueCap /\ 1 \in 1..(MaxChain + 1) /\ 0 \in 0..MaxChain
    OBVIOUS
  <2>2. peerStore \in [Peer -> SUBSET Block] /\ store \subseteq Block /\ joined \in BOOLEAN
    BY DEF SyncInv, StateOK
  <2>3. started' \in BOOLEAN
    BY <1>1, Zenon
  <2> QED
    BY <1>1, <1>2, <2>1, <2>2, <2>3 DEF StateOK, netVars
<1>4. PeersOK' /\ AdsOK'
  BY <1>1 DEF SyncInv, PeersOK, AdsOK, netVars
<1>5. FetchOK'
  BY <1>1, <1>2 DEF FetchOK
<1>6. StoreOK'
  <2>1. ~joined => \E k \in 0..MaxChain : store = 1..k
    BY DEF SyncInv, StoreOK
  <2> QED
    BY <1>1, <1>2, <2>1 DEF StoreOK
<1> QED
  BY <1>3, <1>4, <1>5, <1>6 DEF SyncInv

LEMMA SyncInvInit ==
    ASSUME Init
    PROVE  SyncInv
<1> USE SizesPositive
<1>1. LastBlock = 0 /\ Len(<<>>) = 0 /\ 1..0 = {}
  BY DEF Init, LastBlock
<1>2. StateOK
  <2>1. <<>> \in Seq(Block) /\ 0 <= QueueCap /\ 1 \in 1..(MaxChain + 1) /\ 0 \in 0..MaxChain
    OBVIOUS
  <2>2. started \in BOOLEAN /\ joined \in BOOLEAN
    BY Zenon DEF Init
  <2> QED
    BY <1>1, <2>1, <2>2 DEF Init, StateOK
<1>5. AdsOK /\ FetchOK
  BY <1>1 DEF Init, AdsOK, FetchOK
<1>3. PeersOK
  BY <1>1 DEF Init, PeersOK
<1>4. StoreOK
  <2>1. store = 1..0 /\ queue = <<>> /\ 0 \in 0..MaxChain /\ started = FALSE
    BY <1>1 DEF Init
  <2> QED
    BY <1>1, <2>1 DEF StoreOK
<1> QED
  BY <1>2, <1>3, <1>4, <1>5 DEF SyncInv

LEMMA SyncInvStep ==
    SyncInv /\ [Next]_vars => SyncInv'
<1> SUFFICES ASSUME SyncInv, [Next]_vars
             PROVE  SyncInv'
  OBVIOUS
<1>1. CASE \E p \in Peer : PeerDecides(p) \/ Advertise(p)
  BY <1>1, PeerDecidesStep, AdvertiseStep
<1>2. CASE \E a \in ads : RegisterValidator(a) \/ RegisterFails(a)
  BY <1>2, RegisterValidatorStep, RegisterFailsStep
<1>3. CASE PublishMissing
  BY <1>3, PublishMissingStep
<1>4. CASE WriteBlock
  BY <1>4, WriteBlockStep
<1>5. CASE \E h \in 1..(MaxChain + 1) : Start(h)
  BY <1>5, StartStep
<1>6. CASE Decide
  BY <1>6, DecideStep
<1>7. CASE Restart
  BY <1>7, RestartStep
<1>8. CASE UNCHANGED vars
  BY <1>8 DEF vars, netVars, SyncInv, StateOK, AdsOK, PeersOK, FetchOK, StoreOK, LastBlock
<1> QED
  BY <1>1, <1>2, <1>3, <1>4, <1>5, <1>6, <1>7, <1>8 DEF Next

LEMMA AlwaysSyncInv ==
    Spec => []SyncInv
BY SyncInvInit, SyncInvStep, PTL DEF Spec

-----------------------------------------------------------------------------
(* The theorems *)

(* The types of BlockSync's variables are kept, a registration names a     *)
(* height its sender has stored, and only blocks a peer has stored are     *)
(* fetched.                                                                *)
THEOREM TypeCorrect == Spec => []TypeOK
<1>1. SyncInv => TypeOK
  <2> SUFFICES ASSUME SyncInv
               PROVE  TypeOK
    OBVIOUS
  <2>1. \A i \in DOMAIN fetched : fetched[i] \in UNION Range(peerStore)
    <3>1. DOMAIN fetched = 1..Len(fetched) /\ DOMAIN peerStore = Peer
      BY DEF SyncInv, FetchOK, StateOK
    <3> QED
      BY <3>1 DEF SyncInv, FetchOK, Range
  <2>2. Range(fetched) \subseteq UNION Range(peerStore)
    BY <2>1 DEF Range
  <2> QED
    BY <2>2 DEF SyncInv, StateOK, AdsOK, TypeOK
<1> QED
  BY <1>1, AlwaysSyncInv, PTL

(* Catching up continues blocks with the next number each time, whichever  *)
(* peers are asked in which order and however they go on meanwhile: no gap *)
(* and no block twice in register_validator's loop.                        *)
THEOREM CatchUpContinues == Spec => SyncContinues
<1>1. SyncInv /\ [Next]_vars
        => [fetched # <<>> /\ fetched' # fetched /\ blocks' # <<>>
              => blocks' = Append(blocks, LastBlock + 1)]_vars
  <2> SUFFICES ASSUME SyncInv, Next, fetched # <<>>, fetched' # fetched, blocks' # <<>>
               PROVE  blocks' = Append(blocks, LastBlock + 1)
    OBVIOUS
  <2>1. PublishMissing
    BY DEF Next, PeerDecides, Advertise, RegisterValidator, RegisterFails, WriteBlock,
           Start, Decide, Restart
  <2> QED
    BY <2>1, HeadOfFetched DEF PublishMissing
<1> QED
  BY <1>1, AlwaysSyncInv, PTL DEF Spec, SyncContinues

(* Until the node takes part in consensus its store has no gap, for any    *)
(* number of peers, crashes, pages and any capacity of the channel.        *)
THEOREM StoreHasNoGap == Spec => []StoreIsPrefix
<1>1. SyncInv => StoreIsPrefix
  <2> SUFFICES ASSUME SyncInv, ~joined
               PROVE  store = 1..MaxBlockNumber(store)
    BY DEF StoreIsPrefix
  <2>1. PICK k \in 0..MaxChain : store = 1..k
    BY DEF SyncInv, StoreOK
  <2>2. MaxBlockNumber(1..k) = k
    BY MaxOfPrefix, SizesPositive
  <2> QED
    BY <2>1, <2>2
<1> QED
  BY <1>1, AlwaysSyncInv, PTL
=============================================================================
