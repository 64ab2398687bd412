------------------------ MODULE ShardRefinementProofs -----------------------
(***************************************************************************)
(* TLAPS proofs that the nodes of a shard with full histories implement    *)
(* ShardLog, for up to five validators, and that without a node that       *)
(* joined late no commit panics and the chain is linked, for any number of *)
(* validators; and any number of heights, rounds and messages.             *)
(***************************************************************************)
EXTENDS ShardRefinement, ShardConsensusProofs, WellFoundedInduction

-----------------------------------------------------------------------------
(* Starting heights *)

(* A node enters its heights one after the other: only a decision leaves a *)
(* start for the next height on its way, and a height that was entered has *)
(* the validators known then, which are known ever after.                  *)
StartOK(n) ==
    /\ n \in validators[n]
    /\ \A k \in Height : view[n][k] \subseteq validators[n]
    /\ \A k \in Height : view[n][k] # {} => started[n] /\ k <= height[n]
    /\ started[n] => phase[n] # "idle" /\ view[n][height[n]] # {}
    /\ \A k \in pendingStart[n] : k <= height[n] \/ (k = height[n] + 1 /\ phase[n] = "decided")
    /\ ~started[n] => height[n] = 1 /\ trie[n] = {} /\ chunks[n] = <<>> /\ phase[n] = "idle"

StartInv == \A n \in Node : StartOK(n)

\* how a node may enter height h
MayEnter(n, h) == ~started[n] \/ (started[n] /\ phase[n] = "decided" /\ h = height[n] + 1)

(* A start that is not ignored enters the first height or the next one.    *)
LEMMA StartsInOrder ==
    ASSUME TypeOK, StartInv, NEW n \in Node, NEW h \in pendingStart[n], h \in Height, ~IgnoresStart(n, h)
    PROVE  MayEnter(n, h)
BY BoundsNat DEF StartInv, StartOK, IgnoresStart, MayEnter, TypeOK, Height

LEMMA EnterStartOK ==
    ASSUME TypeOK, StartInv, NEW n \in Node, NEW h \in Height, EnterHeight(n, h), MayEnter(n, h),
           \/ pendingStart' = pendingStart
           \/ pendingStart' = [pendingStart EXCEPT ![n] = @ \ {h}],
           NEW m \in Node
    PROVE  StartOK(m)'
<1>1. CASE m # n
  <2>1. /\ validators'[m] = validators[m] /\ view'[m] = view[m] /\ started'[m] = started[m]
        /\ height'[m] = height[m] /\ phase'[m] = phase[m] /\ trie'[m] = trie[m] /\ chunks'[m] = chunks[m]
        /\ pendingStart'[m] = pendingStart[m]
    BY <1>1 DEF EnterHeight, engineVars, TypeOK
  <2> QED
    BY <2>1 DEF StartInv, StartOK
<1>2. CASE m = n
  <2>1. /\ validators'[n] = validators[n] /\ started'[n] = TRUE /\ height'[n] = h /\ phase'[n] = "running"
        /\ view'[n] = [view[n] EXCEPT ![h] = validators[n]]
        /\ pendingStart'[n] \subseteq pendingStart[n]
    BY DEF EnterHeight, TypeOK
  <2>2. h \in Nat /\ height[n] \in Nat /\ h >= 1 /\ height[n] <= h
    BY BoundsNat DEF MayEnter, StartInv, StartOK, TypeOK, Height
  <2>3. /\ \A k \in Height : view'[n][k] \subseteq validators[n]
        /\ \A k \in Height : view'[n][k] # {} => k <= h
    <3>1. \A k \in Height : view'[n][k] = IF k = h THEN validators[n] ELSE view[n][k]
      BY <2>1 DEF TypeOK
    <3>2. \A k \in Height : view[n][k] \subseteq validators[n] /\ (view[n][k] # {} => k <= height[n])
      BY DEF StartInv, StartOK
    <3>3. \A k \in Height : k \in Nat
      BY BoundsNat DEF Height
    <3> QED
      BY <2>2, <3>1, <3>2, <3>3
  <2>4. view'[n][h] = validators[n] /\ validators[n] # {}
    BY <2>1 DEF StartInv, StartOK, TypeOK
  <2>5. ASSUME NEW k \in pendingStart'[n] PROVE k <= h
    <3>1. k \in Nat /\ (k <= height[n] \/ (k = height[n] + 1 /\ phase[n] = "decided"))
      BY <2>1, <2>5, BoundsNat DEF StartInv, StartOK, TypeOK
    <3>2. phase[n] = "decided" => h = height[n] + 1
      BY DEF MayEnter, StartInv, StartOK
    <3> QED
      BY <2>2, <3>1, <3>2
  <2>6. n \in validators[n]
    BY DEF StartInv, StartOK
  <2> QED
    BY <1>2, <2>1, <2>3, <2>4, <2>5, <2>6 DEF StartOK
<1> QED
  BY <1>1, <1>2

LEMMA RegisterStartOK ==
    ASSUME TypeOK, StartInv, NEW n \in Node, NEW x \in Node, RegisterValidator(n, x), NEW m \in Node
    PROVE  StartOK(m)'
<1>1. /\ view' = view /\ started' = started /\ height' = height /\ phase' = phase
      /\ trie' = trie /\ chunks' = chunks
  BY DEF RegisterValidator, driverVars, engineVars
<1>2. validators[m] \subseteq validators'[m]
  BY DEF RegisterValidator, TypeOK
<1>3. \A k \in pendingStart'[m] : k \in pendingStart[m] \/ k = height[m]
  BY DEF RegisterValidator, TypeOK
<1>4. height[m] <= height[m]
  BY BoundsNat DEF TypeOK, Height
<1> QED
  BY <1>1, <1>2, <1>3, <1>4 DEF StartInv, StartOK

LEMMA DecideStartOK ==
    ASSUME TypeOK, StartInv, NEW n \in Node, NEW p \in net, Decide(n, p), NEW m \in Node
    PROVE  StartOK(m)'
<1>1. /\ view' = view /\ started' = started /\ height' = height /\ validators' = validators
      /\ phase[n] = "running"
  BY DEF Decide, Running
<1>2. started[n]
  BY <1>1 DEF StartInv, StartOK
<1>3. CASE m # n
  <2>1. phase'[m] = phase[m] /\ trie'[m] = trie[m] /\ chunks'[m] = chunks[m] /\ pendingStart'[m] = pendingStart[m]
    BY <1>3 DEF Decide, TypeOK
  <2> QED
    BY <1>1, <2>1 DEF StartInv, StartOK
<1>4. CASE m = n
  <2>1. \/ phase'[n] = "decided" /\ pendingStart'[n] = pendingStart[n] \cup {height[n] + 1}
        \/ phase'[n] = "panicked" /\ pendingStart'[n] = pendingStart[n]
    BY DEF Decide, NextHeight, TypeOK
  <2>2. \A k \in pendingStart[n] : k <= height[n]
    BY <1>1 DEF StartInv, StartOK
  <2> QED
    BY <1>1, <1>2, <1>4, <2>1, <2>2 DEF StartInv, StartOK
<1> QED
  BY <1>3, <1>4

LEMMA StartStep ==
    ASSUME TypeOK, StartInv, [Next]_vars
    PROVE  StartInv'
<1>1. ASSUME UNCHANGED <<actorVars, height, phase, view, engineVars>> PROVE StartInv'
  BY <1>1 DEF actorVars, engineVars, StartInv, StartOK
<1>2. ASSUME NEW n \in Node, NEW m \in Node, RegisterValidator(n, m) PROVE StartInv'
  BY <1>2, RegisterStartOK DEF StartInv
<1>3. ASSUME NEW n \in Node, NEW h \in Height, StartHeight(n, h) PROVE StartInv'
  <2>1. CASE ~IgnoresStart(n, h)
    BY <1>3, <2>1, StartsInOrder, EnterStartOK DEF StartHeight, StartInv
  <2>2. CASE IgnoresStart(n, h)
    <3>1. /\ UNCHANGED <<validators, started, driverVars, engineVars>>
          /\ \A m \in Node : pendingStart'[m] \subseteq pendingStart[m]
      BY <1>3, <2>2 DEF StartHeight, TypeOK
    <3> QED
      BY <3>1 DEF driverVars, engineVars, StartInv, StartOK
  <2> QED
    BY <2>1, <2>2
<1>4. ASSUME NEW n \in Node, NEW h \in Height, StartOnMessage(n, h) PROVE StartInv'
  BY <1>4, EnterStartOK DEF StartOnMessage, MayEnter, StartInv
<1>5. ASSUME NEW n \in Node, NEW r \in Round, NEW msgs \in SUBSET Msg, ProposeValue(n, r, msgs)
      PROVE  StartInv'
  BY <1>1, <1>5 DEF ProposeValue, driverVars
<1>6. ASSUME NEW n \in Node, NEW p \in net, Precommit(n, p) PROVE StartInv'
  BY <1>1, <1>6 DEF Precommit
<1>7. ASSUME NEW n \in Node, NEW p \in net, Decide(n, p) PROVE StartInv'
  BY <1>7, DecideStartOK DEF StartInv
<1>8. CASE UNCHANGED vars
  BY <1>1, <1>8 DEF vars, driverVars
<1> QED
  BY <1>2, <1>3, <1>4, <1>5, <1>6, <1>7, <1>8 DEF Next

LEMMA StartInit == Init => StartInv
BY BoundsNat DEF Init, StartInv, StartOK, Height

-----------------------------------------------------------------------------
(* The chunks of a node with a full history *)

\* the root of the trie after the first i chunks of s
RootAt(s, i) == IF i = 0 THEN {} ELSE s[i].header.root

(* They are one for each height, and the trie is at the root of the last   *)
(* one committed.                                                          *)
ChainOK(n) ==
    FullHistory(n) =>
        /\ Len(chunks[n]) = IF phase[n] = "running" THEN height[n] - 1 ELSE height[n]
        /\ \A i \in DOMAIN chunks[n] : chunks[n][i].header.height = i
        /\ trie[n] = RootAt(chunks[n], Position(n))

ChainInv == \A n \in Node : ChainOK(n)

\* nothing of n that the mapping reads is changed
SameNode(n) ==
    /\ height'[n] = height[n] /\ phase'[n] = phase[n] /\ view'[n] = view[n]
    /\ chunks'[n] = chunks[n] /\ trie'[n] = trie[n]

LEMMA SameChain ==
    ASSUME NEW n \in Node, SameNode(n)
    PROVE  /\ FullHistory(n)' <=> FullHistory(n)
           /\ Position(n)' = Position(n)
           /\ ChainOK(n) => ChainOK(n)'
<1>1. FullHistory(n)' <=> FullHistory(n)
  BY DEF SameNode, FullHistory
<1>2. Position(n)' = Position(n)
  BY <1>1 DEF SameNode, Position
<1> QED
  BY <1>1, <1>2 DEF SameNode, ChainOK, RootAt

LEMMA NotStartedNotFull ==
    ASSUME TypeOK, StartInv, NEW n \in Node, ~started[n]
    PROVE  ~FullHistory(n) /\ view[n][1] = {}
<1>1. height[n] = 1 /\ view[n][1] = {}
  BY BoundsNat DEF StartInv, StartOK, Height
<1> QED
  BY <1>1 DEF FullHistory, FullViews

LEMMA EnterFirst ==
    ASSUME TypeOK, StartInv, NEW n \in Node, NEW h \in Height, EnterHeight(n, h), ~started[n]
    PROVE  /\ FullHistory(n)' => h = 1
           /\ Position(n)' = 0 /\ Position(n) = 0 /\ ChainOK(n)'
           /\ trie'[n] = {}
<1>1. /\ height'[n] = h /\ phase'[n] = "running" /\ chunks'[n] = <<>> /\ trie'[n] = {}
      /\ view'[n] = [view[n] EXCEPT ![h] = validators[n]]
  BY DEF EnterHeight, engineVars, StartInv, StartOK, TypeOK
<1>2. h \in Nat /\ h >= 1
  BY BoundsNat DEF Height
<1>3. FullHistory(n)' => h = 1
  <2> SUFFICES ASSUME h # 1 PROVE ~FullHistory(n)'
    OBVIOUS
  <2>1. 1 \in Height /\ view'[n][1] = view[n][1]
    BY <1>1, BoundsNat DEF TypeOK, Height
  <2>2. 1 \in 1..h /\ view'[n][1] = {}
    BY <1>2, <2>1, NotStartedNotFull
  <2> QED
    BY <1>1, <2>2 DEF FullHistory, FullViews
<1>4. Position(n)' = 0 /\ Position(n) = 0
  BY <1>1, NotStartedNotFull DEF Position
<1>5. ChainOK(n)'
  BY <1>1, <1>2, <1>3, <1>4 DEF ChainOK, RootAt
<1> QED
  BY <1>1, <1>3, <1>4, <1>5

LEMMA EnterNext ==
    ASSUME TypeOK, StartInv, ChainInv, NEW n \in Node, NEW h \in Height, EnterHeight(n, h),
           started[n], MayEnter(n, h)
    PROVE  /\ FullHistory(n)' <=> FullHistory(n)
           /\ Position(n)' = Position(n) /\ ChainOK(n)'
           /\ trie'[n] = trie[n]
<1>1. /\ height'[n] = h /\ phase'[n] = "running" /\ chunks'[n] = chunks[n] /\ trie'[n] = trie[n]
      /\ view'[n] = [view[n] EXCEPT ![h] = validators[n]]
  BY DEF EnterHeight, engineVars, TypeOK
<1>2. /\ h = height[n] + 1 /\ phase[n] = "decided" /\ height[n] \in Nat /\ height[n] >= 1
      /\ height[n] \in Height
  BY BoundsNat DEF MayEnter, TypeOK, Height
<1>3. \A k \in 1..height[n] : view'[n][k] = view[n][k]
  BY <1>1, <1>2, BoundsNat DEF TypeOK, Height
<1>4. view'[n][h] = validators[n]
  BY <1>1 DEF TypeOK
<1>5. FullHistory(n) => validators[n] \in FullViews
  <2> SUFFICES ASSUME FullHistory(n) PROVE validators[n] \in FullViews
    OBVIOUS
  <2>1. view[n][height[n]] \subseteq validators[n] /\ validators[n] \subseteq Node
    BY <1>2 DEF StartInv, StartOK, TypeOK
  <2>2. view[n][height[n]] \in FullViews
    BY <1>2 DEF FullHistory
  <2> QED
    BY <2>1, <2>2, FullViewGrows
<1>6. FullHistory(n)' <=> FullHistory(n)
  <2>1. 1..h = (1..height[n]) \cup {h}
    BY <1>2
  <2> QED
    BY <1>1, <1>3, <1>4, <1>5, <2>1 DEF FullHistory
<1>7. Position(n)' = Position(n)
  BY <1>1, <1>2, <1>6 DEF Position
<1>8. ChainOK(n)'
  <2>1. FullHistory(n) => Len(chunks[n]) = height[n]
    BY <1>2 DEF ChainInv, ChainOK
  <2> QED
    BY <1>1, <1>2, <1>6, <1>7, <2>1 DEF ChainInv, ChainOK, RootAt
<1> QED
  BY <1>1, <1>6, <1>7, <1>8

LEMMA DecideChain ==
    ASSUME TypeOK, ChainInv, NEW n \in Node, NEW p \in net, Decide(n, p)
    PROVE  /\ FullHistory(n)' <=> FullHistory(n)
           /\ ChainOK(n)'
           /\ \/ Position(n)' = Position(n) /\ trie'[n] = trie[n]
              \/ ~FullHistory(n) /\ Position(n)' = Position(n)
              \/ /\ FullHistory(n)
                 /\ Position(n)' = Position(n) + 1
                 /\ Position(n) = Len(chunks[n])
                 /\ trie'[n] = RootAt(chunks'[n], Position(n) + 1)
<1> DEFINE v == p.chunk.header
           l == Len(chunks[n])
<1>1. /\ height' = height /\ view' = view /\ phase[n] = "running" /\ v.height = height[n]
      /\ chunks'[n] = Append(chunks[n], p.chunk)
  BY DEF Decide, Running, TypeOK
<1>2. FullHistory(n)' <=> FullHistory(n)
  BY <1>1 DEF FullHistory
<1>3. /\ chunks[n] \in Seq({q.chunk : q \in net}) /\ l \in Nat /\ p.chunk \in {q.chunk : q \in net}
  BY LenProperties DEF TypeOK
<1>4. /\ Len(chunks'[n]) = l + 1 /\ chunks'[n][l + 1] = p.chunk
      /\ \A i \in 1..l : chunks'[n][i] = chunks[n][i]
      /\ DOMAIN chunks[n] = 1..l /\ DOMAIN chunks'[n] = 1..(l + 1)
  BY <1>1, <1>3, AppendProperties, LenProperties
<1>5. CASE ~FullHistory(n)
  BY <1>2, <1>5 DEF Position, ChainOK
<1>6. CASE FullHistory(n)
  <2>1. l = height[n] - 1 /\ height[n] \in Nat /\ Position(n) = l
    BY <1>1, <1>6, BoundsNat DEF ChainInv, ChainOK, TypeOK, Height, Position
  <2>2. \A i \in DOMAIN chunks'[n] : chunks'[n][i].header.height = i
    <3>1. \A i \in 1..l : chunks'[n][i].header.height = i
      BY <1>4, <1>6 DEF ChainInv, ChainOK
    <3>2. chunks'[n][l + 1].header.height = l + 1
      BY <1>1, <1>4, <2>1
    <3> QED
      BY <1>3, <1>4, <3>1, <3>2
  <2>3. CASE phase'[n] = "decided" /\ trie'[n] = v.root
    <3>1. Position(n)' = Len(chunks'[n])
      BY <1>2, <1>6, <2>3 DEF Position
    <3>2. trie'[n] = RootAt(chunks'[n], l + 1)
      BY <1>3, <1>4, <2>3 DEF RootAt
    <3>3. ChainOK(n)'
      BY <1>1, <1>3, <1>4, <2>1, <2>2, <2>3, <3>1, <3>2 DEF ChainOK
    <3> QED
      BY <1>2, <1>4, <1>6, <2>1, <3>1, <3>2, <3>3
  <2>4. CASE phase'[n] = "panicked" /\ trie'[n] = trie[n]
    <3>1. Position(n)' = Len(chunks'[n]) - 1
      BY <1>2, <1>6, <2>4 DEF Position
    <3>2. RootAt(chunks'[n], l) = RootAt(chunks[n], l)
      BY <1>3, <1>4 DEF RootAt
    <3>3. trie[n] = RootAt(chunks[n], l)
      BY <1>6, <2>1 DEF ChainInv, ChainOK
    <3>4. ChainOK(n)'
      BY <1>1, <1>3, <1>4, <2>1, <2>2, <2>4, <3>1, <3>2, <3>3 DEF ChainOK
    <3> QED
      BY <1>2, <1>3, <1>4, <2>1, <2>4, <3>1, <3>4
  <2>5. \/ phase'[n] = "decided" /\ trie'[n] = v.root
        \/ phase'[n] = "panicked" /\ trie'[n] = trie[n]
    BY DEF Decide, TypeOK
  <2> QED
    BY <2>3, <2>4, <2>5
<1> QED
  BY <1>5, <1>6

(* A step changes the chunks, heights and tries of one node at most: by    *)
(* entering a height or by a decision.                                     *)
LEMMA StepKinds ==
    ASSUME TypeOK, StartInv, [Next]_vars
    PROVE  \/ \A m \in Node : SameNode(m)
           \/ \E n \in Node, h \in Height :
                 EnterHeight(n, h) /\ MayEnter(n, h) /\ \A m \in Node \ {n} : SameNode(m)
           \/ \E n \in Node, p \in net :
                 Decide(n, p) /\ \A m \in Node \ {n} : SameNode(m)
<1>1. ASSUME UNCHANGED <<height, phase, view, engineVars>> PROVE \A m \in Node : SameNode(m)
  BY <1>1 DEF engineVars, SameNode
<1>2. ASSUME NEW n \in Node, NEW h \in Height, EnterHeight(n, h), NEW m \in Node \ {n}
      PROVE  SameNode(m)
  BY <1>2 DEF EnterHeight, engineVars, SameNode, TypeOK
<1>3. ASSUME NEW n \in Node, NEW p \in net, Decide(n, p), NEW m \in Node \ {n}
      PROVE  SameNode(m)
  BY <1>3 DEF Decide, SameNode, TypeOK
<1>4. ASSUME NEW n \in Node, NEW m \in Node, RegisterValidator(n, m) PROVE \A x \in Node : SameNode(x)
  BY <1>1, <1>4 DEF RegisterValidator, driverVars
<1>5. ASSUME NEW n \in Node, NEW h \in Height, StartHeight(n, h)
      PROVE  \/ \A m \in Node : SameNode(m)
             \/ EnterHeight(n, h) /\ MayEnter(n, h) /\ \A m \in Node \ {n} : SameNode(m)
  BY <1>1, <1>2, <1>5, StartsInOrder DEF StartHeight, driverVars
<1>6. ASSUME NEW n \in Node, NEW h \in Height, StartOnMessage(n, h)
      PROVE  EnterHeight(n, h) /\ MayEnter(n, h) /\ \A m \in Node \ {n} : SameNode(m)
  BY <1>2, <1>6 DEF StartOnMessage, MayEnter
<1>7. ASSUME NEW n \in Node, NEW r \in Round, NEW msgs \in SUBSET Msg, ProposeValue(n, r, msgs)
      PROVE  \A m \in Node : SameNode(m)
  BY <1>1, <1>7 DEF ProposeValue, driverVars
<1>8. ASSUME NEW n \in Node, NEW p \in net, Precommit(n, p) PROVE \A m \in Node : SameNode(m)
  BY <1>1, <1>8 DEF Precommit
<1>9. CASE UNCHANGED vars
  BY <1>1, <1>9 DEF vars, driverVars
<1> QED
  BY <1>3, <1>4, <1>5, <1>6, <1>7, <1>8, <1>9 DEF Next

LEMMA ChainStep ==
    ASSUME TypeOK, StartInv, ChainInv, [Next]_vars
    PROVE  ChainInv'
<1>1. ASSUME NEW m \in Node, SameNode(m) PROVE ChainOK(m)'
  BY <1>1, SameChain DEF ChainInv
<1>2. ASSUME NEW n \in Node, NEW h \in Height, EnterHeight(n, h), MayEnter(n, h)
      PROVE  ChainOK(n)'
  BY <1>2, EnterFirst, EnterNext
<1>3. ASSUME NEW n \in Node, NEW p \in net, Decide(n, p) PROVE ChainOK(n)'
  BY <1>3, DecideChain
<1>4. CASE \A m \in Node : SameNode(m)
  BY <1>1, <1>4 DEF ChainInv
<1>5. ASSUME NEW n \in Node, ChainOK(n)', \A m \in Node \ {n} : SameNode(m) PROVE ChainInv'
  BY <1>1, <1>5 DEF ChainInv
<1> QED
  BY <1>2, <1>3, <1>4, <1>5, StepKinds

LEMMA ChainInit == TypeOK /\ Init => ChainInv
<1> SUFFICES ASSUME TypeOK, Init, NEW n \in Node PROVE ~FullHistory(n)
  BY DEF ChainInv, ChainOK
<1> QED
  BY StartInit, NotStartedNotFull DEF Init

(* Everything known of the shards' nodes together.                         *)
ShardInv == TypeOK /\ StartInv /\ ChainInv

LEMMA ShardHolds == Spec => []ShardInv
<1>1. Init => ShardInv
  BY TypeInit, StartInit, ChainInit DEF ShardInv
<1>2. ShardInv /\ [Next]_vars => ShardInv'
  BY TypeNext, StartStep, ChainStep DEF ShardInv
<1> QED
  BY <1>1, <1>2, PTL DEF Spec

-----------------------------------------------------------------------------
(* The log *)

(* Every nonempty set of naturals has a least element, from the library's  *)
(* theorem on well-founded relations.                                      *)
LEMMA LeastElement ==
    ASSUME NEW T \in SUBSET Nat, T # {}
    PROVE  \E m \in T : \A k \in T : m <= k
<1> DEFINE R == {ss \in Nat \X Nat : ss[1] < ss[2]}
<1>1. IsWellFoundedOn(R, Nat)
  BY NatLessThanWellFounded DEF OpToRel
<1>2. ASSUME NEW x \in T, NEW y \in T, <<y, x>> \notin R
      PROVE  x <= y
  <2>1. <<y, x>> \in Nat \X Nat
    OBVIOUS
  <2> QED
    BY <1>2, <2>1
<1> HIDE DEF R
<1>3. PICK x \in T : \A y \in T : <<y, x>> \notin R
  BY <1>1, WFMin
<1> QED
  BY <1>2, <1>3

(* What the mapping gives: positions, some of them the furthest, equal     *)
(* headers up to the positions two nodes have both reached, and a log that *)
(* is the one of any node that is furthest.                                *)
MapOK ==
    /\ \A n \in Node : Position(n) \in Nat
    /\ \E n \in Node : \A m \in Node : Position(m) <= Position(n)
    /\ \A n, m \in Node : \A i \in 1..Position(n) :
           i <= Position(m) => chunks[n][i].header = chunks[m][i].header
    /\ \A n \in Node : (\A m \in Node : Position(m) <= Position(n)) =>
           SharedLog = [i \in 1..Position(n) |-> chunks[n][i].header]

LEMMA PositionBound ==
    ASSUME ShardInv, NEW n \in Node
    PROVE  /\ Position(n) \in Nat /\ Position(n) <= height[n] /\ height[n] \in Nat /\ height[n] <= MaxHeight
           /\ Position(n) # 0 => FullHistory(n) /\ Position(n) <= Len(chunks[n])
<1>1. height[n] \in Nat /\ height[n] >= 1 /\ height[n] <= MaxHeight /\ MaxHeight \in Nat
  BY BoundsNat DEF ShardInv, TypeOK, Height
<1>2. CASE ~FullHistory(n)
  BY <1>1, <1>2 DEF Position
<1>3. CASE FullHistory(n)
  <2>1. /\ phase[n] = "running" => Len(chunks[n]) = height[n] - 1
        /\ phase[n] # "running" => Len(chunks[n]) = height[n]
    BY <1>3 DEF ShardInv, ChainInv, ChainOK
  <2>2. \/ phase[n] = "panicked" /\ Position(n) = Len(chunks[n]) - 1
        \/ phase[n] # "panicked" /\ Position(n) = Len(chunks[n])
    BY <1>3 DEF Position
  <2> QED
    BY <1>1, <1>3, <2>1, <2>2
<1> QED
  BY <1>2, <1>3

LEMMA SomeFurthest ==
    ASSUME ShardInv, Node # {}
    PROVE  \E n \in Node : \A m \in Node : Position(m) <= Position(n)
<1> DEFINE T == {MaxHeight - Position(n) : n \in Node}
<1>1. T \in SUBSET Nat /\ T # {}
  BY PositionBound, BoundsNat
<1>2. PICK t \in T : \A k \in T : t <= k
  BY <1>1, LeastElement
<1>3. PICK n \in Node : t = MaxHeight - Position(n)
  OBVIOUS
<1>4. ASSUME NEW m \in Node PROVE Position(m) <= Position(n)
  <2>1. MaxHeight - Position(n) <= MaxHeight - Position(m)
    BY <1>2, <1>3
  <2> QED
    BY <2>1, PositionBound, BoundsNat
<1> QED
  BY <1>4

(* Nodes with full sets agree when there are at most five validators, and  *)
(* whatever their number while no node joined late: then every voter's set *)
(* is full and its lock guards every other.                                *)
LEMMA FewAgree ==
    ASSUME Cardinality(Node) < 2 * StartPeers
    PROVE  Spec => []AgreementOfFull
<1>1. TypeOK /\ DecidedByQuorum /\ AgreementOfOverlappingViews => AgreementOfFull
  BY FewFirm, FullAgree
<1> QED
  BY <1>1, TypeCorrect, DecisionsJustified, OverlappingViewsAgree, PTL

LEMMA SyncedFirm ==
    ASSUME TypeOK, Synced, NEW h \in Height, NEW n \in Node, view[n][h] \in FullViews
    PROVE  Firm(view[n][h], h)
<1> SUFFICES ASSUME NEW x \in view[n][h], view[x][h] # {} PROVE Guards(view[x][h], view[n][h])
  BY DEF Firm
<1>1. x \in Node /\ h \in 1..h
  BY BoundsNat DEF TypeOK, Height
<1>2. view[x][h] \in FullViews
  BY <1>1 DEF Synced
<1>3. view[n][h] \in SUBSET Node /\ view[x][h] \in SUBSET Node
  BY <1>1 DEF TypeOK
<1> QED
  BY <1>2, <1>3, FullViewsMeet DEF Guards

SyncedAgreement == Synced => AgreementOfFull

LEMMA SyncedAgree == Spec => []SyncedAgreement
<1>1. TypeOK /\ DecidedByQuorum /\ AgreementOfOverlappingViews => SyncedAgreement
  BY SyncedFirm, FullAgree DEF SyncedAgreement
<1> QED
  BY <1>1, TypeCorrect, DecisionsJustified, OverlappingViewsAgree, PTL

LEMMA HeadersAgree ==
    ASSUME ShardInv, AgreementOfFull, NEW n \in Node, NEW m \in Node,
           NEW i \in 1..Position(n), i <= Position(m)
    PROVE  chunks[n][i].header = chunks[m][i].header
<1>1. i \in Nat /\ i >= 1 /\ i <= Position(n)
  BY PositionBound
<1>2. ASSUME NEW x \in Node, i <= Position(x)
      PROVE  /\ i \in DOMAIN chunks[x] /\ chunks[x][i].header.height = i
             /\ view[x][i] \in FullViews /\ view[x][i] \subseteq Node
  <2>1. FullHistory(x) /\ i <= Len(chunks[x]) /\ i <= height[x]
    <3>1. /\ Position(x) \in Nat /\ Position(x) <= height[x] /\ height[x] \in Nat
          /\ Position(x) # 0 => FullHistory(x) /\ Position(x) <= Len(chunks[x])
      BY PositionBound
    <3>2. Len(chunks[x]) \in Nat
      BY LenProperties DEF ShardInv, TypeOK
    <3> QED
      BY <1>1, <1>2, <3>1, <3>2
  <2>2. i \in DOMAIN chunks[x]
    BY <1>1, <2>1, LenProperties DEF ShardInv, TypeOK
  <2>3. i \in 1..height[x]
    BY <1>1, <2>1, PositionBound
  <2> QED
    <3>1. height[x] \in Height
      BY DEF ShardInv, TypeOK
    <3>2. i \in Height
      BY <1>1, <2>3, <3>1, BoundsNat DEF Height
    <3>3. view[x][i] \subseteq Node
      BY <3>2 DEF ShardInv, TypeOK
    <3> QED
      BY <2>1, <2>2, <2>3, <3>3 DEF ShardInv, ChainInv, ChainOK, FullHistory
<1>3. /\ i \in DOMAIN chunks[n] /\ chunks[n][i].header.height = i
      /\ view[n][i] \in FullViews /\ view[n][i] \subseteq Node
  BY <1>1, <1>2
<1>4. /\ i \in DOMAIN chunks[m] /\ chunks[m][i].header.height = i
      /\ view[m][i] \in FullViews /\ view[m][i] \subseteq Node
  BY <1>2
<1> QED
  BY <1>3, <1>4 DEF AgreementOfFull

LEMMA MapHolds ==
    ASSUME Node # {}, ShardInv, AgreementOfFull
    PROVE  MapOK
<1>1. \A n \in Node : Position(n) \in Nat
  BY PositionBound
<1>2. Furthest \in Node /\ \A m \in Node : Position(m) <= Position(Furthest)
  BY SomeFurthest DEF Furthest, Executed
<1>3. ASSUME NEW n \in Node, \A m \in Node : Position(m) <= Position(n)
      PROVE  SharedLog = [i \in 1..Position(n) |-> chunks[n][i].header]
  <2>1. Position(n) = Position(Furthest)
    BY <1>1, <1>2, <1>3
  <2>2. \A i \in 1..Position(n) : chunks[n][i].header = chunks[Furthest][i].header
    BY <1>1, <1>2, <2>1, HeadersAgree
  <2>3. SharedLog = [i \in 1..Position(n) |-> chunks[Furthest][i].header]
    BY <2>1 DEF SharedLog
  <2> QED
    BY <2>2, <2>3
<1>4. \A n, m \in Node : \A i \in 1..Position(n) :
           i <= Position(m) => chunks[n][i].header = chunks[m][i].header
  BY HeadersAgree
<1> QED
  BY <1>1, <1>2, <1>3, <1>4 DEF MapOK

(* Steps that move no node's position are invisible in the log.            *)
LEMMA SameLog ==
    ASSUME MapOK, MapOK',
           \A m \in Node : Position(m)' = Position(m),
           \A m \in Node : \A i \in 1..Position(m) : chunks'[m][i] = chunks[m][i]
    PROVE  SharedLog' = SharedLog /\ Executed' = Executed
<1>1. PICK n \in Node : \A m \in Node : Position(m) <= Position(n)
  BY DEF MapOK
<1>2. SharedLog = [i \in 1..Position(n) |-> chunks[n][i].header]
  BY <1>1 DEF MapOK
<1>3. \A m \in Node : Position(m)' <= Position(n)'
  BY <1>1
<1>4. SharedLog' = [i \in 1..Position(n)' |-> chunks'[n][i].header]
  BY <1>3 DEF MapOK
<1>5. [i \in 1..Position(n)' |-> chunks'[n][i].header] = [i \in 1..Position(n) |-> chunks[n][i].header]
  OBVIOUS
<1>6. Executed' = Executed
  BY DEF Executed
<1> QED
  BY <1>2, <1>4, <1>5, <1>6

(* A committed decision of a node with a full history extends the log or   *)
(* follows it.                                                             *)
LEMMA CommitImplements ==
    ASSUME ShardInv, MapOK, MapOK', NEW n \in Node,
           FullHistory(n), FullHistory(n)',
           Position(n)' = Position(n) + 1,
           trie'[n] = RootAt(chunks'[n], Position(n) + 1),
           \A i \in 1..Position(n) : chunks'[n][i] = chunks[n][i],
           \A m \in Node \ {n} : SameNode(m)
    PROVE  Log!Next
<1> DEFINE k == Position(n)
           e == chunks'[n][k + 1].header
<1>1. ASSUME NEW m \in Node \ {n}
      PROVE  Position(m)' = Position(m) /\ (FullHistory(m)' <=> FullHistory(m)) /\ chunks'[m] = chunks[m]
             /\ trie'[m] = trie[m]
  BY <1>1, SameChain DEF SameNode
<1>2. \A m \in Node : Position(m) \in Nat
  BY DEF MapOK
<1>3. k \in Nat
  BY <1>2
<1>4. Executed' = [Executed EXCEPT ![n] = @ + 1] /\ Executed[n] = k
  BY <1>1 DEF Executed
<1>moved. Executed'[n] # Executed[n]
  BY <1>3 DEF Executed
<1>5. State' = [State EXCEPT ![n] = HeaderRoot(e)]
  <2>1. State'[n] = HeaderRoot(e)
    BY <1>3 DEF State, RootAt, HeaderRoot
  <2>2. \A m \in Node \ {n} : State'[m] = State[m]
    BY <1>1 DEF State
  <2> QED
    BY <2>1, <2>2 DEF State
<1>6. PICK f \in Node : \A m \in Node : Position(m) <= Position(f)
  BY DEF MapOK
<1>7. SharedLog = [i \in 1..Position(f) |-> chunks[f][i].header] /\ Len(SharedLog) = Position(f)
  BY <1>2, <1>6 DEF MapOK
<1>8. CASE k < Position(f)
  <2>1. f # n /\ Position(f)' = Position(f) /\ chunks'[f] = chunks[f]
    BY <1>1, <1>3, <1>8
  <2>2. \A m \in Node : Position(m)' <= Position(f)'
    <3>1. Position(n)' <= Position(f)'
      BY <1>2, <1>8, <2>1
    <3> QED
      BY <1>1, <1>6, <2>1, <3>1
  <2>3. SharedLog' = [i \in 1..Position(f)' |-> chunks'[f][i].header]
    BY <2>2 DEF MapOK
  <2>4. SharedLog' = SharedLog
    BY <1>7, <2>1, <2>3
  <2>5. SharedLog[k + 1] = e
    <3>1. k + 1 \in 1..Position(f)
      BY <1>2, <1>3, <1>8
    <3>2. \A i \in 1..Position(n)' : i <= Position(f)' => chunks'[n][i].header = chunks'[f][i].header
      BY DEF MapOK
    <3>3. chunks'[n][k + 1].header = chunks'[f][k + 1].header
      BY <1>2, <1>3, <2>1, <3>1, <3>2
    <3> QED
      BY <1>7, <2>1, <3>1, <3>3
  <2>6. Log!Follow(n)
    BY <1>4, <1>5, <1>7, <1>8, <2>4, <2>5 DEF Log!Follow, Log!Execute
  <2> QED
    BY <1>moved, <2>6 DEF Log!Next
<1>9. CASE k >= Position(f)
  <2>1. Position(f) = k /\ \A m \in Node : Position(m) <= k
    BY <1>2, <1>3, <1>6, <1>9
  <2>2. SharedLog = [i \in 1..k |-> chunks[n][i].header]
    BY <2>1 DEF MapOK
  <2>3. \A m \in Node : Position(m)' <= Position(n)'
    BY <1>1, <1>2, <1>3, <2>1
  <2>4. SharedLog' = [i \in 1..(k + 1) |-> chunks'[n][i].header]
    BY <2>3 DEF MapOK
  <2>5. /\ Len(SharedLog) = k /\ Len(SharedLog') = k + 1 /\ SharedLog'[k + 1] = e
        /\ \A i \in 1..k : SharedLog'[i] = SharedLog[i]
    BY <1>3, <2>2, <2>4
  <2>6. SubSeq(SharedLog', 1, k) = SharedLog
    BY <1>3, <2>2, <2>4, <2>5
  <2>7. Log!Extend(n)
    BY <1>4, <1>5, <2>5, <2>6 DEF Log!Extend, Log!Execute
  <2> QED
    BY <1>moved, <2>7 DEF Log!Next
<1> QED
  BY <1>2, <1>3, <1>6, <1>8, <1>9

LEMMA StepImplements ==
    ASSUME ShardInv, MapOK, MapOK', [Next]_vars
    PROVE  [Log!Next]_(Log!vars)
<1>1. ASSUME SharedLog' = SharedLog, Executed' = Executed, State' = State
      PROVE  [Log!Next]_(Log!vars)
  BY <1>1 DEF Log!vars
<1>2. ASSUME NEW m \in Node, SameNode(m)
      PROVE  /\ Position(m)' = Position(m) /\ State'[m] = State[m]
             /\ \A i \in 1..Position(m) : chunks'[m][i] = chunks[m][i]
  BY <1>2, SameChain DEF SameNode, State
<1>3. ASSUME \A m \in Node : /\ Position(m)' = Position(m) /\ State'[m] = State[m]
                             /\ \A i \in 1..Position(m) : chunks'[m][i] = chunks[m][i]
      PROVE  [Log!Next]_(Log!vars)
  <2>1. State' = State
    BY <1>3 DEF State
  <2> QED
    BY <1>1, <1>3, <2>1, SameLog
<1>4. ASSUME NEW n \in Node, NEW h \in Height, EnterHeight(n, h), MayEnter(n, h),
             \A m \in Node \ {n} : SameNode(m)
      PROVE  [Log!Next]_(Log!vars)
  <2>1. chunks' = chunks
    BY <1>4 DEF EnterHeight, engineVars
  <2>2. Position(n)' = Position(n)
    BY <1>4, EnterFirst, EnterNext DEF ShardInv
  <2>3. State'[n] = State[n]
    <3>1. CASE started[n]
      BY <1>4, <3>1, EnterNext DEF State, ShardInv
    <3>2. CASE ~started[n]
      BY <1>4, <3>2, EnterFirst, NotStartedNotFull DEF State, ShardInv
    <3> QED
      BY <3>1, <3>2
  <2> QED
    BY <1>2, <1>3, <1>4, <2>1, <2>2, <2>3
<1>5. ASSUME NEW n \in Node, NEW p \in net, Decide(n, p), \A m \in Node \ {n} : SameNode(m)
      PROVE  [Log!Next]_(Log!vars)
  <2>1. chunks'[n] = Append(chunks[n], p.chunk) /\ Len(chunks[n]) \in Nat
    BY <1>5, LenProperties DEF Decide, ShardInv, TypeOK
  <2>2. \A i \in 1..Len(chunks[n]) : chunks'[n][i] = chunks[n][i]
    BY <2>1, AppendProperties DEF ShardInv, TypeOK
  <2>3. \A i \in 1..Position(n) : chunks'[n][i] = chunks[n][i]
    BY <2>1, <2>2, PositionBound
  <2>4. CASE Position(n)' = Position(n) /\ trie'[n] = trie[n]
    <3>1. State'[n] = State[n]
      BY <1>5, <2>4, DecideChain DEF State, ShardInv
    <3> QED
      BY <1>2, <1>3, <1>5, <2>3, <2>4, <3>1
  <2>5. CASE ~FullHistory(n) /\ Position(n)' = Position(n)
    <3>1. State'[n] = State[n]
      BY <1>5, <2>5, DecideChain DEF State, ShardInv
    <3> QED
      BY <1>2, <1>3, <1>5, <2>3, <2>5, <3>1
  <2>6. CASE /\ FullHistory(n) /\ Position(n)' = Position(n) + 1
             /\ trie'[n] = RootAt(chunks'[n], Position(n) + 1)
    <3>1. FullHistory(n)'
      BY <1>5, <2>6, DecideChain DEF ShardInv
    <3> QED
      BY <1>5, <2>3, <2>6, <3>1, CommitImplements
  <2> QED
    BY <1>5, <2>4, <2>5, <2>6, DecideChain DEF ShardInv
<1>6. CASE \A m \in Node : SameNode(m)
  BY <1>2, <1>3, <1>6
<1> QED
  BY <1>4, <1>5, <1>6, StepKinds DEF ShardInv

(* With at most five validators, the nodes of a shard that started each of *)
(* their heights with enough of them (FullViews; three always are enough)  *)
(* implement one replicated log, for any number of heights, rounds and     *)
(* messages: their decisions extend or repeat the common log, in order and *)
(* without gaps, and leave the trie at the root the decided header names.  *)
(* The others may vote and decide too, with whatever validators they know. *)
THEOREM ImplementsShardLog ==
    ASSUME Node # {}, Cardinality(Node) < 2 * StartPeers
    PROVE  Spec => Implements
<1>1. Init => Log!Init
  <2> SUFFICES ASSUME Init PROVE Log!Init
    OBVIOUS
  <2>1. ShardInv /\ AgreementOfFull
    BY TypeInit, StartInit, ChainInit DEF ShardInv, Init, AgreementOfFull
  <2>2. \A n \in Node : ~FullHistory(n)
    BY <2>1, NotStartedNotFull DEF ShardInv, Init
  <2>3. \A n \in Node : Position(n) = 0
    BY <2>2 DEF Position
  <2>4. Executed = [n \in Node |-> 0] /\ State = [n \in Node |-> {}]
    BY <2>2, <2>3 DEF Executed, State
  <2>5. Furthest \in Node
    BY <2>1, SomeFurthest DEF Furthest, Executed
  <2>6. SharedLog = <<>>
    BY <2>3, <2>5 DEF SharedLog
  <2> QED
    BY <2>4, <2>6 DEF Log!Init
<1>2. ShardInv /\ AgreementOfFull => MapOK
  BY MapHolds
<1>3. ShardInv /\ MapOK /\ MapOK' /\ [Next]_vars => [Log!Next]_(Log!vars)
  BY StepImplements
<1>4. Spec => []AgreementOfFull
  BY FewAgree
<1> QED
  BY <1>1, <1>2, <1>3, <1>4, ShardHolds, PTL DEF Spec, Implements, Log!Spec

-----------------------------------------------------------------------------
(* Proposals, while no node joined late *)

LEMMA SyncedFull ==
    ASSUME TypeOK, StartInv, Synced, NEW n \in Node, started[n]
    PROVE  FullHistory(n)
BY DEF StartInv, StartOK, Synced, FullHistory, TypeOK

(* What a node has entered and appended stays as it is.                    *)
LEMMA PastKept ==
    ASSUME TypeOK, StartInv, [Next]_vars, NEW n \in Node, started[n]
    PROVE  /\ height[n] <= height'[n]
           /\ \A k \in 1..height[n] : view'[n][k] = view[n][k]
           /\ Len(chunks[n]) \in Nat
           /\ \A i \in 1..Len(chunks[n]) : chunks'[n][i] = chunks[n][i]
<1>1. height[n] \in Nat /\ Len(chunks[n]) \in Nat
  BY LenProperties, BoundsNat DEF TypeOK, Height
<1>2. CASE SameNode(n)
  BY <1>1, <1>2 DEF SameNode
<1>3. ASSUME NEW h \in Height, EnterHeight(n, h), MayEnter(n, h)
      PROVE  /\ height[n] <= height'[n] /\ chunks' = chunks
             /\ \A k \in 1..height[n] : view'[n][k] = view[n][k]
  <2>1. h = height[n] + 1 /\ height'[n] = h /\ chunks' = chunks
    BY <1>3 DEF EnterHeight, MayEnter, engineVars, TypeOK
  <2>2. \A k \in 1..height[n] : k \in Height /\ k # h
    BY <1>1, <2>1, BoundsNat DEF TypeOK, Height
  <2> QED
    BY <1>1, <1>3, <2>1, <2>2 DEF EnterHeight, TypeOK
<1>4. ASSUME NEW p \in net, Decide(n, p)
      PROVE  /\ height' = height /\ view' = view
             /\ \A i \in 1..Len(chunks[n]) : chunks'[n][i] = chunks[n][i]
  <2>1. chunks'[n] = Append(chunks[n], p.chunk) /\ height' = height /\ view' = view
    BY <1>4 DEF Decide, TypeOK
  <2> QED
    BY <2>1, AppendProperties DEF TypeOK
<1> QED
  BY <1>1, <1>2, <1>3, <1>4, StepKinds

(* A node that joined late is never forgotten.                             *)
LEMMA SyncedBack ==
    ASSUME TypeOK, StartInv, [Next]_vars, Synced'
    PROVE  Synced
<1> SUFFICES ASSUME NEW n \in Node, NEW h \in Height, view[n][h] # {}, NEW k \in 1..h
             PROVE  view[n][k] \in FullViews
  BY DEF Synced
<1>1. started[n] /\ h <= height[n] /\ h \in Nat /\ height[n] \in Nat
  BY BoundsNat DEF StartInv, StartOK, TypeOK, Height
<1>2. h \in 1..height[n] /\ k \in 1..height[n]
  BY <1>1, BoundsNat DEF Height
<1>3. view'[n][h] = view[n][h] /\ view'[n][k] = view[n][k]
  BY <1>1, <1>2, PastKept
<1> QED
  BY <1>3 DEF Synced

(* A proposal was made at a height its proposer has reached, on the chunk  *)
(* and the trie before it.                                                 *)
ProposalOK(p) ==
    /\ p.proposer \in Node /\ started[p.proposer]
    /\ p.chunk.header.height \in 1..height[p.proposer]
    /\ p.chunk.header.root =
           RootAt(chunks[p.proposer], p.chunk.header.height - 1) \cup p.chunk.msgs
    /\ p.chunk.header.parent =
           IF p.chunk.header.height = 1 THEN Genesis
           ELSE chunks[p.proposer][p.chunk.header.height - 1].header

ProposalInv == Synced => \A p \in net : ProposalOK(p)

\* while no node joined late, a proposer still has the chunk it built on
LEMMA ParentHeld ==
    ASSUME ShardInv, Synced, NEW p \in net, ProposalOK(p), p.chunk.header.height # 1
    PROVE  p.chunk.header.height - 1 \in 1..Len(chunks[p.proposer])
<1> DEFINE q == p.proposer
           h == p.chunk.header.height
<1>1. q \in Node /\ started[q] /\ h \in 1..height[q] /\ height[q] \in Nat
  BY BoundsNat DEF ProposalOK, ShardInv, TypeOK, Height
<1>2. FullHistory(q)
  BY <1>1, SyncedFull DEF ShardInv
<1>3. Len(chunks[q]) = height[q] - 1 \/ Len(chunks[q]) = height[q]
  BY <1>1, <1>2 DEF ShardInv, ChainInv, ChainOK
<1> QED
  BY <1>1, <1>3

LEMMA ProposalKept ==
    ASSUME ShardInv, Synced, [Next]_vars, NEW p \in net, ProposalOK(p)
    PROVE  ProposalOK(p)'
<1> DEFINE q == p.proposer
           h == p.chunk.header.height
<1>1. q \in Node /\ started[q] /\ h \in 1..height[q] /\ height[q] \in Nat
  BY BoundsNat DEF ProposalOK, ShardInv, TypeOK, Height
<1>2. height[q] <= height'[q] /\ \A i \in 1..Len(chunks[q]) : chunks'[q][i] = chunks[q][i]
  BY <1>1, PastKept DEF ShardInv
<1>3. started'[q] /\ height'[q] \in Nat
  <2>1. TypeOK' /\ StartInv'
    BY TypeNext, StartStep DEF ShardInv
  <2>2. started'[q]
    <3>1. height[q] \in Height /\ height[q] \in 1..height[q]
      BY <1>1, BoundsNat DEF ShardInv, TypeOK, Height
    <3>2. view'[q][height[q]] # {}
      BY <1>1, <3>1, PastKept DEF ShardInv, StartInv, StartOK
    <3> QED
      BY <1>1, <2>1, <3>1, <3>2 DEF StartInv, StartOK
  <2> QED
    BY <1>1, <2>1, <2>2, BoundsNat DEF TypeOK, Height
<1>4. h \in 1..height'[q]
  BY <1>1, <1>2, <1>3
<1>5. h # 1 => chunks'[q][h - 1] = chunks[q][h - 1]
  BY <1>2, ParentHeld
<1>6. RootAt(chunks'[q], h - 1) = RootAt(chunks[q], h - 1)
  BY <1>1, <1>5 DEF RootAt
<1> QED
  BY <1>1, <1>3, <1>4, <1>5, <1>6 DEF ProposalOK

LEMMA ProposedOK ==
    ASSUME ShardInv, Synced, NEW n \in Node, NEW r \in Round, NEW msgs \in SUBSET Msg,
           ProposeValue(n, r, msgs)
    PROVE  ProposalOK(ProposalOf(n, r, msgs))'
<1> DEFINE p == ProposalOf(n, r, msgs)
           l == Len(chunks[n])
<1>1. phase[n] = "running" /\ UNCHANGED <<started, height, chunks, trie>>
  BY DEF ProposeValue, MayPropose, Running, actorVars, driverVars, engineVars
<1>2. started[n] /\ height[n] \in Nat /\ height[n] >= 1
  BY <1>1, BoundsNat DEF ShardInv, StartInv, StartOK, TypeOK, Height
<1>3. FullHistory(n)
  BY <1>2, SyncedFull DEF ShardInv
<1>4. l = height[n] - 1 /\ trie[n] = RootAt(chunks[n], l)
  BY <1>1, <1>3 DEF ShardInv, ChainInv, ChainOK, Position
<1>5. /\ p.proposer = n /\ p.chunk.header.height = height[n] /\ p.chunk.msgs = msgs
      /\ p.chunk.header.parent = LastHash(n) /\ p.chunk.header.root = trie[n] \cup msgs
  BY DEF ProposalOf, RootAfter
<1>6. LastHash(n) = IF height[n] = 1 THEN Genesis ELSE chunks[n][height[n] - 1].header
  <2>1. chunks[n] = <<>> <=> l = 0
    BY EmptySeq, LenProperties DEF ShardInv, TypeOK
  <2> QED
    BY <1>2, <1>4, <2>1 DEF LastHash
<1>7. p' = p
  BY <1>1 DEF ProposalOf, RootAfter, LastHash
<1> QED
  BY <1>1, <1>2, <1>4, <1>5, <1>6, <1>7 DEF ProposalOK

LEMMA ProposalStep ==
    ASSUME ShardInv, ProposalInv, [Next]_vars
    PROVE  ProposalInv'
<1> SUFFICES ASSUME Synced' PROVE \A p \in net' : ProposalOK(p)'
  BY DEF ProposalInv
<1>1. Synced
  BY SyncedBack DEF ShardInv
<1>2. \A p \in net : ProposalOK(p)'
  BY <1>1, ProposalKept DEF ProposalInv
<1>3. CASE net' = net
  BY <1>2, <1>3
<1>4. ASSUME NEW n \in Node, NEW r \in Round, NEW msgs \in SUBSET Msg, ProposeValue(n, r, msgs)
      PROVE  \A p \in net' : ProposalOK(p)'
  <2>1. net' = net \cup {ProposalOf(n, r, msgs)}
    BY <1>4 DEF ProposeValue
  <2>2. ProposalOK(ProposalOf(n, r, msgs))'
    BY <1>1, <1>4, ProposedOK
  <2>3. ProposalOf(n, r, msgs)' = ProposalOf(n, r, msgs)
    BY <1>4 DEF ProposeValue, driverVars, engineVars, ProposalOf, LastHash, RootAfter
  <2>4. PICK p : p = ProposalOf(n, r, msgs)
    OBVIOUS
  <2>5. ProposalOK(p)'
    BY <2>2, <2>3, <2>4 DEF ProposalOK
  <2> QED
    BY <1>2, <2>1, <2>4, <2>5
<1>5. \/ net' = net
      \/ \E n \in Node : \E r \in Round, msgs \in SUBSET Msg : ProposeValue(n, r, msgs)
  BY DEF Next, RegisterValidator, StartHeight, StartOnMessage, EnterHeight, Precommit, Decide, vars
<1> QED
  BY <1>3, <1>4, <1>5

(* A proposer that did not panic and a node at its height built on the     *)
(* same chunk.                                                             *)
LEMMA SameParent ==
    ASSUME ShardInv, AgreementOfFull, Synced, NEW p \in net, ProposalOK(p),
           phase[p.proposer] # "panicked", p.chunk.header.height # 1,
           NEW n \in Node, p.chunk.header.height - 1 <= Position(n)
    PROVE  chunks[p.proposer][p.chunk.header.height - 1].header
             = chunks[n][p.chunk.header.height - 1].header
<1> DEFINE q == p.proposer
           i == p.chunk.header.height - 1
<1>1. q \in Node /\ started[q]
  BY DEF ProposalOK
<1>2. FullHistory(q)
  BY <1>1, SyncedFull DEF ShardInv
<1>3. Position(q) = Len(chunks[q])
  BY <1>2 DEF Position
<1>4. i \in 1..Position(q)
  BY <1>3, ParentHeld
<1> QED
  BY <1>1, <1>4, HeadersAgree

LEMMA NoPanicStep ==
    ASSUME ShardInv, SyncedAgreement, ProposalInv, NoCommitPanic, [Next]_vars
    PROVE  NoCommitPanic'
<1> SUFFICES ASSUME Synced', NEW n \in Node PROVE phase'[n] # "panicked"
  BY DEF NoCommitPanic
<1>1. Synced /\ \A m \in Node : phase[m] # "panicked"
  BY SyncedBack DEF ShardInv, NoCommitPanic
<1>2. ASSUME NEW p \in net, Decide(n, p) PROVE phase'[n] # "panicked"
  <2> DEFINE q == p.proposer
             h == p.chunk.header.height
  <2>1. ProposalOK(p) /\ q \in Node
    BY <1>1 DEF ProposalInv, ProposalOK
  <2>2. phase[n] = "running" /\ h = height[n] /\ height[n] \in Nat /\ height[n] >= 1
    BY <1>2, BoundsNat DEF Decide, Running, ShardInv, TypeOK, Height
  <2>3. FullHistory(n)
    BY <1>1, <2>2, SyncedFull DEF ShardInv, StartInv, StartOK
  <2>4. Position(n) = h - 1 /\ trie[n] = RootAt(chunks[n], h - 1)
    BY <2>2, <2>3 DEF ShardInv, ChainInv, ChainOK, Position
  <2>5. RootAt(chunks[q], h - 1) = RootAt(chunks[n], h - 1)
    <3>1. CASE h = 1
      BY <3>1 DEF RootAt
    <3>2. CASE h # 1
      <4>1. h - 1 <= Position(n)
        BY <2>2, <2>4
      <4>2. chunks[q][h - 1].header = chunks[n][h - 1].header
        BY <1>1, <2>1, <3>2, <4>1, SameParent DEF SyncedAgreement
      <4> QED
        BY <4>2 DEF RootAt
    <3> QED
      BY <3>1, <3>2
  <2>6. RootAfter(n, p.chunk.msgs) = p.chunk.header.root
    BY <2>1, <2>4, <2>5 DEF ProposalOK, RootAfter
  <2> QED
    BY <1>2, <2>6 DEF Decide, ShardInv, TypeOK
<1>3. ASSUME NEW h \in Height, EnterHeight(n, h) PROVE phase'[n] # "panicked"
  BY <1>3 DEF EnterHeight, ShardInv, TypeOK
<1>4. CASE SameNode(n)
  BY <1>1, <1>4 DEF SameNode
<1> QED
  BY <1>2, <1>3, <1>4, StepKinds DEF ShardInv

LEMMA LinkedHolds ==
    ASSUME ShardInv, SyncedAgreement, ProposalInv, NoCommitPanic
    PROVE  ChainLinked
<1> SUFFICES ASSUME Synced, NEW n \in Node, NEW i \in DOMAIN chunks[n]
             PROVE  /\ chunks[n][i].header.height = i
                    /\ chunks[n][i].header.parent =
                           IF i = 1 THEN Genesis ELSE chunks[n][i - 1].header
  BY DEF ChainLinked
<1>0. chunks[n] \in Seq({p.chunk : p \in net})
  BY DEF ShardInv, TypeOK
<1>1. i \in 1..Len(chunks[n]) /\ Len(chunks[n]) \in Nat /\ chunks[n] # <<>>
  BY <1>0, LenProperties, EmptySeq
<1>2. FullHistory(n)
  BY <1>1, SyncedFull DEF ShardInv, StartInv, StartOK
<1>3. chunks[n][i].header.height = i /\ Position(n) = Len(chunks[n])
  BY <1>2 DEF ShardInv, ChainInv, ChainOK, NoCommitPanic, Position
<1>4. PICK p \in net : chunks[n][i] = p.chunk
  <2>1. chunks[n][i] \in {p.chunk : p \in net}
    BY <1>0, <1>1, ElementOfSeq
  <2> QED
    BY <2>1
<1>5. ProposalOK(p) /\ p.chunk.header.height = i /\ p.proposer \in Node
  BY <1>3, <1>4 DEF ProposalInv, ProposalOK
<1>6. i # 1 => chunks[p.proposer][i - 1].header = chunks[n][i - 1].header
  <2> SUFFICES ASSUME i # 1 PROVE chunks[p.proposer][i - 1].header = chunks[n][i - 1].header
    OBVIOUS
  <2>1. i - 1 <= Position(n)
    BY <1>1, <1>3
  <2> QED
    BY <1>5, <2>1, SameParent DEF NoCommitPanic, SyncedAgreement
<1> QED
  BY <1>3, <1>4, <1>5, <1>6 DEF ProposalOK

LEMMA ProposalInit == Init => ProposalInv /\ NoCommitPanic
BY DEF Init, ProposalInv, NoCommitPanic

(* Without a late joiner, replaying a decided batch gives the root its     *)
(* proposer computed, whoever proposed it and in whatever round, for any   *)
(* number of validators: "hashes don't match" is unreachable.              *)
THEOREM CommitNeverPanics == Spec => []NoCommitPanic
<1>1. ShardInv /\ SyncedAgreement /\ ProposalInv /\ NoCommitPanic /\ [Next]_vars
        => ProposalInv' /\ NoCommitPanic'
  BY ProposalStep, NoPanicStep
<1>2. Spec => []SyncedAgreement
  BY SyncedAgree
<1> QED
  BY <1>1, <1>2, ProposalInit, ShardHolds, PTL DEF Spec

(* Under the same conditions every chunk a node holds is of its height and *)
(* builds on the one before it, the first on Genesis.                      *)
THEOREM ChainIsLinked == Spec => []ChainLinked
<1>1. ShardInv /\ SyncedAgreement /\ ProposalInv /\ NoCommitPanic => ChainLinked
  BY LinkedHolds
<1>2. ShardInv /\ ProposalInv /\ [Next]_vars => ProposalInv'
  BY ProposalStep
<1>3. Spec => []SyncedAgreement
  BY SyncedAgree
<1> QED
  BY <1>1, <1>2, <1>3, CommitNeverPanics, ProposalInit, ShardHolds, PTL DEF Spec
=============================================================================
