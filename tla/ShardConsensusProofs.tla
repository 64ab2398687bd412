------------------------ MODULE ShardConsensusProofs ------------------------
(***************************************************************************)
(* TLAPS proofs for ShardConsensus, for any number of heights, rounds and  *)
(* messages: type correctness; agreement among nodes whose validator sets  *)
(* overlap and whose voters' locks guard them; and, for up to five         *)
(* validators, agreement among the nodes that knew at least three.         *)
(***************************************************************************)
EXTENDS ShardConsensus, FiniteSetTheorems, SequenceTheorems, TLAPS

LEMMA TypeInit == Init => TypeOK
BY BoundsNat DEF Init, TypeOK, Height, Phase

LEMMA EnterHeightType ==
    ASSUME TypeOK, NEW n \in Node, NEW h \in Height, EnterHeight(n, h),
           pendingStart' \in [Node -> SUBSET (1..(MaxHeight + 1))]
    PROVE  TypeOK'
BY DEF TypeOK, EnterHeight, Phase, engineVars

LEMMA TypeNext ==
    ASSUME TypeOK, [Next]_vars
    PROVE  TypeOK'
<1>1. ASSUME NEW n \in Node, NEW m \in Node, RegisterValidator(n, m)
      PROVE  TypeOK'
  <2>1. height[n] \in 1..(MaxHeight + 1)
    BY BoundsNat DEF TypeOK, Height
  <2>2. pendingStart' \in [Node -> SUBSET (1..(MaxHeight + 1))]
    BY <1>1, <2>1 DEF RegisterValidator, TypeOK
  <2> QED
    BY <1>1, <2>2 DEF RegisterValidator, TypeOK, driverVars, engineVars
<1>2. ASSUME NEW n \in Node, NEW h \in Height, StartHeight(n, h)
      PROVE  TypeOK'
  <2>1. pendingStart' \in [Node -> SUBSET (1..(MaxHeight + 1))]
    BY <1>2 DEF StartHeight, TypeOK
  <2>2. CASE EnterHeight(n, h)
    BY <2>1, <2>2, EnterHeightType
  <2>3. CASE UNCHANGED <<validators, started, driverVars, net, engineVars>>
    BY <2>1, <2>3 DEF TypeOK, driverVars, engineVars
  <2> QED
    BY <1>2, <2>2, <2>3 DEF StartHeight
<1>3. ASSUME NEW n \in Node, NEW h \in Height, StartOnMessage(n, h)
      PROVE  TypeOK'
  <2>1. EnterHeight(n, h) /\ pendingStart' = pendingStart
    BY <1>3 DEF StartOnMessage
  <2> QED
    BY <2>1, EnterHeightType DEF TypeOK
<1>4. ASSUME NEW n \in Node, NEW r \in Round, NEW msgs \in SUBSET Msg,
             ProposeValue(n, r, msgs)
      PROVE  TypeOK'
  <2>1. net \subseteq net'
    BY <1>4 DEF ProposeValue
  <2>2. vote' \in [Node -> [Height -> SUBSET {p.chunk.header : p \in net'}]]
    BY <1>4, <2>1 DEF ProposeValue, TypeOK, driverVars
  <2>3. chunks' \in [Node -> Seq({p.chunk : p \in net'})]
    <3>1. {p.chunk : p \in net} \subseteq {p.chunk : p \in net'}
      BY <2>1
    <3>2. ASSUME NEW m \in Node PROVE chunks[m] \in Seq({p.chunk : p \in net'})
      BY <3>1, SeqMonotonic DEF TypeOK
    <3> QED
      BY <1>4, <3>2 DEF ProposeValue, TypeOK, engineVars
  <2>4. \A p \in net' : p.chunk.msgs \subseteq Msg
    BY <1>4 DEF ProposeValue, ProposalOf, TypeOK
  <2> QED
    BY <1>4, <2>2, <2>3, <2>4 DEF ProposeValue, TypeOK, actorVars, driverVars, engineVars
<1>5. ASSUME NEW n \in Node, NEW p \in net, Precommit(n, p)
      PROVE  TypeOK'
  BY <1>5 DEF Precommit, TypeOK, actorVars, engineVars
<1>6. ASSUME NEW n \in Node, NEW p \in net, Decide(n, p)
      PROVE  TypeOK'
  <2>1. chunks' \in [Node -> Seq({q.chunk : q \in net'})]
    <3>1. p.chunk \in {q.chunk : q \in net}
      OBVIOUS
    <3>2. Append(chunks[n], p.chunk) \in Seq({q.chunk : q \in net})
      BY <3>1, AppendProperties DEF TypeOK
    <3> QED
      BY <1>6, <3>2 DEF Decide, TypeOK
  <2>2. height[n] + 1 \in 1..(MaxHeight + 1)
    BY BoundsNat DEF TypeOK, Height
  <2>3. RootAfter(n, p.chunk.msgs) \in SUBSET Msg
    BY DEF RootAfter, TypeOK
  <2>4. /\ validators' = validators /\ started' = started /\ height' = height
        /\ view' = view /\ vote' = vote /\ net' = net
    BY <1>6 DEF Decide
  <2>5. CASE /\ trie' = [trie EXCEPT ![n] = RootAfter(n, p.chunk.msgs)]
             /\ pendingStart' = [pendingStart EXCEPT ![n] = @ \cup {height[n] + 1}]
             /\ phase' = [phase EXCEPT ![n] = "decided"]
    <3>1. pendingStart' \in [Node -> SUBSET (1..(MaxHeight + 1))]
      BY <2>2, <2>5 DEF TypeOK
    <3> QED
      BY <2>1, <2>3, <2>4, <2>5, <3>1 DEF TypeOK, Phase
  <2>6. CASE /\ phase' = [phase EXCEPT ![n] = "panicked"]
             /\ UNCHANGED <<trie, pendingStart>>
    BY <2>1, <2>4, <2>6 DEF TypeOK, Phase
  <2> QED
    BY <1>6, <2>5, <2>6 DEF Decide, NextHeight
<1>7. CASE UNCHANGED vars
  BY <1>7 DEF vars, actorVars, driverVars, engineVars, TypeOK
<1> QED
  BY <1>1, <1>2, <1>3, <1>4, <1>5, <1>6, <1>7 DEF Next

(* Type correctness; in particular a node votes for and decides only       *)
(* chunks some proposer broadcast.                                         *)
THEOREM TypeCorrect == Spec => []TypeOK
<1>1. TypeOK /\ [Next]_vars => TypeOK'
  BY TypeNext
<1> QED
  BY TypeInit, <1>1, PTL DEF Spec

-----------------------------------------------------------------------------
(* A started node never goes back to an earlier height nor reopens one it  *)
(* has decided, whatever StartHeight messages are still on their way.      *)
NotStartedIsBlank ==
    \A n \in Node : ~started[n] => chunks[n] = <<>> /\ phase[n] = "idle"

LEMMA BlankNext ==
    ASSUME TypeOK, NotStartedIsBlank, [Next]_vars
    PROVE  NotStartedIsBlank'
<1>1. ASSUME NEW n \in Node, NEW m \in Node, RegisterValidator(n, m)
      PROVE  NotStartedIsBlank'
  BY <1>1 DEF RegisterValidator, driverVars, engineVars, NotStartedIsBlank
<1>2. ASSUME NEW n \in Node, NEW h \in Height, EnterHeight(n, h)
      PROVE  NotStartedIsBlank'
  BY <1>2 DEF EnterHeight, engineVars, NotStartedIsBlank, TypeOK
<1>3. ASSUME NEW n \in Node, NEW h \in Height, StartHeight(n, h)
      PROVE  NotStartedIsBlank'
  BY <1>2, <1>3 DEF StartHeight, driverVars, engineVars, NotStartedIsBlank
<1>4. ASSUME NEW n \in Node, NEW h \in Height, StartOnMessage(n, h)
      PROVE  NotStartedIsBlank'
  BY <1>2, <1>4 DEF StartOnMessage
<1>5. ASSUME NEW n \in Node, NEW r \in Round, NEW msgs \in SUBSET Msg,
             ProposeValue(n, r, msgs)
      PROVE  NotStartedIsBlank'
  BY <1>5 DEF ProposeValue, actorVars, driverVars, engineVars, NotStartedIsBlank
<1>6. ASSUME NEW n \in Node, NEW p \in net, Precommit(n, p)
      PROVE  NotStartedIsBlank'
  BY <1>6 DEF Precommit, actorVars, engineVars, NotStartedIsBlank
<1>7. ASSUME NEW n \in Node, NEW p \in net, Decide(n, p)
      PROVE  NotStartedIsBlank'
  <2>1. started[n]
    BY <1>7 DEF Decide, Running, NotStartedIsBlank
  <2>2. \A m \in Node \ {n} : chunks'[m] = chunks[m] /\ phase'[m] = phase[m]
    BY <1>7 DEF Decide, TypeOK
  <2>3. started' = started
    BY <1>7 DEF Decide
  <2> QED
    BY <2>1, <2>2, <2>3 DEF NotStartedIsBlank
<1>8. CASE UNCHANGED vars
  BY <1>8 DEF vars, actorVars, driverVars, engineVars, NotStartedIsBlank
<1> QED
  BY <1>1, <1>3, <1>4, <1>5, <1>6, <1>7, <1>8 DEF Next

LEMMA StepNeverGoesBack ==
    ASSUME TypeOK, [Next]_vars, NEW n \in Node, started[n]
    PROVE  /\ height'[n] >= height[n]
           /\ phase[n] \in {"decided", "panicked"} /\ phase'[n] = "running"
                 => height'[n] > height[n]
<1>0. height[n] \in Nat /\ height'[n] \in Nat
  <2>1. TypeOK'
    BY TypeNext
  <2> QED
    BY <2>1, BoundsNat DEF TypeOK, Height
<1>1. CASE UNCHANGED <<height, phase>>
  BY <1>0, <1>1
<1>2. ASSUME NEW m \in Node, NEW h \in Height, StartHeight(m, h), m # n
      PROVE  height'[n] = height[n] /\ phase'[n] = phase[n]
  BY <1>2 DEF StartHeight, EnterHeight, driverVars, TypeOK
<1>3. ASSUME NEW h \in Height, StartHeight(n, h)
      PROVE  \/ height'[n] > height[n]
             \/ height'[n] = height[n] /\ phase'[n] = phase[n]
  <2>1. CASE ~IgnoresStart(n, h) /\ EnterHeight(n, h)
    BY <1>0, <2>1, BoundsNat DEF IgnoresStart, EnterHeight, TypeOK, Height
  <2>2. CASE UNCHANGED driverVars
    BY <2>2 DEF driverVars
  <2> QED
    BY <1>3, <2>1, <2>2 DEF StartHeight
<1>4. ASSUME NEW m \in Node, NEW h \in Height, StartOnMessage(m, h)
      PROVE  height'[n] = height[n] /\ phase'[n] = phase[n]
  <2>1. m # n
    BY <1>4 DEF StartOnMessage
  <2> QED
    BY <1>4, <2>1 DEF StartOnMessage, EnterHeight, TypeOK
<1>5. ASSUME NEW m \in Node, NEW p \in net, Decide(m, p)
      PROVE  height'[n] = height[n] /\ (phase'[n] = "running" => phase[n] = "running")
  <2>1. height' = height /\ Running(m)
    BY <1>5 DEF Decide
  <2>2. \/ phase' = [phase EXCEPT ![m] = "decided"]
        \/ phase' = [phase EXCEPT ![m] = "panicked"]
    BY <1>5 DEF Decide
  <2> QED
    BY <2>1, <2>2 DEF TypeOK
<1>6. ASSUME NEW m \in Node, NEW j \in Node, RegisterValidator(m, j)
      PROVE  UNCHANGED <<height, phase>>
  BY <1>6 DEF RegisterValidator, driverVars
<1>7. ASSUME NEW m \in Node, NEW r \in Round, NEW msgs \in SUBSET Msg,
             ProposeValue(m, r, msgs)
      PROVE  UNCHANGED <<height, phase>>
  BY <1>7 DEF ProposeValue, driverVars
<1>8. ASSUME NEW m \in Node, NEW p \in net, Precommit(m, p)
      PROVE  UNCHANGED <<height, phase>>
  BY <1>8 DEF Precommit
<1>9. CASE UNCHANGED vars
  BY <1>1, <1>9 DEF vars, driverVars
<1>10. CASE \E m \in Node, h \in Height : StartHeight(m, h) \/ StartOnMessage(m, h)
  BY <1>0, <1>2, <1>3, <1>4, <1>10
<1>11. CASE \E m \in Node, p \in net : Precommit(m, p) \/ Decide(m, p)
  BY <1>0, <1>1, <1>5, <1>8, <1>11
<1> QED
  BY <1>1, <1>6, <1>7, <1>9, <1>10, <1>11 DEF Next

(* Neither a delayed StartHeight nor a message of an old height takes a    *)
(* started node back (start_height's early return).                        *)
THEOREM HeightsOnlyAdvance == Spec => NeverGoesBack
<1>1. TypeOK /\ [Next]_vars =>
        [\A n \in Node : started[n] =>
           /\ height'[n] >= height[n]
           /\ phase[n] \in {"decided", "panicked"} /\ phase'[n] = "running"
                  => height'[n] > height[n]]_vars
  BY StepNeverGoesBack
<1> QED
  BY <1>1, TypeCorrect, PTL DEF Spec, NeverGoesBack

-----------------------------------------------------------------------------
(* MinQuorum is the least number of votes that makes a quorum.             *)
LEMMA QuorumSize ==
    ASSUME NEW V \in SUBSET Node, NEW Q \in SUBSET V, IsQuorum(Q, V)
    PROVE  Cardinality(Q) >= MinQuorum(V)
<1>1. IsFiniteSet(V) /\ IsFiniteSet(Q)
  BY NodeFinite, FS_Subset
<1>2. Cardinality(V) \in Nat /\ Cardinality(Q) \in Nat
  BY <1>1, FS_CardinalityType
<1> QED
  BY <1>2 DEF MinQuorum, IsQuorum

(* Quorums of overlapping validator sets have a member in common.          *)
LEMMA OverlapMeets ==
    ASSUME NEW V \in SUBSET Node, NEW W \in SUBSET Node, QuorumsMeet(V, W),
           NEW P \in SUBSET V, NEW Q \in SUBSET W, IsQuorum(P, V), IsQuorum(Q, W)
    PROVE  P \cap Q # {}
<1>1. /\ IsFiniteSet(P) /\ IsFiniteSet(Q) /\ IsFiniteSet(V) /\ IsFiniteSet(W)
      /\ IsFiniteSet(V \cup W)
  BY NodeFinite, FS_Subset
<1>2. Cardinality(P \cup Q) <= Cardinality(V \cup W)
  BY <1>1, FS_Subset
<1>3. Cardinality(P \cup Q)
        = Cardinality(P) + Cardinality(Q) - Cardinality(P \cap Q)
  BY <1>1, FS_Union
<1>4. /\ Cardinality(P) \in Nat /\ Cardinality(Q) \in Nat /\ Cardinality(V \cup W) \in Nat
      /\ Cardinality(V) \in Nat /\ Cardinality(W) \in Nat
  BY <1>1, FS_CardinalityType
<1>5. SUFFICES ASSUME P \cap Q = {} PROVE FALSE
  OBVIOUS
<1>6. Cardinality(P \cap Q) = 0
  BY <1>5, FS_EmptySet
<1>7. Cardinality(P \cup Q) = Cardinality(P) + Cardinality(Q)
  BY <1>3, <1>4, <1>6
<1>8. Cardinality(P) >= MinQuorum(V) /\ Cardinality(Q) >= MinQuorum(W)
  BY QuorumSize
<1>9. MinQuorum(V) \in Nat /\ MinQuorum(W) \in Nat
  BY <1>4 DEF MinQuorum
<1> QED
  BY <1>2, <1>4, <1>7, <1>8, <1>9 DEF QuorumsMeet

(* Two sets of which every quorum is a majority of all validators overlap. *)
LEMMA FullViewsMeet ==
    ASSUME NEW V \in SUBSET Node, NEW W \in SUBSET Node, V \in FullViews, W \in FullViews
    PROVE  QuorumsMeet(V, W)
<1>1. IsFiniteSet(Node) /\ IsFiniteSet(V) /\ IsFiniteSet(W) /\ IsFiniteSet(V \cup W)
  BY NodeFinite, FS_Subset
<1>2. Cardinality(V \cup W) <= Cardinality(Node)
  BY <1>1, FS_Subset
<1>3. /\ Cardinality(V) \in Nat /\ Cardinality(W) \in Nat
      /\ Cardinality(V \cup W) \in Nat /\ Cardinality(Node) \in Nat
  BY <1>1, FS_CardinalityType
<1>4. MinQuorum(V) \in Nat /\ MinQuorum(W) \in Nat
  BY <1>3 DEF MinQuorum
<1> QED
  BY <1>2, <1>3, <1>4 DEF QuorumsMeet, FullViews

(* A validator set that grows stays full.                                  *)
LEMMA FullViewGrows ==
    ASSUME NEW V \in SUBSET Node, NEW W \in SUBSET Node, V \subseteq W, V \in FullViews
    PROVE  W \in FullViews
<1>1. IsFiniteSet(Node) /\ IsFiniteSet(V) /\ IsFiniteSet(W)
  BY NodeFinite, FS_Subset
<1>2. Cardinality(V) <= Cardinality(W)
  BY <1>1, FS_Subset
<1>3. Cardinality(V) \in Nat /\ Cardinality(W) \in Nat /\ Cardinality(Node) \in Nat
  BY <1>1, FS_CardinalityType
<1>4. MinQuorum(V) \in Nat /\ MinQuorum(W) \in Nat /\ MinQuorum(V) <= MinQuorum(W)
  BY <1>2, <1>3 DEF MinQuorum
<1> QED
  BY <1>3, <1>4 DEF FullViews

-----------------------------------------------------------------------------
(* Locks *)

(* A node enters a height once, with a set that has the node itself.       *)
ViewOK(n) ==
    /\ n \in validators[n]
    /\ \A k \in Height : view[n][k] # {} => n \in view[n][k] /\ started[n] /\ k <= height[n]
    /\ phase[n] = "running" => view[n][height[n]] # {}

ViewInv == \A n \in Node : ViewOK(n)

\* no view that was entered is changed
ViewsKept == \A x \in Node, k \in Height : view[x][k] = {} \/ view'[x][k] = view[x][k]

LEMMA EnterViews ==
    ASSUME TypeOK, ViewInv, NEW n \in Node, NEW h \in Height, EnterHeight(n, h), ~IgnoresStart(n, h)
    PROVE  ViewInv' /\ ViewsKept
<1>1. \A x \in Node, k \in Height :
        view'[x][k] = IF x = n /\ k = h THEN validators[n] ELSE view[x][k]
  BY DEF EnterHeight, TypeOK
<1>2. height[n] \in Nat /\ h \in Nat /\ \A k \in Height : k \in Nat
  BY BoundsNat DEF TypeOK, Height
<1>3. \A k \in Height : view[n][k] # {} => k < h
  BY <1>2 DEF IgnoresStart, ViewInv, ViewOK, TypeOK
<1>4. ViewsKept
  BY <1>1, <1>2, <1>3 DEF ViewsKept
<1>5. ASSUME NEW x \in Node PROVE ViewOK(x)'
  <2>1. validators' = validators
    BY DEF EnterHeight
  <2>2. CASE x = n
    <3>1. started'[n] = TRUE /\ height'[n] = h /\ view'[n][h] # {}
      BY <1>1 DEF EnterHeight, TypeOK, ViewInv, ViewOK
    <3>2. \A k \in Height : view'[n][k] # {} => n \in view'[n][k] /\ k <= h
      BY <1>1, <1>2, <1>3 DEF ViewInv, ViewOK
    <3> QED
      BY <2>1, <2>2, <3>1, <3>2 DEF ViewInv, ViewOK
  <2>3. CASE x # n
    <3>1. started'[x] = started[x] /\ height'[x] = height[x] /\ phase'[x] = phase[x]
      BY <2>3 DEF EnterHeight, TypeOK
    <3>2. height[x] \in Height /\ \A k \in Height : view'[x][k] = view[x][k]
      BY <1>1, <2>3 DEF TypeOK
    <3>3. ViewOK(x)
      BY DEF ViewInv
    <3> QED
      BY <2>1, <3>1, <3>2, <3>3 DEF ViewOK
  <2> QED
    BY <2>2, <2>3
<1> QED
  BY <1>4, <1>5 DEF ViewInv

LEMMA ViewNext ==
    ASSUME TypeOK, ViewInv, [Next]_vars
    PROVE  ViewInv' /\ ViewsKept
<1>1. ASSUME UNCHANGED <<validators, started, height, phase, view>> PROVE ViewInv' /\ ViewsKept
  BY <1>1 DEF ViewInv, ViewOK, ViewsKept
<1>2. ASSUME NEW n \in Node, NEW m \in Node, RegisterValidator(n, m) PROVE ViewInv' /\ ViewsKept
  <2>1. view' = view /\ started' = started /\ height' = height /\ phase' = phase
    BY <1>2 DEF RegisterValidator, driverVars
  <2>2. \A x \in Node : validators[x] \subseteq validators'[x]
    BY <1>2 DEF RegisterValidator, TypeOK
  <2> QED
    BY <2>1, <2>2 DEF ViewInv, ViewOK, ViewsKept
<1>3. ASSUME NEW n \in Node, NEW h \in Height, StartHeight(n, h) PROVE ViewInv' /\ ViewsKept
  BY <1>1, <1>3, EnterViews DEF StartHeight, driverVars
<1>4. ASSUME NEW n \in Node, NEW h \in Height, StartOnMessage(n, h) PROVE ViewInv' /\ ViewsKept
  BY <1>4, EnterViews DEF StartOnMessage, IgnoresStart
<1>5. ASSUME NEW n \in Node, NEW r \in Round, NEW msgs \in SUBSET Msg, ProposeValue(n, r, msgs)
      PROVE  ViewInv' /\ ViewsKept
  BY <1>1, <1>5 DEF ProposeValue, actorVars, driverVars
<1>6. ASSUME NEW n \in Node, NEW p \in net, Precommit(n, p) PROVE ViewInv' /\ ViewsKept
  BY <1>1, <1>6 DEF Precommit, actorVars
<1>7. ASSUME NEW n \in Node, NEW p \in net, Decide(n, p) PROVE ViewInv' /\ ViewsKept
  <2>1. /\ UNCHANGED <<validators, started, height, view>>
        /\ \A x \in Node : phase'[x] = "running" => phase[x] = "running"
    BY <1>7 DEF Decide, TypeOK
  <2> QED
    BY <2>1 DEF ViewInv, ViewOK, ViewsKept
<1>8. CASE UNCHANGED vars
  BY <1>1, <1>8 DEF vars, actorVars, driverVars
<1> QED
  BY <1>2, <1>3, <1>4, <1>5, <1>6, <1>7, <1>8 DEF Next

LEMMA ViewInit == Init => ViewInv
BY DEF Init, ViewInv, ViewOK

(* A voter that is part of a firm quorum is locked: in its own set there   *)
(* is no quorum that does not precommit the value.                         *)
LEMMA GuardedIsLocked ==
    ASSUME TypeOK, ViewInv, NEW V \in SUBSET Node, NEW h \in Height, NEW v,
           IsQuorum(VotersFor(v, h, V), V), Firm(V, h),
           NEW x \in V, vote[x][h] = {v}, view[x][h] # {}
    PROVE  Locked(x, h)
<1> DEFINE W == view[x][h]
           P == {m \in W : vote[m][h] # {v}}
           Q == VotersFor(v, h, V)
<1>1. W \in SUBSET Node /\ x \in W
  BY DEF TypeOK, ViewInv, ViewOK
<1>2. P \in SUBSET W /\ Q \in SUBSET V /\ P \cap Q = {} /\ x \notin P
  BY DEF VotersFor
<1>3. Guards(W, V)
  BY DEF Firm
<1>4. ~IsQuorum(P, W)
  <2> SUFFICES ASSUME IsQuorum(P, W) PROVE FALSE
    OBVIOUS
  <2> HIDE DEF P, Q, W
  <2>1. CASE QuorumsMeet(V, W)
    <3>1. IsQuorum(Q, V)
      BY DEF Q
    <3> QED
      BY <1>1, <1>2, <2>1, <3>1, OverlapMeets
  <2>2. CASE MinQuorum(W) = Cardinality(W)
    <3>1. IsFiniteSet(W) /\ IsFiniteSet(P)
      BY <1>1, <1>2, NodeFinite, FS_Subset
    <3>2. Cardinality(P) >= Cardinality(W)
      BY <1>1, <1>2, <2>2, QuorumSize
    <3>3. Cardinality(P) <= Cardinality(W) /\ (Cardinality(P) = Cardinality(W) => P = W)
      BY <1>2, <3>1, FS_Subset
    <3>4. Cardinality(P) \in Nat /\ Cardinality(W) \in Nat
      BY <3>1, FS_CardinalityType
    <3> QED
      BY <1>1, <1>2, <3>2, <3>3, <3>4
  <2> QED
    BY <1>3, <2>1, <2>2 DEF Guards
<1> QED
  BY <1>4 DEF Locked

(* What a decision leaves behind: a height the node does not run again,    *)
(* and the precommits of a quorum of the validators it was taken with,     *)
(* which the locks of its voters keep as long as they guard it.            *)
Justified(n, v) ==
    /\ v.height \in Height
    /\ v.height <= height[n]
    /\ v.height = height[n] => phase[n] # "running"
    /\ view[n][v.height] # {}
    /\ Firm(view[n][v.height], v.height) =>
           IsQuorum(VotersFor(v, v.height, view[n][v.height]), view[n][v.height])

DecidedByQuorum ==
    \A n \in Node : \A i \in DOMAIN chunks[n] : Justified(n, chunks[n][i].header)

(* A step that leaves a node's chunks alone keeps its decisions justified. *)
LEMMA EnterKeepsJustified ==
    ASSUME TypeOK, ViewsKept, NEW n \in Node, NEW h \in Height, EnterHeight(n, h),
           h > height[n], NEW m \in Node, NEW v, Justified(m, v)
    PROVE  Justified(m, v)'
<1> DEFINE k == v.height
           V == view[m][k]
<1>1. height[m] \in Nat /\ height[n] \in Nat /\ h \in Nat /\ k \in Nat /\ k \in Height
  BY BoundsNat DEF TypeOK, Height, Justified
<1>2. vote' = vote /\ view'[m][k] = V /\ V \in SUBSET Node
  BY <1>1 DEF EnterHeight, TypeOK, Justified, ViewsKept
<1>3. VotersFor(v, k, V)' = VotersFor(v, k, V)
  BY <1>2 DEF VotersFor
<1>4. m = n => height'[m] = h
  BY DEF EnterHeight, TypeOK
<1>5. m # n => height'[m] = height[m] /\ phase'[m] = phase[m]
  BY DEF EnterHeight, TypeOK
<1>6. Firm(V, k)' => Firm(V, k)
  <2> SUFFICES ASSUME Firm(V, k)' PROVE Firm(V, k)
    OBVIOUS
  <2>1. \A x \in V : view'[x][k] = {} \/ Guards(view'[x][k], V)
    BY <1>2 DEF Firm, Guards, QuorumsMeet, MinQuorum
  <2>2. \A x \in V : view[x][k] = {} \/ view'[x][k] = view[x][k]
    BY <1>1, <1>2 DEF ViewsKept
  <2> QED
    BY <2>1, <2>2 DEF Firm
<1> QED
  BY <1>1, <1>2, <1>3, <1>4, <1>5, <1>6 DEF Justified, IsQuorum

LEMMA PrecommitKeepsJustified ==
    ASSUME TypeOK, ViewInv, NEW n \in Node, NEW p \in net, Precommit(n, p),
           NEW m \in Node, NEW v, Justified(m, v)
    PROVE  Justified(m, v)'
<1> DEFINE h == v.height
           V == view[m][h]
<1>1. height' = height /\ phase' = phase /\ view' = view
  BY DEF Precommit
<1>2. h \in Height /\ V \in SUBSET Node
  BY DEF Justified, TypeOK
<1>3. Firm(V, h)' <=> Firm(V, h)
  BY <1>1 DEF Firm, Guards, QuorumsMeet, MinQuorum
<1>4. ASSUME Firm(V, h) PROVE IsQuorum(VotersFor(v, h, V)', V)
  <2>0. IsQuorum(VotersFor(v, h, V), V)
    BY <1>4 DEF Justified
  <2>1. ASSUME NEW x \in V, vote[x][h] = {v}
        PROVE  vote'[x][h] = vote[x][h]
    <3>1. CASE x = n /\ h = height[n]
      <4>0. view[n][h] # {}
        BY <3>1 DEF Precommit, Running, ViewInv, ViewOK
      <4>1. Locked(n, h)
        BY <1>2, <1>4, <2>0, <2>1, <3>1, <4>0, GuardedIsLocked
      <4> QED
        BY <3>1, <4>1 DEF Precommit
    <3>2. CASE ~(x = n /\ h = height[n])
      BY <1>2, <3>2 DEF Precommit, TypeOK
    <3> QED
      BY <3>1, <3>2
  <2>2. VotersFor(v, h, V) \subseteq VotersFor(v, h, V)'
    BY <1>1, <2>1 DEF VotersFor
  <2>3. IsFiniteSet(V)
    BY <1>2, NodeFinite, FS_Subset
  <2>4. VotersFor(v, h, V)' \in SUBSET V
    BY <1>1 DEF VotersFor
  <2>5. IsFiniteSet(VotersFor(v, h, V)')
    BY <2>3, <2>4, FS_Subset
  <2>6. Cardinality(VotersFor(v, h, V)) <= Cardinality(VotersFor(v, h, V)')
    BY <2>2, <2>5, FS_Subset
  <2>7. /\ Cardinality(VotersFor(v, h, V)) \in Nat
        /\ Cardinality(VotersFor(v, h, V)') \in Nat
        /\ Cardinality(V) \in Nat
    BY <2>2, <2>3, <2>5, FS_Subset, FS_CardinalityType
  <2> QED
    BY <2>0, <2>6, <2>7 DEF IsQuorum
<1> QED
  BY <1>1, <1>3, <1>4 DEF Justified, IsQuorum

(* A step that changes nobody's chunks and keeps decisions justified keeps *)
(* the invariant.                                                          *)
LEMMA SameChunksKeep ==
    ASSUME DecidedByQuorum, chunks' = chunks,
           ASSUME NEW m \in Node, NEW v, Justified(m, v)
           PROVE  Justified(m, v)'
    PROVE  DecidedByQuorum'
<1> SUFFICES ASSUME NEW m \in Node, NEW i \in DOMAIN chunks'[m]
             PROVE  Justified(m, chunks[m][i].header)'
  BY DEF DecidedByQuorum
<1>1. PICK v : v = chunks'[m][i].header
  OBVIOUS
<1>2. Justified(m, v)
  BY <1>1 DEF DecidedByQuorum
<1>3. Justified(m, v)'
  BY <1>2
<1> QED
  BY <1>1, <1>3 DEF Justified, VotersFor, Firm

LEMMA DecideKeeps ==
    ASSUME TypeOK, DecidedByQuorum, NEW n \in Node, NEW p \in net, Decide(n, p)
    PROVE  DecidedByQuorum'
<1>1. /\ height' = height /\ view' = view /\ vote' = vote /\ Running(n)
      /\ p.chunk.header.height = height[n] /\ CanDecide(n, p.chunk.header)
      /\ chunks' = [chunks EXCEPT ![n] = Append(@, p.chunk)]
  BY DEF Decide
<1>2. \/ phase' = [phase EXCEPT ![n] = "decided"]
      \/ phase' = [phase EXCEPT ![n] = "panicked"]
  BY DEF Decide
<1>3. ASSUME NEW m \in Node, NEW v, Justified(m, v)
      PROVE  Justified(m, v)'
  <2>1. phase'[m] = "running" => phase[m] = "running"
    BY <1>1, <1>2 DEF TypeOK
  <2>2. VotersFor(v, v.height, view[m][v.height])' = VotersFor(v, v.height, view[m][v.height])
    BY <1>1 DEF VotersFor
  <2>3. Firm(view[m][v.height], v.height)' <=> Firm(view[m][v.height], v.height)
    BY <1>1 DEF Firm, Guards, QuorumsMeet, MinQuorum
  <2> QED
    BY <1>1, <1>3, <2>1, <2>2, <2>3 DEF Justified, IsQuorum
<1>4. Justified(n, p.chunk.header)'
  <2>1. phase'[n] # "running"
    BY <1>2 DEF TypeOK
  <2>2. height[n] \in Height /\ height[n] <= height[n]
    BY BoundsNat DEF TypeOK, Height
  <2>3. p.chunk.header.height' = height[n]
    BY <1>1
  <2>4. IsQuorum(VotersFor(p.chunk.header, height[n], view[n][height[n]])',
                 view[n][height[n]]')
    BY <1>1 DEF CanDecide, IsQuorum, VotersFor
  <2>5. view[n][height[n]] # {}
    <3>1. view[n][height[n]] = {} => VotersFor(p.chunk.header, height[n], view[n][height[n]]) = {}
      BY DEF VotersFor
    <3>2. ~(3 * Cardinality({}) > 2 * Cardinality({}))
      BY FS_EmptySet
    <3> QED
      BY <1>1, <3>1, <3>2, FS_EmptySet DEF CanDecide, IsQuorum, VotersFor
  <2> QED
    BY <1>1, <2>1, <2>2, <2>4, <2>5 DEF Justified, IsQuorum, VotersFor
<1> SUFFICES ASSUME NEW m \in Node, NEW i \in DOMAIN chunks'[m]
             PROVE  Justified(m, chunks[m][i].header)'
  BY DEF DecidedByQuorum
<1>5. PICK v : v = chunks'[m][i].header
  OBVIOUS
<1>6. CASE m = n /\ i = Len(chunks[n]) + 1
  <2>1. chunks'[m][i] = p.chunk
    BY <1>1, <1>6, AppendProperties DEF TypeOK
  <2> QED
    BY <1>4, <1>6, <2>1 DEF Justified, VotersFor, Firm
<1>7. CASE ~(m = n /\ i = Len(chunks[n]) + 1)
  <2>1. i \in DOMAIN chunks[m] /\ chunks'[m][i] = chunks[m][i]
    BY <1>1, <1>7, AppendProperties, LenProperties DEF TypeOK
  <2>2. Justified(m, v)
    BY <1>5, <2>1 DEF DecidedByQuorum
  <2>3. Justified(m, v)'
    BY <1>3, <2>2
  <2> QED
    BY <1>5, <2>3 DEF Justified, VotersFor, Firm
<1> QED
  BY <1>6, <1>7

LEMMA DecidedNext ==
    ASSUME TypeOK, NotStartedIsBlank, ViewInv, DecidedByQuorum, [Next]_vars
    PROVE  DecidedByQuorum'
<1>0. ViewsKept
  BY ViewNext
<1>1. ASSUME UNCHANGED <<driverVars, chunks>> PROVE DecidedByQuorum'
  BY <1>1 DEF driverVars, DecidedByQuorum, Justified, VotersFor, Firm
<1>2. ASSUME NEW n \in Node, NEW h \in Height, EnterHeight(n, h), ~IgnoresStart(n, h)
      PROVE  DecidedByQuorum'
  <2>1. chunks' = chunks
    BY <1>2 DEF EnterHeight, engineVars
  <2>2. CASE started[n]
    <3>1. h > height[n]
      BY <1>2, <2>2, BoundsNat DEF IgnoresStart, TypeOK, Height
    <3>2. ASSUME NEW m \in Node, NEW v, Justified(m, v) PROVE Justified(m, v)'
      BY <1>0, <1>2, <3>1, <3>2, EnterKeepsJustified
    <3> QED
      BY <2>1, <3>2, SameChunksKeep
  <2>3. CASE ~started[n]
    <3> SUFFICES ASSUME NEW m \in Node, NEW i \in DOMAIN chunks'[m]
                 PROVE  Justified(m, chunks[m][i].header)'
      BY DEF DecidedByQuorum
    <3>1. m # n
      BY <2>1, <2>3 DEF NotStartedIsBlank
    <3>2. /\ height'[m] = height[m] /\ phase'[m] = phase[m]
          /\ view'[m] = view[m] /\ vote' = vote
      BY <1>2, <3>1 DEF EnterHeight, TypeOK
    <3>3. Justified(m, chunks[m][i].header)
      BY <2>1 DEF DecidedByQuorum
    <3>4. PICK v : v = chunks[m][i].header
      OBVIOUS
    <3>5. v.height \in Height /\ view[m][v.height] \in SUBSET Node
      BY <3>3, <3>4 DEF Justified, TypeOK
    <3>6. Firm(view[m][v.height], v.height)' => Firm(view[m][v.height], v.height)
      BY <1>0, <3>2, <3>5 DEF Firm, ViewsKept
    <3>7. VotersFor(v, v.height, view[m][v.height])' = VotersFor(v, v.height, view[m][v.height])
      BY <3>2 DEF VotersFor
    <3>8. Justified(m, v)'
      BY <3>2, <3>3, <3>4, <3>6, <3>7 DEF Justified
    <3> QED
      BY <2>1, <3>4, <3>8 DEF Justified, VotersFor, Firm
  <2> QED
    BY <2>2, <2>3
<1>3. ASSUME NEW n \in Node, NEW m \in Node, RegisterValidator(n, m)
      PROVE  DecidedByQuorum'
  BY <1>1, <1>3 DEF RegisterValidator, engineVars
<1>4. ASSUME NEW n \in Node, NEW h \in Height, StartHeight(n, h)
      PROVE  DecidedByQuorum'
  BY <1>1, <1>2, <1>4 DEF StartHeight, engineVars
<1>5. ASSUME NEW n \in Node, NEW h \in Height, StartOnMessage(n, h)
      PROVE  DecidedByQuorum'
  BY <1>2, <1>5 DEF StartOnMessage, IgnoresStart
<1>6. ASSUME NEW n \in Node, NEW r \in Round, NEW msgs \in SUBSET Msg,
             ProposeValue(n, r, msgs)
      PROVE  DecidedByQuorum'
  BY <1>1, <1>6 DEF ProposeValue, engineVars
<1>7. ASSUME NEW n \in Node, NEW p \in net, Precommit(n, p)
      PROVE  DecidedByQuorum'
  <2>1. chunks' = chunks
    BY <1>7 DEF Precommit, engineVars
  <2>2. ASSUME NEW m \in Node, NEW v, Justified(m, v) PROVE Justified(m, v)'
    BY <1>7, <2>2, PrecommitKeepsJustified
  <2> QED
    BY <2>1, <2>2, SameChunksKeep
<1>8. ASSUME NEW n \in Node, NEW p \in net, Decide(n, p)
      PROVE  DecidedByQuorum'
  BY <1>8, DecideKeeps
<1>9. CASE UNCHANGED vars
  BY <1>1, <1>9 DEF vars, engineVars
<1> QED
  BY <1>3, <1>4, <1>5, <1>6, <1>7, <1>8, <1>9 DEF Next

LEMMA DecisionsJustified == Spec => []DecidedByQuorum
<1>1. Init => NotStartedIsBlank /\ ViewInv /\ DecidedByQuorum
  BY ViewInit DEF Init, NotStartedIsBlank, DecidedByQuorum
<1>2. /\ TypeOK /\ NotStartedIsBlank /\ ViewInv /\ DecidedByQuorum /\ [Next]_vars
      => NotStartedIsBlank' /\ ViewInv' /\ DecidedByQuorum'
  BY BlankNext, ViewNext, DecidedNext
<1> QED
  BY <1>1, <1>2, TypeCorrect, PTL DEF Spec

LEMMA QuorumsAgree ==
    ASSUME TypeOK, DecidedByQuorum
    PROVE  AgreementOfOverlappingViews
<1> SUFFICES ASSUME NEW n \in Node, NEW m \in Node,
                    NEW i \in DOMAIN chunks[n], NEW j \in DOMAIN chunks[m],
                    chunks[n][i].header.height = chunks[m][j].header.height,
                    QuorumsMeet(view[n][chunks[n][i].header.height],
                                view[m][chunks[n][i].header.height]),
                    Firm(view[n][chunks[n][i].header.height], chunks[n][i].header.height),
                    Firm(view[m][chunks[n][i].header.height], chunks[n][i].header.height)
             PROVE  chunks[n][i].header = chunks[m][j].header
  BY DEF AgreementOfOverlappingViews
<1> DEFINE v == chunks[n][i].header
           w == chunks[m][j].header
           h == v.height
           P == VotersFor(v, h, view[n][h])
           Q == VotersFor(w, h, view[m][h])
<1>1. /\ h \in Height
      /\ IsQuorum(P, view[n][h]) /\ IsQuorum(Q, view[m][h])
  BY DEF DecidedByQuorum, Justified
<1>2. /\ view[n][h] \in SUBSET Node /\ view[m][h] \in SUBSET Node
      /\ P \in SUBSET view[n][h] /\ Q \in SUBSET view[m][h]
  <2> HIDE DEF v, w, h
  <2>1. view[n][h] \in SUBSET Node /\ view[m][h] \in SUBSET Node
    BY <1>1 DEF TypeOK
  <2>2. P \in SUBSET view[n][h] /\ Q \in SUBSET view[m][h]
    BY DEF VotersFor
  <2> QED
    BY <2>1, <2>2
<1>3. QuorumsMeet(view[n][h], view[m][h])
  OBVIOUS
<1>4. P \cap Q # {}
  <2> HIDE DEF P, Q, h
  <2> QED
    BY <1>1, <1>2, <1>3, OverlapMeets
<1>5. PICK x \in Node : vote[x][h] = {v} /\ vote[x][h] = {w}
  BY <1>2, <1>4 DEF VotersFor
<1> QED
  BY <1>5

(* Nodes that decided a height with validator sets whose quorums meet, and *)
(* whose voters are locked by sets that guard those quorums, decided the   *)
(* same chunk: for any number of validators, however and whenever each     *)
(* node came to know the ones it counts and is locked by.                  *)
THEOREM OverlappingViewsAgree == Spec => []AgreementOfOverlappingViews
<1>1. TypeOK /\ DecidedByQuorum => AgreementOfOverlappingViews
  BY QuorumsAgree
<1> QED
  BY <1>1, TypeCorrect, DecisionsJustified, PTL

(* With at most five validators, any three are enough: the threshold of    *)
(* three registrations is what makes the quorums of two nodes meet.        *)
LEMMA ThreeAreFull ==
    ASSUME Cardinality(Node) < 2 * StartPeers, NEW V \in SUBSET Node, Cardinality(V) >= StartPeers
    PROVE  V \in FullViews
<1>1. IsFiniteSet(Node) /\ IsFiniteSet(V)
  BY NodeFinite, FS_Subset
<1>2. Cardinality(V) \in Nat /\ Cardinality(Node) \in Nat
  BY <1>1, FS_CardinalityType
<1>3. V # {}
  BY <1>2, FS_EmptySet DEF StartPeers
<1>4. MinQuorum(V) >= 3 /\ MinQuorum(V) \in Nat
  BY <1>2 DEF MinQuorum, StartPeers
<1> QED
  BY <1>2, <1>3, <1>4 DEF FullViews, StartPeers

(* The locks of up to five validators guard every full set: one that is    *)
(* counted by three or fewer needs all of them, and four are full.         *)
LEMMA FewGuard ==
    ASSUME Cardinality(Node) < 2 * StartPeers, NEW V \in FullViews,
           NEW W \in SUBSET Node, W # {}
    PROVE  Guards(W, V)
<1>1. IsFiniteSet(W) /\ V \in SUBSET Node
  BY NodeFinite, FS_Subset DEF FullViews
<1>2. Cardinality(W) \in Nat
  BY <1>1, FS_CardinalityType
<1>3. CASE Cardinality(W) <= 2
  <2>1. Cardinality(W) = 0 \/ Cardinality(W) = 1 \/ Cardinality(W) = 2
    BY <1>2, <1>3
  <2> QED
    BY <1>1, <2>1, FS_EmptySet DEF MinQuorum, Guards
<1>4. CASE Cardinality(W) >= StartPeers
  BY <1>1, <1>4, ThreeAreFull, FullViewsMeet DEF Guards
<1> QED
  BY <1>2, <1>3, <1>4 DEF StartPeers

LEMMA FewFirm ==
    ASSUME Cardinality(Node) < 2 * StartPeers, TypeOK, NEW V \in FullViews, NEW h \in Height
    PROVE  Firm(V, h)
<1> SUFFICES ASSUME NEW x \in V, view[x][h] # {} PROVE Guards(view[x][h], V)
  BY DEF Firm
<1>1. view[x][h] \in SUBSET Node
  BY DEF TypeOK, FullViews
<1> QED
  BY <1>1, FewGuard

(* Nodes that decided one height with full sets decided the same chunk.    *)
AgreementOfFull ==
    \A n, m \in Node :
        \A i \in DOMAIN chunks[n], j \in DOMAIN chunks[m] :
            LET v == chunks[n][i].header
                w == chunks[m][j].header
            IN /\ v.height = w.height
               /\ view[n][v.height] \in FullViews /\ view[m][w.height] \in FullViews
               => v = w

LEMMA FullAgree ==
    ASSUME TypeOK, DecidedByQuorum, AgreementOfOverlappingViews,
           \A h \in Height, n \in Node : view[n][h] \in FullViews => Firm(view[n][h], h)
    PROVE  AgreementOfFull
<1> SUFFICES ASSUME NEW n \in Node, NEW m \in Node,
                    NEW i \in DOMAIN chunks[n], NEW j \in DOMAIN chunks[m],
                    chunks[n][i].header.height = chunks[m][j].header.height,
                    view[n][chunks[n][i].header.height] \in FullViews,
                    view[m][chunks[n][i].header.height] \in FullViews
             PROVE  chunks[n][i].header = chunks[m][j].header
  BY DEF AgreementOfFull
<1> DEFINE h == chunks[n][i].header.height
<1>1. h \in Height
  BY DEF DecidedByQuorum, Justified
<1>2. Firm(view[n][h], h) /\ Firm(view[m][h], h)
  BY <1>1
<1>3. QuorumsMeet(view[n][h], view[m][h])
  BY FullViewsMeet DEF FullViews
<1> QED
  BY <1>2, <1>3 DEF AgreementOfOverlappingViews

(* Two nodes that decided one height with at least three known validators  *)
(* each, as a node started by the third registration has, decided the same *)
(* chunk.                                                                  *)
AgreementOfStarted ==
    \A n, m \in Node :
        \A i \in DOMAIN chunks[n], j \in DOMAIN chunks[m] :
            LET v == chunks[n][i].header
                w == chunks[m][j].header
            IN /\ v.height = w.height
               /\ Cardinality(view[n][v.height]) >= StartPeers
               /\ Cardinality(view[m][w.height]) >= StartPeers
               => v = w

(* With at most five validators, the nodes that entered a height knowing   *)
(* at least three of them never decide different chunks for it.  With six  *)
(* the bound is needed: nodes that know disjoint threes may disagree.      *)
THEOREM StartedNodesAgree ==
    ASSUME Cardinality(Node) < 2 * StartPeers
    PROVE  Spec => []AgreementOfStarted
<1>1. ASSUME TypeOK, DecidedByQuorum, AgreementOfOverlappingViews PROVE AgreementOfStarted
  <2>1. AgreementOfFull
    BY <1>1, FewFirm, FullAgree
  <2> SUFFICES ASSUME NEW n \in Node, NEW m \in Node,
                      NEW i \in DOMAIN chunks[n], NEW j \in DOMAIN chunks[m],
                      chunks[n][i].header.height = chunks[m][j].header.height,
                      Cardinality(view[n][chunks[n][i].header.height]) >= StartPeers,
                      Cardinality(view[m][chunks[n][i].header.height]) >= StartPeers
               PROVE  chunks[n][i].header = chunks[m][j].header
    BY DEF AgreementOfStarted
  <2> DEFINE h == chunks[n][i].header.height
  <2>2. h \in Height
    BY <1>1 DEF DecidedByQuorum, Justified
  <2>3. view[n][h] \in SUBSET Node /\ view[m][h] \in SUBSET Node
    BY <1>1, <2>2 DEF TypeOK
  <2>4. view[n][h] \in FullViews /\ view[m][h] \in FullViews
    BY <2>3, ThreeAreFull
  <2> QED
    BY <2>1, <2>4 DEF AgreementOfFull
<1> QED
  BY <1>1, TypeCorrect, DecisionsJustified, OverlappingViewsAgree, PTL
=============================================================================
