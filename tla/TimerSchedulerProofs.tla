------------------------ MODULE TimerSchedulerProofs ------------------------
(***************************************************************************)
(* TLAPS proofs for TimerScheduler: the type invariant, and that a stale   *)
(* timeout is never taken and an active timer never lost, for every set of *)
(* rounds, every configuration and every number of timers.                 *)
(***************************************************************************)
EXTENDS TimerScheduler, TLAPS

(* Generations of active timers are unique, already handed out, and        *)
(* neither elapsed nor cancelled; a generation not handed out has no past. *)
GenerationsUnique ==
    \A j, k \in Key : Active(j) /\ timers[j] = timers[k] => j = k

ActiveIsFresh ==
    \A k \in Key : Active(k) => /\ timers[k] < nextGen
                                /\ timers[k] \notin cancelled
                                /\ elapsed[timers[k]] = 0

FutureIsBlank ==
    \A g \in Generation : g >= nextGen => g \notin cancelled /\ elapsed[g] = 0

IInv ==
    /\ TypeOK
    /\ GenerationsUnique
    /\ ActiveIsFresh
    /\ FutureIsBlank
    /\ NoStaleTimeout

(* The messages of one key and one generation are well formed.             *)
LEMMA TaskOfType ==
    ASSUME TypeOK, NEW k \in Key, Active(k)
    PROVE  /\ timers[k] \in Generation
           /\ TaskOf(k) \in TimeoutMsg
BY MaxGenerationNat DEF TypeOK, Active, TaskOf, TimeoutMsg, Generation

LEMMA AbortTasksType ==
    ASSUME TypeOK, NEW K, NEW new \in SUBSET TimeoutMsg, AbortTasks(K, new)
    PROVE  tasks' \subseteq TimeoutMsg
BY DEF TypeOK, AbortTasks

LEMMA RemovedType ==
    ASSUME TypeOK, NEW K \in SUBSET Key
    PROVE  {timers[j] : j \in Removed(K)} \subseteq Generation
BY TaskOfType DEF Removed

LEMMA TypeInit == Init => TypeOK
BY MaxGenerationNat, TimeoutsNat DEF Init, TypeOK

LEMMA TypeNext ==
    ASSUME TypeOK, [Next]_vars
    PROVE  TypeOK'
<1>1. ASSUME NEW k \in Key, StartTimer(k) PROVE TypeOK'
  <2>1. [key |-> k, generation |-> nextGen] \in TimeoutMsg
    BY <1>1 DEF StartTimer, TimeoutMsg
  <2>2. tasks' \subseteq TimeoutMsg
    BY <1>1, <2>1, AbortTasksType DEF StartTimer
  <2>3. cancelled' \subseteq Generation
    BY <1>1, RemovedType DEF StartTimer, TypeOK
  <2>4. timers' \in [Key -> 0..MaxGeneration] /\ nextGen' \in 1..(MaxGeneration + 1)
    BY <1>1, MaxGenerationNat DEF StartTimer, TypeOK, Generation
  <2> QED
    BY <1>1, <2>2, <2>3, <2>4 DEF StartTimer, TypeOK
<1>2. ASSUME NEW k \in Key, Cancel(k) PROVE TypeOK'
  <2>1. tasks' \subseteq TimeoutMsg
    BY <1>2, AbortTasksType DEF Cancel
  <2>2. cancelled' \subseteq Generation
    BY <1>2, RemovedType DEF Cancel, TypeOK
  <2>3. timers' \in [Key -> 0..MaxGeneration]
    BY <1>2, MaxGenerationNat DEF Cancel, TypeOK
  <2> QED
    BY <1>2, <2>1, <2>2, <2>3 DEF Cancel, TypeOK
<1>3. ASSUME CancelAll PROVE TypeOK'
  <2>1. tasks' \subseteq TimeoutMsg
    BY <1>3, AbortTasksType DEF CancelAll
  <2>2. cancelled' \subseteq Generation
    BY <1>3, RemovedType DEF CancelAll, TypeOK
  <2>3. timers' \in [Key -> 0..MaxGeneration]
    BY <1>3, MaxGenerationNat DEF CancelAll, TypeOK
  <2> QED
    BY <1>3, <2>1, <2>2, <2>3 DEF CancelAll, TypeOK
<1>4. ASSUME NEW t \in tasks, TaskFires(t) PROVE TypeOK'
  BY <1>4 DEF TaskFires, TypeOK
<1>5. ASSUME TimeoutElapsed PROVE TypeOK'
  <2>1. Head(mailbox) \in TimeoutMsg /\ mailbox' \in Seq(TimeoutMsg)
    BY <1>5 DEF TimeoutElapsed, TypeOK
  <2>2. CASE Intercepts(Head(mailbox))
    <3>1. timers' \in [Key -> 0..MaxGeneration]
      BY <1>5, <2>1, <2>2, MaxGenerationNat DEF TimeoutElapsed, TypeOK, TimeoutMsg
    <3>2. elapsed' \in [Generation -> Nat]
      BY <1>5, <2>1, <2>2 DEF TimeoutElapsed, TypeOK, TimeoutMsg
    <3>3. durations' \in [Step -> Nat]
      <4>1. durations' = Increased(Head(mailbox).key[2])
        BY <1>5, <2>2 DEF TimeoutElapsed
      <4>2. Head(mailbox).key[2] \in Step
        BY <2>1 DEF TimeoutMsg, Key
      <4> QED
        BY <4>1, <4>2, TimeoutsNat DEF Increased, TypeOK
    <3> QED
      BY <1>5, <2>1, <3>1, <3>2, <3>3 DEF TimeoutElapsed, TypeOK
  <2>3. CASE ~Intercepts(Head(mailbox))
    BY <1>5, <2>1, <2>3 DEF TimeoutElapsed, TypeOK
  <2> QED
    BY <2>2, <2>3
<1>6. ASSUME ResetTimeouts PROVE TypeOK'
  BY <1>6, TimeoutsNat DEF ResetTimeouts, TypeOK
<1>7. CASE UNCHANGED vars
  BY <1>7 DEF vars, TypeOK
<1> QED
  BY <1>1, <1>2, <1>3, <1>4, <1>5, <1>6, <1>7 DEF Next

(* Type correctness of the scheduler and of the timeout handler.           *)
THEOREM TypeCorrect == Spec => []TypeOK
<1>1. Init => TypeOK
  BY TypeInit
<1>2. TypeOK /\ [Next]_vars => TypeOK'
  BY TypeNext
<1> QED
  BY <1>1, <1>2, PTL DEF Spec

-----------------------------------------------------------------------------
LEMMA InvInit == Init => IInv
BY TypeInit, MaxGenerationNat
   DEF Init, IInv, GenerationsUnique, ActiveIsFresh, FutureIsBlank,
       NoStaleTimeout, Active, Generation

(* Removing entries of the map and recording their generations as          *)
(* cancelled: what cancel, cancel_all and the first half of start_timer do.*)
LEMMA RemovalKeepsNoStale ==
    ASSUME IInv, NEW K \in SUBSET Key,
           cancelled' = cancelled \cup {timers[j] : j \in Removed(K)},
           elapsed' = elapsed
    PROVE  /\ NoStaleTimeout'
           /\ \A g \in Generation : g >= nextGen => g \notin cancelled'
           /\ \A k \in Key \ K : Active(k) => timers[k] \notin cancelled'
<1>1. ASSUME NEW g \in cancelled', g \notin cancelled
      PROVE  \E j \in K : Active(j) /\ timers[j] = g
  BY <1>1 DEF Removed
<1>2. NoStaleTimeout'
  BY <1>1 DEF IInv, TypeOK, NoStaleTimeout, ActiveIsFresh
<1>3. ASSUME NEW g \in Generation, g >= nextGen
      PROVE  g \notin cancelled'
  BY <1>1, <1>3, MaxGenerationNat
     DEF IInv, TypeOK, FutureIsBlank, ActiveIsFresh, Generation
<1>4. ASSUME NEW k \in Key \ K, Active(k)
      PROVE  timers[k] \notin cancelled'
  BY <1>1, <1>4 DEF IInv, GenerationsUnique, ActiveIsFresh
<1> QED
  BY <1>2, <1>3, <1>4

LEMMA InvNext ==
    ASSUME IInv, [Next]_vars
    PROVE  IInv'
<1>0. TypeOK'
  BY TypeNext DEF IInv
<1>1. ASSUME NEW k \in Key, StartTimer(k) PROVE IInv'
  <2>1. /\ NoStaleTimeout'
        /\ \A g \in Generation : g >= nextGen => g \notin cancelled'
        /\ \A j \in Key \ {k} : Active(j) => timers[j] \notin cancelled'
    BY <1>1, RemovalKeepsNoStale DEF StartTimer
  <2>2. /\ timers' = [timers EXCEPT ![k] = nextGen]
        /\ nextGen' = nextGen + 1 /\ nextGen \in Generation /\ elapsed' = elapsed
    BY <1>1 DEF StartTimer
  <2>3. GenerationsUnique'
    BY <2>2, MaxGenerationNat
       DEF IInv, TypeOK, GenerationsUnique, ActiveIsFresh, Active, Generation
  <2>4. ActiveIsFresh'
    BY <2>1, <2>2, MaxGenerationNat
       DEF IInv, TypeOK, ActiveIsFresh, FutureIsBlank, Active, Generation
  <2>5. FutureIsBlank'
    BY <2>1, <2>2, MaxGenerationNat DEF IInv, TypeOK, FutureIsBlank, Generation
  <2> QED
    BY <1>0, <2>1, <2>3, <2>4, <2>5 DEF IInv
<1>2. ASSUME NEW k \in Key, Cancel(k) PROVE IInv'
  <2>1. /\ NoStaleTimeout'
        /\ \A g \in Generation : g >= nextGen => g \notin cancelled'
        /\ \A j \in Key \ {k} : Active(j) => timers[j] \notin cancelled'
    BY <1>2, RemovalKeepsNoStale DEF Cancel
  <2>2. /\ timers' = [timers EXCEPT ![k] = 0]
        /\ nextGen' = nextGen /\ elapsed' = elapsed
    BY <1>2 DEF Cancel
  <2>3. GenerationsUnique'
    BY <2>2 DEF IInv, TypeOK, GenerationsUnique, Active
  <2>4. ActiveIsFresh'
    BY <2>1, <2>2 DEF IInv, TypeOK, ActiveIsFresh, Active
  <2>5. FutureIsBlank'
    BY <2>1, <2>2 DEF IInv, FutureIsBlank
  <2> QED
    BY <1>0, <2>1, <2>3, <2>4, <2>5 DEF IInv
<1>3. ASSUME CancelAll PROVE IInv'
  <2>1. /\ NoStaleTimeout'
        /\ \A g \in Generation : g >= nextGen => g \notin cancelled'
    BY <1>3, RemovalKeepsNoStale DEF CancelAll
  <2>2. timers' = [j \in Key |-> 0] /\ nextGen' = nextGen /\ elapsed' = elapsed
    BY <1>3 DEF CancelAll
  <2> QED
    BY <1>0, <2>1, <2>2
       DEF IInv, GenerationsUnique, ActiveIsFresh, FutureIsBlank, Active
<1>4. ASSUME NEW t \in tasks, TaskFires(t) PROVE IInv'
  BY <1>0, <1>4
     DEF TaskFires, IInv, GenerationsUnique, ActiveIsFresh, FutureIsBlank,
         NoStaleTimeout, Active
<1>5. ASSUME TimeoutElapsed PROVE IInv'
  <2> DEFINE m == Head(mailbox)
  <2>1. m \in TimeoutMsg
    BY <1>5 DEF TimeoutElapsed, IInv, TypeOK
  <2>2. CASE Intercepts(m)
    <3>1. /\ m.key \in Key /\ m.generation \in Generation
          /\ timers[m.key] = m.generation /\ Active(m.key)
      BY <2>1, <2>2, MaxGenerationNat DEF TimeoutMsg, Intercepts, Active, Generation
    <3>2. /\ timers' = [timers EXCEPT ![m.key] = 0]
          /\ elapsed' = [elapsed EXCEPT ![m.generation] = @ + 1]
          /\ nextGen' = nextGen /\ cancelled' = cancelled
      BY <1>5, <2>2 DEF TimeoutElapsed
    <3>3. elapsed[m.generation] = 0 /\ m.generation \notin cancelled
          /\ m.generation < nextGen
      BY <3>1 DEF IInv, ActiveIsFresh
    <3> HIDE DEF m
    <3>4. NoStaleTimeout'
      BY <3>1, <3>2, <3>3 DEF IInv, TypeOK, NoStaleTimeout
    <3>5. GenerationsUnique'
      BY <3>1, <3>2 DEF IInv, TypeOK, GenerationsUnique, Active
    <3>6. ActiveIsFresh'
      <4> SUFFICES ASSUME NEW k \in Key, Active(k)'
                   PROVE  /\ timers'[k] < nextGen'
                          /\ timers'[k] \notin cancelled'
                          /\ elapsed'[timers'[k]] = 0
        BY DEF ActiveIsFresh
      <4>1. k # m.key /\ timers'[k] = timers[k] /\ Active(k)
        BY <3>1, <3>2 DEF IInv, TypeOK, Active
      <4>2. timers[k] # m.generation
        BY <3>1, <4>1 DEF IInv, GenerationsUnique
      <4>3. timers[k] \in Generation
        BY <4>1, TaskOfType DEF IInv
      <4> QED
        BY <3>2, <4>1, <4>2, <4>3 DEF IInv, TypeOK, ActiveIsFresh
    <3>7. FutureIsBlank'
      BY <3>2, <3>3, MaxGenerationNat DEF IInv, TypeOK, FutureIsBlank, Generation
    <3> QED
      BY <1>0, <3>4, <3>5, <3>6, <3>7 DEF IInv
  <2>3. CASE ~Intercepts(m)
    BY <1>0, <1>5, <2>3
       DEF TimeoutElapsed, IInv, GenerationsUnique, ActiveIsFresh, FutureIsBlank,
           NoStaleTimeout, Active
  <2> QED
    BY <2>2, <2>3
<1>6. ASSUME ResetTimeouts PROVE IInv'
  BY <1>0, <1>6
     DEF ResetTimeouts, IInv, GenerationsUnique, ActiveIsFresh, FutureIsBlank,
         NoStaleTimeout, Active
<1>7. CASE UNCHANGED vars
  BY <1>0, <1>7
     DEF vars, IInv, GenerationsUnique, ActiveIsFresh, FutureIsBlank,
         NoStaleTimeout, Active
<1> QED
  BY <1>1, <1>2, <1>3, <1>4, <1>5, <1>6, <1>7 DEF Next

(* No timeout is taken twice or after its timer was removed, whatever      *)
(* messages are still in the mailbox: intercept_timer_msg suffices.        *)
THEOREM StaleTimeoutsDiscarded == Spec => []NoStaleTimeout
<1>1. Init => IInv
  BY InvInit
<1>2. IInv /\ [Next]_vars => IInv'
  BY InvNext
<1>3. IInv => NoStaleTimeout
  BY DEF IInv
<1> QED
  BY <1>1, <1>2, <1>3, PTL DEF Spec

-----------------------------------------------------------------------------
(* Aborting touches only the tasks of the removed keys.                    *)
LEMMA AbortKeepsOthers ==
    ASSUME NEW K \in SUBSET Key, NEW new, AbortTasks(K, new),
           NEW k \in Key \ K, TaskOf(k) \in tasks
    PROVE  TaskOf(k) \in tasks'
BY DEF AbortTasks, Removed, TaskOf

LEMMA RangeOfAppend ==
    ASSUME NEW s \in Seq(TimeoutMsg), NEW t \in TimeoutMsg
    PROVE  Range(Append(s, t)) = Range(s) \cup {t}
<1>1. /\ Len(Append(s, t)) = Len(s) + 1
      /\ \A i \in 1..Len(s) : Append(s, t)[i] = s[i]
      /\ Append(s, t)[Len(s) + 1] = t
      /\ DOMAIN Append(s, t) = 1..(Len(s) + 1)
      /\ DOMAIN s = 1..Len(s)
      /\ Len(s) \in Nat
  OBVIOUS
<1> QED
  BY <1>1 DEF Range

LEMMA RangeOfTail ==
    ASSUME NEW s \in Seq(TimeoutMsg), s # <<>>, NEW t \in Range(s), t # Head(s)
    PROVE  t \in Range(Tail(s))
<1>1. PICK i \in 1..Len(s) : s[i] = t
  BY DEF Range
<1>2. i # 1 /\ Len(Tail(s)) = Len(s) - 1 /\ DOMAIN Tail(s) = 1..(Len(s) - 1)
  BY <1>1
<1>3. Tail(s)[i - 1] = t /\ i - 1 \in 1..(Len(s) - 1)
  BY <1>1, <1>2
<1> QED
  BY <1>2, <1>3 DEF Range

LEMMA DeliveryNext ==
    ASSUME TypeOK, ActiveTimerHasDelivery, [Next]_vars
    PROVE  ActiveTimerHasDelivery'
<1> SUFFICES ASSUME NEW k \in Key, Active(k)'
             PROVE  TaskOf(k)' \in tasks' \cup Range(mailbox')
  BY DEF ActiveTimerHasDelivery
<1>1. ASSUME NEW j \in Key, StartTimer(j)
      PROVE  TaskOf(k)' \in tasks' \cup Range(mailbox')
  <2>1. CASE k = j
    BY <1>1, <2>1 DEF StartTimer, AbortTasks, TaskOf, TypeOK
  <2>2. CASE k # j
    <3>1. TaskOf(k)' = TaskOf(k) /\ Active(k) /\ mailbox' = mailbox
      BY <1>1, <2>2 DEF StartTimer, TaskOf, Active, TypeOK
    <3>2. TaskOf(k) \in tasks => TaskOf(k) \in tasks'
      BY <1>1, <2>2, AbortKeepsOthers DEF StartTimer
    <3> QED
      BY <3>1, <3>2 DEF ActiveTimerHasDelivery
  <2> QED
    BY <2>1, <2>2
<1>2. ASSUME NEW j \in Key, Cancel(j)
      PROVE  TaskOf(k)' \in tasks' \cup Range(mailbox')
  <2>1. k # j /\ TaskOf(k)' = TaskOf(k) /\ Active(k) /\ mailbox' = mailbox
    BY <1>2 DEF Cancel, TaskOf, Active, TypeOK
  <2>2. TaskOf(k) \in tasks => TaskOf(k) \in tasks'
    BY <1>2, <2>1, AbortKeepsOthers DEF Cancel
  <2> QED
    BY <2>1, <2>2 DEF ActiveTimerHasDelivery
<1>3. ASSUME CancelAll
      PROVE  TaskOf(k)' \in tasks' \cup Range(mailbox')
  BY <1>3 DEF CancelAll, Active
<1>4. ASSUME NEW t \in tasks, TaskFires(t)
      PROVE  TaskOf(k)' \in tasks' \cup Range(mailbox')
  <2>1. TaskOf(k)' = TaskOf(k) /\ Active(k)
    BY <1>4 DEF TaskFires, TaskOf, Active
  <2>2. Range(mailbox') = Range(mailbox) \cup {t}
    BY <1>4, RangeOfAppend DEF TaskFires, TypeOK
  <2> QED
    BY <1>4, <2>1, <2>2 DEF TaskFires, ActiveTimerHasDelivery
<1>5. ASSUME TimeoutElapsed
      PROVE  TaskOf(k)' \in tasks' \cup Range(mailbox')
  <2>1. Head(mailbox) \in TimeoutMsg
    BY <1>5 DEF TimeoutElapsed, TypeOK
  <2>2. TaskOf(k)' = TaskOf(k) /\ Active(k)
    BY <1>5, <2>1 DEF TimeoutElapsed, TaskOf, Active, TypeOK, TimeoutMsg
  <2>3. TaskOf(k) # Head(mailbox)
    <3>1. CASE Intercepts(Head(mailbox))
      <4>1. k # Head(mailbox).key
        BY <1>5, <2>1, <3>1 DEF TimeoutElapsed, Active, TypeOK, TimeoutMsg
      <4> QED
        BY <4>1 DEF TaskOf
    <3>2. CASE ~Intercepts(Head(mailbox))
      BY <3>2 DEF Intercepts, TaskOf
    <3> QED
      BY <3>1, <3>2
  <2>4. TaskOf(k) \in Range(mailbox) => TaskOf(k) \in Range(mailbox')
    BY <1>5, <2>3, RangeOfTail DEF TimeoutElapsed, TypeOK
  <2> QED
    BY <1>5, <2>2, <2>4 DEF TimeoutElapsed, ActiveTimerHasDelivery
<1>6. CASE ResetTimeouts
  BY <1>6 DEF ResetTimeouts, ActiveTimerHasDelivery, TaskOf, Active
<1>7. CASE UNCHANGED vars
  BY <1>7 DEF vars, ActiveTimerHasDelivery, TaskOf, Active
<1> QED
  BY <1>1, <1>2, <1>3, <1>4, <1>5, <1>6, <1>7 DEF Next

(* No active timer is lost: its own task or message is still to come       *)
(* (start_timer, cancel, cancel_all and intercept_timer_msg together).     *)
THEOREM NoTimerLost == Spec => []ActiveTimerHasDelivery
<1>1. Init => ActiveTimerHasDelivery
  BY DEF Init, ActiveTimerHasDelivery, Active
<1>2. TypeOK /\ ActiveTimerHasDelivery /\ [Next]_vars => ActiveTimerHasDelivery'
  BY DeliveryNext
<1> QED
  BY <1>1, <1>2, TypeCorrect, PTL DEF Spec

-----------------------------------------------------------------------------
(* Durations never fall below the configured ones, so that a reset does    *)
(* not lengthen a timeout.                                                 *)
NeverShorter == \A s \in Step : durations[s] >= TimeoutBase[s]

LEMMA DurationsNext ==
    ASSUME TypeOK, NeverShorter, [Next]_vars
    PROVE  /\ NeverShorter'
           /\ \A s \in Step :
                durations'[s] > durations[s] =>
                   \E k \in Key : /\ k[2] = s
                                  /\ Active(k) /\ timers'[k] = 0
                                  /\ elapsed'[timers[k]] = elapsed[timers[k]] + 1
<1>1. CASE UNCHANGED durations
  BY <1>1 DEF TypeOK, NeverShorter
<1>2. CASE ResetTimeouts
  BY <1>2, TimeoutsNat DEF ResetTimeouts, TypeOK, NeverShorter
<1>3. CASE TimeoutElapsed /\ Intercepts(Head(mailbox))
  <2> DEFINE m == Head(mailbox)
  <2>1. m \in TimeoutMsg
    BY <1>3 DEF TimeoutElapsed, TypeOK
  <2>2. /\ m.key \in Key /\ m.key[2] \in Step /\ m.generation \in Generation
        /\ timers[m.key] = m.generation /\ Active(m.key)
    BY <1>3, <2>1, MaxGenerationNat DEF TimeoutMsg, Key, Intercepts, Active, Generation
  <2>3. /\ timers' = [timers EXCEPT ![m.key] = 0]
        /\ elapsed' = [elapsed EXCEPT ![m.generation] = @ + 1]
        /\ durations' = Increased(m.key[2])
    BY <1>3 DEF TimeoutElapsed
  <2> HIDE DEF m
  <2>4. /\ \A s \in Step : durations'[s] >= durations[s] /\ durations'[s] \in Nat
        /\ \A s \in Step : durations'[s] > durations[s] => s = m.key[2]
    BY <2>2, <2>3, TimeoutsNat DEF Increased, TypeOK
  <2>5. NeverShorter'
    BY <2>4, TimeoutsNat DEF NeverShorter, TypeOK
  <2>6. timers'[m.key] = 0 /\ elapsed'[timers[m.key]] = elapsed[timers[m.key]] + 1
    BY <2>2, <2>3 DEF TypeOK
  <2> QED
    BY <2>2, <2>4, <2>5, <2>6
<1>4. UNCHANGED durations \/ ResetTimeouts \/ (TimeoutElapsed /\ Intercepts(Head(mailbox)))
  BY DEF Next, StartTimer, Cancel, CancelAll, TaskFires, TimeoutElapsed, vars
<1> QED
  BY <1>1, <1>2, <1>3, <1>4

(* Timeouts grow only when a live timer of that very step elapses: the     *)
(* message of a cancelled or replaced timer lengthens nothing, and neither *)
(* does a reset (TimeoutElapsed, increase_timeout, ResetTimeouts).         *)
THEOREM OnlyLiveTimeoutsBackOff == Spec => BackoffOnlyOnLiveTimeout
<1>1. Init => NeverShorter
  BY TimeoutsNat DEF Init, NeverShorter
<1>2. TypeOK /\ NeverShorter /\ [Next]_vars => NeverShorter'
  BY DurationsNext
<1>3. TypeOK /\ NeverShorter /\ [Next]_vars =>
        [\A s \in Step :
           durations'[s] > durations[s] =>
              \E k \in Key : /\ k[2] = s
                             /\ Active(k) /\ timers'[k] = 0
                             /\ elapsed'[timers[k]] = elapsed[timers[k]] + 1]_vars
  BY DurationsNext
<1> QED
  BY <1>1, <1>2, <1>3, TypeCorrect, PTL DEF Spec, BackoffOnlyOnLiveTimeout
=============================================================================
