--------------------------- MODULE TimerScheduler ---------------------------
(***************************************************************************)
(* The timers of one consensus actor: src/consensus/timers.rs (the         *)
(* generation-checked scheduler) with the timeout durations and the        *)
(* TimeoutElapsed handler of src/consensus/consensus.rs.                    *)
(*                                                                         *)
(* A timer is a key (round, step), a generation and a tokio task that      *)
(* sleeps and then casts TimeoutElapsed{key, generation} to the actor.     *)
(* Cancelling aborts the task, but the message may already be in the       *)
(* mailbox, or the task may already be past its sleep: abort() does not    *)
(* wait for it.  The generation check is what keeps such a message from    *)
(* being taken for the timeout of a later timer with the same key.         *)
(***************************************************************************)
EXTENDS Integers, Sequences, SequencesExt

CONSTANTS
    Round,          \* the rounds timers are started for
    MaxGeneration,  \* bound: number of timers ever started
    TimeoutBase,    \* [Step -> Nat], the configured durations
    TimeoutDelta    \* [Step -> Nat], the configured increments

Step == {"Propose", "Prevote", "Precommit", "Commit"}
Key  == Round \X Step
Generation == 1..MaxGeneration
TimeoutMsg == [key : Key, generation : Generation]

ASSUME MaxGenerationNat == MaxGeneration \in Nat
ASSUME TimeoutsNat == /\ TimeoutBase \in [Step -> Nat]
                      /\ TimeoutDelta \in [Step -> Nat]

VARIABLES
    timers,     \* [Key -> generation], 0 where the map has no entry
    tasks,      \* sleeping tasks that may still cast their message
    mailbox,    \* TimeoutElapsed messages not yet handled
    nextGen,    \* what generations.next() returns
    durations,  \* the current TimeoutConfig
    elapsed,    \* history: how often each generation was taken as a timeout
    cancelled   \* history: generations removed by a cancel

vars == <<timers, tasks, mailbox, nextGen, durations, elapsed, cancelled>>

Active(k) == timers[k] # 0
TaskOf(k) == [key |-> k, generation |-> timers[k]]

Init ==
    /\ timers = [k \in Key |-> 0]
    /\ tasks = {}
    /\ mailbox = <<>>
    /\ nextGen = 1
    /\ durations = TimeoutBase
    /\ elapsed = [g \in Generation |-> 0]
    /\ cancelled = {}

(* Removing the entries of K aborts their tasks; a task already past its   *)
(* sleep still casts, so any subset of them may survive the abort.         *)
Removed(K) == {k \in K : Active(k)}
AbortTasks(K, new) ==
    \E survivors \in SUBSET Removed(K) :
        tasks' = (tasks \ {TaskOf(k) : k \in Removed(K) \ survivors}) \cup new

(* start_timer: cancel the key's timer, take a generation, spawn a task.   *)
StartTimer(k) ==
    /\ nextGen \in Generation
    /\ AbortTasks({k}, {[key |-> k, generation |-> nextGen]})
    /\ timers' = [timers EXCEPT ![k] = nextGen]
    /\ nextGen' = nextGen + 1
    /\ cancelled' = cancelled \cup {timers[j] : j \in Removed({k})}
    /\ UNCHANGED <<mailbox, durations, elapsed>>

Cancel(k) ==
    /\ AbortTasks({k}, {})
    /\ timers' = [timers EXCEPT ![k] = 0]
    /\ cancelled' = cancelled \cup {timers[j] : j \in Removed({k})}
    /\ UNCHANGED <<mailbox, nextGen, durations, elapsed>>

\* mutant: the tasks are aborted but the map is not drained
CancelAll_KeepsEntries ==
    /\ AbortTasks(Key, {})
    /\ cancelled' = cancelled \cup {timers[j] : j \in Removed(Key)}
    /\ UNCHANGED <<timers, mailbox, nextGen, durations, elapsed>>

CancelAll ==
    /\ AbortTasks(Key, {})
    /\ timers' = [k \in Key |-> 0]
    /\ cancelled' = cancelled \cup {timers[j] : j \in Removed(Key)}
    /\ UNCHANGED <<mailbox, nextGen, durations, elapsed>>

(* ractor's send_after: the sleep ends and the message enters the mailbox. *)
TaskFires(t) ==
    /\ t \in tasks
    /\ tasks' = tasks \ {t}
    /\ mailbox' = Append(mailbox, t)
    /\ UNCHANGED <<timers, nextGen, durations, elapsed, cancelled>>

\* mutant: the generation is not compared
Intercepts_NoGeneration(m) == timers[m.key] # 0

(* intercept_timer_msg returns Some(key): the entry is there and has the   *)
(* message's generation.                                                   *)
Intercepts(m) == timers[m.key] = m.generation

\* mutant: the increment is subtracted
Increased_Subtracts(s) ==
    IF s = "Commit" THEN durations
    ELSE [durations EXCEPT ![s] = @ - TimeoutDelta[s]]

Increased(s) ==
    IF s = "Commit" THEN durations
    ELSE [durations EXCEPT ![s] = @ + TimeoutDelta[s]]

\* mutant: the timeout is lengthened before the message is intercepted
TimeoutElapsed_IncreaseFirst ==
    /\ mailbox # <<>>
    /\ mailbox' = Tail(mailbox)
    /\ LET m == Head(mailbox) IN
         /\ durations' = Increased(m.key[2])
         /\ \/ /\ Intercepts(m)
               /\ timers' = [timers EXCEPT ![m.key] = 0]
               /\ elapsed' = [elapsed EXCEPT ![m.generation] = @ + 1]
            \/ /\ ~Intercepts(m)
               /\ UNCHANGED <<timers, elapsed>>
    /\ UNCHANGED <<tasks, nextGen, cancelled>>

(* The handler of TimeoutElapsed: discard a stale message, otherwise       *)
(* remove the timer and lengthen the step's timeout.                       *)
TimeoutElapsed ==
    /\ mailbox # <<>>
    /\ mailbox' = Tail(mailbox)
    /\ LET m == Head(mailbox) IN
         \/ /\ Intercepts(m)
            /\ timers' = [timers EXCEPT ![m.key] = 0]
            /\ elapsed' = [elapsed EXCEPT ![m.generation] = @ + 1]
            /\ durations' = Increased(m.key[2])
         \/ /\ ~Intercepts(m)
            /\ UNCHANGED <<timers, elapsed, durations>>
    /\ UNCHANGED <<tasks, nextGen, cancelled>>

(* Effect::ResetTimeouts.                                                  *)
ResetTimeouts ==
    /\ durations' = TimeoutBase
    /\ UNCHANGED <<timers, tasks, mailbox, nextGen, elapsed, cancelled>>

Next ==
    \/ \E k \in Key : StartTimer(k) \/ Cancel(k)
    \/ CancelAll
    \/ \E t \in tasks : TaskFires(t)
    \/ TimeoutElapsed
    \/ ResetTimeouts

(* tokio runs every spawned task to completion and ractor drains the       *)
(* mailbox, so neither a sleeping task nor a queued message waits forever. *)
Fairness ==
    /\ \A k \in Key, g \in Generation :
         WF_vars(TaskFires([key |-> k, generation |-> g]))
    /\ WF_vars(TimeoutElapsed)

Spec == Init /\ [][Next]_vars
FairSpec == Spec /\ Fairness

-----------------------------------------------------------------------------
(* Type invariant: shapes of the maps, tasks and messages of timers.rs.    *)
TypeOK ==
    /\ timers \in [Key -> 0..MaxGeneration]
    /\ tasks \subseteq TimeoutMsg
    /\ mailbox \in Seq(TimeoutMsg)
    /\ nextGen \in 1..(MaxGeneration + 1)
    /\ durations \in [Step -> Nat]
    /\ elapsed \in [Generation -> Nat]
    /\ cancelled \subseteq Generation

(* A timer is taken as elapsed at most once, and never after a cancel, a   *)
(* cancel_all or a restart with its key removed it, however late its       *)
(* message arrives (intercept_timer_msg).                                  *)
NoStaleTimeout ==
    \A g \in Generation :
        /\ elapsed[g] <= 1
        /\ g \in cancelled => elapsed[g] = 0

(* No timer is silently lost: an active timer has its task still sleeping  *)
(* or its own message still in the mailbox, whatever was cancelled,        *)
(* restarted or discarded around it.                                       *)
ActiveTimerHasDelivery ==
    \A k \in Key : Active(k) => TaskOf(k) \in tasks \cup Range(mailbox)

(* Timeouts grow only when a live timer of that very step elapses: a       *)
(* message of a cancelled or replaced timer lengthens nothing.             *)
BackoffOnlyOnLiveTimeout ==
    [][\A s \in Step :
         durations'[s] > durations[s] =>
            \E k \in Key : /\ k[2] = s
                           /\ Active(k) /\ timers'[k] = 0
                           /\ elapsed'[timers[k]] = elapsed[timers[k]] + 1]_vars

(* Every timer that is started elapses or is cancelled: a lost timeout     *)
(* would leave the consensus round waiting for ever.                       *)
EveryTimerEnds ==
    \A g \in Generation :
        (nextGen > g) ~> (elapsed[g] = 1 \/ g \in cancelled)
=============================================================================
