----------------------------- MODULE EventLoops -----------------------------
(***************************************************************************)
(* The two event loops of a node and the channels between them.  The       *)
(* gossip loop (SnapchainGossip::start in network/gossip.rs) hands what it *)
(* receives to the main loop (main.rs) through system_tx; the main loop    *)
(* passes it on to the consensus actors, whose mailboxes are unbounded.    *)
(* The actors and the main loop's own registrations go out through         *)
(* gossip_tx, which the gossip loop drains.  Each loop waits inside its    *)
(* handler when the channel it sends to is full, and does nothing else.    *)
(***************************************************************************)
EXTENDS Naturals

CONSTANTS
    Actor,        \* the consensus actors; main registers for each of them
    SystemSize,   \* capacity of system_tx (100)
    GossipSize    \* capacity of gossip_tx (100)

VARIABLES
    systemQ,    \* Nat        received messages on their way to main
    gossipQ,    \* Nat        events on their way to the gossip loop
    gossip,     \* "select", or "sending" into system_tx
    main,       \* "select", "stopped", or "registering"
    toRegister, \* SUBSET Actor   registrations main has still to send
    actor       \* [Actor -> {"ready", "sending"}]

vars == <<systemQ, gossipQ, gossip, main, toRegister, actor>>

Init ==
    /\ systemQ = 0 /\ gossipQ = 0
    /\ gossip = "select" /\ main = "select"
    /\ toRegister = {}
    /\ actor = [a \in Actor |-> "ready"]

GossipHasRoom == gossipQ < GossipSize

-----------------------------------------------------------------------------
(* The gossip loop *)

(* A vote, a proposal, a full proposal or a registration is received and   *)
(* decoded; what does not decode, and the swarm's other events, are only   *)
(* logged.                                                                 *)
Receive ==
    /\ gossip = "select"
    /\ gossip' = "sending"
    /\ UNCHANGED <<systemQ, gossipQ, main, toRegister, actor>>

(* system_tx.send(..).await                                                *)
Forward ==
    /\ gossip = "sending"
    /\ systemQ < SystemSize
    /\ systemQ' = systemQ + 1
    /\ gossip' = "select"
    /\ UNCHANGED <<gossipQ, main, toRegister, actor>>

(* rx.recv(): an event is encoded and published.                           *)
Publish ==
    /\ gossip = "select"
    /\ gossipQ > 0
    /\ gossipQ' = gossipQ - 1
    /\ UNCHANGED <<systemQ, gossip, main, toRegister, actor>>

-----------------------------------------------------------------------------
(* The main loop *)

(* Every fifth tick of the block interval: a registration per shard and    *)
(* one for the block shard.                                                *)
Tick ==
    /\ main = "select"
    /\ main' = "registering"
    /\ toRegister' = Actor
    /\ UNCHANGED <<systemQ, gossipQ, gossip, actor>>

(* gossip_tx.send(RegisterValidator).await, in a loop.                     *)
SendRegistration ==
    /\ main = "registering"
    /\ GossipHasRoom
    /\ \E a \in toRegister :
         /\ toRegister' = toRegister \ {a}
         /\ main' = IF toRegister' = {} THEN "select" ELSE main
    /\ gossipQ' = gossipQ + 1
    /\ UNCHANGED <<systemQ, gossip, actor>>

(* node.dispatch: a cast to the actor's mailbox, which never waits.        *)
Dispatch ==
    /\ main = "select"
    /\ systemQ > 0
    /\ systemQ' = systemQ - 1
    /\ UNCHANGED <<gossipQ, gossip, main, toRegister, actor>>

(* Ctrl-C, or the RPC server has ended: the actors are stopped and main    *)
(* returns.                                                                *)
Shutdown ==
    /\ main = "select"
    /\ main' = "stopped"
    /\ UNCHANGED <<systemQ, gossipQ, gossip, toRegister, actor>>

-----------------------------------------------------------------------------
(* The consensus actors *)

(* A message of the mailbox or a timeout makes an actor vote or propose.   *)
Act(a) ==
    /\ main # "stopped"
    /\ actor[a] = "ready"
    /\ actor' = [actor EXCEPT ![a] = "sending"]
    /\ UNCHANGED <<systemQ, gossipQ, gossip, main, toRegister>>

(* gossip_tx.send(..).await in Effect::Broadcast and Effect::GetValue.     *)
Broadcast(a) ==
    /\ actor[a] = "sending"
    /\ GossipHasRoom
    /\ gossipQ' = gossipQ + 1
    /\ actor' = [actor EXCEPT ![a] = "ready"]
    /\ UNCHANGED <<systemQ, gossip, main, toRegister>>

Next ==
    \/ Receive \/ Forward \/ Publish
    \/ Tick \/ SendRegistration \/ Dispatch \/ Shutdown
    \/ \E a \in Actor : Act(a) \/ Broadcast(a)

(* select! polls its ready branches in random order, so none is passed     *)
(* over for ever; a tokio channel serves waiting senders in order; a       *)
(* handler that may go on does.                                            *)
Fairness ==
    /\ WF_vars(Forward)
    /\ SF_vars(Publish)
    /\ SF_vars(SendRegistration)
    /\ SF_vars(Dispatch)
    /\ \A a \in Actor : SF_vars(Broadcast(a))

Spec == Init /\ [][Next]_vars /\ Fairness

-----------------------------------------------------------------------------
(* The registrations of a tick go out, and main returns to its other       *)
(* events: main and the gossip loop never wait for each other for ever.    *)
RegistrationGoesOut == main = "registering" ~> main # "registering"
=============================================================================
