------------------------------ MODULE Delivery ------------------------------
(***************************************************************************)
(* The way of a block of a task: from SendToExecution through the          *)
(* publisher's channel and a broker's queue to the callback of a worker,   *)
(* which computes it and acknowledges it afterwards.                       *)
(*                                                                         *)
(* How nodes get into the pool is in Cluster, how a connection comes and   *)
(* goes in AmqpService; here connect_node and connect_publisher succeed in *)
(* one step, and connections break, workers die and somebody uses the      *)
(* broker's REST interface (RabbitMQRestService) at any moment.            *)
(***************************************************************************)
EXTENDS Integers, FiniteSets, Sequences, SequencesExt

CONSTANTS Workers,      \* also the names of their queues
          Brokers, NoBroker,
          Blocks,
          Bad,          \* blocks whose arguments name no generator: they end the process of a
                        \* worker that has none from an earlier block, see CompNode
          NoBlock,
          MaxFaults,    \* bound: broken connections, ended processes, disconnected nodes;
                        \* at least one is counted, so that faults = 0 means none
          MaxMeddling   \* bound: uses of the REST interface

ASSUME DeliveryAssumption ==
  /\ NoBroker \notin Brokers /\ NoBlock \notin Blocks /\ Bad \subseteq Blocks
  /\ MaxFaults \in Nat \ {0} /\ MaxMeddling \in Nat

VARIABLES
  \* the main node
  active,     \* keys of the map ACTIVE
  publisher,  \* the broker it is connected to
  channel,    \* "open", "closed" by the broker, which IsConnected does not tell, or
              \* "lost" with its connection: another Connect ends the process, see Cluster
  wire,       \* <<block, routing key>>: published, not yet read by the broker
  unsent,     \* blocks no task has been cut into yet
  \* the brokers
  exchanges, queues, bindings, ready,
  \* the workers, and each session's unacknowledged blocks as the broker sees them
  alive, consumer, session, inbox, current, unacked,
  warm,       \* the threads of the session have their generators
  \* history
  computed,   \* how often each block was computed
  returned,   \* how often each block went back to its queue
  fate,       \* "none", "unsent" for want of a connection, "dropped" on the way,
              \* "accepted" by a queue, "purged" with it
  faults, meddling, switched

main == <<active, publisher, channel, wire, unsent>>
broker == <<exchanges, queues, bindings, ready>>
workers == <<alive, consumer, session, inbox, current, unacked, warm>>
history == <<computed, returned, fate, faults, meddling, switched>>
vars == <<main, broker, workers, history>>

Q(b, w) == <<b, w>>

----------------------------------------------------------------------------
(* The main node.                                                          *)

ConnectPublisher(b) ==
  /\ publisher = NoBroker /\ channel # "lost"
  /\ publisher' = b
  /\ channel' = "open"
  /\ exchanges' = exchanges \union {b}
  /\ switched' = (switched \/ \E w \in active : consumer[w] # b)
  /\ UNCHANGED <<active, wire, unsent, queues, bindings, ready, workers,
                 computed, returned, fate, faults, meddling>>

\* Mutant: the connection is cut with blocks in its buffer.
DisconnectPublisher_Cuts ==
  /\ publisher # NoBroker
  /\ publisher' = NoBroker
  /\ UNCHANGED <<active, channel, wire, unsent, broker, workers, history>>

\* The close is posted behind what was published.
DisconnectPublisher ==
  /\ publisher # NoBroker
  /\ wire = << >>
  /\ publisher' = NoBroker
  /\ UNCHANGED <<active, channel, wire, unsent, broker, workers, history>>

\* What was written to the socket may be gone.
PublisherEnds ==
  /\ faults' = IF faults < MaxFaults THEN faults + 1 ELSE faults
  /\ fate' = [m \in Blocks |-> IF \E i \in DOMAIN wire : wire[i][1] = m THEN "dropped" ELSE fate[m]]
  /\ wire' = << >>
  /\ publisher' = NoBroker

LosePublisher ==
  /\ publisher # NoBroker
  /\ PublisherEnds
  /\ channel' = "lost"
  /\ UNCHANGED <<active, unsent, broker, workers, computed, returned, meddling, switched>>

\* The pool is in memory.
RestartMain ==
  /\ PublisherEnds
  /\ channel' = "open"
  /\ active' = {}
  /\ UNCHANGED <<unsent, broker, workers, computed, returned, meddling, switched>>

\* Mutant: the queue is not bound.
NewBindings_None(w) == {}
NewBindings(w) == {Q(publisher, w)}

\* A queue that exists is taken to be bound.
ConnectNode(w) ==
  /\ publisher # NoBroker
  /\ w \notin active
  /\ alive[w] /\ session[w] = "none"
  /\ queues' = queues \union {Q(publisher, w)}
  /\ bindings' = IF Q(publisher, w) \in queues THEN bindings ELSE bindings \union NewBindings(w)
  /\ consumer' = [consumer EXCEPT ![w] = publisher]
  /\ session' = [session EXCEPT ![w] = "consuming"]
  /\ warm' = [warm EXCEPT ![w] = FALSE]
  /\ active' = active \union {w}
  /\ UNCHANGED <<publisher, channel, wire, unsent, exchanges, ready,
                 alive, inbox, current, unacked, history>>

\* PublishMessage: without a connection nothing is sent and nobody is told.
PublishBlock(m, w) ==
  /\ m \in unsent
  /\ w \in active
  /\ unsent' = unsent \ {m}
  /\ IF publisher # NoBroker
       THEN wire' = Append(wire, <<m, w>>) /\ fate' = fate
       ELSE fate' = [fate EXCEPT ![m] = "unsent"] /\ wire' = wire
  /\ UNCHANGED <<active, publisher, channel, broker, workers,
                 computed, returned, faults, meddling, switched>>

----------------------------------------------------------------------------
(* The broker.                                                             *)

\* The exchange routes by key; without a binding it drops, without the exchange the
\* broker closes the channel.
Route ==
  /\ wire # << >>
  /\ LET m == Head(wire)[1]
         q == Q(publisher, Head(wire)[2])
     IN
     /\ wire' = Tail(wire)
     /\ channel' = IF publisher \in exchanges THEN channel ELSE "closed"
     /\ IF channel' = "open" /\ q \in bindings
          THEN /\ ready' = [ready EXCEPT ![q] = Append(@, m)]
               /\ fate' = [fate EXCEPT ![m] = "accepted"]
          ELSE fate' = [fate EXCEPT ![m] = "dropped"] /\ ready' = ready
  /\ UNCHANGED <<active, publisher, unsent, exchanges, queues, bindings, workers,
                 computed, returned, faults, meddling, switched>>

Deliver(w) ==
  LET q == Q(consumer[w], w) IN
  /\ session[w] = "consuming"
  /\ ready[q] # << >>
  /\ inbox' = [inbox EXCEPT ![w] = Append(@, Head(ready[q]))]
  /\ unacked' = [unacked EXCEPT ![w] = Append(@, Head(ready[q]))]
  /\ ready' = [ready EXCEPT ![q] = Tail(@)]
  /\ UNCHANGED <<main, exchanges, queues, bindings, alive, consumer, session, current, warm, history>>

\* The broker notices that a session is over: what was not acknowledged goes back to the
\* front of its queue.
Requeue(w) ==
  /\ unacked' = [unacked EXCEPT ![w] = << >>]
  /\ ready' = IF unacked[w] = << >> THEN ready
              ELSE [ready EXCEPT ![Q(consumer[w], w)] = unacked[w] \o @]
  /\ returned' = [m \in Blocks |-> returned[m] + IF Contains(unacked[w], m) THEN 1 ELSE 0]

----------------------------------------------------------------------------
(* The worker: the event loop of AMQPConsumerService and the callback.     *)

\* A session's blocks are handled in the order of their delivery: the one that is
\* acknowledged is the oldest, and the broker knows it as long as the session lasts.
Acknowledge(w, m) ==
  unacked' = [unacked EXCEPT ![w] = IF @ # << >> /\ Head(@) = m THEN Tail(@) ELSE @]

\* Mutant: the message is acknowledged before its callback runs.
Receive_Acks(w) ==
  /\ current[w] = NoBlock
  /\ inbox[w] # << >>
  /\ Head(inbox[w]) \in Bad => warm[w]
  /\ current' = [current EXCEPT ![w] = Head(inbox[w])]
  /\ inbox' = [inbox EXCEPT ![w] = Tail(@)]
  /\ Acknowledge(w, Head(inbox[w]))
  /\ UNCHANGED <<main, broker, alive, consumer, session, warm, history>>

Receive(w) ==
  /\ current[w] = NoBlock
  /\ inbox[w] # << >>
  /\ Head(inbox[w]) \in Bad => warm[w]
  /\ current' = [current EXCEPT ![w] = Head(inbox[w])]
  /\ inbox' = [inbox EXCEPT ![w] = Tail(@)]
  /\ UNCHANGED <<main, broker, alive, consumer, session, unacked, warm, history>>

\* Mutant: the callback's message is not acknowledged.
ComputeAndAck_Never(w) ==
  /\ current[w] # NoBlock
  /\ computed' = [computed EXCEPT ![current[w]] = @ + 1]
  /\ current' = [current EXCEPT ![w] = NoBlock]
  /\ warm' = [warm EXCEPT ![w] = TRUE]
  /\ UNCHANGED <<main, broker, alive, consumer, session, inbox, unacked,
                 returned, fate, faults, meddling, switched>>

\* Mutant: after the callback the message is put back to be sure.
ComputeAndAck_Requeues(w) ==
  /\ current[w] # NoBlock
  /\ computed' = [computed EXCEPT ![current[w]] = @ + 1]
  /\ current' = [current EXCEPT ![w] = NoBlock]
  /\ warm' = [warm EXCEPT ![w] = TRUE]
  /\ ready' = [ready EXCEPT ![Q(consumer[w], w)] = Append(@, current[w])]
  /\ Len(ready[Q(consumer[w], w)]) < 2 /\ computed[current[w]] < 3
  /\ UNCHANGED <<main, exchanges, queues, bindings, alive, consumer, session, inbox, unacked,
                 returned, fate, faults, meddling, switched>>

\* message_callback_ returns, channel_->ack; a broken session swallows the ack.
ComputeAndAck(w) ==
  /\ current[w] # NoBlock
  /\ computed' = [computed EXCEPT ![current[w]] = @ + 1]
  /\ current' = [current EXCEPT ![w] = NoBlock]
  /\ warm' = [warm EXCEPT ![w] = TRUE]
  /\ Acknowledge(w, current[w])
  /\ UNCHANGED <<main, broker, alive, consumer, session, inbox,
                 returned, fate, faults, meddling, switched>>

Dies(w) ==
  /\ alive' = [alive EXCEPT ![w] = FALSE]
  /\ consumer' = [consumer EXCEPT ![w] = NoBroker]
  /\ session' = [session EXCEPT ![w] = "none"]
  /\ inbox' = [inbox EXCEPT ![w] = << >>]
  /\ current' = [current EXCEPT ![w] = NoBlock]
  /\ Requeue(w)

WorkerDies(w) ==
  /\ alive[w] /\ faults < MaxFaults
  /\ faults' = faults + 1
  /\ Dies(w)
  /\ UNCHANGED <<main, exchanges, queues, bindings, warm, computed, fate, meddling, switched>>

\* ParseFunc throws out of the parallel region: the process ends before the acknowledgement.
BadBlockKills(w) ==
  /\ current[w] = NoBlock
  /\ inbox[w] # << >> /\ Head(inbox[w]) \in Bad /\ ~ warm[w]
  /\ faults < MaxFaults
  /\ faults' = faults + 1
  /\ Dies(w)
  /\ UNCHANGED <<main, exchanges, queues, bindings, warm, computed, fate, meddling, switched>>

\* A new process.  Its old self may still be active in the main node, whose disconnect_node
\* it refuses and whose connect_node is refused: only RestartMain lets it join again.
StartWorker(w) ==
  /\ ~ alive[w]
  /\ alive' = [alive EXCEPT ![w] = TRUE]
  /\ UNCHANGED <<main, broker, consumer, session, inbox, current, unacked, warm, history>>

\* The connection breaks; the loop goes on with what it has read and notices later.
LoseConsumer(w) ==
  /\ session[w] \in {"consuming", "cancelled"} /\ faults < MaxFaults
  /\ faults' = faults + 1
  /\ session' = [session EXCEPT ![w] = "broken"]
  /\ Requeue(w)
  /\ UNCHANGED <<main, exchanges, queues, bindings, alive, consumer, inbox, current, warm,
                 computed, fate, meddling, switched>>

ConsumerEnds(w, how) ==
  /\ consumer' = [consumer EXCEPT ![w] = NoBroker]
  /\ session' = [session EXCEPT ![w] = how]
  /\ inbox' = [inbox EXCEPT ![w] = << >>]

\* "ended": the thread is not joined, as with the publisher only a new process connects.
NoticeLoss(w) ==
  /\ session[w] = "broken"
  /\ current[w] = NoBlock
  /\ ConsumerEnds(w, "ended")
  /\ UNCHANGED <<main, broker, alive, current, unacked, warm, history>>

\* disconnect_node: Disconnect joins the loop, so no callback is running.
DisconnectNode(w) ==
  /\ publisher # NoBroker
  /\ w \in active
  /\ session[w] \in {"consuming", "cancelled"}
  /\ current[w] = NoBlock
  /\ faults < MaxFaults
  /\ faults' = faults + 1
  /\ active' = active \ {w}
  /\ Requeue(w)
  /\ ConsumerEnds(w, "none")
  /\ UNCHANGED <<publisher, channel, wire, unsent, exchanges, queues, bindings, alive, current, warm,
                 computed, fate, meddling, switched>>

----------------------------------------------------------------------------
(* RabbitMQRestService, by hand or by a tool.  A call that CURL gave up on  *)
(* may have been carried out: calling again is a call of its own.           *)

Meddle ==
  /\ meddling < MaxMeddling
  /\ meddling' = meddling + 1
  /\ UNCHANGED <<active, publisher, channel, wire, unsent, alive, consumer, inbox, current, warm,
                 computed, faults, switched>>

CreateQueue(b, q) ==
  /\ Meddle
  /\ queues' = queues \union {Q(b, q)}
  /\ UNCHANGED <<exchanges, bindings, ready, session, unacked, returned, fate>>

\* 404 without a queue.  Its consumers are cancelled, its blocks are gone.
DeleteQueue(b, q) ==
  /\ Meddle
  /\ Q(b, q) \in queues
  /\ queues' = queues \ {Q(b, q)}
  /\ bindings' = bindings \ {Q(b, q)}
  /\ ready' = [ready EXCEPT ![Q(b, q)] = << >>]
  /\ LET here == consumer[q] = b /\ session[q] = "consuming"
         gone == ToSet(ready[Q(b, q)]) \union (IF here THEN ToSet(unacked[q]) ELSE {})
     IN
     /\ session' = [session EXCEPT ![q] = IF here THEN "cancelled" ELSE @]
     /\ unacked' = [unacked EXCEPT ![q] = IF here THEN << >> ELSE @]
     /\ fate' = [m \in Blocks |-> IF m \in gone THEN "purged" ELSE fate[m]]
  /\ UNCHANGED <<exchanges, returned>>

\* 404 unless both exist.
BindQueueToExchange(b, q) ==
  /\ Meddle
  /\ b \in exchanges /\ Q(b, q) \in queues
  /\ bindings' = bindings \union {Q(b, q)}
  /\ UNCHANGED <<exchanges, queues, ready, session, unacked, returned, fate>>

UnbindQueueFromExchange(b, q) ==
  /\ Meddle
  /\ Q(b, q) \in bindings
  /\ bindings' = bindings \ {Q(b, q)}
  /\ UNCHANGED <<exchanges, queues, ready, session, unacked, returned, fate>>

CreateExchange(b) ==
  /\ Meddle
  /\ exchanges' = exchanges \union {b}
  /\ UNCHANGED <<queues, bindings, ready, session, unacked, returned, fate>>

DeleteExchange(b) ==
  /\ Meddle
  /\ b \in exchanges
  /\ exchanges' = exchanges \ {b}
  /\ bindings' = {q \in bindings : q[1] # b}
  /\ UNCHANGED <<queues, ready, session, unacked, returned, fate>>

----------------------------------------------------------------------------

Init ==
  /\ active = {} /\ publisher = NoBroker /\ channel = "open" /\ wire = << >> /\ unsent = Blocks
  /\ exchanges = {} /\ queues = {} /\ bindings = {}
  /\ ready = [q \in Brokers \X Workers |-> << >>]
  /\ alive = [w \in Workers |-> TRUE]
  /\ consumer = [w \in Workers |-> NoBroker]
  /\ session = [w \in Workers |-> "none"]
  /\ inbox = [w \in Workers |-> << >>]
  /\ current = [w \in Workers |-> NoBlock]
  /\ unacked = [w \in Workers |-> << >>]
  /\ warm = [w \in Workers |-> FALSE]
  /\ computed = [m \in Blocks |-> 0] /\ returned = [m \in Blocks |-> 0]
  /\ fate = [m \in Blocks |-> "none"]
  /\ faults = 0 /\ meddling = 0 /\ switched = FALSE

Works(w) == Deliver(w) \/ Receive(w) \/ ComputeAndAck(w) \/ NoticeLoss(w)

Rest == \E b \in Brokers :
  \/ CreateExchange(b) \/ DeleteExchange(b)
  \/ \E q \in Workers : \/ CreateQueue(b, q) \/ DeleteQueue(b, q)
                        \/ BindQueueToExchange(b, q) \/ UnbindQueueFromExchange(b, q)

Next ==
  \/ \E b \in Brokers : ConnectPublisher(b)
  \/ DisconnectPublisher \/ LosePublisher \/ RestartMain \/ Route \/ Rest
  \/ \E w \in Workers : \/ ConnectNode(w) \/ DisconnectNode(w) \/ StartWorker(w)
                        \/ Works(w) \/ WorkerDies(w) \/ BadBlockKills(w) \/ LoseConsumer(w)
                        \/ \E m \in Blocks : PublishBlock(m, w)

\* The broker routes and pushes, the event loop of a worker runs; people need do nothing.
Spec == Init /\ [][Next]_vars /\ WF_vars(Route) /\ \A w \in Workers : WF_vars(Works(w))

----------------------------------------------------------------------------

\* A queue holds blocks and is bound only while it exists; the blocks a callback works on
\* came from its session.
TypeOK ==
  /\ active \subseteq Workers /\ publisher \in Brokers \union {NoBroker}
  /\ channel \in {"open", "closed", "lost"}
  /\ wire \in Seq(Blocks \X Workers) /\ unsent \subseteq Blocks
  /\ publisher = NoBroker => wire = << >>
  /\ exchanges \subseteq Brokers /\ bindings \subseteq queues
  /\ queues \subseteq Brokers \X Workers
  /\ ready \in [Brokers \X Workers -> Seq(Blocks)]
  /\ \A q \in DOMAIN ready : ready[q] # << >> => q \in queues
  /\ alive \in [Workers -> BOOLEAN] /\ consumer \in [Workers -> Brokers \union {NoBroker}]
  /\ session \in [Workers -> {"none", "consuming", "cancelled", "broken", "ended"}]
  /\ inbox \in [Workers -> Seq(Blocks)] /\ unacked \in [Workers -> Seq(Blocks)]
  /\ warm \in [Workers -> BOOLEAN]
  /\ current \in [Workers -> Blocks \union {NoBlock}]
  /\ \A w \in Workers : unacked[w] # << >> => session[w] = "consuming" /\ Q(consumer[w], w) \in queues
  /\ computed \in [Blocks -> Nat] /\ returned \in [Blocks -> Nat]
  /\ fate \in [Blocks -> {"none", "unsent", "dropped", "accepted", "purged"}]
  /\ faults \in 0 .. MaxFaults /\ meddling \in 0 .. MaxMeddling /\ switched \in BOOLEAN

Held == {m \in Blocks : \/ \E q \in DOMAIN ready : Contains(ready[q], m)
                        \/ \E w \in Workers : Contains(unacked[w], m)}

\* A block is computed again only after its queue got it back: neither the broker nor the
\* event loop makes copies, and an acknowledged block is gone (AMQPConsumerService.cpp:48).
NoSpuriousRepeat == \A m \in Blocks : computed[m] <= 1 + returned[m]

\* As long as nothing fails, nobody uses the REST interface, nodes stay connected and the
\* publisher does not move to another broker, no block of an active node is dropped by the
\* exchange or waits in a queue that its node does not read.  The last condition is needed:
\* connect_publisher to another host leaves nodes active that listen to the old one
\* (MainNodeService.cpp:187).
Undisturbed == faults = 0 /\ meddling = 0 /\ ~ switched
BlocksReachTheirNode == Undisturbed =>
  /\ \A m \in Blocks : fate[m] # "dropped"
  /\ \A q \in DOMAIN ready : ready[q] # << >> =>
       consumer[q[2]] = q[1] /\ session[q[2]] = "consuming"

\* A node that keeps consuming empties its queue and acknowledges everything, unless a block
\* comes that ends its process.
Idle(w) == session[w] = "consuming" => ready[Q(consumer[w], w)] = << >> /\ unacked[w] = << >>
Poisoned(w) == inbox[w] # << >> /\ Head(inbox[w]) \in Bad /\ ~ warm[w]
QueueDrains == \A w \in Workers :
  <>[](session[w] = "consuming") => []<>(Idle(w) \/ Poisoned(w))

\* What a queue has accepted is computed at least once or purged with it: no crash of a
\* worker between receipt and acknowledgement loses it, and nothing dropped comes back.
Abstract == INSTANCE AtLeastOnce WITH
  accepted <- {m \in Held : computed[m] = 0},
  done <- {m \in Blocks : computed[m] > 0},
  lost <- {m \in Blocks : fate[m] \in {"unsent", "dropped", "purged"} /\ computed[m] = 0}
ImplementsAtLeastOnce == Abstract!ASpec
=============================================================================
