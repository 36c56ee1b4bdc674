------------------------------ MODULE Cluster ------------------------------
(***************************************************************************)
(* How a cluster comes together: the main node (MainNodeService and its    *)
(* WorkerManagementService), the worker nodes (ComputationNodeService) and *)
(* the brokers.  The handlers of the main node run one at a time; the      *)
(* steps of connect_node are REST calls to the broker and an HTTP call to  *)
(* the worker, between which workers die, finish their benchmark and       *)
(* connections get lost.                                                   *)
(*                                                                         *)
(* An AMQP service is "down" (its thread is joined), "up" (IsConnected)    *)
(* or "lost": the connection broke, so the thread has ended but nobody has *)
(* joined it.  Module AmqpService models that life cycle in detail.        *)
(***************************************************************************)
EXTENDS Integers, FiniteSets, Functions

CONSTANTS Workers,          \* host:port of the worker nodes, also their queues
          Brokers,          \* hosts RabbitMQ may run on
          NoBroker,
          Benches,          \* what a benchmark may measure (first entry)
          kBenchInfinity,
          MaxWorkerStarts,  \* bound: how often a dead worker is started again
          MaxMainStarts     \* bound: how often a crashed main node is

ASSUME ClusterAssumption ==
  /\ IsFiniteSet(Workers)
  /\ NoBroker \notin Brokers
  /\ kBenchInfinity \in Nat
  /\ Benches \subseteq 1 .. kBenchInfinity
  /\ MaxWorkerStarts \in Nat
  /\ MaxMainStarts \in Nat

VARIABLES
  \* the main node
  worker_nodes_,  \* the keys of the two maps, "ACTIVE" and "INACTIVE"
  bench_result_,  \* of every known node; 0: empty
  node_speed_,    \* of every known node; 0: empty (size() == 0)
  normalized_,
  q_host_,
  publisher,
  call,           \* the handler that is running: its next step and its node
  crash,          \* what killed the main node, "none" while it runs
  mainStarts,
  \* the HTTP call from the main node to a worker
  http,
  \* the worker nodes
  alive, bench_res_, consumer, workerStarts,
  \* the brokers: hosts that have the exchange; queues and bindings by host
  exchanges, queues, bindings

pool == <<worker_nodes_, bench_result_, node_speed_, normalized_>>
link == <<q_host_, publisher>>
main == <<pool, link, call, crash, mainStarts>>
workers == <<alive, bench_res_, consumer, workerStarts>>
brokers == <<exchanges, queues, bindings>>
vars == <<main, http, workers, brokers>>

Active == worker_nodes_["ACTIVE"]
Inactive == worker_nodes_["INACTIVE"]

Down == [state |-> "down", host |-> NoBroker]
Up(b) == [state |-> "up", host |-> b]
Lost(c) == [c EXCEPT !.state = "lost"]

NoCall == [step |-> "none"]
At(step, w) == [step |-> step, node |-> w]
Idle == crash = "none" /\ call.step = "none"
Connected == publisher.state = "up"

NoHttp == [kind |-> "none"]
RequestTo(op, b) == [kind |-> "request", op |-> op, ip |-> b]
ReplyWith(ok, bench) == [kind |-> "reply", ok |-> ok, bench |-> bench]
Broken == [kind |-> "broken"]        \* ReqResult::NetworkFailure, no response
Asked(w, op) == http.kind = "request" /\ http.op = op /\ call.node = w /\ alive[w]

Crash(reason) ==
  /\ crash' = reason
  /\ call' = NoCall
  /\ http' = NoHttp

----------------------------------------------------------------------------
(* The connection of the main node to a broker: Connect, Disconnect.       *)

\* Mutant: the check for a publisher that is connected is missing.
ConnectPublisherFails_Unchecked(b) ==
  /\ Idle
  /\ q_host_' = b
  /\ UNCHANGED <<pool, publisher, call, crash, mainStarts, http, workers, brokers>>

\* The REST calls or, for a service that is "down", the AMQP connection fails: 409,
\* but q_host_ is set.
ConnectPublisherFails(b) ==
  /\ Idle
  /\ ~ Connected
  /\ q_host_' = b
  /\ \/ exchanges' = exchanges
     \/ publisher.state = "down" /\ exchanges' = exchanges \union {b}
  /\ UNCHANGED <<pool, publisher, call, crash, mainStarts, http, workers, queues, bindings>>

ConnectPublisher(b) ==
  /\ Idle
  /\ publisher.state = "down"
  /\ q_host_' = b
  /\ exchanges' = exchanges \union {b}
  /\ publisher' = Up(b)
  /\ UNCHANGED <<pool, call, crash, mainStarts, http, workers, queues, bindings>>

\* AMQPService::Connect assigns a new thread to one that was never joined.
ConnectLostPublisher(b) ==
  /\ Idle
  /\ publisher.state = "lost"
  /\ q_host_' = b
  /\ exchanges' = exchanges \union {b}
  /\ Crash("terminate")
  /\ UNCHANGED <<pool, publisher, mainStarts, workers, queues, bindings>>

DisconnectPublisher ==
  /\ Idle
  /\ Connected
  /\ publisher' = Down
  /\ UNCHANGED <<pool, q_host_, call, crash, mainStarts, http, workers, brokers>>

LosePublisher ==
  /\ crash = "none"
  /\ Connected
  /\ publisher' = Lost(publisher)
  /\ UNCHANGED <<pool, q_host_, call, crash, mainStarts, http, workers, brokers>>

----------------------------------------------------------------------------
(* connect_node: AddNewNode, the queue at the broker, the worker's Connect. *)

AddNewNode(w) ==
  IF w \in Active \union Inactive
    THEN UNCHANGED pool
    ELSE /\ worker_nodes_' = [worker_nodes_ EXCEPT !["INACTIVE"] = @ \union {w}]
         /\ bench_result_' = [bench_result_ EXCEPT ![w] = 0]
         /\ node_speed_' = [node_speed_ EXCEPT ![w] = 0]
         /\ UNCHANGED normalized_

\* 409 without a publisher and for an active node.
ConnectNode(w) ==
  /\ Idle
  /\ Connected
  /\ w \notin Active
  /\ AddNewNode(w)
  /\ call' = At("list", w)
  /\ UNCHANGED <<link, crash, mainStarts, http, workers, brokers>>

\* ListQueues: a queue that is there is taken to be bound as well.
FindQueue ==
  /\ call.step = "list"
  /\ call' = At(IF <<q_host_, call.node>> \in queues THEN "send" ELSE "create", call.node)
  /\ UNCHANGED <<pool, link, crash, mainStarts, http, workers, brokers>>

CreateQueue ==
  /\ call.step = "create"
  /\ queues' = queues \union {<<q_host_, call.node>>}
  /\ call' = At("bind", call.node)
  /\ UNCHANGED <<pool, link, crash, mainStarts, http, workers, exchanges, bindings>>

BindQueueToExchange ==
  /\ call.step = "bind"
  /\ bindings' = bindings \union {<<q_host_, call.node>>}
  /\ call' = At("send", call.node)
  /\ UNCHANGED <<pool, link, crash, mainStarts, http, workers, exchanges, queues>>

\* HttpError answers 409, CurlError leaves the handler; either way what the
\* earlier steps did stays done.
RestFails ==
  /\ call.step \in {"list", "create", "bind"}
  /\ call' = NoCall
  /\ UNCHANGED <<pool, link, crash, mainStarts, http, workers, brokers>>

\* Mutant: BadServerAddress is not told from a request on its way.
SendRequest_Waits(op, w) ==
  /\ call' = At(op, w)
  /\ http' = IF alive[w] THEN RequestTo(op, q_host_) ELSE http

\* sendRequest: BadServerAddress when no worker listens (504), else it waits.
SendRequest(op, w) ==
  IF alive[w]
    THEN /\ http' = RequestTo(op, q_host_)
         /\ call' = At(op, w)
    ELSE /\ call' = NoCall
         /\ UNCHANGED http

SendConnect ==
  /\ call.step = "send"
  /\ SendRequest("connect", call.node)
  /\ UNCHANGED <<pool, link, crash, mainStarts, workers, brokers>>

\* Mutant: the node is not erased where it was.
MoveNode_Copies(w, from, to) ==
  worker_nodes_' = [worker_nodes_ EXCEPT ![to] = @ \union {w}]

MoveNode(w, from, to) ==
  worker_nodes_' = [worker_nodes_ EXCEPT ![from] = @ \ {w}, ![to] = @ \union {w}]

\* RecomputeCoefficients: the speed is computed for a node that has none.
NewSpeed(w, bench) ==
  IF node_speed_[w] = 0 THEN kBenchInfinity \div bench ELSE node_speed_[w]

DividesByZero(w, bench) == node_speed_[w] = 0 /\ bench = 0

ConnectSucceeds ==
  /\ call.step = "connect" /\ http.kind = "reply" /\ http.ok
  /\ LET w == call.node
     IN  /\ ~ DividesByZero(w, http.bench)
         /\ bench_result_' = [bench_result_ EXCEPT ![w] = http.bench]
         /\ node_speed_' = [node_speed_ EXCEPT ![w] = NewSpeed(w, http.bench)]
         /\ MoveNode(w, "INACTIVE", "ACTIVE")
         /\ normalized_' = normalized_ + node_speed_'[w]
  /\ call' = NoCall
  /\ http' = NoHttp
  /\ UNCHANGED <<link, crash, mainStarts, workers, brokers>>

\* The worker sent no bench (it still runs): JsonToContinuous reads a 0.
ConnectDivides ==
  /\ call.step = "connect" /\ http.kind = "reply" /\ http.ok
  /\ DividesByZero(call.node, http.bench)
  /\ Crash("division")
  /\ UNCHANGED <<pool, link, mainStarts, workers, brokers>>

----------------------------------------------------------------------------
(* disconnect_node.                                                        *)

\* 409 without a publisher and for a node that is not active.
DisconnectNode(w) ==
  /\ Idle
  /\ Connected
  /\ w \in Active
  /\ SendRequest("disconnect", w)
  /\ UNCHANGED <<pool, link, crash, mainStarts, workers, brokers>>

\* Mutant: the speed of the node stays in the sum.
DisconnectSucceeds_KeepsSum ==
  /\ call.step = "disconnect" /\ http.kind = "reply" /\ http.ok
  /\ MoveNode(call.node, "ACTIVE", "INACTIVE")
  /\ call' = NoCall
  /\ http' = NoHttp
  /\ UNCHANGED <<bench_result_, node_speed_, normalized_, link, crash, mainStarts, workers, brokers>>

DisconnectSucceeds ==
  /\ call.step = "disconnect" /\ http.kind = "reply" /\ http.ok
  /\ MoveNode(call.node, "ACTIVE", "INACTIVE")
  /\ normalized_' = normalized_ - node_speed_[call.node]
  /\ call' = NoCall
  /\ http' = NoHttp
  /\ UNCHANGED <<bench_result_, node_speed_, link, crash, mainStarts, workers, brokers>>

\* Connect and disconnect alike: a status of 400 or more is passed on.
RequestRefused ==
  /\ http.kind = "reply" /\ ~ http.ok
  /\ call' = NoCall
  /\ http' = NoHttp
  /\ UNCHANGED <<pool, link, crash, mainStarts, workers, brokers>>

\* Connect and disconnect alike: resp is null, and is dereferenced.
NoResponse ==
  /\ http.kind = "broken"
  /\ Crash("null")
  /\ UNCHANGED <<pool, link, mainStarts, workers, brokers>>

\* A new process knows nothing of the old one.
RestartMain ==
  /\ crash # "none"
  /\ mainStarts < MaxMainStarts
  /\ mainStarts' = mainStarts + 1
  /\ crash' = "none"
  /\ worker_nodes_' = [s \in {"ACTIVE", "INACTIVE"} |-> {}]
  /\ bench_result_' = [w \in Workers |-> 0]
  /\ node_speed_' = [w \in Workers |-> 0]
  /\ normalized_' = 0
  /\ q_host_' = NoBroker
  /\ publisher' = Down
  /\ UNCHANGED <<call, http, workers, brokers>>

----------------------------------------------------------------------------
(* The worker nodes.                                                       *)

\* ComputationNodeService::Connect: 409 for a consumer that is connected or whose
\* AMQP connection fails.
WorkerRefusesConnect(w) ==
  /\ Asked(w, "connect")
  /\ http' = ReplyWith(FALSE, 0)
  /\ consumer[w].state # "lost"
  /\ UNCHANGED <<main, workers, brokers>>

WorkerConnects(w) ==
  /\ Asked(w, "connect")
  /\ consumer[w].state = "down"
  /\ <<http.ip, w>> \in queues
  /\ consumer' = [consumer EXCEPT ![w] = Up(http.ip)]
  /\ http' = ReplyWith(TRUE, bench_res_[w])
  /\ UNCHANGED <<main, alive, bench_res_, workerStarts, brokers>>

\* Mutant: the answer is given, the consumer is forgotten.
WorkerDisconnects_KeepsConsumer(w) ==
  /\ Asked(w, "disconnect")
  /\ http' = ReplyWith(consumer[w].state = "up", 0)
  /\ UNCHANGED <<main, workers, brokers>>

\* ComputationNodeService::Disconnect.
WorkerDisconnects(w) ==
  /\ Asked(w, "disconnect")
  /\ http' = ReplyWith(consumer[w].state = "up", 0)
  /\ consumer' = IF consumer[w].state = "up" THEN [consumer EXCEPT ![w] = Down] ELSE consumer
  /\ UNCHANGED <<main, alive, bench_res_, workerStarts, brokers>>

WorkerDies(w) ==
  /\ alive' = [alive EXCEPT ![w] = FALSE]
  /\ consumer' = [consumer EXCEPT ![w] = Down]
  /\ bench_res_' = [bench_res_ EXCEPT ![w] = 0]
  /\ UNCHANGED <<main, workerStarts, brokers>>

\* AMQPService::Connect assigns a new thread to one that was never joined.
WorkerTerminates(w) ==
  /\ Asked(w, "connect")
  /\ consumer[w].state = "lost"
  /\ WorkerDies(w)
  /\ http' = Broken

\* Mutant: the main node does not notice that the connection to the worker broke.
WorkerKilled_Unnoticed(w) ==
  /\ alive[w]
  /\ workerStarts[w] < MaxWorkerStarts
  /\ WorkerDies(w)
  /\ UNCHANGED http

\* The process is killed; a request it was working on is never answered.
WorkerKilled(w) ==
  /\ alive[w]
  /\ workerStarts[w] < MaxWorkerStarts
  /\ WorkerDies(w)
  /\ http' = IF http.kind = "request" /\ call.node = w THEN Broken ELSE http

StartWorker(w) ==
  /\ ~ alive[w]
  /\ workerStarts[w] < MaxWorkerStarts
  /\ alive' = [alive EXCEPT ![w] = TRUE]
  /\ workerStarts' = [workerStarts EXCEPT ![w] = @ + 1]
  /\ UNCHANGED <<main, http, bench_res_, consumer, brokers>>

\* The thread of RunBench stores what the benchmark measured.
FinishBenchmark(w) ==
  /\ alive[w]
  /\ bench_res_[w] = 0
  /\ \E t \in Benches : bench_res_' = [bench_res_ EXCEPT ![w] = t]
  /\ UNCHANGED <<main, http, alive, consumer, workerStarts, brokers>>

LoseConsumer(w) ==
  /\ consumer[w].state = "up"
  /\ consumer' = [consumer EXCEPT ![w] = Lost(@)]
  /\ UNCHANGED <<main, http, alive, bench_res_, workerStarts, brokers>>

----------------------------------------------------------------------------
Init ==
  /\ worker_nodes_ = [s \in {"ACTIVE", "INACTIVE"} |-> {}]
  /\ bench_result_ = [w \in Workers |-> 0]
  /\ node_speed_ = [w \in Workers |-> 0]
  /\ normalized_ = 0
  /\ q_host_ = NoBroker
  /\ publisher = Down
  /\ call = NoCall
  /\ crash = "none"
  /\ mainStarts = 0
  /\ http = NoHttp
  /\ alive = [w \in Workers |-> TRUE]
  /\ bench_res_ = [w \in Workers |-> 0]
  /\ consumer = [w \in Workers |-> Down]
  /\ workerStarts = [w \in Workers |-> 0]
  /\ exchanges = {}
  /\ queues = {}
  /\ bindings = {}

\* The steps of a handler that has begun.
HandlerStep ==
  \/ FindQueue
  \/ CreateQueue
  \/ BindQueueToExchange
  \/ RestFails
  \/ SendConnect
  \/ ConnectSucceeds
  \/ ConnectDivides
  \/ DisconnectSucceeds
  \/ RequestRefused
  \/ NoResponse

WorkerStep(w) ==
  \/ WorkerRefusesConnect(w)
  \/ WorkerConnects(w)
  \/ WorkerDisconnects(w)
  \/ WorkerTerminates(w)

Next ==
  \/ \E b \in Brokers :
       \/ ConnectPublisherFails(b)
       \/ ConnectPublisher(b)
       \/ ConnectLostPublisher(b)
  \/ DisconnectPublisher
  \/ LosePublisher
  \/ \E w \in Workers :
       \/ ConnectNode(w)
       \/ DisconnectNode(w)
       \/ WorkerStep(w)
       \/ WorkerKilled(w)
       \/ StartWorker(w)
       \/ FinishBenchmark(w)
       \/ LoseConsumer(w)
  \/ HandlerStep
  \/ RestartMain

\* The handler threads of both programs run on; REST calls, and the AMQP calls of
\* the worker, end one way or the other.  Clients and brokers promise nothing.
Fairness ==
  /\ WF_vars(HandlerStep)
  /\ \A w \in Workers : WF_vars(WorkerStep(w))

Spec == Init /\ [][Next]_vars /\ Fairness

----------------------------------------------------------------------------
(* Properties.                                                             *)

Services == [state : {"down"}, host : {NoBroker}] \union [state : {"up", "lost"}, host : Brokers]
Calls == {NoCall} \union
         [step : {"list", "create", "bind", "send", "connect", "disconnect"}, node : Workers]
HttpStates == {NoHttp, Broken}
              \union [kind : {"request"}, op : {"connect", "disconnect"}, ip : Brokers]
              \union [kind : {"reply"}, ok : BOOLEAN, bench : Benches \union {0}]

\* Types, and what every step of a handler relies on: a request is out exactly
\* while the handler that sent it waits.
TypeOK ==
  /\ worker_nodes_ \in [{"ACTIVE", "INACTIVE"} -> SUBSET Workers]
  /\ bench_result_ \in [Workers -> Benches \union {0}]
  /\ node_speed_ \in [Workers -> Nat]
  /\ normalized_ \in Int
  /\ q_host_ \in Brokers \union {NoBroker}
  /\ publisher \in Services
  /\ call \in Calls
  /\ crash \in {"none", "terminate", "division", "null"}
  /\ mainStarts \in 0 .. MaxMainStarts
  /\ http \in HttpStates
  /\ alive \in [Workers -> BOOLEAN]
  /\ bench_res_ \in [Workers -> Benches \union {0}]
  /\ consumer \in [Workers -> Services]
  /\ workerStarts \in [Workers -> 0 .. MaxWorkerStarts]
  /\ exchanges \in SUBSET Brokers
  /\ queues \in SUBSET (Brokers \X Workers)
  /\ bindings \in SUBSET (Brokers \X Workers)
  /\ call.step \in {"connect", "disconnect"} <=> http # NoHttp
  /\ http.kind = "request" => http.op = call.step

\* MoveNode moves: no host is ever in both maps, and the host a handler works for
\* is where the handler left it while it waited for the broker and the worker.
OneMapPerNode ==
  /\ Active \intersect Inactive = {}
  /\ call.step \in {"list", "create", "bind", "send", "connect"} => call.node \in Inactive
  /\ call.step = "disconnect" => call.node \in Active

\* normalized_ is kept up to date by += and -= across benchmarks that change
\* between two connects: it is the sum of the active nodes' speeds, none of which
\* is zero, so that SendToExecution never divides by zero.
NormalizedIsSum ==
  /\ normalized_ = SumFunctionOnSet(node_speed_, Active)
  /\ \A w \in Active : node_speed_[w] > 0

\* Workers are told q_host_: it is the broker the publisher is connected to, though
\* a failed connect_publisher changes it and the connection comes and goes.
WorkersJoinPublishersBroker ==
  /\ Connected => publisher.host = q_host_
  /\ http.kind = "request" => http.ip = q_host_
  /\ Connected => q_host_ \in exchanges

\* In its first life the main node knows which workers consume: between two calls a
\* worker that is not active has no consumer, whatever answers got lost on the way.
OnlyActiveNodesConsume ==
  Idle /\ mainStarts = 0 => \A w \in Workers \ Active : consumer[w].state = "down"

\* A node becomes active only with a queue of its own at the main node's broker, to
\* which its worker listens if it still does, and leaves the active nodes only when
\* its worker has stopped consuming.
ActivationStep ==
  \A w \in Workers :
    /\ w \in Active' \ Active =>
         /\ <<q_host_, w>> \in queues
         /\ consumer[w].state = "up" => consumer[w].host = q_host_
    /\ w \in Active \ Active' /\ crash = "none" => consumer[w].state # "up"
ActivationSound == [][ActivationStep]_vars

\* A handler that was called comes back (or the program is gone): no request is
\* waited for that nobody will answer.
CallsEnd == call.step # "none" ~> call.step = "none"

\* "Node is connected to cluster and is ready to receive it's tasks": the exchange
\* routes to the queue of an active node.
ActiveNodesAreBound ==
  Connected /\ crash = "none" => \A w \in Active : <<publisher.host, w>> \in bindings

\* "Queue service is currently unavailable try using connect_publisher/ request":
\* the advice can be followed.
PublisherCanReconnect == crash # "terminate"
============================================================================
