--------------------------- MODULE ClusterProofs ---------------------------
(* Theorems about Cluster: for every set of workers and brokers, and however *)
(* often they and the main node are started again.                           *)
EXTENDS Cluster, FiniteSums, FiniteSetTheorems, TLAPS

\* A dead main node runs no handler.
NoCallAfterCrash == crash # "none" => call = NoCall

\* A handler knows the broker it works with.
HostIsKnown == call.step # "none" => q_host_ \in Brokers

\* What an answer 200 of a worker says of the worker while the main node has not read
\* it: it listens to its queue at q_host_, or it has stopped listening.
AnswersAreTrue ==
  http.kind = "reply" /\ http.ok =>
    /\ call.step = "connect" =>
         /\ <<q_host_, call.node>> \in queues
         /\ consumer[call.node].state = "up" => consumer[call.node].host = q_host_
    /\ call.step = "disconnect" => consumer[call.node].state = "down"

\* A worker consumes if it is active or is about to be.
ConsumersKnown ==
  crash = "none" /\ mainStarts = 0 =>
    \A w \in Workers :
      \/ consumer[w].state = "down"
      \/ w \in Active
      \/ call.step = "connect" /\ call.node = w /\ http.kind = "reply" /\ http.ok

IInv ==
  /\ TypeOK
  /\ OneMapPerNode
  /\ WorkersJoinPublishersBroker
  /\ NoCallAfterCrash
  /\ HostIsKnown
  /\ AnswersAreTrue
  /\ ConsumersKnown

----------------------------------------------------------------------------
LEMMA SpeedIsNat ==
  ASSUME NEW bench \in Benches
  PROVE  kBenchInfinity \div bench \in Nat
BY ClusterAssumption, Z3

LEMMA IInvInit == Init => IInv
BY ClusterAssumption
   DEF Init, IInv, TypeOK, OneMapPerNode, WorkersJoinPublishersBroker, NoCallAfterCrash,
       HostIsKnown, AnswersAreTrue, ConsumersKnown, Active, Inactive, Connected, Down, NoCall, NoHttp,
       Services, Calls, HttpStates

\* connect_publisher, disconnect_publisher, and the loss of the connection.
LEMMA IInvPublisher ==
  ASSUME IInv,
         \/ \E b \in Brokers : ConnectPublisherFails(b) \/ ConnectPublisher(b)
                                 \/ ConnectLostPublisher(b)
         \/ DisconnectPublisher
         \/ LosePublisher
  PROVE  IInv'
<1> USE ClusterAssumption
    DEF IInv, TypeOK, OneMapPerNode, WorkersJoinPublishersBroker, NoCallAfterCrash,
        HostIsKnown, AnswersAreTrue, ConsumersKnown, Active, Inactive, Connected, Idle,
        pool, workers, brokers, NoHttp
<1>1. ASSUME NEW b \in Brokers, ConnectPublisherFails(b) PROVE IInv'
  BY <1>1 DEF ConnectPublisherFails
<1>2. ASSUME NEW b \in Brokers, ConnectPublisher(b) PROVE IInv'
  BY <1>2 DEF ConnectPublisher, Up, Services
<1>3. ASSUME NEW b \in Brokers, ConnectLostPublisher(b) PROVE IInv'
  BY <1>3 DEF ConnectLostPublisher, Crash, NoCall, NoHttp, Calls, HttpStates
<1>4. CASE DisconnectPublisher
  BY <1>4 DEF DisconnectPublisher, Down, Services
<1>5. CASE LosePublisher
  BY <1>5 DEF LosePublisher, Lost, Services
<1> QED BY <1>1, <1>2, <1>3, <1>4, <1>5

\* The steps of connect_node up to the request.
LEMMA IInvPrepare ==
  ASSUME IInv,
         \/ \E w \in Workers : ConnectNode(w) \/ DisconnectNode(w)
         \/ FindQueue \/ CreateQueue \/ BindQueueToExchange \/ RestFails \/ SendConnect
  PROVE  IInv'
<1> USE ClusterAssumption
    DEF IInv, TypeOK, OneMapPerNode, WorkersJoinPublishersBroker, NoCallAfterCrash,
        HostIsKnown, AnswersAreTrue, ConsumersKnown, Active, Inactive, Connected, Idle,
        pool, link, workers, brokers, NoCall, At, Calls, NoHttp
<1>1. ASSUME NEW w \in Workers, ConnectNode(w) PROVE IInv'
  BY <1>1 DEF ConnectNode, AddNewNode
<1>2. ASSUME NEW w \in Workers, DisconnectNode(w) PROVE IInv'
  BY <1>2 DEF DisconnectNode, SendRequest, RequestTo, HttpStates
<1>3. CASE FindQueue
  BY <1>3 DEF FindQueue
<1>4. CASE CreateQueue
  BY <1>4 DEF CreateQueue
<1>5. CASE BindQueueToExchange
  BY <1>5 DEF BindQueueToExchange
<1>6. CASE RestFails
  BY <1>6 DEF RestFails
<1>7. CASE SendConnect
  BY <1>7 DEF SendConnect, SendRequest, RequestTo, HttpStates
<1> QED BY <1>1, <1>2, <1>3, <1>4, <1>5, <1>6, <1>7

\* What the main node does with an answer or without one, and its restart.
LEMMA IInvAnswer ==
  ASSUME IInv,
         \/ ConnectSucceeds \/ ConnectDivides \/ DisconnectSucceeds \/ RequestRefused
         \/ NoResponse \/ RestartMain
  PROVE  IInv'
<1> USE ClusterAssumption
    DEF IInv, TypeOK, OneMapPerNode, WorkersJoinPublishersBroker, NoCallAfterCrash,
        HostIsKnown, AnswersAreTrue, ConsumersKnown, Active, Inactive, Connected, Idle,
        pool, link, workers, brokers, NoCall, Calls, NoHttp, Broken, HttpStates
<1>1. CASE ConnectSucceeds
  <2>1. TypeOK'
    <3>1. call.node \in Workers /\ http.bench \in Benches \union {0}
      BY <1>1 DEF ConnectSucceeds
    <3>2. NewSpeed(call.node, http.bench) \in Nat
      BY <1>1, <3>1, SpeedIsNat DEF ConnectSucceeds, NewSpeed, DividesByZero
    <3>3. node_speed_' \in [Workers -> Nat]
      BY <1>1, <3>1, <3>2 DEF ConnectSucceeds
    <3>4. normalized_' \in Int
      BY <1>1, <3>1, <3>3 DEF ConnectSucceeds
    <3>5. bench_result_' \in [Workers -> Benches \union {0}]
      BY <1>1, <3>1 DEF ConnectSucceeds
    <3> QED BY <1>1, <3>1, <3>3, <3>4, <3>5 DEF ConnectSucceeds, MoveNode
  <2>2. OneMapPerNode'
    BY <1>1, SpeedIsNat DEF ConnectSucceeds, MoveNode, NewSpeed, DividesByZero
  <2>3. WorkersJoinPublishersBroker'
    BY <1>1, SpeedIsNat DEF ConnectSucceeds, MoveNode, NewSpeed, DividesByZero
  <2>4. NoCallAfterCrash'
    BY <1>1, SpeedIsNat DEF ConnectSucceeds, MoveNode, NewSpeed, DividesByZero
  <2>7. HostIsKnown'
    BY <1>1, SpeedIsNat DEF ConnectSucceeds, MoveNode, NewSpeed, DividesByZero
  <2>5. AnswersAreTrue'
    BY <1>1, SpeedIsNat DEF ConnectSucceeds, MoveNode, NewSpeed, DividesByZero
  <2>6. ConsumersKnown'
    BY <1>1, SpeedIsNat DEF ConnectSucceeds, MoveNode, NewSpeed, DividesByZero
  <2> QED BY <2>1, <2>2, <2>3, <2>4, <2>5, <2>6, <2>7
<1>2. CASE ConnectDivides
  BY <1>2 DEF ConnectDivides, Crash
<1>3. CASE DisconnectSucceeds
  BY <1>3 DEF DisconnectSucceeds, MoveNode
<1>4. CASE RequestRefused
  BY <1>4 DEF RequestRefused
<1>5. CASE NoResponse
  BY <1>5 DEF NoResponse, Crash
<1>6. CASE RestartMain
  BY <1>6 DEF RestartMain, Down, Services
<1> QED BY <1>1, <1>2, <1>3, <1>4, <1>5, <1>6

\* The workers.
LEMMA IInvWorker ==
  ASSUME IInv, NEW w \in Workers,
         \/ WorkerStep(w) \/ WorkerKilled(w) \/ StartWorker(w) \/ FinishBenchmark(w)
         \/ LoseConsumer(w)
  PROVE  IInv'
<1> USE ClusterAssumption
    DEF IInv, TypeOK, OneMapPerNode, WorkersJoinPublishersBroker, NoCallAfterCrash,
        HostIsKnown, AnswersAreTrue, ConsumersKnown, Active, Inactive, Connected, Idle,
        pool, link, main, workers, brokers, HttpStates, NoHttp
<1>1. CASE WorkerRefusesConnect(w)
  BY <1>1 DEF WorkerRefusesConnect, Asked, ReplyWith
<1>2. CASE WorkerConnects(w)
  BY <1>2 DEF WorkerConnects, Asked, ReplyWith, Up, Services
<1>3. CASE WorkerDisconnects(w)
  BY <1>3 DEF WorkerDisconnects, Asked, ReplyWith, Down, Services
<1>4. CASE WorkerTerminates(w)
  BY <1>4 DEF WorkerTerminates, Asked, WorkerDies, Broken, Down, Services
<1>5. CASE WorkerKilled(w)
  BY <1>5 DEF WorkerKilled, WorkerDies, Broken, Down, Services
<1>6. CASE StartWorker(w)
  BY <1>6 DEF StartWorker
<1>7. CASE FinishBenchmark(w)
  BY <1>7 DEF FinishBenchmark
<1>8. CASE LoseConsumer(w)
  BY <1>8 DEF LoseConsumer, Lost, Services
<1> QED BY <1>1, <1>2, <1>3, <1>4, <1>5, <1>6, <1>7, <1>8 DEF WorkerStep

LEMMA IInvNext == IInv /\ [Next]_vars => IInv'
<1> SUFFICES ASSUME IInv, [Next]_vars PROVE IInv'
  OBVIOUS
<1>1. CASE UNCHANGED vars
  BY <1>1 DEF vars, main, pool, link, workers, brokers, IInv, TypeOK, OneMapPerNode,
              WorkersJoinPublishersBroker, NoCallAfterCrash, HostIsKnown, AnswersAreTrue,
              ConsumersKnown, Active, Inactive, Connected
<1>2. CASE Next
  BY <1>2, IInvPublisher, IInvPrepare, IInvAnswer, IInvWorker DEF Next, HandlerStep
<1> QED BY <1>1, <1>2

\* The strengthened invariant holds in every reachable state.
THEOREM InductiveInvariant == Spec => []IInv
BY IInvInit, IInvNext, PTL DEF Spec

\* Types, and that a handler waits exactly while its request or the answer is there.
THEOREM TypeCorrect == Spec => []TypeOK
<1>1. IInv => TypeOK
  BY DEF IInv
<1> QED BY <1>1, InductiveInvariant, PTL

\* MoveNode moves: a worker is in one of the two maps of worker_nodes_ at most, and
\* stays where its handler found it until the handler moves it.
THEOREM MapsAreDisjoint == Spec => []OneMapPerNode
<1>1. IInv => OneMapPerNode
  BY DEF IInv
<1> QED BY <1>1, InductiveInvariant, PTL

\* ConnectNode sends the worker to the broker that the publisher is connected to, and
\* the exchange is declared there.
THEOREM SameBroker == Spec => []WorkersJoinPublishersBroker
<1>1. IInv => WorkersJoinPublishersBroker
  BY DEF IInv
<1> QED BY <1>1, InductiveInvariant, PTL

\* While the main node has not crashed, no worker consumes without its knowing.
THEOREM NoUnknownConsumer == Spec => []OnlyActiveNodesConsume
<1>1. IInv => OnlyActiveNodesConsume
  BY DEF IInv, ConsumersKnown, OnlyActiveNodesConsume, Idle
<1> QED BY <1>1, InductiveInvariant, PTL

\* Only a handler's last step moves a node between the maps, or a new process.
LEMMA ActiveChanges ==
  ASSUME IInv, Next, Active' # Active
  PROVE  ConnectSucceeds \/ DisconnectSucceeds \/ RestartMain
<1> USE DEF Active, pool, main, link
<1>1. ASSUME NEW b \in Brokers,
             ConnectPublisherFails(b) \/ ConnectPublisher(b) \/ ConnectLostPublisher(b)
      PROVE  FALSE
  BY <1>1 DEF ConnectPublisherFails, ConnectPublisher, ConnectLostPublisher
<1>2. CASE DisconnectPublisher \/ LosePublisher
  BY <1>2 DEF DisconnectPublisher, LosePublisher
<1>3. ASSUME NEW w \in Workers, ConnectNode(w) PROVE FALSE
  BY <1>3 DEF ConnectNode, AddNewNode, IInv, TypeOK
<1>4. ASSUME NEW w \in Workers, DisconnectNode(w) PROVE FALSE
  BY <1>4 DEF DisconnectNode
<1>5. ASSUME NEW w \in Workers,
             WorkerStep(w) \/ WorkerKilled(w) \/ StartWorker(w) \/ FinishBenchmark(w)
               \/ LoseConsumer(w)
      PROVE  FALSE
  BY <1>5 DEF WorkerStep, WorkerRefusesConnect, WorkerConnects, WorkerDisconnects,
              WorkerTerminates, WorkerKilled, WorkerDies, StartWorker, FinishBenchmark,
              LoseConsumer
<1>6. CASE HandlerStep
  BY <1>6 DEF HandlerStep, FindQueue, CreateQueue, BindQueueToExchange, RestFails, SendConnect,
              ConnectDivides, RequestRefused, NoResponse
<1> QED BY <1>1, <1>2, <1>3, <1>4, <1>5, <1>6 DEF Next

\* The answers on which ConnectNode and DisconnectNode move a node are true when they
\* are read, although the worker goes on meanwhile.
THEOREM ActivationIsSound == Spec => ActivationSound
<1>1. IInv /\ [Next]_vars => [ActivationStep]_vars
  <2> SUFFICES ASSUME IInv, Next PROVE ActivationStep
    OBVIOUS
  <2>1. CASE Active' = Active
    BY <2>1 DEF ActivationStep
  <2>2. CASE RestartMain
    BY <2>2 DEF RestartMain, ActivationStep, Active
  <2>3. CASE ConnectSucceeds
    BY <2>3 DEF ConnectSucceeds, MoveNode, ActivationStep, Active, IInv, AnswersAreTrue, TypeOK,
                OneMapPerNode, Inactive, Calls, NoCall
  <2>4. CASE DisconnectSucceeds
    BY <2>4 DEF DisconnectSucceeds, MoveNode, ActivationStep, Active, IInv, AnswersAreTrue,
                TypeOK, Calls, NoCall
  <2> QED BY <2>1, <2>2, <2>3, <2>4, ActiveChanges
<1> QED BY <1>1, InductiveInvariant, PTL DEF Spec, ActivationSound

----------------------------------------------------------------------------
(* The sum of the speeds.                                                    *)

\* The sum, and the speeds it is taken of: none exceeds kBenchInfinity.
SpeedSum ==
  /\ node_speed_ \in [Workers -> 0 .. kBenchInfinity]
  /\ NormalizedIsSum

\* A benchmark gives a speed that is neither zero nor above kBenchInfinity.
LEMMA SpeedBounds ==
  ASSUME NEW bench \in Benches
  PROVE  kBenchInfinity \div bench \in 1 .. kBenchInfinity
<1> DEFINE q == kBenchInfinity \div bench
<1>1. bench \in Nat /\ bench >= 1 /\ bench <= kBenchInfinity /\ kBenchInfinity \in Nat
  BY ClusterAssumption
<1>2. q \in Nat /\ bench * q <= kBenchInfinity /\ kBenchInfinity < bench * q + bench
  BY <1>1, Z3
<1> HIDE DEF q
<1>3. q # 0
  BY <1>1, <1>2
<1>4. q <= bench * q
  BY <1>1, <1>2, Z3
<1>5. q \in 1 .. kBenchInfinity
  BY <1>1, <1>2, <1>3, <1>4
<1> QED BY <1>5 DEF q

\* What a sum of speeds is: zero over no node, one more term with one more node, and
\* it does not depend on the speeds of others.
LEMMA SpeedSums ==
  \A f \in [Workers -> 0 .. kBenchInfinity] :
    /\ SumFunctionOnSet(f, {}) = 0
    /\ \A A \in SUBSET Workers :
         /\ SumFunctionOnSet(f, A) \in Nat
         /\ \A a \in Workers \ A :
              SumFunctionOnSet(f, A \union {a}) = SumFunctionOnSet(f, A) + f[a]
         /\ \A g \in [Workers -> 0 .. kBenchInfinity] :
              (\A w \in A : f[w] = g[w]) => SumFunctionOnSet(f, A) = SumFunctionOnSet(g, A)
<1> SUFFICES ASSUME NEW f \in [Workers -> 0 .. kBenchInfinity]
             PROVE  /\ SumFunctionOnSet(f, {}) = 0
                    /\ \A A \in SUBSET Workers :
                         /\ SumFunctionOnSet(f, A) \in Nat
                         /\ \A a \in Workers \ A :
                              SumFunctionOnSet(f, A \union {a}) = SumFunctionOnSet(f, A) + f[a]
                         /\ \A g \in [Workers -> 0 .. kBenchInfinity] :
                              (\A w \in A : f[w] = g[w])
                                => SumFunctionOnSet(f, A) = SumFunctionOnSet(g, A)
  OBVIOUS
<1>1. \A v \in Workers : f[v] \in Nat
  BY ClusterAssumption
<1>2. ASSUME NEW A \in SUBSET Workers
      PROVE  /\ SumFunctionOnSet(f, {}) = 0
             /\ SumFunctionOnSet(f, A) \in Nat
             /\ \A a \in A : SumFunctionOnSet(f, A) = SumFunctionOnSet(f, A \ {a}) + f[a]
  <2>1. IsFiniteSet(A)
    BY ClusterAssumption, FS_Subset
  <2>2. \A v \in A : f[v] \in Nat
    BY <1>1
  <2> QED BY <2>1, <2>2, SumOfNaturals
<1>3. ASSUME NEW A \in SUBSET Workers, NEW a \in Workers \ A
      PROVE  SumFunctionOnSet(f, A \union {a}) = SumFunctionOnSet(f, A) + f[a]
  <2>1. A \union {a} \in SUBSET Workers /\ (A \union {a}) \ {a} = A
    OBVIOUS
  <2>2. SumFunctionOnSet(f, A \union {a})
          = SumFunctionOnSet(f, (A \union {a}) \ {a}) + f[a]
    BY <1>2, <2>1
  <2> QED BY <2>1, <2>2
<1>4. ASSUME NEW A \in SUBSET Workers, NEW g, \A w \in A : f[w] = g[w]
      PROVE  SumFunctionOnSet(f, A) = SumFunctionOnSet(g, A)
  <2>1. IsFiniteSet(A)
    BY ClusterAssumption, FS_Subset
  <2> QED BY <1>4, <2>1, SumAgrees
<1> QED BY <1>2, <1>3, <1>4

\* The sum with one more node.
LEMMA OneMoreTerm ==
  ASSUME NEW f \in [Workers -> 0 .. kBenchInfinity], NEW A \in SUBSET Workers,
         NEW w \in Workers \ A
  PROVE  SumFunctionOnSet(f, A \union {w}) = SumFunctionOnSet(f, A) + f[w]
BY SpeedSums

LEMMA AnotherTerm ==
  ASSUME NEW f \in [Workers -> 0 .. kBenchInfinity], NEW A \in SUBSET Workers,
         NEW w \in Workers \ A, NEW s \in 0 .. kBenchInfinity
  PROVE  SumFunctionOnSet([f EXCEPT ![w] = s], A) = SumFunctionOnSet(f, A)
<1> DEFINE g == [f EXCEPT ![w] = s]
<1>1. g \in [Workers -> 0 .. kBenchInfinity] /\ \A a \in A : f[a] = g[a]
  OBVIOUS
<1> HIDE DEF g
<1>2. SumFunctionOnSet(f, A) = SumFunctionOnSet(g, A)
  BY <1>1, SpeedSums
<1> QED BY <1>2 DEF g

\* A node becomes known: its speed is forgotten, but it is not in the sum.
LEMMA SumConnectNode ==
  ASSUME IInv, SpeedSum, NEW w \in Workers, ConnectNode(w)
  PROVE  SpeedSum'
<1>1. CASE UNCHANGED pool
  BY <1>1 DEF pool, SpeedSum, NormalizedIsSum, Active
<1>2. CASE ~ UNCHANGED pool
  <2>1. /\ worker_nodes_' = [worker_nodes_ EXCEPT !["INACTIVE"] = @ \union {w}]
        /\ node_speed_' = [node_speed_ EXCEPT ![w] = 0]
        /\ normalized_' = normalized_
    BY <1>2 DEF ConnectNode, AddNewNode
  <2>2. w \in Workers \ Active /\ Active \in SUBSET Workers /\ Active' = Active
    BY <2>1 DEF ConnectNode, IInv, TypeOK, Active
  <2>3. node_speed_ \in [Workers -> 0 .. kBenchInfinity] /\ 0 \in 0 .. kBenchInfinity
    BY ClusterAssumption DEF SpeedSum
  <2>4. SumFunctionOnSet([node_speed_ EXCEPT ![w] = 0], Active) = SumFunctionOnSet(node_speed_, Active)
    BY <2>2, <2>3, AnotherTerm
  <2>5. \A u \in Active : node_speed_'[u] = node_speed_[u]
    BY <2>1, <2>2, <2>3
  <2>6. node_speed_' \in [Workers -> 0 .. kBenchInfinity]
    BY <2>1, <2>3
  <2>7. normalized_' = SumFunctionOnSet(node_speed_', Active')
    BY <2>1, <2>2, <2>4 DEF SpeedSum, NormalizedIsSum
  <2>8. \A u \in Active' : node_speed_'[u] > 0
    BY <2>2, <2>5 DEF SpeedSum, NormalizedIsSum
  <2> QED BY <2>6, <2>7, <2>8 DEF SpeedSum, NormalizedIsSum, Active
<1> QED BY <1>1, <1>2

\* A node becomes active: its speed, new or old, is one more term.
LEMMA SumConnectSucceeds ==
  ASSUME IInv, SpeedSum, ConnectSucceeds
  PROVE  SpeedSum'
<1> DEFINE w == call.node
           s == NewSpeed(w, http.bench)
<1>1. /\ call.step = "connect" /\ http.kind = "reply" /\ call \in Calls /\ http \in HttpStates
      /\ worker_nodes_ \in [{"ACTIVE", "INACTIVE"} -> SUBSET Workers]
      /\ call.node \in Inactive /\ Active \intersect Inactive = {}
  BY DEF ConnectSucceeds, IInv, TypeOK, OneMapPerNode
<1>2. w \in Workers \ Active /\ Active \in SUBSET Workers
  BY <1>1 DEF Active, Inactive
<1>3. http.bench \in Benches \union {0}
  BY <1>1 DEF HttpStates, NoHttp, Broken
<1>4. node_speed_ \in [Workers -> 0 .. kBenchInfinity] /\ kBenchInfinity \in Nat
  BY ClusterAssumption DEF SpeedSum
<1>5. s \in 1 .. kBenchInfinity
  <2>1. CASE node_speed_[w] = 0
    <3>1. http.bench \in Benches
      BY <1>3, <2>1 DEF ConnectSucceeds, DividesByZero
    <3>2. s = kBenchInfinity \div http.bench
      BY <2>1 DEF NewSpeed
    <3> QED BY <3>1, <3>2, SpeedBounds
  <2>2. CASE node_speed_[w] # 0
    BY <1>2, <1>4, <2>2 DEF NewSpeed
  <2> QED BY <2>1, <2>2
<1>6. /\ node_speed_' = [node_speed_ EXCEPT ![w] = s]
      /\ normalized_' = normalized_ + node_speed_'[w]
      /\ Active' = Active \union {w}
  BY <1>1 DEF ConnectSucceeds, MoveNode, Active
<1> HIDE DEF w, s
<1>7. node_speed_' \in [Workers -> 0 .. kBenchInfinity] /\ node_speed_'[w] = s
  BY <1>2, <1>4, <1>5, <1>6
<1>8. SumFunctionOnSet([node_speed_ EXCEPT ![w] = s], Active) = SumFunctionOnSet(node_speed_, Active)
  <2>1. s \in 0 .. kBenchInfinity
    BY <1>4, <1>5
  <2> QED BY <1>2, <1>4, <2>1, AnotherTerm
<1>9. SumFunctionOnSet(node_speed_', Active \union {w})
        = SumFunctionOnSet(node_speed_', Active) + node_speed_'[w]
  BY <1>2, <1>7, OneMoreTerm
<1>10. normalized_' = SumFunctionOnSet(node_speed_', Active')
  BY <1>6, <1>8, <1>9 DEF SpeedSum, NormalizedIsSum
<1>11. \A u \in Active' : node_speed_'[u] > 0
  <2>1. \A u \in Active : node_speed_'[u] = node_speed_[u]
    BY <1>2, <1>4, <1>6
  <2>2. \A u \in Active : node_speed_[u] > 0
    BY DEF SpeedSum, NormalizedIsSum
  <2> QED BY <1>5, <1>6, <1>7, <2>1, <2>2
<1> QED BY <1>7, <1>10, <1>11 DEF SpeedSum, NormalizedIsSum, Active

\* A node becomes inactive: its term leaves the sum.
LEMMA SumDisconnectSucceeds ==
  ASSUME IInv, SpeedSum, DisconnectSucceeds
  PROVE  SpeedSum'
<1> DEFINE w == call.node
<1>1. /\ w \in Active /\ worker_nodes_ \in [{"ACTIVE", "INACTIVE"} -> SUBSET Workers]
  BY DEF DisconnectSucceeds, IInv, TypeOK, OneMapPerNode
<1>2. /\ normalized_' = normalized_ - node_speed_[w]
      /\ node_speed_' = node_speed_
      /\ Active' = Active \ {w}
  BY <1>1 DEF DisconnectSucceeds, MoveNode, Active
<1> HIDE DEF w
<1>3. /\ Active \ {w} \in SUBSET Workers
      /\ w \in Workers \ (Active \ {w})
      /\ (Active \ {w}) \union {w} = Active
  BY <1>1 DEF Active
<1>4. node_speed_ \in [Workers -> 0 .. kBenchInfinity] /\ node_speed_[w] \in Nat
  BY <1>3, ClusterAssumption DEF SpeedSum
<1>5. SumFunctionOnSet(node_speed_, (Active \ {w}) \union {w})
        = SumFunctionOnSet(node_speed_, Active \ {w}) + node_speed_[w]
  BY <1>3, <1>4, OneMoreTerm
<1>6. SumFunctionOnSet(node_speed_, Active \ {w}) \in Nat
  BY <1>3, <1>4, SpeedSums
<1>7. normalized_' = SumFunctionOnSet(node_speed_', Active')
  <2>1. normalized_ = SumFunctionOnSet(node_speed_, (Active \ {w}) \union {w})
    BY <1>3 DEF SpeedSum, NormalizedIsSum
  <2>2. normalized_' = SumFunctionOnSet(node_speed_, Active \ {w})
    BY <1>2, <1>4, <1>5, <1>6, <2>1
  <2> QED BY <1>2, <2>2
<1>8. \A u \in Active' : node_speed_'[u] > 0
  BY <1>2 DEF SpeedSum, NormalizedIsSum
<1> QED BY <1>2, <1>4, <1>7, <1>8 DEF SpeedSum, NormalizedIsSum, Active

\* A process that knows no node has the sum of none.
LEMMA SumOfNone ==
  ASSUME worker_nodes_ = [s \in {"ACTIVE", "INACTIVE"} |-> {}],
         node_speed_ = [w \in Workers |-> 0],
         normalized_ = 0
  PROVE  SpeedSum
<1>1. [w \in Workers |-> 0] \in [Workers -> 0 .. kBenchInfinity]
  BY ClusterAssumption
<1>2. SumFunctionOnSet([w \in Workers |-> 0], {}) = 0
  BY <1>1, SpeedSums
<1> QED BY <1>1, <1>2 DEF SpeedSum, NormalizedIsSum, Active

LEMMA SumOfNoneNext ==
  ASSUME worker_nodes_' = [s \in {"ACTIVE", "INACTIVE"} |-> {}],
         node_speed_' = [w \in Workers |-> 0],
         normalized_' = 0
  PROVE  SpeedSum'
<1>1. [w \in Workers |-> 0] \in [Workers -> 0 .. kBenchInfinity]
  BY ClusterAssumption
<1>2. SumFunctionOnSet([w \in Workers |-> 0], {}) = 0
  BY <1>1, SpeedSums
<1> QED BY <1>1, <1>2 DEF SpeedSum, NormalizedIsSum, Active

LEMMA SumNext == IInv /\ SpeedSum /\ [Next]_vars => SpeedSum'
<1> SUFFICES ASSUME IInv, SpeedSum, [Next]_vars PROVE SpeedSum'
  OBVIOUS
<1>1. ASSUME UNCHANGED pool PROVE SpeedSum'
  BY <1>1 DEF pool, SpeedSum, NormalizedIsSum, Active
<1>2. ASSUME NEW b \in Brokers,
             ConnectPublisherFails(b) \/ ConnectPublisher(b) \/ ConnectLostPublisher(b)
      PROVE  UNCHANGED pool
  BY <1>2 DEF ConnectPublisherFails, ConnectPublisher, ConnectLostPublisher
<1>3. CASE DisconnectPublisher \/ LosePublisher \/ UNCHANGED vars
  <2>1. UNCHANGED pool
    BY <1>3 DEF DisconnectPublisher, LosePublisher, vars, main
  <2> QED BY <1>1, <2>1
<1>4. ASSUME NEW w \in Workers,
             DisconnectNode(w) \/ WorkerStep(w) \/ WorkerKilled(w) \/ StartWorker(w)
               \/ FinishBenchmark(w) \/ LoseConsumer(w)
      PROVE  UNCHANGED pool
  BY <1>4 DEF DisconnectNode, WorkerStep, WorkerRefusesConnect, WorkerConnects, WorkerDisconnects,
              WorkerTerminates, WorkerKilled, WorkerDies, StartWorker, FinishBenchmark,
              LoseConsumer, main
<1>5. CASE HandlerStep
  <2>1. CASE ConnectSucceeds \/ DisconnectSucceeds
    BY <2>1, SumConnectSucceeds, SumDisconnectSucceeds
  <2>2. CASE ~ (ConnectSucceeds \/ DisconnectSucceeds)
    <3>1. UNCHANGED pool
      BY <1>5, <2>2 DEF HandlerStep, FindQueue, CreateQueue, BindQueueToExchange, RestFails,
                        SendConnect, ConnectDivides, RequestRefused, NoResponse
    <3> QED BY <1>1, <3>1
  <2> QED BY <2>1, <2>2
<1>6. CASE RestartMain
  BY <1>6, SumOfNoneNext DEF RestartMain
<1> QED
  BY <1>1, <1>2, <1>3, <1>4, <1>5, <1>6, SumConnectNode DEF Next

\* normalized_ is the sum of the speeds of the active nodes, none of which is zero,
\* through every += and -= of ConnectNode and DisconnectNode.
THEOREM SumIsKept == Spec => []NormalizedIsSum
<1>1. Init => SpeedSum
  BY SumOfNone DEF Init
<1>2. SpeedSum => NormalizedIsSum
  BY DEF SpeedSum
<1> QED BY <1>1, <1>2, SumNext, InductiveInvariant, PTL DEF Spec
============================================================================
