# TLA+ model of distributedMathArh

distributedMathArh computes systems of dipoles on a cluster: a **main node** takes
tasks over REST, cuts them into blocks of iterations and publishes the blocks to
RabbitMQ; **computation nodes** (workers) consume them, compute, and acknowledge.
This directory holds a TLA+ model of the parts of that program that carry its logic,
the TLC instances that check it, and proofs for all values of the constants. Paths
below are relative to the repository (`src/`); `PROJECT.json` maps every definition
to the lines it models.

## 1. Inventory of the system

### Main node (`mainNode`)

* **State.** `MainNodeService`: `q_host_`, the broker that workers are told; a
  publisher (`AMQPPublisherService`); a REST client of the broker.
  `WorkerManagementService`: the maps `worker_nodes_[ACTIVE]` and `[INACTIVE]` from
  `host:port` to `ComputationalNode` (its last benchmark, its speed), and
  `normalized_`, the sum of the active speeds. Everything is in memory only.
* **Operations.** The REST handlers of `ClusterConfigController`: `connect_publisher`,
  `disconnect_publisher`, `connect_node`, `disconnect_node`, `send_task`, `status`.
  `drogon` runs them on one thread (`number_of_threads` is 1), each to its end; a
  handler blocks on REST calls to the broker and HTTP calls to a worker.
* **Correct when** a worker is in at most one map; `normalized_` is the sum of the
  active speeds, and not zero; workers are sent to the broker that the publisher is
  connected to; a worker is active only when it listens to a queue that messages reach;
  `send_task` gives every iteration to exactly one node, roughly by speed, and answers
  200 only for what was sent; a handler always ends.

### Task parameters (`network_types::TestSolveParam`)

* **State.** An inclusive range of iteration indices (`size_t`), the size `N_` of the
  system, arguments. **Operations.** `SliceAway(k)` cuts off the first `k` iterations and
  throws `outOfRange` unless at least one is left; JSON in both directions.
* **Correct when** the slice and what is left are disjoint and make up the old range.

### AMQP service (`amqpCommon`, `AMQPConsumerService`, `AMQPPublisherService`)

* **State.** `connection_`, `channel_`, the `MyHandler` with `connected_`, a boost
  `io_service` with the queue of handlers posted to it, `work_` that keeps it running,
  `service_thread_` that runs it, and a promise for the result of a `Connect`.
* **Operations.** `Connect` (spawns the thread, waits for the promise), `Disconnect`
  (posts a close, joins, frees), `Publish`, and the callbacks of AMQP-CPP on the service
  thread. Two threads share everything above, with no lock but the promise.
* **Correct when** `IsConnected()` implies that a loop serves a live connection; nothing
  is freed while the loop may use it; the promise is set once; both calls return; a
  connection that was made stays until somebody ends it.

### Computation node (`computationalNode`)

* **State.** `bench_res_` and `characteristic_computed_`, written by the thread of
  `RunBench` and read by the REST thread; a consumer, whose event loop runs the message
  callback; in the callback an OpenMP team with a shared sum `res`, a critical section and
  a `thread_local` functor per thread. **Operations.** `connect`, `disconnect`, `status`
  (REST), `RunBench`, and the callback for a block.
* **Correct when** a worker answers `connect` only if it consumes; an answer holds the
  benchmark that was measured or none; the sum of a block has each of its iterations once,
  whatever the team interleaves; a block is acknowledged only after it was computed.

### Blocks on their way (`AMQPPublisherService`, RabbitMQ, `AMQPConsumerService`)

* **State.** What was published and is still in the publisher's socket; exchanges, queues and
  bindings of each broker; for each session of a worker the deliveries that were not
  acknowledged. **Operations.** `Publish`, routing, delivery, the callback, the
  acknowledgement, and the calls of `RabbitMQRestService`.
* **Correct when** a block that a queue accepted is computed at least once, is computed
  again only after its queue got it back, and no block waits where nobody listens.

### Database (`DbService`, `dbCommon`)

* **State.** Tables for users, experiments, iterations, nodes and a log, in PostgreSQL; in
  each client process a `conn_`. **Operations.** Each call of `DbService` is a transaction
  (`ExecuteTransaction`) of a few statements, most with a log entry in a subtransaction;
  `CreateDatabase`, `FillDatabase`, `DropDatabase` and `Connect`, `Disconnect` around them.
* **Correct when** foreign keys hold, time stamps follow the status whatever order statuses
  come in, a change and its log entry are kept or undone together, no session is left on a
  database that was dropped, and every call returns.

### Tools

* **Timers** (`ClockArray`, `chronoClock`): a stack of open sections and maps of start times
  and totals, shared by all threads behind one mutex; correct when no thread's time is lost,
  counted twice or credited to another section.
* **Dipole solver** (`Dipoles`): an object with the matrices of a configuration that is
  reused for the next one; correct when a solution belongs to the configuration given last
  and both functions of the direction graph read the same entries of it.
* **Coordinate generation** (`coordGenerate`): a loop over simulations in five modes, with
  objects that are shared, copied or made for each thread; correct when the average holds
  each simulation once, with its own solution.
* **Printers and parsers**, **JSON structures** (`networkTypes`), **connection strings**:
  correct when what is written is read back, by whoever reads it, or is refused.

`PROJECT.json` lists every part of the repository with the reason why it is or is not
modelled.

### How the parts interact

`client --REST--> main node --HTTP--> worker` for control, `main node --REST--> broker`
for exchanges, queues and bindings, `main node --AMQP--> broker --AMQP--> worker` for
blocks. The worker and the broker can change state while a handler of the main node
waits for either. What is hard: processes that die and start anew with empty memory
while the other side remembers; half-done sequences of REST calls; answers that describe
a state that is gone; connections that break while another thread uses them; blocks that
come again because their acknowledgement was lost; transactions that wait for each other;
unsigned arithmetic on shares. The hazards, each at its line with the properties that cover it,
are the list `hazards` of `PROJECT.json`.

## 2. Modules

| module | models | extends / instantiates |
|---|---|---|
| `TaskPartition` | abstract: what dividing a task promises | |
| `TaskSlicing` | `SendToExecution`, `PublishMessage`, `SliceAway` | implements `TaskPartition` |
| `FiniteSums` | facts about naturals, finite sets and sums, with proofs | `FiniteSetTheorems`, `TLAPS` |
| `TaskSlicingProofs` | theorems about it | `TaskSlicing`, `FiniteSums`, `FiniteSetTheorems`, `TLAPS` |
| `Cluster` | the pool, `connect_*`, `disconnect_*`, workers, queues | |
| `ClusterProofs` | theorems about it | `Cluster`, `FiniteSums`, `TLAPS` |
| `AmqpLife` | abstract: what one sees of an AMQP service | |
| `AmqpService` | `Connect`, `Disconnect`, the event loop, its callbacks | implements `AmqpLife` |
| `AmqpServiceProofs` | theorems about it | `AmqpService`, `TLAPS` |
| `AtLeastOnce` | abstract: what the delivery of blocks promises | |
| `Delivery` | publisher, exchanges, queues, sessions, callback, acknowledgement | implements `AtLeastOnce` |
| `DeliveryProofs` | theorems about it | `Delivery`, `SequenceTheorems`, `TLAPS` |
| `CompNode` | the threads inside a worker | |
| `CompNodeProofs` | theorems about it | `CompNode`, `TLAPS` |
| `Database` | `DbService`, `dbCommon`: transactions, locks, sessions | |
| `DatabaseProofs` | theorems about it | `Database`, `TLAPS` |
| `Timers` | `ClockArray` and its users | |
| `Dipoles` | the solver object, its equations, the indices of both functions | |
| `CoordGenerate` | the five modes of `coordGenerate` | |
| `Records` | meshes, printers, parsers, JSON of arrays | |
| `ConnectionStrings` | setters, format and scan of both classes | |
| `WireTypes` | constructors from JSON and `ToJson` of all structures | |
| `ToolsProofs` | theorems about the six tools | `WireTypes`, `Timers`, `Dipoles`, `ConnectionStrings`, `CoordGenerate`, `Records`, `FiniteSums`, `FiniteSetTheorems`, `SequenceTheorems`, `TLAPS` |
| `MCTaskSlicing`, `MCCluster`, `MCAmqpService`, `MCDelivery`, `MCCompNode`, `MCDatabase`, `MCDipoles` | the instances for TLC | one module each |
| `MCTools` | the six tools side by side | `Timers`, `Dipoles`, `CoordGenerate`, `Records`, `ConnectionStrings`, `WireTypes` |

A definition whose comment begins with "Mutant" is a plausible bug: the same handler
with a guard dropped, a reset forgotten or an index off by one. No specification uses
it; it documents what a property is able to notice (`mutants` in `PROJECT.json`).

The modules meet at their abstractions. `Cluster` uses connections as `AmqpLife` describes
them, which `AmqpService` implements; `Delivery` takes from `Cluster` that a node which joins
has a queue and consumes, and from `CompNode` that a block whose arguments name no generator
ends a process whose threads have none; `TaskSlicing` ends where `Delivery` begins, at
`PublishMessage`.

### TaskSlicing

One call of `SendToExecution` is `Request`, then one step per turn of the loop
(`SliceTurn`, or `SliceThrows` when `SliceAway` throws through the handler, which drogon
turns into a 500), `PublishRemainder` for the last node, and `Answer`. `unvisited` stands
for the iterator `it` together with `it2`: the order of an `unordered_map` is arbitrary,
so any node may come next, and `unvisited = {v}` is the end of the loop. The pool is fixed
during a call, as the handlers run one at a time; `LoseConnection` is the event loop's
thread and interleaves with the turns.

* `ts` is what is still to be given away, `task` the range that the client sent, `handed`
  the blocks passed to `PublishMessage` with the fact whether there was a connection.
* Sums and products are taken modulo `Word`, for `size_t`.
* `RecomputeCoefficients` calls `JsonToContinuous(val, true, true)`; the second argument
  is the size, so exactly one entry is kept (`StoredPositions == {0}`).
  `iters[NIndex(n)]` reads the right entry for the first size of `ns` and past the end for
  any other; such a read finds any of `GarbageWords` (undefined behaviour). `Measured`
  names the tasks for which no such read happens. For other tasks the sums of `SliceAway`
  may wrap around, and blocks may overlap: the properties and the refinement speak of
  measured tasks (`Measured`) only.

### Cluster

One action for each step of a handler that others can interleave with. `connect_node` is
`ConnectNode` (409 for active nodes or without a publisher leave the state as it is and are
not steps), `FindQueue`, `CreateQueue`, `BindQueueToExchange`, `SendConnect`, the worker's
own step, and `ConnectSucceeds`, `ConnectDivides`, `RequestRefused` or `NoResponse`.
`RestFails` ends it at any REST call, with what was done left done. `call` is the handler
that runs, `http` its HTTP call: a request, a reply, or broken off without a response.
An AMQP service is `down`, `up` or `lost`; `AmqpLife` says how these follow each other, and
`AmqpService` implements it. Workers may be killed (`WorkerKilled`), started again with
empty memory (`StartWorker`), and finish their benchmark at any time. Benchmarks of
connected nodes are the vector's first entry; 0 means that there is none. A division by
that 0 (`ConnectDivides`), a null response (`NoResponse`) and the assignment to a joinable
thread (`ConnectLostPublisher`) end the main node, which may start anew with empty maps.

### AmqpService

`pc` walks through `Connect` (`Connect`, `SpawnThread`, `GetFuture`) and `Disconnect`
(`Disconnect`, `PostClose`, `Join`, `FreeObjects`); a failed `Connect` calls the latter
itself (`failing`). The loop's steps are `RunPosted` (the handler that `Disconnect` posted,
which closes the connection that it finds when it runs), the callbacks, and `RunReturns`.
AMQP-CPP and the broker are modelled by the order of their callbacks: `onConnected`
first, then the channel's answer; on a failure the channel's error before the handler's.
`posted` survives a `Disconnect`, as `io_service` keeps its queue through `stop` and
`reset`.

### Delivery

A block's way: `PublishBlock` puts it on the `wire`, `Route` reads it in order and either
appends it to the queue that is bound to its key or drops it; publishing to an exchange that
somebody deleted makes the broker close the channel, which `IsConnected` does not show
(`channel = "closed"`). `Deliver` hands a block to the session of the queue's worker, and the
broker remembers it in `unacked`; `Receive` and `ComputeAndAck` are the two ends of
`message_callback_`. When a session ends, in whatever way (`WorkerDies`, `BadBlockKills`,
`LoseConsumer`, `DisconnectNode`), `Requeue` puts the unacknowledged blocks back, while a loop
whose connection broke goes on with what it had read (`"broken"`) until it notices
(`NoticeLoss`): the block is then computed twice, and rightly so. A session whose thread was
not joined is `"ended"`; only a new process connects again. The calls of `RabbitMQRestService`
that change exchanges, queues and bindings are actions that anybody may take (`Meddle`).
RabbitMQ itself is external: its rules (order on one channel, drop without a binding, requeue
at the front, consumers cancelled with their queue) are modelled from how the code uses it.

### CompNode

Three threads and a team. The benchmark thread measures, moves the result to `bench_res_`
without a lock (`Assign`: size and data are two words, in either order) and sets the flag.
The REST thread looks at the flag (`GetStatus`) or does not (`ConnectRequest`) and copies in
the same two steps; a size without data is a read through a null pointer and ends the process
(`ReadNull`). The callback is `StartBlock`, for each thread `MakeGenerator`,
`ComputeIteration`, `EnterCritical`, `AddToSum`, and `FinishBlock` behind the barrier; an
unknown type throws out of the parallel region (`ParseFuncThrows`) and ends the process.
`res` counts its terms, so that a lost or doubled iteration shows; it starts with the first
coordinates of the mesh (`Coordinates`), which is what the code does. `first_type` remembers
the type of the connection's first block: the generators of a new event loop's threads are
new, all others are kept.

### Database

`step` walks through a call: `"begun"`, a second statement (`"update"`), `"log"`, `"commit"`,
and for `CreateDatabase` and `DropDatabase` the statements on `template1`. A statement writes
into its transaction `txn`; a row that another transaction has written (`Locked`), a login
that another one is inserting and a row that a foreign key shares (`shares`) are waited for,
by a guard that is not met. `Commit` applies all, `Throw` and a lost session undo all,
`CommitInDoubt` applies all and tells the caller that it failed. A session that the server
ended is `"stale"` until a statement finds out (`StatementBreaks`), as `is_open()` does not
ask the server. `DropDatabase` is four statements, with other clients between them.

### The tools

* `Timers`: `Tik` and `Tak` as the mutex orders them, with the time of `Tak` read before
  (`TakTime`). Threads run programs, the uses that the project makes of the clock
  (`BenchmarkRunner`, the benchmark handler, an OpenMP loop). A program is well nested
  (`Nested`): each `Tak` ends the section that its thread opened last, and at the end none is
  open; `OpenAt` lists the open sections before each step. `TimesAreTrue` holds for one thread
  with any such program, and for several with one section; several threads with different
  sections do take each other's line from the top of the stack, and no program of the project
  does so.
* `Dipoles`: integer matrices (those of a pair times `r^5`), `cos` and `sin` as two numbers.
  A solution is kept as the equations that give it (`tt * x = num`), so nothing is inverted.
  `ObjectIsRenewed` compares what a reused object holds with the configuration given last, for
  any number of dipoles; `SystemIsSolved` is about the numbers.
* `CoordGenerate`: one step per statement of the loop; data are the number of the simulation
  that they come from, references stay references until they are read.
* `Records`: texts as words and line ends, `>>` and `getline` as they consume them.
* `ConnectionStrings`: strings as words (`Tokens`), what remains when delimiters become spaces; a
  caller may set a text to any of `Inputs`, sequences of words.
* `WireTypes`: a structure is its table of fields, where each is read and where it is written. The
  arguments of a task are made by `JsonToVariant`, which refuses arrays and objects; the value of
  a global parameter stays a raw `Json::Value`, which is never refused (`networkTypes.h:253`).

## 3. Runs

| run | instance | what it shows |
|---|---|---|
| `task_slicing` | 3 nodes, indices 0..5, words of 24, speeds {1, 2, 5} | blocks disjoint, complete, balanced; refines `TaskPartition` |
| `cluster` | 2 workers and 1 broker, or 1 worker and 2 brokers | maps, sum of speeds, knowledge of who consumes, right broker, sound activation, handlers end |
| `amqp_service` | at most 2 close handlers queued | served, safe to free, promise once, calls return, refines `AmqpLife` |
| `delivery` | 1 worker, 2 brokers, 2 blocks, 2 faults, 1 use of REST | no spurious repeats, blocks reach a node that listens, queues drain, refines `AtLeastOnce` |
| `comp_node` | a team of 2, 3 blocks, 2 sizes | sums complete, one generator, whole answers, blocks and requests end |
| `database` | 2 clients, 1 row per table | foreign keys, time stamps, log with its change, sessions, calls return |
| `tools` | the six tools | clock, renewed solver and its equations, averages, records, strings, JSON |
| `task_unsent` | 2 nodes | **violated**: 200 for a task that was not sent |
| `cluster_bound` | as `cluster` | **violated**: an active node whose queue is not bound |
| `cluster_reconnect` | the same | **violated**: following the advice to reconnect terminates it |
| `amqp_lasts` | as `amqp_service` | **violated**: a connection closed by an old close handler |
| `dipole_functions` | 1 to 3 dipoles | **violated**: the analytic function reads another entry |

**Bounds.**

* `task_slicing`: three nodes are the least for which the loop has a first, a middle and a last
  turn and roundings of two nodes add up. `MaxIndex` 5 gives ranges of 0 to 6 iterations,
  also reversed ones, so that shares of zero, of one and of everything occur; `Word` 24 is
  more than twice `MaxIndex` (what `asUInt` and 64 bits give) and less than 5 * 6, so that the
  product does wrap around. `GarbageWords` are zero, a small word and the largest.
* `cluster`: `kBenchInfinity` 6 and benchmarks {1, 2} give speeds 6 and 3, so that adding the
  one and subtracting the other would show. The variable `trouble` of `MCCluster` splits the
  instance: with `"pool"` two workers, each started again at most once, enough for a benchmark
  that changes between two connects; with `"links"` one worker started again twice (it dies
  again as a member of the pool), a second broker for a `connect_publisher` to another host,
  and one restart of the main node. The two do not constrain what is fair.
* `amqp_service`: `MaxPosted` 2 allows a close handler that was left over to meet a new one;
  the theorems need no bound.
* `delivery`: queues of different workers share nothing but the publisher, so one worker is
  enough; two blocks, one of them `Bad`, so that the other one may wait behind it or warm the
  threads for it; two faults for a redelivery that fails again; the second broker for a
  publisher that moves. Faults of the main node are counted up to `MaxFaults` but never
  refused, as they add no state.
* `comp_node`: ranges 1..3 and 2..3 over two threads leave threads without, with one and with
  several iterations; the two known types and an unknown one give every history of generators.
* `database`: one row per table makes all transactions meet on it; one login and two
  passwords; one client runs an experiment, the other one administers. `Wrap` 2 counts log
  entries modulo 2, enough to tell zero, one and the absence of one.
* `tools`: two threads and six programs of the clock, up to `MaxTime` 4, which gives sections
  different lengths; one or two dipoles in four configurations, so that sizes change in both
  directions; three simulations for two threads, so that one thread has two; two records in
  every order, meshes that are and are not square; 32-bit numbers below `Word32` 4 with 3, 4 and
  5 around the limit; documents are passed on twice, as client, main node and worker do; a text
  of a connection string is empty, a word, a number, or both.

**Deadlock.** It is checked for `TaskSlicing`, `Delivery` and `Database`. The other runs do
not check it: a terminated process (`crash # "none"` with no restart left in `Cluster`,
`pc = "dead"`, `~ alive`) and a tool that has done its work are states in which the system
really stops.

**Fairness.** `Cluster`: weak fairness of the running handler (`HandlerStep`) and of each
worker's handler (`WorkerStep`), as the thread of a handler runs on, and REST
calls and the worker's AMQP calls end one way or the other; none of clients, deaths, restarts,
benchmarks or losses. `AmqpService`: weak fairness of the calling thread, of the event
loop's handlers, and of the broker as far as it has to answer at all: an attempt to connect
succeeds or fails, a channel is opened or refused, a close is answered. A connection in
use need never fail. `Delivery`: weak fairness of `Route` and of what a worker's loop and its
session do (`Works`), as broker and loop keep running; a process that died need never come
back. `CompNode`: weak fairness of each thread while the process is alive. `Database`: strong
fairness of what goes on in a begun call (`Proceed`), as PostgreSQL serves the waiters
of a lock in turn, so a call is not overtaken for ever; nobody has to begin one. `TaskSlicing`
and the tools state no liveness.

**What the runs tell beyond their tables.** A block that ends the process of every worker it
reaches (`Bad`) comes back to the front of its queue each time, so `QueueDrains` must except it.
`BlocksReachTheirNode` needs `~ switched`: after `connect_publisher` to another host, blocks of
active nodes are dropped without a word. `OneGenerator` states what the code does, which is
not what a block asks for. `RecordsComeBack` excepts coordinates for people that are not the
first record on a stream, and `ObjectsComeBack` the connection name of a channel;
`SimulationsAveraged` excepts the mode `openmp_old`, whose private meshes are never
constructed. `SystemIsSolved` is checked for one and two dipoles, whose blocks commute; with
three they need not, and the formula of `Solve` is an approximation.

## 4. Disagreements of the code with its documentation

The five runs marked violated, each with the line of the code and the text that it
contradicts, are the `findings` of `PROJECT.json`. In short: `SendToExecution` ignores the
answer of `PublishMessage`; a queue whose binding failed is never bound by a retry; a service
whose connection was lost cannot connect again in the same process; a `Disconnect` without a
connection leaves a close handler that ends the next connection; `i_2_function_` reads
`j + 1 + 2 * n` where `ifunction_` reads `2 * j + 1 + 2 * n`, which differs from three
dipoles on, while the tests that compare the functions have two at most. The model knows which
amplitudes the two functions take and not what they do with them, so two more differences are
outside it: `sin(params::omega)` without `t0` in one entry of `vi` (`Dipoles.h:237`), and
`b_ajs` made from `bi` instead of `bj` (`Dipoles.h:321`).

Modelled as the code behaves, without a run of its own: one benchmark value is kept
instead of one per size (`StoredPositions`, `GarbageWords` in `TaskSlicing`), and every HTTP
failure but `BadServerAddress` dereferences a null response (`NoResponse` in `Cluster`).

## 5. What is proved

Every invariant and action property that a passing run checks is a theorem of its
specification (`SystemIsSolved` under a condition, below); so are the three refinements. The theorems hold for
arbitrary constants under the named assumptions of the modules, which TLC evaluates on every
run that extends the module; the bounds of section 3 play no part in them.

**Assumptions.**

* `SizesAssumption` (`TaskSlicing`): finitely many nodes, positive speeds, and
  `2 * MaxIndex + 1 < Word`: indices are read by `asUInt` and computed with as `size_t`.
* `DistanceAssumption` (`Dipoles`): coordinates are integers, and so is the distance of any two
  dipoles of a configuration, up to `MaxDistance`; this keeps the matrices in integers.
* `ClusterAssumption`, `DeliveryAssumption`, `CompNodeAssumption`, `GenerateAssumption`: null
  values are no values (`NoBroker`, `NoBlock`, `Unmade`, `Free`, `None`), there are finitely many
  workers (the speeds of the active ones are added up), a benchmark is
  between 1 and `kBenchInfinity`, bounds are natural numbers and `MaxFaults`, the bound of a
  counter that says whether anything went wrong, is at least 1.
* `AmqpAssumption`, `DatabaseAssumption`, `WireAssumption`: `MaxPosted`, the ids, the calls
  and `Word32` have the types that their uses need.
* `UsesAssumption` (`Timers`): finitely many threads, and their programs are well nested.
* `StringsAssumption` (`ConnectionStrings`): what a caller sets a text to is a sequence of words,
  and the default port is a number.
* `DipolesAssumption` (`Dipoles`): a configuration has two coordinates for each of at least one
  dipole, and the number of dipoles divides the integer `A`, which keeps the model in integers.
* `RecordsAssumption` (`Records`): there is at least one dipole, meshes and matrices have two rows
  and two columns at least, and the limits of a mesh are strictly ordered naturals (`MyLinspace`
  throws for equal ones) whose steps are whole for each of the dimensions (`Fits`), so that
  naturals can stand for its doubles.

**FiniteSums**: induction, stated about a set instead of an operator: a set of naturals that is
not empty has a least member (`LeastNatural`, from the well-foundedness of `<`), so a set
that holds 0 and with each number the next one holds all (`NaturalInduction`), and likewise for
the subsets of a finite set (`SubsetInduction`). From these: the recursive function behind
`SumFunctionOnSet` exists and is unique, so a sum is a natural (or integer) number, zero over
nothing, has one more term for one more member, depends only on the terms it is over, is
linear, and products of sums may be exchanged. No assumption on sums is left.

**TaskSlicingProofs**: `TypeCorrect`, `BlocksDisjoint`, `BlocksComplete`, `BlocksBalanced`,
`ThrowsForSlowNodes`, `Refinement`. Disjointness is not inductive: it does not say where a
block lies. `IInv` adds `SlicedSoFar`: the blocks handed away are exactly the indices from
`task.first` to `ts.first - 1`, and nodes with a block are behind the iterator. The argument
why no sum wraps around (`ShareFits`): the loop turns only with two nodes left, so the divisor
is at least 2 (`DivisorOK`), a share is at most half a word (`HalfQuotient`), and an index
less than the other half. With it `SliceAway` gives true sums, and each turn is a step
`Give` of `TaskPartition`. Balance needs `Shares` beside `IInv`: each earlier block is
its node's `FairShare`, and what remains is at least what the unvisited nodes earn by their
speeds and exceeds it by less than one iteration for each node that has a block. A
throw then means a share of zero. For a task that is not `Measured` only the types are kept.

**ClusterProofs**: `TypeCorrect`, `MapsAreDisjoint`, `SameBroker`, `NoUnknownConsumer`,
`ActivationIsSound`, `SumIsKept`. `IInv` adds what a reply means while it waits to be read
(`AnswersAreTrue`: the worker listens at `q_host_` or has lost its consumer; after a
disconnect it has stopped) and `ConsumersKnown`: a worker that consumes is active or its
reply is under way. Without these a reply that outlives its worker would make the
invariants fail at the next step. `SumIsKept` needs besides that no speed exceeds
`kBenchInfinity` (`SpeedSum`): a benchmark is at least 1, and the speed that is subtracted is
the one that was added, as a speed changes only while its node is not active.

**AmqpServiceProofs**: `TypeCorrect`, `ConnectedMeansServed`, `SafeToFree`, `AnsweredOnce`,
`Refinement`. `IInv` adds `WorkIsForALoop` (what keeps a loop alive is there for one that runs
or is about to), `NoThreadWhileFree`, `FreshAttempt` and `OpenIsConnected`.

**DeliveryProofs**: `TypeCorrect`, `NoRepeat`, `ReachTheirNode`, `Refinement`. The proof
follows a block through the sets of places it can be in, and the lemmas say what `Append`,
`Tail` and `\o` do to the blocks of a sequence and to its having none twice. `IInv` says
what a session holds in each of its states (`SessionOK`), that no place holds a block twice
(`NoDuplicates`) and that no block is in two places, but for one that went back to its queue
while a worker without its session still computes it (`Places`). `NoRepeat` adds that a block
was computed, or still will be by those who hold it, once and once more for each return
(`Counted`), the refinement that `fate` tells what
`AtLeastOnce` asks about each block (`FateOK`), and `ReachTheirNode` that, as long as nothing
disturbed the cluster, the publisher's broker is the one that every active node consumes from
and has its queue bound at (`UndisturbedOK`).

**CompNodeProofs**: `SumIsWhole`, `FirstTypeRules`, `WholeAnswers`. `IInv` has three parts that
hardly meet. `Accounted`: each iteration of the block is owed by exactly one thread, once, or
is in `res`, once; with `Exclusive` (a copy of `res` is the current one, and only who is in the
critical section has one) the sum is complete when nobody owes anything. `Generators`: all
generators of a connection, and what was drawn from them, are of its first block's type.
`Published`: the flag is set after both words of `bench_res_`, and `GetStatus` reads only under it.

**DatabaseProofs**: `TypeCorrect`, `KeysHold`, `StampsHold`, `NoDroppedSession`,
`LoggedChanges`. What makes the tables right at a commit is known of the transaction before:
`IInv` says that it holds something only on a live session between its statement and its end
(`Sessions`), that no two have written the same row (`RowLocks`), that what they wrote is a
row with its stamps (`WritesTyped`), that who is being deleted is referred to by nothing, committed
or written (`DeletionsFree`), and that what is written refers to rows that are there and are
kept by a lock (`WritesRefer`).

**ToolsProofs**: six tools in one module.

* `EachSimulationOnce`, for every number of simulations, every team and all five modes but the
  one that the property excepts. `GenInv`: a simulation that was begun is held by exactly one
  thread or is in the sum (`OwnSimulations`, `SumOfDone`), and what a thread's object and
  mesh hold at each statement is of its own simulation (`ObjectsAreOwn`).
* `PassedOnWhole`: for each structure of `networkTypes`, whatever document arrives is refused
  at once or survives any number of parties that read and write it, for every width of a number.
  `WireInv` says that the object is what the first document said of its fields and that
  each document written says the same; what is kept raw, the value of a global parameter, always
  converts, arrays and objects too. It rests on tables whose fields are read where they are
  written (`StructuresAreWellFormed`) and on a number that converts being cut by no cast
  (`NothingIsCut`).
* `TrueTimes`: for one thread with any well-nested program and for any number of threads with
  one section. `TimersInv` says what is on the stack of the open sections in both cases
  (`StackOfOne`, `StackOfAll`), that a section's start time stays from `Tik` to `Tak`
  (`StartsAreKept`), and that the second clock stays empty until a reset (`SecondClock`).
* `SolverIsRenewed`: for configurations of any number of dipoles, in any order, with matrices
  from a file in between. The lemmas compute which entry of which block each index of the
  assembled matrix is.
* `CommutingSystemsAreSolved`: for any number of dipoles, whatever the object computed before, a
  solution solves the assembled system whenever the two blocks of the configuration commute.
  `SolutionInv` says that the solution is the one that `Solve`'s formulas give for the object's
  matrices and right part as they are now; `SystemByHalves` splits the assembled equations into
  those of the blocks, `SquaresCommute` and `NumeratorsSolve` are the algebra of the formulas.
* `SystemsOfTwoAreSolved`: if all configurations have one or two dipoles, `SystemIsSolved` holds
  without that condition. `OneDipoleCommutes`: the blocks are diagonal. `TwoDipolesCommute`: both
  dipoles see the same numbers in opposite directions (`OppositeDirections`), so both blocks have
  one `Form`, and two of it commute under one equation (`FormsCommute`), which holds (`PairCommutes`).
  Nothing is claimed for three dipoles without the condition: their blocks need not commute.
* `ScannedAsSet`: for all words. `StringsInv` says that the formatted string is that of the
  fields, but for an object as a default constructor leaves it; the lemmas count the words of a
  plain string (`OneWordMore`), so that the scan takes each from its own field.
* `RecordsSafe`, for any number of records in any order, of all sizes and dimensions and with
  every header. `RecordsInv`: the stream holds the concatenation of the printed records that were
  not read, behind the end of the line that the last parser left (`Lead`). `RecordsComeBack`
  alone is not inductive: it says nothing of what is still on the stream. The argument has two
  halves. A printed record ends in a word and its line end (`PrintedIsClosed`), so that a parser
  which reads as many words as its record has leaves that line end and the next records
  (`AfterItsWords`, `ReadPart`). And it finds each value where the printer put it:
  `PlaceInPieces` and `FlattenPieces` give the place of an entry in a text of equal lines, and
  one lemma for each printer and its parser compares the two indices (`OneDimComesBack`,
  `MatrixComesBack`, `MeshComesBack`, `CoordinatesComeBack`, `SolutionComesBack`,
  `TableComesBack`). Limits that are not printed in a table for people are read off its first
  line and column, which works because a linspace ends at its upper limit (`Linspace`).
  Coordinates for people skip a line before they look for the number: this finds their title only
  at the start of a stream, behind another record it makes `ParserThrows` true
  (`CoordinateRecord`). What `FlattenSeq` and with it `Words` compute is known by induction over
  the pieces of a sequence, stated about a set (`NaturalInduction`, `SequenceInduction`).
  A JSON document holds one record and does not touch the stream (`JsonOfNumbers`, `JsonOfMesh`).

**Only model-checked.**

* `CallsEnd`, both `CallsReturn`, `QueueDrains`, `BlocksEnd`: liveness under fairness is out of the
  prover's reach.
* `SystemIsSolved` for configurations of three dipoles and more whose blocks do not commute:
  nothing is claimed for them, and no run checks it for them.
* The properties of the runs marked violated, which do not hold.

## 6. What is abstracted or not modelled

* Names, passwords, tags and arguments of a task; logs. A worker and its queue have
  one name, `host:port`, as in the code.
* `bench_res_` is copied by the worker's `Connect` in one step in `Cluster`; the race with
  `RunBench` is in `CompNode`.
* `Connect` on a service without a connection string; the destruction of an old
  connection object in the caller's thread at the next `Connect`; `service_.run` being
  entered while a former loop still runs, as the process has terminated before.
* In `Cluster` the publisher may be `lost` between the check and the use in one handler, but
  a REST call that never returns is not modelled, and drogon's shutdown is not.
* `Publish` uses the channel from an HTTP thread while the event loop uses it. The race is
  inside AMQP-CPP; `Delivery` takes `Publish` as one step.
* A worker's process ends without the destructors of its members (`CompNodeService.h:34`).
* `RabbitMQRestService`: users, global parameters and message counts are requests without an
  effect on the rest.
* `Database`: payloads (parameters, scores, messages, roles, `last_login`), times other than
  "set" and "not set", ids beyond the first. Deadlock detection of PostgreSQL is not needed: no
  call waits for a row while it holds one that another call waits for.
* Numerical code: rounding, inversion, integration, the distributions, the values of the
  functions, `MeshPlot` and the averages.
* `Records`: precision, Eigen's delimiters, stream states, and meshes of a dimension below two,
  for which a parser computes `dims[0] - 2` below zero; limits that are equal, for which
  `MyLinspace` throws (`MeshCreator.h:213`).
* `WireTypes`: what `asString` and `asBool` make of a value of another kind, where a document holds
  one.
* No run checks a type invariant for `TaskSlicing`, `CompNode` and the tools: the types of their
  variables are part of the inductive invariants, in the modules with the proofs.

Not modelled at all: the shared helpers (types, exceptions, casts: no state); the Qt plots, the
programs that request information and `avgsTest` (windows and output only); the helpers of the
tests; the experiments `aqmpProd` and `aqmpCons` (stand-alone trials).

## 7. Plan

1. **Dipoles**: what makes the blocks of three dipoles and more commute.
2. **Cluster**: an action property on `normalized_` (a step changes it exactly by the speed of
   the node that moves), which needs no sum.
3. **Meshes**: dimensions below two, which a parser turns into `dims[0] - 2` below zero.
