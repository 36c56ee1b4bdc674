------------------------------ MODULE CompNode ------------------------------
(***************************************************************************)
(* Inside a worker: the thread that runs the benchmark, the REST thread    *)
(* that answers Connect, Disconnect and GetStatus, and the event loop of   *)
(* the consumer, whose message callback computes a block with a team of    *)
(* OpenMP threads.                                                         *)
(*                                                                         *)
(* An iteration is its index: what is told apart is which iterations are   *)
(* in a sum, how often, and which distribution they were drawn from.       *)
(***************************************************************************)
EXTENDS Integers, FiniteSets, Functions

CONSTANTS Team,           \* the OpenMP threads of the callback
          Blocks,         \* tasks for this worker
          Block,          \* m |-> [first, last, type]
          Types,          \* keys of stringToDistributionType
          Unmade,         \* no generator
          NoBlock, Sizes  \* number of systems to measure

Free == "free"   \* the critical section, when no thread is in it

Iterations == UNION {Block[m].first .. Block[m].last : m \in Blocks}

ASSUME CompNodeAssumption ==
  /\ NoBlock \notin Blocks /\ Unmade \notin Types /\ Free \notin Team
  /\ Sizes \in Nat
  /\ \A m \in Blocks : Block[m].first \in Nat /\ Block[m].last \in Nat

VARIABLES
  \* the benchmark thread and what it shares with the REST thread
  bench,          \* [measured, size, data]: entries measured, bench_res_'s two words
  characteristic_computed_,
  rest,           \* the REST thread: [op, at, size], and what it answers in the end
  answers,        \* history: <<op, benchmark in the answer>>
  \* the event loop
  connection,     \* "none", "running" or "lost": the loop ended by itself, nobody joined it
  todo,           \* blocks not received yet
  block,          \* the block in the callback
  \* the parallel region
  share,          \* iterations a thread has still to do
  functor,        \* thread_local generator of each thread
  drawn,          \* the iteration whose result a thread holds and the type it was drawn from
  copy,           \* the res a thread has read for its +=
  critical,       \* the thread in the critical section
  res,            \* the shared sum, as a count of its terms
  source,         \* history: the type each iteration was drawn from
  sums,           \* history: block |-> [res, source] of the finished ones
  first_type,     \* history: type of the first block of the connection
  alive           \* the process

rest_vars == <<bench, characteristic_computed_, rest, answers>>
region == <<share, functor, drawn, copy, critical, res, source>>
vars == <<rest_vars, connection, todo, block, region, sums, first_type, alive>>

\* The terms of res.
Coordinates == -1
Terms == Iterations \union {Coordinates}

NoTerm == [iteration |-> Coordinates, type |-> Unmade]

\* An exception nobody catches, or a read through a null pointer.
Terminate ==
  /\ alive' = FALSE
  /\ UNCHANGED <<rest_vars, connection, todo, block, region, sums, first_type>>

----------------------------------------------------------------------------
(* RunBench.  bench_res_ is moved to without a lock: its size and its data  *)
(* pointer are two words.                                                   *)

\* Mutant: the member is filled while the systems are measured.
Measure_InPlace ==
  /\ bench.measured < Sizes
  /\ bench' = [measured |-> bench.measured + 1, size |-> Sizes, data |-> bench.measured + 1]
  /\ UNCHANGED <<characteristic_computed_, rest, answers, connection, todo, block, region, sums, first_type, alive>>

Measure ==
  /\ bench.measured < Sizes
  /\ bench' = [bench EXCEPT !.measured = @ + 1]
  /\ UNCHANGED <<characteristic_computed_, rest, answers, connection, todo, block, region, sums, first_type, alive>>

Assign ==
  /\ bench.measured = Sizes
  /\ \/ bench.size = 0 /\ bench' = [bench EXCEPT !.size = Sizes]
     \/ bench.data = 0 /\ bench' = [bench EXCEPT !.data = Sizes]
  /\ UNCHANGED <<characteristic_computed_, rest, answers, connection, todo, block, region, sums, first_type, alive>>

StoreComputed ==
  /\ bench.size = Sizes /\ bench.data = Sizes
  /\ ~ characteristic_computed_
  /\ characteristic_computed_' = TRUE
  /\ UNCHANGED <<bench, rest, answers, connection, todo, block, region, sums, first_type, alive>>

----------------------------------------------------------------------------
(* The REST thread.                                                        *)

Idle == [op |-> "none", at |-> "idle", size |-> 0]
Goes(at) == rest' = [rest EXCEPT !.at = at]

\* The answer carries the n entries of the benchmark that were copied.
Answered(n) ==
  /\ rest' = Idle
  /\ answers' = answers \union {<<rest.op, n>>}

Request(op, at) ==
  /\ rest.at = "idle"
  /\ rest' = [op |-> op, at |-> at, size |-> 0]
  /\ UNCHANGED <<bench, characteristic_computed_, answers, connection, todo, block, region, sums, first_type, alive>>

\* GetStatus looks at the flag before it copies, Connect does not.
GetStatus == Request("status", IF characteristic_computed_ THEN "size" ELSE "skip")
ConnectRequest == Request("connect", "size")
DisconnectRequest == connection = "running" /\ Request("disconnect", "join")

SkipBench ==
  /\ rest.at = "skip"
  /\ Answered(0)
  /\ UNCHANGED <<bench, characteristic_computed_, connection, todo, block, region, sums, first_type, alive>>

ReadSize ==
  /\ rest.at = "size"
  /\ rest' = [rest EXCEPT !.size = bench.size, !.at = "data"]
  /\ UNCHANGED <<bench, characteristic_computed_, answers, connection, todo, block, region, sums, first_type, alive>>

\* With a size and no data yet the read goes through a null pointer.
ReadData ==
  /\ rest.at = "data"
  /\ rest.size > 0 => bench.data > 0
  /\ LET n == IF rest.size = 0 THEN 0 ELSE bench.data IN
     IF rest.op = "status"
       THEN Answered(n)
       ELSE rest' = [rest EXCEPT !.at = "connect", !.size = n] /\ answers' = answers
  /\ UNCHANGED <<bench, characteristic_computed_, connection, todo, block, region, sums, first_type, alive>>

ReadNull == rest.at = "data" /\ rest.size > 0 /\ bench.data = 0 /\ Terminate

\* 409 when connected, or when the broker refuses.
ConnectRefused ==
  /\ rest.at = "connect" /\ connection # "lost"
  /\ Answered(rest.size)
  /\ UNCHANGED <<bench, characteristic_computed_, connection, todo, block, region, sums, first_type, alive>>

\* Mutant: the event loop is always the same thread.
Connect_SameThread ==
  /\ rest.at = "connect" /\ connection = "none"
  /\ Answered(rest.size)
  /\ connection' = "running"
  /\ first_type' = Unmade
  /\ UNCHANGED <<bench, characteristic_computed_, todo, block, region, sums, alive>>

\* The event loop is a new thread, and so is its team.
Connect ==
  /\ rest.at = "connect" /\ connection = "none"
  /\ Answered(rest.size)
  /\ connection' = "running"
  /\ functor' = [t \in Team |-> Unmade]
  /\ first_type' = Unmade
  /\ UNCHANGED <<bench, characteristic_computed_, todo, block,
                 share, drawn, copy, critical, res, source, sums, alive>>

\* The thread of the lost connection is joinable: assigning another one terminates.
ConnectTerminates == rest.at = "connect" /\ connection = "lost" /\ Terminate

Disconnect ==
  /\ rest.at = "join" /\ block = NoBlock
  /\ connection' = "none"
  /\ Answered(0)
  /\ UNCHANGED <<bench, characteristic_computed_, todo, block, region, sums, first_type, alive>>

LoseConnection ==
  /\ connection = "running" /\ rest.op # "disconnect" /\ block = NoBlock
  /\ connection' = "lost"
  /\ UNCHANGED <<rest_vars, todo, block, region, sums, first_type, alive>>

----------------------------------------------------------------------------
(* n_message_callback.                                                     *)

\* The sum starts with the first coordinates of the mesh (data_[0]), not with zeros; how the
\* iterations are dealt out is left to OpenMP.
StartBlock(m) ==
  /\ connection = "running" /\ block = NoBlock
  /\ m \in todo
  /\ todo' = todo \ {m}
  /\ block' = m
  /\ \E deal \in [Block[m].first .. Block[m].last -> Team] :
       share' = [t \in Team |-> {i \in DOMAIN deal : deal[i] = t}]
  /\ res' = [x \in Terms |-> IF x = Coordinates THEN 1 ELSE 0]
  /\ source' = [i \in Iterations |-> Unmade]
  /\ first_type' = IF first_type = Unmade THEN Block[m].type ELSE first_type
  /\ UNCHANGED <<rest_vars, connection, functor, drawn, copy, critical, sums, alive>>

\* thread_local auto functor = ParseFunc(...): for the first block a thread sees.
MakeGenerator(t) ==
  /\ block # NoBlock /\ functor[t] = Unmade
  /\ Block[block].type \in Types
  /\ functor' = [functor EXCEPT ![t] = Block[block].type]
  /\ UNCHANGED <<rest_vars, connection, todo, block, share, drawn, copy, critical, res, source,
                 sums, first_type, alive>>

\* InvalidOption inside the parallel region.
ParseFuncThrows(t) ==
  /\ block # NoBlock /\ functor[t] = Unmade
  /\ Block[block].type \notin Types
  /\ Terminate

\* The dipoles of one iteration, up to data_[2] of the thread's own mesh.
ComputeIteration(t) ==
  /\ functor[t] # Unmade
  /\ drawn[t] = NoTerm
  /\ \E i \in share[t] :
       /\ \A k \in share[t] : i <= k
       /\ drawn' = [drawn EXCEPT ![t] = [iteration |-> i, type |-> functor[t]]]
       /\ share' = [share EXCEPT ![t] = @ \ {i}]
  /\ UNCHANGED <<rest_vars, connection, todo, block, functor, copy, critical, res, source,
                 sums, first_type, alive>>

\* Mutant: res += without a critical section.
EnterCritical_Unlocked(t) ==
  /\ drawn[t] # NoTerm /\ copy[t] = << >>
  /\ critical' = Free
  /\ copy' = [copy EXCEPT ![t] = res]
  /\ UNCHANGED <<rest_vars, connection, todo, block, share, functor, drawn, res, source,
                 sums, first_type, alive>>

EnterCritical(t) ==
  /\ drawn[t] # NoTerm /\ copy[t] = << >> /\ critical = Free
  /\ critical' = t
  /\ copy' = [copy EXCEPT ![t] = res]
  /\ UNCHANGED <<rest_vars, connection, todo, block, share, functor, drawn, res, source,
                 sums, first_type, alive>>

\* Mutant: the critical section is never left.
AddToSum_KeepsLock(t) ==
  /\ drawn[t] # NoTerm /\ copy[t] # << >>
  /\ res' = [copy[t] EXCEPT ![drawn[t].iteration] = @ + 1]
  /\ source' = [source EXCEPT ![drawn[t].iteration] = drawn[t].type]
  /\ copy' = [copy EXCEPT ![t] = << >>]
  /\ drawn' = [drawn EXCEPT ![t] = NoTerm]
  /\ UNCHANGED <<rest_vars, connection, todo, block, share, functor, critical,
                 sums, first_type, alive>>

AddToSum(t) ==
  /\ drawn[t] # NoTerm /\ copy[t] # << >>
  /\ res' = [copy[t] EXCEPT ![drawn[t].iteration] = @ + 1]
  /\ source' = [source EXCEPT ![drawn[t].iteration] = drawn[t].type]
  /\ copy' = [copy EXCEPT ![t] = << >>]
  /\ drawn' = [drawn EXCEPT ![t] = NoTerm]
  /\ critical' = Free
  /\ UNCHANGED <<rest_vars, connection, todo, block, share, functor,
                 sums, first_type, alive>>

\* The barrier of the parallel region; the sum is printed and the callback returns.
FinishBlock ==
  /\ block # NoBlock
  /\ \A t \in Team : functor[t] # Unmade /\ share[t] = {} /\ drawn[t] = NoTerm
  /\ sums' = [sums EXCEPT ![block] = [res |-> res, source |-> source, first |-> first_type]]
  /\ block' = NoBlock
  /\ UNCHANGED <<rest_vars, connection, todo, region, first_type, alive>>

----------------------------------------------------------------------------

Init ==
  /\ bench = [measured |-> 0, size |-> 0, data |-> 0]
  /\ characteristic_computed_ = FALSE
  /\ rest = Idle /\ answers = {}
  /\ connection = "none" /\ todo = Blocks /\ block = NoBlock
  /\ share = [t \in Team |-> {}] /\ functor = [t \in Team |-> Unmade]
  /\ drawn = [t \in Team |-> NoTerm] /\ copy = [t \in Team |-> << >>] /\ critical = Free
  /\ res = [x \in Terms |-> 0] /\ source = [i \in Iterations |-> Unmade]
  /\ sums = [m \in Blocks |-> << >>]
  /\ first_type = Unmade
  /\ alive = TRUE

BenchThread == Measure \/ Assign \/ StoreComputed
RestThread ==
  \/ SkipBench \/ ReadSize \/ ReadData \/ ReadNull
  \/ ConnectRefused \/ Connect \/ ConnectTerminates \/ Disconnect
TeamThread(t) ==
  MakeGenerator(t) \/ ParseFuncThrows(t) \/ ComputeIteration(t) \/ EnterCritical(t) \/ AddToSum(t)

Next ==
  /\ alive
  /\ \/ BenchThread \/ RestThread \/ LoseConnection \/ FinishBlock
     \/ GetStatus \/ ConnectRequest \/ DisconnectRequest
     \/ \E m \in Blocks : StartBlock(m)
     \/ \E t \in Team : TeamThread(t)

\* Threads run as long as the process does; the scheduler passes none over for ever.
Spec ==
  /\ Init /\ [][Next]_vars
  /\ WF_vars(alive /\ BenchThread) /\ WF_vars(alive /\ RestThread) /\ WF_vars(alive /\ FinishBlock)
  /\ \A t \in Team : WF_vars(alive /\ TeamThread(t))

----------------------------------------------------------------------------

\* The sum of a finished block has every iteration of its inclusive range once and nothing
\* else, but for the coordinates it was started with (BenchmarkRunnerService.h:80, :89, :98).
BlockSum == \A m \in Blocks : sums[m] # << >> =>
  \A x \in Terms :
    sums[m].res[x] = IF x = Coordinates \/ x \in Block[m].first .. Block[m].last THEN 1 ELSE 0

\* All iterations of a block are drawn from one distribution: that of the first block of the
\* connection, whatever the block itself asks for (BenchmarkRunnerService.h:84).
OneGenerator == \A m \in Blocks : sums[m] # << >> =>
  \A i \in Block[m].first .. Block[m].last : sums[m].source[i] = sums[m].first

\* An answer holds the whole benchmark or none of it, and GetStatus's holds it once it was
\* computed: bench_res_ is never shown half filled (CompNodeService.cpp:10, :50, :90).
AnswersAreWhole ==
  /\ \A a \in answers : a[2] \in {0, Sizes}
  /\ rest.op = "status" /\ rest.at = "data" => rest.size = Sizes /\ bench.data = Sizes

\* A block that was started is finished unless the process ends, and a request is answered:
\* the critical section and the join of Disconnect are always left.
BlocksEnd ==
  /\ block # NoBlock ~> block = NoBlock \/ ~ alive
  /\ rest.op # "none" ~> rest.op = "none" \/ ~ alive
=============================================================================
