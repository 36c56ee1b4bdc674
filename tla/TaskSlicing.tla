---------------------------- MODULE TaskSlicing ----------------------------
(***************************************************************************)
(* MainNodeService::SendToExecution: one task, an interval of iteration    *)
(* indices, is cut into one block per active worker node, in proportion to *)
(* the node's measured speed, and every block is passed to PublishMessage. *)
(* The handlers of the main node run one at a time (number_of_threads is   *)
(* 1), so the pool of nodes stays fixed during a call; the connection to   *)
(* the broker is served by another thread and may be lost between blocks.  *)
(*                                                                         *)
(* Sizes are size_t: sums and products are taken modulo Word.              *)
(***************************************************************************)
EXTENDS Integers, FiniteSets, Functions

CONSTANTS Nodes,         \* worker nodes that may be active
          MaxIndex,      \* bound: the largest iteration index a client names
          Word,          \* 2^64, the modulus of size_t
          Speeds,        \* the quotients kBenchInfinity / bench a worker may have
          Sizes,         \* positions of the benchmarked system sizes, ns
          UnknownSize,   \* what NIndex returns for a size that is not in ns
          GarbageWords   \* words an out-of-bounds read may find on the heap

ASSUME SizesAssumption ==
  /\ IsFiniteSet(Nodes)
  /\ MaxIndex \in Nat
  /\ Word \in Nat
  /\ 2 * MaxIndex + 1 < Word            \* indices are parsed by asUInt
  /\ Speeds \subseteq Nat \ {0}
  /\ 0 \in Sizes
  /\ Sizes \subseteq Nat
  /\ UnknownSize \in Nat \ Sizes
  /\ GarbageWords \subseteq 0 .. Word - 1

Indices == 0 .. MaxIndex
Ranges == [first : Indices, second : Indices]
NoRange == [first |-> 0, second |-> 0]
Blocks == [first : Indices, second : 0 .. Word - 1]  \* a share may wrap around

VARIABLES
  publisher,     \* "down", "up" (IsConnected()), or "lost" by a broker failure
  active,        \* the keys of worker_nodes_[ACTIVE]
  speed,         \* speed[v][i]: kBenchInfinity / bench that v measured for ns[i]
  normalized_,   \* entry 0 of the sum of the active nodes' node_speed_
  position,      \* NIndex(ts.N_)
  task,          \* the range the client sent
  ts,            \* the part of it that is still to be given away
  unvisited,     \* the active nodes from the iterator "it" on
  handed,        \* the blocks passed to PublishMessage
  response       \* the answer; "none" while the loop runs, "idle" between calls

pool == <<active, speed, normalized_>>
vars == <<publisher, pool, position, task, ts, unvisited, handed, response>>

Messages == [node : Nodes, range : Blocks, sent : BOOLEAN]
Span(r) == r.first .. r.second
IndicesOf(H) == UNION {Span(m.range) : m \in H}

----------------------------------------------------------------------------
\* JsonToContinuous(val, true, true): "true" is taken for the size, so that the
\* vector kept of a benchmark has one entry, the one at position 0.
StoredPositions == {0}
node_speed_(v) == [i \in StoredPositions |-> speed[v][i]]

\* The size of the task in hand is one that the kept vectors have an entry for.
Measured == position \in StoredPositions

RangeSize(r) == (r.second - r.first + 1) % Word

\* Mutant: shares of what is left instead of the task.
ItersToSlice_OfRest(v) ==
  IF position \in DOMAIN node_speed_(v)
    THEN {((node_speed_(v)[position] * RangeSize(ts)) % Word) \div normalized_}
    ELSE GarbageWords

\* iters = node_speed_ * itercount / GetSum(), then iters[NIndex(n)]: a read past
\* the stored entries finds some word of the heap.
ItersToSlice(v) ==
  IF position \in DOMAIN node_speed_(v)
    THEN {((node_speed_(v)[position] * RangeSize(task)) % Word) \div normalized_}
    ELSE GarbageWords

\* Mutants of SliceAway: a slice may not reach the last index; the rest begins at the
\* last index of the slice, or leaves one out.
CannotSlice_Last(r, k) == k = 0 \/ (r.first + k) % Word >= r.second
Rest_Overlaps(r, k) == [r EXCEPT !.first = (r.first + k - 1) % Word]
Rest_Skips(r, k) == [r EXCEPT !.first = (r.first + k + 1) % Word]

CannotSlice(r, k) == k = 0 \/ (r.first + k) % Word > r.second
Block(r, k) == [r EXCEPT !.second = (r.first + k - 1) % Word]
Rest(r, k) == [r EXCEPT !.first = (r.first + k) % Word]

\* PublishMessage checks the connection and answers 409 if there is none; the
\* caller ignores the answer.
PublishMessage(v, r) ==
  handed' = handed \union {[node |-> v, range |-> r, sent |-> publisher = "up"]}

----------------------------------------------------------------------------
\* The pool is whatever the earlier connect_node and disconnect_node left: the sum
\* is that of the active nodes (module Cluster checks that they keep it so).
Init ==
  /\ publisher = "down"
  /\ active \in SUBSET Nodes
  /\ speed \in [Nodes -> [Sizes -> Speeds]]
  /\ normalized_ = SumFunctionOnSet([v \in Nodes |-> speed[v][0]], active)
  /\ position = 0
  /\ task = NoRange
  /\ ts = NoRange
  /\ unvisited = {}
  /\ handed = {}
  /\ response = "idle"

\* send_task arrives with a range and a system size.
Request(r, p) ==
  /\ response = "idle"
  /\ task' = r
  /\ ts' = r
  /\ position' = p
  /\ unvisited' = active
  /\ response' = IF active = {} THEN "409" ELSE "none"
  /\ UNCHANGED <<publisher, pool, handed>>

\* Mutant: "it" is not advanced.
SliceTurn_Stays(v) ==
  /\ response = "none"
  /\ v \in unvisited
  /\ unvisited # {v}
  /\ \E k \in ItersToSlice(v) :
       /\ ~ CannotSlice(ts, k)
       /\ PublishMessage(v, Block(ts, k))
       /\ ts' = Rest(ts, k)
  /\ UNCHANGED <<publisher, pool, position, task, unvisited, response>>

\* One turn of the loop: "it" is at v and some node comes after it.
SliceTurn(v) ==
  /\ response = "none"
  /\ v \in unvisited
  /\ unvisited # {v}
  /\ \E k \in ItersToSlice(v) :
       /\ ~ CannotSlice(ts, k)
       /\ PublishMessage(v, Block(ts, k))
       /\ ts' = Rest(ts, k)
  /\ unvisited' = unvisited \ {v}
  /\ UNCHANGED <<publisher, pool, position, task, response>>

\* SliceAway throws shared::outOfRange, which nobody catches before drogon.
SliceThrows(v) ==
  /\ response = "none"
  /\ v \in unvisited
  /\ unvisited # {v}
  /\ \E k \in ItersToSlice(v) : CannotSlice(ts, k)
  /\ response' = "500"
  /\ UNCHANGED <<publisher, pool, position, task, ts, unvisited, handed>>

\* After the loop the last node gets the remainder.
PublishRemainder(v) ==
  /\ response = "none"
  /\ unvisited = {v}
  /\ PublishMessage(v, ts)
  /\ unvisited' = {}
  /\ response' = "200"
  /\ UNCHANGED <<publisher, pool, position, task, ts>>

\* The answer goes to the client; the locals of the call die.
Answer ==
  /\ response \in {"200", "409", "500"}
  /\ position' = 0
  /\ task' = NoRange
  /\ ts' = NoRange
  /\ unvisited' = {}
  /\ handed' = {}
  /\ response' = "idle"
  /\ UNCHANGED <<publisher, pool>>

\* onClosed or onError on the publisher's service thread, at any time.
LoseConnection ==
  /\ publisher = "up"
  /\ publisher' = "lost"
  /\ UNCHANGED <<pool, position, task, ts, unvisited, handed, response>>

\* connect_publisher and disconnect_publisher are requests of their own: they run
\* between two tasks.  A lost connection cannot be made again by this process.
ConnectPublisher ==
  /\ response = "idle"
  /\ publisher = "down"
  /\ publisher' = "up"
  /\ UNCHANGED <<pool, position, task, ts, unvisited, handed, response>>

DisconnectPublisher ==
  /\ response = "idle"
  /\ publisher = "up"
  /\ publisher' = "down"
  /\ UNCHANGED <<pool, position, task, ts, unvisited, handed, response>>

Loop(v) == SliceTurn(v) \/ SliceThrows(v) \/ PublishRemainder(v)

Next ==
  \/ \E r \in Ranges, p \in Sizes \union {UnknownSize} : Request(r, p)
  \/ \E v \in Nodes : Loop(v)
  \/ Answer
  \/ LoseConnection
  \/ ConnectPublisher
  \/ DisconnectPublisher

Spec == Init /\ [][Next]_vars

----------------------------------------------------------------------------
(* Properties.                                                             *)

\* The blocks of one task never share an iteration, whatever the speeds are and
\* however many nodes there are ("non intersecting ranges").  For a size that was
\* not measured a share is any word, the sums of SliceAway may wrap around, and the
\* code keeps no promise; so below.
NonIntersecting ==
  Measured =>
    \A m1, m2 \in handed :
      m1 # m2 => Span(m1.range) \intersect Span(m2.range) = {}

\* No iteration gets lost between the blocks: those handed to PublishMessage and
\* the remainder of ts make up the task at every turn, after an exception too,
\* and an answer 200 leaves no remainder.
NothingLost ==
  Measured /\ response \in {"none", "200", "500"} =>
    Span(task) = IndicesOf(handed)
                   \union (IF response = "200" THEN {} ELSE Span(ts))

\* The exact share of a node, where the benchmark of the smallest system counts
\* and the product fits a word.
FairShare(v) == (speed[v][0] * RangeSize(task)) \div normalized_
ExactArithmetic ==
  /\ position = 0
  /\ task.first <= task.second
  /\ \A v \in active : speed[v][0] * RangeSize(task) < Word

\* Rounding down costs nobody work and nobody more than a few iterations: every
\* block has at least the node's share, and the last one, which takes what the
\* others' roundings leave, exceeds its share by less than the number of nodes.
BalancedBlocks ==
  response = "200" /\ ExactArithmetic =>
    \A m \in handed :
      LET length == m.range.second - m.range.first + 1
      IN  /\ FairShare(m.node) <= length
          /\ length < FairShare(m.node) + Cardinality(active)

\* The loop gives up only for a node too slow to earn one iteration; the rounded
\* shares of the others never eat up the range.
ThrowsOnlyOnEmptyShare ==
  response = "500" /\ ExactArithmetic => \E v \in active : FairShare(v) = 0

\* SendToExecution implements TaskPartition, which does not see the tasks of a size
\* that was not measured.
Partition == INSTANCE TaskPartition WITH
  Iterations <- Indices,
  task <- IF Measured /\ response # "idle" THEN Span(task) ELSE {},
  assigned <- [v \in Nodes |->
                 IF Measured THEN IndicesOf({m \in handed : m.node = v}) ELSE {}],
  status <- CASE response = "idle" \/ ~ Measured -> "idle"
              [] response = "none" /\ Measured -> "dividing"
              [] response = "200" /\ Measured -> "accepted"
              [] response = "409" /\ Measured -> "refused"
              [] response = "500" /\ Measured -> "failed"

\* The blocks a call gives away are steps of TaskPartition: a block comes out of
\* what is left, a node gets one block per task, an answer 200 leaves nothing.
ImplementsPartition == Partition!Spec

\* What SentToExecution's comment asks for: a task that is answered 200 was sent
\* over a connection to the broker.
AcceptedMeansSent == response = "200" => \A m \in handed : m.sent
============================================================================
