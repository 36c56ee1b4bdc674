------------------------- MODULE TaskSlicingProofs -------------------------
(* Theorems about TaskSlicing, for every set of nodes, every pool, every     *)
(* task and every word that an out-of-bounds read may find.                  *)
EXTENDS TaskSlicing, FiniteSums, FiniteSetTheorems, TLAPS

\* Every variable of the call keeps to its type, and the loop visits active nodes only.
TypeOK ==
  /\ publisher \in {"down", "up", "lost"}
  /\ active \in SUBSET Nodes
  /\ speed \in [Nodes -> [Sizes -> Speeds]]
  /\ normalized_ \in Nat
  /\ position \in Sizes \union {UnknownSize}
  /\ task \in Ranges
  /\ ts \in Ranges
  /\ unvisited \in SUBSET active
  /\ handed \in SUBSET Messages
  /\ response \in {"idle", "none", "200", "409", "500"}

\* Where a call stands between two turns of the loop: the blocks handed away are
\* the indices from the task's first up to ts.first, ts still ends where the task
\* ends, and the nodes that have a block are behind the iterator.
SlicedSoFar ==
  /\ ts.second = task.second
  /\ task.first <= ts.first
  /\ handed # {} => ts.first <= ts.second
  /\ \A m \in handed :
       /\ task.first <= m.range.first
       /\ m.range.first <= m.range.second
       /\ m.range.second < ts.first
       /\ m.node \notin unvisited
  /\ IndicesOf(handed) = task.first .. ts.first - 1

\* A divisor of at least 2 keeps a share below half a word.
DivisorOK == \A a, b \in active : a # b => normalized_ >= 2

OneBlockPerNode == \A m1, m2 \in handed : m1 # m2 => m1.node # m2.node

IInv ==
  /\ TypeOK
  /\ DivisorOK
  /\ response \in {"idle", "409"} => handed = {}
  /\ Measured /\ response \in {"none", "500"} => SlicedSoFar
  /\ Measured => OneBlockPerNode
  /\ NonIntersecting
  /\ NothingLost

----------------------------------------------------------------------------
\* One more message adds its span.
LEMMA IndicesOfOneMore ==
  ASSUME NEW H, NEW m
  PROVE  IndicesOf(H \union {m}) = IndicesOf(H) \union Span(m.range)
BY Zenon DEF IndicesOf

\* A quotient by 2 or more is at most half of what is divided.
LEMMA HalfQuotient ==
  ASSUME NEW x \in Nat, NEW d \in Nat, d >= 2
  PROVE  x \div d \in Nat /\ 2 * (x \div d) <= x
<1> DEFINE q == x \div d
<1>1. q \in Nat /\ d * q <= x
  BY Z3
<1>2. 2 * q <= d * q
  BY <1>1, Z3
<1> QED BY <1>1, <1>2

\* No share makes an index wrap around a word: SliceAway's sum is the true sum.
LEMMA ShareFits ==
  ASSUME IInv, Measured, NEW v \in unvisited, unvisited # {v}, NEW k \in ItersToSlice(v)
  PROVE  k \in Nat /\ k + MaxIndex < Word
<1>0. v \in Nodes /\ active \subseteq Nodes /\ unvisited \subseteq active
  BY DEF IInv, TypeOK
<1>1. PICK u \in unvisited : u # v
  OBVIOUS
<1>2. normalized_ >= 2 /\ normalized_ \in Nat
  BY <1>0, <1>1 DEF IInv, DivisorOK, TypeOK
<1>3. position = 0 /\ position \in DOMAIN node_speed_(v)
  BY DEF Measured, node_speed_, StoredPositions
<1>4. node_speed_(v)[position] = speed[v][0]
  BY <1>3 DEF node_speed_, StoredPositions
<1>5. speed[v][0] \in Nat
  <2>1. speed \in [Nodes -> [Sizes -> Speeds]]
    BY DEF IInv, TypeOK
  <2>2. 0 \in Sizes /\ Speeds \subseteq Nat
    BY SizesAssumption
  <2> QED BY <1>0, <2>1, <2>2
<1>6. RangeSize(task) \in Nat
  BY SizesAssumption DEF RangeSize, IInv, TypeOK, Ranges, Indices
<1> DEFINE x == (speed[v][0] * RangeSize(task)) % Word
<1>7. speed[v][0] * RangeSize(task) \in Nat
  BY <1>5, <1>6
<1>8. x \in Nat /\ x < Word
  BY <1>7, SizesAssumption
<1>9. k = x \div normalized_
  BY <1>3, <1>4 DEF ItersToSlice
<1>10. k \in Nat /\ 2 * k <= x
  BY <1>2, <1>8, <1>9, HalfQuotient
<1> QED BY <1>8, <1>10, SizesAssumption

\* Whatever the share is, what SliceAway returns is a word.
LEMMA SliceAwayTypes ==
  ASSUME NEW r \in Ranges, NEW k \in Nat, ~ CannotSlice(r, k)
  PROVE  Block(r, k) \in Blocks /\ Rest(r, k) \in Ranges
<1>1. r.first \in 0 .. MaxIndex /\ r.second \in 0 .. MaxIndex /\ MaxIndex \in Nat /\ Word \in Nat
  BY SizesAssumption DEF Ranges, Indices
<1>2. k >= 1 /\ Word > 0 /\ r.first + k \in Nat /\ r.first + k - 1 \in Nat
  BY <1>1, SizesAssumption DEF CannotSlice
<1>3. (r.first + k) % Word \in 0 .. Word - 1 /\ (r.first + k - 1) % Word \in 0 .. Word - 1
  BY <1>1, <1>2
<1>4. (r.first + k) % Word \in 0 .. MaxIndex
  BY <1>1, <1>3 DEF CannotSlice
<1>5. r = [first |-> r.first, second |-> r.second]
  BY DEF Ranges
<1>6. Block(r, k) = [first |-> r.first, second |-> (r.first + k - 1) % Word]
  BY <1>5 DEF Block
<1>7. Rest(r, k) = [first |-> (r.first + k) % Word, second |-> r.second]
  BY <1>5 DEF Rest
<1> QED BY <1>1, <1>3, <1>4, <1>6, <1>7 DEF Ranges, Blocks, Indices

LEMMA SharesAreWords ==
  ASSUME IInv, NEW v \in unvisited, unvisited # {v}, NEW k \in ItersToSlice(v)
  PROVE  k \in Nat
<1>1. CASE Measured
  BY <1>1, ShareFits
<1>2. CASE ~ Measured
  <2>1. k \in GarbageWords
    BY <1>2 DEF ItersToSlice, Measured, node_speed_
  <2> QED BY <2>1, SizesAssumption
<1> QED BY <1>1, <1>2

\* What SliceAway returns and what it leaves, when it does not throw.
LEMMA SliceAway ==
  ASSUME NEW r \in Ranges, NEW k \in Nat, k + MaxIndex < Word, ~ CannotSlice(r, k)
  PROVE  /\ k >= 1
         /\ r.first + k <= r.second
         /\ Block(r, k) = [first |-> r.first, second |-> r.first + k - 1]
         /\ Rest(r, k) = [first |-> r.first + k, second |-> r.second]
         /\ Block(r, k) \in Ranges
         /\ Rest(r, k) \in Ranges
<1>1. r.first \in 0 .. MaxIndex /\ r.second \in 0 .. MaxIndex /\ MaxIndex \in Nat /\ Word \in Nat
  BY SizesAssumption DEF Ranges, Indices
<1>2. k >= 1 /\ (r.first + k) % Word = r.first + k /\ (r.first + k - 1) % Word = r.first + k - 1
  BY <1>1 DEF CannotSlice
<1>3. r.first + k <= r.second
  BY <1>1, <1>2 DEF CannotSlice
<1>4. r = [first |-> r.first, second |-> r.second]
  BY DEF Ranges
<1>5. Block(r, k) = [first |-> r.first, second |-> r.first + k - 1]
  BY <1>2, <1>4 DEF Block
<1>6. Rest(r, k) = [first |-> r.first + k, second |-> r.second]
  BY <1>2, <1>4 DEF Rest
<1> QED BY <1>1, <1>2, <1>3, <1>5, <1>6 DEF Ranges, Indices

\* What a sum of speeds is: zero over no node, and one more term with one more node.
LEMMA SpeedSums ==
  \A f \in [Nodes -> Speeds] :
    /\ SumFunctionOnSet(f, {}) = 0
    /\ \A A \in SUBSET Nodes :
         /\ SumFunctionOnSet(f, A) \in Nat
         /\ \A a \in Nodes \ A :
              SumFunctionOnSet(f, A \union {a}) = SumFunctionOnSet(f, A) + f[a]
<1> SUFFICES ASSUME NEW f \in [Nodes -> Speeds]
             PROVE  /\ SumFunctionOnSet(f, {}) = 0
                    /\ \A A \in SUBSET Nodes :
                         /\ SumFunctionOnSet(f, A) \in Nat
                         /\ \A a \in Nodes \ A :
                              SumFunctionOnSet(f, A \union {a}) = SumFunctionOnSet(f, A) + f[a]
  OBVIOUS
<1>1. \A v \in Nodes : f[v] \in Nat
  BY SizesAssumption
<1>2. ASSUME NEW A \in SUBSET Nodes
      PROVE  /\ SumFunctionOnSet(f, {}) = 0
             /\ SumFunctionOnSet(f, A) \in Nat
             /\ \A a \in A : SumFunctionOnSet(f, A) = SumFunctionOnSet(f, A \ {a}) + f[a]
  <2>1. IsFiniteSet(A)
    BY SizesAssumption, FS_Subset
  <2>2. \A v \in A : f[v] \in Nat
    BY <1>1
  <2> QED BY <2>1, <2>2, SumOfNaturals
<1>3. ASSUME NEW A \in SUBSET Nodes, NEW a \in Nodes \ A
      PROVE  SumFunctionOnSet(f, A \union {a}) = SumFunctionOnSet(f, A) + f[a]
  <2>1. A \union {a} \in SUBSET Nodes /\ (A \union {a}) \ {a} = A
    OBVIOUS
  <2>2. SumFunctionOnSet(f, A \union {a})
          = SumFunctionOnSet(f, (A \union {a}) \ {a}) + f[a]
    BY <1>2, <2>1
  <2> QED BY <2>1, <2>2
<1> QED BY <1>2, <1>3

\* A sum of two positive terms or more.
LEMMA SumOfTwo ==
  ASSUME NEW f \in [Nodes -> Speeds], NEW A \in SUBSET Nodes,
         NEW a \in A, NEW b \in A, a # b
  PROVE  SumFunctionOnSet(f, A) >= 2
<1> DEFINE B == A \ {a, b}
<1>1. /\ B \in SUBSET Nodes /\ b \in Nodes \ B
      /\ B \union {b} \in SUBSET Nodes /\ a \in Nodes \ (B \union {b})
      /\ A = (B \union {b}) \union {a}
  OBVIOUS
<1>2. f[a] \in Nat /\ f[b] \in Nat /\ f[a] >= 1 /\ f[b] >= 1
  <2>1. f[a] \in Speeds /\ f[b] \in Speeds
    OBVIOUS
  <2>2. \A s \in Speeds : s \in Nat /\ s >= 1
    BY SizesAssumption
  <2> QED BY <2>1, <2>2
<1>3. SumFunctionOnSet(f, B) \in Nat
  BY <1>1, SpeedSums
<1>4. SumFunctionOnSet(f, B \union {b}) = SumFunctionOnSet(f, B) + f[b]
  BY <1>1, SpeedSums
<1>5. SumFunctionOnSet(f, (B \union {b}) \union {a}) = SumFunctionOnSet(f, B \union {b}) + f[a]
  BY <1>1, SpeedSums
<1> QED BY <1>1, <1>2, <1>3, <1>4, <1>5

----------------------------------------------------------------------------
LEMMA IInvInit == Init => IInv
<1> SUFFICES ASSUME Init PROVE IInv
  OBVIOUS
<1> DEFINE f == [v \in Nodes |-> speed[v][0]]
<1>1. f \in [Nodes -> Speeds]
  BY SizesAssumption DEF Init
<1>2. /\ normalized_ \in Nat
      /\ \A a, b \in active : a # b => normalized_ >= 2
  BY <1>1, SumOfTwo, SpeedSums DEF Init
<1>3. NoRange \in Ranges
  BY SizesAssumption DEF NoRange, Ranges, Indices
<1>4. TypeOK
  BY <1>2, <1>3, SizesAssumption DEF Init, TypeOK
<1> QED
  BY <1>2, <1>4 DEF Init, IInv, DivisorOK, OneBlockPerNode, NonIntersecting, NothingLost

\* A turn of the loop that slices keeps the types, whatever the share is.
LEMMA TypesSliceTurn ==
  ASSUME IInv, NEW v \in Nodes, SliceTurn(v)
  PROVE  TypeOK'
<1>1. PICK k \in ItersToSlice(v) :
        /\ ~ CannotSlice(ts, k)
        /\ PublishMessage(v, Block(ts, k))
        /\ ts' = Rest(ts, k)
  BY DEF SliceTurn
<1>2. k \in Nat
  BY SharesAreWords DEF SliceTurn
<1>3. Block(ts, k) \in Blocks /\ Rest(ts, k) \in Ranges
  BY <1>1, <1>2, SliceAwayTypes DEF IInv, TypeOK
<1>4. handed' = handed \union {[node |-> v, range |-> Block(ts, k), sent |-> publisher = "up"]}
  BY <1>1 DEF PublishMessage
<1> DEFINE message == [node |-> v, range |-> Block(ts, k), sent |-> publisher = "up"]
<1>5. message \in Messages
  BY <1>3 DEF Messages
<1>6. /\ unvisited' = unvisited \ {v}
      /\ UNCHANGED <<publisher, active, speed, normalized_, position, task, response>>
  BY DEF SliceTurn, pool
<1> QED BY <1>1, <1>3, <1>4, <1>5, <1>6 DEF IInv, TypeOK

\* A turn of the loop that slices: the block is what comes next of the task.
LEMMA IInvSliceTurn ==
  ASSUME IInv, Measured, NEW v \in Nodes, SliceTurn(v)
  PROVE  IInv'
<1>1. PICK k \in ItersToSlice(v) :
        /\ ~ CannotSlice(ts, k)
        /\ PublishMessage(v, Block(ts, k))
        /\ ts' = Rest(ts, k)
  BY DEF SliceTurn
<1>2. k \in Nat /\ k + MaxIndex < Word
  BY ShareFits DEF SliceTurn
<1> DEFINE message == [node |-> v, range |-> Block(ts, k), sent |-> publisher = "up"]
<1>3. /\ k >= 1
      /\ ts.first + k <= ts.second
      /\ Block(ts, k) = [first |-> ts.first, second |-> ts.first + k - 1]
      /\ Rest(ts, k) = [first |-> ts.first + k, second |-> ts.second]
      /\ Block(ts, k) \in Ranges
      /\ Rest(ts, k) \in Ranges
  BY <1>1, <1>2, SliceAway DEF IInv, TypeOK
<1>4. handed' = handed \union {message}
  BY <1>1 DEF PublishMessage
<1>6. /\ v \in unvisited
      /\ unvisited' = unvisited \ {v}
      /\ response = "none"
      /\ UNCHANGED <<publisher, active, speed, normalized_, position, task, response>>
  BY DEF SliceTurn, pool
<1>7. TypeOK'
  BY TypesSliceTurn
<1>8. SlicedSoFar
  BY <1>6 DEF IInv
<1>9. task.first \in Nat /\ task.second \in Nat /\ ts.first \in Nat /\ ts.second \in Nat
  BY SizesAssumption DEF IInv, TypeOK, Ranges, Indices
<1>10. \A m \in handed : m.range.first \in Nat /\ m.range.second \in Nat
  BY SizesAssumption DEF IInv, TypeOK, Messages, Blocks, Indices
<1>11. SlicedSoFar'
  <2>1. ts'.second = task'.second /\ task'.first <= ts'.first /\ ts'.first <= ts'.second
    BY <1>1, <1>2, <1>3, <1>6, <1>8, <1>9 DEF SlicedSoFar
  <2>2. ASSUME NEW m \in handed'
        PROVE  /\ task'.first <= m.range.first
               /\ m.range.first <= m.range.second
               /\ m.range.second < ts'.first
               /\ m.node \notin unvisited'
    <3>1. CASE m \in handed
      BY <3>1, <1>1, <1>2, <1>3, <1>6, <1>8, <1>9, <1>10 DEF SlicedSoFar
    <3>2. CASE m = message
      BY <3>2, <1>1, <1>2, <1>3, <1>6, <1>8, <1>9 DEF SlicedSoFar
    <3> QED BY <3>1, <3>2, <1>4
  <2>3. IndicesOf(handed') = task'.first .. ts'.first - 1
    <3>1. IndicesOf(handed')
            = IndicesOf(handed) \union Span(message.range)
      BY <1>4, IndicesOfOneMore
    <3>2. Span(message.range) = ts.first .. ts.first + k - 1
      BY <1>3 DEF Span
    <3>3. IndicesOf(handed) = task.first .. ts.first - 1
      BY <1>8 DEF SlicedSoFar
    <3>4. (task.first .. ts.first - 1) \union (ts.first .. ts.first + k - 1)
            = task.first .. ts.first + k - 1
      BY <1>2, <1>3, <1>8, <1>9 DEF SlicedSoFar
    <3>5. ts'.first = ts.first + k /\ task' = task
      BY <1>1, <1>3, <1>6
    <3>6. IndicesOf(handed') = task.first .. ts.first + k - 1
      BY <3>1, <3>2, <3>3, <3>4
    <3>7. ts.first + k - 1 = ts'.first - 1
      BY <3>5, <1>2, <1>9
    <3> QED BY <3>5, <3>6, <3>7
  <2> QED BY <2>1, <2>2, <2>3 DEF SlicedSoFar
<1>12. OneBlockPerNode'
  BY <1>4, <1>6, <1>8 DEF IInv, OneBlockPerNode, SlicedSoFar
<1>13. NonIntersecting'
  <2>1. \A m \in handed : Span(m.range) \intersect Span(message.range) = {}
    BY <1>3, <1>8, <1>9, <1>10 DEF SlicedSoFar, Span
  <2> QED BY <2>1, <1>4, <1>6 DEF IInv, NonIntersecting
<1>14. NothingLost'
  <2>1. Span(ts') = ts.first + k .. ts.second /\ Span(task') = task.first .. ts.second
    BY <1>1, <1>3, <1>6, <1>8 DEF Span, SlicedSoFar
  <2>2. IndicesOf(handed') = task.first .. ts.first + k - 1
    <3>1. IndicesOf(handed') = task'.first .. ts'.first - 1
      BY <1>11 DEF SlicedSoFar, IndicesOf
    <3>2. task'.first = task.first /\ ts'.first = ts.first + k
      BY <1>1, <1>3, <1>6
    <3> QED BY <3>1, <3>2, <1>2, <1>9
  <2>3. (task.first .. ts.first + k - 1) \union (ts.first + k .. ts.second)
          = task.first .. ts.second
    BY <1>2, <1>3, <1>8, <1>9 DEF SlicedSoFar
  <2> QED BY <2>1, <2>2, <2>3, <1>6 DEF NothingLost
<1> QED
  BY <1>6, <1>7, <1>11, <1>12, <1>13, <1>14 DEF IInv, DivisorOK

\* The remainder is a range of the type of the blocks.
LEMMA TypesPublishRemainder ==
  ASSUME IInv, NEW v \in Nodes, PublishRemainder(v)
  PROVE  TypeOK'
<1>1. /\ handed' = handed \union {[node |-> v, range |-> ts, sent |-> publisher = "up"]}
      /\ unvisited' = {}
      /\ response' = "200"
      /\ UNCHANGED <<publisher, active, speed, normalized_, position, task, ts>>
  BY DEF PublishRemainder, PublishMessage, pool
<1>2. ts \in Blocks
  BY SizesAssumption DEF IInv, TypeOK, Ranges, Blocks, Indices
<1> DEFINE message == [node |-> v, range |-> ts, sent |-> publisher = "up"]
<1>3. message \in Messages
  BY <1>2 DEF Messages
<1> QED BY <1>1, <1>3 DEF IInv, TypeOK

\* After the loop: the remainder completes the task.
LEMMA IInvPublishRemainder ==
  ASSUME IInv, Measured, NEW v \in Nodes, PublishRemainder(v)
  PROVE  IInv'
<1> DEFINE message == [node |-> v, range |-> ts, sent |-> publisher = "up"]
<1>1. /\ handed' = handed \union {message}
      /\ unvisited = {v}
      /\ unvisited' = {}
      /\ response = "none"
      /\ response' = "200"
      /\ UNCHANGED <<publisher, active, speed, normalized_, position, task, ts>>
  BY DEF PublishRemainder, PublishMessage, pool
<1>3. TypeOK'
  BY TypesPublishRemainder
<1>4. SlicedSoFar
  BY <1>1 DEF IInv
<1>5. task.first \in Nat /\ task.second \in Nat /\ ts.first \in Nat /\ ts.second \in Nat
  BY SizesAssumption DEF IInv, TypeOK, Ranges, Indices
<1>6. \A m \in handed : m.range.first \in Nat /\ m.range.second \in Nat
  BY SizesAssumption DEF IInv, TypeOK, Messages, Blocks, Indices
<1>7. OneBlockPerNode'
  BY <1>1, <1>4 DEF IInv, OneBlockPerNode, SlicedSoFar
<1>8. NonIntersecting'
  <2>1. \A m \in handed : Span(m.range) \intersect Span(message.range) = {}
    BY <1>4, <1>5, <1>6 DEF SlicedSoFar, Span
  <2> QED BY <2>1, <1>1 DEF IInv, NonIntersecting
<1>9. NothingLost'
  <2>1. IndicesOf(handed')
          = IndicesOf(handed) \union Span(ts)
    <3>1. IndicesOf(handed \union {message}) = IndicesOf(handed) \union Span(message.range)
      BY IndicesOfOneMore
    <3>2. message.range = ts
      OBVIOUS
    <3> HIDE DEF message
    <3> QED BY <3>1, <3>2, <1>1
  <2>2. Span(task) = IndicesOf(handed) \union Span(ts)
    BY <1>1 DEF IInv, NothingLost
  <2> QED BY <2>1, <2>2, <1>1 DEF NothingLost
<1> QED
  BY <1>1, <1>3, <1>7, <1>8, <1>9 DEF IInv, DivisorOK

\* The other steps touch neither blocks nor remainder while they matter.
LEMMA IInvNext == IInv /\ [Next]_vars => IInv'
<1> SUFFICES ASSUME IInv, [Next]_vars PROVE IInv'
  OBVIOUS
<1> USE DEF pool
<1>1. CASE \E r \in Ranges, p \in Sizes \union {UnknownSize} : Request(r, p)
  <2>1. PICK r \in Ranges, p \in Sizes \union {UnknownSize} : Request(r, p)
    BY <1>1
  <2>2. handed = {} /\ handed' = {}
    BY <2>1 DEF Request, IInv
  <2>3. TypeOK'
    BY <2>1 DEF Request, IInv, TypeOK
  <2>4. r.first \in Nat /\ r.second \in Nat
    BY SizesAssumption DEF Ranges, Indices
  <2>5. SlicedSoFar' /\ NothingLost'
    BY <2>1, <2>2, <2>4 DEF Request, SlicedSoFar, NothingLost, IndicesOf
  <2> QED
    BY <2>1, <2>2, <2>3, <2>5
    DEF Request, IInv, DivisorOK, OneBlockPerNode, NonIntersecting
<1>2. ASSUME NEW v \in Nodes, SliceTurn(v) PROVE IInv'
  <2>1. CASE Measured
    BY <1>2, <2>1, IInvSliceTurn
  <2>2. CASE ~ Measured
    <3>1. ~ Measured' /\ response' = "none" /\ UNCHANGED <<active, normalized_>>
      BY <1>2, <2>2 DEF SliceTurn, Measured, StoredPositions
    <3> QED BY <1>2, <3>1, TypesSliceTurn DEF IInv, DivisorOK, NonIntersecting, NothingLost
  <2> QED BY <2>1, <2>2
<1>3. ASSUME NEW v \in Nodes, SliceThrows(v) PROVE IInv'
  BY <1>3
  DEF SliceThrows, Measured, IInv, TypeOK, DivisorOK, SlicedSoFar, OneBlockPerNode,
      NonIntersecting, NothingLost
<1>4. ASSUME NEW v \in Nodes, PublishRemainder(v) PROVE IInv'
  <2>1. CASE Measured
    BY <1>4, <2>1, IInvPublishRemainder
  <2>2. CASE ~ Measured
    <3>1. ~ Measured' /\ response' = "200" /\ UNCHANGED <<active, normalized_>>
      BY <1>4, <2>2 DEF PublishRemainder, Measured, StoredPositions
    <3> QED BY <1>4, <3>1, TypesPublishRemainder DEF IInv, DivisorOK, NonIntersecting, NothingLost
  <2> QED BY <2>1, <2>2
<1>5. CASE Answer
  <2>1. NoRange \in Ranges
    BY SizesAssumption DEF NoRange, Ranges, Indices
  <2>2. TypeOK'
    BY <1>5, <2>1, SizesAssumption DEF Answer, IInv, TypeOK
  <2> QED
    BY <1>5, <2>2 DEF Answer, IInv, DivisorOK, OneBlockPerNode, NonIntersecting, NothingLost
<1>6. CASE LoseConnection \/ ConnectPublisher \/ DisconnectPublisher
  BY <1>6
  DEF LoseConnection, ConnectPublisher, DisconnectPublisher, Measured, IInv, TypeOK, DivisorOK,
      SlicedSoFar, OneBlockPerNode, NonIntersecting, NothingLost
<1>7. CASE UNCHANGED vars
  BY <1>7
  DEF vars, Measured, IInv, TypeOK, DivisorOK, SlicedSoFar, OneBlockPerNode, NonIntersecting, NothingLost
<1> QED
  BY <1>1, <1>2, <1>3, <1>4, <1>5, <1>6, <1>7 DEF Next, Loop

\* The inductive invariant holds throughout.
THEOREM InductiveInvariant == Spec => []IInv
BY IInvInit, IInvNext, PTL DEF Spec

\* Every variable of SendToExecution keeps to its type, for every number of nodes.
THEOREM TypeCorrect == Spec => []TypeOK
<1>1. IInv => TypeOK
  BY DEF IInv
<1> QED BY <1>1, InductiveInvariant, PTL

\* SendToExecution never gives an iteration of a measured task to two nodes.
THEOREM BlocksDisjoint == Spec => []NonIntersecting
<1>1. IInv => NonIntersecting
  BY DEF IInv
<1> QED BY <1>1, InductiveInvariant, PTL

\* SendToExecution loses no iteration of a measured task, whether it ends or throws.
THEOREM BlocksComplete == Spec => []NothingLost
<1>1. IInv => NothingLost
  BY DEF IInv
<1> QED BY <1>1, InductiveInvariant, PTL

----------------------------------------------------------------------------
(* The shares: how far the blocks handed away are from what the speeds ask.  *)

\* The sum of the speeds of some of the nodes, for the smallest system.
SpeedOf(A) == SumFunctionOnSet([v \in Nodes |-> speed[v][0]], A)

Remaining == ts.second - ts.first + 1

\* What remains is at least what the unvisited nodes earn together, and exceeds it by
\* less than one iteration for each node that has its block already; each block so
\* far is its node's share.
SharesSoFar ==
  /\ RangeSize(task) * SpeedOf(unvisited) <= Remaining * normalized_
  /\ Remaining * normalized_ <=
       RangeSize(task) * SpeedOf(unvisited)
         + normalized_ * (Cardinality(active) - Cardinality(unvisited))
  /\ \A m \in handed : m.range.second - m.range.first + 1 = FairShare(m.node)

Shares ==
  /\ normalized_ = SpeedOf(active)
  /\ response = "none" /\ ExactArithmetic => SharesSoFar
  /\ BalancedBlocks
  /\ ThrowsOnlyOnEmptyShare

LEMMA TimesMonotone ==
  ASSUME NEW a \in Int, NEW b \in Int, NEW n \in Nat, a <= b
  PROVE  a * n <= b * n
<1>1. (b - a) * n \in Nat
  <2>1. b - a \in Nat
    OBVIOUS
  <2> QED BY <2>1, Z3
<1>2. (b - a) * n = b * n - a * n
  BY Z3
<1> QED BY <1>1, <1>2

\* What a quotient leaves over is less than the divisor.
LEMMA QuotientBounds ==
  ASSUME NEW x \in Nat, NEW n \in Nat, n >= 1
  PROVE  /\ x \div n \in Nat
         /\ (x \div n) * n <= x
         /\ x < (x \div n) * n + n
<1> DEFINE q == x \div n
<1>1. q \in Nat /\ n * q <= x /\ x < n * q + n
  BY Z3
<1>2. n * q = q * n
  BY <1>1, Z3
<1> QED BY <1>1, <1>2

\* One share is taken from what remains: the bounds of SharesSoFar, for the sum of the
\* others and one node more with a block.
LEMMA OneShareLess ==
  ASSUME NEW r \in Nat, NEW others \in Nat, NEW s \in Nat, NEW n \in Nat, n >= 1,
         NEW left \in Int, NEW d \in Int,
         r * (others + s) <= left * n,
         left * n <= r * (others + s) + n * d
  PROVE  LET k == (s * r) \div n
         IN  /\ r * others <= (left - k) * n
             /\ (left - k) * n <= r * others + n * (d + 1)
<1> DEFINE k == (s * r) \div n
<1>1. s * r \in Nat
  BY Z3
<1>2. k \in Nat /\ k * n <= s * r /\ s * r < k * n + n
  BY <1>1, QuotientBounds
<1>3. r * (others + s) = r * others + s * r
  BY Z3
<1>4. n * (d + 1) = n * d + n
  BY Z3
<1>5. (left - k) * n = left * n - k * n
  <2> HIDE DEF k
  <2> QED BY <1>2, Z3
<1>6. /\ r * others \in Int /\ n * d \in Int /\ left * n \in Int
      /\ k * n \in Int /\ (left - k) * n \in Int /\ n * (d + 1) \in Int
  BY <1>2, Z3
<1> HIDE DEF k
<1>7. /\ r * others <= (left - k) * n
      /\ (left - k) * n <= r * others + n * (d + 1)
  BY <1>1, <1>2, <1>3, <1>4, <1>5, <1>6
<1> QED BY <1>7 DEF k

\* The last node's block: its share, and less than one iteration of each other node.
LEMMA LastShare ==
  ASSUME NEW r \in Nat, NEW s \in Nat, NEW n \in Nat, n >= 1,
         NEW left \in Int, NEW c \in Int,
         r * s <= left * n,
         left * n <= r * s + n * (c - 1)
  PROVE  LET q == (s * r) \div n
         IN  q <= left /\ left < q + c
<1> DEFINE q == (s * r) \div n
<1>1. s * r \in Nat /\ r * s = s * r
  BY Z3
<1>2. q \in Nat /\ q * n <= s * r /\ s * r < q * n + n
  BY <1>1, QuotientBounds
<1> HIDE DEF q
<1>3. ASSUME left + 1 <= q PROVE FALSE
  <2>1. (left + 1) * n <= q * n
    BY <1>2, <1>3, TimesMonotone
  <2>2. (left + 1) * n = left * n + n
    BY Z3
  <2>3. left * n \in Int /\ q * n \in Int
    BY <1>2
  <2> QED BY <1>1, <1>2, <2>1, <2>2, <2>3
<1>4. ASSUME q + c <= left PROVE FALSE
  <2>1. (q + c) * n <= left * n
    BY <1>2, <1>4, TimesMonotone
  <2>2. (q + c) * n = q * n + n * c
    BY <1>2, Z3
  <2>3. n * (c - 1) = n * c - n
    BY Z3
  <2>4. left * n \in Int /\ q * n \in Int /\ n * c \in Int /\ (q + c) * n \in Int
    BY <1>2
  <2> QED BY <1>1, <1>2, <2>1, <2>2, <2>3, <2>4
<1>5. q <= left /\ left < q + c
  BY <1>2, <1>3, <1>4
<1> QED BY <1>5 DEF q

\* The speed of a node, and the sum with and without it.
LEMMA SpeedOfOneLess ==
  ASSUME TypeOK, NEW A \in SUBSET Nodes, NEW v \in A
  PROVE  /\ speed[v][0] \in Nat
         /\ speed[v][0] >= 1
         /\ SpeedOf(A \ {v}) \in Nat
         /\ SpeedOf(A) = SpeedOf(A \ {v}) + speed[v][0]
<1> DEFINE f == [u \in Nodes |-> speed[u][0]]
           B == A \ {v}
<1>1. f \in [Nodes -> Speeds] /\ f[v] = speed[v][0]
  BY SizesAssumption DEF TypeOK
<1>2. speed[v][0] \in Nat /\ speed[v][0] >= 1
  <2>1. f[v] \in Speeds
    BY <1>1
  <2>2. \A s \in Speeds : s \in Nat /\ s >= 1
    BY SizesAssumption
  <2> QED BY <1>1, <2>1, <2>2
<1>3. B \in SUBSET Nodes /\ v \in Nodes \ B /\ A = B \union {v}
  OBVIOUS
<1>4. SumFunctionOnSet(f, B) \in Nat
  BY <1>1, <1>3, SpeedSums
<1>5. SumFunctionOnSet(f, B \union {v}) = SumFunctionOnSet(f, B) + f[v]
  BY <1>1, <1>3, SpeedSums
<1> QED BY <1>1, <1>2, <1>3, <1>4, <1>5 DEF SpeedOf

LEMMA SpeedOfNone ==
  ASSUME TypeOK
  PROVE  SpeedOf({}) = 0
<1>1. [u \in Nodes |-> speed[u][0]] \in [Nodes -> Speeds]
  BY SizesAssumption DEF TypeOK
<1> QED BY <1>1, SpeedSums DEF SpeedOf

\* Where the arithmetic is exact, a share is what ItersToSlice computes.
LEMMA ShareIsFair ==
  ASSUME TypeOK, Shares, ExactArithmetic, NEW v \in active
  PROVE  /\ Measured
         /\ normalized_ \in Nat /\ normalized_ >= 1
         /\ RangeSize(task) \in Nat
         /\ RangeSize(task) = task.second - task.first + 1
         /\ FairShare(v) \in Nat
         /\ ItersToSlice(v) = {FairShare(v)}
<1>1. active \in SUBSET Nodes
  BY DEF TypeOK
<1>2. speed[v][0] \in Nat /\ speed[v][0] >= 1 /\ SpeedOf(active \ {v}) \in Nat
      /\ SpeedOf(active) = SpeedOf(active \ {v}) + speed[v][0]
  BY <1>1, SpeedOfOneLess
<1>3. normalized_ \in Nat /\ normalized_ >= 1
  BY <1>2 DEF Shares
<1>4. task.first \in 0 .. MaxIndex /\ task.second \in 0 .. MaxIndex /\ task.first <= task.second
  BY DEF TypeOK, Ranges, Indices, ExactArithmetic
<1>5. RangeSize(task) = task.second - task.first + 1 /\ RangeSize(task) \in Nat
  BY <1>4, SizesAssumption DEF RangeSize
<1>6. speed[v][0] * RangeSize(task) \in Nat /\ speed[v][0] * RangeSize(task) < Word
  BY <1>2, <1>5 DEF ExactArithmetic
<1>7. (speed[v][0] * RangeSize(task)) % Word = speed[v][0] * RangeSize(task)
  BY <1>6, SizesAssumption
<1>8. position = 0 /\ Measured /\ position \in DOMAIN node_speed_(v)
      /\ node_speed_(v)[position] = speed[v][0]
  BY DEF ExactArithmetic, Measured, node_speed_, StoredPositions
<1>9. ItersToSlice(v) = {FairShare(v)}
  BY <1>7, <1>8 DEF ItersToSlice, FairShare
<1>10. FairShare(v) \in Nat
  BY <1>3, <1>6, QuotientBounds DEF FairShare
<1> QED BY <1>3, <1>5, <1>8, <1>9, <1>10

\* A request starts with everything left and no block.
LEMMA SharesRequest ==
  ASSUME IInv, Shares, NEW r \in Ranges, NEW p \in Sizes \union {UnknownSize}, Request(r, p), IInv'
  PROVE  Shares'
<1>1. /\ response = "idle" /\ response' \in {"409", "none"}
      /\ task' = r /\ ts' = r /\ unvisited' = active
      /\ handed = {} /\ handed' = {}
      /\ UNCHANGED <<active, speed, normalized_>>
  BY DEF Request, IInv, pool
<1>2. (normalized_ = SpeedOf(active))'
  BY <1>1 DEF Shares, SpeedOf
<1>3. ASSUME ExactArithmetic' PROVE SharesSoFar'
  <2>1. RangeSize(r) = r.second - r.first + 1
    <3>1. r.first \in 0 .. MaxIndex /\ r.second \in 0 .. MaxIndex
      BY DEF Ranges, Indices
    <3>2. r.first <= r.second
      BY <1>1, <1>3 DEF ExactArithmetic
    <3>3. r.second - r.first + 1 \in 0 .. Word - 1 /\ Word \in Nat
      BY <3>1, <3>2, SizesAssumption
    <3>4. \A x \in 0 .. Word - 1 : x % Word = x
      BY <3>3
    <3> QED BY <3>3, <3>4 DEF RangeSize
  <2>2. RangeSize(task)' = RangeSize(r) /\ Remaining' = RangeSize(r)
    BY <1>1, <2>1 DEF RangeSize, Remaining
  <2>3. SpeedOf(unvisited)' = normalized_ /\ normalized_' = normalized_
    BY <1>1 DEF SpeedOf, Shares
  <2>4. normalized_ \in Nat /\ RangeSize(r) \in Int
    BY <2>1, SizesAssumption DEF IInv, TypeOK, Ranges, Indices
  <2>5. IsFiniteSet(active) /\ Cardinality(active) \in Nat
    BY SizesAssumption, FS_Subset, FS_CardinalityType DEF IInv, TypeOK
  <2>6. Cardinality(active)' = Cardinality(active) /\ Cardinality(unvisited)' = Cardinality(active)
    BY <1>1
  <2>7. normalized_ * (Cardinality(active) - Cardinality(active)) = 0
    BY <2>4, <2>5
  <2>8. RangeSize(r) * normalized_ \in Int
    BY <2>4
  <2> QED BY <1>1, <2>2, <2>3, <2>4, <2>6, <2>7, <2>8 DEF SharesSoFar
<1> QED BY <1>1, <1>2, <1>3 DEF Shares, BalancedBlocks, ThrowsOnlyOnEmptyShare

\* What a turn of the loop finds: the share it takes leaves at least an iteration for
\* each node to come, and the bounds for one node less.
LEMMA OneTurn ==
  ASSUME IInv, Shares, response = "none", ExactArithmetic,
         NEW v \in unvisited, unvisited # {v}
  PROVE  LET k == FairShare(v)
             others == SpeedOf(unvisited \ {v})
             n == Cardinality(unvisited \ {v})
         IN  /\ RangeSize(task) * others <= (Remaining - k) * normalized_
             /\ (Remaining - k) * normalized_ <=
                  RangeSize(task) * others + normalized_ * (Cardinality(active) - n)
             /\ k < Remaining
<1> DEFINE k == FairShare(v)
           others == SpeedOf(unvisited \ {v})
           n == Cardinality(unvisited \ {v})
           d == Cardinality(active) - Cardinality(unvisited)
<1>1. SharesSoFar /\ TypeOK /\ unvisited \in SUBSET Nodes /\ unvisited \subseteq active /\ v \in active
  BY DEF Shares, IInv, TypeOK
<1>2. /\ speed[v][0] \in Nat
      /\ others \in Nat
      /\ SpeedOf(unvisited) = others + speed[v][0]
  BY <1>1, SpeedOfOneLess
<1>3. /\ normalized_ \in Nat /\ normalized_ >= 1
      /\ RangeSize(task) \in Nat /\ RangeSize(task) = task.second - task.first + 1
      /\ k \in Nat
  BY <1>1, ShareIsFair
<1>4. Remaining \in Int
  BY SizesAssumption DEF IInv, TypeOK, Ranges, Indices, Remaining
<1>5. /\ IsFiniteSet(active) /\ IsFiniteSet(unvisited)
      /\ Cardinality(active) \in Nat /\ Cardinality(unvisited) \in Nat
      /\ n = Cardinality(unvisited) - 1
  <2>1. IsFiniteSet(Nodes) /\ active \in SUBSET Nodes /\ unvisited \in SUBSET Nodes
    BY <1>1, SizesAssumption DEF TypeOK
  <2>2. IsFiniteSet(active) /\ IsFiniteSet(unvisited)
    BY <2>1, FS_Subset
  <2> QED BY <2>2, FS_CardinalityType, FS_RemoveElement
<1>6. d \in Int
  BY <1>5
<1>7. /\ RangeSize(task) * (others + speed[v][0]) <= Remaining * normalized_
      /\ Remaining * normalized_ <=
           RangeSize(task) * (others + speed[v][0]) + normalized_ * d
  BY <1>1, <1>2 DEF SharesSoFar
<1>8. k = (speed[v][0] * RangeSize(task)) \div normalized_
  BY DEF FairShare
<1>9. /\ RangeSize(task) * others <= (Remaining - k) * normalized_
      /\ (Remaining - k) * normalized_ <= RangeSize(task) * others + normalized_ * (d + 1)
  <2> HIDE DEF k, others, d
  <2> QED BY <1>2, <1>3, <1>4, <1>6, <1>7, <1>8, OneShareLess
<1>10. d + 1 = Cardinality(active) - n
  BY <1>5
<1>11. others >= 1
  <2>1. PICK u \in unvisited \ {v} : TRUE
    OBVIOUS
  <2>2. unvisited \ {v} \in SUBSET Nodes
    BY <1>1
  <2>3. /\ speed[u][0] \in Nat /\ speed[u][0] >= 1
        /\ SpeedOf((unvisited \ {v}) \ {u}) \in Nat
        /\ others = SpeedOf((unvisited \ {v}) \ {u}) + speed[u][0]
    BY <1>1, <2>1, <2>2, SpeedOfOneLess
  <2> QED BY <2>3
<1>12. RangeSize(task) >= 1
  BY <1>3, SizesAssumption DEF ExactArithmetic, IInv, TypeOK, Ranges, Indices
<1>13. k < Remaining
  <2> HIDE DEF k, others
  <2>1. ASSUME Remaining - k <= 0 PROVE FALSE
    <3>1. (Remaining - k) * normalized_ <= 0 * normalized_
      BY <1>3, <1>4, <2>1, TimesMonotone
    <3>2. 1 * others <= RangeSize(task) * others
      BY <1>2, <1>3, <1>12, TimesMonotone
    <3>3. RangeSize(task) * others \in Int /\ (Remaining - k) * normalized_ \in Int
      BY <1>2, <1>3, <1>4
    <3> QED BY <1>2, <1>3, <1>9, <1>11, <3>1, <3>2, <3>3
  <2> QED BY <1>3, <1>4, <2>1
<1> QED BY <1>9, <1>10, <1>13

LEMMA SharesSliceTurn ==
  ASSUME IInv, Shares, NEW v \in Nodes, SliceTurn(v)
  PROVE  Shares'
<1>1. /\ response = "none" /\ response' = "none"
      /\ v \in unvisited /\ unvisited # {v} /\ unvisited' = unvisited \ {v}
      /\ UNCHANGED <<active, speed, normalized_, position, task>>
  BY DEF SliceTurn, pool
<1>2. (normalized_ = SpeedOf(active))'
  BY <1>1 DEF Shares, SpeedOf
<1>3. ASSUME ExactArithmetic' PROVE SharesSoFar'
  <2> DEFINE k == FairShare(v)
  <2>1. ExactArithmetic
    BY <1>1, <1>3 DEF ExactArithmetic, RangeSize
  <2>2. TypeOK /\ v \in active /\ SharesSoFar
    BY <1>1, <2>1 DEF IInv, TypeOK, Shares
  <2>3. ItersToSlice(v) = {k} /\ Measured
    BY <2>1, <2>2, ShareIsFair
  <2>4. /\ ~ CannotSlice(ts, k)
        /\ PublishMessage(v, Block(ts, k))
        /\ ts' = Rest(ts, k)
    BY <2>3 DEF SliceTurn
  <2>5. k \in Nat /\ k + MaxIndex < Word
    BY <1>1, <2>3, ShareFits
  <2>6. /\ Block(ts, k) = [first |-> ts.first, second |-> ts.first + k - 1]
        /\ Rest(ts, k) = [first |-> ts.first + k, second |-> ts.second]
    <3> HIDE DEF k
    <3> QED BY <2>2, <2>4, <2>5, SliceAway DEF TypeOK
  <2>7. ts.first \in Nat /\ ts.second \in Nat
    BY <2>2, SizesAssumption DEF TypeOK, Ranges, Indices
  <2>8. Remaining' = Remaining - k
    <3> HIDE DEF k
    <3>1. ts'.first = ts.first + k /\ ts'.second = ts.second
      BY <2>4, <2>6
    <3> QED BY <2>5, <2>7, <3>1 DEF Remaining
  <2>9. /\ SpeedOf(unvisited)' = SpeedOf(unvisited \ {v})
        /\ Cardinality(unvisited)' = Cardinality(unvisited \ {v})
        /\ Cardinality(active)' = Cardinality(active)
        /\ RangeSize(task)' = RangeSize(task)
        /\ normalized_' = normalized_
    BY <1>1 DEF SpeedOf, RangeSize
  <2>10. /\ RangeSize(task) * SpeedOf(unvisited \ {v}) <= (Remaining - k) * normalized_
         /\ (Remaining - k) * normalized_ <=
              RangeSize(task) * SpeedOf(unvisited \ {v})
                + normalized_ * (Cardinality(active) - Cardinality(unvisited \ {v}))
    BY <1>1, <2>1, OneTurn
  <2>11. ASSUME NEW m \in handed'
         PROVE  m.range.second - m.range.first + 1 = FairShare(m.node)'
    <3>1. FairShare(m.node)' = FairShare(m.node)
      BY <1>1 DEF FairShare, RangeSize
    <3>2. CASE m \in handed
      BY <2>2, <3>1, <3>2 DEF SharesSoFar
    <3>3. CASE m = [node |-> v, range |-> Block(ts, k), sent |-> publisher = "up"]
      <4>1. m.node = v /\ m.range = Block(ts, k)
        BY <3>3
      <4>2. FairShare(m.node) = k
        BY <4>1
      <4> HIDE DEF k
      <4>3. m.range.second = ts.first + k - 1 /\ m.range.first = ts.first
        BY <2>6, <4>1
      <4> QED BY <2>5, <2>7, <3>1, <4>2, <4>3
    <3> QED BY <2>4, <3>2, <3>3 DEF PublishMessage
  <2> HIDE DEF k
  <2> QED BY <2>8, <2>9, <2>10, <2>11 DEF SharesSoFar
<1> QED BY <1>1, <1>2, <1>3 DEF Shares, BalancedBlocks, ThrowsOnlyOnEmptyShare

\* SliceAway can only throw for a share of zero.
LEMMA SharesSliceThrows ==
  ASSUME IInv, Shares, NEW v \in Nodes, SliceThrows(v)
  PROVE  Shares'
<1>1. /\ response = "none" /\ response' = "500"
      /\ v \in unvisited /\ unvisited # {v}
      /\ UNCHANGED <<active, speed, normalized_, position, task>>
  BY DEF SliceThrows, pool
<1>2. (normalized_ = SpeedOf(active))'
  BY <1>1 DEF Shares, SpeedOf
<1>3. ASSUME ExactArithmetic' PROVE \E u \in active' : FairShare(u)' = 0
  <2> DEFINE k == FairShare(v)
  <2>1. ExactArithmetic
    BY <1>1, <1>3 DEF ExactArithmetic, RangeSize
  <2>2. TypeOK /\ v \in active
    BY <1>1 DEF IInv, TypeOK
  <2>3. ItersToSlice(v) = {k} /\ Measured
    BY <2>1, <2>2, ShareIsFair
  <2>4. CannotSlice(ts, k)
    BY <2>3 DEF SliceThrows
  <2>5. k \in Nat /\ k + MaxIndex < Word
    BY <1>1, <2>3, ShareFits
  <2>6. k < Remaining
    BY <1>1, <2>1, OneTurn
  <2>7. k = 0
    <3> HIDE DEF k
    <3>1. ts.first \in 0 .. MaxIndex /\ ts.second \in 0 .. MaxIndex
      BY <2>2 DEF TypeOK, Ranges, Indices
    <3>2. (ts.first + k) % Word = ts.first + k
      BY <2>5, <3>1, SizesAssumption
    <3>3. ts.first + k <= ts.second
      BY <2>5, <2>6, <3>1 DEF Remaining
    <3> QED BY <2>4, <2>5, <3>1, <3>2, <3>3 DEF CannotSlice
  <2>8. FairShare(v)' = FairShare(v)
    BY <1>1 DEF FairShare, RangeSize
  <2> QED BY <1>1, <2>2, <2>7, <2>8
<1> QED BY <1>1, <1>2, <1>3 DEF Shares, BalancedBlocks, ThrowsOnlyOnEmptyShare

\* The last node takes its share and the roundings of the others.
LEMMA SharesPublishRemainder ==
  ASSUME IInv, Shares, NEW v \in Nodes, PublishRemainder(v)
  PROVE  Shares'
<1>1. /\ response = "none" /\ response' = "200" /\ unvisited = {v}
      /\ handed' = handed \union {[node |-> v, range |-> ts, sent |-> publisher = "up"]}
      /\ UNCHANGED <<active, speed, normalized_, position, task>>
  BY DEF PublishRemainder, PublishMessage, pool
<1>2. (normalized_ = SpeedOf(active))'
  BY <1>1 DEF Shares, SpeedOf
<1>3. ASSUME ExactArithmetic', NEW m \in handed'
      PROVE  LET length == m.range.second - m.range.first + 1
             IN  /\ FairShare(m.node)' <= length
                 /\ length < FairShare(m.node)' + Cardinality(active')
  <2> DEFINE c == Cardinality(active)
  <2>1. ExactArithmetic
    BY <1>1, <1>3 DEF ExactArithmetic, RangeSize
  <2>2. TypeOK /\ v \in active /\ SharesSoFar
    BY <1>1, <2>1 DEF IInv, TypeOK, Shares
  <2>3. IsFiniteSet(active) /\ c \in Nat /\ c >= 1
    <3>1. IsFiniteSet(active) /\ c \in Nat
      BY <2>2, SizesAssumption, FS_Subset, FS_CardinalityType DEF TypeOK
    <3> QED BY <2>2, <3>1, FS_EmptySet
  <2>4. FairShare(m.node)' = FairShare(m.node) /\ Cardinality(active') = c
    BY <1>1 DEF FairShare, RangeSize
  <2>5. CASE m \in handed
    <3>1. m.range.second - m.range.first + 1 = FairShare(m.node)
      BY <2>2, <2>5 DEF SharesSoFar
    <3>2. m.range.second - m.range.first + 1 \in Int
      BY <2>2, <2>5, SizesAssumption DEF TypeOK, Messages, Blocks, Indices
    <3> QED BY <2>3, <2>4, <3>1, <3>2
  <2>6. CASE m = [node |-> v, range |-> ts, sent |-> publisher = "up"]
    <3>1. m.node = v /\ m.range.second - m.range.first + 1 = Remaining
      BY <2>6 DEF Remaining
    <3>2. /\ normalized_ \in Nat /\ normalized_ >= 1
          /\ RangeSize(task) \in Nat
      BY <2>1, <2>2, ShareIsFair
    <3>3. speed[v][0] \in Nat /\ SpeedOf(unvisited) = speed[v][0]
      <4>1. {v} \in SUBSET Nodes /\ v \in {v} /\ {v} \ {v} = {}
        OBVIOUS
      <4>2. SpeedOf({v}) = SpeedOf({v} \ {v}) + speed[v][0] /\ speed[v][0] \in Nat
        BY <2>2, <4>1, SpeedOfOneLess
      <4> QED BY <1>1, <2>2, <4>1, <4>2, SpeedOfNone
    <3>4. Cardinality(unvisited) = 1
      BY <1>1, FS_Singleton
    <3>5. Remaining \in Int
      BY <2>2, SizesAssumption DEF TypeOK, Ranges, Indices, Remaining
    <3>6. /\ RangeSize(task) * speed[v][0] <= Remaining * normalized_
          /\ Remaining * normalized_ <= RangeSize(task) * speed[v][0] + normalized_ * (c - 1)
      BY <2>2, <3>3, <3>4 DEF SharesSoFar
    <3>7. FairShare(v) <= Remaining /\ Remaining < FairShare(v) + c
      <4> DEFINE s == speed[v][0]
                 size == RangeSize(task)
      <4>1. FairShare(v) = (s * size) \div normalized_
        BY DEF FairShare
      <4>2. s \in Nat /\ size \in Nat /\ c \in Int
        BY <2>3, <3>2, <3>3
      <4>3. size * s <= Remaining * normalized_ /\ Remaining * normalized_ <= size * s + normalized_ * (c - 1)
        BY <3>6
      <4> HIDE DEF c, s, size
      <4> QED BY <3>2, <3>5, <4>1, <4>2, <4>3, LastShare
    <3> QED BY <2>4, <3>1, <3>7
  <2> QED BY <1>1, <2>5, <2>6
<1> QED BY <1>1, <1>2, <1>3 DEF Shares, BalancedBlocks, ThrowsOnlyOnEmptyShare

LEMMA SharesInit == Init => Shares
BY DEF Init, Shares, SpeedOf, BalancedBlocks, ThrowsOnlyOnEmptyShare

LEMMA SharesNext == IInv /\ IInv' /\ Shares /\ [Next]_vars => Shares'
<1> SUFFICES ASSUME IInv, IInv', Shares, [Next]_vars PROVE Shares'
  OBVIOUS
<1>1. ASSUME NEW r \in Ranges, NEW p \in Sizes \union {UnknownSize}, Request(r, p) PROVE Shares'
  BY <1>1, SharesRequest
<1>2. ASSUME NEW v \in Nodes, Loop(v) PROVE Shares'
  BY <1>2, SharesSliceTurn, SharesSliceThrows, SharesPublishRemainder DEF Loop
<1>3. CASE Answer
  BY <1>3 DEF Answer, pool, Shares, SpeedOf, BalancedBlocks, ThrowsOnlyOnEmptyShare
<1>4. CASE LoseConnection \/ ConnectPublisher \/ DisconnectPublisher \/ UNCHANGED vars
  <2>1. UNCHANGED <<active, speed, normalized_, position, task, ts, unvisited, handed, response>>
    BY <1>4 DEF LoseConnection, ConnectPublisher, DisconnectPublisher, vars, pool
  <2> QED
    BY <2>1
    DEF Shares, SharesSoFar, SpeedOf, Remaining, ExactArithmetic, RangeSize, FairShare,
        BalancedBlocks, ThrowsOnlyOnEmptyShare
<1> QED BY <1>1, <1>2, <1>3, <1>4 DEF Next

LEMMA SharesHold == Spec => []Shares
BY SharesInit, SharesNext, InductiveInvariant, PTL DEF Spec

\* Every block of SendToExecution has at least its node's share; the last one exceeds
\* it by less than the number of nodes.
THEOREM BlocksBalanced == Spec => []BalancedBlocks
<1>1. Shares => BalancedBlocks
  BY DEF Shares
<1> QED BY <1>1, SharesHold, PTL

\* SliceAway throws in SendToExecution only for a node too slow to earn an iteration.
THEOREM ThrowsForSlowNodes == Spec => []ThrowsOnlyOnEmptyShare
<1>1. Shares => ThrowsOnlyOnEmptyShare
  BY DEF Shares
<1> QED BY <1>1, SharesHold, PTL

----------------------------------------------------------------------------
(* The refinement: every step of a call is a step of TaskPartition.        *)

\* The block of a node, and the blocks as TaskPartition sees them.
BlockOf(v) == IndicesOf({m \in handed : m.node = v})
Assigned == [v \in Nodes |-> BlockOf(v)]

\* What the nodes were given is what the messages span.
LEMMA GivenIsHanded ==
  ASSUME TypeOK
  PROVE  UNION {Assigned[v] : v \in Nodes} = IndicesOf(handed)
<1>1. \A m \in handed : m.node \in Nodes
  BY DEF TypeOK, Messages
<1>2. \A v \in Nodes : Assigned[v] = {i \in IndicesOf(handed) :
                                       \E m \in handed : m.node = v /\ i \in Span(m.range)}
  BY DEF Assigned, BlockOf, IndicesOf
<1>3. \A i \in IndicesOf(handed) : \E v \in Nodes : i \in Assigned[v]
  BY <1>1, <1>2 DEF IndicesOf
<1>4. \A v \in Nodes : Assigned[v] \subseteq IndicesOf(handed)
  BY <1>2
<1> QED BY <1>3, <1>4

\* A message to v extends v's block and nobody else's.
LEMMA BlockOfOneMore ==
  ASSUME NEW v \in Nodes, NEW r, NEW s,
         \A m \in handed : m.node # v,
         handed' = handed \union {[node |-> v, range |-> r, sent |-> s]}
  PROVE  /\ Assigned[v] = {}
         /\ Assigned' = [Assigned EXCEPT ![v] = Span(r)]
<1> DEFINE message == [node |-> v, range |-> r, sent |-> s]
<1>1. {m \in handed : m.node = v} = {}
  OBVIOUS
<1>2. BlockOf(v) = {}
  BY <1>1 DEF BlockOf, IndicesOf
<1>3. {m \in handed' : m.node = v} = {message}
  BY <1>1
<1>4. BlockOf(v)' = Span(r)
  <2>1. BlockOf(v)' = IndicesOf({m \in handed' : m.node = v})
    BY DEF BlockOf, IndicesOf
  <2>2. IndicesOf({message}) = Span(message.range)
    BY Zenon DEF IndicesOf
  <2>3. message.range = r
    OBVIOUS
  <2> HIDE DEF message
  <2> QED BY <1>3, <2>1, <2>2, <2>3
<1>5. ASSUME NEW u \in Nodes, u # v PROVE BlockOf(u)' = BlockOf(u)
  <2>1. {m \in handed' : m.node = u} = {m \in handed : m.node = u}
    BY <1>5
  <2> QED BY <2>1 DEF BlockOf
<1> QED BY <1>2, <1>4, <1>5 DEF Assigned

LEMMA SpansAreIterations ==
  ASSUME NEW r \in Ranges
  PROVE  Span(r) \in SUBSET Indices
BY SizesAssumption DEF Ranges, Span, Indices

\* The initial states map to the abstract one.
LEMMA RefinesInit == Init => Partition!Init
<1> SUFFICES ASSUME Init PROVE Partition!Init
  OBVIOUS
<1>1. \A v \in Nodes : IndicesOf({m \in handed : m.node = v}) = {}
  BY DEF Init, IndicesOf
<1>2. response = "idle"
  BY DEF Init
<1> QED BY <1>1, <1>2 DEF Partition!Init

\* What TaskPartition sees of a state: of a measured task its division, of another
\* nothing.
LEMMA SeenWhenMeasured ==
  ASSUME Measured
  PROVE  [v \in Nodes |-> IF Measured THEN IndicesOf({m \in handed : m.node = v}) ELSE {}]
           = Assigned
BY DEF Assigned, BlockOf

\* A slice of a measured task is a step Give.
LEMMA RefinesSliceTurn ==
  ASSUME IInv, Measured, Measured', NEW v \in Nodes, SliceTurn(v)
  PROVE  Partition!Next
<1> DEFINE block == [u \in Nodes |->
                       IF Measured THEN IndicesOf({m \in handed : m.node = u}) ELSE {}]
<1>1. PICK k \in ItersToSlice(v) :
        /\ ~ CannotSlice(ts, k)
        /\ PublishMessage(v, Block(ts, k))
        /\ ts' = Rest(ts, k)
  BY DEF SliceTurn
<1>2. k \in Nat /\ k + MaxIndex < Word
  BY ShareFits DEF SliceTurn
<1>3. /\ k >= 1
      /\ ts.first + k <= ts.second
      /\ Block(ts, k) = [first |-> ts.first, second |-> ts.first + k - 1]
      /\ Block(ts, k) \in Ranges
  BY <1>1, <1>2, SliceAway DEF IInv, TypeOK
<1>4. response = "none" /\ response' = "none" /\ task' = task
  BY DEF SliceTurn
<1>5. SlicedSoFar
  BY <1>4 DEF IInv
<1>6. \A m \in handed : m.node # v
  BY <1>5 DEF SliceTurn, SlicedSoFar
<1>7. Assigned[v] = {} /\ Assigned' = [Assigned EXCEPT ![v] = Span(Block(ts, k))]
  BY <1>1, <1>6, BlockOfOneMore DEF PublishMessage
<1>8. block = Assigned /\ block' = Assigned'
  BY SeenWhenMeasured DEF Assigned, BlockOf
<1>9. Span(Block(ts, k)) \subseteq Span(task) \ IndicesOf(handed)
  <2>1. /\ task.first \in Nat /\ task.second \in Nat
        /\ ts.first \in Nat /\ ts.second \in Nat
    BY SizesAssumption DEF IInv, TypeOK, Ranges, Indices
  <2>2. IndicesOf(handed) = task.first .. ts.first - 1
    BY <1>5 DEF SlicedSoFar
  <2> QED BY <1>2, <1>3, <1>5, <2>1, <2>2 DEF SlicedSoFar, Span
<1>10. UNION {block[u] : u \in Nodes} = IndicesOf(handed)
  BY <1>8, GivenIsHanded DEF IInv
<1>11. Partition!Left = Span(task) \ IndicesOf(handed)
  BY <1>4, <1>10 DEF Partition!Left, Partition!Given
<1>12. Span(Block(ts, k)) \in SUBSET Indices
  BY <1>3, SpansAreIterations
<1>13. Partition!Give(v, Span(Block(ts, k)))
  BY <1>4, <1>7, <1>8, <1>9, <1>11 DEF Partition!Give
<1> QED BY <1>12, <1>13 DEF Partition!Next

\* The remainder of a measured task is a step GiveRest.
LEMMA RefinesPublishRemainder ==
  ASSUME IInv, Measured, Measured', NEW v \in Nodes, PublishRemainder(v)
  PROVE  Partition!Next
<1> DEFINE block == [u \in Nodes |->
                       IF Measured THEN IndicesOf({m \in handed : m.node = u}) ELSE {}]
<1>1. /\ response = "none"
      /\ response' = "200"
      /\ task' = task
      /\ v \in unvisited
      /\ handed' = handed \union {[node |-> v, range |-> ts, sent |-> publisher = "up"]}
  BY DEF PublishRemainder, PublishMessage
<1>2. SlicedSoFar /\ NothingLost
  BY <1>1 DEF IInv
<1>3. \A m \in handed : m.node # v
  BY <1>1, <1>2 DEF SlicedSoFar
<1>4. Assigned[v] = {} /\ Assigned' = [Assigned EXCEPT ![v] = Span(ts)]
  BY <1>1, <1>3, BlockOfOneMore
<1>5. block = Assigned /\ block' = Assigned'
  BY SeenWhenMeasured DEF Assigned, BlockOf
<1>6. Span(ts) = Span(task) \ IndicesOf(handed)
  <2>1. task.first \in Nat /\ ts.first \in Nat /\ ts.second \in Nat
    BY SizesAssumption DEF IInv, TypeOK, Ranges, Indices
  <2>2. Span(ts) \intersect IndicesOf(handed) = {}
    BY <1>2, <2>1 DEF SlicedSoFar, Span
  <2> QED BY <1>1, <1>2, <2>2 DEF NothingLost
<1>7. UNION {block[u] : u \in Nodes} = IndicesOf(handed)
  BY <1>5, GivenIsHanded DEF IInv
<1>8. Partition!Left = Span(task) \ IndicesOf(handed)
  BY <1>1, <1>7 DEF Partition!Left, Partition!Given
<1>9. Partition!GiveRest(v)
  BY <1>1, <1>4, <1>5, <1>6, <1>8 DEF Partition!GiveRest
<1> QED BY <1>9 DEF Partition!Next

\* A request is a step Accept or Refuse, or not seen.
LEMMA RefinesRequest ==
  ASSUME IInv, NEW r \in Ranges, NEW p, Request(r, p)
  PROVE  [Partition!Next]_Partition!vars
<1>1. response = "idle" /\ handed = {} /\ handed' = {} /\ IndicesOf({}) = {}
  BY DEF Request, IInv, IndicesOf
<1>2. /\ task' = r
      /\ response' = IF active = {} THEN "409" ELSE "none"
  BY DEF Request
<1>3. \A v \in Nodes : {m \in handed : m.node = v} = {} /\ {m \in handed' : m.node = v} = {}
  BY <1>1
<1>4. Span(r) \in SUBSET Indices
  BY SpansAreIterations
<1>5. CASE ~ Measured'
  BY <1>1, <1>3, <1>5 DEF Partition!vars
<1>6. CASE Measured' /\ active = {}
  <2>1. Partition!Refuse(Span(r))
    BY <1>1, <1>2, <1>3, <1>6 DEF Partition!Refuse
  <2> QED BY <1>4, <2>1 DEF Partition!Next
<1>7. CASE Measured' /\ active # {}
  <2>1. Partition!Accept(Span(r))
    BY <1>1, <1>2, <1>3, <1>7 DEF Partition!Accept
  <2> QED BY <1>4, <2>1 DEF Partition!Next
<1> QED BY <1>5, <1>6, <1>7

\* The answer of a measured task is a step Close; that of another is not seen.
LEMMA RefinesAnswer ==
  ASSUME IInv, Answer
  PROVE  [Partition!Next]_Partition!vars
<1>1. response \in {"200", "409", "500"} /\ response' = "idle" /\ handed' = {}
  BY DEF Answer
<1>2. IndicesOf({}) = {}
  BY DEF IndicesOf
<1>3. \A v \in Nodes : {m \in handed' : m.node = v} = {}
  BY <1>1
<1>4. CASE Measured
  <2>1. Partition!Close
    BY <1>1, <1>2, <1>3, <1>4 DEF Partition!Close
  <2> QED BY <2>1 DEF Partition!Next
<1>5. CASE ~ Measured
  BY <1>1, <1>2, <1>3, <1>5 DEF Partition!vars
<1> QED BY <1>4, <1>5

\* Every step of a call maps to a step of TaskPartition or to a stutter.
LEMMA RefinesNext == IInv /\ [Next]_vars => [Partition!Next]_Partition!vars
<1> SUFFICES ASSUME IInv, [Next]_vars
             PROVE  [Partition!Next]_Partition!vars
  OBVIOUS
<1>1. ASSUME NEW r \in Ranges, NEW p \in Sizes \union {UnknownSize}, Request(r, p)
      PROVE  [Partition!Next]_Partition!vars
  BY <1>1, RefinesRequest
<1>2. ASSUME NEW v \in Nodes, Loop(v), Measured
      PROVE  Partition!Next
  <2>1. Measured'
    BY <1>2 DEF Loop, SliceTurn, SliceThrows, PublishRemainder, Measured, StoredPositions
  <2>2. CASE SliceTurn(v)
    BY <1>2, <2>1, <2>2, RefinesSliceTurn
  <2>3. CASE SliceThrows(v)
    <3>1. Partition!Fail
      BY <1>2, <2>1, <2>3 DEF SliceThrows, Partition!Fail
    <3> QED BY <3>1 DEF Partition!Next
  <2>4. CASE PublishRemainder(v)
    BY <1>2, <2>1, <2>4, RefinesPublishRemainder
  <2> QED BY <1>2, <2>2, <2>3, <2>4 DEF Loop
<1>3. ASSUME NEW v \in Nodes, Loop(v), ~ Measured
      PROVE  UNCHANGED Partition!vars
  <2>1. ~ Measured'
    BY <1>3 DEF Loop, SliceTurn, SliceThrows, PublishRemainder, Measured, StoredPositions
  <2> QED BY <1>3, <2>1 DEF Partition!vars
<1>4. CASE Answer
  BY <1>4, RefinesAnswer
<1>5. CASE LoseConnection \/ ConnectPublisher \/ DisconnectPublisher \/ UNCHANGED vars
  <2>1. UNCHANGED <<position, task, handed, response>>
    BY <1>5 DEF LoseConnection, ConnectPublisher, DisconnectPublisher, vars
  <2>2. Measured' = Measured
    BY <2>1 DEF Measured, StoredPositions
  <2> QED BY <2>1, <2>2 DEF Partition!vars
<1> QED
  BY <1>1, <1>2, <1>3, <1>4, <1>5 DEF Next

\* SendToExecution implements TaskPartition.
THEOREM Refinement == Spec => ImplementsPartition
BY RefinesInit, RefinesNext, InductiveInvariant, PTL DEF Spec, ImplementsPartition, Partition!Spec

============================================================================
