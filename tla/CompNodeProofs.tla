--------------------------- MODULE CompNodeProofs ---------------------------
(***************************************************************************)
(* Proofs about a worker, for every team, every set of blocks and every    *)
(* number of measured systems.  The invariant has three parts that hardly  *)
(* meet: what the benchmark and the REST thread share, the sum of the      *)
(* parallel region, and the generators of its threads.                     *)
(***************************************************************************)
EXTENDS CompNode, TLAPS

Span(m) == Block[m].first .. Block[m].last
Whole == {0, Sizes}

----------------------------------------------------------------------------
(* The invariants.                                                         *)

\* What the variables hold.
TypeOK ==
  /\ bench \in [measured : Nat, size : Whole, data : Whole]
  /\ characteristic_computed_ \in BOOLEAN
  /\ rest \in [op : {"none", "status", "connect", "disconnect"},
               at : {"idle", "skip", "size", "data", "connect", "join"}, size : Whole]
  /\ connection \in {"none", "running", "lost"}
  /\ todo \subseteq Blocks
  /\ block \in Blocks \union {NoBlock}
  /\ share \in [Team -> SUBSET Iterations]
  /\ functor \in [Team -> Types \union {Unmade}]
  /\ drawn \in [Team -> [iteration : Terms, type : Types \union {Unmade}]]
  /\ copy \in [Team -> [Terms -> Nat] \union {<< >>}]
  /\ critical \in Team \union {Free}
  /\ res \in [Terms -> Nat]
  /\ source \in [Iterations -> Types \union {Unmade}]
  /\ DOMAIN sums = Blocks

\* The flag is set after both words of bench_res_, and GetStatus reads them only under it.
Published ==
  /\ characteristic_computed_ => bench.size = Sizes /\ bench.data = Sizes
  /\ rest.op = "status" /\ rest.at \in {"size", "data"} => characteristic_computed_
  /\ rest.op = "status" /\ rest.at = "data" => rest.size = Sizes
  /\ \A a \in answers : a[2] \in Whole

\* Who is in the critical section holds the sum as it is, and nobody else holds one.
Exclusive ==
  \A t \in Team : copy[t] # << >> => critical = t /\ copy[t] = res /\ drawn[t] # NoTerm

\* The iterations a thread has still to add: those dealt to it and the one it has computed.
Owes(t, x) == x \in share[t] \/ (drawn[t] # NoTerm /\ drawn[t].iteration = x)

\* Each iteration of the block is owed by one thread, once, or is in the sum, once.
Accounted ==
  /\ block = NoBlock => \A t \in Team : share[t] = {} /\ drawn[t] = NoTerm
  /\ block # NoBlock =>
       /\ \A t \in Team, x \in Terms : Owes(t, x) => x \in Span(block)
       /\ \A t \in Team : drawn[t] # NoTerm => drawn[t].iteration \notin share[t]
       /\ \A t, d \in Team, x \in Terms : Owes(t, x) /\ Owes(d, x) => t = d
       /\ \A x \in Terms : res[x] = IF x = Coordinates \/ (x \in Span(block) /\ \A t \in Team : ~ Owes(t, x))
                                      THEN 1 ELSE 0

\* A generator is that of the first block of the connection, and so are the draws; a
\* thread without one is in that first block.
Generators ==
  /\ block # NoBlock => connection = "running"
  /\ \A t \in Team : functor[t] # Unmade => functor[t] = first_type
  /\ block # NoBlock => \A t \in Team : functor[t] = Unmade => first_type = Block[block].type
  /\ block = NoBlock => first_type = Unmade \/ \A t \in Team : functor[t] # Unmade
  /\ \A t \in Team : drawn[t] # NoTerm => drawn[t].type = first_type
  /\ block # NoBlock => \A i \in Span(block) :
       source[i] = first_type \/ \E t \in Team : Owes(t, i)

IInv == TypeOK /\ Published /\ Exclusive /\ Accounted /\ BlockSum /\ Generators /\ OneGenerator

----------------------------------------------------------------------------
(* Facts about the constants.                                              *)

LEMMA SpanFact == \A m \in Blocks : Span(m) \subseteq Iterations
BY DEF Span, Iterations

LEMMA IterationsFact == Iterations \subseteq Nat /\ Coordinates \notin Iterations
<1>1. \A m \in Blocks : Span(m) \subseteq Nat
  BY CompNodeAssumption DEF Span
<1> QED BY <1>1 DEF Span, Iterations, Coordinates

----------------------------------------------------------------------------
(* Types.                                                                  *)

LEMMA TypeInit == Init => TypeOK
<1> SUFFICES ASSUME Init PROVE TypeOK
  OBVIOUS
<1>1. bench \in [measured : Nat, size : Whole, data : Whole]
  BY DEF Init, Whole
<1>2. rest \in [op : {"none", "status", "connect", "disconnect"},
                at : {"idle", "skip", "size", "data", "connect", "join"}, size : Whole]
  BY DEF Init, Idle, Whole
<1>3. drawn \in [Team -> [iteration : Terms, type : Types \union {Unmade}]]
  BY DEF Init, NoTerm, Terms
<1>4. /\ share \in [Team -> SUBSET Iterations] /\ functor \in [Team -> Types \union {Unmade}]
      /\ copy \in [Team -> [Terms -> Nat] \union {<< >>}]
  BY DEF Init
<1>5. res \in [Terms -> Nat] /\ source \in [Iterations -> Types \union {Unmade}]
  BY DEF Init
<1> QED BY <1>1, <1>2, <1>3, <1>4, <1>5 DEF Init, TypeOK

LEMMA TypeStep == TypeOK /\ [Next]_vars => TypeOK'
<1> SUFFICES ASSUME TypeOK, [Next]_vars PROVE TypeOK'
  OBVIOUS
<1> USE DEF TypeOK, rest_vars, region
<1>0. Sizes \in Nat /\ Sizes \in Whole /\ 0 \in Whole
  BY CompNodeAssumption DEF Whole
<1>1. CASE BenchThread
  <2>1. CASE Measure
    <3>1. bench' = [measured |-> bench.measured + 1, size |-> bench.size, data |-> bench.data]
      BY <2>1 DEF Measure
    <3>2. bench' \in [measured : Nat, size : Whole, data : Whole]
      BY <3>1
    <3> QED BY <2>1, <3>2 DEF Measure
  <2>2. CASE Assign
    <3>1. bench' = [bench EXCEPT !.size = Sizes] \/ bench' = [bench EXCEPT !.data = Sizes]
      BY <2>2 DEF Assign
    <3>2. bench' \in [measured : Nat, size : Whole, data : Whole]
      BY <1>0, <3>1
    <3> QED BY <2>2, <3>2 DEF Assign
  <2>3. CASE StoreComputed
    BY <2>3 DEF StoreComputed
  <2> QED BY <1>1, <2>1, <2>2, <2>3 DEF BenchThread
<1>2. CASE UNCHANGED vars
  BY <1>2 DEF vars
<1>3. CASE RestThread
  <2>1. CASE SkipBench
    BY <1>0, <2>1 DEF SkipBench, Answered, Idle
  <2>2. CASE ReadSize
    BY <2>2 DEF ReadSize
  <2>3. CASE ReadData
    <3>1. rest' = Idle \/ \E n \in Whole : rest' = [rest EXCEPT !.at = "connect", !.size = n]
      BY <1>0, <2>3 DEF ReadData, Answered
    <3>2. rest' \in [op : {"none", "status", "connect", "disconnect"},
                     at : {"idle", "skip", "size", "data", "connect", "join"}, size : Whole]
      <4>1. CASE rest' = Idle
        BY <1>0, <4>1 DEF Idle
      <4>2. ASSUME NEW n \in Whole, rest' = [rest EXCEPT !.at = "connect", !.size = n]
            PROVE  rest' = [op |-> rest.op, at |-> "connect", size |-> n]
        BY <4>2
      <4> QED BY <3>1, <4>1, <4>2
    <3> QED BY <2>3, <3>2 DEF ReadData
  <2>4. CASE ReadNull
    BY <2>4 DEF ReadNull, Terminate
  <2>5. CASE ConnectRefused
    BY <1>0, <2>5 DEF ConnectRefused, Answered, Idle
  <2>6. CASE Connect
    BY <1>0, <2>6 DEF Connect, Answered, Idle
  <2>7. CASE ConnectTerminates
    BY <2>7 DEF ConnectTerminates, Terminate
  <2>8. CASE Disconnect
    BY <1>0, <2>8 DEF Disconnect, Answered, Idle
  <2> QED BY <1>3, <2>1, <2>2, <2>3, <2>4, <2>5, <2>6, <2>7, <2>8 DEF RestThread
<1>4. CASE LoseConnection
  BY <1>4 DEF LoseConnection
<1>5. CASE FinishBlock
  BY <1>5 DEF FinishBlock
<1>6. CASE GetStatus \/ ConnectRequest \/ DisconnectRequest
  BY <1>0, <1>6 DEF GetStatus, ConnectRequest, DisconnectRequest, Request
<1>7. ASSUME NEW m \in Blocks, StartBlock(m) PROVE TypeOK'
  <2>1. PICK deal \in [Span(m) -> Team] :
          share' = [t \in Team |-> {i \in DOMAIN deal : deal[i] = t}]
    BY <1>7 DEF StartBlock, Span
  <2>2. share' \in [Team -> SUBSET Iterations]
    BY <2>1, SpanFact
  <2>3. res' \in [Terms -> Nat] /\ source' \in [Iterations -> Types \union {Unmade}]
    BY <1>7 DEF StartBlock
  <2>4. todo' \subseteq Blocks /\ block' \in Blocks \union {NoBlock}
    BY <1>7 DEF StartBlock
  <2> QED BY <1>7, <2>2, <2>3, <2>4 DEF StartBlock
<1>8. ASSUME NEW t \in Team, TeamThread(t) PROVE TypeOK'
  <2>1. CASE MakeGenerator(t)
    BY <2>1 DEF MakeGenerator
  <2>2. CASE ParseFuncThrows(t)
    BY <2>2 DEF ParseFuncThrows, Terminate
  <2>3. CASE ComputeIteration(t)
    BY <2>3 DEF ComputeIteration, Terms
  <2>4. CASE EnterCritical(t)
    BY <2>4 DEF EnterCritical
  <2>5. CASE AddToSum(t)
    <3>1. copy[t] \in [Terms -> Nat]
      BY <2>5 DEF AddToSum
    <3>2. res' \in [Terms -> Nat]
      BY <2>5, <3>1 DEF AddToSum
    <3>3. source' \in [Iterations -> Types \union {Unmade}]
      BY <2>5 DEF AddToSum
    <3>4. drawn' \in [Team -> [iteration : Terms, type : Types \union {Unmade}]]
      BY <2>5 DEF AddToSum, NoTerm, Terms
    <3>5. copy' \in [Team -> [Terms -> Nat] \union {<< >>}]
      BY <2>5 DEF AddToSum
    <3> QED BY <2>5, <3>2, <3>3, <3>4, <3>5 DEF AddToSum
  <2> QED BY <1>8, <2>1, <2>2, <2>3, <2>4, <2>5 DEF TeamThread
<1> QED BY <1>1, <1>2, <1>3, <1>4, <1>5, <1>6, <1>7, <1>8 DEF Next

----------------------------------------------------------------------------
(* The benchmark and its readers.                                          *)

\* Everything but the benchmark, the flag, the requests and the answers.
LEMMA PublishedKept ==
  ASSUME Published, UNCHANGED rest_vars PROVE Published'
BY DEF Published, rest_vars

LEMMA PublishedBench ==
  ASSUME TypeOK, Published, BenchThread PROVE Published'
<1>0. Sizes \in Nat
  BY CompNodeAssumption
<1>1. CASE Measure
  BY <1>1 DEF Measure, Published, TypeOK
<1>2. CASE Assign
  <2>1. /\ \/ bench.size = 0 /\ bench' = [bench EXCEPT !.size = Sizes]
           \/ bench.data = 0 /\ bench' = [bench EXCEPT !.data = Sizes]
        /\ UNCHANGED <<characteristic_computed_, rest, answers>>
    BY <1>2 DEF Assign
  <2>2. characteristic_computed_ => bench'.size = Sizes /\ bench'.data = Sizes
    BY <2>1 DEF Published, TypeOK
  <2> QED BY <2>1, <2>2 DEF Published
<1>3. CASE StoreComputed
  BY <1>3 DEF StoreComputed, Published
<1> QED BY <1>1, <1>2, <1>3 DEF BenchThread

\* The answer to rest.op, with n entries.
LEMMA PublishedAnswer ==
  ASSUME Published, NEW n \in Whole, Answered(n), UNCHANGED <<bench, characteristic_computed_>>
  PROVE  Published'
BY DEF Published, Answered, Idle

LEMMA PublishedRest ==
  ASSUME TypeOK, Published, RestThread PROVE Published'
<1>0. 0 \in Whole /\ rest.size \in Whole /\ bench.data \in Whole
  BY DEF TypeOK, Whole
<1>1. CASE SkipBench
  BY <1>0, <1>1, PublishedAnswer DEF SkipBench
<1>2. CASE ReadSize
  BY <1>2 DEF ReadSize, Published, TypeOK
<1>3. CASE ReadData
  <2>1. CASE rest.op = "status"
    BY <1>0, <1>3, <2>1, PublishedAnswer DEF ReadData
  <2>2. CASE rest.op # "status"
    <3>1. /\ \E n : rest' = [rest EXCEPT !.at = "connect", !.size = n]
          /\ UNCHANGED <<answers, bench, characteristic_computed_>>
      BY <1>3, <2>2 DEF ReadData
    <3> QED BY <3>1 DEF Published, TypeOK
  <2> QED BY <2>1, <2>2
<1>4. CASE ReadNull
  BY <1>4, PublishedKept DEF ReadNull, Terminate
<1>5. CASE ConnectRefused
  BY <1>0, <1>5, PublishedAnswer DEF ConnectRefused
<1>6. CASE Connect
  BY <1>0, <1>6, PublishedAnswer DEF Connect
<1>7. CASE ConnectTerminates
  BY <1>7, PublishedKept DEF ConnectTerminates, Terminate
<1>8. CASE Disconnect
  BY <1>0, <1>8, PublishedAnswer DEF Disconnect
<1> QED BY <1>1, <1>2, <1>3, <1>4, <1>5, <1>6, <1>7, <1>8 DEF RestThread

LEMMA PublishedStep == TypeOK /\ Published /\ [Next]_vars => Published'
<1> SUFFICES ASSUME TypeOK, Published, [Next]_vars PROVE Published'
  OBVIOUS
<1>1. CASE BenchThread \/ RestThread
  BY <1>1, PublishedBench, PublishedRest
<1>2. CASE GetStatus \/ ConnectRequest \/ DisconnectRequest
  <2>1. CASE GetStatus
    BY <2>1 DEF GetStatus, Request, Published
  <2>2. CASE ConnectRequest \/ DisconnectRequest
    BY <2>2 DEF ConnectRequest, DisconnectRequest, Request, Published
  <2> QED BY <1>2, <2>1, <2>2
<1>3. CASE LoseConnection \/ FinishBlock \/ \E m \in Blocks : StartBlock(m)
  BY <1>3, PublishedKept DEF LoseConnection, FinishBlock, StartBlock
<1>4. ASSUME NEW t \in Team, TeamThread(t) PROVE Published'
  BY <1>4, PublishedKept DEF TeamThread, MakeGenerator, ParseFuncThrows, Terminate,
     ComputeIteration, EnterCritical, AddToSum
<1>5. CASE UNCHANGED vars
  BY <1>5, PublishedKept DEF vars
<1> QED BY <1>1, <1>2, <1>3, <1>4, <1>5 DEF Next

----------------------------------------------------------------------------
(* The sum.                                                                *)

\* What Exclusive, Accounted and BlockSum speak of.
sum_vars == <<block, share, drawn, copy, critical, res, sums>>

LEMMA SumKept ==
  ASSUME Exclusive, Accounted, BlockSum, UNCHANGED sum_vars
  PROVE  (Exclusive /\ Accounted /\ BlockSum)'
BY DEF Exclusive, Accounted, BlockSum, Owes, sum_vars

LEMMA SumStart ==
  ASSUME TypeOK, Exclusive, Accounted, BlockSum, NEW m \in Blocks, StartBlock(m)
  PROVE  (Exclusive /\ Accounted /\ BlockSum)'
<1>1. PICK deal \in [Span(m) -> Team] :
        share' = [t \in Team |-> {i \in DOMAIN deal : deal[i] = t}]
  BY DEF StartBlock, Span
<1>2. \A t \in Team : drawn[t] = NoTerm /\ copy[t] = << >>
  BY DEF StartBlock, Accounted, Exclusive
<1>3. \A t \in Team : drawn'[t] = NoTerm /\ copy'[t] = << >>
  BY <1>2 DEF StartBlock
<1>4. \A t \in Team : \A x : Owes(t, x)' <=> x \in Span(m) /\ deal[x] = t
  BY <1>1, <1>3 DEF Owes
<1>5. block' = m /\ m # NoBlock
  BY CompNodeAssumption DEF StartBlock
<1>6. res' = [x \in Terms |-> IF x = Coordinates THEN 1 ELSE 0] /\ sums' = sums
  BY DEF StartBlock
<1>7. \A x \in Terms : x \in Span(m) => \E t \in Team : Owes(t, x)'
  BY <1>4
<1>8. \A x \in Terms :
        res'[x] = IF x = Coordinates \/ (x \in Span(m) /\ \A t \in Team : ~ Owes(t, x)') THEN 1 ELSE 0
  BY <1>6, <1>7
<1>9. Exclusive'
  BY <1>3 DEF Exclusive
<1>10. BlockSum'
  BY <1>6 DEF BlockSum
<1>11. Accounted'
  BY <1>3, <1>4, <1>5, <1>8 DEF Accounted
<1> QED BY <1>9, <1>10, <1>11

LEMMA SumCompute ==
  ASSUME TypeOK, Exclusive, Accounted, BlockSum, NEW t \in Team, ComputeIteration(t)
  PROVE  (Exclusive /\ Accounted /\ BlockSum)'
<1>1. PICK i \in share[t] :
        /\ drawn' = [drawn EXCEPT ![t] = [iteration |-> i, type |-> functor[t]]]
        /\ share' = [share EXCEPT ![t] = @ \ {i}]
  BY DEF ComputeIteration
<1>2. functor[t] # Unmade /\ drawn[t] = NoTerm /\ UNCHANGED <<block, copy, critical, res, sums>>
  BY DEF ComputeIteration
<1>3. block # NoBlock
  BY <1>1 DEF Accounted
<1>4. drawn'[t] # NoTerm /\ drawn'[t].iteration = i /\ share'[t] = share[t] \ {i}
  BY <1>1, <1>2 DEF TypeOK, NoTerm
<1>5. \A d \in Team \ {t} : drawn'[d] = drawn[d] /\ share'[d] = share[d]
  BY <1>1 DEF TypeOK
<1>6. \A d \in Team, x \in Terms : Owes(d, x)' <=> Owes(d, x)
  BY <1>1, <1>2, <1>4, <1>5 DEF Owes
<1>7. Exclusive'
  BY <1>2, <1>4, <1>5 DEF Exclusive
<1>8. BlockSum'
  BY <1>2 DEF BlockSum
<1>9. Accounted'
  <2>1. \A d \in Team : drawn'[d] # NoTerm => drawn'[d].iteration \notin share'[d]
    BY <1>3, <1>4, <1>5 DEF Accounted
  <2>2. \A x \in Terms : (\A d \in Team : ~ Owes(d, x)') <=> (\A d \in Team : ~ Owes(d, x))
    BY <1>6
  <2> QED BY <1>2, <1>3, <1>6, <2>1, <2>2 DEF Accounted
<1> QED BY <1>7, <1>8, <1>9

LEMMA SumEnter ==
  ASSUME TypeOK, Exclusive, Accounted, BlockSum, NEW t \in Team, EnterCritical(t)
  PROVE  (Exclusive /\ Accounted /\ BlockSum)'
<1>1. \A d \in Team : copy[d] = << >>
  BY CompNodeAssumption DEF EnterCritical, Exclusive
<1>2. \A d \in Team : copy'[d] # << >> => d = t /\ copy'[d] = res
  BY <1>1 DEF EnterCritical, TypeOK
<1>3. critical' = t /\ drawn[t] # NoTerm /\ UNCHANGED <<block, share, drawn, res, sums>>
  BY DEF EnterCritical
<1>4. Exclusive'
  BY <1>2, <1>3 DEF Exclusive
<1>5. Accounted' /\ BlockSum'
  BY <1>3 DEF Accounted, BlockSum, Owes
<1> QED BY <1>4, <1>5

LEMMA SumAdd ==
  ASSUME TypeOK, Exclusive, Accounted, BlockSum, NEW t \in Team, AddToSum(t)
  PROVE  (Exclusive /\ Accounted /\ BlockSum)'
<1>0. PICK i \in Terms : i = drawn[t].iteration
  BY DEF TypeOK
<1>1. copy[t] = res /\ \A d \in Team : copy[d] # << >> => d = t
  BY DEF AddToSum, Exclusive
<1>2. drawn[t] # NoTerm /\ UNCHANGED <<block, share, sums>>
  BY DEF AddToSum
<1>3. \A d \in Team : copy'[d] = << >>
  BY <1>1 DEF AddToSum, TypeOK
<1>4. drawn'[t] = NoTerm /\ \A d \in Team \ {t} : drawn'[d] = drawn[d]
  BY DEF AddToSum, TypeOK
<1>5. block # NoBlock /\ i \in Terms /\ Owes(t, i)
  BY <1>0, <1>2 DEF Accounted, TypeOK, Owes
<1>6. i \notin share[t] /\ i \in Span(block)
  BY <1>0, <1>2, <1>5 DEF Accounted
<1>7. i # Coordinates
  BY <1>5, <1>6, SpanFact, IterationsFact DEF TypeOK
<1>8. \A d \in Team, x \in Terms : Owes(d, x)' <=> Owes(d, x) /\ x # i
  <2>1. \A x \in Terms : Owes(t, x)' <=> Owes(t, x) /\ x # i
    BY <1>0, <1>2, <1>4, <1>6 DEF Owes
  <2>2. \A d \in Team \ {t}, x \in Terms : Owes(d, x)' <=> Owes(d, x)
    BY <1>2, <1>4 DEF Owes
  <2>3. \A d \in Team \ {t} : ~ Owes(d, i)
    BY <1>5 DEF Accounted
  <2> QED BY <2>1, <2>2, <2>3
<1>9. \A x \in Terms : res'[x] = IF x = i THEN res[i] + 1 ELSE res[x]
  BY <1>0, <1>1, <1>5 DEF AddToSum, TypeOK
<1>10. res[i] = 0
  BY <1>5, <1>7 DEF Accounted
<1>11. \A x \in Terms :
         res'[x] = IF x = Coordinates \/ (x \in Span(block) /\ \A d \in Team : ~ Owes(d, x)')
                     THEN 1 ELSE 0
  <2>1. res'[i] = 1 /\ \A d \in Team : ~ Owes(d, i)'
    BY <1>5, <1>8, <1>9, <1>10
  <2>2. \A x \in Terms \ {i} : (\A d \in Team : ~ Owes(d, x)') <=> (\A d \in Team : ~ Owes(d, x))
    BY <1>8
  <2>3. \A x \in Terms \ {i} : res'[x] = res[x]
    BY <1>9
  <2>4. \A x \in Terms \ {i} :
          res[x] = IF x = Coordinates \/ (x \in Span(block) /\ \A d \in Team : ~ Owes(d, x))
                     THEN 1 ELSE 0
    BY <1>5 DEF Accounted
  <2>5. ASSUME NEW x \in Terms, x # i
        PROVE  res'[x] = IF x = Coordinates \/ (x \in Span(block) /\ \A d \in Team : ~ Owes(d, x)')
                           THEN 1 ELSE 0
    BY <2>2, <2>3, <2>4, <2>5
  <2> QED BY <1>5, <1>6, <2>1, <2>5
<1>12. Exclusive'
  BY <1>3 DEF Exclusive
<1>13. BlockSum'
  BY <1>2 DEF BlockSum
<1>14. Accounted'
  <2>1. \A d \in Team : drawn'[d] # NoTerm => drawn'[d].iteration \notin share'[d]
    BY <1>2, <1>4, <1>5 DEF Accounted
  <2>2. \A d \in Team, x \in Terms : Owes(d, x)' => x \in Span(block)
    BY <1>5, <1>8 DEF Accounted
  <2>3. \A d, e \in Team, x \in Terms : Owes(d, x)' /\ Owes(e, x)' => d = e
    BY <1>5, <1>8 DEF Accounted
  <2>4. block' = block
    BY <1>2
  <2> QED BY <1>5, <1>11, <2>1, <2>2, <2>3, <2>4 DEF Accounted
<1> QED BY <1>12, <1>13, <1>14

LEMMA SumFinish ==
  ASSUME TypeOK, Exclusive, Accounted, BlockSum, FinishBlock
  PROVE  (Exclusive /\ Accounted /\ BlockSum)'
<1>1. /\ block # NoBlock /\ block' = NoBlock /\ \A t \in Team : share[t] = {} /\ drawn[t] = NoTerm
      /\ UNCHANGED <<share, drawn, copy, critical, res>>
  BY DEF FinishBlock, region
<1>2. \A t \in Team, x \in Terms : ~ Owes(t, x)
  BY <1>1 DEF Owes
<1>3. \A x \in Terms : res[x] = IF x = Coordinates \/ x \in Span(block) THEN 1 ELSE 0
  BY <1>1, <1>2 DEF Accounted
<1>4. /\ sums'[block].res = res
      /\ \A m \in Blocks \ {block} : sums'[m] = sums[m]
  BY <1>1 DEF FinishBlock, TypeOK
<1>5. BlockSum'
  BY <1>3, <1>4 DEF BlockSum, Span
<1>6. Exclusive'
  BY <1>1 DEF Exclusive
<1>7. Accounted'
  BY <1>1 DEF Accounted
<1> QED BY <1>5, <1>6, <1>7

LEMMA SumStep ==
  TypeOK /\ Exclusive /\ Accounted /\ BlockSum /\ [Next]_vars => (Exclusive /\ Accounted /\ BlockSum)'
<1> SUFFICES ASSUME TypeOK, Exclusive, Accounted, BlockSum, [Next]_vars
             PROVE  (Exclusive /\ Accounted /\ BlockSum)'
  OBVIOUS
<1>1. CASE BenchThread
  BY <1>1, SumKept DEF BenchThread, Measure, Assign, StoreComputed, region, sum_vars
<1>2. CASE RestThread
  BY <1>2, SumKept DEF RestThread, SkipBench, ReadSize, ReadData, ReadNull, ConnectRefused, Connect,
     ConnectTerminates, Disconnect, Terminate, region, sum_vars
<1>3. CASE GetStatus \/ ConnectRequest \/ DisconnectRequest \/ LoseConnection
  BY <1>3, SumKept DEF GetStatus, ConnectRequest, DisconnectRequest, Request, LoseConnection, region, sum_vars
<1>4. CASE FinishBlock
  BY <1>4, SumFinish
<1>5. CASE \E m \in Blocks : StartBlock(m)
  BY <1>5, SumStart
<1>6. ASSUME NEW t \in Team, TeamThread(t) PROVE (Exclusive /\ Accounted /\ BlockSum)'
  <2>1. CASE MakeGenerator(t) \/ ParseFuncThrows(t)
    BY <2>1, SumKept DEF MakeGenerator, ParseFuncThrows, Terminate, region, sum_vars
  <2> QED BY <1>6, <2>1, SumCompute, SumEnter, SumAdd DEF TeamThread
<1>7. CASE UNCHANGED vars
  BY <1>7, SumKept DEF vars, region, sum_vars
<1> QED BY <1>1, <1>2, <1>3, <1>4, <1>5, <1>6, <1>7 DEF Next

----------------------------------------------------------------------------
(* The generators.                                                         *)

generator_vars == <<connection, block, share, functor, drawn, source, sums, first_type>>

LEMMA GeneratorsKept ==
  ASSUME Generators, OneGenerator, UNCHANGED generator_vars
  PROVE  Generators' /\ OneGenerator'
BY DEF Generators, OneGenerator, Owes, generator_vars

LEMMA GeneratorsRest ==
  ASSUME TypeOK, Accounted, Generators, OneGenerator, RestThread
  PROVE  Generators' /\ OneGenerator'
<1>1. CASE SkipBench \/ ReadSize \/ ReadData \/ ReadNull \/ ConnectRefused \/ ConnectTerminates
  BY <1>1, GeneratorsKept DEF SkipBench, ReadSize, ReadData, ReadNull, ConnectRefused,
     ConnectTerminates, Terminate, region, generator_vars
<1>2. CASE Connect
  <2>1. block = NoBlock /\ \A t \in Team : drawn[t] = NoTerm
    BY <1>2 DEF Connect, Generators, Accounted
  <2>2. /\ first_type' = Unmade /\ functor' = [t \in Team |-> Unmade]
        /\ UNCHANGED <<block, drawn, sums>>
    BY <1>2 DEF Connect
  <2> QED BY <2>1, <2>2 DEF Generators, OneGenerator
<1>3. CASE Disconnect
  BY <1>3 DEF Disconnect, region, Generators, OneGenerator, Owes
<1> QED BY <1>1, <1>2, <1>3 DEF RestThread

LEMMA GeneratorsStart ==
  ASSUME TypeOK, Accounted, Generators, OneGenerator, NEW m \in Blocks, StartBlock(m)
  PROVE  Generators' /\ OneGenerator'
<1>1. /\ block = NoBlock /\ block' = m /\ connection = "running" /\ UNCHANGED <<connection, functor, drawn, sums>>
      /\ first_type' = IF first_type = Unmade THEN Block[m].type ELSE first_type
  BY DEF StartBlock
<1>2. \A t \in Team : drawn[t] = NoTerm
  BY <1>1 DEF Accounted
<1>3. m # NoBlock
  BY CompNodeAssumption
<1>4. \A t \in Team : functor[t] # Unmade => first_type' = first_type /\ functor[t] = first_type
  BY <1>1 DEF Generators
<1>5. \A t \in Team : functor[t] = Unmade => first_type' = Block[m].type
  BY <1>1 DEF Generators
<1>6. \A i \in Span(m) : \E t \in Team : Owes(t, i)'
  <2>1. PICK deal \in [Span(m) -> Team] :
          share' = [t \in Team |-> {i \in DOMAIN deal : deal[i] = t}]
    BY DEF StartBlock, Span
  <2> QED BY <2>1 DEF Owes
<1>7. OneGenerator'
  BY <1>1 DEF OneGenerator
<1>8. Generators'
  BY <1>1, <1>2, <1>3, <1>4, <1>5, <1>6 DEF Generators
<1> QED BY <1>7, <1>8

LEMMA GeneratorsFinish ==
  ASSUME TypeOK, Accounted, Generators, OneGenerator, FinishBlock
  PROVE  Generators' /\ OneGenerator'
<1>1. /\ block # NoBlock /\ block' = NoBlock
      /\ \A t \in Team : functor[t] # Unmade /\ share[t] = {} /\ drawn[t] = NoTerm
      /\ UNCHANGED <<connection, share, functor, drawn, source, first_type>>
  BY DEF FinishBlock, region
<1>2. \A t \in Team : \A i : ~ Owes(t, i)
  BY <1>1 DEF Owes
<1>3. \A i \in Span(block) : source[i] = first_type
  BY <1>1, <1>2 DEF Generators
<1>4. /\ sums'[block] = [res |-> res, source |-> source, first |-> first_type]
      /\ \A m \in Blocks \ {block} : sums'[m] = sums[m]
  BY <1>1 DEF FinishBlock, TypeOK
<1>5. OneGenerator'
  BY <1>3, <1>4 DEF OneGenerator, Span
<1>6. Generators'
  BY <1>1 DEF Generators
<1> QED BY <1>5, <1>6

LEMMA GeneratorsTeam ==
  ASSUME TypeOK, Exclusive, Accounted, Generators, OneGenerator, NEW t \in Team, TeamThread(t)
  PROVE  Generators' /\ OneGenerator'
<1>1. CASE MakeGenerator(t)
  <2>1. /\ block # NoBlock /\ functor[t] = Unmade /\ functor' = [functor EXCEPT ![t] = Block[block].type]
        /\ UNCHANGED <<connection, block, share, drawn, source, sums, first_type>>
    BY <1>1 DEF MakeGenerator
  <2>2. first_type = Block[block].type
    BY <2>1 DEF Generators
  <2>3. functor'[t] = first_type /\ \A d \in Team \ {t} : functor'[d] = functor[d]
    BY <2>1, <2>2 DEF TypeOK
  <2> QED BY <2>1, <2>2, <2>3 DEF Generators, OneGenerator, Owes
<1>2. CASE ParseFuncThrows(t)
  BY <1>2, GeneratorsKept DEF ParseFuncThrows, Terminate, region, generator_vars
<1>3. CASE ComputeIteration(t)
  <2>1. PICK i \in share[t] :
          /\ drawn' = [drawn EXCEPT ![t] = [iteration |-> i, type |-> functor[t]]]
          /\ share' = [share EXCEPT ![t] = @ \ {i}]
    BY <1>3 DEF ComputeIteration
  <2>2. /\ functor[t] # Unmade /\ drawn[t] = NoTerm
        /\ UNCHANGED <<connection, block, functor, source, sums, first_type>>
    BY <1>3 DEF ComputeIteration
  <2>3. /\ drawn'[t].type = first_type /\ drawn'[t].iteration = i /\ drawn'[t] # NoTerm
        /\ share'[t] = share[t] \ {i}
    BY <2>1, <2>2 DEF Generators, TypeOK, NoTerm
  <2>4. \A d \in Team \ {t} : drawn'[d] = drawn[d] /\ share'[d] = share[d]
    BY <2>1 DEF TypeOK
  <2>5. \A d \in Team : \A x : Owes(d, x) => Owes(d, x)'
    BY <2>1, <2>2, <2>3, <2>4 DEF Owes
  <2> QED BY <2>2, <2>3, <2>4, <2>5 DEF Generators, OneGenerator
<1>4. CASE EnterCritical(t)
  BY <1>4, GeneratorsKept DEF EnterCritical, generator_vars
<1>5. CASE AddToSum(t)
  <2>1. PICK i : i = drawn[t].iteration
    OBVIOUS
  <2>2. /\ drawn[t] # NoTerm /\ drawn' = [drawn EXCEPT ![t] = NoTerm]
        /\ source' = [source EXCEPT ![i] = drawn[t].type]
        /\ UNCHANGED <<connection, block, share, functor, sums, first_type>>
    BY <1>5, <2>1 DEF AddToSum
  <2>3. block # NoBlock /\ i \in Iterations
    <3>1. Owes(t, i) /\ i \in Terms
      BY <2>1, <2>2 DEF Owes, TypeOK
    <3> QED BY <2>2, <3>1, SpanFact DEF Accounted, TypeOK
  <2>4. source'[i] = first_type /\ \A x \in Iterations \ {i} : source'[x] = source[x]
    BY <2>2, <2>3 DEF Generators, TypeOK
  <2>5. drawn'[t] = NoTerm /\ \A d \in Team \ {t} : drawn'[d] = drawn[d]
    BY <2>2 DEF TypeOK
  <2>6. \A d \in Team : \A x : Owes(d, x) /\ x # i => Owes(d, x)'
    BY <2>1, <2>2, <2>5 DEF Owes
  <2>7. \A x \in Span(block) : source'[x] = first_type \/ \E d \in Team : Owes(d, x)'
    BY <2>3, <2>4, <2>6, SpanFact DEF Generators, TypeOK
  <2> QED BY <2>2, <2>3, <2>5, <2>7 DEF Generators, OneGenerator
<1> QED BY <1>1, <1>2, <1>3, <1>4, <1>5 DEF TeamThread

LEMMA GeneratorsStep ==
  TypeOK /\ Exclusive /\ Accounted /\ Generators /\ OneGenerator /\ [Next]_vars
    => Generators' /\ OneGenerator'
<1> SUFFICES ASSUME TypeOK, Exclusive, Accounted, Generators, OneGenerator, [Next]_vars
             PROVE  Generators' /\ OneGenerator'
  OBVIOUS
<1>1. CASE BenchThread
  BY <1>1, GeneratorsKept DEF BenchThread, Measure, Assign, StoreComputed, region, generator_vars
<1>2. CASE RestThread
  BY <1>2, GeneratorsRest
<1>3. CASE GetStatus \/ ConnectRequest \/ DisconnectRequest
  BY <1>3, GeneratorsKept DEF GetStatus, ConnectRequest, DisconnectRequest, Request, region, generator_vars
<1>4. CASE LoseConnection
  BY <1>4 DEF LoseConnection, region, Generators, OneGenerator, Owes
<1>5. CASE FinishBlock
  BY <1>5, GeneratorsFinish
<1>6. CASE \E m \in Blocks : StartBlock(m)
  BY <1>6, GeneratorsStart
<1>7. CASE \E t \in Team : TeamThread(t)
  BY <1>7, GeneratorsTeam
<1>8. CASE UNCHANGED vars
  BY <1>8, GeneratorsKept DEF vars, region, generator_vars
<1> QED BY <1>1, <1>2, <1>3, <1>4, <1>5, <1>6, <1>7, <1>8 DEF Next

----------------------------------------------------------------------------
(* The theorems.                                                           *)

LEMMA IInvInit == Init => IInv
<1> SUFFICES ASSUME Init PROVE IInv
  OBVIOUS
<1>1. Published
  BY DEF Init, Published, Idle
<1>2. Exclusive /\ Accounted /\ Generators
  BY DEF Init, Exclusive, Accounted, Generators
<1>3. BlockSum /\ OneGenerator
  BY DEF Init, BlockSum, OneGenerator
<1> QED BY <1>1, <1>2, <1>3, TypeInit DEF IInv

LEMMA IInvStep == IInv /\ [Next]_vars => IInv'
<1> SUFFICES ASSUME IInv, [Next]_vars PROVE IInv'
  OBVIOUS
<1>1. TypeOK'
  BY TypeStep DEF IInv
<1>2. Published'
  BY PublishedStep DEF IInv
<1>3. (Exclusive /\ Accounted /\ BlockSum)'
  BY SumStep DEF IInv
<1>4. Generators' /\ OneGenerator'
  BY GeneratorsStep DEF IInv
<1> QED BY <1>1, <1>2, <1>3, <1>4 DEF IInv

\* The benchmark is published in order, the threads of a team owe each iteration of the
\* block once, and their generators are those of the connection's first block, at every
\* moment of CompNodeService and n_message_callback.
THEOREM InductiveInvariant == Spec => []IInv
<1> QED BY IInvInit, IInvStep, PTL DEF Spec

\* The sum of a block that n_message_callback has finished has each iteration of the
\* inclusive range once, and the coordinates it was started with.
THEOREM SumIsWhole == Spec => []BlockSum
<1>1. IInv => BlockSum
  BY DEF IInv
<1> QED BY <1>1, InductiveInvariant, PTL

\* All iterations of a finished block were drawn from the distribution of the first block
\* of the connection: the generator is thread_local and made once.
THEOREM FirstTypeRules == Spec => []OneGenerator
<1>1. IInv => OneGenerator
  BY DEF IInv
<1> QED BY <1>1, InductiveInvariant, PTL

\* An answer of the node service never carries part of the benchmark, though bench_res_ is
\* moved to without a lock: the flag is stored last and GetStatus looks at it first.
THEOREM WholeAnswers == Spec => []AnswersAreWhole
<1>1. IInv => AnswersAreWhole
  BY DEF IInv, Published, AnswersAreWhole, Whole
<1> QED BY <1>1, InductiveInvariant, PTL
=============================================================================
