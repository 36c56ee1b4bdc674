--------------------------- MODULE DeliveryProofs ---------------------------
(* Theorems about Delivery: for any number of workers, brokers and blocks,   *)
(* any number of faults and of uses of the REST interface.  A block is       *)
(* followed through the sets of places it can be in; that the queues keep    *)
(* an order is needed only where the oldest block of a session is            *)
(* acknowledged.                                                             *)
EXTENDS Delivery, SequenceTheorems, TLAPS

----------------------------------------------------------------------------
(* The blocks of a sequence, and that none occurs twice, as the operations on *)
(* sequences change them.                                                     *)

LEMMA EmptySet == ToSet(<< >>) = {} /\ IsInjective(<< >>)
BY DEF ToSet, IsInjective

LEMMA AppendSet ==
  ASSUME NEW S, NEW s \in Seq(S), NEW e \in S
  PROVE  /\ Append(s, e) \in Seq(S) /\ Append(s, e) # << >>
         /\ ToSet(Append(s, e)) = ToSet(s) \union {e}
         /\ IsInjective(s) /\ e \notin ToSet(s) => IsInjective(Append(s, e))
<1> DEFINE t == Append(s, e)
<1>1. /\ t \in Seq(S) /\ t # << >> /\ Len(t) = Len(s) + 1 /\ t[Len(s) + 1] = e
      /\ \A i \in 1 .. Len(s) : t[i] = s[i]
  BY AppendProperties
<1>2. Len(s) \in Nat /\ DOMAIN s = 1 .. Len(s) /\ DOMAIN t = 1 .. Len(s) + 1
  BY <1>1, LenProperties
<1> HIDE DEF t
<1>3. ToSet(t) = ToSet(s) \union {e}
  <2>1. \A i \in DOMAIN t : t[i] \in ToSet(s) \union {e}
    BY <1>1, <1>2 DEF ToSet
  <2>2. \A i \in DOMAIN s : s[i] \in ToSet(t)
    BY <1>1, <1>2 DEF ToSet
  <2>3. e \in ToSet(t)
    BY <1>1, <1>2 DEF ToSet
  <2> QED BY <2>1, <2>2, <2>3 DEF ToSet
<1>4. ASSUME IsInjective(s), e \notin ToSet(s) PROVE IsInjective(t)
  <2> SUFFICES ASSUME NEW i \in DOMAIN t, NEW j \in DOMAIN t, t[i] = t[j] PROVE i = j
    BY DEF IsInjective
  <2>1. \A k \in 1 .. Len(s) : t[k] = s[k] /\ s[k] # e
    BY <1>1, <1>2, <1>4 DEF ToSet
  <2>2. CASE i \in 1 .. Len(s) /\ j \in 1 .. Len(s)
    BY <2>1, <2>2, <1>2, <1>4 DEF IsInjective
  <2> QED BY <2>1, <2>2, <1>1, <1>2
<1> QED BY <1>1, <1>3, <1>4 DEF t

LEMMA TailSet ==
  ASSUME NEW S, NEW s \in Seq(S), s # << >>
  PROVE  /\ Head(s) \in S /\ Tail(s) \in Seq(S)
         /\ ToSet(s) = {Head(s)} \union ToSet(Tail(s))
         /\ IsInjective(s) => IsInjective(Tail(s)) /\ Head(s) \notin ToSet(Tail(s))
<1> DEFINE t == Tail(s)
<1>1. /\ Head(s) \in S /\ t \in Seq(S) /\ Len(t) = Len(s) - 1
      /\ \A i \in 1 .. Len(t) : t[i] = s[i + 1]
  BY HeadTailProperties
<1>2. Len(s) \in Nat \ {0} /\ DOMAIN s = 1 .. Len(s) /\ DOMAIN t = 1 .. Len(s) - 1
  BY <1>1, LenProperties, EmptySeq
<1>3. Head(s) = s[1]
  OBVIOUS
<1> HIDE DEF t
<1>4. ToSet(s) = {s[1]} \union ToSet(t)
  <2>1. \A i \in DOMAIN t : t[i] \in ToSet(s)
    BY <1>1, <1>2 DEF ToSet
  <2>2. ASSUME NEW i \in DOMAIN s, i # 1 PROVE s[i] \in ToSet(t)
    <3>1. i - 1 \in DOMAIN t /\ t[i - 1] = s[i]
      BY <1>1, <1>2, <2>2
    <3> QED BY <3>1 DEF ToSet
  <2>3. s[1] \in ToSet(s)
    BY <1>2 DEF ToSet
  <2> QED BY <2>1, <2>2, <2>3 DEF ToSet
<1>5. ASSUME IsInjective(s) PROVE IsInjective(t) /\ s[1] \notin ToSet(t)
  <2>1. \A i \in DOMAIN t : t[i] = s[i + 1] /\ i + 1 \in DOMAIN s /\ i + 1 # 1
    BY <1>1, <1>2
  <2>2. \A i, j \in DOMAIN t : i + 1 = j + 1 => i = j
    BY <1>2
  <2>3. 1 \in DOMAIN s
    BY <1>2
  <2>4. \A i, j \in DOMAIN s : s[i] = s[j] => i = j
    BY <1>5 DEF IsInjective
  <2>5. IsInjective(t)
    BY <2>1, <2>2, <2>4 DEF IsInjective
  <2>6. s[1] \notin ToSet(t)
    BY <2>1, <2>3, <2>4 DEF ToSet
  <2> QED BY <2>5, <2>6
<1> QED BY <1>1, <1>3, <1>4, <1>5 DEF t

LEMMA ConcatSet ==
  ASSUME NEW S, NEW s \in Seq(S), NEW t \in Seq(S)
  PROVE  /\ s \o t \in Seq(S)
         /\ ToSet(s \o t) = ToSet(s) \union ToSet(t)
         /\ IsInjective(s) /\ IsInjective(t) /\ ToSet(s) \intersect ToSet(t) = {}
              => IsInjective(s \o t)
<1> DEFINE u == s \o t
<1>1. /\ u \in Seq(S) /\ Len(u) = Len(s) + Len(t)
      /\ \A i \in 1 .. Len(s) + Len(t) : u[i] = IF i <= Len(s) THEN s[i] ELSE t[i - Len(s)]
  BY ConcatProperties
<1>2. /\ Len(s) \in Nat /\ Len(t) \in Nat /\ DOMAIN s = 1 .. Len(s) /\ DOMAIN t = 1 .. Len(t)
      /\ DOMAIN u = 1 .. Len(s) + Len(t)
  BY <1>1, LenProperties
<1> HIDE DEF u
<1>3. ASSUME NEW i \in DOMAIN u
      PROVE  \/ i \in DOMAIN s /\ u[i] = s[i]
             \/ i \notin DOMAIN s /\ i - Len(s) \in DOMAIN t /\ u[i] = t[i - Len(s)]
  BY <1>1, <1>2
<1>4. ToSet(u) = ToSet(s) \union ToSet(t)
  <2>1. \A i \in DOMAIN u : u[i] \in ToSet(s) \union ToSet(t)
    BY <1>3 DEF ToSet
  <2>2. \A i \in DOMAIN s : i \in DOMAIN u /\ u[i] = s[i]
    BY <1>1, <1>2
  <2>3. ASSUME NEW i \in DOMAIN t PROVE i + Len(s) \in DOMAIN u /\ u[i + Len(s)] = t[i]
    <3>1. i + Len(s) \in 1 .. Len(s) + Len(t) /\ ~ (i + Len(s) <= Len(s)) /\ (i + Len(s)) - Len(s) = i
      BY <1>2
    <3> QED BY <1>1, <1>2, <3>1
  <2> QED BY <2>1, <2>2, <2>3 DEF ToSet
<1>5. ASSUME IsInjective(s), IsInjective(t), ToSet(s) \intersect ToSet(t) = {},
             NEW i \in DOMAIN u, NEW j \in DOMAIN u, u[i] = u[j]
      PROVE  i = j
  <2>1. /\ i \in DOMAIN s => u[i] \in ToSet(s)
        /\ j \in DOMAIN s => u[j] \in ToSet(s)
        /\ i \notin DOMAIN s => u[i] \in ToSet(t)
        /\ j \notin DOMAIN s => u[j] \in ToSet(t)
    BY <1>3 DEF ToSet
  <2>2. CASE i \in DOMAIN s /\ j \in DOMAIN s
    BY <1>3, <1>5, <2>2 DEF IsInjective
  <2>3. CASE i \notin DOMAIN s /\ j \notin DOMAIN s
    <3>1. i - Len(s) = j - Len(s)
      BY <1>3, <1>5, <2>3 DEF IsInjective
    <3> QED BY <3>1, <1>2
  <2> QED BY <1>5, <2>1, <2>2, <2>3
<1>6. IsInjective(s) /\ IsInjective(t) /\ ToSet(s) \intersect ToSet(t) = {} => IsInjective(u)
  BY <1>5 DEF IsInjective
<1> QED BY <1>1, <1>4, <1>6 DEF u

LEMMA ContainsSet ==
  ASSUME NEW S, NEW s \in Seq(S), NEW e
  PROVE  Contains(s, e) <=> e \in ToSet(s)
BY LenProperties DEF Contains, ToSet

LEMMA NonEmptySet ==
  ASSUME NEW S, NEW s \in Seq(S)
  PROVE  s = << >> <=> ToSet(s) = {}
<1>1. s # << >> => ToSet(s) # {}
  BY TailSet
<1> QED BY <1>1, EmptySet

----------------------------------------------------------------------------
\* Where a block can be.
OnWire == {m \in Blocks : \E i \in DOMAIN wire : wire[i][1] = m}
At(w) == ToSet(inbox[w]) \union ({current[w]} \ {NoBlock})
Queued(m) == \E q \in Brokers \X Workers : m \in ToSet(ready[q])
Loaded(m) == \E w \in Workers : m \in At(w)
Out(m) == m \in unsent \union OnWire \/ Queued(m)
Kept(m) == Queued(m) \/ \E w \in Workers : m \in ToSet(unacked[w])

\* A session that consumes: the broker still counts what the worker has, in its order.
\* Any other session has given everything back.
SessionOK(w) ==
  /\ consumer[w] # NoBroker <=> session[w] \in {"consuming", "cancelled", "broken"}
  /\ session[w] \in {"none", "ended"} => inbox[w] = << >> /\ current[w] = NoBlock
  /\ session[w] # "consuming" => unacked[w] = << >>
  /\ session[w] = "consuming" =>
       /\ Q(consumer[w], w) \in queues
       /\ IF current[w] = NoBlock THEN inbox[w] = unacked[w]
          ELSE unacked[w] # << >> /\ Head(unacked[w]) = current[w] /\ inbox[w] = Tail(unacked[w])

\* No place holds a block twice.
NoDuplicates ==
  /\ \A i, j \in DOMAIN wire : wire[i][1] = wire[j][1] => i = j
  /\ \A q \in Brokers \X Workers : IsInjective(ready[q])
  /\ \A w \in Workers : /\ IsInjective(inbox[w]) /\ IsInjective(unacked[w])
                        /\ current[w] \notin ToSet(inbox[w])

\* No block is in two places, but for one that went back to its queue while a worker that
\* has lost its session still computes it.
Places ==
  /\ unsent \intersect OnWire = {}
  /\ \A m \in unsent \union OnWire : ~ Queued(m) /\ ~ Loaded(m)
  /\ \A p, q \in Brokers \X Workers : p # q => ToSet(ready[p]) \intersect ToSet(ready[q]) = {}
  /\ \A v, w \in Workers : v # w => At(v) \intersect At(w) = {}
  /\ \A w \in Workers, q \in Brokers \X Workers :
       /\ ToSet(unacked[w]) \intersect ToSet(ready[q]) = {}
       /\ At(w) \intersect ToSet(ready[q]) # {} => q[2] = w

\* What has been computed and what still will be: once, and once more for each return.
One(p) == IF p THEN 1 ELSE 0
Counted == \A m \in Blocks :
  computed[m] + One(Out(m)) + One(Loaded(m)) <= 1 + returned[m]

\* The fate of a block says where it is.
FateOK ==
  /\ \A m \in unsent \union OnWire : fate[m] = "none" /\ computed[m] = 0
  /\ \A m \in Blocks : Kept(m) => fate[m] = "accepted"
  /\ \A m \in Blocks : Loaded(m) /\ computed[m] = 0 => Kept(m) \/ fate[m] = "purged"

IInv == TypeOK /\ (\A w \in Workers : SessionOK(w)) /\ NoDuplicates /\ Places

\* Why an undisturbed block reaches its node: the publisher's broker is the one every active
\* node consumes from, and every one of them has its queue bound there.
Connected ==
  /\ channel = "open"
  /\ publisher # NoBroker => publisher \in exchanges
  /\ queues \subseteq bindings
  /\ \A w \in active : session[w] = "consuming" /\ (publisher # NoBroker => consumer[w] = publisher)
  /\ \A i \in DOMAIN wire : wire[i][2] \in active
  /\ \A q \in Brokers \X Workers : ready[q] # << >> => q[2] \in active /\ consumer[q[2]] = q[1]
  /\ \A m \in Blocks : fate[m] # "dropped"

UndisturbedOK == Undisturbed => Connected

----------------------------------------------------------------------------

\* What the wire, the queues and the workers hold when they did not change.
LEMMA SamePlaces ==
  ASSUME UNCHANGED <<unsent, wire, ready, inbox, current, unacked>>
  PROVE  /\ OnWire' = OnWire /\ \A w : At(w)' = At(w)
         /\ \A m : /\ Queued(m)' = Queued(m) /\ Loaded(m)' = Loaded(m)
                   /\ Out(m)' = Out(m) /\ Kept(m)' = Kept(m)
         /\ NoDuplicates' = NoDuplicates /\ Places' = Places
<1>1. /\ OnWire' = OnWire /\ \A w : At(w)' = At(w)
      /\ \A m : /\ Queued(m)' = Queued(m) /\ Loaded(m)' = Loaded(m)
                /\ Out(m)' = Out(m) /\ Kept(m)' = Kept(m)
  BY DEF OnWire, At, Queued, Loaded, Out, Kept
<1>2. NoDuplicates' = NoDuplicates
  BY DEF NoDuplicates
<1>3. Places' = Places
  BY <1>1 DEF Places
<1> QED BY <1>1, <1>2, <1>3

\* A worker without a session, and one whose session consumes, seen from the broker.
LEMMA SessionSets ==
  ASSUME IInv, NEW w \in Workers
  PROVE  /\ session[w] = "consuming" => At(w) = ToSet(unacked[w])
         /\ session[w] # "consuming" => ToSet(unacked[w]) = {}
         /\ session[w] \in {"none", "ended"} => At(w) = {}
         /\ At(w) \subseteq Blocks /\ ToSet(unacked[w]) \subseteq At(w)
<1>1. /\ SessionOK(w) /\ inbox[w] \in Seq(Blocks) /\ unacked[w] \in Seq(Blocks)
      /\ current[w] \in Blocks \union {NoBlock}
  BY DEF IInv, TypeOK
<1>2. session[w] = "consuming" => At(w) = ToSet(unacked[w])
  <2>1. CASE session[w] = "consuming" /\ current[w] = NoBlock
    BY <1>1, <2>1 DEF SessionOK, At
  <2>2. CASE session[w] = "consuming" /\ current[w] # NoBlock
    <3>1. /\ unacked[w] # << >> /\ Head(unacked[w]) = current[w]
          /\ inbox[w] = Tail(unacked[w])
      BY <1>1, <2>2 DEF SessionOK
    <3>2. ToSet(unacked[w]) = {Head(unacked[w])} \union ToSet(Tail(unacked[w]))
      BY <1>1, <3>1, TailSet
    <3> QED BY <2>2, <3>1, <3>2 DEF At
  <2> QED BY <2>1, <2>2
<1>3. session[w] # "consuming" => ToSet(unacked[w]) = {}
  BY <1>1, EmptySet DEF SessionOK
<1>4. session[w] \in {"none", "ended"} => At(w) = {}
  BY <1>1, EmptySet DEF SessionOK, At
<1>5. ToSet(inbox[w]) \subseteq Blocks
  BY <1>1, LenProperties DEF ToSet
<1>6. At(w) \subseteq Blocks
  BY <1>1, <1>5 DEF At
<1> QED BY <1>2, <1>3, <1>4, <1>6

LEMMA InitInv == Init => IInv
<1> SUFFICES ASSUME Init PROVE IInv
  OBVIOUS
<1> USE DEF Init
<1>1. /\ << >> \in Seq(Blocks) /\ << >> \in Seq(Blocks \X Workers)
      /\ ToSet(<< >>) = {} /\ IsInjective(<< >>) /\ DOMAIN << >> = {}
  BY EmptySet, EmptySeq
<1>2. TypeOK
  <2>1. ready \in [Brokers \X Workers -> Seq(Blocks)] /\ \A q \in DOMAIN ready : ready[q] = << >>
    BY <1>1
  <2>2. 0 \in 0 .. MaxFaults /\ 0 \in 0 .. MaxMeddling
    BY DeliveryAssumption
  <2> QED BY <1>1, <2>1, <2>2 DEF TypeOK
<1>3. \A w \in Workers : SessionOK(w)
  BY DEF SessionOK
<1>4. OnWire = {} /\ (\A w \in Workers : At(w) = {}) /\ \A m : ~ Queued(m) /\ ~ Loaded(m)
  BY <1>1 DEF OnWire, At, Queued, Loaded
<1>5. NoDuplicates
  BY <1>1 DEF NoDuplicates
<1>6. Places
  BY <1>1, <1>4 DEF Places
<1> QED BY <1>2, <1>3, <1>5, <1>6 DEF IInv

\* Held, by the places it is made of.
LEMMA HeldKept ==
  ASSUME TypeOK
  PROVE  Held = {m \in Blocks : Kept(m)}
<1>1. /\ \A q \in Brokers \X Workers, m \in Blocks : Contains(ready[q], m) <=> m \in ToSet(ready[q])
      /\ \A w \in Workers, m \in Blocks : Contains(unacked[w], m) <=> m \in ToSet(unacked[w])
      /\ DOMAIN ready = Brokers \X Workers
  BY ContainsSet DEF TypeOK
<1> QED BY <1>1 DEF Held, Kept, Queued

\* The steps that move no block: connections, bindings and exchanges, a new process.
Settles ==
  \/ \E b \in Brokers :
       \/ ConnectPublisher(b) \/ CreateExchange(b) \/ DeleteExchange(b)
       \/ \E q \in Workers : CreateQueue(b, q) \/ BindQueueToExchange(b, q)
                             \/ UnbindQueueFromExchange(b, q)
  \/ DisconnectPublisher
  \/ \E w \in Workers : ConnectNode(w) \/ StartWorker(w)

LEMMA SettlesStays == Settles => UNCHANGED <<unsent, wire, ready, inbox, current, unacked, computed, returned, fate>>
BY DEF Settles, ConnectPublisher, CreateExchange, DeleteExchange, CreateQueue, BindQueueToExchange,
       UnbindQueueFromExchange, DisconnectPublisher, ConnectNode, StartWorker, Meddle,
       main, broker, workers, history

LEMMA MeddleBound ==
  ASSUME IInv, Meddle
  PROVE  meddling' \in 0 .. MaxMeddling
BY DeliveryAssumption DEF IInv, TypeOK, Meddle

\* Sessions do not notice what happens to other queues.
LEMMA SameSessions ==
  ASSUME IInv, UNCHANGED <<consumer, session, inbox, current, unacked>>, queues \subseteq queues'
  PROVE  \A w \in Workers : SessionOK(w)'
BY DEF IInv, SessionOK

LEMMA SettlesInv ==
  ASSUME IInv, Settles
  PROVE  IInv'
<1>1. NoDuplicates' /\ Places'
  BY SettlesStays, SamePlaces DEF IInv
<1>2. ASSUME NEW b \in Brokers, ConnectPublisher(b)
      PROVE  TypeOK' /\ \A w \in Workers : SessionOK(w)'
  <2>1. TypeOK'
    BY <1>2 DEF ConnectPublisher, IInv, TypeOK, workers
  <2>2. \A w \in Workers : SessionOK(w)'
    BY <1>2, SameSessions DEF ConnectPublisher, workers
  <2> QED BY <2>1, <2>2
<1>3. ASSUME NEW b \in Brokers, CreateExchange(b) \/ DeleteExchange(b)
      PROVE  TypeOK' /\ \A w \in Workers : SessionOK(w)'
  <2>1. /\ Meddle /\ exchanges' \subseteq Brokers /\ bindings' \subseteq queues
        /\ UNCHANGED <<queues, ready, session, unacked, returned, fate>>
    BY <1>3 DEF CreateExchange, DeleteExchange, IInv, TypeOK
  <2>2. TypeOK'
    BY <2>1, MeddleBound DEF Meddle, IInv, TypeOK
  <2>3. \A w \in Workers : SessionOK(w)'
    BY <2>1, SameSessions DEF Meddle
  <2> QED BY <2>2, <2>3
<1>4. ASSUME NEW b \in Brokers, NEW q \in Workers,
             \/ CreateQueue(b, q) \/ BindQueueToExchange(b, q) \/ UnbindQueueFromExchange(b, q)
      PROVE  TypeOK' /\ \A w \in Workers : SessionOK(w)'
  <2>1. /\ Meddle /\ bindings' \subseteq queues'
        /\ queues' \subseteq Brokers \X Workers /\ queues \subseteq queues'
        /\ UNCHANGED <<exchanges, ready, session, unacked, returned, fate>>
    <3>1. Q(b, q) \in Brokers \X Workers /\ bindings \subseteq queues /\ queues \subseteq Brokers \X Workers
      BY DEF IInv, TypeOK, Q
    <3>2. CASE CreateQueue(b, q)
      BY <3>1, <3>2 DEF CreateQueue
    <3>3. CASE BindQueueToExchange(b, q) \/ UnbindQueueFromExchange(b, q)
      BY <3>1, <3>3 DEF BindQueueToExchange, UnbindQueueFromExchange
    <3> QED BY <1>4, <3>2, <3>3
  <2>2. TypeOK'
    BY <2>1, MeddleBound DEF Meddle, IInv, TypeOK
  <2>3. \A w \in Workers : SessionOK(w)'
    BY <2>1, SameSessions DEF Meddle
  <2> QED BY <2>2, <2>3
<1>5. ASSUME DisconnectPublisher
      PROVE  TypeOK' /\ \A w \in Workers : SessionOK(w)'
  <2>1. TypeOK'
    BY <1>5 DEF DisconnectPublisher, IInv, TypeOK, broker, workers, history
  <2>2. \A w \in Workers : SessionOK(w)'
    BY <1>5, SameSessions DEF DisconnectPublisher, broker, workers
  <2> QED BY <2>1, <2>2
<1>6. ASSUME NEW w \in Workers, ConnectNode(w)
      PROVE  TypeOK' /\ \A v \in Workers : SessionOK(v)'
  <2>1. /\ publisher \in Brokers /\ Q(publisher, w) \in Brokers \X Workers
        /\ queues' = queues \union {Q(publisher, w)} /\ bindings' \subseteq queues'
        /\ active' \subseteq Workers
    BY <1>6 DEF ConnectNode, NewBindings, IInv, TypeOK, Q
  <2>2. UNCHANGED <<publisher, channel, wire, unsent, exchanges, ready,
                    alive, inbox, current, unacked, history>>
    BY <1>6 DEF ConnectNode
  <2>3. /\ consumer' = [consumer EXCEPT ![w] = publisher]
        /\ session' = [session EXCEPT ![w] = "consuming"] /\ session[w] = "none"
        /\ warm' = [warm EXCEPT ![w] = FALSE]
    BY <1>6 DEF ConnectNode
  <2>4. /\ consumer' \in [Workers -> Brokers \union {NoBroker}] /\ warm' \in [Workers -> BOOLEAN]
        /\ session' \in [Workers -> {"none", "consuming", "cancelled", "broken", "ended"}]
        /\ consumer'[w] = publisher /\ session'[w] = "consuming"
        /\ \A v \in Workers \ {w} : consumer'[v] = consumer[v] /\ session'[v] = session[v]
    BY <2>1, <2>3 DEF IInv, TypeOK
  <2>5. inbox[w] = << >> /\ current[w] = NoBlock /\ unacked[w] = << >>
    BY <2>3 DEF IInv, SessionOK
  <2>6. \A v \in Workers : unacked'[v] # << >> => session'[v] = "consuming" /\ Q(consumer'[v], v) \in queues'
    BY <2>1, <2>2, <2>4, <2>5 DEF IInv, TypeOK
  <2>7. TypeOK'
    BY <2>1, <2>2, <2>4, <2>6 DEF IInv, TypeOK, history
  <2>8. SessionOK(w)'
    BY <2>1, <2>2, <2>4, <2>5, DeliveryAssumption DEF SessionOK
  <2>9. \A v \in Workers \ {w} : SessionOK(v)'
    BY <2>1, <2>2, <2>4 DEF IInv, SessionOK
  <2> QED BY <2>7, <2>8, <2>9
<1>7. ASSUME NEW w \in Workers, StartWorker(w)
      PROVE  TypeOK' /\ \A v \in Workers : SessionOK(v)'
  <2>1. TypeOK'
    BY <1>7 DEF StartWorker, IInv, TypeOK, main, broker, history
  <2>2. \A v \in Workers : SessionOK(v)'
    BY <1>7, SameSessions DEF StartWorker, broker
  <2> QED BY <2>1, <2>2
<1>8. TypeOK' /\ \A w \in Workers : SessionOK(w)'
  BY <1>2, <1>3, <1>4, <1>5, <1>6, <1>7 DEF Settles
<1> QED BY <1>1, <1>8 DEF IInv

----------------------------------------------------------------------------
(* The wire.                                                                *)

WireDistinct == \A i, j \in DOMAIN wire : wire[i][1] = wire[j][1] => i = j

\* A block is published ...
LEMMA WireGrows ==
  ASSUME TypeOK, NEW m \in Blocks, NEW w \in Workers, wire' = Append(wire, <<m, w>>)
  PROVE  /\ wire' \in Seq(Blocks \X Workers)
         /\ OnWire' = OnWire \union {m}
         /\ WireDistinct /\ m \notin OnWire => WireDistinct'
         /\ \A i \in DOMAIN wire' : wire'[i][2] = w \/ \E j \in DOMAIN wire : wire'[i][2] = wire[j][2]
<1>1. wire \in Seq(Blocks \X Workers) /\ <<m, w>> \in Blocks \X Workers
  BY DEF TypeOK
<1>2. /\ wire' \in Seq(Blocks \X Workers) /\ Len(wire') = Len(wire) + 1
      /\ wire'[Len(wire) + 1] = <<m, w>>
      /\ \A i \in 1 .. Len(wire) : wire'[i] = wire[i]
  BY <1>1, AppendProperties
<1>3. Len(wire) \in Nat /\ DOMAIN wire = 1 .. Len(wire) /\ DOMAIN wire' = 1 .. Len(wire) + 1
  BY <1>1, <1>2, LenProperties
<1>4. \A i \in DOMAIN wire' : \/ i = Len(wire) + 1 /\ wire'[i] = <<m, w>>
                              \/ i \in DOMAIN wire /\ wire'[i] = wire[i]
  BY <1>2, <1>3
<1>5. \A i \in DOMAIN wire : i \in DOMAIN wire' /\ wire'[i] = wire[i]
  BY <1>2, <1>3
<1>6. Len(wire) + 1 \in DOMAIN wire' /\ wire'[Len(wire) + 1][1] = m
  BY <1>2, <1>3
<1>7. OnWire' = OnWire \union {m}
  BY <1>4, <1>5, <1>6 DEF OnWire
<1>8. ASSUME WireDistinct, m \notin OnWire PROVE WireDistinct'
  <2>1. \A i \in DOMAIN wire : wire[i][1] # m
    BY <1>8 DEF OnWire
  <2> QED BY <1>4, <1>8, <2>1 DEF WireDistinct
<1>9. \A i \in DOMAIN wire' : wire'[i][2] = w \/ \E j \in DOMAIN wire : wire'[i][2] = wire[j][2]
  BY <1>4
<1> QED BY <1>2, <1>7, <1>8, <1>9

\* ... and the broker reads the oldest one.
LEMMA WireShrinks ==
  ASSUME TypeOK, wire # << >>, wire' = Tail(wire)
  PROVE  /\ Head(wire) \in Blocks \X Workers /\ wire' \in Seq(Blocks \X Workers)
         /\ OnWire = OnWire' \union {Head(wire)[1]}
         /\ WireDistinct => WireDistinct' /\ Head(wire)[1] \notin OnWire'
         /\ \A i \in DOMAIN wire' : \E j \in DOMAIN wire : wire'[i] = wire[j]
         /\ \E j \in DOMAIN wire : Head(wire) = wire[j]
<1>1. wire \in Seq(Blocks \X Workers)
  BY DEF TypeOK
<1>2. /\ Head(wire) \in Blocks \X Workers /\ wire' \in Seq(Blocks \X Workers)
      /\ Len(wire') = Len(wire) - 1
      /\ \A i \in 1 .. Len(wire') : wire'[i] = wire[i + 1]
  BY <1>1, HeadTailProperties
<1>3. /\ Len(wire) \in Nat \ {0} /\ DOMAIN wire = 1 .. Len(wire)
      /\ DOMAIN wire' = 1 .. Len(wire) - 1
  BY <1>1, <1>2, LenProperties, EmptySeq
<1>4. 1 \in DOMAIN wire /\ Head(wire) = wire[1]
  BY <1>3
<1>5. \A i \in DOMAIN wire' : i + 1 \in DOMAIN wire /\ i + 1 # 1 /\ wire'[i] = wire[i + 1]
  BY <1>2, <1>3
<1>6. \A i \in DOMAIN wire : i = 1 \/ (i - 1 \in DOMAIN wire' /\ wire'[i - 1] = wire[i])
  BY <1>2, <1>3
<1>7. OnWire = OnWire' \union {Head(wire)[1]}
  <2>1. \A m \in OnWire' : m \in OnWire
    BY <1>5 DEF OnWire
  <2>2. Head(wire)[1] \in OnWire
    BY <1>2, <1>4 DEF OnWire
  <2>3. \A m \in OnWire : m = Head(wire)[1] \/ m \in OnWire'
    BY <1>4, <1>6 DEF OnWire
  <2> QED BY <2>1, <2>2, <2>3
<1>8. ASSUME WireDistinct PROVE WireDistinct' /\ Head(wire)[1] \notin OnWire'
  <2>1. \A i, j \in DOMAIN wire' : i + 1 = j + 1 => i = j
    BY <1>3
  <2>2. WireDistinct'
    BY <1>5, <1>8, <2>1 DEF WireDistinct
  <2>3. \A i \in DOMAIN wire' : wire'[i][1] # Head(wire)[1]
    BY <1>4, <1>5, <1>8 DEF WireDistinct
  <2> QED BY <2>2, <2>3 DEF OnWire
<1> QED BY <1>2, <1>4, <1>5, <1>7, <1>8

\* The workers and their sessions, when only the main node or its broker steps.
LEMMA SameWorkers ==
  ASSUME IInv, UNCHANGED workers
  PROVE  /\ \A w : At(w)' = At(w) /\ \A m : Loaded(m)' = Loaded(m)
         /\ queues' = queues => \A w \in Workers : SessionOK(w)'
BY DEF IInv, At, Loaded, SessionOK, workers

LEMMA PublishInv ==
  ASSUME IInv, NEW m \in Blocks, NEW w \in Workers, PublishBlock(m, w)
  PROVE  /\ IInv' /\ m \notin OnWire /\ (OnWire' = OnWire \/ OnWire' = OnWire \union {m})
         /\ \A x : (Out(x)' => Out(x)) /\ Loaded(x)' = Loaded(x) /\ Kept(x)' = Kept(x)
<1> USE DEF PublishBlock
<1>1. /\ UNCHANGED <<broker, workers>> /\ m \in unsent /\ unsent' = unsent \ {m}
      /\ ready' = ready /\ queues' = queues /\ inbox' = inbox /\ current' = current
      /\ unacked' = unacked
  BY DEF broker, workers
<1>2. (\A v \in Workers : SessionOK(v)') /\ \A v : At(v)' = At(v)
  BY <1>1, SameWorkers
<1>3. \A x : Queued(x)' = Queued(x) /\ Loaded(x)' = Loaded(x)
  BY <1>1, <1>2 DEF Queued, Loaded
<1>4. m \notin OnWire /\ ~ Queued(m) /\ ~ Loaded(m) /\ TypeOK /\ WireDistinct
  BY <1>1 DEF IInv, Places, NoDuplicates, WireDistinct
<1>5. /\ wire' \in Seq(Blocks \X Workers) /\ WireDistinct'
      /\ OnWire' = OnWire \/ OnWire' = OnWire \union {m}
      /\ publisher = NoBroker => wire' = << >>
  <2>1. CASE publisher # NoBroker
    BY <1>4, <2>1, WireGrows
  <2>2. CASE publisher = NoBroker
    BY <1>4, <2>2 DEF TypeOK, OnWire, WireDistinct
  <2> QED BY <2>1, <2>2
<1>6. TypeOK'
  BY <1>1, <1>4, <1>5 DEF TypeOK, broker, workers
<1>7. NoDuplicates'
  BY <1>1, <1>5 DEF IInv, NoDuplicates, WireDistinct
<1>8. Places'
  BY <1>1, <1>2, <1>3, <1>4, <1>5 DEF IInv, Places
<1>9. \A x : (Out(x)' => Out(x)) /\ Kept(x)' = Kept(x)
  BY <1>1, <1>3, <1>5 DEF Out, Kept
<1> QED BY <1>2, <1>3, <1>4, <1>5, <1>6, <1>7, <1>8, <1>9 DEF IInv

\* The publisher's connection ends, with or without its process.
LEMMA PublisherEndsInv ==
  ASSUME IInv, LosePublisher \/ RestartMain
  PROVE  /\ IInv' /\ OnWire' = {}
         /\ \A x : (Out(x)' => Out(x)) /\ Loaded(x)' = Loaded(x) /\ Kept(x)' = Kept(x)
<1>1. /\ PublisherEnds /\ UNCHANGED <<broker, workers, unsent, computed, returned, meddling, switched>>
      /\ active' \subseteq Workers /\ channel' \in {"open", "closed", "lost"}
  BY DEF LosePublisher, RestartMain, IInv, TypeOK
<1>2. /\ ready' = ready /\ queues' = queues /\ inbox' = inbox /\ current' = current
      /\ unacked' = unacked /\ wire' = << >> /\ publisher' = NoBroker
  BY <1>1 DEF broker, workers, PublisherEnds
<1>3. (\A v \in Workers : SessionOK(v)') /\ \A v : At(v)' = At(v)
  BY <1>1, <1>2, SameWorkers
<1>4. \A x : Queued(x)' = Queued(x) /\ Loaded(x)' = Loaded(x)
  BY <1>2, <1>3 DEF Queued, Loaded
<1>5. OnWire' = {} /\ WireDistinct' /\ wire' \in Seq(Blocks \X Workers)
  BY <1>2, EmptySeq DEF OnWire, WireDistinct
<1>6. fate' \in [Blocks -> {"none", "unsent", "dropped", "accepted", "purged"}] /\ faults' \in 0 .. MaxFaults
  BY <1>1, DeliveryAssumption DEF IInv, TypeOK, PublisherEnds
<1>7. TypeOK'
  BY <1>1, <1>2, <1>5, <1>6 DEF IInv, TypeOK, broker, workers
<1>8. NoDuplicates'
  BY <1>2, <1>5 DEF IInv, NoDuplicates, WireDistinct
<1>9. Places'
  BY <1>1, <1>2, <1>3, <1>4, <1>5 DEF IInv, Places
<1>10. \A x : (Out(x)' => Out(x)) /\ Kept(x)' = Kept(x)
  BY <1>1, <1>2, <1>4, <1>5 DEF Out, Kept
<1> QED BY <1>3, <1>4, <1>5, <1>7, <1>8, <1>9, <1>10 DEF IInv

\* The exchange takes the oldest block off the wire, into a bound queue or away.
LEMMA RouteInv ==
  ASSUME IInv, Route
  PROVE  /\ IInv' /\ Head(wire)[1] \in OnWire
         /\ unsent' \union OnWire' = (unsent \union OnWire) \ {Head(wire)[1]}
         /\ \A x : (Out(x)' => Out(x)) /\ Loaded(x)' = Loaded(x)
         /\ \A x : Kept(x)' = Kept(x) \/ (x = Head(wire)[1] /\ Kept(x)')
<1> DEFINE m == Head(wire)[1]
           q == Q(publisher, Head(wire)[2])
<1>1. /\ UNCHANGED <<active, publisher, unsent, exchanges, queues, bindings, workers,
                     computed, returned, faults, meddling, switched>>
      /\ inbox' = inbox /\ current' = current /\ unacked' = unacked
      /\ wire # << >> /\ wire' = Tail(wire)
      /\ channel' \in {"open", "closed", "lost"}
  BY DEF Route, workers, IInv, TypeOK
<1>2. /\ m \in Blocks /\ q \in Brokers \X Workers /\ wire' \in Seq(Blocks \X Workers)
      /\ OnWire = OnWire' \union {m} /\ m \notin OnWire' /\ WireDistinct'
  BY <1>1, WireShrinks DEF IInv, NoDuplicates, WireDistinct, TypeOK, Q
<1>3. m \notin unsent /\ ~ Queued(m) /\ ~ Loaded(m)
  BY <1>2 DEF IInv, Places
<1>4. /\ ready' \in [Brokers \X Workers -> Seq(Blocks)]
      /\ \A p \in Brokers \X Workers :
           \/ ready'[p] = ready[p]
           \/ /\ p = q /\ q \in queues /\ ready'[p] = Append(ready[p], m)
              /\ ready'[p] \in Seq(Blocks) /\ IsInjective(ready'[p])
              /\ ToSet(ready'[p]) = ToSet(ready[p]) \union {m}
  <2>1. CASE ready' = ready
    BY <2>1 DEF IInv, TypeOK
  <2>2. CASE q \in bindings /\ ready' = [ready EXCEPT ![q] = Append(@, m)]
    <3>1. ready[q] \in Seq(Blocks) /\ m \notin ToSet(ready[q]) /\ IsInjective(ready[q]) /\ q \in queues
      BY <1>2, <1>3, <2>2 DEF IInv, TypeOK, Queued, NoDuplicates
    <3>2. /\ Append(ready[q], m) \in Seq(Blocks) /\ IsInjective(Append(ready[q], m))
          /\ ToSet(Append(ready[q], m)) = ToSet(ready[q]) \union {m}
      BY <1>2, <3>1, AppendSet
    <3>3. ready \in [Brokers \X Workers -> Seq(Blocks)]
      BY DEF IInv, TypeOK
    <3> HIDE DEF m, q
    <3> QED BY <1>2, <2>2, <3>1, <3>2, <3>3
  <2> QED BY <2>1, <2>2 DEF Route
<1>5. fate' \in [Blocks -> {"none", "unsent", "dropped", "accepted", "purged"}]
  BY <1>2 DEF IInv, TypeOK, Route
<1>6. (\A v \in Workers : SessionOK(v)') /\ (\A v : At(v)' = At(v)) /\ \A x : Loaded(x)' = Loaded(x)
  BY <1>1, SameWorkers
<1> HIDE DEF m, q
<1>7. TypeOK'
  <2>1. \A p \in DOMAIN ready' : ready'[p] # << >> => p \in queues
    BY <1>4 DEF IInv, TypeOK
  <2>2. publisher' = NoBroker => wire' = << >>
    BY <1>1 DEF IInv, TypeOK
  <2>3. ready' \in [Brokers \X Workers -> Seq(Blocks)]
    BY <1>4
  <2> QED BY <1>1, <1>2, <1>5, <2>1, <2>2, <2>3 DEF IInv, TypeOK, workers
<1>8. NoDuplicates'
  BY <1>1, <1>2, <1>4 DEF IInv, NoDuplicates, WireDistinct
<1>9. Places'
  <2>1. \A p \in Brokers \X Workers : ToSet(ready'[p]) \subseteq ToSet(ready[p]) \union (IF p = q THEN {m} ELSE {})
    BY <1>4
  <2>2. \A p \in Brokers \X Workers : m \notin ToSet(ready[p])
    BY <1>3 DEF Queued
  <2>3. \A v \in Workers : m \notin At(v)
    BY <1>3 DEF Loaded
  <2>4. \A v \in Workers : ToSet(unacked[v]) \subseteq At(v)
    BY SessionSets
  <2>5. /\ unsent' \intersect OnWire' = {}
        /\ \A x \in unsent' \union OnWire' : ~ Queued(x)' /\ ~ Loaded(x)'
    <3>1. \A x : Queued(x)' => Queued(x) \/ x = m
      BY <2>1 DEF Queued
    <3> QED BY <1>1, <1>2, <1>3, <1>6, <3>1 DEF IInv, Places
  <2>6. \A p, r \in Brokers \X Workers : p # r => ToSet(ready'[p]) \intersect ToSet(ready'[r]) = {}
    BY <2>1, <2>2 DEF IInv, Places
  <2>7. \A v \in Workers, p \in Brokers \X Workers :
          /\ ToSet(unacked'[v]) \intersect ToSet(ready'[p]) = {}
          /\ At(v)' \intersect ToSet(ready'[p]) # {} => p[2] = v
    <3>1. \A v \in Workers, p \in Brokers \X Workers :
            /\ ToSet(unacked[v]) \intersect ToSet(ready[p]) = {}
            /\ At(v) \intersect ToSet(ready[p]) # {} => p[2] = v
      BY DEF IInv, Places
    <3>2. \A v \in Workers : m \notin ToSet(unacked[v])
      BY <2>3, <2>4
    <3>3. \A v \in Workers, p \in Brokers \X Workers :
            /\ ToSet(unacked[v]) \intersect ToSet(ready'[p]) \subseteq ToSet(unacked[v]) \intersect ToSet(ready[p])
            /\ At(v) \intersect ToSet(ready'[p]) \subseteq At(v) \intersect ToSet(ready[p])
      BY <2>1, <2>3, <3>2
    <3>4. \A v \in Workers : At(v)' = At(v) /\ unacked'[v] = unacked[v]
      BY <1>1, <1>6
    <3> QED BY <3>1, <3>3, <3>4
  <2> QED BY <1>6, <2>5, <2>6, <2>7 DEF IInv, Places
<1>10. \A x : (Out(x)' => Out(x)) /\ (Kept(x)' = Kept(x) \/ (x = m /\ Kept(x)'))
  <2>1. \A p \in Brokers \X Workers : /\ ToSet(ready'[p]) \subseteq ToSet(ready[p]) \union {m}
                                       /\ ToSet(ready[p]) \subseteq ToSet(ready'[p])
    BY <1>4
  <2>2. \A x : (Queued(x) => Queued(x)') /\ (Queued(x)' => Queued(x) \/ x = m)
    BY <2>1 DEF Queued
  <2> QED BY <1>1, <1>2, <2>2 DEF Out, Kept
<1>11. unsent' \union OnWire' = (unsent \union OnWire) \ {m}
  BY <1>1, <1>2, <1>3
<1>12. m \in OnWire
  BY <1>2
<1> QED BY <1>6, <1>7, <1>8, <1>9, <1>10, <1>11, <1>12 DEF IInv, m

----------------------------------------------------------------------------
(* The workers.                                                             *)

\* What the step of one worker leaves alone.
LEMMA OtherWorkers ==
  ASSUME IInv, NEW w \in Workers,
         \A v \in Workers \ {w} : /\ consumer'[v] = consumer[v] /\ session'[v] = session[v]
                                  /\ inbox'[v] = inbox[v] /\ current'[v] = current[v]
                                  /\ unacked'[v] = unacked[v]
  PROVE  \A v \in Workers \ {w} : At(v)' = At(v) /\ (queues' = queues => SessionOK(v)')
BY DEF IInv, At, SessionOK

LEMMA DeliverInv ==
  ASSUME IInv, NEW w \in Workers, Deliver(w)
  PROVE  /\ IInv' /\ OnWire' = OnWire
         /\ \E m \in Blocks :
              /\ Out(m) /\ ~ Out(m)' /\ Kept(m)
              /\ \A x : x # m => (Out(x)' => Out(x)) /\ (Loaded(x)' => Loaded(x))
         /\ \A x : Kept(x)' <=> Kept(x)
<1> DEFINE q == Q(consumer[w], w)
           m == Head(ready[q])
<1>1. /\ UNCHANGED <<main, exchanges, queues, bindings, alive, consumer, session, current, warm, history>>
      /\ session[w] = "consuming" /\ ready[q] # << >>
      /\ inbox' = [inbox EXCEPT ![w] = Append(@, m)]
      /\ unacked' = [unacked EXCEPT ![w] = Append(@, m)]
      /\ ready' = [ready EXCEPT ![q] = Tail(@)]
  BY DEF Deliver
<1>2. UNCHANGED <<active, publisher, channel, wire, unsent>>
  BY <1>1 DEF main
<1>3. /\ SessionOK(w) /\ consumer[w] \in Brokers /\ q \in Brokers \X Workers /\ q \in queues
      /\ At(w) = ToSet(unacked[w])
  BY <1>1, SessionSets DEF IInv, TypeOK, SessionOK, Q
<1>4. /\ m \in Blocks /\ Tail(ready[q]) \in Seq(Blocks) /\ IsInjective(Tail(ready[q]))
      /\ ToSet(ready[q]) = {m} \union ToSet(Tail(ready[q])) /\ m \notin ToSet(Tail(ready[q]))
  <2>1. ready[q] \in Seq(Blocks) /\ IsInjective(ready[q])
    BY <1>3 DEF IInv, TypeOK, NoDuplicates
  <2> QED BY <1>1, <2>1, TailSet
<1>5. m \notin ToSet(unacked[w]) /\ m \notin At(w) /\ Queued(m)
  <2>1. m \in ToSet(ready[q])
    BY <1>4
  <2>2. ToSet(unacked[w]) \intersect ToSet(ready[q]) = {}
    BY <1>3 DEF IInv, Places
  <2>3. Queued(m)
    BY <1>3, <2>1 DEF Queued
  <2> QED BY <1>3, <2>1, <2>2, <2>3
<1> HIDE DEF m, q
<1>6. /\ Append(unacked[w], m) \in Seq(Blocks) /\ Append(unacked[w], m) # << >>
      /\ IsInjective(Append(unacked[w], m))
      /\ ToSet(Append(unacked[w], m)) = ToSet(unacked[w]) \union {m}
  <2>1. unacked[w] \in Seq(Blocks) /\ IsInjective(unacked[w])
    BY DEF IInv, TypeOK, NoDuplicates
  <2> QED BY <1>4, <1>5, <2>1, AppendSet
<1>7. /\ Append(inbox[w], m) \in Seq(Blocks) /\ IsInjective(Append(inbox[w], m))
      /\ ToSet(Append(inbox[w], m)) = ToSet(inbox[w]) \union {m}
  <2>1. inbox[w] \in Seq(Blocks) /\ IsInjective(inbox[w]) /\ m \notin ToSet(inbox[w])
    BY <1>5 DEF IInv, TypeOK, NoDuplicates, At
  <2> QED BY <1>4, <2>1, AppendSet
<1>8. At(w)' = At(w) \union {m}
  BY <1>1, <1>7 DEF At, IInv, TypeOK
<1>9. SessionOK(w)'
  <2>1. unacked[w] \in Seq(Blocks)
    BY DEF IInv, TypeOK
  <2>2. /\ Head(Append(unacked[w], m)) = IF unacked[w] = << >> THEN m ELSE Head(unacked[w])
        /\ Tail(Append(unacked[w], m)) = IF unacked[w] = << >> THEN << >> ELSE Append(Tail(unacked[w]), m)
    BY <2>1, HeadTailAppend
  <2>3. inbox'[w] = Append(inbox[w], m) /\ unacked'[w] = Append(unacked[w], m)
    BY <1>1 DEF IInv, TypeOK
  <2> QED BY <1>1, <1>3, <1>6, <2>2, <2>3 DEF SessionOK, Q
<1>10. \A v \in Workers \ {w} : At(v)' = At(v) /\ SessionOK(v)'
  BY <1>1, OtherWorkers
<1>11. \A p \in Brokers \X Workers : ready'[p] = IF p = q THEN Tail(ready[q]) ELSE ready[p]
  BY <1>1 DEF IInv, TypeOK
<1>12. \A p \in Brokers \X Workers : ToSet(ready'[p]) = ToSet(ready[p]) \ (IF p = q THEN {m} ELSE {})
  <2>1. \A p \in Brokers \X Workers : p # q => m \notin ToSet(ready[p])
    BY <1>3, <1>4 DEF IInv, Places
  <2> QED BY <1>4, <1>11, <2>1
<1>13. TypeOK'
  <2>1. ready' \in [Brokers \X Workers -> Seq(Blocks)] /\ \A p \in DOMAIN ready' : ready'[p] # << >> => p \in queues
    BY <1>1, <1>3, <1>4, <1>11 DEF IInv, TypeOK
  <2>2. inbox' \in [Workers -> Seq(Blocks)] /\ unacked' \in [Workers -> Seq(Blocks)]
    BY <1>1, <1>6, <1>7 DEF IInv, TypeOK
  <2>3. \A v \in Workers : unacked'[v] # << >> => session[v] = "consuming" /\ Q(consumer[v], v) \in queues
    BY <1>1, <1>3 DEF IInv, TypeOK, q
  <2> QED BY <1>1, <1>2, <2>1, <2>2, <2>3 DEF IInv, TypeOK, history
<1>14. NoDuplicates'
  <2>1. current[w] # m /\ current[w] \notin ToSet(inbox[w])
    BY <1>4, <1>5, DeliveryAssumption DEF IInv, NoDuplicates, At
  <2>2. \A p \in Brokers \X Workers : IsInjective(ready'[p])
    BY <1>4, <1>11 DEF IInv, NoDuplicates
  <2>3. /\ inbox'[w] = Append(inbox[w], m) /\ unacked'[w] = Append(unacked[w], m)
        /\ \A v \in Workers \ {w} : inbox'[v] = inbox[v] /\ unacked'[v] = unacked[v]
    BY <1>1 DEF IInv, TypeOK
  <2>4. \A v \in Workers : /\ IsInjective(inbox'[v]) /\ IsInjective(unacked'[v])
                           /\ current'[v] \notin ToSet(inbox'[v])
    BY <1>1, <1>6, <1>7, <2>1, <2>3 DEF IInv, NoDuplicates
  <2> QED BY <1>2, <2>2, <2>4 DEF IInv, NoDuplicates
<1>15. Places'
  <2>1. m \notin unsent \union OnWire /\ OnWire' = OnWire
    BY <1>2, <1>5 DEF IInv, Places, OnWire
  <2>2. \A v \in Workers \ {w} : m \notin At(v)
    BY <1>3, <1>4 DEF IInv, Places, q, Q
  <2>3. /\ unacked'[w] = Append(unacked[w], m)
        /\ \A v \in Workers \ {w} : unacked'[v] = unacked[v]
    BY <1>1 DEF IInv, TypeOK
  <2>4. \A x : Queued(x)' => Queued(x)
    BY <1>12 DEF Queued
  <2>5. \A x : Loaded(x)' => Loaded(x) \/ x = m
    BY <1>8, <1>10 DEF Loaded
  <2>6. \A x \in unsent' \union OnWire' : ~ Queued(x)' /\ ~ Loaded(x)'
    BY <1>2, <2>1, <2>4, <2>5 DEF IInv, Places
  <2>7. \A p, r \in Brokers \X Workers : p # r => ToSet(ready'[p]) \intersect ToSet(ready'[r]) = {}
    BY <1>12 DEF IInv, Places
  <2>8. \A u, v \in Workers : u # v => At(u)' \intersect At(v)' = {}
    BY <1>8, <1>10, <2>2 DEF IInv, Places
  <2>9. \A v \in Workers, p \in Brokers \X Workers :
          /\ ToSet(unacked'[v]) \intersect ToSet(ready'[p]) = {}
          /\ At(v)' \intersect ToSet(ready'[p]) # {} => p[2] = v
    <3>1. \A p \in Brokers \X Workers : m \notin ToSet(ready'[p])
      <4>1. m \in ToSet(ready[q]) /\ \A p \in Brokers \X Workers : p # q => m \notin ToSet(ready[p])
        BY <1>3, <1>4 DEF IInv, Places
      <4> QED BY <1>12, <4>1
    <3>2. \A v \in Workers : At(v)' \subseteq At(v) \union {m} /\ ToSet(unacked'[v]) \subseteq ToSet(unacked[v]) \union {m}
      BY <1>6, <1>8, <1>10, <2>3
    <3> QED BY <1>12, <3>1, <3>2 DEF IInv, Places
  <2> QED BY <1>2, <2>1, <2>6, <2>7, <2>8, <2>9 DEF IInv, Places
<1>16. OnWire' = OnWire /\ m \notin unsent \union OnWire
  BY <1>2, <1>5 DEF IInv, Places, OnWire
<1>17. /\ Out(m) /\ Kept(m)
       /\ \A x : x = m => ~ Out(x)'
       /\ \A x : x # m => (Out(x)' => Out(x)) /\ (Loaded(x)' => Loaded(x))
  <2>1. \A p \in Brokers \X Workers : m \notin ToSet(ready'[p])
    <3>1. m \in ToSet(ready[q]) /\ \A p \in Brokers \X Workers : p # q => m \notin ToSet(ready[p])
      BY <1>3, <1>4 DEF IInv, Places
    <3> QED BY <1>12, <3>1
  <2>2. \A x : Queued(x)' => Queued(x) /\ x # m
    BY <1>12, <2>1 DEF Queued
  <2>3. \A x : x # m => (Loaded(x)' => Loaded(x))
    BY <1>8, <1>10 DEF Loaded
  <2> QED BY <1>2, <1>5, <1>16, <2>2, <2>3 DEF Out, Kept
<1>18. \A x : Kept(x)' <=> Kept(x)
  <2>1. /\ \A v \in Workers \ {w} : unacked'[v] = unacked[v]
        /\ ToSet(unacked'[w]) = ToSet(unacked[w]) \union {m}
    BY <1>1, <1>6 DEF IInv, TypeOK
  <2>2. Kept(m) /\ \A x : x = m => Kept(x)'
    BY <1>17, <2>1 DEF Kept
  <2>3. \A x : x # m => Queued(x)' = Queued(x)
    BY <1>12 DEF Queued
  <2>4. ASSUME NEW x, x # m PROVE Kept(x)' <=> Kept(x)
    <3>1. \A v \in Workers : x \in ToSet(unacked'[v]) <=> x \in ToSet(unacked[v])
      BY <2>1, <2>4
    <3> QED BY <2>3, <2>4, <3>1 DEF Kept
  <2> QED BY <2>2, <2>4
<1> QED BY <1>4, <1>9, <1>10, <1>13, <1>14, <1>15, <1>16, <1>17, <1>18 DEF IInv

\* The callback takes the oldest block that was delivered.
LEMMA ReceiveInv ==
  ASSUME IInv, NEW w \in Workers, Receive(w)
  PROVE  IInv' /\ \A v \in Workers : At(v)' = At(v)
<1>1. /\ UNCHANGED <<main, broker, alive, consumer, session, unacked, warm, history>>
      /\ current[w] = NoBlock /\ inbox[w] # << >>
      /\ current' = [current EXCEPT ![w] = Head(inbox[w])]
      /\ inbox' = [inbox EXCEPT ![w] = Tail(@)]
  BY DEF Receive
<1>2. UNCHANGED <<unsent, wire, ready, queues>>
  BY <1>1 DEF main, broker
<1>3. inbox[w] \in Seq(Blocks) /\ IsInjective(inbox[w])
  BY DEF IInv, TypeOK, NoDuplicates
<1>4. /\ Head(inbox[w]) \in Blocks /\ Tail(inbox[w]) \in Seq(Blocks) /\ IsInjective(Tail(inbox[w]))
      /\ ToSet(inbox[w]) = {Head(inbox[w])} \union ToSet(Tail(inbox[w]))
      /\ Head(inbox[w]) \notin ToSet(Tail(inbox[w]))
  BY <1>1, <1>3, TailSet
<1>5. current'[w] = Head(inbox[w]) /\ inbox'[w] = Tail(inbox[w])
  BY <1>1 DEF IInv, TypeOK
<1>6. At(w)' = At(w)
  BY <1>1, <1>4, <1>5, DeliveryAssumption DEF At
<1>7. SessionOK(w)'
  <2>1. SessionOK(w) /\ Head(inbox[w]) # NoBlock
    BY <1>4, DeliveryAssumption DEF IInv
  <2> QED BY <1>1, <1>2, <1>5, <2>1 DEF SessionOK, Q
<1>8. \A v \in Workers \ {w} : At(v)' = At(v) /\ SessionOK(v)'
  BY <1>1, <1>2, OtherWorkers
<1>9. TypeOK'
  <2>1. inbox' \in [Workers -> Seq(Blocks)] /\ current' \in [Workers -> Blocks \union {NoBlock}]
    BY <1>1, <1>4 DEF IInv, TypeOK
  <2> QED BY <1>1, <2>1 DEF IInv, TypeOK, main, broker, history
<1>10. NoDuplicates'
  BY <1>1, <1>2, <1>4, <1>5 DEF IInv, NoDuplicates, TypeOK
<1>11. Places'
  <2>1. \A v \in Workers : At(v)' = At(v)
    BY <1>6, <1>8
  <2>2. OnWire' = OnWire /\ \A x : Queued(x)' = Queued(x) /\ Loaded(x)' = Loaded(x)
    BY <1>2, <2>1 DEF OnWire, Queued, Loaded
  <2> QED BY <1>1, <1>2, <2>1, <2>2 DEF IInv, Places
<1> QED BY <1>6, <1>7, <1>8, <1>9, <1>10, <1>11 DEF IInv

\* What the acknowledgement of the block in the callback takes away: the oldest block of a
\* session that lasts, nothing from another.
LEMMA AckFacts ==
  ASSUME IInv, NEW w \in Workers, current[w] # NoBlock, Acknowledge(w, current[w])
  PROVE  /\ unacked' \in [Workers -> Seq(Blocks)] /\ IsInjective(unacked'[w])
         /\ \A v \in Workers \ {w} : unacked'[v] = unacked[v]
         /\ session[w] # "consuming" => unacked'[w] = << >>
         /\ session[w] = "consuming" => unacked'[w] = inbox[w]
<1>1. SessionOK(w) /\ inbox[w] \in Seq(Blocks) /\ IsInjective(inbox[w]) /\ unacked \in [Workers -> Seq(Blocks)]
  BY DEF IInv, TypeOK, NoDuplicates
<1>2. unacked' = [unacked EXCEPT ![w] = IF @ # << >> /\ Head(@) = current[w] THEN Tail(@) ELSE @]
  BY DEF Acknowledge
<1>3. unacked'[w] = IF unacked[w] # << >> /\ Head(unacked[w]) = current[w] THEN Tail(unacked[w]) ELSE unacked[w]
  BY <1>1, <1>2
<1>4. CASE session[w] = "consuming"
  <2>1. unacked'[w] = inbox[w]
    BY <1>1, <1>3, <1>4 DEF SessionOK
  <2> QED BY <1>1, <1>2, <1>4, <2>1
<1>5. CASE session[w] # "consuming"
  <2>1. unacked'[w] = << >>
    BY <1>1, <1>3, <1>5 DEF SessionOK
  <2>2. << >> \in Seq(Blocks) /\ IsInjective(<< >>)
    BY EmptySet, EmptySeq
  <2> QED BY <1>1, <1>2, <1>5, <2>1, <2>2
<1> QED BY <1>4, <1>5

LEMMA ComputeInv ==
  ASSUME IInv, NEW w \in Workers, ComputeAndAck(w)
  PROVE  /\ IInv' /\ At(w)' = At(w) \ {current[w]} /\ current[w] \in At(w)
         /\ \A v \in Workers \ {w} : At(v)' = At(v)
<1>1. /\ UNCHANGED <<main, broker, alive, consumer, session, inbox,
                     returned, fate, faults, meddling, switched>>
      /\ current[w] # NoBlock /\ Acknowledge(w, current[w])
      /\ current' = [current EXCEPT ![w] = NoBlock]
      /\ computed' = [computed EXCEPT ![current[w]] = @ + 1]
      /\ warm' = [warm EXCEPT ![w] = TRUE]
  BY DEF ComputeAndAck
<1>2. UNCHANGED <<unsent, wire, ready, queues>>
  BY <1>1 DEF main, broker
<1>3. /\ unacked' \in [Workers -> Seq(Blocks)] /\ IsInjective(unacked'[w])
      /\ \A v \in Workers \ {w} : unacked'[v] = unacked[v]
      /\ session[w] # "consuming" => unacked'[w] = << >>
      /\ session[w] = "consuming" => unacked'[w] = inbox[w]
  BY <1>1, AckFacts
<1>4. current'[w] = NoBlock /\ inbox'[w] = inbox[w] /\ current[w] \notin ToSet(inbox[w])
  BY <1>1 DEF IInv, TypeOK, NoDuplicates
<1>5. At(w)' = At(w) \ {current[w]} /\ current[w] \in At(w)
  BY <1>1, <1>4 DEF At
<1>6. SessionOK(w)'
  <2>1. SessionOK(w)
    BY DEF IInv
  <2> QED BY <1>1, <1>2, <1>3, <1>4, <2>1 DEF SessionOK, Q
<1>7. \A v \in Workers \ {w} : At(v)' = At(v) /\ SessionOK(v)'
  BY <1>1, <1>2, <1>3, OtherWorkers
<1>8. TypeOK'
  <2>1. current' \in [Workers -> Blocks \union {NoBlock}] /\ warm' \in [Workers -> BOOLEAN]
    BY <1>1 DEF IInv, TypeOK
  <2>3. computed' \in [Blocks -> Nat]
    <3>1. computed \in [Blocks -> Nat] /\ current[w] \in Blocks
      BY <1>1 DEF IInv, TypeOK
    <3> QED BY <1>1, <3>1
  <2>2. \A v \in Workers : unacked'[v] # << >> => session[v] = "consuming" /\ Q(consumer[v], v) \in queues
    BY <1>3 DEF IInv, TypeOK, SessionOK
  <2> QED BY <1>1, <1>3, <2>1, <2>2, <2>3 DEF IInv, TypeOK, main, broker
<1>9. NoDuplicates'
  <2>1. NoBlock \notin ToSet(inbox[w])
    <3>1. inbox[w] \in Seq(Blocks)
      BY DEF IInv, TypeOK
    <3> QED BY <3>1, LenProperties, DeliveryAssumption DEF ToSet
  <2> QED BY <1>1, <1>2, <1>3, <2>1 DEF IInv, NoDuplicates, TypeOK
<1>10. Places'
  <2>1. \A v \in Workers : At(v)' \subseteq At(v)
    BY <1>5, <1>7
  <2>2. OnWire' = OnWire /\ \A x : Queued(x)' = Queued(x) /\ (Loaded(x)' => Loaded(x))
    BY <1>2, <2>1 DEF OnWire, Queued, Loaded
  <2>3. \A v \in Workers : ToSet(unacked'[v]) \subseteq ToSet(unacked[v])
    <3>1. session[w] # "consuming" => ToSet(unacked'[w]) = {}
      BY <1>3, EmptySet
    <3>2. session[w] = "consuming" => ToSet(unacked'[w]) \subseteq ToSet(unacked[w])
      BY <1>3, SessionSets DEF At
    <3> QED BY <1>3, <3>1, <3>2
  <2>4. /\ unsent' \intersect OnWire' = {}
        /\ \A x \in unsent' \union OnWire' : ~ Queued(x)' /\ ~ Loaded(x)'
    BY <1>2, <2>2 DEF IInv, Places
  <2>5. \A p, r \in Brokers \X Workers : p # r => ToSet(ready'[p]) \intersect ToSet(ready'[r]) = {}
    BY <1>2 DEF IInv, Places
  <2>6. \A u, v \in Workers : u # v => At(u)' \intersect At(v)' = {}
    BY <2>1 DEF IInv, Places
  <2>7. \A v \in Workers, p \in Brokers \X Workers :
          /\ ToSet(unacked'[v]) \intersect ToSet(ready'[p]) = {}
          /\ At(v)' \intersect ToSet(ready'[p]) # {} => p[2] = v
    BY <1>2, <2>1, <2>3 DEF IInv, Places
  <2> QED BY <2>4, <2>5, <2>6, <2>7 DEF Places
<1> QED BY <1>5, <1>6, <1>7, <1>8, <1>9, <1>10 DEF IInv

----------------------------------------------------------------------------
(* The end of a session.                                                    *)

\* What was not acknowledged is in its queue again, and counted as returned.
LEMMA RequeueFacts ==
  ASSUME IInv, NEW w \in Workers, Requeue(w)
  PROVE  /\ unacked' \in [Workers -> Seq(Blocks)] /\ unacked'[w] = << >>
         /\ \A v \in Workers \ {w} : unacked'[v] = unacked[v]
         /\ ready' \in [Brokers \X Workers -> Seq(Blocks)]
         /\ \A q \in Brokers \X Workers :
              /\ IsInjective(ready'[q])
              /\ ToSet(ready'[q]) =
                   ToSet(ready[q]) \union IF q = Q(consumer[w], w) THEN ToSet(unacked[w]) ELSE {}
              /\ ready'[q] # << >> => q \in queues
         /\ returned' \in [Blocks -> Nat]
         /\ \A m \in Blocks : returned'[m] = returned[m] + One(m \in ToSet(unacked[w]))
         /\ unacked[w] # << >> => Q(consumer[w], w) \in Brokers \X Workers
<1> DEFINE q == Q(consumer[w], w)
<1>1. /\ unacked[w] \in Seq(Blocks) /\ IsInjective(unacked[w]) /\ SessionOK(w)
      /\ unacked \in [Workers -> Seq(Blocks)] /\ ready \in [Brokers \X Workers -> Seq(Blocks)]
      /\ << >> \in Seq(Blocks) /\ ToSet(<< >>) = {}
  BY EmptySet, EmptySeq DEF IInv, TypeOK, NoDuplicates
<1>2. /\ unacked' \in [Workers -> Seq(Blocks)] /\ unacked'[w] = << >>
      /\ \A v \in Workers \ {w} : unacked'[v] = unacked[v]
  BY <1>1 DEF Requeue
<1>3. \A m : Contains(unacked[w], m) <=> m \in ToSet(unacked[w])
  BY <1>1, ContainsSet
<1>4. /\ returned' \in [Blocks -> Nat]
      /\ \A m \in Blocks : returned'[m] = returned[m] + One(m \in ToSet(unacked[w]))
  <2>1. returned' = [m \in Blocks |-> returned[m] + IF Contains(unacked[w], m) THEN 1 ELSE 0]
    BY DEF Requeue
  <2>2. returned \in [Blocks -> Nat]
    BY DEF IInv, TypeOK
  <2>3. \A m \in Blocks : returned'[m] = returned[m] + One(m \in ToSet(unacked[w]))
    BY <1>3, <2>1 DEF One
  <2>4. \A m \in Blocks : returned'[m] \in Nat
    BY <2>2, <2>3 DEF One
  <2> QED BY <2>1, <2>3, <2>4
<1>5. unacked[w] # << >> => q \in Brokers \X Workers /\ q \in queues
  BY <1>1 DEF IInv, TypeOK, SessionOK, Q
<1>6. CASE unacked[w] = << >>
  <2>1. ready' = ready
    BY <1>6 DEF Requeue
  <2>2. \A p \in Brokers \X Workers : IsInjective(ready[p]) /\ (ready[p] # << >> => p \in queues)
    BY DEF IInv, NoDuplicates, TypeOK
  <2> QED BY <1>1, <1>2, <1>4, <1>6, <2>1, <2>2
<1>7. CASE unacked[w] # << >>
  <2>1. ready[q] \in Seq(Blocks) /\ IsInjective(ready[q]) /\ ToSet(unacked[w]) \intersect ToSet(ready[q]) = {}
    BY <1>5, <1>7 DEF IInv, TypeOK, NoDuplicates, Places
  <2>2. /\ unacked[w] \o ready[q] \in Seq(Blocks) /\ IsInjective(unacked[w] \o ready[q])
        /\ ToSet(unacked[w] \o ready[q]) = ToSet(ready[q]) \union ToSet(unacked[w])
    BY <1>1, <2>1, ConcatSet
  <2>3. ready' = [ready EXCEPT ![q] = unacked[w] \o ready[q]]
    BY <1>1, <1>5, <1>7 DEF Requeue
  <2> HIDE DEF q
  <2>4. \A p \in Brokers \X Workers : ready'[p] = IF p = q THEN unacked[w] \o ready[q] ELSE ready[p]
    BY <1>1, <2>3
  <2>5. \A p \in Brokers \X Workers : IsInjective(ready[p]) /\ (ready[p] # << >> => p \in queues)
    BY DEF IInv, NoDuplicates, TypeOK
  <2>6. \A p \in Brokers \X Workers :
          /\ IsInjective(ready'[p])
          /\ ToSet(ready'[p]) = ToSet(ready[p]) \union IF p = q THEN ToSet(unacked[w]) ELSE {}
          /\ ready'[p] # << >> => p \in queues
    BY <1>5, <1>7, <2>2, <2>4, <2>5
  <2>7. ready' \in [Brokers \X Workers -> Seq(Blocks)]
    BY <1>1, <2>2, <2>3
  <2> QED BY <1>2, <1>4, <1>5, <1>7, <2>6, <2>7 DEF q
<1> QED BY <1>6, <1>7

\* A session that has nothing to give back.
LEMMA NothingToRequeue ==
  ASSUME IInv, NEW w \in Workers, unacked[w] = << >>, UNCHANGED <<unacked, ready, returned>>
  PROVE  Requeue(w)
<1>1. \A m : ~ Contains(unacked[w], m)
  <2>1. unacked[w] \in Seq(Blocks)
    BY DEF IInv, TypeOK
  <2> QED BY <2>1, ContainsSet, EmptySet
<1>2. returned' = [m \in Blocks |-> returned[m] + IF Contains(unacked[w], m) THEN 1 ELSE 0]
  BY <1>1 DEF IInv, TypeOK
<1> QED BY <1>2 DEF Requeue, IInv, TypeOK

\* The worker that had the session keeps what it has or has nothing any more.
GivesBack(w) ==
  /\ Requeue(w)
  /\ UNCHANGED <<unsent, wire, queues>>
  /\ \A v \in Workers \ {w} : /\ consumer'[v] = consumer[v] /\ session'[v] = session[v]
                              /\ inbox'[v] = inbox[v] /\ current'[v] = current[v]
  /\ \/ inbox'[w] = inbox[w] /\ current'[w] = current[w]
     \/ inbox'[w] = << >> /\ current'[w] = NoBlock

LEMMA GivesBackInv ==
  ASSUME IInv, NEW w \in Workers, GivesBack(w)
  PROVE  /\ NoDuplicates' /\ Places'
         /\ \A v \in Workers \ {w} : SessionOK(v)' /\ At(v)' = At(v)
         /\ At(w)' = At(w) \/ At(w)' = {}
<1> DEFINE q == Q(consumer[w], w)
<1>1. /\ unacked'[w] = << >> /\ \A v \in Workers \ {w} : unacked'[v] = unacked[v]
      /\ \A p \in Brokers \X Workers :
           /\ IsInjective(ready'[p])
           /\ ToSet(ready'[p]) = ToSet(ready[p]) \union IF p = q THEN ToSet(unacked[w]) ELSE {}
      /\ unacked[w] # << >> => q \in Brokers \X Workers
  BY RequeueFacts DEF GivesBack
<1>2. /\ UNCHANGED <<unsent, wire, queues>>
      /\ \A v \in Workers \ {w} : /\ consumer'[v] = consumer[v] /\ session'[v] = session[v]
                                  /\ inbox'[v] = inbox[v] /\ current'[v] = current[v]
      /\ \/ inbox'[w] = inbox[w] /\ current'[w] = current[w]
         \/ inbox'[w] = << >> /\ current'[w] = NoBlock
  BY DEF GivesBack
<1>3. ToSet(<< >>) = {} /\ IsInjective(<< >>)
  BY EmptySet
<1>4. \A v \in Workers \ {w} : SessionOK(v)' /\ At(v)' = At(v)
  BY <1>1, <1>2, OtherWorkers
<1>5. At(w)' = At(w) \/ At(w)' = {}
  BY <1>2, <1>3 DEF At
<1>6. q[2] = w /\ ToSet(unacked[w]) \subseteq At(w)
  BY SessionSets DEF Q
<1> HIDE DEF q
<1>7. NoDuplicates'
  BY <1>1, <1>2, <1>3 DEF IInv, NoDuplicates
<1>8. Places'
  <2>1. \A v \in Workers : At(v)' \subseteq At(v)
    BY <1>4, <1>5
  <2>2. \A x : (Queued(x)' => Queued(x) \/ x \in ToSet(unacked[w])) /\ (Loaded(x)' => Loaded(x))
    BY <1>1, <2>1 DEF Queued, Loaded
  <2>3. OnWire' = OnWire
    BY <1>2 DEF OnWire
  <2>4. \A x \in ToSet(unacked[w]) : Loaded(x)
    BY <1>6 DEF Loaded
  <2>5. /\ unsent' \intersect OnWire' = {}
        /\ \A x \in unsent' \union OnWire' : ~ Queued(x)' /\ ~ Loaded(x)'
    BY <1>2, <2>2, <2>3, <2>4 DEF IInv, Places
  <2>6. \A p, r \in Brokers \X Workers : p # r => ToSet(ready'[p]) \intersect ToSet(ready'[r]) = {}
    <3>1. \A p \in Brokers \X Workers : ToSet(unacked[w]) \intersect ToSet(ready[p]) = {}
      BY DEF IInv, Places
    <3>2. \A p, r \in Brokers \X Workers : p # r => ToSet(ready[p]) \intersect ToSet(ready[r]) = {}
      BY DEF IInv, Places
    <3>3. ASSUME NEW p \in Brokers \X Workers, NEW r \in Brokers \X Workers, p # r
          PROVE  ToSet(ready'[p]) \intersect ToSet(ready'[r]) = {}
      <4>1. p # q \/ r # q
        BY <3>3
      <4>2. /\ ToSet(ready[p]) \intersect ToSet(ready[r]) = {}
            /\ ToSet(unacked[w]) \intersect ToSet(ready[p]) = {}
            /\ ToSet(unacked[w]) \intersect ToSet(ready[r]) = {}
        BY <3>1, <3>2, <3>3
      <4> QED BY <1>1, <4>1, <4>2
    <3> QED BY <3>3
  <2>7. \A u, v \in Workers : u # v => At(u) \intersect At(v) = {} /\ At(u)' \intersect At(v)' = {}
    BY <2>1 DEF IInv, Places
  <2>8. ASSUME NEW v \in Workers, NEW p \in Brokers \X Workers
        PROVE  /\ ToSet(unacked'[v]) \intersect ToSet(ready'[p]) = {}
               /\ At(v)' \intersect ToSet(ready'[p]) # {} => p[2] = v
    <3>1. /\ ToSet(unacked[v]) \intersect ToSet(ready[p]) = {}
          /\ At(v) \intersect ToSet(ready[p]) # {} => p[2] = v
      BY DEF IInv, Places
    <3>2. ToSet(unacked[v]) \subseteq At(v) /\ (v # w => At(v) \intersect ToSet(unacked[w]) = {})
      BY <1>6, <2>7, SessionSets
    <3>3. CASE v = w
      BY <1>1, <1>3, <1>6, <2>1, <3>1, <3>3
    <3>4. CASE v # w
      BY <1>1, <2>1, <3>1, <3>2, <3>4
    <3> QED BY <3>3, <3>4
  <2> QED BY <2>5, <2>6, <2>7, <2>8 DEF Places
<1> QED BY <1>4, <1>5, <1>7, <1>8

\* The process of a worker dies.
LEMMA DiesInv ==
  ASSUME IInv, NEW w \in Workers, WorkerDies(w) \/ BadBlockKills(w)
  PROVE  IInv' /\ GivesBack(w) /\ At(w)' = {}
<1>1. /\ Dies(w) /\ faults < MaxFaults /\ faults' = faults + 1
      /\ UNCHANGED <<main, exchanges, queues, bindings, warm, computed, fate, meddling, switched>>
  BY DEF WorkerDies, BadBlockKills
<1>2. /\ alive' = [alive EXCEPT ![w] = FALSE]
      /\ consumer' = [consumer EXCEPT ![w] = NoBroker]
      /\ session' = [session EXCEPT ![w] = "none"]
      /\ inbox' = [inbox EXCEPT ![w] = << >>]
      /\ current' = [current EXCEPT ![w] = NoBlock]
      /\ Requeue(w)
  BY <1>1 DEF Dies
<1>3. /\ consumer'[w] = NoBroker /\ session'[w] = "none" /\ inbox'[w] = << >> /\ current'[w] = NoBlock
      /\ \A v \in Workers \ {w} : /\ consumer'[v] = consumer[v] /\ session'[v] = session[v]
                                  /\ inbox'[v] = inbox[v] /\ current'[v] = current[v]
  BY <1>2 DEF IInv, TypeOK
<1>4. GivesBack(w)
  BY <1>1, <1>2, <1>3 DEF GivesBack, main
<1>5. /\ unacked' \in [Workers -> Seq(Blocks)] /\ unacked'[w] = << >>
      /\ \A v \in Workers \ {w} : unacked'[v] = unacked[v]
      /\ ready' \in [Brokers \X Workers -> Seq(Blocks)]
      /\ \A q \in Brokers \X Workers : ready'[q] # << >> => q \in queues
      /\ returned' \in [Blocks -> Nat]
  BY <1>2, RequeueFacts
<1>6. At(w)' = {}
  BY <1>3, EmptySet DEF At
<1>7. SessionOK(w)'
  BY <1>3, <1>5 DEF SessionOK
<1>8. TypeOK'
  <2>1. /\ alive' \in [Workers -> BOOLEAN] /\ consumer' \in [Workers -> Brokers \union {NoBroker}]
        /\ session' \in [Workers -> {"none", "consuming", "cancelled", "broken", "ended"}]
        /\ inbox' \in [Workers -> Seq(Blocks)] /\ current' \in [Workers -> Blocks \union {NoBlock}]
    BY <1>2, EmptySeq DEF IInv, TypeOK
  <2>2. faults' \in 0 .. MaxFaults
    BY <1>1, DeliveryAssumption DEF IInv, TypeOK
  <2>3. \A v \in Workers : unacked'[v] # << >> => session'[v] = "consuming" /\ Q(consumer'[v], v) \in queues
    BY <1>3, <1>5 DEF IInv, TypeOK
  <2> QED BY <1>1, <1>5, <2>1, <2>2, <2>3 DEF IInv, TypeOK, main
<1> QED BY <1>4, <1>6, <1>7, <1>8, GivesBackInv DEF IInv

\* Its connection breaks, while it may go on with what it has read ...
LEMMA LoseConsumerInv ==
  ASSUME IInv, NEW w \in Workers, LoseConsumer(w)
  PROVE  IInv' /\ GivesBack(w) /\ At(w)' = At(w)
<1>1. /\ session[w] \in {"consuming", "cancelled"} /\ faults < MaxFaults /\ faults' = faults + 1
      /\ session' = [session EXCEPT ![w] = "broken"]
      /\ Requeue(w)
      /\ UNCHANGED <<main, exchanges, queues, bindings, alive, consumer, inbox, current, warm,
                     computed, fate, meddling, switched>>
  BY DEF LoseConsumer
<1>2. session'[w] = "broken" /\ \A v \in Workers \ {w} : session'[v] = session[v]
  BY <1>1 DEF IInv, TypeOK
<1>3. GivesBack(w)
  BY <1>1, <1>2 DEF GivesBack, main
<1>4. /\ unacked' \in [Workers -> Seq(Blocks)] /\ unacked'[w] = << >>
      /\ \A v \in Workers \ {w} : unacked'[v] = unacked[v]
      /\ ready' \in [Brokers \X Workers -> Seq(Blocks)]
      /\ \A q \in Brokers \X Workers : ready'[q] # << >> => q \in queues
      /\ returned' \in [Blocks -> Nat]
  BY <1>1, RequeueFacts
<1>5. At(w)' = At(w)
  BY <1>1 DEF At
<1>6. SessionOK(w)'
  <2>1. SessionOK(w)
    BY DEF IInv
  <2> QED BY <1>1, <1>2, <1>4, <2>1 DEF SessionOK
<1>7. TypeOK'
  <2>1. session' \in [Workers -> {"none", "consuming", "cancelled", "broken", "ended"}]
    BY <1>1 DEF IInv, TypeOK
  <2>2. faults' \in 0 .. MaxFaults
    BY <1>1, DeliveryAssumption DEF IInv, TypeOK
  <2>3. \A v \in Workers : unacked'[v] # << >> => session'[v] = "consuming" /\ Q(consumer'[v], v) \in queues
    BY <1>1, <1>2, <1>4 DEF IInv, TypeOK
  <2> QED BY <1>1, <1>4, <2>1, <2>2, <2>3 DEF IInv, TypeOK, main
<1> QED BY <1>3, <1>5, <1>6, <1>7, GivesBackInv DEF IInv

\* ... until it notices; and disconnect_node.
LEMMA EndsInv ==
  ASSUME IInv, NEW w \in Workers, NoticeLoss(w) \/ DisconnectNode(w)
  PROVE  IInv' /\ GivesBack(w) /\ At(w)' = {}
<1>1. /\ current[w] = NoBlock /\ consumer' = [consumer EXCEPT ![w] = NoBroker]
      /\ \E how \in {"none", "ended"} : session' = [session EXCEPT ![w] = how]
      /\ inbox' = [inbox EXCEPT ![w] = << >>]
      /\ UNCHANGED <<publisher, channel, wire, unsent, exchanges, queues, bindings, alive, current, warm,
                     computed, fate, meddling, switched>>
      /\ active' \subseteq active
  BY DEF NoticeLoss, DisconnectNode, ConsumerEnds, main, broker, history
<1>2. Requeue(w)
  <2>1. CASE NoticeLoss(w)
    <3>1. unacked[w] = << >>
      BY <2>1 DEF NoticeLoss, IInv, SessionOK
    <3> QED BY <2>1, <3>1, NothingToRequeue DEF NoticeLoss, broker, history
  <2> QED BY <2>1 DEF DisconnectNode
<1>3. faults' \in 0 .. MaxFaults
  <2>1. faults \in 0 .. MaxFaults
    BY DEF IInv, TypeOK
  <2>2. faults' = faults \/ (faults < MaxFaults /\ faults' = faults + 1)
    BY DEF NoticeLoss, DisconnectNode, history
  <2> QED BY <2>1, <2>2, DeliveryAssumption
<1>4. /\ consumer'[w] = NoBroker /\ session'[w] \in {"none", "ended"} /\ inbox'[w] = << >>
      /\ current'[w] = NoBlock
      /\ \A v \in Workers \ {w} : /\ consumer'[v] = consumer[v] /\ session'[v] = session[v]
                                  /\ inbox'[v] = inbox[v] /\ current'[v] = current[v]
  BY <1>1 DEF IInv, TypeOK
<1>5. GivesBack(w)
  BY <1>1, <1>2, <1>4 DEF GivesBack
<1>6. /\ unacked' \in [Workers -> Seq(Blocks)] /\ unacked'[w] = << >>
      /\ \A v \in Workers \ {w} : unacked'[v] = unacked[v]
      /\ ready' \in [Brokers \X Workers -> Seq(Blocks)]
      /\ \A q \in Brokers \X Workers : ready'[q] # << >> => q \in queues
      /\ returned' \in [Blocks -> Nat]
  BY <1>2, RequeueFacts
<1>7. At(w)' = {}
  BY <1>4, EmptySet DEF At
<1>8. SessionOK(w)'
  BY <1>4, <1>6 DEF SessionOK
<1>9. TypeOK'
  <2>1. /\ consumer' \in [Workers -> Brokers \union {NoBroker}]
        /\ session' \in [Workers -> {"none", "consuming", "cancelled", "broken", "ended"}]
        /\ inbox' \in [Workers -> Seq(Blocks)]
    BY <1>1, EmptySeq DEF IInv, TypeOK
  <2>2. \A v \in Workers : unacked'[v] # << >> => session'[v] = "consuming" /\ Q(consumer'[v], v) \in queues
    BY <1>4, <1>6 DEF IInv, TypeOK
  <2>3. /\ active' \subseteq Workers
        /\ UNCHANGED <<publisher, channel, wire, unsent, exchanges, queues, bindings, alive, current,
                       warm, computed, fate, meddling, switched>>
    BY <1>1 DEF IInv, TypeOK
  <2> QED BY <1>3, <1>6, <2>1, <2>2, <2>3 DEF IInv, TypeOK
<1> QED BY <1>5, <1>7, <1>8, <1>9, GivesBackInv DEF IInv

\* A queue is deleted: its blocks are gone, and its consumer is cancelled.
Purged(b, q) ==
  ToSet(ready[Q(b, q)]) \union
    IF consumer[q] = b /\ session[q] = "consuming" THEN ToSet(unacked[q]) ELSE {}

LEMMA DeleteFacts ==
  ASSUME IInv, NEW b \in Brokers, NEW q \in Workers, DeleteQueue(b, q)
  PROVE  /\ UNCHANGED <<active, publisher, channel, wire, unsent, alive, consumer, inbox, current, warm,
                        computed, faults, switched, exchanges, returned>>
         /\ queues' = queues \ {Q(b, q)} /\ bindings' = bindings \ {Q(b, q)}
         /\ ready' \in [Brokers \X Workers -> Seq(Blocks)]
         /\ \A p \in Brokers \X Workers : ready'[p] = IF p = Q(b, q) THEN << >> ELSE ready[p]
         /\ \A p \in Brokers \X Workers : ToSet(ready'[p]) = ToSet(ready[p]) \ Purged(b, q)
         /\ unacked' \in [Workers -> Seq(Blocks)]
         /\ \A w \in Workers : ToSet(unacked'[w]) = ToSet(unacked[w]) \ Purged(b, q)
         /\ \A w \in Workers : unacked'[w] = unacked[w] \/ unacked'[w] = << >>
         /\ \A w \in Workers : SessionOK(w)'
         /\ \A m \in Blocks : fate'[m] = IF m \in Purged(b, q) THEN "purged" ELSE fate[m]
         /\ fate' \in [Blocks -> {"none", "unsent", "dropped", "accepted", "purged"}]
<1> DEFINE here == consumer[q] = b /\ session[q] = "consuming"
<1>1. /\ UNCHANGED <<active, publisher, channel, wire, unsent, alive, consumer, inbox, current, warm,
                     computed, faults, switched, exchanges, returned>>
      /\ queues' = queues \ {Q(b, q)} /\ bindings' = bindings \ {Q(b, q)}
      /\ ready' = [ready EXCEPT ![Q(b, q)] = << >>]
      /\ session' = [session EXCEPT ![q] = IF here THEN "cancelled" ELSE @]
      /\ unacked' = [unacked EXCEPT ![q] = IF here THEN << >> ELSE @]
      /\ fate' = [m \in Blocks |-> IF m \in Purged(b, q) THEN "purged" ELSE fate[m]]
  BY DEF DeleteQueue, Meddle, Purged
<1>2. /\ << >> \in Seq(Blocks) /\ ToSet(<< >>) = {} /\ Q(b, q) \in Brokers \X Workers
      /\ ready \in [Brokers \X Workers -> Seq(Blocks)] /\ unacked \in [Workers -> Seq(Blocks)]
      /\ session \in [Workers -> {"none", "consuming", "cancelled", "broken", "ended"}]
  BY EmptySet, EmptySeq DEF IInv, TypeOK, Q
<1>3. /\ ready' \in [Brokers \X Workers -> Seq(Blocks)]
      /\ \A p \in Brokers \X Workers : ready'[p] = IF p = Q(b, q) THEN << >> ELSE ready[p]
  BY <1>1, <1>2
<1>4. /\ unacked' \in [Workers -> Seq(Blocks)]
      /\ \A w \in Workers : unacked'[w] = IF w = q /\ here THEN << >> ELSE unacked[w]
  BY <1>1, <1>2
<1>5. \A w \in Workers : session'[w] = IF w = q /\ here THEN "cancelled" ELSE session[w]
  BY <1>1, <1>2
<1>6. \A p \in Brokers \X Workers : ToSet(ready'[p]) = ToSet(ready[p]) \ Purged(b, q)
  <2>1. \A p \in Brokers \X Workers : p # Q(b, q) => ToSet(ready[p]) \intersect ToSet(ready[Q(b, q)]) = {}
    BY <1>2 DEF IInv, Places
  <2>2. \A p \in Brokers \X Workers : ToSet(ready[p]) \intersect ToSet(unacked[q]) = {}
    BY DEF IInv, Places
  <2>3. \A p \in Brokers \X Workers : p # Q(b, q) => ToSet(ready[p]) \intersect Purged(b, q) = {}
    BY <2>1, <2>2 DEF Purged
  <2>4. ToSet(ready[Q(b, q)]) \subseteq Purged(b, q)
    BY DEF Purged
  <2> QED BY <1>2, <1>3, <2>3, <2>4
<1>7. \A w \in Workers : ToSet(unacked'[w]) = ToSet(unacked[w]) \ Purged(b, q)
  <2>1. \A w \in Workers : ToSet(unacked[w]) \intersect ToSet(ready[Q(b, q)]) = {}
    BY <1>2 DEF IInv, Places
  <2>2. \A w \in Workers : w # q => ToSet(unacked[w]) \intersect ToSet(unacked[q]) = {}
    <3>1. \A w \in Workers : ToSet(unacked[w]) \subseteq At(w)
      BY SessionSets
    <3> QED BY <3>1 DEF IInv, Places
  <2>3. \A w \in Workers : w # q \/ ~ here => ToSet(unacked[w]) \intersect Purged(b, q) = {}
    BY <2>1, <2>2 DEF Purged
  <2>4. here => ToSet(unacked[q]) \subseteq Purged(b, q)
    BY DEF Purged
  <2> HIDE DEF here
  <2> QED BY <1>2, <1>4, <2>3, <2>4
<1>8. \A w \in Workers : SessionOK(w)'
  <2> SUFFICES ASSUME NEW w \in Workers PROVE SessionOK(w)'
    OBVIOUS
  <2>1. SessionOK(w)
    BY DEF IInv
  <2>2. CASE w = q /\ here
    <3>1. session'[w] = "cancelled" /\ unacked'[w] = << >>
      BY <1>4, <1>5, <2>2
    <3> QED BY <1>1, <2>1, <2>2, <3>1 DEF SessionOK
  <2>3. CASE ~ (w = q /\ here)
    <3>1. session'[w] = session[w] /\ unacked'[w] = unacked[w]
      BY <1>4, <1>5, <2>3
    <3>2. session[w] = "consuming" => Q(consumer[w], w) # Q(b, q)
      BY <2>3 DEF Q
    <3> HIDE DEF here
    <3> QED BY <1>1, <2>1, <3>1, <3>2 DEF SessionOK, Q
  <2> QED BY <2>2, <2>3
<1>9. /\ \A m \in Blocks : fate'[m] = IF m \in Purged(b, q) THEN "purged" ELSE fate[m]
      /\ fate' \in [Blocks -> {"none", "unsent", "dropped", "accepted", "purged"}]
  BY <1>1 DEF IInv, TypeOK
<1>10. \A w \in Workers : unacked'[w] = unacked[w] \/ unacked'[w] = << >>
  BY <1>4
<1> HIDE DEF here
<1> QED BY <1>1, <1>3, <1>4, <1>6, <1>7, <1>8, <1>9, <1>10

LEMMA DeleteInv ==
  ASSUME IInv, NEW b \in Brokers, NEW q \in Workers, DeleteQueue(b, q)
  PROVE  IInv' /\ \A v : At(v)' = At(v)
<1>1. /\ UNCHANGED <<active, publisher, channel, wire, unsent, alive, consumer, inbox, current, warm,
                     computed, faults, switched, exchanges, returned>>
      /\ queues' = queues \ {Q(b, q)} /\ bindings' = bindings \ {Q(b, q)}
      /\ ready' \in [Brokers \X Workers -> Seq(Blocks)]
      /\ \A p \in Brokers \X Workers : ready'[p] = IF p = Q(b, q) THEN << >> ELSE ready[p]
      /\ unacked' \in [Workers -> Seq(Blocks)]
      /\ \A w \in Workers : unacked'[w] = unacked[w] \/ unacked'[w] = << >>
      /\ \A w \in Workers : SessionOK(w)'
      /\ fate' \in [Blocks -> {"none", "unsent", "dropped", "accepted", "purged"}]
  BY DeleteFacts
<1>2. /\ \A p \in Brokers \X Workers : ToSet(ready'[p]) \subseteq ToSet(ready[p])
      /\ \A w \in Workers : ToSet(unacked'[w]) \subseteq ToSet(unacked[w])
  <2>1. \A p \in Brokers \X Workers : ToSet(ready'[p]) = ToSet(ready[p]) \ Purged(b, q)
    BY DeleteFacts
  <2>2. \A w \in Workers : ToSet(unacked'[w]) = ToSet(unacked[w]) \ Purged(b, q)
    BY DeleteFacts
  <2> QED BY <2>1, <2>2
<1>3. \A v : At(v)' = At(v)
  BY <1>1 DEF At
<1>4. TypeOK'
  <2>1. session' \in [Workers -> {"none", "consuming", "cancelled", "broken", "ended"}]
    BY DEF DeleteQueue, IInv, TypeOK
  <2>2. meddling' \in 0 .. MaxMeddling
    BY DeliveryAssumption DEF DeleteQueue, Meddle, IInv, TypeOK
  <2>3. \A p \in DOMAIN ready' : ready'[p] # << >> => p \in queues'
    BY <1>1 DEF IInv, TypeOK
  <2>4. \A w \in Workers : unacked'[w] # << >> => session'[w] = "consuming" /\ Q(consumer'[w], w) \in queues'
    BY <1>1 DEF SessionOK
  <2>5. bindings' \subseteq queues' /\ queues' \subseteq Brokers \X Workers
    BY <1>1 DEF IInv, TypeOK
  <2> QED BY <1>1, <2>1, <2>2, <2>3, <2>4, <2>5 DEF IInv, TypeOK
<1>5. NoDuplicates'
  BY <1>1, EmptySet DEF IInv, NoDuplicates
<1>6. Places'
  <2>1. OnWire' = OnWire /\ \A x : (Queued(x)' => Queued(x)) /\ Loaded(x)' = Loaded(x)
    BY <1>1, <1>2, <1>3 DEF OnWire, Queued, Loaded
  <2>2. \A v \in Workers, p \in Brokers \X Workers :
          /\ ToSet(unacked'[v]) \intersect ToSet(ready'[p]) = {}
          /\ At(v)' \intersect ToSet(ready'[p]) # {} => p[2] = v
    BY <1>2, <1>3 DEF IInv, Places
  <2>3. \A p, r \in Brokers \X Workers : p # r => ToSet(ready'[p]) \intersect ToSet(ready'[r]) = {}
    BY <1>2 DEF IInv, Places
  <2> QED BY <1>1, <1>3, <2>1, <2>2, <2>3 DEF IInv, Places
<1> QED BY <1>1, <1>3, <1>4, <1>5, <1>6 DEF IInv

----------------------------------------------------------------------------
(* All steps.                                                               *)

Ends(w) == WorkerDies(w) \/ BadBlockKills(w) \/ LoseConsumer(w) \/ NoticeLoss(w) \/ DisconnectNode(w)

\* The steps by what they do with blocks.
LEMMA StepCases ==
  ASSUME [Next]_vars
  PROVE  \/ UNCHANGED vars \/ Settles
         \/ \E m \in Blocks, w \in Workers : PublishBlock(m, w)
         \/ LosePublisher \/ RestartMain \/ Route
         \/ \E w \in Workers : Deliver(w) \/ Receive(w) \/ ComputeAndAck(w) \/ Ends(w)
         \/ \E b \in Brokers, q \in Workers : DeleteQueue(b, q)
BY DEF Next, Rest, Works, Settles, Ends

LEMMA IInvNext == IInv /\ [Next]_vars => IInv'
<1> SUFFICES ASSUME IInv, [Next]_vars PROVE IInv'
  OBVIOUS
<1>1. CASE UNCHANGED vars
  <2>1. UNCHANGED <<unsent, wire, ready, inbox, current, unacked>>
    BY <1>1 DEF vars, main, broker, workers
  <2>2. NoDuplicates' /\ Places'
    BY <2>1, SamePlaces DEF IInv
  <2>3. TypeOK' /\ \A w \in Workers : SessionOK(w)'
    BY <1>1 DEF IInv, TypeOK, SessionOK, vars, main, broker, workers, history
  <2> QED BY <2>2, <2>3 DEF IInv
<1>2. ASSUME NEW w \in Workers, Ends(w) PROVE IInv'
  BY <1>2, DiesInv, LoseConsumerInv, EndsInv DEF Ends
<1> QED BY <1>1, <1>2, StepCases, SettlesInv, PublishInv, PublisherEndsInv, RouteInv, DeliverInv,
           ReceiveInv, ComputeInv, DeleteInv

THEOREM InductiveInvariant == Spec => []IInv
BY InitInv, IInvNext, PTL DEF Spec

\* Every variable keeps its type, a queue that holds blocks or feeds a session exists, and
\* nothing is on the wire of a publisher that has no connection.
THEOREM TypeCorrect == Spec => []TypeOK
<1>1. IInv => TypeOK
  BY DEF IInv
<1> QED BY <1>1, InductiveInvariant, PTL

----------------------------------------------------------------------------
(* No spurious repeat.                                                      *)

\* The end of a session loads nobody, and what goes out again is counted as returned.
LEMMA EndsMoves ==
  ASSUME IInv, NEW w \in Workers, Ends(w)
  PROVE  /\ GivesBack(w) /\ computed' = computed
         /\ \A x : (Out(x)' => Out(x) \/ x \in ToSet(unacked[w])) /\ (Loaded(x)' => Loaded(x))
         /\ \A x : Kept(x)' <=> Kept(x)
<1>1. GivesBack(w) /\ computed' = computed
  BY DiesInv, LoseConsumerInv, EndsInv DEF Ends, WorkerDies, BadBlockKills, LoseConsumer, NoticeLoss,
     DisconnectNode, history
<1>2. /\ \A v \in Workers \ {w} : At(v)' = At(v)
      /\ At(w)' = At(w) \/ At(w)' = {}
  BY <1>1, GivesBackInv
<1>3. /\ unacked'[w] = << >> /\ \A v \in Workers \ {w} : unacked'[v] = unacked[v]
      /\ \A q \in Brokers \X Workers :
           ToSet(ready'[q]) = ToSet(ready[q]) \union IF q = Q(consumer[w], w) THEN ToSet(unacked[w]) ELSE {}
      /\ unacked[w] # << >> => Q(consumer[w], w) \in Brokers \X Workers
  BY <1>1, RequeueFacts DEF GivesBack
<1>4. ToSet(<< >>) = {}
  BY EmptySet
<1>5. \A x : Queued(x)' <=> Queued(x) \/ x \in ToSet(unacked[w])
  <2>1. \A x : Queued(x)' => Queued(x) \/ x \in ToSet(unacked[w])
    BY <1>3 DEF Queued
  <2>2. \A x : Queued(x) => Queued(x)'
    BY <1>3 DEF Queued
  <2>3. \A x \in ToSet(unacked[w]) : Queued(x)'
    BY <1>3, <1>4 DEF Queued
  <2> QED BY <2>1, <2>2, <2>3
<1>6. \A x : Loaded(x)' => Loaded(x)
  BY <1>2 DEF Loaded
<1>7. \A x : Out(x)' => Out(x) \/ x \in ToSet(unacked[w])
  BY <1>1, <1>5 DEF Out, OnWire, GivesBack
<1>8. \A x : Kept(x)' <=> Kept(x)
  BY <1>3, <1>4, <1>5 DEF Kept
<1> QED BY <1>1, <1>6, <1>7, <1>8

\* Nothing new is out or loaded in the other steps, but for the delivered block.
LEMMA QuietMoves ==
  ASSUME IInv,
         \/ UNCHANGED vars \/ Settles
         \/ \E m \in Blocks, w \in Workers : PublishBlock(m, w)
         \/ LosePublisher \/ RestartMain \/ Route
         \/ \E w \in Workers : Receive(w)
         \/ \E b \in Brokers, q \in Workers : DeleteQueue(b, q)
  PROVE  /\ computed' = computed /\ returned' = returned
         /\ \A x : (Out(x)' => Out(x)) /\ (Loaded(x)' => Loaded(x))
<1>1. CASE UNCHANGED vars \/ Settles
  <2>1. UNCHANGED <<unsent, wire, ready, inbox, current, unacked, computed, returned>>
    BY <1>1, SettlesStays DEF vars, main, broker, workers, history
  <2> QED BY <2>1, SamePlaces
<1>2. ASSUME NEW m \in Blocks, NEW w \in Workers, PublishBlock(m, w)
      PROVE  /\ computed' = computed /\ returned' = returned
             /\ \A x : (Out(x)' => Out(x)) /\ (Loaded(x)' => Loaded(x))
  BY <1>2, PublishInv DEF PublishBlock
<1>3. CASE LosePublisher \/ RestartMain
  BY <1>3, PublisherEndsInv DEF LosePublisher, RestartMain
<1>4. CASE Route
  BY <1>4, RouteInv DEF Route
<1>5. ASSUME NEW w \in Workers, Receive(w)
      PROVE  /\ computed' = computed /\ returned' = returned
             /\ \A x : (Out(x)' => Out(x)) /\ (Loaded(x)' => Loaded(x))
  <2>1. UNCHANGED <<main, broker, history>> /\ \A v \in Workers : At(v)' = At(v)
    BY <1>5, ReceiveInv DEF Receive
  <2> QED BY <2>1 DEF Out, OnWire, Queued, Loaded, main, broker, history
<1>6. ASSUME NEW b \in Brokers, NEW q \in Workers, DeleteQueue(b, q)
      PROVE  /\ computed' = computed /\ returned' = returned
             /\ \A x : (Out(x)' => Out(x)) /\ (Loaded(x)' => Loaded(x))
  <2>1. UNCHANGED <<wire, unsent, computed, returned>> /\ \A v : At(v)' = At(v)
    BY <1>6, DeleteFacts, DeleteInv
  <2>2. \A p \in Brokers \X Workers : ToSet(ready'[p]) = ToSet(ready[p]) \ Purged(b, q)
    BY <1>6, DeleteFacts
  <2> QED BY <2>1, <2>2 DEF Out, OnWire, Queued, Loaded
<1> QED BY <1>1, <1>2, <1>3, <1>4, <1>5, <1>6

LEMMA CountedNext ==
  ASSUME IInv, Counted, [Next]_vars
  PROVE  Counted'
<1>1. computed \in [Blocks -> Nat] /\ returned \in [Blocks -> Nat]
  BY DEF IInv, TypeOK
<1>2. ASSUME computed' = computed, returned' = returned,
             \A x : (Out(x)' => Out(x)) /\ (Loaded(x)' => Loaded(x))
      PROVE  Counted'
  BY <1>1, <1>2 DEF Counted, One
<1>3. ASSUME NEW w \in Workers, Deliver(w)
      PROVE  Counted'
  <2>1. computed' = computed /\ returned' = returned
    BY <1>3 DEF Deliver, history
  <2>2. PICK m \in Blocks :
          /\ Out(m) /\ ~ Out(m)'
          /\ \A x : x # m => (Out(x)' => Out(x)) /\ (Loaded(x)' => Loaded(x))
    BY <1>3, DeliverInv
  <2> QED BY <1>1, <2>1, <2>2 DEF Counted, One
<1>4. ASSUME NEW w \in Workers, ComputeAndAck(w)
      PROVE  Counted'
  <2>1. PICK m \in Blocks : m = current[w]
    BY <1>4 DEF ComputeAndAck, IInv, TypeOK
  <2>2. /\ At(w)' = At(w) \ {m} /\ m \in At(w)
        /\ \A v \in Workers \ {w} : At(v)' = At(v)
    BY <1>4, <2>1, ComputeInv
  <2>3. Loaded(m) /\ ~ Loaded(m)' /\ \A x : Loaded(x)' => Loaded(x)
    BY <2>2 DEF Loaded, IInv, Places
  <2>4. \A x : Out(x)' = Out(x)
    BY <1>4 DEF ComputeAndAck, Out, OnWire, Queued, main, broker
  <2>5. returned' = returned /\ computed' = [computed EXCEPT ![m] = @ + 1]
    BY <1>4, <2>1 DEF ComputeAndAck
  <2> QED BY <1>1, <2>3, <2>4, <2>5 DEF Counted, One
<1>5. ASSUME NEW w \in Workers, Ends(w)
      PROVE  Counted'
  <2>1. computed' = computed /\ \A m \in Blocks : returned'[m] = returned[m] + One(m \in ToSet(unacked[w]))
    BY <1>5, EndsMoves, RequeueFacts DEF GivesBack
  <2>2. \A x : (Out(x)' => Out(x) \/ x \in ToSet(unacked[w])) /\ (Loaded(x)' => Loaded(x))
    BY <1>5, EndsMoves
  <2> QED BY <1>1, <2>1, <2>2 DEF Counted, One
<1> QED BY <1>2, <1>3, <1>4, <1>5, StepCases, QuietMoves

LEMMA CountedInit == Init => Counted
BY EmptySet DEF Init, Counted, One, Loaded, At

\* The broker and the event loop make no copies: a block is computed once, and once more for
\* each time a session that ended gave it back.
THEOREM NoRepeat == Spec => []NoSpuriousRepeat
<1>1. TypeOK /\ Counted => NoSpuriousRepeat
  <2> SUFFICES ASSUME TypeOK, Counted, NEW m \in Blocks PROVE computed[m] <= 1 + returned[m]
    BY DEF NoSpuriousRepeat
  <2>1. One(Out(m)) \in {0, 1} /\ One(Loaded(m)) \in {0, 1}
    BY DEF One
  <2>2. computed[m] \in Nat /\ returned[m] \in Nat
    BY DEF TypeOK
  <2>3. computed[m] + One(Out(m)) + One(Loaded(m)) <= 1 + returned[m]
    BY DEF Counted
  <2> QED BY <2>1, <2>2, <2>3
<1>2. IInv => TypeOK
  BY DEF IInv
<1> QED BY <1>1, <1>2, InductiveInvariant, CountedInit, CountedNext, PTL DEF Spec

----------------------------------------------------------------------------
(* A block of an undisturbed pool reaches its node.                         *)

LEMMA ConnectedInit == Init => Connected
BY DEF Init, Connected

\* What disturbs the pool, and is counted for ever: who is undisturbed has always been so.
Disturbs ==
  \/ LosePublisher \/ RestartMain \/ Rest
  \/ \E w \in Workers : WorkerDies(w) \/ BadBlockKills(w) \/ LoseConsumer(w) \/ DisconnectNode(w)

LEMMA DisturbanceStays ==
  ASSUME IInv, [Next]_vars, Undisturbed'
  PROVE  Undisturbed /\ ~ Disturbs
<1>1. faults \in Nat /\ meddling \in Nat /\ switched \in BOOLEAN /\ MaxFaults \in Nat \ {0}
  BY DeliveryAssumption DEF IInv, TypeOK
<1> USE <1>1 DEF Undisturbed
<1>2. ASSUME UNCHANGED vars PROVE Undisturbed
  BY <1>2 DEF vars, history
<1>3. ASSUME NEW w \in Workers,
             WorkerDies(w) \/ BadBlockKills(w) \/ LoseConsumer(w) \/ DisconnectNode(w)
      PROVE  FALSE
  BY <1>3 DEF WorkerDies, BadBlockKills, LoseConsumer, DisconnectNode
<1>4. ASSUME LosePublisher \/ RestartMain PROVE FALSE
  BY <1>4 DEF LosePublisher, RestartMain, PublisherEnds
<1>5. ASSUME Rest PROVE FALSE
  BY <1>5 DEF Rest, CreateExchange, DeleteExchange, CreateQueue, DeleteQueue, BindQueueToExchange,
              UnbindQueueFromExchange, Meddle
<1>6. ASSUME \/ \E b \in Brokers : ConnectPublisher(b)
             \/ DisconnectPublisher \/ Route
             \/ \E w \in Workers : ConnectNode(w) \/ StartWorker(w) \/ Works(w)
                                   \/ \E m \in Blocks : PublishBlock(m, w)
      PROVE  Undisturbed
  BY <1>6 DEF ConnectPublisher, DisconnectPublisher, Route, ConnectNode, StartWorker, Works, Deliver,
              Receive, ComputeAndAck, NoticeLoss, PublishBlock, history
<1> QED BY <1>2, <1>3, <1>4, <1>5, <1>6 DEF Next, Disturbs

LEMMA ConnectedNext ==
  ASSUME IInv, Undisturbed => Connected, [Next]_vars, Undisturbed'
  PROVE  Connected'
<1>1. Undisturbed /\ Connected
  BY DisturbanceStays
<1> USE DEF Connected
<1>2. CASE UNCHANGED vars
  BY <1>1, <1>2 DEF vars, main, broker, workers, history
<1>3. ASSUME NEW b \in Brokers, ConnectPublisher(b) PROVE Connected'
  <2>1. \A w \in active : consumer[w] = b
    BY <1>3 DEF ConnectPublisher, Undisturbed, IInv, TypeOK
  <2>2. wire = << >>
    BY <1>3 DEF ConnectPublisher, IInv, TypeOK
  <2> QED BY <1>1, <1>3, <2>1, <2>2 DEF ConnectPublisher, workers
<1>4. CASE DisconnectPublisher
  BY <1>1, <1>4 DEF DisconnectPublisher, broker, workers, history
<1>5. ASSUME NEW w \in Workers, ConnectNode(w) PROVE Connected'
  <2>1. /\ active' = active \union {w} /\ consumer'[w] = publisher /\ session'[w] = "consuming"
        /\ \A v \in Workers \ {w} : consumer'[v] = consumer[v] /\ session'[v] = session[v]
    BY <1>5 DEF ConnectNode, IInv, TypeOK
  <2>2. queues' = queues \union {Q(publisher, w)} /\ queues' \subseteq bindings'
    BY <1>1, <1>5 DEF ConnectNode, NewBindings
  <2>3. UNCHANGED <<publisher, channel, wire, exchanges, ready, fate>> /\ w \notin active
    BY <1>5 DEF ConnectNode, history
  <2>4. \A v \in active' : session'[v] = "consuming" /\ (publisher' # NoBroker => consumer'[v] = publisher')
    BY <1>1, <2>1, <2>3 DEF IInv, TypeOK
  <2>5. \A q \in Brokers \X Workers : ready'[q] # << >> => q[2] \in active' /\ consumer'[q[2]] = q[1]
    BY <1>1, <2>1, <2>3
  <2>6. \A i \in DOMAIN wire' : wire'[i][2] \in active'
    BY <1>1, <2>1, <2>3
  <2> QED BY <1>1, <2>2, <2>3, <2>4, <2>5, <2>6
<1>6. ASSUME NEW w \in Workers, StartWorker(w) PROVE Connected'
  BY <1>1, <1>6 DEF StartWorker, main, broker, history
<1>7. ASSUME NEW m \in Blocks, NEW w \in Workers, PublishBlock(m, w) PROVE Connected'
  <2>1. \A i \in DOMAIN wire' : wire'[i][2] = w \/ \E j \in DOMAIN wire : wire'[i][2] = wire[j][2]
    <3>1. CASE publisher # NoBroker
      BY <1>7, <3>1, WireGrows DEF PublishBlock, IInv
    <3> QED BY <1>7, <3>1 DEF PublishBlock
  <2>2. \A i \in DOMAIN wire' : wire'[i][2] \in active
    BY <1>1, <1>7, <2>1 DEF PublishBlock
  <2>3. \A x \in Blocks : fate'[x] # "dropped"
    BY <1>1, <1>7 DEF PublishBlock, IInv, TypeOK
  <2> QED BY <1>1, <1>7, <2>2, <2>3 DEF PublishBlock, broker, workers
<1>8. CASE Route
  <2>1. /\ Head(wire) \in Blocks \X Workers /\ \E j \in DOMAIN wire : Head(wire) = wire[j]
        /\ \A i \in DOMAIN wire' : \E j \in DOMAIN wire : wire'[i] = wire[j]
    BY <1>8, WireShrinks DEF Route, IInv
  <2> DEFINE q == Q(publisher, Head(wire)[2])
  <2>2. /\ publisher \in exchanges /\ channel' = "open" /\ Head(wire)[2] \in active
        /\ q \in Brokers \X Workers /\ consumer[Head(wire)[2]] = publisher
    <3>1. publisher # NoBroker /\ publisher \in Brokers
      BY <1>8 DEF Route, IInv, TypeOK
    <3> QED BY <1>1, <1>8, <2>1, <3>1 DEF Route, Q
  <2>3. q \in bindings
    <3>1. SessionOK(Head(wire)[2]) /\ session[Head(wire)[2]] = "consuming"
      BY <1>1, <2>1, <2>2 DEF IInv
    <3> QED BY <1>1, <2>2, <3>1 DEF SessionOK
  <2>4. /\ ready' = [ready EXCEPT ![q] = Append(@, Head(wire)[1])]
        /\ fate' = [fate EXCEPT ![Head(wire)[1]] = "accepted"]
    BY <1>8, <2>2, <2>3 DEF Route
  <2>5. \A p \in Brokers \X Workers : ready'[p] # << >> => p[2] \in active /\ consumer[p[2]] = p[1]
    <3>1. q[1] = publisher /\ q[2] = Head(wire)[2]
      BY DEF Q
    <3>2. \A p \in Brokers \X Workers : p = q \/ ready'[p] = ready[p]
      BY <2>4 DEF IInv, TypeOK
    <3> HIDE DEF q
    <3> QED BY <1>1, <2>2, <3>1, <3>2
  <2>6. \A x \in Blocks : fate'[x] # "dropped"
    BY <1>1, <2>4 DEF IInv, TypeOK
  <2>7. \A i \in DOMAIN wire' : wire'[i][2] \in active
    BY <1>1, <2>1
  <2>8. UNCHANGED <<active, publisher, exchanges, queues, bindings, consumer, session>>
    BY <1>8 DEF Route, workers
  <2> QED BY <1>1, <2>2, <2>5, <2>6, <2>7, <2>8
<1>9. ASSUME NEW w \in Workers, Deliver(w) PROVE Connected'
  <2>1. \A p \in Brokers \X Workers : ready'[p] # << >> => ready[p] # << >>
    BY <1>9 DEF Deliver, IInv, TypeOK
  <2> QED BY <1>1, <1>9, <2>1 DEF Deliver, main, history
<1>10. ASSUME NEW w \in Workers, Receive(w) \/ ComputeAndAck(w) PROVE Connected'
  BY <1>1, <1>10 DEF Receive, ComputeAndAck, main, broker, history
<1>11. ASSUME NEW w \in Workers, NoticeLoss(w) PROVE Connected'
  <2>1. session[w] = "broken" /\ w \notin active
    BY <1>1, <1>11 DEF NoticeLoss
  <2>2. /\ \A v \in Workers \ {w} : consumer'[v] = consumer[v] /\ session'[v] = session[v]
        /\ UNCHANGED <<main, broker, history>>
    BY <1>11 DEF NoticeLoss, ConsumerEnds, IInv, TypeOK
  <2>3. active \subseteq Workers
    BY DEF IInv, TypeOK
  <2> QED BY <1>1, <2>1, <2>2, <2>3 DEF main, broker, history
<1> QED BY <1>2, <1>3, <1>4, <1>5, <1>6, <1>7, <1>8, <1>9, <1>10, <1>11, DisturbanceStays DEF Next, Works, Disturbs

\* While nothing fails, nobody interferes and the publisher keeps its broker, every block
\* goes to a bound queue of that broker, which its node reads.
THEOREM ReachTheirNode == Spec => []BlocksReachTheirNode
<1>1. IInv /\ UndisturbedOK /\ [Next]_vars => UndisturbedOK'
  BY ConnectedNext DEF UndisturbedOK
<1>2. Init => UndisturbedOK
  BY ConnectedInit DEF UndisturbedOK
<1>3. IInv /\ UndisturbedOK => BlocksReachTheirNode
  BY DEF IInv, TypeOK, UndisturbedOK, Connected, BlocksReachTheirNode
<1> QED BY <1>1, <1>2, <1>3, InductiveInvariant, PTL DEF Spec

----------------------------------------------------------------------------
(* The promise of AtLeastOnce.                                              *)

Accepted == {m \in Held : computed[m] = 0}
Computed == {m \in Blocks : computed[m] > 0}
Gone == {m \in Blocks : fate[m] \in {"unsent", "dropped", "purged"} /\ computed[m] = 0}

Fine == Abstract!Accept \/ Abstract!Lose \/ Abstract!Compute \/ Abstract!Purge

LEMMA HeldKeptNext ==
  ASSUME TypeOK'
  PROVE  Held' = {m \in Blocks : Kept(m)'}
<1>1. /\ \A q \in Brokers \X Workers, m \in Blocks : Contains(ready'[q], m) <=> m \in ToSet(ready'[q])
      /\ \A w \in Workers, m \in Blocks : Contains(unacked'[w], m) <=> m \in ToSet(unacked'[w])
      /\ DOMAIN ready' = Brokers \X Workers
  BY ContainsSet DEF TypeOK
<1> QED BY <1>1 DEF Held, Kept, Queued

\* Steps that neither lose nor compute a block, nor give one to a queue.
LEMMA SameFate ==
  ASSUME TypeOK, TypeOK', FateOK,
         computed' = computed, fate' = fate,
         unsent' \union OnWire' \subseteq unsent \union OnWire,
         \A x : (Kept(x)' <=> Kept(x)) /\ (Loaded(x)' => Loaded(x) \/ Kept(x))
  PROVE  FateOK' /\ UNCHANGED Abstract!avars
<1>1. FateOK'
  BY DEF FateOK
<1>2. Held' = Held
  BY HeldKept, HeldKeptNext
<1> QED BY <1>1, <1>2 DEF Abstract!avars

LEMMA QuietFate ==
  ASSUME IInv, IInv', FateOK,
         \/ UNCHANGED vars \/ Settles
         \/ \E w \in Workers : Deliver(w) \/ Receive(w) \/ Ends(w)
  PROVE  FateOK' /\ UNCHANGED Abstract!avars
<1>1. TypeOK /\ TypeOK'
  BY DEF IInv
<1>2. CASE UNCHANGED vars \/ Settles
  <2>1. UNCHANGED <<unsent, wire, ready, inbox, current, unacked, computed, fate>>
    BY <1>2, SettlesStays DEF vars, main, broker, workers, history
  <2> QED BY <1>1, <2>1, SamePlaces, SameFate
<1>3. ASSUME NEW w \in Workers, Deliver(w) PROVE FateOK' /\ UNCHANGED Abstract!avars
  <2>1. UNCHANGED <<unsent, computed, fate>> /\ OnWire' = OnWire
    BY <1>3, DeliverInv DEF Deliver, main, history
  <2>2. \A x : (Kept(x)' <=> Kept(x)) /\ (Loaded(x)' => Loaded(x) \/ Kept(x))
    BY <1>3, DeliverInv
  <2> QED BY <1>1, <2>1, <2>2, SameFate
<1>4. ASSUME NEW w \in Workers, Receive(w) PROVE FateOK' /\ UNCHANGED Abstract!avars
  <2>1. UNCHANGED <<main, broker, unacked, history>> /\ \A v \in Workers : At(v)' = At(v)
    BY <1>4, ReceiveInv DEF Receive
  <2>2. UNCHANGED <<unsent, computed, fate>> /\ OnWire' = OnWire
    BY <2>1 DEF OnWire, main, history
  <2>3. \A x : (Kept(x)' <=> Kept(x)) /\ (Loaded(x)' => Loaded(x))
    BY <2>1 DEF Kept, Queued, Loaded, broker
  <2> QED BY <1>1, <2>2, <2>3, SameFate
<1>5. ASSUME NEW w \in Workers, Ends(w) PROVE FateOK' /\ UNCHANGED Abstract!avars
  <2>1. fate' = fate /\ computed' = computed /\ GivesBack(w)
    BY <1>5, EndsMoves DEF Ends, WorkerDies, BadBlockKills, LoseConsumer, NoticeLoss, DisconnectNode, history
  <2>2. unsent' = unsent /\ OnWire' = OnWire
    BY <2>1 DEF GivesBack, OnWire
  <2>3. \A x : (Kept(x)' <=> Kept(x)) /\ (Loaded(x)' => Loaded(x))
    BY <1>5, EndsMoves
  <2> QED BY <1>1, <2>1, <2>2, <2>3, SameFate
<1> QED BY <1>2, <1>3, <1>4, <1>5

\* A block that is not accepted yet may be lost: M is what the step drops.
LEMMA DropsLose ==
  ASSUME TypeOK, TypeOK', FateOK, NEW M \in SUBSET Blocks,
         M \subseteq unsent \union OnWire,
         unsent' \union OnWire' \subseteq (unsent \union OnWire) \ M,
         computed' = computed,
         \A m \in Blocks : IF m \in M THEN fate'[m] \in {"unsent", "dropped"} ELSE fate'[m] = fate[m],
         \A x : (Kept(x)' <=> Kept(x)) /\ (Loaded(x)' => Loaded(x)),
         \A x \in unsent \union OnWire : ~ Kept(x) /\ ~ Loaded(x)
  PROVE  FateOK' /\ Abstract!Lose
<1>1. FateOK'
  <2>1. unsent \union OnWire \subseteq Blocks
    BY DEF TypeOK, OnWire
  <2>2. \A m \in unsent' \union OnWire' : fate'[m] = "none" /\ computed'[m] = 0
    BY <2>1 DEF FateOK
  <2>3. \A m \in Blocks : Kept(m) \/ Loaded(m) => fate'[m] = fate[m]
    OBVIOUS
  <2>4. \A m \in Blocks : Kept(m)' => fate'[m] = "accepted"
    BY <2>3 DEF FateOK
  <2>5. \A m \in Blocks : Loaded(m)' /\ computed'[m] = 0 => Kept(m)' \/ fate'[m] = "purged"
    BY <2>3 DEF FateOK
  <2> QED BY <2>2, <2>4, <2>5 DEF FateOK
<1>2. Held = {m \in Blocks : Kept(m)} /\ Held' = Held
  BY HeldKept, HeldKeptNext
<1>3. \A m \in M : fate[m] = "none" /\ computed[m] = 0 /\ m \notin Held
  BY <1>2 DEF FateOK
<1>4. Accepted' = Accepted /\ Computed' = Computed
  BY <1>2 DEF Accepted, Computed
<1>5. Gone' = Gone \union M
  BY <1>3 DEF Gone
<1>6. M \in SUBSET (Blocks \ (Accepted \union Computed \union Gone))
  BY <1>3 DEF Accepted, Computed, Gone
<1>7. Abstract!Lose <=> \E N \in SUBSET (Blocks \ (Accepted \union Computed \union Gone)) :
                          Gone' = Gone \union N /\ Accepted' = Accepted /\ Computed' = Computed
  BY DEF Abstract!Lose, Abstract!Fresh, Accepted, Computed, Gone
<1> QED BY <1>1, <1>4, <1>5, <1>6, <1>7

\* The publisher loses blocks: all on the wire, or one it never sent.
LEMMA PublisherFate ==
  ASSUME IInv, IInv', FateOK,
         LosePublisher \/ RestartMain \/ \E m \in Blocks, w \in Workers : PublishBlock(m, w)
  PROVE  FateOK' /\ (Abstract!Lose \/ UNCHANGED Abstract!avars)
<1>1. TypeOK /\ TypeOK' /\ \A x \in unsent \union OnWire : ~ Kept(x) /\ ~ Loaded(x)
  <2>1. \A w \in Workers : ToSet(unacked[w]) \subseteq At(w)
    BY SessionSets
  <2> QED BY <2>1 DEF IInv, Places, Kept, Loaded
<1>2. CASE LosePublisher \/ RestartMain
  <2>1. /\ OnWire' = {} /\ unsent' = unsent /\ computed' = computed
        /\ \A x : Kept(x)' = Kept(x) /\ Loaded(x)' = Loaded(x)
    BY <1>2, PublisherEndsInv DEF LosePublisher, RestartMain
  <2>2. fate' = [m \in Blocks |-> IF \E i \in DOMAIN wire : wire[i][1] = m THEN "dropped" ELSE fate[m]]
    BY <1>2 DEF LosePublisher, RestartMain, PublisherEnds
  <2>3. /\ OnWire \in SUBSET Blocks
        /\ \A m \in Blocks : IF m \in OnWire THEN fate'[m] \in {"unsent", "dropped"} ELSE fate'[m] = fate[m]
    BY <2>2 DEF OnWire
  <2>4. unsent' \union OnWire' \subseteq (unsent \union OnWire) \ OnWire
    BY <2>1 DEF IInv, Places
  <2>5. \A x : (Kept(x)' <=> Kept(x)) /\ (Loaded(x)' => Loaded(x))
    BY <2>1
  <2> QED BY <1>1, <2>1, <2>3, <2>4, <2>5, DropsLose
<1>3. ASSUME NEW m \in Blocks, NEW w \in Workers, PublishBlock(m, w)
      PROVE  FateOK' /\ (Abstract!Lose \/ UNCHANGED Abstract!avars)
  <2>1. /\ m \notin OnWire /\ (OnWire' = OnWire \/ OnWire' = OnWire \union {m})
        /\ \A x : Loaded(x)' = Loaded(x) /\ Kept(x)' = Kept(x)
        /\ m \in unsent /\ unsent' = unsent \ {m} /\ computed' = computed
    BY <1>3, PublishInv DEF PublishBlock
  <2>2. \A x : (Kept(x)' <=> Kept(x)) /\ (Loaded(x)' => Loaded(x))
    BY <2>1
  <2>3. CASE publisher # NoBroker
    <3>1. fate' = fate
      BY <1>3, <2>3 DEF PublishBlock
    <3>2. unsent' \union OnWire' \subseteq unsent \union OnWire
      BY <2>1
    <3> QED BY <1>1, <2>1, <2>2, <3>1, <3>2, SameFate
  <2>4. CASE publisher = NoBroker
    <3>1. fate' = [fate EXCEPT ![m] = "unsent"] /\ OnWire' = OnWire
      BY <1>3, <2>4 DEF PublishBlock, OnWire
    <3>2. \A x \in Blocks : IF x \in {m} THEN fate'[x] \in {"unsent", "dropped"} ELSE fate'[x] = fate[x]
      BY <1>1, <3>1 DEF TypeOK
    <3>3. {m} \subseteq unsent \union OnWire /\ unsent' \union OnWire' \subseteq (unsent \union OnWire) \ {m}
      BY <2>1, <3>1
    <3> QED BY <1>1, <2>1, <2>2, <3>2, <3>3, DropsLose
  <2> QED BY <2>3, <2>4
<1> QED BY <1>2, <1>3

\* The broker accepts a block, or loses it.
LEMMA RouteFate ==
  ASSUME IInv, IInv', FateOK, Route
  PROVE  FateOK' /\ (Abstract!Lose \/ Abstract!Accept)
<1>1. TypeOK /\ TypeOK' /\ \A x \in unsent \union OnWire : ~ Kept(x) /\ ~ Loaded(x)
  <2>1. \A w \in Workers : ToSet(unacked[w]) \subseteq At(w)
    BY SessionSets
  <2> QED BY <2>1 DEF IInv, Places, Kept, Loaded
<1>2. PICK m : m = Head(wire)[1]
  OBVIOUS
<1>3. /\ m \in OnWire /\ unsent' \union OnWire' = (unsent \union OnWire) \ {m}
      /\ computed' = computed /\ m \in Blocks
      /\ \A x : Loaded(x)' = Loaded(x)
      /\ \A x : Kept(x)' = Kept(x) \/ (x = m /\ Kept(x)')
  BY <1>2, RouteInv DEF Route, OnWire
<1>4. CASE fate' = [fate EXCEPT ![m] = "dropped"] /\ ready' = ready
  <2>1. \A x \in Blocks : IF x \in {m} THEN fate'[x] \in {"unsent", "dropped"} ELSE fate'[x] = fate[x]
    BY <1>1, <1>4 DEF TypeOK
  <2>2. \A x : (Kept(x)' <=> Kept(x)) /\ (Loaded(x)' => Loaded(x))
    BY <1>3, <1>4 DEF Kept, Queued, Route, workers
  <2> QED BY <1>1, <1>3, <2>1, <2>2, DropsLose
<1>5. CASE fate' = [fate EXCEPT ![m] = "accepted"] /\ Kept(m)'
  <2>1. fate'[m] = "accepted" /\ \A x \in Blocks \ {m} : fate'[x] = fate[x]
    BY <1>1, <1>3, <1>5 DEF TypeOK
  <2>2. \A x : x # m => (Kept(x)' <=> Kept(x))
    BY <1>3
  <2>3. FateOK'
    <3>1. \A x \in unsent' \union OnWire' : x \in Blocks /\ x # m /\ x \in unsent \union OnWire
      BY <1>1, <1>3 DEF TypeOK, OnWire
    <3>2. \A x \in unsent' \union OnWire' : fate'[x] = "none" /\ computed'[x] = 0
      BY <1>3, <2>1, <3>1 DEF FateOK
    <3>3. \A x \in Blocks : Kept(x)' => fate'[x] = "accepted"
      BY <2>1, <2>2 DEF FateOK
    <3>4. \A x \in Blocks : Loaded(x)' /\ computed'[x] = 0 => Kept(x)' \/ fate'[x] = "purged"
      <4>1. ~ Loaded(m) /\ ~ Loaded(m)'
        BY <1>1, <1>3
      <4> QED BY <1>3, <2>1, <2>2, <4>1 DEF FateOK
    <3> QED BY <3>2, <3>3, <3>4 DEF FateOK
  <2>4. fate[m] = "none" /\ computed[m] = 0 /\ ~ Kept(m)
    BY <1>1, <1>3 DEF FateOK
  <2>5. Held = {x \in Blocks : Kept(x)} /\ Held' = Held \union {m}
    <3>1. Held = {x \in Blocks : Kept(x)} /\ Held' = {x \in Blocks : Kept(x)'}
      BY <1>1, HeldKept, HeldKeptNext
    <3> QED BY <1>3, <1>5, <2>2, <3>1
  <2>6. Accepted' = Accepted \union {m} /\ Computed' = Computed /\ Gone' = Gone
    <3>1. Accepted' = Accepted \union {m} /\ Computed' = Computed
      BY <1>3, <2>4, <2>5 DEF Accepted, Computed
    <3>2. Gone' = Gone
      BY <1>3, <2>1, <2>4 DEF Gone
    <3> QED BY <3>1, <3>2
  <2>7. m \in Blocks \ (Accepted \union Computed \union Gone)
    BY <1>3, <2>4, <2>5 DEF Accepted, Computed, Gone
  <2>8. Abstract!Accept <=> \E x \in Blocks \ (Accepted \union Computed \union Gone) :
                              Accepted' = Accepted \union {x} /\ Computed' = Computed /\ Gone' = Gone
    BY DEF Abstract!Accept, Abstract!Fresh, Accepted, Computed, Gone
  <2> QED BY <2>3, <2>6, <2>7, <2>8
<1>6. ASSUME fate' = [fate EXCEPT ![m] = "accepted"],
             NEW q \in Brokers \X Workers, ready' = [ready EXCEPT ![q] = Append(@, m)]
      PROVE  Kept(m)'
  <2>1. ready[q] \in Seq(Blocks) /\ ready'[q] = Append(ready[q], m)
    BY <1>1, <1>6 DEF TypeOK
  <2>2. m \in ToSet(ready'[q])
    BY <1>3, <2>1, AppendSet
  <2> QED BY <2>2 DEF Kept, Queued
<1>7. \/ fate' = [fate EXCEPT ![m] = "dropped"] /\ ready' = ready
      \/ /\ fate' = [fate EXCEPT ![m] = "accepted"]
         /\ \E q \in Brokers \X Workers : ready' = [ready EXCEPT ![q] = Append(@, m)]
  BY <1>1, <1>2 DEF Route, TypeOK
<1> QED BY <1>4, <1>5, <1>6, <1>7

\* The callback computes a block that somebody keeps, or that was purged meanwhile.
LEMMA ComputeFate ==
  ASSUME IInv, IInv', FateOK, NEW w \in Workers, ComputeAndAck(w)
  PROVE  FateOK' /\ (Abstract!Compute \/ UNCHANGED Abstract!avars)
<1>1. TypeOK /\ TypeOK'
  BY DEF IInv
<1>2. PICK m \in Blocks : m = current[w]
  BY <1>1 DEF ComputeAndAck, TypeOK
<1>3. /\ UNCHANGED <<main, broker, fate>> /\ computed' = [computed EXCEPT ![m] = @ + 1]
      /\ m # NoBlock /\ Acknowledge(w, m)
  BY <1>2 DEF ComputeAndAck
<1>4. /\ computed'[m] = computed[m] + 1 /\ \A x \in Blocks \ {m} : computed'[x] = computed[x]
      /\ \A x \in Blocks : computed[x] \in Nat /\ computed'[x] \in Nat
  BY <1>1, <1>3 DEF TypeOK
<1>5. /\ At(w)' = At(w) \ {m} /\ m \in At(w)
      /\ \A v \in Workers \ {w} : At(v)' = At(v)
  BY <1>2, ComputeInv
<1>6. Loaded(m) /\ \A x : Loaded(x)' => Loaded(x)
  BY <1>5 DEF Loaded
<1>7. \A x : x # m => (Kept(x)' <=> Kept(x))
  <2>1. /\ \A v \in Workers \ {w} : unacked'[v] = unacked[v]
        /\ session[w] # "consuming" => unacked'[w] = << >>
        /\ session[w] = "consuming" => unacked'[w] = inbox[w]
    BY <1>2, <1>3, AckFacts
  <2>2. ToSet(unacked'[w]) = ToSet(unacked[w]) \ {m}
    <3>1. CASE session[w] = "consuming"
      <4>1. ToSet(unacked[w]) = ToSet(inbox[w]) \union {m} /\ m \notin ToSet(inbox[w])
        BY <1>2, <1>3, <3>1, SessionSets DEF At, IInv, NoDuplicates
      <4> QED BY <2>1, <3>1, <4>1
    <3>2. CASE session[w] # "consuming"
      BY <2>1, <3>2, SessionSets, EmptySet
    <3> QED BY <3>1, <3>2
  <2>3. \A x : Queued(x)' = Queued(x)
    BY <1>3 DEF Queued, broker
  <2>4. ASSUME NEW x, x # m PROVE Kept(x)' <=> Kept(x)
    <3>1. \A v \in Workers : x \in ToSet(unacked'[v]) <=> x \in ToSet(unacked[v])
      BY <2>1, <2>2, <2>4
    <3> QED BY <2>3, <3>1 DEF Kept
  <2> QED BY <2>4
<1>8. Kept(m)' => Kept(m)
  <2>1. \A v \in Workers : ToSet(unacked'[v]) \subseteq ToSet(unacked[v])
    <3>1. /\ \A v \in Workers \ {w} : unacked'[v] = unacked[v]
          /\ session[w] # "consuming" => unacked'[w] = << >>
          /\ session[w] = "consuming" => unacked'[w] = inbox[w]
      BY <1>2, <1>3, AckFacts
    <3> QED BY <3>1, SessionSets, EmptySet DEF At
  <2>2. \A x : Queued(x)' = Queued(x)
    BY <1>3 DEF Queued, broker
  <2> QED BY <2>1, <2>2 DEF Kept
<1>9. m \notin unsent \union OnWire /\ unsent' \union OnWire' = unsent \union OnWire
  BY <1>3, <1>6 DEF IInv, Places, OnWire, main
<1>10. FateOK'
  <2>1. \A x \in unsent' \union OnWire' : fate'[x] = "none" /\ computed'[x] = 0
    <3>1. unsent \union OnWire \subseteq Blocks
      BY <1>1 DEF TypeOK, OnWire
    <3> QED BY <1>3, <1>4, <1>9, <3>1 DEF FateOK
  <2>2. \A x \in Blocks : Kept(x)' => fate'[x] = "accepted"
    BY <1>3, <1>7, <1>8 DEF FateOK
  <2>3. \A x \in Blocks : Loaded(x)' /\ computed'[x] = 0 => x # m /\ computed[x] = 0 /\ Loaded(x)
    BY <1>4, <1>6
  <2>4. \A x \in Blocks : Loaded(x)' /\ computed'[x] = 0 => Kept(x)' \/ fate'[x] = "purged"
    BY <1>3, <1>7, <2>3 DEF FateOK
  <2> QED BY <2>1, <2>2, <2>4 DEF FateOK
<1>11. Held = {x \in Blocks : Kept(x)} /\ Held' = {x \in Blocks : Kept(x)'}
  BY <1>1, HeldKept, HeldKeptNext
<1>12. Accepted' = Accepted \ {m}
  BY <1>4, <1>7, <1>8, <1>11 DEF Accepted
<1>13. Gone' = Gone \ {m}
  BY <1>3, <1>4 DEF Gone
<1>14. Computed' = Computed \union {m}
  BY <1>4 DEF Computed
<1>15. CASE computed[m] = 0
  <2>1. m \in Accepted \union Gone
    BY <1>6, <1>11, <1>15 DEF FateOK, Accepted, Gone
  <2>2. Abstract!Compute <=> \E x \in Accepted \union Gone :
                               /\ Accepted' = Accepted \ {x} /\ Gone' = Gone \ {x}
                               /\ Computed' = Computed \union {x}
    BY DEF Abstract!Compute, Accepted, Computed, Gone
  <2> QED BY <1>10, <1>12, <1>13, <1>14, <2>1, <2>2
<1>16. CASE computed[m] # 0
  <2>1. Accepted' = Accepted /\ Gone' = Gone /\ Computed' = Computed
    BY <1>4, <1>12, <1>13, <1>14, <1>16 DEF Accepted, Gone, Computed
  <2> QED BY <1>10, <2>1 DEF Abstract!avars, Accepted, Computed, Gone
<1> QED BY <1>15, <1>16

\* What a deleted queue held is purged.
LEMMA DeleteFate ==
  ASSUME IInv, IInv', FateOK, NEW b \in Brokers, NEW q \in Workers, DeleteQueue(b, q)
  PROVE  FateOK' /\ Abstract!Purge
<1>1. TypeOK /\ TypeOK' /\ \A x \in unsent \union OnWire : ~ Kept(x)
  <2>1. \A w \in Workers : ToSet(unacked[w]) \subseteq At(w)
    BY SessionSets
  <2> QED BY <2>1 DEF IInv, Places, Kept, Loaded
<1>2. /\ UNCHANGED <<wire, unsent, computed>>
      /\ \A m \in Blocks : fate'[m] = IF m \in Purged(b, q) THEN "purged" ELSE fate[m]
  BY DeleteFacts
<1>3. OnWire' = OnWire /\ \A x : Loaded(x)' => Loaded(x)
  BY <1>2, DeleteInv DEF OnWire, Loaded
<1>4. \A x : Kept(x)' <=> Kept(x) /\ x \notin Purged(b, q)
  <2>1. \A p \in Brokers \X Workers : ToSet(ready'[p]) = ToSet(ready[p]) \ Purged(b, q)
    BY DeleteFacts
  <2>2. \A w \in Workers : ToSet(unacked'[w]) = ToSet(unacked[w]) \ Purged(b, q)
    BY DeleteFacts
  <2>3. \A x : Queued(x)' <=> Queued(x) /\ x \notin Purged(b, q)
    BY <2>1 DEF Queued
  <2> QED BY <2>2, <2>3 DEF Kept
<1>5. \A x \in Purged(b, q) : Kept(x)
  BY DEF Purged, Kept, Queued, Q
<1>6. FateOK'
  <2>1. \A x \in unsent' \union OnWire' : x \in Blocks /\ fate'[x] = "none" /\ computed'[x] = 0
    <3>1. unsent \union OnWire \subseteq Blocks
      BY <1>1 DEF TypeOK, OnWire
    <3> QED BY <1>1, <1>2, <1>3, <1>5, <3>1 DEF FateOK
  <2>2. \A x \in Blocks : Kept(x)' => fate'[x] = "accepted"
    BY <1>2, <1>4 DEF FateOK
  <2>3. \A x \in Blocks : Loaded(x)' /\ computed'[x] = 0 => Kept(x)' \/ fate'[x] = "purged"
    BY <1>2, <1>3, <1>4 DEF FateOK
  <2> QED BY <2>1, <2>2, <2>3 DEF FateOK
<1>7. Held = {x \in Blocks : Kept(x)} /\ Held' = {x \in Blocks : Kept(x)'}
  BY <1>1, HeldKept, HeldKeptNext
<1> DEFINE M == {x \in Accepted : x \in Purged(b, q)}
<1>8. Accepted' = Accepted \ M /\ Computed' = Computed
  BY <1>2, <1>4, <1>7 DEF Accepted, Computed
<1>9. Gone' = Gone \union M
  BY <1>2, <1>5, <1>7 DEF Gone, Accepted
<1>10. M \in SUBSET Accepted
  OBVIOUS
<1> HIDE DEF M
<1>11. Abstract!Purge <=> \E N \in SUBSET Accepted :
                            Accepted' = Accepted \ N /\ Gone' = Gone \union N /\ Computed' = Computed
  BY DEF Abstract!Purge, Accepted, Computed, Gone
<1> QED BY <1>6, <1>8, <1>9, <1>10, <1>11

LEMMA FateInit == Init => FateOK /\ Abstract!AInit
<1> SUFFICES ASSUME Init PROVE FateOK /\ Abstract!AInit
  OBVIOUS
<1>1. IInv /\ ToSet(<< >>) = {}
  BY InitInv, EmptySet
<1>2. \A m \in Blocks : ~ Kept(m) /\ ~ Loaded(m) /\ computed[m] = 0 /\ fate[m] = "none"
  BY <1>1 DEF Init, Kept, Queued, Loaded, At
<1>3. Held = {}
  BY <1>1, <1>2, HeldKept DEF IInv
<1>4. unsent \union OnWire \subseteq Blocks
  BY <1>1 DEF IInv, TypeOK, OnWire
<1> QED BY <1>2, <1>3, <1>4 DEF FateOK, Abstract!AInit

LEMMA FateNext ==
  ASSUME IInv, FateOK, [Next]_vars
  PROVE  FateOK' /\ [Fine]_(Abstract!avars)
<1>1. IInv'
  BY IInvNext
<1> QED BY <1>1, StepCases, QuietFate, PublisherFate, RouteFate, ComputeFate, DeleteFate DEF Fine

\* What a queue has accepted is computed at least once or purged with it, whatever fails.
THEOREM Refinement == Spec => ImplementsAtLeastOnce
<1>1. Init => FateOK /\ Abstract!AInit
  BY FateInit
<1>2. IInv /\ FateOK /\ [Next]_vars => FateOK' /\ [Fine]_(Abstract!avars)
  BY FateNext
<1> QED BY <1>1, <1>2, InductiveInvariant, PTL DEF Spec, ImplementsAtLeastOnce, Abstract!ASpec, Fine
=============================================================================
