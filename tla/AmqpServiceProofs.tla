------------------------- MODULE AmqpServiceProofs -------------------------
(* Theorems about AmqpService: for every number of close handlers that are   *)
(* left in the queue.                                                        *)
EXTENDS AmqpService, TLAPS

\* Why a connected service is served: whatever keeps the loop alive is there for a
\* loop that runs, or for one that Connect is about to start.
WorkIsForALoop == work => thread = "running" \/ pc \in {"spawn", "dead"}

\* Nobody reads the future of a connection that was never begun.
NoThreadWhileFree == pc = "free" => thread = "none"

\* An attempt begins with a connection that nobody has worked on, and the link opens
\* with the callback that sets connected_.
FreshAttempt == pc = "spawn" /\ thread = "none" => link = "opening"
OpenIsConnected == link = "open" => connected_

IInv ==
  /\ TypeOK
  /\ ConnectedIsServed
  /\ WorkIsForALoop
  /\ NoThreadWhileFree
  /\ FreshAttempt
  /\ OpenIsConnected

----------------------------------------------------------------------------
LEMMA IInvInit == Init => IInv
<1> SUFFICES ASSUME Init PROVE IInv
  OBVIOUS
<1>1. work = FALSE /\ connected_ = FALSE /\ link = "none"
  BY DEF Init
<1>2. work <=> link \in {"opening", "open", "closing", "failing"}
  BY <1>1
<1> QED BY <1>1, <1>2 DEF Init, IInv, TypeOK, ConnectedIsServed, WorkIsForALoop,
                          NoThreadWhileFree, FreshAttempt, OpenIsConnected

\* The steps of the thread that calls Connect and Disconnect.
LEMMA IInvCaller ==
  ASSUME IInv, ConnectRefused \/ Connect \/ Disconnect \/ CallerStep
  PROVE  IInv'
<1> USE DEF IInv, TypeOK, ConnectedIsServed, WorkIsForALoop, NoThreadWhileFree, FreshAttempt,
            OpenIsConnected, IsConnected
<1>1. CASE ConnectRefused
  BY <1>1 DEF ConnectRefused
<1>2. CASE Connect
  BY <1>2 DEF Connect
<1>3. CASE Disconnect
  BY <1>3 DEF Disconnect
<1>4. CASE SpawnThread
  BY <1>4 DEF SpawnThread
<1>5. CASE GetFuture
  BY <1>5 DEF GetFuture
<1>6. CASE PostClose
  BY <1>6 DEF PostClose
<1>7. CASE Join
  BY <1>7 DEF Join
<1>8. CASE FreeObjects
  BY <1>8 DEF FreeObjects
<1> QED BY <1>1, <1>2, <1>3, <1>4, <1>5, <1>6, <1>7, <1>8 DEF CallerStep

\* The callbacks that the service thread runs.
LEMMA IInvLoop ==
  ASSUME IInv, LoopStep
  PROVE  IInv'
<1> USE DEF IInv, TypeOK, ConnectedIsServed, WorkIsForALoop, NoThreadWhileFree, FreshAttempt,
            OpenIsConnected, caller, SetPromise
<1>1. CASE RunPosted
  BY <1>1 DEF RunPosted
<1>2. CASE Established
  BY <1>2 DEF Established
<1>3. CASE ChannelReady
  BY <1>3 DEF ChannelReady
<1>4. CASE ChannelRefused
  BY <1>4 DEF ChannelRefused
<1>5. CASE ChannelFails
  BY <1>5 DEF ChannelFails
<1>6. CASE HandlerFails
  BY <1>6 DEF HandlerFails
<1>7. CASE Closed
  BY <1>7 DEF Closed
<1>8. CASE RunReturns
  BY <1>8 DEF RunReturns
<1> QED BY <1>1, <1>2, <1>3, <1>4, <1>5, <1>6, <1>7, <1>8 DEF LoopStep

LEMMA IInvNext == IInv /\ [Next]_vars => IInv'
<1> SUFFICES ASSUME IInv, [Next]_vars PROVE IInv'
  OBVIOUS
<1>1. CASE UNCHANGED vars
  BY <1>1 DEF vars, caller, IInv, TypeOK, ConnectedIsServed, WorkIsForALoop, NoThreadWhileFree,
              FreshAttempt, OpenIsConnected
<1> QED BY <1>1, IInvCaller, IInvLoop DEF Next

\* The strengthened invariant holds in every reachable state.
THEOREM InductiveInvariant == Spec => []IInv
BY IInvInit, IInvNext, PTL DEF Spec

\* The types, and that work_ exists exactly while a connection has callbacks to make
\* (ResetLoop and Disconnect drop it, Connect makes it).
THEOREM TypeCorrect == Spec => []TypeOK
<1>1. IInv => TypeOK
  BY DEF IInv
<1> QED BY <1>1, InductiveInvariant, PTL

\* IsConnected() is only ever true with a running loop and a live connection behind it.
THEOREM ConnectedMeansServed == Spec => []ConnectedIsServed
<1>1. IInv => ConnectedIsServed
  BY DEF IInv
<1> QED BY <1>1, InductiveInvariant, PTL

\* Disconnect frees the channel and the connection after the other thread is gone.
THEOREM SafeToFree == Spec => []NothingLeftToFree
<1>1. IInv => NothingLeftToFree
  BY DEF IInv, TypeOK, ConnectedIsServed, WorkIsForALoop, NoThreadWhileFree, NothingLeftToFree
<1> QED BY <1>1, InductiveInvariant, PTL

\* promise_set_ does its work: the callbacks answer a future once.
THEOREM AnsweredOnce == Spec => PromiseSetOnce
<1> DEFINE Step == promise # "unset" /\ promise' # promise => pc = "idle" /\ pc' = "spawn"
<1>1. [Next]_vars => [Step]_vars
  <2> SUFFICES ASSUME Next PROVE Step
    OBVIOUS
  <2>1. CASE Connect
    BY <2>1 DEF Connect
  <2>2. CASE ConnectRefused \/ Disconnect \/ CallerStep
    BY <2>2 DEF ConnectRefused, Disconnect, CallerStep, SpawnThread, GetFuture, PostClose,
                Join, FreeObjects
  <2>3. CASE LoopStep
    BY <2>3 DEF LoopStep, RunPosted, Established, ChannelReady, ChannelRefused, ChannelFails,
                HandlerFails, Closed, RunReturns, SetPromise
  <2> QED BY <2>1, <2>2, <2>3 DEF Next
<1> QED BY <1>1, PTL DEF Spec, PromiseSetOnce

----------------------------------------------------------------------------
(* AmqpService implements AmqpLife.                                        *)

LEMMA RefinesInit == Init => Life!Init
BY DEF Init, Life!Init, LifeState, Doomed

\* The caller starts an attempt, frees what was lost, or terminates the process.
LEMMA RefinesCaller ==
  ASSUME IInv, ConnectRefused \/ Connect \/ Disconnect \/ CallerStep
  PROVE  Life!Next \/ UNCHANGED LifeState
<1> USE DEF IInv, TypeOK, ConnectedIsServed, WorkIsForALoop, NoThreadWhileFree, FreshAttempt,
            OpenIsConnected, IsConnected, LifeState, Doomed
<1>1. CASE ConnectRefused
  BY <1>1 DEF ConnectRefused
<1>2. CASE Connect
  BY <1>2 DEF Connect, Life!Next, Life!Lose
<1>3. CASE Disconnect
  BY <1>3 DEF Disconnect
<1>4. CASE SpawnThread
  <2>1. CASE thread = "none"
    BY <1>4, <2>1 DEF SpawnThread, Life!Next, Life!Try
  <2>2. CASE thread # "none"
    BY <1>4, <2>2 DEF SpawnThread, Life!Next, Life!Terminate
  <2> QED BY <2>1, <2>2
<1>5. CASE GetFuture
  BY <1>5 DEF GetFuture
<1>6. CASE PostClose
  BY <1>6 DEF PostClose
<1>7. CASE Join
  BY <1>7 DEF Join, Life!Next, Life!CleanUp
<1>8. CASE FreeObjects
  BY <1>8 DEF FreeObjects
<1> QED BY <1>1, <1>2, <1>3, <1>4, <1>5, <1>6, <1>7, <1>8 DEF CallerStep

\* A callback makes the connection or loses it, unless Connect is about to terminate.
LEMMA RefinesLoop ==
  ASSUME IInv, LoopStep
  PROVE  Life!Next \/ UNCHANGED LifeState
<1> USE DEF IInv, TypeOK, ConnectedIsServed, WorkIsForALoop, NoThreadWhileFree, FreshAttempt,
            OpenIsConnected, caller, LifeState, Doomed
<1>1. CASE RunPosted
  BY <1>1 DEF RunPosted
<1>2. CASE Established
  BY <1>2 DEF Established, Life!Next, Life!Succeed
<1>3. CASE ChannelReady
  BY <1>3 DEF ChannelReady
<1>4. CASE ChannelRefused
  BY <1>4 DEF ChannelRefused
<1>5. CASE ChannelFails
  BY <1>5 DEF ChannelFails
<1>6. CASE HandlerFails
  BY <1>6 DEF HandlerFails, Life!Next, Life!Lose
<1>7. CASE Closed
  BY <1>7 DEF Closed, Life!Next, Life!Lose
<1>8. CASE RunReturns
  BY <1>8 DEF RunReturns
<1> QED BY <1>1, <1>2, <1>3, <1>4, <1>5, <1>6, <1>7, <1>8 DEF LoopStep

LEMMA RefinesNext == IInv /\ [Next]_vars => [Life!Next]_LifeState
<1> SUFFICES ASSUME IInv, [Next]_vars PROVE [Life!Next]_LifeState
  OBVIOUS
<1>1. CASE UNCHANGED vars
  BY <1>1 DEF vars, caller, LifeState, Doomed
<1> QED BY <1>1, RefinesCaller, RefinesLoop DEF Next

\* The two threads implement AmqpLife, the life cycle on which Cluster relies: a lost
\* connection is followed by a clean-up or by the end of the process, never by a new one.
THEOREM Refinement == Spec => ImplementsLife
BY RefinesInit, RefinesNext, InductiveInvariant, PTL DEF Spec, ImplementsLife, Life!Spec
============================================================================
