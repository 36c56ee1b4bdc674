---------------------------- MODULE AmqpService ----------------------------
(***************************************************************************)
(* AMQPService with its consumer and its publisher: one thread calls       *)
(* Connect and Disconnect, another one (service_thread_) runs the event    *)
(* loop, in which AMQP-CPP calls MyHandler and the channel's callbacks.    *)
(* The two share work_, the promise, connected_, and the queue of handlers *)
(* that Disconnect posts to.                                               *)
(*                                                                         *)
(* The broker and AMQP-CPP are modelled by the order of the callbacks they *)
(* make: onConnected, then the channel's answer; on a failure the error of *)
(* the channel before that of the connection.                              *)
(***************************************************************************)
EXTENDS Integers

CONSTANTS MaxPosted   \* bound: close handlers that may wait in the queue

ASSUME AmqpAssumption == MaxPosted \in Nat \ {0}

VARIABLES
  pc,          \* the step the calling thread is at
  failing,     \* Disconnect was called by Connect, after an error
  outcome,     \* how the last Connect ended, "none" after a Disconnect
  thread,      \* service_thread_: "none", "running", or "finished" but joinable
  work,        \* work_ keeps the loop alive
  posted,      \* close handlers in the queue of service_
  link,        \* connection_ and channel_
  connected_,  \* of the MyHandler
  promise,     \* connection_promise_; promise_set_ is promise # "unset"
  ended        \* history: who ended the last connection, "peer" or "self"

caller == <<pc, failing, outcome>>
vars == <<caller, thread, work, posted, link, connected_, promise, ended>>

IsConnected == connected_

----------------------------------------------------------------------------
(* The calling thread.                                                     *)

\* Already_Connected is thrown; nothing changes but what the caller learns.
ConnectRefused ==
  /\ pc = "idle" /\ IsConnected
  /\ outcome' = "already"
  /\ UNCHANGED <<pc, failing, thread, work, posted, link, connected_, promise, ended>>

\* Mutant: a work_ is made for the first connection only.
Connect_OldWork ==
  /\ pc = "idle" /\ ~ IsConnected
  /\ promise' = "unset"
  /\ link' = "opening"
  /\ ended' = "no"
  /\ outcome' = "none"
  /\ pc' = "spawn"
  /\ UNCHANGED <<failing, thread, work, posted, connected_>>

\* service_.reset, a work_, a new promise; Reconnect makes the connection and the
\* channel anew, the old ones not being ready.
Connect ==
  /\ pc = "idle" /\ ~ IsConnected
  /\ work' = TRUE
  /\ promise' = "unset"
  /\ link' = "opening"
  /\ ended' = "no"
  /\ outcome' = "none"
  /\ pc' = "spawn"
  /\ UNCHANGED <<failing, thread, posted, connected_>>

\* Mutant: the old thread is detached instead.
SpawnThread_Detaches ==
  /\ pc = "spawn"
  /\ pc' = "wait" /\ thread' = "running"
  /\ UNCHANGED <<failing, outcome, work, posted, link, connected_, promise, ended>>

\* Assigning to a thread that is joinable is std::terminate.
SpawnThread ==
  /\ pc = "spawn"
  /\ IF thread = "none"
       THEN pc' = "wait" /\ thread' = "running"
       ELSE pc' = "dead" /\ UNCHANGED thread
  /\ UNCHANGED <<failing, outcome, work, posted, link, connected_, promise, ended>>

\* connection_future.get()
GetFuture ==
  /\ pc = "wait"
  /\ promise # "unset"
  /\ IF promise = "ok"
       THEN pc' = "idle" /\ outcome' = "ok" /\ UNCHANGED failing
       ELSE pc' = "post" /\ failing' = TRUE /\ UNCHANGED outcome
  /\ UNCHANGED <<thread, work, posted, link, connected_, promise, ended>>

Disconnect ==
  /\ pc = "idle"
  /\ posted < MaxPosted
  /\ pc' = "post"
  /\ failing' = FALSE
  /\ outcome' = "none"
  /\ UNCHANGED <<thread, work, posted, link, connected_, promise, ended>>

PostClose ==
  /\ pc = "post"
  /\ posted' = posted + 1
  /\ pc' = "join"
  /\ UNCHANGED <<failing, outcome, thread, work, link, connected_, promise, ended>>

\* Mutant: Disconnect does not wait for the thread.
Join_Detaches ==
  /\ pc = "join"
  /\ thread' = "none"
  /\ pc' = "free"
  /\ UNCHANGED <<failing, outcome, work, posted, link, connected_, promise, ended>>

Join ==
  /\ pc = "join"
  /\ thread # "running"
  /\ thread' = "none"
  /\ pc' = "free"
  /\ UNCHANGED <<failing, outcome, work, posted, link, connected_, promise, ended>>

\* service_.stop, and the objects are reset; what is posted stays in the queue.
FreeObjects ==
  /\ pc = "free"
  /\ work' = FALSE
  /\ link' = "none"
  /\ pc' = "idle"
  /\ outcome' = IF failing THEN "error" ELSE outcome
  /\ UNCHANGED <<failing, thread, posted, connected_, promise, ended>>

----------------------------------------------------------------------------
(* The service thread: service_.run().                                     *)

\* Mutant: promise_set_ is not looked at.
SetPromise_Again(value) == promise' = value

SetPromise(value) == promise' = IF promise = "unset" THEN value ELSE promise

\* The handler that Disconnect posted: it closes whatever connection it finds.
RunPosted ==
  /\ thread = "running" /\ posted > 0
  /\ posted' = posted - 1
  /\ link' = IF link \in {"opening", "open"} THEN "closing" ELSE link
  /\ UNCHANGED <<caller, thread, work, connected_, promise, ended>>

\* onConnected, also for a connection that will be closed once it is made.
Established ==
  /\ thread = "running" /\ link \in {"opening", "closing"} /\ ~ connected_
  /\ connected_' = TRUE
  /\ link' = IF link = "opening" THEN "open" ELSE link
  /\ UNCHANGED <<caller, thread, work, posted, promise, ended>>

\* onSuccess of the consumer, onReady of the publisher.
ChannelReady ==
  /\ thread = "running" /\ link \in {"open", "closing"} /\ connected_ /\ promise = "unset"
  /\ SetPromise("ok")
  /\ UNCHANGED <<caller, thread, work, posted, link, connected_, ended>>

\* The channel's onError, the connection being alive: there is no such queue.
ChannelRefused ==
  /\ thread = "running" /\ link \in {"open", "closing"} /\ connected_ /\ promise = "unset"
  /\ SetPromise("error")
  /\ UNCHANGED <<caller, thread, work, posted, link, connected_, ended>>

\* The peer or the network fails: first the channel learns of it ...
ChannelFails ==
  /\ thread = "running" /\ link \in {"opening", "open", "closing"}
  /\ SetPromise("error")
  /\ link' = "failing"
  /\ UNCHANGED <<caller, thread, work, posted, connected_, ended>>

\* Mutant: onError does not call ResetLoop.
HandlerFails_NoReset ==
  /\ thread = "running" /\ link = "failing"
  /\ link' = "gone"
  /\ ended' = "peer"
  /\ UNCHANGED <<caller, thread, work, posted, connected_, promise>>

\* ... then MyHandler::onError.
HandlerFails ==
  /\ thread = "running" /\ link = "failing"
  /\ work' = FALSE
  /\ connected_' = FALSE
  /\ link' = "gone"
  /\ ended' = "peer"
  /\ UNCHANGED <<caller, thread, posted, promise>>

\* MyHandler::onClosed, after the broker has answered everything before the close.
Closed ==
  /\ thread = "running" /\ link = "closing" /\ connected_ /\ promise # "unset"
  /\ work' = FALSE
  /\ connected_' = FALSE
  /\ link' = "gone"
  /\ ended' = "self"
  /\ UNCHANGED <<caller, thread, posted, promise>>

\* run() returns when nothing is left to do.
RunReturns ==
  /\ thread = "running" /\ ~ work /\ posted = 0 /\ link \in {"none", "gone"}
  /\ thread' = "finished"
  /\ UNCHANGED <<caller, work, posted, link, connected_, promise, ended>>

----------------------------------------------------------------------------
Init ==
  /\ pc = "idle"
  /\ failing = FALSE
  /\ outcome = "none"
  /\ thread = "none"
  /\ work = FALSE
  /\ posted = 0
  /\ link = "none"
  /\ connected_ = FALSE
  /\ promise = "unset"
  /\ ended = "no"

CallerStep == SpawnThread \/ GetFuture \/ PostClose \/ Join \/ FreeObjects

LoopStep ==
  \/ RunPosted
  \/ Established
  \/ ChannelReady
  \/ ChannelRefused
  \/ ChannelFails
  \/ HandlerFails
  \/ Closed
  \/ RunReturns

Next == ConnectRefused \/ Connect \/ Disconnect \/ CallerStep \/ LoopStep

\* Both threads run on.  Of the broker: a connection attempt is made or fails, a
\* channel is opened or refused, a close is answered or the connection breaks; an
\* open connection need not ever fail.
Fairness ==
  /\ WF_vars(CallerStep)
  /\ WF_vars(RunPosted)
  /\ WF_vars(Established \/ (link = "opening" /\ ChannelFails))
  /\ WF_vars(ChannelReady \/ ChannelRefused)
  /\ WF_vars(HandlerFails)
  /\ WF_vars(Closed)
  /\ WF_vars(RunReturns)

Spec == Init /\ [][Next]_vars /\ Fairness

----------------------------------------------------------------------------
(* Properties.                                                             *)

\* Types; and work_ keeps the loop alive exactly as long as there is a connection
\* whose callbacks it has to make.
TypeOK ==
  /\ pc \in {"idle", "spawn", "wait", "post", "join", "free", "dead"}
  /\ failing \in BOOLEAN
  /\ outcome \in {"none", "ok", "error", "already"}
  /\ thread \in {"none", "running", "finished"}
  /\ work \in BOOLEAN
  /\ posted \in Nat
  /\ link \in {"none", "opening", "open", "closing", "failing", "gone"}
  /\ connected_ \in BOOLEAN
  /\ promise \in {"unset", "ok", "error"}
  /\ ended \in {"no", "peer", "self"}
  /\ work <=> link \in {"opening", "open", "closing", "failing"}

\* IsConnected() is never answered from a loop that has stopped: whoever publishes
\* or consumes on the strength of it has a thread and a connection behind it.
ConnectedIsServed ==
  connected_ => thread = "running" /\ link \in {"open", "closing", "failing"}

\* When Disconnect frees the channel and the connection no other thread is left that
\* could touch them, and IsConnected() is false (TestDisconnect).
NothingLeftToFree ==
  pc = "free" => thread = "none" /\ ~ connected_ /\ link \in {"none", "gone"}

\* A future that was answered stays answered until the next Connect makes a new one:
\* no callback sets the value twice (std::future_error would end the loop).
PromiseSetOnce ==
  [][promise # "unset" /\ promise' # promise => pc = "idle" /\ pc' = "spawn"]_vars

\* Connect and Disconnect return: nobody waits for a promise that no callback will
\* set or joins a thread whose loop has no reason to end.
CallsReturn == pc \in {"spawn", "wait", "post", "join", "free"} ~> pc \in {"idle", "dead"}

\* A Connect that will terminate the process: nobody has joined the last thread.
Doomed == pc = "spawn" /\ thread # "none"

\* The service as Cluster sees it.
LifeState ==
  IF pc = "dead" THEN "dead"
  ELSE IF Doomed THEN "lost"
  ELSE IF connected_ THEN "up"
  ELSE IF thread = "none" THEN "down"
  ELSE IF thread = "running" /\ link \in {"opening", "closing", "failing"} THEN "trying"
  ELSE "lost"

Life == INSTANCE AmqpLife WITH state <- LifeState

\* The two threads together implement AmqpLife: no connection comes up from one that
\* was lost before somebody has joined the thread.
ImplementsLife == Life!Spec

\* TestConnect: after a Connect that returned the service is connected, unless the
\* peer broke the connection since.
ConnectLasts == pc = "idle" /\ outcome = "ok" => ended # "self"
============================================================================
