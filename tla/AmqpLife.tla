------------------------------ MODULE AmqpLife ------------------------------
(***************************************************************************)
(* What an AMQP service looks like from outside: whether IsConnected()     *)
(* holds and whether its last connection has been cleaned up.  Module      *)
(* Cluster uses these states; AmqpService implements them with a thread,   *)
(* an event loop and a promise.                                            *)
(***************************************************************************)
VARIABLE state

States == {"down", "trying", "up", "lost", "dead"}

Init == state = "down"

Try == state = "down" /\ state' = "trying"
Succeed == state = "trying" /\ state' = "up"
Lose == state \in {"trying", "up"} /\ state' = "lost"
CleanUp == state \in {"trying", "lost"} /\ state' = "down"

\* Connect on a service whose last connection was never cleaned up.
Terminate == state = "lost" /\ state' = "dead"

Next == Try \/ Succeed \/ Lose \/ CleanUp \/ Terminate

Spec == Init /\ [][Next]_state
============================================================================
