----------------------------- MODULE MCCluster -----------------------------
(***************************************************************************)
(* Small instances of Cluster.  Two workers, two brokers and restarts of   *)
(* everything at once are too many states; the two kinds of trouble are    *)
(* checked side by side: the clients choose which one a behaviour has.     *)
(***************************************************************************)
EXTENDS Cluster

CONSTANTS w2, b2

VARIABLE trouble

MCBenches == {1, 2}

\* Two workers of one broker; a worker may be started again once.
Pool ==
  /\ \A w \in Workers : workerStarts'[w] <= 1
  /\ mainStarts' = 0
  /\ b2 \notin {q_host_', publisher'.host}

\* One worker, two brokers; main node and worker may both be started again.
Links == alive'[w2] /\ bench_res_'[w2] = 0 /\ (call' # NoCall => call'.node # w2)

MCInit == Init /\ trouble \in {"pool", "links"}

\* What is left out are requests of clients, crashes and restarts: nothing that is fair.
MCNext ==
  /\ Next
  /\ trouble = "pool" => Pool
  /\ trouble = "links" => Links
  /\ UNCHANGED trouble

MCSpec == MCInit /\ [][MCNext]_<<vars, trouble>> /\ Fairness
============================================================================
