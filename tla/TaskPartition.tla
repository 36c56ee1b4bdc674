--------------------------- MODULE TaskPartition ---------------------------
(***************************************************************************)
(* What dividing a task among the worker nodes promises, whatever the      *)
(* shares are: every iteration index of the task is given to at most one   *)
(* node, an index given away is never taken back, every node gets one      *)
(* block, and a task is answered as accepted only when nothing of it is    *)
(* left.  TaskSlicing implements this specification.                       *)
(***************************************************************************)
CONSTANTS Nodes,      \* the worker nodes a block may be given to
          Iterations  \* the iteration indices a task may contain

VARIABLES task,       \* the indices of the task in hand
          assigned,   \* assigned[v]: the indices given to v
          status      \* how far the division of the task is

vars == <<task, assigned, status>>

Given == UNION {assigned[v] : v \in Nodes}
Left == task \ Given

Init ==
  /\ task = {}
  /\ assigned = [v \in Nodes |-> {}]
  /\ status = "idle"

\* A task arrives.
Accept(S) ==
  /\ status = "idle"
  /\ task' = S
  /\ status' = "dividing"
  /\ UNCHANGED assigned

\* A task arrives while there is no node to give it to.
Refuse(S) ==
  /\ status = "idle"
  /\ task' = S
  /\ status' = "refused"
  /\ UNCHANGED assigned

\* A node that has nothing of the task gets a block of what is left.
Give(v, S) ==
  /\ status = "dividing"
  /\ assigned[v] = {}
  /\ S \subseteq Left
  /\ assigned' = [assigned EXCEPT ![v] = S]
  /\ UNCHANGED <<task, status>>

\* The last node gets all that is left, and the task is answered as accepted.
GiveRest(v) ==
  /\ status = "dividing"
  /\ assigned[v] = {}
  /\ assigned' = [assigned EXCEPT ![v] = Left]
  /\ status' = "accepted"
  /\ UNCHANGED task

\* The division is given up; the blocks already given stay given.
Fail ==
  /\ status = "dividing"
  /\ status' = "failed"
  /\ UNCHANGED <<task, assigned>>

\* The answer is sent; nothing is kept of the task.
Close ==
  /\ status \in {"accepted", "refused", "failed"}
  /\ task' = {}
  /\ assigned' = [v \in Nodes |-> {}]
  /\ status' = "idle"

Next ==
  \/ \E S \in SUBSET Iterations : Accept(S) \/ Refuse(S)
  \/ \E v \in Nodes :
       \/ \E S \in SUBSET Iterations : Give(v, S)
       \/ GiveRest(v)
  \/ Fail
  \/ Close

Spec == Init /\ [][Next]_vars
============================================================================
