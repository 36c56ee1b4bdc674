----------------------------- MODULE MCDatabase -----------------------------
\* A small database.  One client runs an experiment, the other one administers; their
\* calls meet on the same rows.
EXTENDS Database, TLC

CONSTANTS c1, c2, l1, p1, p2

MCMaxId == [t \in Tables |-> 1]
MCCalls ==
  c1 :> {k \in AllCalls :
     CASE k.op = "CreateUser" -> k.password = p1
       [] k.op = "AuthenticateUser" -> TRUE
       [] k.op = "CreateExperiment" -> k.user_id = 1
       [] k.op = "UpdateExperimentStatus" -> k.status = "running"
       [] k.op = "UpdateIterationStatus" -> k.status = "succeeded" /\ k.output_data
       [] k.op \in {"RegisterNode", "CreateIteration", "CreateDatabase"} -> TRUE
       [] OTHER -> FALSE}
  @@
  c2 :> {k \in AllCalls :
     CASE k.op = "CreateUser" -> k.password = p1
       [] k.op = "DeleteUser" -> k.user_id = 1
       [] k.op = "UpdateExperimentStatus" -> k.status \in {"error", "bad"}
       [] k.op = "UpdateNodeStatus" -> k.status = "busy"
       [] k.op = "Log" -> k.severity = "info"
       [] k.op \in {"UnregisterNode", "GetExperiment", "GetIteration", "GetNode", "List"} \union AdminOps -> TRUE
       [] OTHER -> FALSE}
=============================================================================
