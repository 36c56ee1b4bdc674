------------------------------ MODULE Database ------------------------------
(***************************************************************************)
(* The database layer: DbService objects (one per client process) that run *)
(* their calls as transactions of one PostgreSQL database, and the helpers *)
(* of dbCommon that create, fill and drop that database meanwhile.         *)
(*                                                                         *)
(* A statement writes into its transaction, which locks the row; Commit    *)
(* applies what was written.  Times are only "set" or "not set", payloads  *)
(* (parameters, scores, messages, roles, last_login) are left out.         *)
(***************************************************************************)
EXTENDS Integers, FiniteSets

CONSTANTS Clients, Logins, Passwords,
          MaxId,   \* bound: the rows of each table
          Calls    \* what each client asks for

Tables == {"User", "Experiment", "Iteration", "Node"}

NoId == 0
Id(t) == 1 .. MaxId[t]

ExperimentStatus == {"created", "queued", "running", "succeeded", "error", "archived"}
IterationStatus == {"queued", "running", "succeeded", "error"}
NodeStatus == {"active", "busy", "inactive", "error"}
Final == {"succeeded", "error"}

User == [login : Logins, hashed_password : Passwords]
Experiment == [user_id : Id("User"), status : ExperimentStatus,
               start_time : BOOLEAN, end_time : BOOLEAN]
Iteration == [experiment_id : Id("Experiment"), node_id : Id("Node"),
              status : IterationStatus, output_data : BOOLEAN, end_time : BOOLEAN]
Node == [status : NodeStatus]

Row(t) == CASE t = "User" -> User [] t = "Experiment" -> Experiment
            [] t = "Iteration" -> Iteration [] t = "Node" -> Node
Deleted == [deleted |-> TRUE]

AdminOps == {"CreateDatabase", "DropDatabase"}

\* What a client can ask a DbService for; "bad" stands for a string outside an enum.
AllCalls ==
       [op : {"CreateUser", "AuthenticateUser"}, login : Logins, password : Passwords]
  \cup [op : {"DeleteUser", "CreateExperiment"}, user_id : Id("User")]
  \cup [op : {"UpdateExperimentStatus"}, id : Id("Experiment"),
        status : ExperimentStatus \union {"bad"}]
  \cup [op : {"CreateIteration"}, experiment_id : Id("Experiment"), node_id : Id("Node")]
  \cup [op : {"UpdateIterationStatus"}, id : Id("Iteration"),
        status : IterationStatus \union {"bad"}, output_data : BOOLEAN]
  \cup [op : {"RegisterNode"}]
  \cup [op : {"UpdateNodeStatus"}, node_id : Id("Node"), status : NodeStatus \union {"bad"}]
  \cup [op : {"UnregisterNode", "GetNode"}, node_id : Id("Node")]
  \cup [op : {"GetExperiment"}, id : Id("Experiment")]
  \cup [op : {"GetIteration"}, id : Id("Iteration")]
  \cup [op : {"List"}, page_num : 0 .. 1]
  \cup [op : AdminOps]
  \cup [op : {"Log"}, node_id : Id("Node") \union {NoId}, severity : {"info", "bad"}]

ASSUME DatabaseAssumption == MaxId \in [Tables -> Nat] /\ Calls \in [Clients -> SUBSET AllCalls]

Wrap == 2   \* bound: log entries are counted modulo Wrap

VARIABLES
  database,  \* "absent", "empty" (no tables) or "filled" with dbSchem.sql
  db,        \* the committed rows: for each table a function from ids to rows
  logged,    \* how many entries the table Log has
  conn,      \* conn_ of each service: "closed" (null or not is_open()), "open" or
             \* "stale" (ended by the server, is_open() does not know yet)
  step,      \* where the client's call is, "idle" between calls
  call,      \* the call
  txn        \* its transaction: the rows and the log entries written, and the rows
             \* that foreign keys have locked

vars == <<database, db, logged, conn, step, call, txn>>
server == <<database, db, logged>>

NoCall == [op |-> "none"]
NoTxn == [writes |-> << >>, log |-> 0, shares |-> {}]
EmptyDb == [t \in Tables |-> << >>]
CheckConnection(c) == conn[c] \in {"open", "stale"}

Has(t, i) == i \in DOMAIN db[t]
Wrote(c, t, i) == <<t, i>> \in DOMAIN txn[c].writes
Others(c) == Clients \ {c}
\* A committed row that another transaction has written: its lock must be waited for.
Locked(c, t, i) == Has(t, i) /\ \E d \in Others(c) : Wrote(d, t, i)

----------------------------------------------------------------------------
(* dbCommon: the frame of a transaction.                                   *)

Go(c, next) == step' = [step EXCEPT ![c] = next]

\* Mutant: the rows that foreign keys have locked stay locked after the call.
End_KeepsShares(c) ==
  /\ Go(c, "idle")
  /\ call' = [call EXCEPT ![c] = NoCall]
  /\ txn' = [txn EXCEPT ![c] = [NoTxn EXCEPT !.shares = txn[c].shares]]

\* A call ends; an open transaction that was not committed is undone.
End(c) ==
  /\ Go(c, "idle")
  /\ call' = [call EXCEPT ![c] = NoCall]
  /\ txn' = [txn EXCEPT ![c] = NoTxn]

\* An exception leaves the call: SQL_ERROR or, not wrapped, one of pqxx.
Throw(c) == End(c) /\ UNCHANGED <<server, conn>>

Begin(c, k) ==
  /\ step[c] = "idle"
  /\ k.op \notin AdminOps
  /\ CheckConnection(c)   \* otherwise Broken_Connection
  /\ call' = [call EXCEPT ![c] = k]
  /\ Go(c, "begun")
  /\ UNCHANGED <<server, conn, txn>>

Keep(c, w, shares, next) ==
  /\ txn' = [txn EXCEPT
       ![c].writes = [x \in DOMAIN w \union DOMAIN @ |-> IF x \in DOMAIN w THEN w[x] ELSE @[x]],
       ![c].shares = @ \union shares]
  /\ Go(c, next)
  /\ UNCHANGED <<server, conn, call>>

Write(c, t, i, row, shares, next) == Keep(c, [x \in {<<t, i>>} |-> row], shares, next)
\* INSERT ... RETURNING: the sequence of the table gives an id that is not in use.
Insert(c, t, row, shares, next) ==
  LET free == {i \in Id(t) : ~ Has(t, i) /\ \A d \in Clients : ~ Wrote(d, t, i)} IN
  \/ free = {} /\ Throw(c)
  \/ \E i \in free : Write(c, t, i, row, shares, next)
Nothing(c, next) == Keep(c, << >>, {}, next)

\* The statement of call op reaches a database with the tables in it.
Runs(c, op, at) ==
  call[c].op = op /\ step[c] = at /\ conn[c] = "open" /\ database = "filled"

Merge(t, writes) ==
  LET written == {i \in Id(t) : <<t, i>> \in DOMAIN writes}
      kept == {i \in DOMAIN db[t] \union written : i \notin written \/ writes[<<t, i>>] # Deleted}
  IN [i \in kept |-> IF i \in written THEN writes[<<t, i>>] ELSE db[t][i]]

Apply(c) ==
  /\ db' = [t \in Tables |-> Merge(t, txn[c].writes)]
  /\ logged' = (logged + txn[c].log) % Wrap
  /\ UNCHANGED database

Commit(c) ==
  /\ step[c] = "commit" /\ conn[c] = "open"
  /\ Apply(c)
  /\ End(c)
  /\ UNCHANGED conn

\* The session breaks while COMMIT is answered: done, but the caller gets an exception.
CommitInDoubt(c) ==
  /\ step[c] = "commit" /\ conn[c] = "open"
  /\ Apply(c)
  /\ conn' = [conn EXCEPT ![c] = "closed"]
  /\ End(c)

\* A statement on a session that the server has ended.
StatementBreaks(c) ==
  /\ step[c] \in {"begun", "update", "log", "commit"}
  /\ conn[c] = "stale"
  /\ conn' = [conn EXCEPT ![c] = "closed"]
  /\ End(c)
  /\ UNCHANGED server

NoTables(c) ==
  /\ step[c] = "begun" /\ conn[c] = "open" /\ database = "empty"
  /\ Throw(c)

----------------------------------------------------------------------------
(* DbService: the statements of each call.                                 *)

\* The unique index of login waits for another transaction on that login.
CreateUser(c) ==
  LET k == call[c]
      Login(d, u) == IF txn[d].writes[<<"User", u>>] = Deleted THEN db["User"][u].login
                     ELSE txn[d].writes[<<"User", u>>].login
  IN
  /\ Runs(c, "CreateUser", "begun")
  /\ ~ \E d \in Others(c), u \in Id("User") : Wrote(d, "User", u) /\ Login(d, u) = k.login
  /\ IF \E u \in DOMAIN db["User"] : db["User"][u].login = k.login
       THEN Throw(c)
       ELSE Insert(c, "User",
                  [login |-> k.login, hashed_password |-> k.password],
                  {}, "commit")

WithLogin(l) == {u \in DOMAIN db["User"] : db["User"][u].login = l}

\* one_row() throws for an unknown login.
AuthenticateUser(c) ==
  LET k == call[c] IN
  /\ Runs(c, "AuthenticateUser", "begun")
  /\ IF WithLogin(k.login) = {}
       THEN Throw(c)
       ELSE \E u \in WithLogin(k.login) :
              Nothing(c, IF db["User"][u].hashed_password = k.password THEN "update" ELSE "commit")

\* UPDATE of last_login (left out of the row), for whoever has that login by now.
UpdateLastLogin(c) ==
  LET found == WithLogin(call[c].login) IN
  /\ Runs(c, "AuthenticateUser", "update")
  /\ \A u \in found : ~ Locked(c, "User", u)
  /\ IF found = {} THEN Nothing(c, "commit")
     ELSE \E u \in found :
            Write(c, "User", u, db["User"][u], {}, "commit")

\* Waits for a transaction that refers to the user, fails for a user who is referred to.
DeleteUser(c) ==
  LET u == call[c].user_id IN
  /\ Runs(c, "DeleteUser", "begun")
  /\ ~ Locked(c, "User", u)
  /\ \A d \in Others(c) : <<"User", u>> \notin txn[d].shares
  /\ IF \E e \in DOMAIN db["Experiment"] : db["Experiment"][e].user_id = u
       THEN Throw(c)
     ELSE IF Has("User", u) THEN Write(c, "User", u, Deleted, {}, "commit")
     ELSE Nothing(c, "commit")

\* Mutant: the foreign key does not lock the user.
UserKey_Unlocked(u) == {}
UserKey(u) == {<<"User", u>>}

CreateExperiment(c) ==
  LET u == call[c].user_id IN
  /\ Runs(c, "CreateExperiment", "begun")
  /\ ~ \E d \in Others(c) : Wrote(d, "User", u) /\ txn[d].writes[<<"User", u>>] = Deleted
  /\ IF Has("User", u)
       THEN Insert(c, "Experiment",
                  [user_id |-> u, status |-> "created", start_time |-> FALSE, end_time |-> FALSE],
                  UserKey(u), "log")
       ELSE Throw(c)

\* Mutant: a finished experiment gets its end time only if it succeeded.
WithStatus_NoErrorEnd(row, s) ==
  [row EXCEPT !.status = s, !.start_time = @ \/ s = "running", !.end_time = @ \/ s = "succeeded"]
WithStatus(row, s) ==
  [row EXCEPT !.status = s, !.start_time = @ \/ s = "running", !.end_time = @ \/ s \in Final]

\* UPDATE ... WHERE id: waits for the row, fails for a bad status, may find no row.
Update(c, t, i, ok, row) ==
  IF ~ ok THEN Throw(c)
  ELSE /\ ~ Locked(c, t, i)
       /\ IF Has(t, i) THEN Write(c, t, i, row, {}, "log") ELSE Nothing(c, "log")

UpdateExperimentStatus(c) ==
  LET k == call[c] IN
  /\ Runs(c, "UpdateExperimentStatus", "begun")
  /\ Update(c, "Experiment", k.id, k.status \in ExperimentStatus,
            WithStatus(db["Experiment"][k.id], k.status))

CreateIteration(c) ==
  LET k == call[c] IN
  /\ Runs(c, "CreateIteration", "begun")
  /\ IF Has("Experiment", k.experiment_id) /\ Has("Node", k.node_id)
       THEN Insert(c, "Iteration",
                  [experiment_id |-> k.experiment_id, node_id |-> k.node_id,
                   status |-> "queued", output_data |-> FALSE, end_time |-> FALSE],
                  {}, "log")
       ELSE Throw(c)

UpdateIterationStatus(c) ==
  LET k == call[c]
      row == db["Iteration"][k.id]
  IN
  /\ Runs(c, "UpdateIterationStatus", "begun")
  /\ Update(c, "Iteration", k.id, k.status \in IterationStatus,
            [row EXCEPT !.status = k.status, !.output_data = @ \/ k.output_data,
                        !.end_time = @ \/ k.status \in Final])

RegisterNode(c) ==
  /\ Runs(c, "RegisterNode", "begun")
  /\ Insert(c, "Node", [status |-> "active"], {}, "log")

UpdateNodeStatus(c) ==
  LET k == call[c] IN
  /\ Runs(c, "UpdateNodeStatus", "begun")
  /\ Update(c, "Node", k.node_id, k.status \in NodeStatus, [status |-> k.status])

UnregisterNode(c) ==
  /\ Runs(c, "UnregisterNode", "begun")
  /\ Update(c, "Node", call[c].node_id, TRUE, [status |-> "inactive"])

\* one_row() and result[0] throw when there is no such row.
Get(c, t, i) == IF Has(t, i) THEN Nothing(c, "commit") ELSE Throw(c)
GetExperiment(c) == Runs(c, "GetExperiment", "begun") /\ Get(c, "Experiment", call[c].id)
GetIteration(c) == Runs(c, "GetIteration", "begun") /\ Get(c, "Iteration", call[c].id)
GetNode(c) == Runs(c, "GetNode", "begun") /\ Get(c, "Node", call[c].node_id)

\* Page 0 asks for an OFFSET out of the range of bigint.
List(c) ==
  /\ Runs(c, "List", "begun")
  /\ IF call[c].page_num = 0 THEN Throw(c) ELSE Nothing(c, "commit")

\* Entries refer to the node of the call (an UPDATE may have found none), to the node and
\* the experiment just written, or to nothing.
RefersToNoNode(c) ==
  "node_id" \in DOMAIN call[c] /\ call[c].node_id # NoId /\ ~ Has("Node", call[c].node_id)

LogInserted(c) ==
  /\ txn' = [txn EXCEPT ![c].log = @ + 1]
  /\ Go(c, "commit")
  /\ UNCHANGED <<server, conn, call>>

\* Mutant: the entry is written in a transaction of its own.
InnerLog_OwnTransaction(c) ==
  /\ Runs(c, call[c].op, "log")
  /\ IF RefersToNoNode(c) THEN Throw(c)
     ELSE /\ logged' = (logged + 1) % Wrap
          /\ Go(c, "commit")
          /\ UNCHANGED <<database, db, conn, call, txn>>

\* The subtransaction: its error passes through ExecuteTransaction and undoes all.
InnerLog(c) ==
  /\ Runs(c, call[c].op, "log")
  /\ IF RefersToNoNode(c) THEN Throw(c) ELSE LogInserted(c)

LogCall(c) ==
  /\ Runs(c, "Log", "begun")
  /\ IF call[c].severity = "bad" \/ RefersToNoNode(c)
       THEN Throw(c)
       ELSE LogInserted(c)

----------------------------------------------------------------------------
(* Connections, and the database itself.                                   *)

Connect(c) ==
  /\ step[c] = "idle"
  /\ ~ CheckConnection(c)   \* otherwise Already_Connected
  /\ database # "absent"    \* otherwise Broken_Connection
  /\ conn' = [conn EXCEPT ![c] = "open"]
  /\ UNCHANGED <<server, step, call, txn>>

Disconnect(c) ==
  /\ step[c] = "idle"
  /\ conn' = [conn EXCEPT ![c] = "closed"]
  /\ UNCHANGED <<server, step, call, txn>>

\* The server ends sessions: their transactions are undone, their locks go.
EndSessions(S) ==
  /\ conn' = [c \in Clients |-> IF c \in S /\ conn[c] = "open" THEN "stale" ELSE conn[c]]
  /\ txn' = [c \in Clients |-> IF c \in S THEN NoTxn ELSE txn[c]]

LoseSession(c) ==
  /\ conn[c] = "open"
  /\ EndSessions({c})
  /\ UNCHANGED <<server, step, call>>

\* CreateDatabase, DropDatabase: a connection to template1, then the check.
StartAdmin(c, k) ==
  /\ step[c] = "idle"
  /\ k.op \in AdminOps
  /\ call' = [call EXCEPT ![c] = k]
  /\ Go(c, "check")
  /\ UNCHANGED <<server, conn, txn>>

CheckDatabaseExistence(c) ==
  /\ step[c] = "check"
  /\ LET exists == database # "absent" IN
     IF call[c].op = "CreateDatabase"
       THEN Go(c, IF exists THEN "connect" ELSE "create") /\ UNCHANGED <<call, txn>>
       ELSE IF exists THEN Go(c, "terminate") /\ UNCHANGED <<call, txn>>
       ELSE End(c)
  /\ UNCHANGED <<server, conn>>

InTemplate(c) == step[c] \in {"check", "create", "terminate", "drop"}

\* Fails if it exists by now, or if another session still uses template1.
CreateDatabase(c) ==
  /\ step[c] = "create"
  /\ \/ /\ database = "absent" /\ ~ \E d \in Others(c) : InTemplate(d)
        /\ database' = "empty"
        /\ Go(c, "connect")
        /\ UNCHANGED <<db, logged, conn, call, txn>>
     \/ /\ database # "absent" \/ \E d \in Others(c) : InTemplate(d)
        /\ Throw(c)

\* TryConnect to what was created or found.
ConnectCreated(c) ==
  /\ step[c] = "connect"
  /\ Throw(c)

FillDatabase(c) ==
  /\ step[c] = "idle"
  /\ database = "empty"   \* Broken_Connection if absent, SQL_ERROR if there are tables
  /\ database' = "filled"
  /\ UNCHANGED <<db, logged, conn, step, call, txn>>

TerminateAllDbConnections(c) ==
  /\ step[c] = "terminate"
  /\ EndSessions({d \in Clients : conn[d] = "open"})
  /\ Go(c, "drop")
  /\ UNCHANGED <<server, call>>

\* Mutant: DROP DATABASE ... WITH (FORCE) replaced by a drop that does not look.
DropDatabase_Blind(c) ==
  /\ step[c] = "drop"
  /\ database' = "absent" /\ db' = EmptyDb
  /\ logged' = 0
  /\ End(c)
  /\ UNCHANGED conn

\* DROP DATABASE fails if somebody connected after the sessions were ended.
DropDatabase(c) ==
  /\ step[c] = "drop"
  /\ IF database = "absent" \/ \E d \in Clients : conn[d] = "open"
       THEN Throw(c)
       ELSE /\ database' = "absent" /\ db' = EmptyDb
            /\ logged' = 0
            /\ End(c)
            /\ UNCHANGED conn

----------------------------------------------------------------------------

Init ==
  /\ database = "absent" /\ db = EmptyDb
  /\ logged = 0
  /\ conn = [c \in Clients |-> "closed"]
  /\ step = [c \in Clients |-> "idle"]
  /\ call = [c \in Clients |-> NoCall]
  /\ txn = [c \in Clients |-> NoTxn]

Statement(c) ==
  \/ CreateUser(c) \/ AuthenticateUser(c) \/ UpdateLastLogin(c) \/ DeleteUser(c)
  \/ CreateExperiment(c) \/ UpdateExperimentStatus(c) \/ GetExperiment(c)
  \/ CreateIteration(c) \/ UpdateIterationStatus(c) \/ GetIteration(c)
  \/ RegisterNode(c) \/ UpdateNodeStatus(c) \/ UnregisterNode(c) \/ GetNode(c)
  \/ List(c) \/ LogCall(c) \/ InnerLog(c) \/ NoTables(c) \/ StatementBreaks(c)

Admin(c) ==
  \/ CheckDatabaseExistence(c) \/ CreateDatabase(c) \/ ConnectCreated(c)
  \/ TerminateAllDbConnections(c) \/ DropDatabase(c)

\* What goes on by itself once a call has begun.
Proceed(c) == Statement(c) \/ Commit(c) \/ Admin(c)

Next == \E c \in Clients :
  \/ \E k \in Calls[c] : Begin(c, k) \/ StartAdmin(c, k)
  \/ Connect(c) \/ Disconnect(c) \/ FillDatabase(c)
  \/ CommitInDoubt(c) \/ LoseSession(c)
  \/ Proceed(c)

\* The server serves those who wait for a lock in turn, so a call is not overtaken
\* for ever; nobody has to begin one, and sessions need not break.
Spec == Init /\ [][Next]_vars /\ \A c \in Clients : SF_vars(Proceed(c))

----------------------------------------------------------------------------

\* The tables hold rows of their types, and a transaction is open in a call only.
TypeOK ==
  /\ database \in {"absent", "empty", "filled"}
  /\ \A t \in Tables : DOMAIN db[t] \subseteq Id(t) /\ \A i \in DOMAIN db[t] : db[t][i] \in Row(t)
  /\ logged \in 0 .. Wrap - 1
  /\ conn \in [Clients -> {"closed", "open", "stale"}]
  /\ \A c \in Clients : /\ call[c] \in Calls[c] \union {NoCall}
                        /\ call[c] = NoCall <=> step[c] = "idle"
                        /\ step[c] = "idle" => txn[c] = NoTxn

\* The foreign keys: a user with an experiment that is being created is not deleted,
\* and an iteration never outruns the experiment and the node it belongs to.
ReferencesExist ==
  /\ \A e \in DOMAIN db["Experiment"] : Has("User", db["Experiment"][e].user_id)
  /\ \A i \in DOMAIN db["Iteration"] :
       Has("Experiment", db["Iteration"][i].experiment_id) /\ Has("Node", db["Iteration"][i].node_id)

\* Whatever order the statuses come in (the service takes any), who runs was started
\* and who has finished has an end time.
StampsFollowStatus ==
  /\ \A e \in DOMAIN db["Experiment"] : LET row == db["Experiment"][e] IN
       (row.status = "running" => row.start_time) /\ (row.status \in Final => row.end_time)
  /\ \A i \in DOMAIN db["Iteration"] : LET row == db["Iteration"][i] IN
       row.status \in Final => row.end_time

\* A service whose connection is alive has a database behind it: DropDatabase ends the
\* sessions first and fails on one that slipped in between.
SessionsHaveDatabase == \A c \in Clients : conn[c] = "open" => database # "absent"

\* Experiments, iterations and nodes change together with exactly one log entry, and the
\* entry of a call that failed is undone with it: entries come with a commit only.
ChangesAreLogged == [][ database' # "absent" =>
  LET changed == \E t \in {"Experiment", "Iteration", "Node"} : db'[t] # db[t] IN
  /\ changed => logged' = (logged + 1) % Wrap
  /\ logged' # logged => \E c \in Clients : step[c] = "commit" /\ step'[c] = "idle"
  ]_vars

\* No call hangs on a row that a failed, broken or finished call has locked.
CallsReturn == \A c \in Clients : step[c] # "idle" ~> step[c] = "idle"
=============================================================================
