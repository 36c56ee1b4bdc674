--------------------------- MODULE DatabaseProofs ---------------------------
(***************************************************************************)
(* Proofs about the database layer, for every set of clients, whatever     *)
(* they ask for, and every number of rows.  What makes the tables right at *)
(* a commit is known of the transactions before: IInv says what each one   *)
(* has written and which rows the locks keep as they are until it ends.    *)
(***************************************************************************)
EXTENDS Database, TLAPS

Steps == {"idle", "begun", "update", "log", "commit", "check", "create", "connect", "terminate", "drop"}
Keys == {x \in Tables \X Nat : x[2] \in Id(x[1])}
Written(c, t, i) == txn[c].writes[<<t, i>>]

----------------------------------------------------------------------------
(* The invariant.                                                          *)

\* Nothing was written, nothing is locked.
Blank(c) == DOMAIN txn[c].writes = {} /\ txn[c].log = 0 /\ txn[c].shares = {}

\* A transaction holds something only between its statement and its end, on a session that
\* is alive; what is logged is logged before the commit.
Session(c) ==
  /\ call[c] \in Calls[c] \union {NoCall}
  /\ call[c] = NoCall <=> step[c] = "idle"
  /\ step[c] = "idle" => txn[c] = NoTxn
  /\ conn[c] = "open" => database # "absent"
  /\ txn[c] = [writes |-> txn[c].writes, log |-> txn[c].log, shares |-> txn[c].shares]
  /\ DOMAIN txn[c].writes \subseteq Keys
  /\ txn[c].log \in 0 .. 1
  /\ conn[c] # "open" \/ step[c] \notin {"log", "commit"} => Blank(c)
  /\ step[c] = "log" => txn[c].log = 0
  /\ step[c] = "commit" => \A t \in Tables : \A i \in Id(t) :
       Wrote(c, t, i) /\ t # "User" => txn[c].log = 1

Shaped ==
  /\ step \in [Clients -> Steps]
  /\ conn \in [Clients -> {"closed", "open", "stale"}]
  /\ DOMAIN call = Clients /\ DOMAIN txn = Clients

Sessions == Shaped /\ \A c \in Clients : Session(c)

\* The database and its tables.
IsTable(f) == f = [i \in DOMAIN f |-> f[i]]
DbTyped ==
  /\ database \in {"absent", "empty", "filled"}
  /\ \A t \in Tables : /\ IsTable(db[t])
                       /\ DOMAIN db[t] \subseteq Id(t)
                       /\ \A i \in DOMAIN db[t] : db[t][i] \in Row(t)
  /\ logged \in 0 .. Wrap - 1

\* No two transactions have written the same row.
RowLocks == \A c, d \in Clients, t \in Tables : \A i \in Id(t) :
  Wrote(c, t, i) /\ Wrote(d, t, i) => c = d

RunningStarted(row) == row.status = "running" => row.start_time
FinalEnded(row) == row.status \in Final => row.end_time

\* Only users are deleted; what else is written is a row of the table with its stamps.
WritesTyped == \A c \in Clients, t \in Tables : \A i \in Id(t) : Wrote(c, t, i) =>
  \/ t = "User" /\ Written(c, t, i) = Deleted
  \/ /\ Written(c, t, i) \in Row(t)
     /\ t = "Experiment" => RunningStarted(Written(c, t, i)) /\ FinalEnded(Written(c, t, i))
     /\ t = "Iteration" => FinalEnded(Written(c, t, i))

\* Who is being deleted is referred to by no experiment, written or committed.
DeletionsFree == \A c \in Clients, u \in Id("User") :
  Wrote(c, "User", u) /\ Written(c, "User", u) = Deleted =>
    /\ \A e \in DOMAIN db["Experiment"] : db["Experiment"][e].user_id # u
    /\ \A d \in Clients, e \in Id("Experiment") :
         Wrote(d, "Experiment", e) => Written(d, "Experiment", e).user_id # u

\* What is written refers to rows that are there; the user of an experiment is kept by the
\* lock of the foreign key or by the experiment as it was committed.
WritesRefer == \A c \in Clients :
  /\ \A e \in Id("Experiment") : Wrote(c, "Experiment", e) =>
       LET u == Written(c, "Experiment", e).user_id IN
       /\ Has("User", u)
       /\ \/ <<"User", u>> \in txn[c].shares
          \/ Has("Experiment", e) /\ db["Experiment"][e].user_id = u
  /\ \A i \in Id("Iteration") : Wrote(c, "Iteration", i) =>
       Has("Experiment", Written(c, "Iteration", i).experiment_id) /\ Has("Node", Written(c, "Iteration", i).node_id)

\* What holds of the rows, committed and written.
Data ==
  /\ RowLocks /\ WritesTyped /\ DeletionsFree /\ WritesRefer
  /\ ReferencesExist /\ StampsFollowStatus

IInv == DbTyped /\ Sessions /\ Data

LEMMA Implied == IInv => TypeOK /\ ReferencesExist /\ StampsFollowStatus /\ SessionsHaveDatabase
<1> SUFFICES ASSUME IInv PROVE TypeOK /\ SessionsHaveDatabase
  BY DEF IInv, Data
<1>1. TypeOK
  BY DEF IInv, DbTyped, Sessions, Session, Shaped, TypeOK
<1>2. SessionsHaveDatabase
  BY DEF IInv, Sessions, Session, SessionsHaveDatabase
<1> QED BY <1>1, <1>2

----------------------------------------------------------------------------
(* Facts about the constants and the operators.                            *)

LEMMA NoTxnBlank ==
  /\ NoTxn = [writes |-> NoTxn.writes, log |-> NoTxn.log, shares |-> NoTxn.shares]
  /\ DOMAIN NoTxn.writes = {} /\ NoTxn.log = 0 /\ NoTxn.shares = {}
BY DEF NoTxn

LEMMA RowNotDeleted == \A t \in Tables : Deleted \notin Row(t)
BY DEF Tables, Row, User, Experiment, Iteration, Node, Deleted

\* What a call carries.
LEMMA CallTypes ==
  ASSUME NEW k \in AllCalls
  PROVE  /\ k.op # "none"
         /\ k.op \in {"CreateUser", "AuthenticateUser"} => k.login \in Logins /\ k.password \in Passwords
         /\ k.op \in {"DeleteUser", "CreateExperiment"} => k.user_id \in Id("User")
         /\ k.op = "UpdateExperimentStatus" => k.id \in Id("Experiment")
         /\ k.op = "CreateIteration" => k.experiment_id \in Id("Experiment") /\ k.node_id \in Id("Node")
         /\ k.op = "UpdateIterationStatus" => k.id \in Id("Iteration") /\ k.output_data \in BOOLEAN
         /\ k.op \in {"UpdateNodeStatus", "UnregisterNode"} => k.node_id \in Id("Node")
BY DEF AllCalls, AdminOps

LEMMA CallOf ==
  ASSUME Sessions, NEW c \in Clients, step[c] # "idle"
  PROVE  call[c] \in AllCalls
<1>1. Calls[c] \subseteq AllCalls
  BY DatabaseAssumption
<1> QED BY <1>1 DEF Sessions, Session

----------------------------------------------------------------------------
(* Sessions: a step of one client.                                         *)

LEMMA SessionKept ==
  ASSUME NEW d, Session(d), step'[d] = step[d], call'[d] = call[d], txn'[d] = txn[d],
         conn'[d] = conn[d] \/ (conn'[d] # "open" /\ conn[d] # "open"),
         conn'[d] = "open" => database' = database \/ database' # "absent"
  PROVE  Session(d)'
BY DEF Session, Blank, Wrote

\* A call ends.
LEMMA EndSession ==
  ASSUME Sessions, NEW c \in Clients, End(c),
         conn' = conn \/ conn' = [conn EXCEPT ![c] = "closed"],
         database' = database \/ database' # "absent"
  PROVE  /\ Sessions' /\ txn'[c] = NoTxn
         /\ \A d \in Others(c) : txn'[d] = txn[d]
<1>1. Shaped'
  BY DEF Sessions, Shaped, End, Go, Steps
<1>2. step'[c] = "idle" /\ call'[c] = NoCall /\ txn'[c] = NoTxn /\ (conn'[c] = "open" => conn[c] = "open")
  BY DEF Sessions, Shaped, End, Go
<1>3. \A d \in Others(c) :
        step'[d] = step[d] /\ call'[d] = call[d] /\ txn'[d] = txn[d] /\ conn'[d] = conn[d]
  BY DEF Sessions, Shaped, End, Go, Others
<1>4. \A d \in Others(c) : Session(d)'
  BY <1>3, SessionKept DEF Others, Sessions
<1>5. Session(c)'
  <2>1. conn'[c] = "open" => database' # "absent"
    BY <1>2 DEF Sessions, Session
  <2> QED BY <1>2, <2>1, NoTxnBlank DEF Session, Blank
<1> QED BY <1>1, <1>2, <1>3, <1>4, <1>5 DEF Sessions, Others

\* A statement writes w and locks shares in a transaction that held nothing.
LEMMA KeepSession ==
  ASSUME Sessions, NEW c \in Clients, step[c] \in {"begun", "update"}, conn[c] = "open",
         NEW w, DOMAIN w \subseteq Keys, NEW shares, NEW next \in {"update", "log", "commit"},
         next = "update" => DOMAIN w = {} /\ shares = {},
         next = "commit" => \A x \in DOMAIN w : x[1] = "User",
         Keep(c, w, shares, next)
  PROVE  /\ Sessions'
         /\ DOMAIN txn'[c].writes = DOMAIN w
         /\ \A x \in DOMAIN w : txn'[c].writes[x] = w[x]
         /\ txn'[c].shares = shares
         /\ \A d \in Others(c) : txn'[d] = txn[d]
<1>0. Blank(c) /\ call[c] # NoCall /\ call[c] \in Calls[c] \union {NoCall} /\ database # "absent"
      /\ txn[c] = [writes |-> txn[c].writes, log |-> txn[c].log, shares |-> txn[c].shares]
  BY DEF Sessions, Session
<1>1. txn' = [txn EXCEPT
         ![c].writes = [x \in DOMAIN w \union DOMAIN @ |-> IF x \in DOMAIN w THEN w[x] ELSE @[x]],
         ![c].shares = @ \union shares]
      /\ step' = [step EXCEPT ![c] = next] /\ UNCHANGED <<conn, call, database>>
  BY DEF Keep, Go, server
<1>2. txn'[c] = [writes |-> [x \in DOMAIN w \union DOMAIN txn[c].writes |->
                              IF x \in DOMAIN w THEN w[x] ELSE txn[c].writes[x]],
                 log |-> txn[c].log, shares |-> txn[c].shares \union shares]
  BY <1>0, <1>1 DEF Sessions, Shaped
<1>3. /\ DOMAIN txn'[c].writes = DOMAIN w
      /\ \A x \in DOMAIN w : txn'[c].writes[x] = w[x]
      /\ txn'[c].shares = shares /\ txn'[c].log = 0
      /\ txn'[c] = [writes |-> txn'[c].writes, log |-> txn'[c].log, shares |-> txn'[c].shares]
  BY <1>0, <1>2 DEF Blank
<1>4. Shaped'
  BY <1>1 DEF Sessions, Shaped, Steps
<1>5. \A d \in Others(c) : txn'[d] = txn[d] /\ step'[d] = step[d]
  BY <1>1 DEF Sessions, Shaped, Others
<1>6. \A d \in Others(c) : Session(d)'
  BY <1>1, <1>5, SessionKept DEF Others, Sessions
<1>7. step'[c] = next
  BY <1>1 DEF Sessions, Shaped
<1>8. Session(c)'
  <2>1. next = "commit" => \A t \in Tables : \A i \in Id(t) : Wrote(c, t, i)' => t = "User"
    BY <1>3 DEF Wrote
  <2>2. Blank(c)' \/ next \in {"log", "commit"}
    BY <1>3 DEF Blank
  <2>3. next \notin {"idle"} /\ (next = "log" => txn'[c].log = 0) /\ txn'[c].log \in 0 .. 1
    BY <1>3
  <2>4. next = "commit" => \A t \in Tables : \A i \in Id(t) :
          Wrote(c, t, i)' /\ t # "User" => txn'[c].log = 1
    BY <2>1
  <2>5. call'[c] = call[c] /\ conn'[c] = conn[c] /\ database' = database
    BY <1>1
  <2>6. DOMAIN txn'[c].writes \subseteq Keys
    BY <1>3
  <2> QED BY <1>0, <1>3, <1>7, <2>2, <2>3, <2>4, <2>5, <2>6 DEF Session
<1> QED BY <1>3, <1>4, <1>5, <1>6, <1>8 DEF Sessions, Others

LEMMA LogSession ==
  ASSUME Sessions, NEW c \in Clients, step[c] \in {"begun", "log"}, conn[c] = "open", LogInserted(c)
  PROVE  /\ Sessions'
         /\ \A d \in Clients : txn'[d].writes = txn[d].writes /\ txn'[d].shares = txn[d].shares
<1>0. /\ txn[c].log = 0 /\ call[c] # NoCall /\ call[c] \in Calls[c] \union {NoCall} /\ database # "absent"
      /\ txn[c] = [writes |-> txn[c].writes, log |-> txn[c].log, shares |-> txn[c].shares]
      /\ DOMAIN txn[c].writes \subseteq Keys
  BY DEF Sessions, Session, Blank
<1>1. txn' = [txn EXCEPT ![c].log = @ + 1] /\ step' = [step EXCEPT ![c] = "commit"]
      /\ UNCHANGED <<conn, call, database>>
  BY DEF LogInserted, Go, server
<1>2. txn'[c] = [writes |-> txn[c].writes, log |-> 1, shares |-> txn[c].shares] /\ step'[c] = "commit"
  BY <1>0, <1>1 DEF Sessions, Shaped
<1>3. Shaped'
  BY <1>1 DEF Sessions, Shaped, Steps
<1>4. \A d \in Others(c) : txn'[d] = txn[d] /\ step'[d] = step[d]
  BY <1>1 DEF Sessions, Shaped, Others
<1>5. \A d \in Others(c) : Session(d)'
  BY <1>1, <1>4, SessionKept DEF Others, Sessions
<1>6. Session(c)'
  <2>1. /\ txn'[c] = [writes |-> txn'[c].writes, log |-> txn'[c].log, shares |-> txn'[c].shares]
        /\ txn'[c].log = 1 /\ DOMAIN txn'[c].writes \subseteq Keys
    BY <1>0, <1>2
  <2>2. call'[c] = call[c] /\ conn'[c] = "open" /\ database' = database
    BY <1>1
  <2> QED BY <1>0, <1>2, <2>1, <2>2 DEF Session
<1> QED BY <1>2, <1>3, <1>4, <1>5, <1>6 DEF Sessions, Others

----------------------------------------------------------------------------
(* Data: what the transactions have written and what is committed.         *)

\* A step that commits nothing and only drops what a transaction wrote.
LEMMA DataKept ==
  ASSUME Data, db' = db,
         \A d \in Clients : \/ txn'[d].writes = txn[d].writes /\ txn'[d].shares = txn[d].shares
                           \/ DOMAIN txn'[d].writes = {}
  PROVE  Data'
<1>1. \A d \in Clients : \A t, i : Wrote(d, t, i)' =>
        Wrote(d, t, i) /\ Written(d, t, i)' = Written(d, t, i) /\ txn'[d].shares = txn[d].shares
  BY DEF Wrote, Written
<1>2. RowLocks'
  BY <1>1 DEF Data, RowLocks
<1>3. WritesTyped'
  BY <1>1 DEF Data, WritesTyped
<1>4. DeletionsFree'
  BY <1>1 DEF Data, DeletionsFree
<1>5. WritesRefer'
  BY <1>1 DEF Data, WritesRefer, Has
<1>6. ReferencesExist' /\ StampsFollowStatus'
  BY DEF Data, ReferencesExist, StampsFollowStatus, Has
<1> QED BY <1>2, <1>3, <1>4, <1>5, <1>6 DEF Data

\* What a statement may write into row i of table t: no other transaction has written it;
\* a user to be deleted is referred to by no committed experiment and locked by no foreign
\* key; what is put there is a row of the table, and what it refers to is there.
May(c, t, i, row, shares) ==
  /\ \A d \in Others(c) : ~ Wrote(d, t, i)
  /\ \/ /\ t = "User" /\ row = Deleted
        /\ \A e \in DOMAIN db["Experiment"] : db["Experiment"][e].user_id # i
        /\ \A d \in Others(c) : <<"User", i>> \notin txn[d].shares
     \/ /\ row \in Row(t)
        /\ t = "Experiment" =>
             /\ RunningStarted(row) /\ FinalEnded(row) /\ Has("User", row.user_id)
             /\ \A d \in Others(c) :
                  ~ (Wrote(d, "User", row.user_id) /\ Written(d, "User", row.user_id) = Deleted)
             /\ \/ <<"User", row.user_id>> \in shares
                \/ Has("Experiment", i) /\ db["Experiment"][i].user_id = row.user_id
        /\ t = "Iteration" =>
             FinalEnded(row) /\ Has("Experiment", row.experiment_id) /\ Has("Node", row.node_id)

LEMMA DataWrite ==
  ASSUME Data, NEW c \in Clients, NEW t \in Tables, NEW i \in Id(t), NEW row, NEW shares,
         May(c, t, i, row, shares), db' = db, \A d \in Others(c) : txn'[d] = txn[d],
         DOMAIN txn'[c].writes = {<<t, i>>}, txn'[c].writes[<<t, i>>] = row, txn'[c].shares = shares
  PROVE  Data'
<1>1. \A d \in Others(c) : \A s, j : (Wrote(d, s, j)' <=> Wrote(d, s, j)) /\ Written(d, s, j)' = Written(d, s, j)
  BY DEF Wrote, Written
<1>2. \A s, j : Wrote(c, s, j)' <=> s = t /\ j = i
  BY DEF Wrote
<1>3. Written(c, t, i)' = row
  BY DEF Written
<1>4. RowLocks'
  BY <1>1, <1>2 DEF Data, RowLocks, May, Others
<1>5. WritesTyped'
  BY <1>1, <1>2, <1>3 DEF Data, WritesTyped, May, Others
<1>6. DeletionsFree'
  <2>1. ASSUME NEW u \in Id("User"), t = "User", i = u, row = Deleted
        PROVE  /\ \A e \in DOMAIN db["Experiment"] : db["Experiment"][e].user_id # u
               /\ \A d \in Clients, e \in Id("Experiment") :
                    Wrote(d, "Experiment", e)' => Written(d, "Experiment", e)'.user_id # u
    <3>1. /\ \A e \in DOMAIN db["Experiment"] : db["Experiment"][e].user_id # u
          /\ \A d \in Others(c) : <<"User", u>> \notin txn[d].shares
      BY <2>1, RowNotDeleted DEF May
    <3>2. ASSUME NEW d \in Clients, NEW e \in Id("Experiment"), Wrote(d, "Experiment", e)'
          PROVE  Written(d, "Experiment", e)'.user_id # u
      <4>1. d \in Others(c) /\ Wrote(d, "Experiment", e)
        BY <1>1, <1>2, <2>1, <3>2 DEF Others
      <4> QED BY <1>1, <3>1, <4>1 DEF Data, WritesRefer, Has
    <3> QED BY <3>1, <3>2
  <2>2. ASSUME NEW d \in Others(c), NEW u \in Id("User"), Wrote(d, "User", u), Written(d, "User", u) = Deleted
        PROVE  /\ \A e \in DOMAIN db["Experiment"] : db["Experiment"][e].user_id # u
               /\ \A b \in Clients, e \in Id("Experiment") :
                    Wrote(b, "Experiment", e)' => Written(b, "Experiment", e)'.user_id # u
    <3>1. d \in Clients
      BY DEF Others
    <3>2. /\ \A e \in DOMAIN db["Experiment"] : db["Experiment"][e].user_id # u
          /\ \A b \in Clients, e \in Id("Experiment") :
               Wrote(b, "Experiment", e) => Written(b, "Experiment", e).user_id # u
      BY <2>2, <3>1 DEF Data, DeletionsFree
    <3>3. t = "Experiment" => row.user_id # u
      BY <2>2 DEF May
    <3> QED BY <1>1, <1>2, <1>3, <3>2, <3>3 DEF Others
  <2> QED BY <1>1, <1>2, <1>3, <2>1, <2>2 DEF DeletionsFree, Others
<1>7. WritesRefer'
  <2>1. \A s, j : Has(s, j)' <=> Has(s, j)
    BY DEF Has
  <2>2. ASSUME NEW e \in Id("Experiment"), t = "Experiment", i = e
        PROVE  /\ Has("User", row.user_id)
               /\ \/ <<"User", row.user_id>> \in shares
                  \/ Has("Experiment", e) /\ db["Experiment"][e].user_id = row.user_id
    BY <2>2 DEF May
  <2>3. t = "Iteration" => Has("Experiment", row.experiment_id) /\ Has("Node", row.node_id)
    BY DEF May
  <2>4. ASSUME NEW d \in Others(c), NEW e \in Id("Experiment"), Wrote(d, "Experiment", e)
        PROVE  LET u == Written(d, "Experiment", e).user_id IN
               /\ Has("User", u)
               /\ \/ <<"User", u>> \in txn[d].shares
                  \/ Has("Experiment", e) /\ db["Experiment"][e].user_id = u
    BY <2>4 DEF Data, WritesRefer, Others
  <2>5. ASSUME NEW d \in Others(c), NEW j \in Id("Iteration"), Wrote(d, "Iteration", j)
        PROVE  Has("Experiment", Written(d, "Iteration", j).experiment_id) /\ Has("Node", Written(d, "Iteration", j).node_id)
    BY <2>5 DEF Data, WritesRefer, Others
  <2> QED BY <1>1, <1>2, <1>3, <2>1, <2>2, <2>3, <2>4, <2>5 DEF WritesRefer, Others
<1>8. ReferencesExist' /\ StampsFollowStatus'
  BY DEF Data, ReferencesExist, StampsFollowStatus, Has
<1> QED BY <1>4, <1>5, <1>6, <1>7, <1>8 DEF Data

----------------------------------------------------------------------------
(* Commit.                                                                 *)

\* A table after the transaction of c: what it wrote, and the rest as it was.
LEMMA MergeFacts ==
  ASSUME DbTyped, NEW c \in Clients, NEW t \in Tables, db'[t] = Merge(t, txn[c].writes)
  PROVE  /\ \A i \in Id(t) : Wrote(c, t, i) =>
              /\ i \in DOMAIN db'[t] <=> Written(c, t, i) # Deleted
              /\ i \in DOMAIN db'[t] => db'[t][i] = Written(c, t, i)
         /\ \A i \in Id(t) : ~ Wrote(c, t, i) =>
              /\ i \in DOMAIN db'[t] <=> i \in DOMAIN db[t]
              /\ i \in DOMAIN db'[t] => db'[t][i] = db[t][i]
         /\ DOMAIN db'[t] \subseteq Id(t) /\ IsTable(db'[t])
<1> DEFINE written == {i \in Id(t) : Wrote(c, t, i)}
           kept == {i \in DOMAIN db[t] \union written : i \notin written \/ Written(c, t, i) # Deleted}
<1>1. db'[t] = [i \in kept |-> IF i \in written THEN Written(c, t, i) ELSE db[t][i]]
  BY DEF Merge, Wrote, Written
<1>2. DOMAIN db[t] \subseteq Id(t)
  BY DEF DbTyped
<1>3. /\ DOMAIN db'[t] = kept
      /\ \A i \in kept : db'[t][i] = IF i \in written THEN Written(c, t, i) ELSE db[t][i]
  BY <1>1
<1>4. IsTable(db'[t])
  BY <1>1 DEF IsTable
<1> QED BY <1>2, <1>3, <1>4

LEMMA CommitStep ==
  ASSUME IInv, NEW c \in Clients, conn[c] = "open", Apply(c), End(c),
         conn' = conn \/ conn' = [conn EXCEPT ![c] = "closed"]
  PROVE  IInv'
<1> USE DEF IInv, Data
<1>0. /\ database' = database /\ logged' = (logged + txn[c].log) % Wrap
      /\ \A t \in Tables : db'[t] = Merge(t, txn[c].writes)
  BY DEF Apply
<1>1. /\ Sessions' /\ txn'[c] = NoTxn
      /\ \A d \in Others(c) : txn'[d] = txn[d]
  BY <1>0, EndSession
\* The transactions that are left.
<1>2. \A d \in Clients : \A s, j : Wrote(d, s, j)' =>
        d \in Others(c) /\ Wrote(d, s, j) /\ Written(d, s, j)' = Written(d, s, j) /\ txn'[d].shares = txn[d].shares
  BY <1>1, NoTxnBlank DEF Wrote, Written, Others
\* The rows that were written and those that were not.
<1>3. \A t \in Tables : \A i \in Id(t) :
        /\ Wrote(c, t, i) => /\ Has(t, i)' <=> Written(c, t, i) # Deleted
                             /\ Has(t, i)' => db'[t][i] = Written(c, t, i)
        /\ ~ Wrote(c, t, i) => /\ Has(t, i)' <=> Has(t, i)
                               /\ Has(t, i)' => db'[t][i] = db[t][i]
  BY <1>0, MergeFacts DEF Has
<1>4. \A t \in Tables : /\ DOMAIN db'[t] \subseteq Id(t) /\ DOMAIN db[t] \subseteq Id(t)
                        /\ IsTable(db'[t])
  BY <1>0, MergeFacts DEF DbTyped
<1>5. \A t \in Tables : \A i \in Id(t) : Wrote(c, t, i) =>
        \/ t = "User" /\ Written(c, t, i) = Deleted
        \/ Written(c, t, i) # Deleted /\ Written(c, t, i) \in Row(t)
  BY RowNotDeleted DEF WritesTyped
\* Only users disappear, and only those whom nobody refers to.
<1>6. \A t \in Tables \ {"User"} : \A i : Has(t, i) => Has(t, i)'
  BY <1>3, <1>4, <1>5 DEF Has
<1>7. \A u : Has("User", u) /\ ~ (Wrote(c, "User", u) /\ Written(c, "User", u) = Deleted) => Has("User", u)'
  BY <1>3, <1>4 DEF Has, Tables
<1>8. DbTyped'
  <2>1. \A t \in Tables : \A i \in DOMAIN db'[t] : db'[t][i] \in Row(t)
    BY <1>3, <1>4, <1>5 DEF Has, DbTyped
  <2>2. txn[c].log \in 0 .. 1
    BY DEF Sessions, Session
  <2>3. logged' \in 0 .. Wrap - 1
    BY <1>0, <2>2 DEF DbTyped, Wrap
  <2> QED BY <1>0, <1>4, <2>1, <2>3 DEF DbTyped
<1>9. RowLocks' /\ WritesTyped'
  BY <1>2 DEF RowLocks, WritesTyped
\* Each experiment is one that c wrote or one that was there, and so is each iteration.
<1>10. \A t \in Tables : \A i \in DOMAIN db'[t] :
         \/ Wrote(c, t, i) /\ i \in Id(t) /\ db'[t][i] = Written(c, t, i) /\ Written(c, t, i) \in Row(t)
         \/ Has(t, i) /\ i \in Id(t) /\ db'[t][i] = db[t][i]
  BY <1>3, <1>4, <1>5 DEF Has
<1>11. DeletionsFree'
  <2>1. ASSUME NEW d \in Clients, NEW u \in Id("User"), Wrote(d, "User", u)', Written(d, "User", u)' = Deleted
        PROVE  /\ \A e \in DOMAIN db'["Experiment"] : db'["Experiment"][e].user_id # u
               /\ \A b \in Clients, e \in Id("Experiment") :
                    Wrote(b, "Experiment", e)' => Written(b, "Experiment", e)'.user_id # u
    <3>1. Wrote(d, "User", u) /\ Written(d, "User", u) = Deleted
      BY <1>2, <2>1
    <3>2. /\ \A e \in DOMAIN db["Experiment"] : db["Experiment"][e].user_id # u
          /\ \A b \in Clients, e \in Id("Experiment") :
               Wrote(b, "Experiment", e) => Written(b, "Experiment", e).user_id # u
      BY <3>1 DEF DeletionsFree
    <3>3. ASSUME NEW e \in DOMAIN db'["Experiment"]
          PROVE  db'["Experiment"][e].user_id # u
      BY <1>10, <3>2 DEF Has, Tables
    <3> QED BY <1>2, <3>2, <3>3
  <2> QED BY <2>1 DEF DeletionsFree
\* What an experiment refers to stays, whether c wrote the experiment or it was there.
<1>12. ASSUME NEW e \in Id("Experiment"), NEW u, Wrote(c, "Experiment", e), u = Written(c, "Experiment", e).user_id
       PROVE  Has("User", u)'
  <2>1. Has("User", u) /\ u \in Id("User")
    BY <1>4, <1>12 DEF WritesRefer, Has, Tables
  <2>2. ~ (Wrote(c, "User", u) /\ Written(c, "User", u) = Deleted)
    BY <1>12, <2>1 DEF DeletionsFree
  <2> QED BY <1>7, <2>1, <2>2
<1>13. ASSUME NEW e \in DOMAIN db["Experiment"], NEW u, u = db["Experiment"][e].user_id
       PROVE  Has("User", u)'
  <2>1. Has("User", u) /\ u \in Id("User")
    BY <1>4, <1>13 DEF ReferencesExist, Has, Tables
  <2>2. ~ (Wrote(c, "User", u) /\ Written(c, "User", u) = Deleted)
    BY <1>13, <2>1 DEF DeletionsFree
  <2> QED BY <1>7, <2>1, <2>2
<1>14. ASSUME NEW e \in DOMAIN db'["Experiment"]
       PROVE  Has("User", db["Experiment"][e].user_id)'
  BY <1>10, <1>12, <1>13 DEF Has, Tables
<1>15. ASSUME NEW i \in DOMAIN db'["Iteration"]
       PROVE  /\ Has("Experiment", db["Iteration"][i].experiment_id)'
              /\ Has("Node", db["Iteration"][i].node_id)'
  <2>1. CASE Wrote(c, "Iteration", i) /\ i \in Id("Iteration") /\ db'["Iteration"][i] = Written(c, "Iteration", i)
    <3>1. Has("Experiment", db'["Iteration"][i].experiment_id) /\ Has("Node", db'["Iteration"][i].node_id)
      BY <2>1 DEF WritesRefer
    <3> QED BY <1>6, <3>1 DEF Has, Tables
  <2>2. CASE Has("Iteration", i) /\ db'["Iteration"][i] = db["Iteration"][i]
    <3>1. Has("Experiment", db'["Iteration"][i].experiment_id) /\ Has("Node", db'["Iteration"][i].node_id)
      BY <2>2 DEF ReferencesExist, Has
    <3> QED BY <1>6, <3>1 DEF Has, Tables
  <2> QED BY <1>10, <2>1, <2>2 DEF Tables
<1>16. ReferencesExist'
  BY <1>14, <1>15 DEF ReferencesExist
<1>17. StampsFollowStatus'
  <2>1. ASSUME NEW e \in DOMAIN db'["Experiment"]
        PROVE  RunningStarted(db'["Experiment"][e]) /\ FinalEnded(db'["Experiment"][e])
    <3>1. CASE Wrote(c, "Experiment", e) /\ e \in Id("Experiment") /\ db'["Experiment"][e] = Written(c, "Experiment", e)
      BY <3>1 DEF WritesTyped, Tables
    <3>2. CASE Has("Experiment", e) /\ db'["Experiment"][e] = db["Experiment"][e]
      BY <3>2 DEF StampsFollowStatus, Has, RunningStarted, FinalEnded
    <3> QED BY <1>10, <3>1, <3>2 DEF Tables
  <2>2. ASSUME NEW i \in DOMAIN db'["Iteration"]
        PROVE  FinalEnded(db'["Iteration"][i])
    <3>1. CASE Wrote(c, "Iteration", i) /\ i \in Id("Iteration") /\ db'["Iteration"][i] = Written(c, "Iteration", i)
      BY <3>1 DEF WritesTyped, Tables
    <3>2. CASE Has("Iteration", i) /\ db'["Iteration"][i] = db["Iteration"][i]
      BY <3>2 DEF StampsFollowStatus, Has, FinalEnded
    <3> QED BY <1>10, <3>1, <3>2 DEF Tables
  <2> QED BY <2>1, <2>2 DEF StampsFollowStatus, RunningStarted, FinalEnded
\* What the others have written still refers to rows that are there.
<1>18. WritesRefer'
  <2>1. ASSUME NEW d \in Clients, NEW e \in Id("Experiment"), Wrote(d, "Experiment", e)',
               NEW u, u = Written(d, "Experiment", e)
        PROVE  /\ Has("User", u.user_id)'
               /\ \/ <<"User", u.user_id>> \in txn'[d].shares
                  \/ Has("Experiment", e)' /\ db'["Experiment"][e].user_id = u.user_id
    <3>1. d \in Others(c) /\ Wrote(d, "Experiment", e) /\ txn'[d].shares = txn[d].shares
      BY <1>2, <2>1
    <3>2. /\ Has("User", u.user_id) /\ u.user_id \in Id("User")
          /\ \/ <<"User", u.user_id>> \in txn[d].shares
             \/ Has("Experiment", e) /\ db["Experiment"][e].user_id = u.user_id
      BY <1>4, <2>1, <3>1 DEF WritesRefer, Has, Tables
    <3>3. ~ (Wrote(c, "User", u.user_id) /\ Written(c, "User", u.user_id) = Deleted)
      BY <2>1, <3>1, <3>2 DEF DeletionsFree
    <3>4. ~ Wrote(c, "Experiment", e)
      BY <3>1 DEF RowLocks, Others, Tables
    <3>5. Has("Experiment", e) => Has("Experiment", e)' /\ db'["Experiment"][e] = db["Experiment"][e]
      BY <1>3, <3>4 DEF Tables
    <3> QED BY <1>7, <3>1, <3>2, <3>3, <3>5
  <2>2. ASSUME NEW d \in Clients, NEW i \in Id("Iteration"), Wrote(d, "Iteration", i)',
               NEW row, row = Written(d, "Iteration", i)
        PROVE  Has("Experiment", row.experiment_id)' /\ Has("Node", row.node_id)'
    <3>1. Has("Experiment", row.experiment_id) /\ Has("Node", row.node_id)
      BY <1>2, <2>2 DEF WritesRefer
    <3> QED BY <1>6, <3>1 DEF Tables
  <2> QED BY <1>2, <2>1, <2>2 DEF WritesRefer
<1> QED BY <1>1, <1>8, <1>9, <1>11, <1>16, <1>17, <1>18

----------------------------------------------------------------------------
(* The statements.                                                         *)

\* What a statement comes to: it throws, writes nothing, or writes a row it may write.
Effect(c) ==
  \/ Throw(c)
  \/ \E next \in {"update", "log", "commit"} : Nothing(c, next)
  \/ \E t \in Tables : \E i \in Id(t) : \E row, shares :
       /\ shares \subseteq Keys
       /\ May(c, t, i, row, shares)
       /\ Write(c, t, i, row, shares, IF t = "User" THEN "commit" ELSE "log")

LEMMA ThrowStep ==
  ASSUME IInv, NEW c \in Clients, Throw(c) PROVE IInv'
<1>1. End(c) /\ UNCHANGED <<database, db, logged, conn>>
  BY DEF Throw, server
<1>2. Sessions' /\ txn'[c] = NoTxn /\ \A d \in Others(c) : txn'[d] = txn[d]
  BY <1>1, EndSession DEF IInv
<1>3. Data'
  BY <1>1, <1>2, DataKept, NoTxnBlank DEF IInv, Others
<1>4. DbTyped'
  BY <1>1 DEF IInv, DbTyped
<1> QED BY <1>2, <1>3, <1>4 DEF IInv

LEMMA EffectStep ==
  ASSUME IInv, NEW c \in Clients, step[c] \in {"begun", "update"}, conn[c] = "open", Effect(c)
  PROVE  IInv'
<1>1. CASE Throw(c)
  BY <1>1, ThrowStep
<1>2. ASSUME NEW next \in {"update", "log", "commit"}, Nothing(c, next)
      PROVE  IInv'
  <2> DEFINE w == << >>
  <2>1. DOMAIN w = {} /\ Keep(c, w, {}, next)
    BY <1>2 DEF Nothing
  <2> HIDE DEF w
  <2>2. /\ Sessions' /\ DOMAIN txn'[c].writes = {}
        /\ \A d \in Others(c) : txn'[d] = txn[d]
    BY <2>1, KeepSession DEF IInv
  <2>3. UNCHANGED <<database, db, logged>>
    BY <2>1 DEF Keep, server
  <2>4. Data'
    BY <2>2, <2>3, DataKept DEF IInv, Others
  <2> QED BY <2>2, <2>3, <2>4 DEF IInv, DbTyped
<1>3. ASSUME NEW t \in Tables, NEW i \in Id(t), NEW row, NEW shares, shares \subseteq Keys,
             May(c, t, i, row, shares), Write(c, t, i, row, shares, IF t = "User" THEN "commit" ELSE "log")
      PROVE  IInv'
  <2> DEFINE w == [x \in {<<t, i>>} |-> row]
             next == IF t = "User" THEN "commit" ELSE "log"
  <2>1. /\ DOMAIN w = {<<t, i>>} /\ w[<<t, i>>] = row /\ Keep(c, w, shares, next)
        /\ next \in {"log", "commit"} /\ (next = "commit" => t = "User")
    BY <1>3 DEF Write
  <2>2. <<t, i>> \in Keys
    BY DatabaseAssumption DEF Keys, Id
  <2> HIDE DEF w, next
  <2>3. /\ Sessions' /\ DOMAIN txn'[c].writes = {<<t, i>>} /\ txn'[c].writes[<<t, i>>] = row
        /\ txn'[c].shares = shares /\ \A d \in Others(c) : txn'[d] = txn[d]
    <3>1. next = "commit" => \A x \in DOMAIN w : x[1] = "User"
      BY <2>1
    <3>2. DOMAIN w \subseteq Keys
      BY <2>1, <2>2
    <3> QED BY <2>1, <3>1, <3>2, KeepSession DEF IInv
  <2>4. UNCHANGED <<database, db, logged>>
    BY <2>1 DEF Keep, server
  <2>5. Data'
    BY <1>3, <2>3, <2>4, DataWrite DEF IInv
  <2> QED BY <2>3, <2>4, <2>5 DEF IInv, DbTyped
<1> QED BY <1>1, <1>2, <1>3 DEF Effect

\* An INSERT of a row whose references are there.
LEMMA InsertEffect ==
  ASSUME NEW c \in Clients, NEW t \in Tables, NEW row, NEW shares, shares \subseteq Keys,
         \A i \in Id(t) : (\A d \in Clients : ~ Wrote(d, t, i)) => May(c, t, i, row, shares),
         Insert(c, t, row, shares, IF t = "User" THEN "commit" ELSE "log")
  PROVE  Effect(c)
BY DEF Insert, Effect

\* An UPDATE of a row that no other transaction has written.
LEMMA UpdateEffect ==
  ASSUME NEW c \in Clients, NEW t \in Tables \ {"User"}, NEW i \in Id(t), NEW ok, NEW row,
         ok /\ Has(t, i) /\ (\A d \in Others(c) : ~ Wrote(d, t, i)) => May(c, t, i, row, {}),
         Update(c, t, i, ok, row)
  PROVE  Effect(c)
<1>1. CASE Throw(c)
  BY <1>1 DEF Effect
<1>2. CASE Nothing(c, "log")
  BY <1>2 DEF Effect
<1>3. CASE ok /\ Has(t, i) /\ ~ Locked(c, t, i) /\ Write(c, t, i, row, {}, "log")
  <2>1. May(c, t, i, row, {})
    BY <1>3 DEF Locked
  <2> QED BY <1>3, <2>1 DEF Effect
<1> QED BY <1>1, <1>2, <1>3 DEF Update

LEMMA UserCalls ==
  ASSUME IInv, NEW c \in Clients,
         CreateUser(c) \/ AuthenticateUser(c) \/ UpdateLastLogin(c) \/ DeleteUser(c)
  PROVE  Effect(c)
<1>0. call[c] \in AllCalls
  BY CallOf DEF IInv, CreateUser, AuthenticateUser, UpdateLastLogin, DeleteUser, Runs
<1>1. CASE CreateUser(c)
  <2> DEFINE row == [login |-> call[c].login, hashed_password |-> call[c].password]
  <2>1. row \in Row("User")
    BY <1>0, <1>1, CallTypes DEF CreateUser, Runs, Row, User
  <2>2. Throw(c) \/ Insert(c, "User", row, {}, "commit")
    BY <1>1 DEF CreateUser
  <2> HIDE DEF row
  <2>3. \A i \in Id("User") : (\A d \in Clients : ~ Wrote(d, "User", i)) => May(c, "User", i, row, {})
    BY <2>1 DEF May, Others
  <2> QED BY <2>2, <2>3, InsertEffect DEF Effect, Tables
<1>2. CASE AuthenticateUser(c)
  BY <1>2 DEF AuthenticateUser, Effect
<1>3. CASE UpdateLastLogin(c)
  <2>1. CASE Nothing(c, "commit")
    BY <2>1 DEF Effect
  <2>2. ASSUME NEW u \in DOMAIN db["User"], ~ Locked(c, "User", u),
               Write(c, "User", u, db["User"][u], {}, "commit")
        PROVE  Effect(c)
    <3>1. u \in Id("User") /\ db["User"][u] \in Row("User") /\ Has("User", u)
      BY DEF IInv, DbTyped, Tables, Has
    <3>2. May(c, "User", u, db["User"][u], {})
      BY <2>2, <3>1 DEF May, Locked
    <3> QED BY <2>2, <3>1, <3>2 DEF Effect, Tables
  <2> QED BY <1>3, <2>1, <2>2 DEF UpdateLastLogin, WithLogin
<1>4. CASE DeleteUser(c)
  <2> DEFINE u == call[c].user_id
  <2>1. u \in Id("User")
    BY <1>0, <1>4, CallTypes DEF DeleteUser, Runs
  <2>2. CASE Has("User", u) /\ Write(c, "User", u, Deleted, {}, "commit")
              /\ ~ \E e \in DOMAIN db["Experiment"] : db["Experiment"][e].user_id = u
    <3>1. May(c, "User", u, Deleted, {})
      BY <1>4, <2>2 DEF DeleteUser, May, Locked
    <3> QED BY <2>1, <2>2, <3>1 DEF Effect, Tables
  <2>3. CASE Throw(c) \/ Nothing(c, "commit")
    BY <2>3 DEF Effect
  <2> QED BY <1>4, <2>2, <2>3 DEF DeleteUser
<1> QED BY <1>1, <1>2, <1>3, <1>4

LEMMA ExperimentCalls ==
  ASSUME IInv, NEW c \in Clients, CreateExperiment(c) \/ UpdateExperimentStatus(c)
  PROVE  Effect(c)
<1>0. call[c] \in AllCalls
  BY CallOf DEF IInv, CreateExperiment, UpdateExperimentStatus, Runs
<1>1. CASE CreateExperiment(c)
  <2> DEFINE u == call[c].user_id
             row == [user_id |-> u, status |-> "created", start_time |-> FALSE, end_time |-> FALSE]
  <2>1. u \in Id("User")
    BY <1>0, <1>1, CallTypes DEF CreateExperiment, Runs
  <2>2. row \in Row("Experiment") /\ row.user_id = u /\ RunningStarted(row) /\ FinalEnded(row)
    BY <2>1 DEF Row, Experiment, ExperimentStatus, RunningStarted, FinalEnded, Final
  <2>3. \/ Throw(c)
        \/ Has("User", u) /\ Insert(c, "Experiment", row, UserKey(u), "log")
    BY <1>1 DEF CreateExperiment
  <2>4. UserKey(u) \subseteq Keys /\ <<"User", u>> \in UserKey(u)
    BY <2>1, DatabaseAssumption DEF UserKey, Keys, Tables, Id
  <2>5. \A d \in Others(c) : ~ (Wrote(d, "User", u) /\ Written(d, "User", u) = Deleted)
    BY <1>1 DEF CreateExperiment, Written
  <2> HIDE DEF u, row
  <2>6. ASSUME Has("User", u)
        PROVE  \A i \in Id("Experiment") : (\A d \in Clients : ~ Wrote(d, "Experiment", i)) =>
                 May(c, "Experiment", i, row, UserKey(u))
    BY <2>2, <2>4, <2>5, <2>6 DEF May, Others
  <2>7. CASE Has("User", u) /\ Insert(c, "Experiment", row, UserKey(u), "log")
    BY <2>4, <2>6, <2>7, InsertEffect DEF Tables
  <2> QED BY <2>3, <2>7 DEF Effect
<1>2. CASE UpdateExperimentStatus(c)
  <2> DEFINE e == call[c].id
             s == call[c].status
             ok == s \in ExperimentStatus
             old == db["Experiment"][e]
             row == WithStatus(old, s)
  <2>1. e \in Id("Experiment")
    BY <1>0, <1>2, CallTypes DEF UpdateExperimentStatus, Runs
  <2>2. Update(c, "Experiment", e, ok, row)
    BY <1>2 DEF UpdateExperimentStatus
  <2>3. ASSUME ok, Has("Experiment", e), \A d \in Others(c) : ~ Wrote(d, "Experiment", e)
        PROVE  May(c, "Experiment", e, row, {})
    <3>1. old \in Experiment
      BY <2>3 DEF IInv, DbTyped, Has, Tables, Row
    <3>2. RunningStarted(old) /\ FinalEnded(old) /\ Has("User", old.user_id)
      BY <2>3 DEF IInv, Data, StampsFollowStatus, ReferencesExist, Has, RunningStarted, FinalEnded
    <3> HIDE DEF old
    <3>3. /\ row \in Experiment /\ row.user_id = old.user_id
          /\ row.status = s /\ (s = "running" => row.start_time) /\ (s \in Final => row.end_time)
      BY <2>3, <3>1 DEF WithStatus, Experiment
    <3>4. RunningStarted(row) /\ FinalEnded(row) /\ row \in Row("Experiment")
      BY <3>3 DEF RunningStarted, FinalEnded, Row
    <3> HIDE DEF row
    <3>5. \A d \in Others(c) : ~ (Wrote(d, "User", row.user_id) /\ Written(d, "User", row.user_id) = Deleted)
      <4>1. old.user_id \in Id("User")
        BY <3>1 DEF Experiment
      <4> QED BY <2>3, <3>3, <4>1 DEF IInv, Data, DeletionsFree, Has, Others, old
    <3> QED BY <2>3, <3>2, <3>3, <3>4, <3>5 DEF May, old
  <2> HIDE DEF e, ok, row
  <2> QED BY <2>1, <2>2, <2>3, UpdateEffect DEF Tables
<1> QED BY <1>1, <1>2

LEMMA IterationCalls ==
  ASSUME IInv, NEW c \in Clients, CreateIteration(c) \/ UpdateIterationStatus(c)
  PROVE  Effect(c)
<1>0. call[c] \in AllCalls
  BY CallOf DEF IInv, CreateIteration, UpdateIterationStatus, Runs
<1>1. CASE CreateIteration(c)
  <2> DEFINE e == call[c].experiment_id
             n == call[c].node_id
             row == [experiment_id |-> e, node_id |-> n, status |-> "queued", output_data |-> FALSE, end_time |-> FALSE]
  <2>1. e \in Id("Experiment") /\ n \in Id("Node")
    BY <1>0, <1>1, CallTypes DEF CreateIteration, Runs
  <2>2. row \in Row("Iteration") /\ row.experiment_id = e /\ row.node_id = n /\ FinalEnded(row)
    BY <2>1 DEF Row, Iteration, IterationStatus, FinalEnded, Final
  <2>3. \/ Throw(c)
        \/ Has("Experiment", e) /\ Has("Node", n) /\ Insert(c, "Iteration", row, {}, "log")
    BY <1>1 DEF CreateIteration
  <2> HIDE DEF e, n, row
  <2>4. ASSUME Has("Experiment", e), Has("Node", n)
        PROVE  \A i \in Id("Iteration") : (\A d \in Clients : ~ Wrote(d, "Iteration", i)) =>
                 May(c, "Iteration", i, row, {})
    BY <2>2, <2>4 DEF May, Others
  <2>5. CASE Has("Experiment", e) /\ Has("Node", n) /\ Insert(c, "Iteration", row, {}, "log")
    BY <2>4, <2>5, InsertEffect DEF Tables
  <2> QED BY <2>3, <2>5 DEF Effect
<1>2. CASE UpdateIterationStatus(c)
  <2> DEFINE i == call[c].id
             s == call[c].status
             ok == s \in IterationStatus
             old == db["Iteration"][i]
             row == [old EXCEPT !.status = s, !.output_data = @ \/ call[c].output_data,
                                !.end_time = @ \/ s \in Final]
  <2>1. i \in Id("Iteration") /\ call[c].output_data \in BOOLEAN
    BY <1>0, <1>2, CallTypes DEF UpdateIterationStatus, Runs
  <2>2. Update(c, "Iteration", i, ok, row)
    BY <1>2 DEF UpdateIterationStatus
  <2>3. ASSUME ok, Has("Iteration", i), \A d \in Others(c) : ~ Wrote(d, "Iteration", i)
        PROVE  May(c, "Iteration", i, row, {})
    <3>1. old \in Iteration
      BY <2>3 DEF IInv, DbTyped, Has, Tables, Row
    <3>2. Has("Experiment", old.experiment_id) /\ Has("Node", old.node_id)
      BY <2>3 DEF IInv, Data, ReferencesExist, Has
    <3> HIDE DEF old
    <3>3. /\ row \in Iteration /\ row.experiment_id = old.experiment_id /\ row.node_id = old.node_id
          /\ row.status = s /\ (s \in Final => row.end_time)
      BY <2>1, <2>3, <3>1 DEF Iteration
    <3>4. FinalEnded(row) /\ row \in Row("Iteration")
      BY <3>3 DEF FinalEnded, Row
    <3> HIDE DEF row
    <3> QED BY <2>3, <3>2, <3>3, <3>4 DEF May
  <2> HIDE DEF i, ok, row
  <2> QED BY <2>1, <2>2, <2>3, UpdateEffect DEF Tables
<1> QED BY <1>1, <1>2

LEMMA NodeCalls ==
  ASSUME IInv, NEW c \in Clients, RegisterNode(c) \/ UpdateNodeStatus(c) \/ UnregisterNode(c)
  PROVE  Effect(c)
<1>0. call[c] \in AllCalls
  BY CallOf DEF IInv, RegisterNode, UpdateNodeStatus, UnregisterNode, Runs
<1>1. CASE RegisterNode(c)
  <2>1. \A i \in Id("Node") : (\A d \in Clients : ~ Wrote(d, "Node", i)) =>
          May(c, "Node", i, [status |-> "active"], {})
    BY DEF May, Others, Row, Node, NodeStatus
  <2> QED BY <1>1, <2>1, InsertEffect DEF RegisterNode, Tables
<1>2. ASSUME NEW ok, NEW s, ok => s \in NodeStatus, call[c].node_id \in Id("Node"),
             Update(c, "Node", call[c].node_id, ok, [status |-> s])
      PROVE  Effect(c)
  <2>1. ok /\ (\A d \in Others(c) : ~ Wrote(d, "Node", call[c].node_id)) =>
          May(c, "Node", call[c].node_id, [status |-> s], {})
    BY <1>2 DEF May, Row, Node
  <2> QED BY <1>2, <2>1, UpdateEffect DEF Tables
<1>3. CASE UpdateNodeStatus(c)
  <2>1. call[c].node_id \in Id("Node")
    BY <1>0, <1>3, CallTypes DEF UpdateNodeStatus, Runs
  <2> DEFINE s == call[c].status
             ok == s \in NodeStatus
  <2>2. Update(c, "Node", call[c].node_id, ok, [status |-> s]) /\ (ok => s \in NodeStatus)
    BY <1>3 DEF UpdateNodeStatus
  <2> HIDE DEF ok, s
  <2> QED BY <1>2, <2>1, <2>2
<1>4. CASE UnregisterNode(c)
  <2>1. call[c].node_id \in Id("Node")
    BY <1>0, <1>4, CallTypes DEF UnregisterNode, Runs
  <2>2. Update(c, "Node", call[c].node_id, TRUE, [status |-> "inactive"])
    BY <1>4 DEF UnregisterNode
  <2>3. "inactive" \in NodeStatus
    BY DEF NodeStatus
  <2> QED BY <1>2, <2>1, <2>2, <2>3
<1> QED BY <1>1, <1>3, <1>4

LEMMA OtherCalls ==
  ASSUME IInv, NEW c \in Clients, GetExperiment(c) \/ GetIteration(c) \/ GetNode(c) \/ List(c) \/ NoTables(c)
  PROVE  Effect(c)
BY DEF GetExperiment, GetIteration, GetNode, List, NoTables, Get, Effect

LEMMA LogStep ==
  ASSUME IInv, NEW c \in Clients, InnerLog(c) \/ LogCall(c)
  PROVE  IInv'
<1>1. CASE Throw(c)
  BY <1>1, ThrowStep
<1>2. CASE LogInserted(c)
  <2>1. step[c] \in {"begun", "log"} /\ conn[c] = "open"
    BY DEF InnerLog, LogCall, Runs
  <2>2. /\ Sessions'
        /\ \A d \in Clients : txn'[d].writes = txn[d].writes /\ txn'[d].shares = txn[d].shares
    BY <1>2, <2>1, LogSession DEF IInv
  <2>3. UNCHANGED <<database, db, logged>>
    BY <1>2 DEF LogInserted, server
  <2>4. Data'
    BY <2>2, <2>3, DataKept DEF IInv
  <2> QED BY <2>2, <2>3, <2>4 DEF IInv, DbTyped
<1> QED BY <1>1, <1>2 DEF InnerLog, LogCall

LEMMA BreakStep ==
  ASSUME IInv, NEW c \in Clients, StatementBreaks(c) PROVE IInv'
<1>1. End(c) /\ conn' = [conn EXCEPT ![c] = "closed"] /\ UNCHANGED <<database, db, logged>>
  BY DEF StatementBreaks, server
<1>2. Sessions' /\ txn'[c] = NoTxn /\ \A d \in Others(c) : txn'[d] = txn[d]
  BY <1>1, EndSession DEF IInv
<1>3. Data'
  BY <1>1, <1>2, DataKept, NoTxnBlank DEF IInv, Others
<1> QED BY <1>1, <1>2, <1>3 DEF IInv, DbTyped

LEMMA StatementStep ==
  ASSUME IInv, NEW c \in Clients, Statement(c) PROVE IInv'
<1>1. CASE InnerLog(c) \/ LogCall(c)
  BY <1>1, LogStep
<1>2. CASE StatementBreaks(c)
  BY <1>2, BreakStep
<1>3. CASE CreateUser(c) \/ AuthenticateUser(c) \/ UpdateLastLogin(c) \/ DeleteUser(c)
  <2>1. step[c] \in {"begun", "update"} /\ conn[c] = "open"
    BY <1>3 DEF CreateUser, AuthenticateUser, UpdateLastLogin, DeleteUser, Runs
  <2> QED BY <1>3, <2>1, UserCalls, EffectStep
<1>4. CASE CreateExperiment(c) \/ UpdateExperimentStatus(c)
  <2>1. step[c] \in {"begun", "update"} /\ conn[c] = "open"
    BY <1>4 DEF CreateExperiment, UpdateExperimentStatus, Runs
  <2> QED BY <1>4, <2>1, ExperimentCalls, EffectStep
<1>5. CASE CreateIteration(c) \/ UpdateIterationStatus(c)
  <2>1. step[c] \in {"begun", "update"} /\ conn[c] = "open"
    BY <1>5 DEF CreateIteration, UpdateIterationStatus, Runs
  <2> QED BY <1>5, <2>1, IterationCalls, EffectStep
<1>6. CASE RegisterNode(c) \/ UpdateNodeStatus(c) \/ UnregisterNode(c)
  <2>1. step[c] \in {"begun", "update"} /\ conn[c] = "open"
    BY <1>6 DEF RegisterNode, UpdateNodeStatus, UnregisterNode, Runs
  <2> QED BY <1>6, <2>1, NodeCalls, EffectStep
<1>7. CASE GetExperiment(c) \/ GetIteration(c) \/ GetNode(c) \/ List(c) \/ NoTables(c)
  <2>1. step[c] \in {"begun", "update"} /\ conn[c] = "open"
    BY <1>7 DEF GetExperiment, GetIteration, GetNode, List, NoTables, Runs
  <2> QED BY <1>7, <2>1, OtherCalls, EffectStep
<1> QED BY <1>1, <1>2, <1>3, <1>4, <1>5, <1>6, <1>7 DEF Statement

----------------------------------------------------------------------------
(* Connections, the database, and all the steps.                           *)

\* A step of one client that does not touch the tables.
LEMMA AloneStep ==
  ASSUME IInv, NEW c \in Clients, Shaped', Session(c)',
         \A d \in Others(c) : step'[d] = step[d] /\ call'[d] = call[d] /\ txn'[d] = txn[d] /\ conn'[d] = conn[d],
         \/ txn'[c].writes = txn[c].writes /\ txn'[c].shares = txn[c].shares
         \/ DOMAIN txn'[c].writes = {},
         database' = database \/ database' \in {"empty", "filled"}, db' = db, logged' = logged
  PROVE  IInv'
<1>1. \A d \in Others(c) : Session(d)'
  BY SessionKept DEF IInv, Sessions, Others
<1>2. Sessions'
  BY <1>1 DEF Sessions, Others
<1>3. Data'
  BY DataKept DEF IInv, Others
<1>4. DbTyped'
  BY DEF IInv, DbTyped
<1> QED BY <1>2, <1>3, <1>4 DEF IInv

LEMMA BeginStep ==
  ASSUME IInv, NEW c \in Clients, NEW k \in Calls[c], Begin(c, k) \/ StartAdmin(c, k)
  PROVE  IInv'
<1>0. k # NoCall
  <2>1. k \in AllCalls
    BY DatabaseAssumption
  <2> QED BY <2>1, CallTypes DEF NoCall
<1>1. PICK s \in {"begun", "check"} :
        /\ step' = [step EXCEPT ![c] = s] /\ call' = [call EXCEPT ![c] = k]
        /\ UNCHANGED <<database, db, logged, conn, txn>>
  BY DEF Begin, StartAdmin, Go, server
<1>2. Shaped'
  BY <1>1 DEF IInv, Sessions, Shaped, Steps
<1>3. step[c] = "idle" /\ txn[c] = NoTxn /\ Blank(c)
  BY NoTxnBlank DEF Begin, StartAdmin, IInv, Sessions, Session, Blank
<1>4. step'[c] = s /\ call'[c] = k /\ txn'[c] = txn[c] /\ conn'[c] = conn[c] /\ Blank(c)'
  BY <1>1, <1>3 DEF IInv, Sessions, Shaped, Blank
<1>5. Session(c)'
  BY <1>0, <1>1, <1>3, <1>4 DEF IInv, Sessions, Session
<1>6. \A d \in Others(c) : step'[d] = step[d] /\ call'[d] = call[d]
  BY <1>1 DEF IInv, Sessions, Shaped, Others
<1> QED BY <1>1, <1>2, <1>5, <1>6, AloneStep

LEMMA ConnectionStep ==
  ASSUME IInv, NEW c \in Clients, Connect(c) \/ Disconnect(c) \/ FillDatabase(c) \/ LoseSession(c)
  PROVE  IInv'
<1>1. CASE Connect(c) \/ Disconnect(c)
  <2>1. PICK n \in {"open", "closed"} :
          conn' = [conn EXCEPT ![c] = n] /\ (n = "open" => database # "absent")
    BY <1>1 DEF Connect, Disconnect
  <2>2. step[c] = "idle" /\ UNCHANGED <<database, db, logged, step, call, txn>>
    BY <1>1 DEF Connect, Disconnect, server
  <2>3. Shaped' /\ conn'[c] = n /\ \A d \in Others(c) : conn'[d] = conn[d]
    BY <2>1, <2>2 DEF IInv, Sessions, Shaped, Others
  <2>4. Blank(c)'
    BY <2>2, NoTxnBlank DEF IInv, Sessions, Session, Blank
  <2>5. Session(c)'
    BY <2>1, <2>2, <2>3, <2>4 DEF IInv, Sessions, Session
  <2> QED BY <2>2, <2>3, <2>5, AloneStep
<1>2. CASE FillDatabase(c)
  <2>1. database' = "filled" /\ UNCHANGED <<db, logged, conn, step, call, txn>>
    BY <1>2 DEF FillDatabase
  <2>2. Shaped'
    BY <2>1 DEF IInv, Sessions, Shaped
  <2>3. Session(c)'
    BY <2>1, SessionKept DEF IInv, Sessions
  <2> QED BY <2>1, <2>2, <2>3, AloneStep
<1>3. CASE LoseSession(c)
  <2>1. /\ conn' = [d \in Clients |-> IF d = c /\ conn[d] = "open" THEN "stale" ELSE conn[d]]
        /\ txn' = [d \in Clients |-> IF d = c THEN NoTxn ELSE txn[d]]
        /\ UNCHANGED <<database, db, logged, step, call>>
    BY <1>3 DEF LoseSession, EndSessions, server
  <2>2. conn[c] = "open"
    BY <1>3 DEF LoseSession
  <2>3. Shaped' /\ conn'[c] = "stale" /\ txn'[c] = NoTxn
    BY <2>1, <2>2 DEF IInv, Sessions, Shaped
  <2>4. \A d \in Others(c) : conn'[d] = conn[d] /\ txn'[d] = txn[d]
    BY <2>1 DEF Others
  <2>5. Blank(c)' /\ DOMAIN txn'[c].writes = {}
    BY <2>3, NoTxnBlank DEF Blank
  <2>6. Session(c)'
    <3>1. /\ call'[c] \in Calls[c] \union {NoCall} /\ (call'[c] = NoCall <=> step'[c] = "idle")
      BY <2>1 DEF IInv, Sessions, Session
    <3>2. \A t \in Tables : \A i \in Id(t) : ~ Wrote(c, t, i)'
      BY <2>5 DEF Wrote
    <3>3. txn'[c].log = 0 /\ txn'[c] = [writes |-> txn'[c].writes, log |-> txn'[c].log, shares |-> txn'[c].shares]
      BY <2>3, NoTxnBlank
    <3> QED BY <2>3, <2>5, <3>1, <3>2, <3>3 DEF Session
  <2> QED BY <2>1, <2>3, <2>4, <2>5, <2>6, AloneStep
<1> QED BY <1>1, <1>2, <1>3

\* TerminateAllDbConnections: every session that is alive, with its transaction.
LEMMA TerminateStep ==
  ASSUME IInv, NEW c \in Clients, TerminateAllDbConnections(c) PROVE IInv'
<1>1. /\ conn' = [d \in Clients |-> IF conn[d] = "open" THEN "stale" ELSE conn[d]]
      /\ txn' = [d \in Clients |-> IF conn[d] = "open" THEN NoTxn ELSE txn[d]]
      /\ step' = [step EXCEPT ![c] = "drop"] /\ step[c] = "terminate"
      /\ UNCHANGED <<database, db, logged, call>>
  BY DEF TerminateAllDbConnections, EndSessions, Go, server
<1>2. Shaped'
  BY <1>1 DEF IInv, Sessions, Shaped, Steps
<1>3. \A d \in Clients : /\ conn'[d] # "open" /\ txn'[d] \in {NoTxn, txn[d]}
                         /\ step'[d] = IF d = c THEN "drop" ELSE step[d]
  BY <1>1 DEF IInv, Sessions, Shaped
<1>4. \A d \in Clients : Blank(d)'
  <2>1. ASSUME NEW d \in Clients, conn[d] # "open" PROVE Blank(d)
    BY <2>1 DEF IInv, Sessions, Session
  <2>2. ASSUME NEW d \in Clients, conn[d] # "open" PROVE Blank(d)'
    BY <1>1, <2>1, <2>2 DEF Blank
  <2>3. ASSUME NEW d \in Clients, conn[d] = "open" PROVE Blank(d)'
    BY <1>1, <2>3, NoTxnBlank DEF Blank
  <2> QED BY <2>2, <2>3
<1>5. ASSUME NEW d \in Clients PROVE Session(d)'
  <2>1. Session(d)
    BY DEF IInv, Sessions
  <2>2. txn'[d] = [writes |-> txn'[d].writes, log |-> txn'[d].log, shares |-> txn'[d].shares]
    BY <1>3, <2>1, NoTxnBlank DEF Session
  <2>3. call'[d] \in Calls[d] \union {NoCall} /\ (call'[d] = NoCall <=> step'[d] = "idle")
    BY <1>1, <1>3, <2>1 DEF Session
  <2>4. step'[d] = "idle" => txn'[d] = NoTxn
    BY <1>3, <2>1 DEF Session
  <2>5. Blank(d)' /\ conn'[d] # "open"
    BY <1>3, <1>4
  <2>6. \A t \in Tables : \A i \in Id(t) : ~ Wrote(d, t, i)'
    BY <2>5 DEF Blank, Wrote
  <2> QED BY <2>2, <2>3, <2>4, <2>5, <2>6 DEF Session, Blank
<1>6. Data'
  BY <1>1, <1>4, DataKept DEF IInv, Blank
<1> QED BY <1>1, <1>2, <1>5, <1>6 DEF IInv, Sessions, DbTyped

\* DropDatabase, when no session is alive: then no transaction holds anything.
LEMMA DropStep ==
  ASSUME IInv, NEW c \in Clients, DropDatabase(c) PROVE IInv'
<1>1. CASE Throw(c)
  BY <1>1, ThrowStep
<1>2. CASE /\ \A d \in Clients : conn[d] # "open"
           /\ database' = "absent" /\ db' = EmptyDb /\ logged' = 0 /\ End(c) /\ UNCHANGED conn
  <2>1. /\ step' = [step EXCEPT ![c] = "idle"] /\ call' = [call EXCEPT ![c] = NoCall]
        /\ txn' = [txn EXCEPT ![c] = NoTxn]
    BY <1>2 DEF End, Go
  <2>2. Shaped' /\ step'[c] = "idle" /\ call'[c] = NoCall /\ txn'[c] = NoTxn
    BY <1>2, <2>1 DEF IInv, Sessions, Shaped, Steps
  <2>3. \A d \in Others(c) : step'[d] = step[d] /\ call'[d] = call[d] /\ txn'[d] = txn[d] /\ conn'[d] = conn[d]
    BY <1>2, <2>1 DEF IInv, Sessions, Shaped, Others
  <2>4. \A d \in Others(c) : Session(d)'
    BY <1>2, <2>3, SessionKept DEF IInv, Sessions, Others
  <2>5. Session(c)'
    BY <1>2, <2>2, NoTxnBlank DEF Session, Blank
  <2>6. Sessions'
    BY <2>2, <2>4, <2>5 DEF Sessions, Others
  <2>7. \A d \in Clients : DOMAIN txn'[d].writes = {}
    BY <1>2, <2>6 DEF Sessions, Session, Blank
  <2>8. \A t \in Tables : DOMAIN db'[t] = {} /\ IsTable(db'[t])
    BY <1>2 DEF EmptyDb, IsTable
  <2>9. Data'
    BY <2>7, <2>8 DEF Data, RowLocks, WritesTyped, DeletionsFree, WritesRefer, ReferencesExist,
       StampsFollowStatus, Wrote, Tables
  <2>10. DbTyped'
    BY <1>2, <2>8 DEF DbTyped, Wrap
  <2> QED BY <2>6, <2>9, <2>10 DEF IInv
<1> QED BY <1>1, <1>2 DEF DropDatabase

LEMMA AdminStep ==
  ASSUME IInv, NEW c \in Clients, Admin(c) PROVE IInv'
<1>1. CASE Throw(c)
  BY <1>1, ThrowStep
\* From one step of the call to the next, perhaps creating the database.
<1>2. ASSUME NEW s \in {"connect", "create", "terminate"}, step[c] \in {"check", "create"},
             step' = [step EXCEPT ![c] = s], UNCHANGED <<db, logged, conn, call, txn>>,
             database' = database \/ database' = "empty"
      PROVE  IInv'
  <2>1. Shaped' /\ step'[c] = s /\ \A d \in Others(c) : step'[d] = step[d]
    BY <1>2 DEF IInv, Sessions, Shaped, Steps, Others
  <2>2. Blank(c)' /\ Session(c)
    BY <1>2 DEF IInv, Sessions, Session, Blank
  <2>3. Session(c)'
    BY <1>2, <2>1, <2>2 DEF Session
  <2> QED BY <1>2, <2>1, <2>3, AloneStep
<1>3. CASE CheckDatabaseExistence(c)
  <2>1. CASE End(c) /\ UNCHANGED <<server, conn>>
    BY <1>1, <2>1 DEF Throw
  <2> QED BY <1>2, <1>3, <2>1 DEF CheckDatabaseExistence, Go, server
<1>4. CASE CreateDatabase(c)
  BY <1>1, <1>2, <1>4 DEF CreateDatabase, Go
<1>5. CASE ConnectCreated(c)
  BY <1>1, <1>5 DEF ConnectCreated
<1> QED BY <1>3, <1>4, <1>5, TerminateStep, DropStep DEF Admin

----------------------------------------------------------------------------
(* The theorems.                                                           *)

LEMMA IInvInit == Init => IInv
<1> SUFFICES ASSUME Init PROVE IInv
  OBVIOUS
<1>1. \A c \in Clients : step[c] = "idle" /\ conn[c] = "closed" /\ call[c] = NoCall /\ txn[c] = NoTxn
  BY DEF Init
<1>2. \A c \in Clients : Blank(c)
  BY <1>1, NoTxnBlank DEF Blank
<1>3. \A c \in Clients : Session(c)
  BY <1>1, <1>2, NoTxnBlank DEF Session, Blank
<1>4. Shaped
  BY DEF Init, Shaped, Steps
<1>5. \A t \in Tables : DOMAIN db[t] = {} /\ IsTable(db[t])
  BY DEF Init, EmptyDb, IsTable
<1>6. Data
  BY <1>2, <1>5 DEF Data, RowLocks, WritesTyped, DeletionsFree, WritesRefer, ReferencesExist,
     StampsFollowStatus, Wrote, Tables, Blank
<1>7. DbTyped
  BY <1>5 DEF Init, DbTyped, Wrap
<1> QED BY <1>3, <1>4, <1>6, <1>7 DEF IInv, Sessions

LEMMA IInvStep == IInv /\ [Next]_vars => IInv'
<1> SUFFICES ASSUME IInv, [Next]_vars PROVE IInv'
  OBVIOUS
<1>1. ASSUME NEW c \in Clients, NEW k \in Calls[c], Begin(c, k) \/ StartAdmin(c, k) PROVE IInv'
  BY <1>1, BeginStep
<1>2. ASSUME NEW c \in Clients, Connect(c) \/ Disconnect(c) \/ FillDatabase(c) \/ LoseSession(c) PROVE IInv'
  BY <1>2, ConnectionStep
<1>3. ASSUME NEW c \in Clients, CommitInDoubt(c) \/ Commit(c) PROVE IInv'
  BY <1>3, CommitStep DEF CommitInDoubt, Commit
<1>4. ASSUME NEW c \in Clients, Statement(c) \/ Admin(c) PROVE IInv'
  BY <1>4, StatementStep, AdminStep
<1>5. CASE UNCHANGED vars
  <2>1. \A c \in Clients : Session(c)'
    BY <1>5, SessionKept DEF IInv, Sessions, vars
  <2>2. Shaped'
    BY <1>5 DEF IInv, Sessions, Shaped, vars
  <2>3. Data'
    BY <1>5, DataKept DEF IInv, vars
  <2> QED BY <1>5, <2>1, <2>2, <2>3 DEF IInv, Sessions, DbTyped, vars
<1> QED BY <1>1, <1>2, <1>3, <1>4, <1>5 DEF Next, Proceed

\* What DbService's transactions have written and locked, and what is committed, at every
\* moment of any calls of any clients, with sessions that break and a database that is
\* dropped and created again.
THEOREM InductiveInvariant == Spec => []IInv
<1> QED BY IInvInit, IInvStep, PTL DEF Spec

\* Tables hold rows of their types, and transactions are open inside calls only.
THEOREM TypeCorrect == Spec => []TypeOK
<1> QED BY InductiveInvariant, Implied, PTL

\* No foreign key ever dangles, though DeleteUser and CreateExperiment of the same user may
\* overlap in any way.
THEOREM KeysHold == Spec => []ReferencesExist
<1> QED BY InductiveInvariant, Implied, PTL

\* Whoever runs has a start time and whoever finished has an end time, whatever order
\* UpdateExperimentStatus and UpdateIterationStatus are called in.
THEOREM StampsHold == Spec => []StampsFollowStatus
<1> QED BY InductiveInvariant, Implied, PTL

\* DropDatabase never pulls the database from under a session that is alive.
THEOREM NoDroppedSession == Spec => []SessionsHaveDatabase
<1> QED BY InductiveInvariant, Implied, PTL

\* What a commit does to the log.
LEMMA CommitLogged ==
  ASSUME IInv, NEW c \in Clients, step[c] = "commit", Apply(c), End(c)
  PROVE  /\ (\E t \in {"Experiment", "Iteration", "Node"} : db'[t] # db[t]) => logged' = (logged + 1) % Wrap
         /\ logged' # logged => \E d \in Clients : step[d] = "commit" /\ step'[d] = "idle"
<1>1. ASSUME NEW t \in {"Experiment", "Iteration", "Node"}, db'[t] # db[t]
      PROVE  logged' = (logged + 1) % Wrap
  <2>1. db'[t] = Merge(t, txn[c].writes) /\ t \in Tables /\ t # "User"
    BY DEF Apply, Tables
  <2>2. \E i \in Id(t) : Wrote(c, t, i)
    <3>1. SUFFICES ASSUME \A i \in Id(t) : ~ Wrote(c, t, i) PROVE db'[t] = db[t]
      BY <1>1
    <3>2. Merge(t, txn[c].writes) = [i \in DOMAIN db[t] |-> db[t][i]]
      BY <3>1 DEF Merge, Wrote
    <3> QED BY <2>1, <3>2 DEF IInv, DbTyped, IsTable
  <2>3. txn[c].log = 1
    BY <2>1, <2>2 DEF IInv, Sessions, Session
  <2> QED BY <2>3 DEF Apply
<1>2. step'[c] = "idle"
  BY DEF IInv, Sessions, Shaped, End, Go
<1> QED BY <1>1, <1>2

\* The committed experiments, iterations and nodes change together with exactly one entry of
\* the log, and an entry appears with a commit only: InnerLog is a subtransaction.
THEOREM LoggedChanges == Spec => ChangesAreLogged
<1> DEFINE changed == \E t \in {"Experiment", "Iteration", "Node"} : db'[t] # db[t]
           Good == database' # "absent" =>
             /\ changed => logged' = (logged + 1) % Wrap
             /\ logged' # logged => \E c \in Clients : step[c] = "commit" /\ step'[c] = "idle"
<1>1. ASSUME UNCHANGED <<db, logged>> PROVE Good
  BY <1>1
<1>2. ASSUME IInv, Next PROVE Good
  <2>1. ASSUME NEW c \in Clients, Commit(c) \/ CommitInDoubt(c) PROVE Good
    BY <1>2, <2>1, CommitLogged DEF Commit, CommitInDoubt
  <2>2. ASSUME NEW c \in Clients, NEW k \in Calls[c], Begin(c, k) \/ StartAdmin(c, k) PROVE Good
    BY <1>1, <2>2 DEF Begin, StartAdmin, server
  <2>3. ASSUME NEW c \in Clients, Connect(c) \/ Disconnect(c) \/ FillDatabase(c) \/ LoseSession(c) PROVE Good
    BY <1>1, <2>3 DEF Connect, Disconnect, FillDatabase, LoseSession, server
  <2>4. ASSUME NEW c \in Clients, Effect(c) PROVE Good
    BY <1>1, <2>4 DEF Effect, Throw, Nothing, Write, Keep, server
  <2>5. ASSUME NEW c \in Clients, Statement(c) PROVE Good
    BY <1>1, <1>2, <2>4, <2>5, UserCalls, ExperimentCalls, IterationCalls, NodeCalls, OtherCalls
       DEF Statement, InnerLog, LogCall, LogInserted, Throw, StatementBreaks, server
  <2>6. ASSUME NEW c \in Clients, Admin(c) PROVE Good
    BY <1>1, <2>6 DEF Admin, CheckDatabaseExistence, CreateDatabase, ConnectCreated,
       TerminateAllDbConnections, DropDatabase, Throw, server
  <2> QED BY <1>2, <2>1, <2>2, <2>3, <2>5, <2>6 DEF Next, Proceed
<1>3. IInv /\ [Next]_vars => [Good]_vars
  BY <1>2
<1> QED BY <1>3, InductiveInvariant, PTL DEF Spec, ChangesAreLogged
=============================================================================
