------------------------------ MODULE MCTools ------------------------------
(***************************************************************************)
(* The tools that the services and the clients are built with.  They share *)
(* nothing: a behaviour is one of theirs, while the others stay as they    *)
(* were made.  Times, configurations and sizes are small; a program of the *)
(* clock is a use that the project makes of it.                            *)
(***************************************************************************)
EXTENDS Timers, Dipoles, CoordGenerate, Records, ConnectionStrings, WireTypes

CONSTANTS t1, t2, Run, Single, Loop

VARIABLE tool

Section(function, line) == [function |-> function, line |-> line]
Do(op, section) == [op |-> op, at |-> section]

Outer == Section(Run, 57)
Inner == Section(Single, 27)
First == Section(Loop, 32)
Second == Section(Loop, 35)

BenchStep == <<Do("tik", Outer), Do("tik", Inner), Do("tak", Inner), Do("take", Inner),
               Do("tak", Outer), Do("take", Outer)>>
BenchTwice == <<Do("tik", Inner), Do("tak", Inner), Do("take", Inner),
                Do("tik", Inner), Do("tak", Inner), Do("take", Inner)>>
ParallelLoop == <<Do("tik", First), Do("tak", First), Do("tik", First), Do("tak", First)>>
HandlerLoop == <<Do("tik", First), Do("tak", First), Do("tik", Second), Do("tak", Second),
                 Do("reset", First), Do("tik", First), Do("tak", First), Do("reset", First)>>
OtherSection == <<Do("tik", Second), Do("tak", Second)>>
MCPrograms == {<< >>, BenchStep, BenchTwice, ParallelLoop, HandlerLoop, OtherSection}

\* As written: what a Tik opens the next Tak closes.
MCOpenAt == [p \in MCPrograms |->
  LET open[k \in 1 .. (Len(p) + 1)] ==
        IF k = 1 THEN << >>
        ELSE CASE p[k - 1].op = "tik" -> <<p[k - 1].at>> \o open[k - 1]
               [] p[k - 1].op = "tak" -> Tail(open[k - 1])
               [] OTHER -> open[k - 1]
  IN open]

Coordinates(s) == [k \in 0 .. (Len(s) - 1) |-> s[k + 1]]
MCConfigurations == {Coordinates(s) : s \in
  {<<0, 5>>, <<0, 3, 0, 4>>, <<1, -3, 2, 5>>, <<4, 0, 0, 3>>}}

MCDims == {<<2, 2>>, <<2, 3>>, <<3, 2>>}
MCLimits == <<0, 2, 4, 8>>
MCInputs == {<< >>, <<"name">>, <<"5433">>, <<"name", "5433">>}
MCNumbers == {-1, 0, 3, 4, 5}

Init ==
  /\ tool \in {"timers", "dipoles", "generate", "records", "strings", "wire"}
  /\ TimersInit /\ DipolesInit /\ GenerateInit /\ RecordsInit /\ StringsInit
  /\ WireInit
  \* The tools that stay as they are need no second choice of it.
  /\ tool # "timers" => program = [t \in Threads |-> << >>]
  /\ tool # "generate" => state = "new"
  /\ tool # "strings" => class = "PostgreSQLCStr"
  /\ tool # "wire" => structure = message /\ sent = UsualDocument(message)

Next ==
  /\ UNCHANGED tool
  /\ \/ /\ tool = "timers" /\ TimersNext
        /\ UNCHANGED <<dipoleVars, genVars, recordVars, stringVars, wireVars>>
     \/ /\ tool = "dipoles" /\ DipolesNext
        /\ UNCHANGED <<timerVars, genVars, recordVars, stringVars, wireVars>>
     \/ /\ tool = "generate" /\ GenerateNext
        /\ UNCHANGED <<timerVars, dipoleVars, recordVars, stringVars, wireVars>>
     \/ /\ tool = "records" /\ RecordsNext
        /\ UNCHANGED <<timerVars, dipoleVars, genVars, stringVars, wireVars>>
     \/ /\ tool = "strings" /\ StringsNext
        /\ UNCHANGED <<timerVars, dipoleVars, genVars, recordVars, wireVars>>
     \/ /\ tool = "wire" /\ WireNext
        /\ UNCHANGED <<timerVars, dipoleVars, genVars, recordVars, stringVars>>

Spec == Init /\ [][Next]_<<tool, timerVars, dipoleVars, genVars, recordVars, stringVars,
                         wireVars>>
=============================================================================
