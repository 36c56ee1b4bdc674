--------------------------- MODULE CoordGenerate ---------------------------
(***************************************************************************)
(* coordGenerate: nsym random configurations are solved, the direction     *)
(* graph of each is computed on a mesh, and the average is written.  The   *)
(* loop runs in one thread or in an OpenMP team, with a solver object and  *)
(* a mesh that are shared, copied or made anew for each thread.            *)
(*                                                                         *)
(* Data: a system, a solution and a column of values know the number of    *)
(* the simulation they come from; a mesh knows whether its coordinates     *)
(* were constructed.  The functions of the solver hold references: to the  *)
(* coordinates of a simulation and to the solution of a thread's iteration.*)
(***************************************************************************)
EXTENDS Integers, FiniteSets, Bags

CONSTANTS Team,      \* the threads of a parallel loop
          Main,      \* the initial thread
          nsym

ASSUME GenerateAssumption ==
  /\ nsym \in Nat
  /\ -1 \notin Team \union {Main}   \* no thread is None

Simulations == 0 .. (nsym - 1)
StateT == {"new", "old", "openmp_new", "openmp_old", "printImpl"}
None == -1

VARIABLES
  state,         \* the mode
  todo,          \* simulations that no thread has begun
  at, i,         \* each thread's step and simulation
  dipoles1,      \* thread |-> [system, xi, solution], the last two are references
  mesh,          \* thread |-> [grid, data_2]
  solution,      \* thread |-> the simulation it solves
  result, seen,  \* the sum, and what a thread has read of it
  critical,      \* the thread in the critical section
  files          \* number or "avg" |-> what was written

genVars == <<state, todo, at, i, dipoles1, mesh, solution, result, seen, critical, files>>

Crew == Team \union {Main}
Parallel == state \in {"openmp_new", "openmp_old"}
Works(t) == IF Parallel THEN t \in Team ELSE t = Main

\* Mutant: the loop's objects are not private.
Own_Shared(t) == Main
\* firstprivate and private: an object for each thread.
Own(t) == IF Parallel THEN t ELSE Main

At(t, step) == Works(t) /\ at[t] = step
Go(t, step) == at' = [at EXCEPT ![t] = step]

NoDipoles == [system |-> None, xi |-> None, solution |-> None]
NoValue == [grid |-> "zeros", xi |-> None, sol |-> None]

----------------------------------------------------------------------------

\* OpenMP hands out the iterations in any order, other loops go through them in turn.
Begin(t) ==
  /\ At(t, "loop") /\ todo # {}
  /\ \E sim \in todo :
       /\ Parallel \/ \A k \in todo : sim <= k
       /\ todo' = todo \ {sim}
       /\ i' = [i EXCEPT ![t] = sim]
  /\ Go(t, "set")
  /\ UNCHANGED <<state, dipoles1, mesh, solution, result, seen, critical, files>>

SetCoordinates(t) ==
  /\ At(t, "set")
  /\ dipoles1' = [dipoles1 EXCEPT ![Own(t)].system = i[t]]
  /\ Go(t, "solve")
  /\ UNCHANGED <<state, todo, i, mesh, solution, result, seen, critical, files>>

SolveSystem(t) ==
  /\ At(t, "solve")
  /\ solution' = [solution EXCEPT ![t] = dipoles1[Own(t)].system]
  /\ Go(t, "bind")
  /\ UNCHANGED <<state, todo, i, dipoles1, mesh, result, seen, critical, files>>

\* GetFullFunction captures both by reference.
BindFunctions(t) ==
  /\ At(t, "bind")
  /\ dipoles1' = [dipoles1 EXCEPT ![Own(t)].xi = i[t], ![Own(t)].solution = t]
  /\ Go(t, "apply")
  /\ UNCHANGED <<state, todo, i, mesh, solution, result, seen, critical, files>>

\* ApplyFunction or ApplyIntegrate: the references are read now.
ApplyToMesh(t) ==
  /\ At(t, "apply")
  /\ LET d == dipoles1[Own(t)]
         value == [grid |-> mesh[Own(t)].grid, xi |-> d.xi, sol |-> solution[d.solution]]
     IN mesh' = [mesh EXCEPT ![Own(t)].data_2 = value]
  /\ Go(t, "add")
  /\ UNCHANGED <<state, todo, i, dipoles1, solution, result, seen, critical, files>>

\* AddMesh in the critical section of a parallel loop.
StartAdd(t) ==
  /\ At(t, "add")
  /\ critical = None
  /\ critical' = t
  /\ seen' = [seen EXCEPT ![t] = result]
  /\ Go(t, "store")
  /\ UNCHANGED <<state, todo, i, dipoles1, mesh, solution, result, files>>

FinishAdd(t) ==
  /\ At(t, "store")
  /\ result' = seen[t] (+) SetToBag({mesh[Own(t)].data_2})
  /\ critical' = None
  /\ Go(t, IF state = "printImpl" THEN "print" ELSE "loop")
  /\ UNCHANGED <<state, todo, i, dipoles1, mesh, solution, seen, files>>

PrintSimulation(t) ==
  /\ At(t, "print")
  /\ files' = [n \in DOMAIN files \union {i[t]} |->
       IF n = i[t] THEN [coordinates |-> i[t], solution |-> solution[t],
                         mesh |-> mesh[t].data_2]
       ELSE files[n]]
  /\ Go(t, "loop")
  /\ UNCHANGED <<state, todo, i, dipoles1, mesh, solution, result, seen, critical>>

\* After the loop's barrier: result /= nsym on the mesh of the initial thread.
WriteAverage ==
  /\ todo = {} /\ \A t \in Crew : Works(t) => at[t] = "loop"
  /\ None \notin DOMAIN files
  /\ files' = [n \in DOMAIN files \union {None} |->
       IF n = None THEN [grid |-> mesh[Main].grid, sum |-> result, over |-> nsym]
       ELSE files[n]]
  /\ UNCHANGED <<state, todo, at, i, dipoles1, mesh, solution, result, seen, critical>>

----------------------------------------------------------------------------

\* The objects of a team: copies of the initial thread's, or default ones in openmp_old.
GenerateInit ==
  /\ state \in StateT
  /\ todo = Simulations
  /\ at = [t \in Crew |-> "loop"]
  /\ i = [t \in Crew |-> None]
  /\ dipoles1 = [t \in Crew |->
       IF state = "openmp_old" /\ t # Main THEN NoDipoles ELSE [NoDipoles EXCEPT !.system = 0]]
  /\ mesh = [t \in Crew |->
       [grid |-> IF state = "openmp_old" /\ t # Main THEN "zeros" ELSE "constructed",
        data_2 |-> NoValue]]
  /\ solution = [t \in Crew |-> None]
  /\ result = EmptyBag
  /\ seen = [t \in Crew |-> EmptyBag]
  /\ critical = None
  /\ files = << >>

GenerateNext ==
  \/ \E t \in Crew :
       \/ Begin(t) \/ SetCoordinates(t) \/ SolveSystem(t) \/ BindFunctions(t)
       \/ ApplyToMesh(t) \/ StartAdd(t) \/ FinishAdd(t) \/ PrintSimulation(t)
  \/ WriteAverage

GenerateSpec == GenerateInit /\ [][GenerateNext]_genVars

----------------------------------------------------------------------------

Value(sim, grid) == [grid |-> grid, xi |-> sim, sol |-> sim]

\* In every mode the average holds each simulation once, the values of its own solution on the
\* mesh that is written with it, whatever the threads interleave (coordGenerate.cpp:118-137);
\* and a simulation's file holds coordinates, solution and values of that simulation.
\* openmp_old is left out: its private meshes are never constructed (coordGenerate.cpp:199).
SimulationsAveraged ==
  /\ None \in DOMAIN files /\ state # "openmp_old" =>
       files[None].sum = SetToBag({Value(sim, files[None].grid) : sim \in Simulations})
  /\ \A sim \in DOMAIN files \ {None} :
       files[sim] = [coordinates |-> sim, solution |-> sim, mesh |-> Value(sim, "constructed")]
=============================================================================
