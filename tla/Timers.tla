------------------------------- MODULE Timers -------------------------------
(***************************************************************************)
(* ClockArray: sections of code are timed by Tik and Tak; all threads      *)
(* share the stack of open sections and the maps of start times and        *)
(* totals, behind one mutex.  A section is found again by its function,    *)
(* the function's line and the thread; Tak trusts the top of the stack for *)
(* the line.                                                               *)
(*                                                                         *)
(* The users of the clock are programs: BenchmarkRunner::Run with a        *)
(* section around a section and results that are taken out, and the loops  *)
(* of the benchmark handler, which adds the totals up and resets the clock.*)
(***************************************************************************)
EXTENDS Integers, Sequences, FiniteSets

CONSTANTS Threads,
          Programs,   \* sequences of [op, at]: what a thread may be made to run
          OpenAt,     \* program |-> sections it has open before each step, innermost first
          MaxTime     \* bound of the time

Sites(p) == {p[i].at : i \in DOMAIN p}

\* How the project's code uses the clock: sections are nested and not entered again from
\* within, Tak is called in the function of its Tik, the totals are reset with no section
\* open, and who resets them does not take them out.
Nested(p, open) ==
  /\ open[1] = << >>
  /\ \A i \in DOMAIN p :
       /\ open[i] \in Seq(Sites(p))
       /\ p[i].op \in {"tik", "tak", "take", "reset"}
       /\ p[i].at = [function |-> p[i].at.function, line |-> p[i].at.line]
       /\ p[i].op = "tik" => /\ \A k \in DOMAIN open[i] : open[i][k] # p[i].at
                             /\ open[i + 1] = <<p[i].at>> \o open[i]
       /\ p[i].op = "tak" => /\ open[i] # << >> /\ Head(open[i]).function = p[i].at.function
                             /\ open[i + 1] = Tail(open[i])
       /\ p[i].op = "take" => open[i + 1] = open[i] /\ \A j \in 1 .. i : p[j].op # "reset"
       /\ p[i].op = "reset" => open[i] = << >> /\ open[i + 1] = << >>

ASSUME UsesAssumption ==
  /\ IsFiniteSet(Threads)
  /\ \A p \in Programs : p \in Seq({p[i] : i \in DOMAIN p}) /\ Nested(p, OpenAt[p])

\* A location without its thread, [function, line], and with it.
Located(at, t) == [function |-> at.function, line |-> at.line, thread |-> t]

VARIABLES
  timers_,            \* location |-> [time, count]
  start_ing_timers_,  \* location |-> time point
  to_tak_,            \* stack of locations, its top first
  clkdc,              \* the handler's second clock: only its totals are used
  program, pc,        \* of each thread
  new_time,           \* what Tak read before it waited for the mutex, 0 when it did not
  now,
  \* history
  opened,             \* each thread's own open sections and their start, innermost first
  spent,              \* location |-> time spent in its sections, as far as nobody took it out
  results,            \* <<time taken out, time spent>>
  error               \* logic_error of Tak or of Reset

clock == <<timers_, start_ing_timers_, to_tak_>>
threads == <<program, pc, new_time>>
history == <<opened, spent, results, error>>
timerVars == <<clock, clkdc, threads, now, history>>

Locations == {Located(at, t) : at \in UNION {Sites(p) : p \in Programs}, t \in Threads}

Runs(t) == pc[t] <= Len(program[t]) /\ error = "none"
Op(t) == program[t][pc[t]].op
Here(t) == Located(program[t][pc[t]].at, t)
Advance(t) == pc' = [pc EXCEPT ![t] = @ + 1]

NoTime == [time |-> 0, count |-> 0]
Plus(a, b) == [time |-> a.time + b.time, count |-> a.count + b.count]

----------------------------------------------------------------------------

\* The start time is read under the mutex.
Tik(t) ==
  /\ Runs(t) /\ Op(t) = "tik"
  /\ start_ing_timers_' = [start_ing_timers_ EXCEPT ![Here(t)] = now]
  /\ to_tak_' = <<Here(t)>> \o to_tak_
  /\ opened' = [opened EXCEPT ![t] = <<[id |-> Here(t), start |-> now]>> \o @]
  /\ Advance(t)
  /\ UNCHANGED <<timers_, clkdc, program, new_time, now, spent, results, error>>

\* The end time is read before the mutex is taken.
TakTime(t) ==
  /\ Runs(t) /\ Op(t) = "tak" /\ new_time[t] = 0
  /\ new_time' = [new_time EXCEPT ![t] = now]
  /\ UNCHANGED <<clock, clkdc, program, pc, now, history>>

Paired(t) == to_tak_ # << >> /\ Head(to_tak_).function = Here(t).function

\* Mutant: the whole location of the top, with its thread.
TakLocation_Top(t) == Head(to_tak_)
TakLocation(t) == [Here(t) EXCEPT !.line = Head(to_tak_).line]

\* A location without a start time gets the epoch.
Tak(t) ==
  /\ Runs(t) /\ Op(t) = "tak" /\ new_time[t] > 0
  /\ Paired(t)
  /\ LET id == TakLocation(t)
         took == [time |-> new_time[t] - start_ing_timers_[id], count |-> 1]
     IN timers_' = [timers_ EXCEPT ![id] = Plus(@, took)]
  /\ to_tak_' = Tail(to_tak_)
  /\ spent' = IF opened[t] = << >> THEN spent
              ELSE [spent EXCEPT ![Head(opened[t]).id] =
                      Plus(@, [time |-> new_time[t] - Head(opened[t]).start, count |-> 1])]
  /\ opened' = [opened EXCEPT ![t] = IF @ = << >> THEN @ ELSE Tail(@)]
  /\ new_time' = [new_time EXCEPT ![t] = 0]
  /\ Advance(t)
  /\ UNCHANGED <<start_ing_timers_, clkdc, program, now, results, error>>

TakThrows(t) ==
  /\ Runs(t) /\ Op(t) = "tak" /\ new_time[t] > 0
  /\ ~ Paired(t)
  /\ error' = "tak"
  /\ UNCHANGED <<clock, clkdc, threads, now, opened, spent, results>>

ResetTimer(id) == timers_' = [timers_ EXCEPT ![id] = NoTime]

\* BenchmarkRunner: clk[loc].time, then ResetTimer(loc).
TakeOut(t) ==
  /\ Runs(t) /\ Op(t) = "take"
  /\ results' = results \union {<<timers_[Here(t)].time, spent[Here(t)].time>>}
  /\ ResetTimer(Here(t))
  /\ spent' = [spent EXCEPT ![Here(t)] = NoTime]
  /\ Advance(t)
  /\ UNCHANGED <<start_ing_timers_, to_tak_, clkdc, program, new_time, now, opened, error>>

\* BenchmarkHandler::RunBenchmark: clkdc.advance(clk_arr_), clk_arr_.Reset().
AdvanceAndReset(t) ==
  /\ Runs(t) /\ Op(t) = "reset" /\ to_tak_ = << >>
  /\ clkdc' = [id \in DOMAIN clkdc |-> Plus(clkdc[id], timers_[id])]
  /\ timers_' = [id \in DOMAIN timers_ |-> NoTime]
  /\ start_ing_timers_' = [id \in DOMAIN start_ing_timers_ |-> 0]
  /\ Advance(t)
  /\ UNCHANGED <<to_tak_, program, new_time, now, history>>

\* The handler's advance comes before the Reset that throws.
ResetThrows(t) ==
  /\ Runs(t) /\ Op(t) = "reset" /\ to_tak_ # << >>
  /\ clkdc' = [id \in DOMAIN clkdc |-> Plus(clkdc[id], timers_[id])]
  /\ error' = "reset"
  /\ UNCHANGED <<clock, threads, now, opened, spent, results>>

Tick ==
  /\ now < MaxTime
  /\ now' = now + 1
  /\ UNCHANGED <<clock, clkdc, threads, history>>

----------------------------------------------------------------------------

TimersInit ==
  /\ timers_ = [id \in Locations |-> NoTime]
  /\ start_ing_timers_ = [id \in Locations |-> 0]
  /\ to_tak_ = << >>
  /\ clkdc = [id \in Locations |-> NoTime]
  /\ program \in [Threads -> Programs]
  /\ pc = [t \in Threads |-> 1]
  /\ new_time = [t \in Threads |-> 0]
  /\ now = 1
  /\ opened = [t \in Threads |-> << >>]
  /\ spent = [id \in Locations |-> NoTime]
  /\ results = {}
  /\ error = "none"

TimersNext ==
  \/ Tick
  \/ \E t \in Threads : \/ Tik(t) \/ TakTime(t) \/ Tak(t) \/ TakThrows(t)
                        \/ TakeOut(t) \/ AdvanceAndReset(t) \/ ResetThrows(t)

TimersSpec == TimersInit /\ [][TimersNext]_timerVars

----------------------------------------------------------------------------

\* How the clock may be used: one thread, whatever it times; or several threads that all time
\* the same section (an OpenMP loop) and leave the totals alone.
Working == {t \in Threads : program[t] # << >>}
Alone == \A t, u \in Working : t = u
OneSection ==
  /\ \A t, u \in Threads : \A a \in Sites(program[t]), b \in Sites(program[u]) : a = b
  /\ \A t \in Threads : \A i \in DOMAIN program[t] : program[t][i].op \in {"tik", "tak"}

\* With that use no thread's time is lost, counted twice or credited to another thread,
\* although a Tak pops whatever section was opened last (ClockArray.h:159), every result of a
\* benchmark is the time of that benchmark alone, and nothing is thrown.
TimesAreTrue == Alone \/ OneSection =>
  /\ error = "none"
  /\ \A id \in Locations : Plus(timers_[id], clkdc[id]) = spent[id]
  /\ \A r \in results : r[1] = r[2]
=============================================================================
