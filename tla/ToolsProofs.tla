---------------------------- MODULE ToolsProofs ----------------------------
(***************************************************************************)
(* Theorems about the tools: JSON structures (WireTypes), the clock        *)
(* (Timers), the solver object and what it solves (Dipoles), connection    *)
(* strings, the generation of coordinates (CoordGenerate), and printers    *)
(* with their parsers (Records).  They hold for every width of a           *)
(* Json::UInt and all documents, for every number of threads and all well  *)
(* nested programs, for configurations of any number of dipoles, for all   *)
(* words, for all meshes, and for streams of any records.  That a system   *)
(* is solved is proved where the two blocks of its matrix commute, and     *)
(* that those of one and of two dipoles do.                                *)
(***************************************************************************)
EXTENDS WireTypes, Timers, Dipoles, ConnectionStrings, CoordGenerate,
        Records, FiniteSums, FiniteSetTheorems, SequenceTheorems, TLAPS

\* The fields of a structure have names and places of their own; what ToJson writes is
\* where the constructor looks for it, but for the connection name of a channel.
WellFormed(s) ==
  /\ \A f, g \in s : f.name = g.name => f = g
  /\ \A f, g \in s : f.written = g.written => f = g
  /\ \A f \in s : IF f.name = "connection_name" THEN f.type = "string" ELSE f.read = f.written

LEMMA StructuresAreWellFormed ==
  ASSUME NEW s \in Structures
  PROVE  WellFormed(s)
<1> USE DEF WellFormed, Field, Named, Creator, AutoDelete
<1>1. WellFormed(TestSolveParam)
  BY DEF TestSolveParam
<1>2. WellFormed(exchange)
  BY DEF exchange
<1>3. WellFormed(queue)
  BY DEF queue
<1>4. WellFormed(connection)
  BY DEF connection
<1>5. WellFormed(channel)
  BY DEF channel
<1>6. WellFormed(message)
  BY DEF message
<1>7. WellFormed(global_param)
  BY DEF global_param
<1>8. WellFormed(rabbitMQUser)
  BY DEF rabbitMQUser
<1>9. WellFormed(queueBinding)
  BY DEF queueBinding
<1> HIDE DEF WellFormed
<1> QED BY <1>1, <1>2, <1>3, <1>4, <1>5, <1>6, <1>7, <1>8, <1>9 DEF Structures

----------------------------------------------------------------------------

\* All of the first document can be read into its structure.
Readable == \A f \in structure : Converts(f.type, ValueAt(sent, f))

\* What the object and the next document hold, and that only the first document is refused.
ObjectIsRead == DOMAIN held # {} =>
  /\ Readable
  /\ \A f \in structure : held[f.name] = ValueAt(sent, f) \/ (f.name = "connection_name" /\ hops > 0)
DocumentIsPassed ==
  IF hops = 0 THEN doc = sent
  ELSE /\ Readable
       /\ \A f \in structure : f.name # "connection_name" => ValueAt(doc, f) = ValueAt(sent, f)
WireInv ==
  /\ structure \in Structures
  /\ hops \in Nat
  /\ ObjectIsRead
  /\ DocumentIsPassed
  /\ refused => hops = 0 /\ DOMAIN held = {}

\* What converts is a number of 32 bits where it becomes one, so that no cast cuts it.
LEMMA NothingIsCut ==
  ASSUME NEW type, NEW v, Converts(type, v)
  PROVE  /\ type \in {"uint", "cast"} => v % Word32 = v
         /\ AsType(type, v) = v
<1>1. ASSUME type \in {"uint", "cast"}
      PROVE  v % Word32 = v
  <2>1. v \in 0 .. (Word32 - 1)
    BY <1>1 DEF Converts
  <2> QED BY <2>1, WireAssumption
<1> QED BY <1>1 DEF AsType

\* A field that is found by its name, or by the place where it is written, is that field.
LEMMA FieldsAreFound ==
  ASSUME NEW s \in Structures, NEW f \in s
  PROVE  /\ (CHOOSE g \in s : g.name = f.name) = f
         /\ (CHOOSE g \in s : g.written = f.written) = f
<1>1. WellFormed(s)
  BY StructuresAreWellFormed
<1>2. \A g \in s : g.name = f.name => g = f
  BY <1>1 DEF WellFormed
<1>3. \A g \in s : g.written = f.written => g = f
  BY <1>1 DEF WellFormed
<1> QED BY <1>2, <1>3

LEMMA WireInit_Inv == WireInit => WireInv
<1> SUFFICES ASSUME WireInit PROVE WireInv
  OBVIOUS
<1>1. DOMAIN held = {}
  BY DEF WireInit
<1> QED BY <1>1 DEF WireInit, WireInv, ObjectIsRead, DocumentIsPassed

\* Whatever document an object is read from, it is as good as the first one.
LEMMA DocumentIsReadable ==
  ASSUME WireInv, NEW f \in structure
  PROVE  /\ ValueAt(doc, f) = ValueAt(sent, f) \/ (f.name = "connection_name" /\ hops > 0)
         /\ Converts(f.type, ValueAt(doc, f)) <=> Converts(f.type, ValueAt(sent, f))
<1>1. WellFormed(structure)
  BY StructuresAreWellFormed DEF WireInv
<1>2. ValueAt(doc, f) = ValueAt(sent, f) \/ (f.name = "connection_name" /\ hops > 0)
  <2>1. CASE hops = 0
    BY <2>1 DEF WireInv, DocumentIsPassed
  <2>2. CASE hops # 0
    <3>1. hops > 0
      BY <2>2 DEF WireInv
    <3> QED BY <2>2, <3>1 DEF WireInv, DocumentIsPassed
  <2> QED BY <2>1, <2>2
<1>3. ASSUME f.name = "connection_name"
      PROVE  \A v : Converts(f.type, v)
  <2>1. f.type = "string"
    BY <1>1, <1>3 DEF WellFormed
  <2> QED BY <2>1 DEF Converts
<1> QED BY <1>2, <1>3

LEMMA FromDocument_Inv ==
  ASSUME WireInv, FromDocument
  PROVE  WireInv'
<1>1. UNCHANGED <<structure, sent, doc, hops, refused>> /\ ~ refused
  BY DEF FromDocument
<1>2. Readable
  BY DocumentIsReadable DEF FromDocument, Readable
<1>3. Readable'
  BY <1>1, <1>2 DEF Readable, ValueAt
<1>4. ASSUME NEW f \in structure
      PROVE  held'[f.name] = ValueAt(sent, f) \/ (f.name = "connection_name" /\ hops > 0)
  <2>1. (CHOOSE g \in structure : g.name = f.name) = f
    BY FieldsAreFound DEF WireInv
  <2>2. held'[f.name] = AsType(f.type, ValueAt(doc, f))
    BY <2>1 DEF FromDocument
  <2>3. Converts(f.type, ValueAt(doc, f))
    BY DEF FromDocument
  <2>4. AsType(f.type, ValueAt(doc, f)) = ValueAt(doc, f)
    BY <2>3, NothingIsCut
  <2> QED BY <2>2, <2>4, DocumentIsReadable
<1>5. ObjectIsRead'
  BY <1>1, <1>3, <1>4 DEF ObjectIsRead, ValueAt
<1>6. DocumentIsPassed'
  BY <1>1, <1>3 DEF WireInv, DocumentIsPassed, ValueAt
<1> QED BY <1>1, <1>5, <1>6 DEF WireInv

LEMMA Refuse_Inv ==
  ASSUME WireInv, Refuse
  PROVE  WireInv'
<1>1. UNCHANGED <<structure, sent, doc, held, hops>>
  BY DEF Refuse
<1>2. ~ Readable
  BY DocumentIsReadable DEF Refuse, Readable
<1>3. hops = 0 /\ DOMAIN held = {}
  BY <1>2 DEF WireInv, ObjectIsRead, DocumentIsPassed
<1>4. ObjectIsRead'
  BY <1>1, <1>3 DEF ObjectIsRead
<1>5. DocumentIsPassed'
  BY <1>1, <1>3 DEF WireInv, DocumentIsPassed
<1> QED BY <1>1, <1>3, <1>4, <1>5 DEF WireInv

LEMMA ToDocument_Inv ==
  ASSUME WireInv, ToDocument
  PROVE  WireInv'
<1>1. UNCHANGED <<structure, sent, held, refused>>
  BY DEF ToDocument
<1>2. hops \in Nat /\ hops' = hops + 1 /\ DOMAIN held # {}
  BY DEF ToDocument, WireInv
<1>3. hops' \in Nat /\ hops' > 0 /\ hops' # 0
  BY <1>2
<1>4. Readable
  BY <1>2 DEF WireInv, ObjectIsRead
<1>5. Readable'
  BY <1>1, <1>4 DEF Readable, ValueAt
<1>6. ASSUME NEW f \in structure, f.name # "connection_name"
      PROVE  ValueAt(doc', f) = ValueAt(sent, f)
  <2>1. (CHOOSE g \in structure : g.written = f.written) = f
    BY FieldsAreFound DEF WireInv
  <2>2. held[f.name] = ValueAt(sent, f)
    BY <1>2, <1>6 DEF WireInv, ObjectIsRead
  <2>3. f.type = "cast" => held[f.name] % Word32 = held[f.name]
    <3>1. Converts(f.type, held[f.name])
      BY <1>4, <2>2 DEF Readable
    <3> QED BY <3>1, NothingIsCut
  <2>4. f.written \in DOMAIN doc' /\ doc'[f.written] = held[f.name]
    BY <2>1, <2>3 DEF ToDocument
  <2>5. f.read = f.written
    <3>1. WellFormed(structure)
      BY StructuresAreWellFormed DEF WireInv
    <3> QED BY <3>1, <1>6 DEF WellFormed
  <2> QED BY <2>2, <2>4, <2>5 DEF ValueAt
<1>7. ObjectIsRead'
  BY <1>1, <1>3, <1>5 DEF WireInv, ObjectIsRead, ValueAt
<1>8. DocumentIsPassed'
  BY <1>1, <1>3, <1>5, <1>6 DEF DocumentIsPassed, ValueAt
<1>9. ~ refused'
  BY <1>1, <1>2 DEF WireInv
<1> QED BY <1>1, <1>3, <1>7, <1>8, <1>9 DEF WireInv

LEMMA WireUnchanged_Inv ==
  ASSUME WireInv, UNCHANGED wireVars
  PROVE  WireInv'
BY DEF WireInv, ObjectIsRead, DocumentIsPassed, Readable, ValueAt, wireVars

\* What the object and the document hold is inductive: no constructor and no ToJson
\* (networkTypes.cpp) changes what a later one reads.
THEOREM WireInvariant == WireSpec => []WireInv
<1>1. WireInv /\ [WireNext]_wireVars => WireInv'
  BY FromDocument_Inv, Refuse_Inv, ToDocument_Inv, WireUnchanged_Inv DEF WireNext
<1> QED BY <1>1, WireInit_Inv, PTL DEF WireSpec

\* However often a structure is passed on, its objects hold what the first document said;
\* what does not fit is refused at once, for all documents (networkTypes.cpp:50-54, 164).  The
\* value of a global parameter, kept raw, comes back whatever it is (networkTypes.cpp:214-224).
THEOREM PassedOnWhole == WireSpec => []ObjectsComeBack
<1>1. WireInv => ObjectsComeBack
  BY DEF WireInv, ObjectIsRead, ObjectsComeBack
<1> QED BY <1>1, WireInvariant, PTL
\* What a thread has open by its program.
Open(t) == OpenAt[program[t]][pc[t]]

Used == Alone \/ OneSection

Times == [time : Int, count : Int]
Opened == [id : Locations, start : Nat]

TimersTyped ==
  /\ program \in [Threads -> Programs]
  /\ pc \in [Threads -> Nat \ {0}]
  /\ \A t \in Threads : pc[t] <= Len(program[t]) + 1
  /\ new_time \in [Threads -> Nat]
  /\ now \in Nat
  /\ timers_ \in [Locations -> Times]
  /\ clkdc \in [Locations -> Times]
  /\ spent \in [Locations -> Times]
  /\ start_ing_timers_ \in [Locations -> Nat]
  /\ to_tak_ \in Seq(Locations)
  /\ opened \in [Threads -> Seq(Opened)]

\* The sections o that thread t opened are those of its program, s.
AsWritten(o, s, t) ==
  /\ Len(o) = Len(s)
  /\ \A k \in 1 .. Len(o) : o[k].id = Located(s[k], t)
Apart(o) == \A j, k \in 1 .. Len(o) : j # k => o[j].id # o[k].id
\* The map of start times has theirs.
Kept(o, starts) == \A k \in 1 .. Len(o) : starts[o[k].id] = o[k].start

NestedAsWritten ==
  /\ \A t \in Threads : AsWritten(opened[t], Open(t), t)
  /\ \A t \in Threads : Apart(opened[t])
StartsAreKept == \A t \in Threads : Kept(opened[t], start_ing_timers_)

\* The stack is that of the only thread, or has an entry of the one section for each thread
\* that is in it.
StackOf(o) ==
  /\ Len(to_tak_) = Len(o)
  /\ \A k \in 1 .. Len(to_tak_) : to_tak_[k] = o[k].id
StackOfOne == Alone => \A t \in Working : StackOf(opened[t])
Inside == {t \in Threads : opened[t] # << >>}
StackOfAll == OneSection =>
  /\ Len(to_tak_) = Cardinality(Inside)
  /\ \A k \in 1 .. Len(to_tak_) : \A t \in Threads : \A site \in Sites(program[t]) :
       to_tak_[k].function = site.function /\ to_tak_[k].line = site.line

\* The second clock is used only after a reset.
SecondClock ==
  (\A t \in Threads : \A j \in 1 .. (pc[t] - 1) : program[t][j].op # "reset")
    => \A id \in Locations : clkdc[id] = NoTime

TimersInv ==
  /\ TimersTyped
  /\ NestedAsWritten
  /\ Used => StartsAreKept /\ StackOfOne /\ StackOfAll /\ SecondClock
  /\ TimesAreTrue

----------------------------------------------------------------------------
\* The clock.

LEMMA PushFacts ==
  ASSUME NEW S, NEW s \in Seq(S), NEW e \in S
  PROVE  /\ <<e>> \o s \in Seq(S)
         /\ Len(<<e>> \o s) = Len(s) + 1
         /\ (<<e>> \o s)[1] = e
         /\ \A k \in 2 .. (Len(s) + 1) : (<<e>> \o s)[k] = s[k - 1] /\ k - 1 \in 1 .. Len(s)
<1>1. <<e>> \in Seq(S) /\ Len(<<e>>) = 1 /\ <<e>>[1] = e
  OBVIOUS
<1>2. <<e>> \o s \in Seq(S) /\ Len(<<e>> \o s) = Len(s) + 1
  BY <1>1
<1>3. (<<e>> \o s)[1] = e
  BY <1>1
<1>4. ASSUME NEW k \in 2 .. (Len(s) + 1)
      PROVE  (<<e>> \o s)[k] = s[k - 1] /\ k - 1 \in 1 .. Len(s)
  BY <1>1
<1> QED BY <1>2, <1>3, <1>4

LEMMA PopFacts ==
  ASSUME NEW S, NEW s \in Seq(S), s # << >>
  PROVE  /\ Tail(s) \in Seq(S) /\ Len(Tail(s)) = Len(s) - 1 /\ Len(s) \in Nat /\ Len(s) > 0
         /\ Head(s) \in S /\ Head(s) = s[1] /\ 1 \in 1 .. Len(s)
         /\ \A k \in 1 .. (Len(s) - 1) : Tail(s)[k] = s[k + 1] /\ k + 1 \in 1 .. Len(s)
OBVIOUS

LEMMA ProgramFacts ==
  ASSUME NEW p \in Programs
  PROVE  /\ Len(p) \in Nat /\ DOMAIN p = 1 .. Len(p)
         /\ p \in Seq({p[h] : h \in DOMAIN p})
         /\ Nested(p, OpenAt[p])
<1> DEFINE steps == {p[h] : h \in DOMAIN p}
<1>1. p \in Seq(steps) /\ Nested(p, OpenAt[p])
  BY Zenon, UsesAssumption
<1> HIDE DEF steps
<1>2. Len(p) \in Nat /\ DOMAIN p = 1 .. Len(p)
  BY <1>1
<1> USE DEF steps
<1> QED BY <1>1, <1>2

LEMMA StepFacts ==
  ASSUME NEW p \in Programs, NEW h \in DOMAIN p
  PROVE  /\ OpenAt[p][h] \in Seq(Sites(p))
         /\ p[h].op \in {"tik", "tak", "take", "reset"}
         /\ p[h].at = [function |-> p[h].at.function, line |-> p[h].at.line]
         /\ p[h].op = "tik" => /\ \A k \in DOMAIN OpenAt[p][h] : OpenAt[p][h][k] # p[h].at
                               /\ OpenAt[p][h + 1] = <<p[h].at>> \o OpenAt[p][h]
         /\ p[h].op = "tak" => /\ OpenAt[p][h] # << >>
                               /\ Head(OpenAt[p][h]).function = p[h].at.function
                               /\ OpenAt[p][h + 1] = Tail(OpenAt[p][h])
         /\ p[h].op = "take" => /\ OpenAt[p][h + 1] = OpenAt[p][h]
                                /\ \A j \in 1 .. h : p[j].op # "reset"
         /\ p[h].op = "reset" => OpenAt[p][h] = << >> /\ OpenAt[p][h + 1] = << >>
<1>1. Nested(p, OpenAt[p])
  BY ProgramFacts
<1> QED BY Zenon, <1>1 DEF Nested

\* A section is its function and its line.
LEMMA SitesAreSections ==
  ASSUME NEW p \in Programs, NEW site \in Sites(p)
  PROVE  site = [function |-> site.function, line |-> site.line]
<1>1. PICK h \in DOMAIN p : site = p[h].at
  BY DEF Sites
<1>2. p[h].at = [function |-> p[h].at.function, line |-> p[h].at.line]
  BY StepFacts
<1> QED BY <1>1, <1>2

\* So locations differ when sections or threads do.
LEMMA LocatedApart ==
  ASSUME NEW p \in Programs, NEW q \in Programs, NEW a \in Sites(p), NEW b \in Sites(q),
         NEW t, NEW u, Located(a, t) = Located(b, u)
  PROVE  a = b /\ t = u
<1>1. Located(a, t).function = Located(b, u).function /\ Located(a, t).line = Located(b, u).line
      /\ Located(a, t).thread = Located(b, u).thread
  BY Zenon
<1>2. a.function = b.function /\ a.line = b.line /\ t = u
  BY <1>1 DEF Located
<1> QED BY <1>2, SitesAreSections

LEMMA OpenIsSeq ==
  ASSUME NEW p \in Programs, NEW h \in 1 .. (Len(p) + 1)
  PROVE  OpenAt[p][h] \in Seq(Sites(p))
<1>1. Len(p) \in Nat /\ DOMAIN p = 1 .. Len(p)
  BY ProgramFacts
<1>2. CASE h \in DOMAIN p
  BY <1>2, StepFacts
<1>3. CASE h = 1
  <2>1. OpenAt[p][1] = << >>
    BY Zenon, ProgramFacts DEF Nested
  <2> QED BY <1>3, <2>1
<1>4. CASE h = Len(p) + 1 /\ h # 1
  <2> DEFINE j == Len(p)
             s == OpenAt[p][j]
             next == OpenAt[p][h]
             site == p[j].at
  <2>1. j \in DOMAIN p /\ h = j + 1
    BY <1>1, <1>4
  <2>2. s \in Seq(Sites(p)) /\ site \in Sites(p)
    BY <2>1, StepFacts DEF Sites
  <2>3. p[j].op \in {"tik", "tak", "take", "reset"} /\ next = OpenAt[p][j + 1]
    BY <2>1, StepFacts
  <2>4. /\ p[j].op = "tik" => next = <<site>> \o s
        /\ p[j].op = "tak" => s # << >> /\ next = Tail(s)
        /\ p[j].op = "take" => next = s
        /\ p[j].op = "reset" => next = << >>
    <3>1. Nested(p, OpenAt[p])
      BY ProgramFacts
    <3>2. \A k \in DOMAIN p :
            /\ p[k].op = "tik" => OpenAt[p][k + 1] = <<p[k].at>> \o OpenAt[p][k]
            /\ p[k].op = "tak" => OpenAt[p][k] # << >> /\ OpenAt[p][k + 1] = Tail(OpenAt[p][k])
            /\ p[k].op = "take" => OpenAt[p][k + 1] = OpenAt[p][k]
            /\ p[k].op = "reset" => OpenAt[p][k + 1] = << >>
      BY Zenon, <3>1 DEF Nested
    <3> QED BY Zenon, <2>1, <2>3, <3>2
  <2> DEFINE S == Sites(p)
             op == p[j].op
  <2>5. s \in Seq(S) /\ site \in S
    BY <2>2
  <2>6. op \in {"tik", "tak", "take", "reset"}
    BY <2>3
  <2>7. /\ op = "tik" => next = <<site>> \o s
        /\ op = "tak" => s # << >> /\ next = Tail(s)
        /\ op = "take" => next = s
        /\ op = "reset" => next = << >>
    BY <2>4
  <2> HIDE DEF s, site, next, S, op
  <2>8. next \in Seq(S)
    <3>1. CASE op = "tik"
      BY <2>5, <2>7, <3>1, PushFacts
    <3>2. CASE op = "tak"
      BY <2>5, <2>7, <3>2, PopFacts
    <3>3. CASE op = "take"
      BY <2>5, <2>7, <3>3
    <3>4. CASE op = "reset"
      BY <2>7, <3>4
    <3> QED BY <2>6, <3>1, <3>2, <3>3, <3>4
  <2> QED BY <2>8 DEF next, S
<1> QED BY <1>1, <1>2, <1>3, <1>4

\* A thread that runs is at a step of its program.
LEMMA AtAStep ==
  ASSUME TimersTyped, NEW t \in Threads, Runs(t)
  PROVE  /\ program[t] \in Programs /\ program[t] \in Seq({program[t][h] : h \in DOMAIN program[t]})
         /\ Len(program[t]) \in Nat /\ DOMAIN program[t] = 1 .. Len(program[t])
         /\ pc[t] \in DOMAIN program[t] /\ pc[t] \in Nat /\ pc[t] + 1 \in 1 .. (Len(program[t]) + 1)
         /\ Nested(program[t], OpenAt[program[t]])
         /\ program[t][pc[t]].at \in Sites(program[t])
         /\ Open(t) \in Seq(Sites(program[t]))
         /\ Here(t) \in Locations
         /\ t \in Working
<1>1. program[t] \in Programs /\ pc[t] \in Nat \ {0} /\ pc[t] <= Len(program[t])
  BY DEF TimersTyped, Runs
<1>2. program[t] \in Seq({program[t][h] : h \in DOMAIN program[t]})
      /\ Nested(program[t], OpenAt[program[t]])
  BY <1>1, ProgramFacts
<1>3. Len(program[t]) \in Nat /\ DOMAIN program[t] = 1 .. Len(program[t])
  BY <1>1, ProgramFacts
<1>4. pc[t] \in DOMAIN program[t] /\ pc[t] \in Nat /\ pc[t] + 1 \in 1 .. (Len(program[t]) + 1)
  BY <1>1, <1>3
<1>5. program[t][pc[t]].at \in Sites(program[t])
  BY <1>4 DEF Sites
<1>6. Open(t) \in Seq(Sites(program[t]))
  BY <1>1, <1>3, <1>4, OpenIsSeq DEF Open
<1>7. Here(t) \in Locations
  <2>1. program[t][pc[t]].at \in UNION {Sites(p) : p \in Programs}
    BY <1>1, <1>5
  <2> DEFINE S == UNION {Sites(p) : p \in Programs}
             site == program[t][pc[t]].at
  <2>2. site \in S
    BY <2>1
  <2> HIDE DEF S, site
  <2>3. Located(site, t) \in {Located(a, u) : a \in S, u \in Threads}
    BY <2>2
  <2> QED BY <2>3 DEF Here, Locations, S, site
<1>8. t \in Working
  BY <1>1, <1>3, <1>4 DEF Working
<1> QED BY <1>1, <1>2, <1>3, <1>4, <1>5, <1>6, <1>7, <1>8

\* Every thread, whether it runs or is at its end.
LEMMA OpenTyped ==
  ASSUME TimersTyped, NEW t \in Threads
  PROVE  program[t] \in Programs /\ Open(t) \in Seq(Sites(program[t]))
<1>1. program[t] \in Programs /\ pc[t] \in Nat \ {0} /\ pc[t] <= Len(program[t]) + 1
  BY DEF TimersTyped
<1>2. Len(program[t]) \in Nat
  BY <1>1, ProgramFacts
<1>3. pc[t] \in 1 .. (Len(program[t]) + 1)
  BY <1>1, <1>2
<1> QED BY <1>1, <1>3, OpenIsSeq DEF Open

LEMMA Advanced ==
  ASSUME TimersTyped, NEW t \in Threads, Runs(t), Advance(t), UNCHANGED program
  PROVE  /\ Open(t)' = OpenAt[program[t]][pc[t] + 1]
         /\ \A u \in Threads \ {t} : Open(u)' = Open(u)
         /\ pc' \in [Threads -> Nat \ {0}]
         /\ \A u \in Threads : pc'[u] <= Len(program'[u]) + 1
         /\ \A u \in Threads : pc'[u] = IF u = t THEN pc[t] + 1 ELSE pc[u]
<1>1. pc \in [Threads -> Nat \ {0}] /\ \A u \in Threads : pc[u] <= Len(program[u]) + 1
  BY DEF TimersTyped
<1>2. \A u \in Threads : pc'[u] = IF u = t THEN pc[t] + 1 ELSE pc[u]
  BY <1>1 DEF Advance
<1>3. pc[t] + 1 \in 1 .. (Len(program[t]) + 1) /\ pc[t] + 1 \in Nat \ {0} /\ Len(program[t]) \in Nat
  <2>1. program[t] \in Programs
    BY DEF TimersTyped
  <2>2. Len(program[t]) \in Nat
    BY <2>1, ProgramFacts
  <2> QED BY <1>1, <2>2 DEF Runs
<1>4. pc' \in [Threads -> Nat \ {0}]
  BY <1>1, <1>3 DEF Advance
<1>5. ASSUME NEW u \in Threads
      PROVE  pc'[u] <= Len(program'[u]) + 1
  BY <1>1, <1>2, <1>3
<1> QED BY <1>2, <1>4, <1>5 DEF Open

LEMMA PushOpened ==
  ASSUME NEW S, NEW o \in Seq(Opened), NEW s \in Seq(S), NEW site \in S, NEW t, NEW start \in Nat,
         AsWritten(o, s, t), Apart(o), Located(site, t) \in Locations,
         \A k \in 1 .. Len(o) : o[k].id # Located(site, t)
  PROVE  /\ <<[id |-> Located(site, t), start |-> start]>> \o o \in Seq(Opened)
         /\ AsWritten(<<[id |-> Located(site, t), start |-> start]>> \o o, <<site>> \o s, t)
         /\ Apart(<<[id |-> Located(site, t), start |-> start]>> \o o)
<1> DEFINE e == [id |-> Located(site, t), start |-> start]
           o1 == <<e>> \o o
           s1 == <<site>> \o s
<1>1. e \in Opened /\ e.id = Located(site, t)
  BY DEF Opened
<1> HIDE DEF e
<1>2. /\ o1 \in Seq(Opened) /\ Len(o1) = Len(o) + 1 /\ o1[1] = e
      /\ \A k \in 2 .. (Len(o) + 1) : o1[k] = o[k - 1] /\ k - 1 \in 1 .. Len(o)
  BY <1>1, PushFacts
<1>3. /\ Len(s1) = Len(s) + 1 /\ s1[1] = site
      /\ \A k \in 2 .. (Len(s) + 1) : s1[k] = s[k - 1]
  BY PushFacts
<1> HIDE DEF o1, s1
<1>4. Len(o) \in Nat /\ Len(s) = Len(o)
  BY DEF AsWritten
<1>5. AsWritten(o1, s1, t)
  <2> SUFFICES ASSUME NEW k \in 1 .. Len(o1)
               PROVE  o1[k].id = Located(s1[k], t)
    BY <1>2, <1>3, <1>4 DEF AsWritten
  <2>1. CASE k = 1
    BY <2>1, <1>1, <1>2, <1>3
  <2>2. CASE k # 1
    <3>1. k \in 2 .. (Len(o) + 1)
      BY <2>2, <1>2, <1>4
    <3>2. o1[k] = o[k - 1] /\ s1[k] = s[k - 1] /\ k - 1 \in 1 .. Len(o)
      BY <3>1, <1>2, <1>3, <1>4
    <3> QED BY <3>2 DEF AsWritten
  <2> QED BY <2>1, <2>2
<1>6. Apart(o1)
  <2> SUFFICES ASSUME NEW j \in 1 .. Len(o1), NEW k \in 1 .. Len(o1), j # k
               PROVE  o1[j].id # o1[k].id
    BY DEF Apart
  <2>1. j = 1 \/ j \in 2 .. (Len(o) + 1)
    BY <1>2, <1>4
  <2>2. k = 1 \/ k \in 2 .. (Len(o) + 1)
    BY <1>2, <1>4
  <2>3. CASE j = 1
    BY <2>2, <2>3, <1>1, <1>2
  <2>4. CASE k = 1
    BY <2>1, <2>4, <1>1, <1>2
  <2>5. CASE j \in 2 .. (Len(o) + 1) /\ k \in 2 .. (Len(o) + 1)
    <3>1. o1[j] = o[j - 1] /\ o1[k] = o[k - 1] /\ j - 1 \in 1 .. Len(o) /\ k - 1 \in 1 .. Len(o)
      BY <2>5, <1>2
    <3>2. j - 1 # k - 1
      OBVIOUS
    <3> QED BY <3>1, <3>2 DEF Apart
  <2> QED BY <2>1, <2>2, <2>3, <2>4, <2>5
<1> QED BY <1>2, <1>5, <1>6 DEF o1, s1, e

LEMMA PopOpened ==
  ASSUME NEW S, NEW o \in Seq(Opened), NEW s \in Seq(S), NEW t, s # << >>,
         AsWritten(o, s, t), Apart(o)
  PROVE  /\ o # << >> /\ Head(o) \in Opened /\ Head(o) = o[1] /\ 1 \in 1 .. Len(o)
         /\ Head(s) \in S /\ Head(o).id = Located(Head(s), t)
         /\ Tail(o) \in Seq(Opened) /\ AsWritten(Tail(o), Tail(s), t) /\ Apart(Tail(o))
<1>1. /\ Len(Tail(s)) = Len(s) - 1 /\ Len(s) > 0 /\ Len(s) \in Nat
      /\ Head(s) \in S /\ Head(s) = s[1]
      /\ \A k \in 1 .. (Len(s) - 1) : Tail(s)[k] = s[k + 1]
  BY PopFacts
<1>2. Len(o) = Len(s) /\ o # << >>
  BY <1>1 DEF AsWritten
<1>3. /\ Tail(o) \in Seq(Opened) /\ Len(Tail(o)) = Len(o) - 1
      /\ Head(o) \in Opened /\ Head(o) = o[1] /\ 1 \in 1 .. Len(o)
      /\ \A k \in 1 .. (Len(o) - 1) : Tail(o)[k] = o[k + 1] /\ k + 1 \in 1 .. Len(o)
  BY <1>2, PopFacts
<1>4. Head(o).id = Located(Head(s), t)
  BY <1>1, <1>3 DEF AsWritten
<1>5. AsWritten(Tail(o), Tail(s), t)
  BY <1>1, <1>2, <1>3 DEF AsWritten
<1>6. Apart(Tail(o))
  <2> SUFFICES ASSUME NEW j \in 1 .. Len(Tail(o)), NEW k \in 1 .. Len(Tail(o)), j # k
               PROVE  Tail(o)[j].id # Tail(o)[k].id
    BY DEF Apart
  <2>1. /\ Tail(o)[j] = o[j + 1] /\ Tail(o)[k] = o[k + 1]
        /\ j + 1 \in 1 .. Len(o) /\ k + 1 \in 1 .. Len(o) /\ j + 1 # k + 1
    BY <1>3
  <2> QED BY <2>1 DEF Apart
<1> QED BY <1>1, <1>2, <1>3, <1>4, <1>5, <1>6

\* Start times of sections that are not opened or are closed do not matter.
LEMMA PopKept ==
  ASSUME NEW o \in Seq(Opened), o # << >>, NEW starts, Kept(o, starts)
  PROVE  Kept(Tail(o), starts)
BY PopFacts DEF Kept

LEMMA PlusFacts ==
  ASSUME NEW a \in Times, NEW b \in Times, NEW c \in Times
  PROVE  /\ Plus(a, b) \in Times /\ NoTime \in Times
         /\ Plus(a, NoTime) = a /\ Plus(NoTime, a) = a
         /\ Plus(Plus(a, c), b) = Plus(Plus(a, b), c)
BY DEF Plus, NoTime, Times

\* The use of the clock does not change.
LEMMA SameUse ==
  ASSUME UNCHANGED program
  PROVE  /\ (Alone' <=> Alone) /\ (OneSection' <=> OneSection) /\ (Used' <=> Used)
         /\ Working' = Working
         /\ \A t \in Threads : Sites(program'[t]) = Sites(program[t])
<1>1. Working' = Working
  BY DEF Working
<1>2. OneSection' <=> OneSection
  BY DEF OneSection
<1>3. Alone' <=> Alone
  BY <1>1 DEF Alone
<1> QED BY <1>1, <1>2, <1>3 DEF Used

LEMMA OthersHaveNothing ==
  ASSUME TimersTyped, NestedAsWritten, NEW u \in Threads \ Working
  PROVE  opened[u] = << >>
<1>1. program[u] = << >> /\ program[u] \in Programs
  BY DEF Working, TimersTyped
<1>2. pc[u] = 1
  BY <1>1 DEF TimersTyped
<1>3. Nested(program[u], OpenAt[program[u]])
  BY <1>1, ProgramFacts
<1>4. Open(u) = << >>
  BY <1>2, <1>3, Zenon DEF Open, Nested
<1>5. Len(opened[u]) = 0 /\ opened[u] \in Seq(Opened)
  BY <1>4 DEF NestedAsWritten, AsWritten, TimersTyped
<1> QED BY <1>5

LEMMA SecondClockStays ==
  ASSUME TimersTyped, SecondClock, NEW t \in Threads, Runs(t), Advance(t),
         UNCHANGED <<program, clkdc>>
  PROVE  SecondClock'
<1>1. ASSUME \A u \in Threads : \A j \in 1 .. (pc'[u] - 1) : program'[u][j].op # "reset"
      PROVE  \A u \in Threads : \A j \in 1 .. (pc[u] - 1) : program[u][j].op # "reset"
  <2>1. \A u \in Threads : pc[u] \in Nat /\ pc'[u] \in Nat /\ pc[u] <= pc'[u]
    <3>1. pc \in [Threads -> Nat \ {0}] /\ pc' = [pc EXCEPT ![t] = @ + 1]
      BY DEF TimersTyped, Advance
    <3> QED BY <3>1
  <2>2. ASSUME NEW u \in Threads, NEW j \in 1 .. (pc[u] - 1)
        PROVE  program[u][j].op # "reset"
    <3>1. j \in 1 .. (pc'[u] - 1)
      BY <2>1
    <3> QED BY <1>1, <3>1
  <2> QED BY <2>2
<1> QED BY <1>1 DEF SecondClock

LEMMA Tik_Inv ==
  ASSUME TimersInv, NEW t \in Threads, Tik(t)
  PROVE  TimersInv'
<1> DEFINE p == program[t]
           site == program[t][pc[t]].at
           e == [id |-> Here(t), start |-> now]
           o1 == <<e>> \o opened[t]
<1>1. /\ Runs(t) /\ Op(t) = "tik" /\ Advance(t)
      /\ UNCHANGED <<timers_, clkdc, program, new_time, now, spent, results, error>>
  BY DEF Tik
<1>2. /\ TimersTyped /\ NestedAsWritten /\ TimesAreTrue
      /\ Used => StartsAreKept /\ StackOfOne /\ StackOfAll /\ SecondClock
  BY DEF TimersInv
<1>3. /\ p \in Programs /\ pc[t] \in DOMAIN p /\ site \in Sites(p) /\ Open(t) \in Seq(Sites(p))
      /\ Here(t) \in Locations /\ t \in Working /\ p[pc[t]].op = "tik"
  BY <1>1, <1>2, AtAStep DEF Op
<1>4. Here(t) = Located(site, t)
  BY DEF Here
<1>5. /\ OpenAt[p][pc[t] + 1] = <<site>> \o OpenAt[p][pc[t]]
      /\ \A k \in DOMAIN OpenAt[p][pc[t]] : OpenAt[p][pc[t]][k] # site
  BY <1>3, StepFacts
<1>6. /\ Open(t)' = <<site>> \o Open(t)
      /\ \A u \in Threads \ {t} : Open(u)' = Open(u)
  BY <1>1, <1>2, <1>5, Advanced DEF Open
<1>7. \A k \in 1 .. Len(Open(t)) : Open(t)[k] # site /\ Open(t)[k] \in Sites(p)
  BY <1>3, <1>5 DEF Open
<1>8. /\ opened[t] \in Seq(Opened) /\ now \in Nat /\ to_tak_ \in Seq(Locations)
      /\ AsWritten(opened[t], Open(t), t) /\ Apart(opened[t])
  BY <1>2 DEF TimersTyped, NestedAsWritten
<1>9. \A k \in 1 .. Len(opened[t]) : opened[t][k].id # Located(site, t)
  <2> SUFFICES ASSUME NEW k \in 1 .. Len(opened[t])
               PROVE  opened[t][k].id # Located(site, t)
    OBVIOUS
  <2>1. opened[t][k].id = Located(Open(t)[k], t) /\ k \in 1 .. Len(Open(t))
    BY <1>8 DEF AsWritten
  <2>2. Open(t)[k] # site /\ Open(t)[k] \in Sites(p)
    BY <1>7, <2>1
  <2> QED BY <1>3, <2>1, <2>2, LocatedApart
<1>10. o1 \in Seq(Opened) /\ AsWritten(o1, <<site>> \o Open(t), t) /\ Apart(o1)
  BY <1>3, <1>4, <1>8, <1>9, PushOpened
<1>11. /\ opened' \in [Threads -> Seq(Opened)] /\ opened'[t] = o1
       /\ \A u \in Threads \ {t} : opened'[u] = opened[u]
  BY <1>2, <1>10 DEF Tik, TimersTyped
<1>12. /\ Len(o1) = Len(opened[t]) + 1 /\ o1[1] = e /\ e.id = Here(t) /\ e.start = now
       /\ \A k \in 2 .. (Len(opened[t]) + 1) : o1[k] = opened[t][k - 1] /\ k - 1 \in 1 .. Len(opened[t])
       /\ Len(opened[t]) \in Nat
  <2>1. e \in Opened /\ e.id = Here(t) /\ e.start = now
    BY <1>3, <1>8 DEF Opened
  <2> HIDE DEF e
  <2> QED BY <2>1, <1>8, PushFacts
<1>13. /\ to_tak_' \in Seq(Locations) /\ Len(to_tak_') = Len(to_tak_) + 1 /\ to_tak_'[1] = Here(t)
       /\ \A k \in 2 .. (Len(to_tak_) + 1) : to_tak_'[k] = to_tak_[k - 1] /\ k - 1 \in 1 .. Len(to_tak_)
       /\ Len(to_tak_) \in Nat
  BY <1>3, <1>8, PushFacts DEF Tik
<1>14. /\ start_ing_timers_' \in [Locations -> Nat] /\ start_ing_timers_'[Here(t)] = now
       /\ \A id \in Locations \ {Here(t)} : start_ing_timers_'[id] = start_ing_timers_[id]
  BY <1>2, <1>3, <1>8 DEF Tik, TimersTyped
<1> HIDE DEF o1, e, p, site
<1>15. TimersTyped'
  BY <1>1, <1>2, <1>11, <1>13, <1>14, Advanced DEF TimersTyped
<1>16. NestedAsWritten'
  <2>1. ASSUME NEW u \in Threads
        PROVE  AsWritten(opened'[u], Open(u)', u) /\ Apart(opened'[u])
    <3>1. CASE u = t
      BY <3>1, <1>6, <1>10, <1>11
    <3>2. CASE u # t
      BY <3>2, <1>2, <1>6, <1>11 DEF NestedAsWritten
    <3> QED BY <3>1, <3>2
  <2> QED BY <2>1 DEF NestedAsWritten, AsWritten, Apart
<1>17. (Alone' <=> Alone) /\ (OneSection' <=> OneSection) /\ (Used' <=> Used) /\ Working' = Working
  BY <1>1, SameUse
<1>18. ASSUME Used
       PROVE  StartsAreKept'
  <2>1. \A u \in Threads : Kept(opened[u], start_ing_timers_)
    BY <1>2, <1>18 DEF StartsAreKept
  <2>2. \A k \in 1 .. Len(opened[t]) : opened[t][k].id \in Locations \ {Here(t)}
    <3>1. \A k \in 1 .. Len(opened[t]) : opened[t][k] \in Opened
      BY <1>8
    <3> QED BY <3>1, <1>4, <1>9 DEF Opened, site
  <2>3. Kept(o1, start_ing_timers_')
    <3> SUFFICES ASSUME NEW k \in 1 .. Len(o1)
                 PROVE  start_ing_timers_'[o1[k].id] = o1[k].start
      BY DEF Kept
    <3>1. CASE k = 1
      BY <3>1, <1>12, <1>14
    <3>2. CASE k \in 2 .. (Len(opened[t]) + 1)
      <4>1. o1[k] = opened[t][k - 1] /\ k - 1 \in 1 .. Len(opened[t])
        BY <3>2, <1>12
      <4> QED BY <4>1, <2>1, <2>2, <1>14 DEF Kept
    <3> QED BY <3>1, <3>2, <1>12
  <2>4. ASSUME NEW u \in Threads \ {t}
        PROVE  Kept(opened[u], start_ing_timers_')
    <3> SUFFICES ASSUME NEW k \in 1 .. Len(opened[u])
                 PROVE  start_ing_timers_'[opened[u][k].id] = opened[u][k].start
      BY DEF Kept
    <3>1. opened[u] \in Seq(Opened) /\ AsWritten(opened[u], Open(u), u)
      BY <1>2 DEF TimersTyped, NestedAsWritten
    <3>2. opened[u][k].id = Located(Open(u)[k], u) /\ k \in 1 .. Len(Open(u))
      BY <3>1 DEF AsWritten
    <3>3. program[u] \in Programs /\ Open(u)[k] \in Sites(program[u])
      BY <1>2, <3>2, OpenTyped
    <3>4. opened[u][k].id # Here(t)
      BY <1>3, <1>4, <3>2, <3>3, LocatedApart DEF p, site
    <3>5. opened[u][k].id \in Locations
      <4>1. opened[u][k] \in Opened
        BY <3>1
      <4> QED BY <4>1 DEF Opened
    <3> QED BY <3>4, <3>5, <1>14, <2>1 DEF Kept
  <2> QED BY <2>3, <2>4, <1>11 DEF StartsAreKept
<1>19. ASSUME Used
       PROVE  StackOfOne'
  <2> SUFFICES ASSUME Alone, NEW u \in Working
               PROVE  /\ Len(to_tak_') = Len(opened'[u])
                      /\ \A k \in 1 .. Len(to_tak_') : to_tak_'[k] = opened'[u][k].id
    BY <1>17 DEF StackOfOne, StackOf
  <2>1. u = t /\ StackOf(opened[t])
    BY <1>2, <1>3, <1>19 DEF Alone, StackOfOne
  <2>2. Len(to_tak_) = Len(opened[t]) /\ \A k \in 1 .. Len(to_tak_) : to_tak_[k] = opened[t][k].id
    BY <2>1 DEF StackOf
  <2>3. Len(to_tak_') = Len(o1)
    BY <2>2, <1>12, <1>13
  <2>4. ASSUME NEW k \in 1 .. Len(to_tak_')
        PROVE  to_tak_'[k] = o1[k].id
    <3>1. CASE k = 1
      BY <3>1, <1>12, <1>13
    <3>2. CASE k \in 2 .. (Len(to_tak_) + 1)
      BY <3>2, <2>2, <1>12, <1>13
    <3> QED BY <3>1, <3>2, <1>13
  <2> QED BY <2>1, <2>3, <2>4, <1>11
<1>20. ASSUME Used
       PROVE  StackOfAll'
  <2> SUFFICES ASSUME OneSection
               PROVE  /\ Len(to_tak_') = Cardinality(Inside')
                      /\ \A k \in 1 .. Len(to_tak_') : \A u \in Threads : \A s \in Sites(program[u]) :
                           to_tak_'[k].function = s.function /\ to_tak_'[k].line = s.line
    BY <1>1, <1>17 DEF StackOfAll
  <2>1. /\ Len(to_tak_) = Cardinality(Inside)
        /\ \A k \in 1 .. Len(to_tak_) : \A u \in Threads : \A s \in Sites(program[u]) :
             to_tak_[k].function = s.function /\ to_tak_[k].line = s.line
    BY <1>2, <1>20 DEF StackOfAll
  <2>2. opened[t] = << >>
    <3>1. Len(Open(t)) = 0
      <4> SUFFICES ASSUME Len(Open(t)) # 0
                   PROVE  FALSE
        OBVIOUS
      <4>1. 1 \in 1 .. Len(Open(t))
        BY <1>3
      <4>2. Open(t)[1] \in Sites(program[t]) /\ Open(t)[1] # site /\ site \in Sites(program[t])
        BY <4>1, <1>3, <1>7 DEF p
      <4> QED BY <4>2 DEF OneSection
    <3> QED BY <3>1, <1>8 DEF AsWritten
  <2>3. Inside' = Inside \cup {t} /\ t \notin Inside
    <3>1. opened'[t] # << >>
      BY <1>11, <1>12
    <3> QED BY <2>2, <3>1, <1>11 DEF Inside
  <2>4. Cardinality(Inside') = Cardinality(Inside) + 1
    <3>1. IsFiniteSet(Inside)
      BY UsesAssumption, FS_Subset, Inside \subseteq Threads DEF Inside
    <3> QED BY <2>3, <3>1, FS_AddElement
  <2>5. ASSUME NEW k \in 1 .. Len(to_tak_'), NEW u \in Threads, NEW s \in Sites(program[u])
        PROVE  to_tak_'[k].function = s.function /\ to_tak_'[k].line = s.line
    <3>1. CASE k = 1
      <4>1. site = s
        <5>1. \A x, y \in Threads : \A a \in Sites(program[x]), b \in Sites(program[y]) : a = b
          BY DEF OneSection
        <5>2. site \in Sites(program[t])
          BY <1>3 DEF p
        <5> QED BY <5>1, <5>2, Zenon
      <4> QED BY <3>1, <4>1, <1>4, <1>13 DEF Located
    <3>2. CASE k \in 2 .. (Len(to_tak_) + 1)
      BY <3>2, <2>1, <1>13
    <3> QED BY <3>1, <3>2, <1>13
  <2> QED BY <2>1, <2>4, <2>5, <1>13
<1>21. Used => SecondClock'
  BY <1>1, <1>2, SecondClockStays
<1>22. TimesAreTrue'
  BY <1>1, <1>2, <1>17 DEF TimesAreTrue
<1> QED BY <1>15, <1>16, <1>17, <1>18, <1>19, <1>20, <1>21, <1>22 DEF TimersInv

\* A Tak that runs pops the thread's own innermost section off its program, and finds its
\* start time whosever entry is on the top of the stack.
LEMMA TakFindsOwn ==
  ASSUME TimersInv, Used, NEW t \in Threads, Runs(t), Op(t) = "tak"
  PROVE  to_tak_ # << >> /\ Paired(t) /\ TakLocation(t) = Head(opened[t]).id
<1> DEFINE p == program[t]
           site == program[t][pc[t]].at
           own == Head(Open(t))
<1>1. /\ TimersTyped /\ NestedAsWritten
      /\ StackOfOne /\ StackOfAll
  BY DEF TimersInv
<1>2. /\ p \in Programs /\ pc[t] \in DOMAIN p /\ site \in Sites(p) /\ Open(t) \in Seq(Sites(p))
      /\ t \in Working /\ p[pc[t]].op = "tak"
  BY <1>1, AtAStep DEF Op
<1>3. Open(t) # << >> /\ own.function = site.function
  BY <1>2, StepFacts DEF Open
<1>4. /\ opened[t] \in Seq(Opened) /\ AsWritten(opened[t], Open(t), t) /\ Apart(opened[t])
      /\ to_tak_ \in Seq(Locations)
  BY <1>1 DEF TimersTyped, NestedAsWritten
<1>5. /\ opened[t] # << >> /\ Head(opened[t]) = opened[t][1] /\ 1 \in 1 .. Len(opened[t])
      /\ own \in Sites(p) /\ Head(opened[t]).id = Located(own, t)
  BY <1>2, <1>3, <1>4, PopOpened
<1>6. Here(t) = [function |-> site.function, line |-> site.line, thread |-> t]
  BY DEF Here, Located
<1> HIDE DEF p, site, own
<1>7. CASE Alone
  <2>1. Len(to_tak_) = Len(opened[t]) /\ \A k \in 1 .. Len(to_tak_) : to_tak_[k] = opened[t][k].id
    BY <1>1, <1>2, <1>7 DEF StackOfOne, StackOf
  <2>2. to_tak_ # << >> /\ Head(to_tak_) = to_tak_[1] /\ to_tak_[1] = Located(own, t)
    BY <2>1, <1>4, <1>5
  <2>3. Head(to_tak_).function = site.function /\ Head(to_tak_).line = own.line
    BY <2>2, <1>3 DEF Located
  <2> QED BY <2>2, <2>3, <1>3, <1>5, <1>6 DEF Paired, TakLocation, Located
<1>8. CASE OneSection
  <2>1. /\ Len(to_tak_) = Cardinality(Inside)
        /\ \A k \in 1 .. Len(to_tak_) : \A u \in Threads : \A s \in Sites(program[u]) :
             to_tak_[k].function = s.function /\ to_tak_[k].line = s.line
    BY <1>1, <1>8 DEF StackOfAll
  <2>2. Cardinality(Inside) # 0
    <3>1. IsFiniteSet(Inside)
      BY UsesAssumption, FS_Subset, Inside \subseteq Threads DEF Inside
    <3>2. t \in Inside
      BY <1>5 DEF Inside
    <3> QED BY <3>1, <3>2, FS_EmptySet
  <2>3. to_tak_ # << >> /\ Head(to_tak_) = to_tak_[1] /\ 1 \in 1 .. Len(to_tak_)
    BY <2>1, <2>2, <1>4
  <2>4. own \in Sites(program[t])
    BY <1>5 DEF p
  <2>5. Head(to_tak_).function = own.function /\ Head(to_tak_).line = own.line
    BY <2>1, <2>3, <2>4
  <2> QED BY <2>3, <2>5, <1>3, <1>5, <1>6 DEF Paired, TakLocation, Located
<1> QED BY <1>7, <1>8 DEF Used

LEMMA Tak_Inv ==
  ASSUME TimersInv, NEW t \in Threads, Tak(t)
  PROVE  TimersInv'
<1> DEFINE p == program[t]
           o1 == Tail(opened[t])
           top == Head(opened[t])
           took == [time |-> new_time[t] - top.start, count |-> 1]
<1>1. /\ Runs(t) /\ Op(t) = "tak" /\ Advance(t) /\ Paired(t) /\ to_tak_' = Tail(to_tak_)
      /\ UNCHANGED <<start_ing_timers_, clkdc, program, now, results, error>>
      /\ new_time' = [new_time EXCEPT ![t] = 0]
  BY DEF Tak
<1>2. /\ TimersTyped /\ NestedAsWritten /\ TimesAreTrue
      /\ Used => StartsAreKept /\ StackOfOne /\ StackOfAll /\ SecondClock
  BY DEF TimersInv
<1>3. /\ p \in Programs /\ pc[t] \in DOMAIN p /\ Open(t) \in Seq(Sites(p))
      /\ t \in Working /\ p[pc[t]].op = "tak"
      /\ program[t][pc[t]].at \in Sites(p) /\ Here(t) \in Locations
  BY <1>1, <1>2, AtAStep DEF Op
<1>4. Open(t) # << >> /\ OpenAt[p][pc[t] + 1] = Tail(Open(t))
      /\ Head(Open(t)).function = program[t][pc[t]].at.function
  BY <1>3, StepFacts DEF Open
<1>5. /\ Open(t)' = Tail(Open(t))
      /\ \A u \in Threads \ {t} : Open(u)' = Open(u)
  BY <1>1, <1>2, <1>4, Advanced
<1>6. /\ opened[t] \in Seq(Opened) /\ to_tak_ \in Seq(Locations) /\ to_tak_ # << >>
      /\ AsWritten(opened[t], Open(t), t) /\ Apart(opened[t])
  BY <1>1, <1>2 DEF TimersTyped, NestedAsWritten, Paired
<1>7. /\ opened[t] # << >> /\ top \in Opened /\ top = opened[t][1] /\ 1 \in 1 .. Len(opened[t])
      /\ o1 \in Seq(Opened) /\ AsWritten(o1, Tail(Open(t)), t) /\ Apart(o1)
      /\ top.id = Located(Head(Open(t)), t) /\ Head(Open(t)) \in Sites(p)
  BY <1>3, <1>4, <1>6, PopOpened
<1>8. /\ opened' \in [Threads -> Seq(Opened)] /\ opened'[t] = o1
      /\ \A u \in Threads \ {t} : opened'[u] = opened[u]
  <2>1. opened' = [opened EXCEPT ![t] = o1]
    BY <1>7 DEF Tak
  <2> QED BY <2>1, <1>2, <1>7 DEF TimersTyped
<1>9. top.id \in Locations /\ top.start \in Nat /\ took \in Times
  <2>1. new_time[t] \in Nat
    BY <1>2 DEF TimersTyped
  <2>2. top.id \in Locations /\ top.start \in Nat
    BY <1>7 DEF Opened
  <2> QED BY <2>1, <2>2 DEF Times
<1>10. spent' = [spent EXCEPT ![top.id] = Plus(@, took)]
  BY <1>7 DEF Tak
<1>11. /\ Tail(to_tak_) \in Seq(Locations) /\ Len(to_tak_') = Len(to_tak_) - 1
       /\ Len(to_tak_) \in Nat /\ Len(to_tak_) > 0
       /\ \A k \in 1 .. (Len(to_tak_) - 1) : to_tak_'[k] = to_tak_[k + 1] /\ k + 1 \in 1 .. Len(to_tak_)
  BY <1>1, <1>6, PopFacts
<1>12. /\ Len(o1) = Len(opened[t]) - 1
       /\ \A k \in 1 .. (Len(opened[t]) - 1) : o1[k] = opened[t][k + 1] /\ k + 1 \in 1 .. Len(opened[t])
  BY <1>6, <1>7, PopFacts
<1>13. TakLocation(t) \in Locations
  <2> DEFINE S == UNION {Sites(q) : q \in Programs}
             here == program[t][pc[t]].at
             head == Head(to_tak_)
  <2>1. head \in Locations
    BY <1>6
  <2>2. PICK s \in S, u \in Threads : head = Located(s, u)
    BY <2>1 DEF Locations
  <2>3. head.function = s.function /\ head.line = s.line
    BY <2>2 DEF Located
  <2>4. Here(t) = [function |-> here.function, line |-> here.line, thread |-> t]
    BY DEF Here, Located
  <2>5. head.function = here.function
    BY <1>1, <2>4 DEF Paired
  <2>6. TakLocation(t) = Located(s, t)
    BY <2>3, <2>4, <2>5 DEF TakLocation, Located
  <2> HIDE DEF S
  <2>7. Located(s, t) \in {Located(a, v) : a \in S, v \in Threads}
    OBVIOUS
  <2> QED BY <2>6, <2>7 DEF Locations, S
<1>14. timers_' = [timers_ EXCEPT ![TakLocation(t)] =
          Plus(@, [time |-> new_time[t] - start_ing_timers_[TakLocation(t)], count |-> 1])]
  BY DEF Tak
<1> HIDE DEF o1, p, took, top
<1>15. TimersTyped'
  <2>1. timers_' \in [Locations -> Times]
    <3> DEFINE id == TakLocation(t)
               some == [time |-> new_time[t] - start_ing_timers_[id], count |-> 1]
    <3>1. some \in Times
      <4>1. new_time[t] \in Nat /\ start_ing_timers_[id] \in Nat
        BY <1>2, <1>13 DEF TimersTyped
      <4> QED BY <4>1 DEF Times
    <3>2. timers_[id] \in Times /\ timers_ \in [Locations -> Times]
      BY <1>2, <1>13 DEF TimersTyped
    <3>3. timers_' = [timers_ EXCEPT ![id] = Plus(timers_[id], some)]
      BY <1>14
    <3> HIDE DEF id, some
    <3>4. Plus(timers_[id], some) \in Times
      BY <3>1, <3>2, PlusFacts
    <3> QED BY <3>2, <3>3, <3>4
  <2>2. spent' \in [Locations -> Times]
    <3>1. spent \in [Locations -> Times] /\ spent[top.id] \in Times
      BY <1>2, <1>9 DEF TimersTyped
    <3>2. Plus(spent[top.id], took) \in Times
      BY <3>1, <1>9, PlusFacts
    <3> QED BY <3>1, <3>2, <1>10
  <2>3. new_time' \in [Threads -> Nat]
    BY <1>1, <1>2 DEF TimersTyped
  <2> QED BY <1>1, <1>2, <1>8, <1>11, <2>1, <2>2, <2>3, Advanced DEF TimersTyped
<1>16. NestedAsWritten'
  <2>1. ASSUME NEW u \in Threads
        PROVE  AsWritten(opened'[u], Open(u)', u) /\ Apart(opened'[u])
    <3>1. CASE u = t
      BY <3>1, <1>5, <1>7, <1>8
    <3>2. CASE u # t
      BY <3>2, <1>2, <1>5, <1>8 DEF NestedAsWritten
    <3> QED BY <3>1, <3>2
  <2> QED BY <2>1 DEF NestedAsWritten, AsWritten, Apart
<1>17. (Alone' <=> Alone) /\ (OneSection' <=> OneSection) /\ (Used' <=> Used) /\ Working' = Working
  BY <1>1, SameUse
<1>18. ASSUME Used
       PROVE  StartsAreKept'
  <2>1. \A u \in Threads : Kept(opened[u], start_ing_timers_)
    BY <1>2, <1>18 DEF StartsAreKept
  <2>2. Kept(o1, start_ing_timers_)
    BY <2>1, <1>6, <1>7, PopKept DEF o1
  <2>3. \A u \in Threads : Kept(opened'[u], start_ing_timers_)
    BY <2>1, <2>2, <1>8
  <2> QED BY <2>3, <1>1 DEF StartsAreKept, Kept
<1>19. ASSUME Used
       PROVE  StackOfOne'
  <2> SUFFICES ASSUME Alone, NEW u \in Working
               PROVE  /\ Len(to_tak_') = Len(opened'[u])
                      /\ \A k \in 1 .. Len(to_tak_') : to_tak_'[k] = opened'[u][k].id
    BY <1>17 DEF StackOfOne, StackOf
  <2>1. u = t /\ StackOf(opened[t])
    BY <1>2, <1>3, <1>19 DEF Alone, StackOfOne
  <2>2. Len(to_tak_) = Len(opened[t]) /\ \A k \in 1 .. Len(to_tak_) : to_tak_[k] = opened[t][k].id
    BY <2>1 DEF StackOf
  <2>3. Len(to_tak_') = Len(o1)
    BY <2>2, <1>11, <1>12
  <2>4. ASSUME NEW k \in 1 .. Len(to_tak_')
        PROVE  to_tak_'[k] = o1[k].id
    BY <2>2, <1>11, <1>12
  <2> QED BY <2>1, <2>3, <2>4, <1>8
<1>20. ASSUME Used
       PROVE  StackOfAll'
  <2> SUFFICES ASSUME OneSection
               PROVE  /\ Len(to_tak_') = Cardinality(Inside')
                      /\ \A k \in 1 .. Len(to_tak_') : \A u \in Threads : \A s \in Sites(program[u]) :
                           to_tak_'[k].function = s.function /\ to_tak_'[k].line = s.line
    BY <1>1, <1>17 DEF StackOfAll
  <2>1. /\ Len(to_tak_) = Cardinality(Inside)
        /\ \A k \in 1 .. Len(to_tak_) : \A u \in Threads : \A s \in Sites(program[u]) :
             to_tak_[k].function = s.function /\ to_tak_[k].line = s.line
    BY <1>2, <1>20 DEF StackOfAll
  <2>2. o1 = << >>
    <3> SUFFICES ASSUME o1 # << >>
                 PROVE  FALSE
      OBVIOUS
    <3>1. 2 \in 1 .. Len(opened[t])
      BY <1>6, <1>7, <1>12
    <3>2. opened[t][1].id = Located(Open(t)[1], t) /\ opened[t][2].id = Located(Open(t)[2], t)
          /\ 1 \in 1 .. Len(Open(t)) /\ 2 \in 1 .. Len(Open(t))
      BY <3>1, <1>6, <1>7 DEF AsWritten
    <3>3. Open(t)[1] \in Sites(program[t]) /\ Open(t)[2] \in Sites(program[t])
      BY <3>2, <1>3 DEF p
    <3>4. Open(t)[1] = Open(t)[2]
      <4>1. \A x, y \in Threads : \A a \in Sites(program[x]), b \in Sites(program[y]) : a = b
        BY DEF OneSection
      <4> QED BY <3>3, <4>1, Zenon
    <3> QED BY <3>1, <3>2, <3>4, <1>6, <1>7 DEF Apart
  <2>3. Inside' = Inside \ {t} /\ t \in Inside
    BY <2>2, <1>7, <1>8 DEF Inside
  <2>4. Cardinality(Inside') = Cardinality(Inside) - 1
    <3>1. IsFiniteSet(Inside)
      BY UsesAssumption, FS_Subset, Inside \subseteq Threads DEF Inside
    <3> QED BY <2>3, <3>1, FS_RemoveElement
  <2>5. ASSUME NEW k \in 1 .. Len(to_tak_'), NEW u \in Threads, NEW s \in Sites(program[u])
        PROVE  to_tak_'[k].function = s.function /\ to_tak_'[k].line = s.line
    BY <2>1, <1>11
  <2> QED BY <2>1, <2>4, <2>5, <1>11
<1>21. Used => SecondClock'
  BY <1>1, <1>2, SecondClockStays
<1>22. TimesAreTrue'
  <2> SUFFICES ASSUME Used
               PROVE  /\ error = "none"
                      /\ \A id \in Locations : Plus(timers_'[id], clkdc[id]) = spent'[id]
                      /\ \A r \in results : r[1] = r[2]
    BY <1>1, <1>17 DEF TimesAreTrue, Used
  <2>1. /\ error = "none"
        /\ \A id \in Locations : Plus(timers_[id], clkdc[id]) = spent[id]
        /\ \A r \in results : r[1] = r[2]
    BY <1>2 DEF TimesAreTrue, Used
  <2>2. TakLocation(t) = top.id
    BY <1>1, TakFindsOwn DEF top
  <2>3. start_ing_timers_[top.id] = top.start
    BY <1>2, <1>7 DEF StartsAreKept, Kept
  <2>4. timers_' = [timers_ EXCEPT ![top.id] = Plus(timers_[top.id], took)]
    BY <1>14, <2>2, <2>3 DEF took
  <2>5. spent' = [spent EXCEPT ![top.id] = Plus(spent[top.id], took)]
    BY <1>10
  <2>6. ASSUME NEW id \in Locations
        PROVE  Plus(timers_'[id], clkdc[id]) = spent'[id]
    <3>1. timers_ \in [Locations -> Times] /\ spent \in [Locations -> Times] /\ clkdc \in [Locations -> Times]
      BY <1>2 DEF TimersTyped
    <3>2. CASE id = top.id
      <4>1. timers_'[id] = Plus(timers_[id], took) /\ spent'[id] = Plus(spent[id], took)
        BY <3>1, <3>2, <2>4, <2>5
      <4>2. Plus(Plus(timers_[id], took), clkdc[id]) = Plus(Plus(timers_[id], clkdc[id]), took)
        BY <3>1, <1>9, PlusFacts
      <4> QED BY <4>1, <4>2, <2>1
    <3>3. CASE id # top.id
      BY <3>1, <3>3, <2>1, <2>4, <2>5
    <3> QED BY <3>2, <3>3
  <2> QED BY <2>1, <2>6
<1> QED BY <1>15, <1>16, <1>17, <1>18, <1>19, <1>20, <1>21, <1>22 DEF TimersInv

\* Steps that open and close nothing keep what is said of open sections.
LEMMA SameStack ==
  ASSUME TimersInv, UNCHANGED <<to_tak_, program, opened>>,
         \A u \in Threads : Open(u)' = Open(u)
  PROVE  /\ NestedAsWritten'
         /\ (Alone' <=> Alone) /\ (OneSection' <=> OneSection) /\ (Used' <=> Used)
         /\ Used => StackOfOne' /\ StackOfAll'
<1>1. NestedAsWritten /\ (Used => StackOfOne /\ StackOfAll)
  BY DEF TimersInv
<1>2. (Alone' <=> Alone) /\ (OneSection' <=> OneSection) /\ (Used' <=> Used) /\ Working' = Working
  BY SameUse
<1>3. NestedAsWritten'
  <2>1. ASSUME NEW u \in Threads
        PROVE  AsWritten(opened'[u], Open(u)', u) /\ Apart(opened'[u])
    BY <1>1 DEF NestedAsWritten
  <2> QED BY <2>1 DEF NestedAsWritten, AsWritten, Apart
<1>4. ASSUME Used
      PROVE  StackOfOne'
  BY <1>1, <1>2, <1>4 DEF StackOfOne, StackOf
<1>5. ASSUME Used
      PROVE  StackOfAll'
  <2>1. Inside' = Inside
    BY DEF Inside
  <2> QED BY <1>1, <1>2, <1>5, <2>1 DEF StackOfAll
<1> QED BY <1>2, <1>3, <1>4, <1>5

LEMMA TakTime_Inv ==
  ASSUME TimersInv, NEW t \in Threads, TakTime(t)
  PROVE  TimersInv'
<1>1. UNCHANGED <<timers_, start_ing_timers_, to_tak_, clkdc, program, pc, now, opened, spent, results, error>>
      /\ new_time' = [new_time EXCEPT ![t] = now]
  BY DEF TakTime, clock, history
<1>2. /\ TimersTyped /\ TimesAreTrue
      /\ Used => StartsAreKept /\ StackOfOne /\ StackOfAll /\ SecondClock
  BY DEF TimersInv
<1>3. TimersTyped'
  BY <1>1, <1>2 DEF TimersTyped
<1>4. \A u \in Threads : Open(u)' = Open(u)
  BY <1>1 DEF Open
<1>5. StartsAreKept => StartsAreKept'
  BY <1>1 DEF StartsAreKept, Kept
<1>6. SecondClock => SecondClock'
  BY <1>1 DEF SecondClock
<1>7. /\ NestedAsWritten'
      /\ (Alone' <=> Alone) /\ (OneSection' <=> OneSection) /\ (Used' <=> Used)
      /\ Used => StackOfOne' /\ StackOfAll'
  BY <1>1, <1>4, SameStack
<1>8. TimesAreTrue'
  BY <1>1, <1>2, <1>7 DEF TimesAreTrue
<1> QED BY <1>2, <1>3, <1>5, <1>6, <1>7, <1>8 DEF TimersInv

LEMMA Tick_Inv ==
  ASSUME TimersInv, Tick
  PROVE  TimersInv'
<1>1. UNCHANGED <<timers_, start_ing_timers_, to_tak_, clkdc, program, pc, new_time, opened, spent, results, error>>
      /\ now' = now + 1
  BY DEF Tick, clock, threads, history
<1>2. /\ TimersTyped /\ TimesAreTrue
      /\ Used => StartsAreKept /\ StackOfOne /\ StackOfAll /\ SecondClock
  BY DEF TimersInv
<1>3. TimersTyped'
  BY <1>1, <1>2 DEF TimersTyped
<1>4. \A u \in Threads : Open(u)' = Open(u)
  BY <1>1 DEF Open
<1>5. StartsAreKept => StartsAreKept'
  BY <1>1 DEF StartsAreKept, Kept
<1>6. SecondClock => SecondClock'
  BY <1>1 DEF SecondClock
<1>7. /\ NestedAsWritten'
      /\ (Alone' <=> Alone) /\ (OneSection' <=> OneSection) /\ (Used' <=> Used)
      /\ Used => StackOfOne' /\ StackOfAll'
  BY <1>1, <1>4, SameStack
<1>8. TimesAreTrue'
  BY <1>1, <1>2, <1>7 DEF TimesAreTrue
<1> QED BY <1>2, <1>3, <1>5, <1>6, <1>7, <1>8 DEF TimersInv

\* Nothing is thrown with the uses that TimesAreTrue speaks of; with others it may be.
LEMMA TakThrows_Inv ==
  ASSUME TimersInv, NEW t \in Threads, TakThrows(t)
  PROVE  TimersInv'
<1>1. UNCHANGED <<timers_, start_ing_timers_, to_tak_, clkdc, program, pc, new_time, now, opened, spent, results>>
  BY DEF TakThrows, clock, threads
<1>2. ~ Used
  BY TakFindsOwn DEF TakThrows
<1>3. TimersTyped'
  BY <1>1 DEF TimersInv, TimersTyped
<1>4. \A u \in Threads : Open(u)' = Open(u)
  BY <1>1 DEF Open
<1>5. NestedAsWritten' /\ ~ Used' /\ ~ Alone' /\ ~ OneSection'
  BY <1>1, <1>2, <1>4, SameStack DEF Used
<1> QED BY <1>3, <1>5 DEF TimersInv, TimesAreTrue

LEMMA ResetWhenClosed ==
  ASSUME NEW p \in Programs, NEW h \in DOMAIN p, p[h].op = "reset"
  PROVE  OpenAt[p][h] = << >> /\ OpenAt[p][h + 1] = << >>
<1>1. Nested(p, OpenAt[p])
  BY ProgramFacts
<1> QED BY <1>1, Zenon DEF Nested

\* Nothing is open anywhere when the clock is reset, for the stack is empty exactly then.
LEMMA ResetFindsNothing ==
  ASSUME TimersInv, Used, NEW t \in Threads, Runs(t), Op(t) = "reset"
  PROVE  to_tak_ = << >> /\ \A u \in Threads : opened[u] = << >>
<1>1. /\ TimersTyped /\ NestedAsWritten /\ StackOfOne
  BY DEF TimersInv
<1>2. /\ program[t] \in Programs /\ pc[t] \in DOMAIN program[t] /\ t \in Working
      /\ program[t][pc[t]].op = "reset"
  BY <1>1, AtAStep DEF Op
<1>3. Open(t) = << >>
  BY <1>2, ResetWhenClosed, Zenon DEF Open
<1>4. opened[t] = << >> /\ Len(opened[t]) = 0
  <2>1. Len(opened[t]) = 0 /\ opened[t] \in Seq(Opened)
    BY <1>1, <1>3 DEF NestedAsWritten, AsWritten, TimersTyped
  <2> QED BY <2>1
<1>5. Alone
  <2>1. ~ OneSection
    BY <1>2 DEF OneSection
  <2> QED BY <2>1 DEF Used
<1>6. to_tak_ = << >>
  <2>1. Len(to_tak_) = 0
    BY <1>1, <1>2, <1>4, <1>5 DEF StackOfOne, StackOf
  <2>2. to_tak_ \in Seq(Locations)
    BY <1>1 DEF TimersTyped
  <2> QED BY <2>1, <2>2
<1>7. ASSUME NEW u \in Threads
      PROVE  opened[u] = << >>
  <2>1. u = t \/ u \notin Working
    BY <1>2, <1>5 DEF Alone
  <2> QED BY <2>1, <1>1, <1>4, OthersHaveNothing
<1> QED BY <1>6, <1>7

LEMMA ResetThrows_Inv ==
  ASSUME TimersInv, NEW t \in Threads, ResetThrows(t)
  PROVE  TimersInv'
<1>1. UNCHANGED <<timers_, start_ing_timers_, to_tak_, program, pc, new_time, now, opened, spent, results>>
  BY DEF ResetThrows, clock, threads
<1>2. ~ Used
  BY ResetFindsNothing DEF ResetThrows
<1>3. TimersTyped'
  <2>1. clkdc' \in [Locations -> Times]
    <3>1. clkdc \in [Locations -> Times] /\ timers_ \in [Locations -> Times]
      BY DEF TimersInv, TimersTyped
    <3>2. \A id \in Locations : Plus(clkdc[id], timers_[id]) \in Times
      BY <3>1, PlusFacts
    <3>3. clkdc' = [id \in Locations |-> Plus(clkdc[id], timers_[id])]
      BY <3>1 DEF ResetThrows
    <3> QED BY <3>2, <3>3
  <2> QED BY <1>1, <2>1 DEF TimersInv, TimersTyped
<1>4. \A u \in Threads : Open(u)' = Open(u)
  BY <1>1 DEF Open
<1>5. NestedAsWritten' /\ ~ Used' /\ ~ Alone' /\ ~ OneSection'
  BY <1>1, <1>2, <1>4, SameStack DEF Used
<1> QED BY <1>3, <1>5 DEF TimersInv, TimesAreTrue

LEMMA AdvanceAndReset_Inv ==
  ASSUME TimersInv, NEW t \in Threads, AdvanceAndReset(t)
  PROVE  TimersInv'
<1>1. /\ Runs(t) /\ Op(t) = "reset" /\ to_tak_ = << >> /\ Advance(t)
      /\ UNCHANGED <<to_tak_, program, new_time, now, opened, spent, results, error>>
  BY DEF AdvanceAndReset, history
<1>2. /\ TimersTyped /\ NestedAsWritten /\ TimesAreTrue
  BY DEF TimersInv
<1>3. /\ timers_ \in [Locations -> Times] /\ clkdc \in [Locations -> Times]
      /\ spent \in [Locations -> Times] /\ start_ing_timers_ \in [Locations -> Nat]
  BY <1>2 DEF TimersTyped
<1>4. /\ clkdc' = [id \in Locations |-> Plus(clkdc[id], timers_[id])]
      /\ timers_' = [id \in Locations |-> NoTime]
      /\ start_ing_timers_' = [id \in Locations |-> 0]
  BY <1>3 DEF AdvanceAndReset
<1>5. /\ program[t] \in Programs /\ pc[t] \in DOMAIN program[t]
      /\ program[t][pc[t]].op = "reset" /\ pc[t] \in Nat
  BY <1>1, <1>2, AtAStep DEF Op
<1>6. Open(t) = << >> /\ OpenAt[program[t]][pc[t] + 1] = << >>
  BY <1>5, ResetWhenClosed, Zenon DEF Open
<1>7. \A u \in Threads : Open(u)' = Open(u)
  BY <1>1, <1>2, <1>6, Advanced
<1>8. TimersTyped'
  <2>1. clkdc' \in [Locations -> Times]
    BY <1>3, <1>4, PlusFacts
  <2>2. timers_' \in [Locations -> Times]
    BY <1>4 DEF NoTime, Times
  <2>3. start_ing_timers_' \in [Locations -> Nat]
    BY <1>4
  <2> QED BY <1>1, <1>2, <2>1, <2>2, <2>3, Advanced DEF TimersTyped
<1>9. /\ NestedAsWritten'
      /\ (Alone' <=> Alone) /\ (OneSection' <=> OneSection) /\ (Used' <=> Used)
      /\ Used => StackOfOne' /\ StackOfAll'
  BY <1>1, <1>7, SameStack
<1>10. ASSUME Used
       PROVE  StartsAreKept' /\ SecondClock'
  <2>1. \A u \in Threads : opened'[u] = << >>
    BY <1>1, <1>10, ResetFindsNothing
  <2>2. StartsAreKept'
    BY <2>1 DEF StartsAreKept, Kept
  <2>3. pc'[t] = pc[t] + 1
    BY <1>1, <1>2, Advanced
  <2>4. pc[t] \in 1 .. (pc'[t] - 1) /\ program'[t][pc[t]].op = "reset"
    <3>1. pc[t] \in Nat \ {0}
      BY <1>2 DEF TimersTyped
    <3> QED BY <1>1, <1>5, <2>3, <3>1
  <2>5. SecondClock'
    BY <2>4 DEF SecondClock
  <2> QED BY <2>2, <2>5
<1>11. TimesAreTrue'
  <2> SUFFICES ASSUME Used
               PROVE  /\ error = "none"
                      /\ \A id \in Locations : Plus(timers_'[id], clkdc'[id]) = spent[id]
                      /\ \A r \in results : r[1] = r[2]
    BY <1>1, <1>9 DEF TimesAreTrue, Used
  <2>1. /\ error = "none"
        /\ \A id \in Locations : Plus(timers_[id], clkdc[id]) = spent[id]
        /\ \A r \in results : r[1] = r[2]
    BY <1>2 DEF TimesAreTrue, Used
  <2>2. ASSUME NEW id \in Locations
        PROVE  Plus(timers_'[id], clkdc'[id]) = spent[id]
    <3>1. timers_[id] \in Times /\ clkdc[id] \in Times /\ spent[id] \in Times
      BY <1>3
    <3>2. timers_'[id] = NoTime /\ clkdc'[id] = Plus(clkdc[id], timers_[id])
      BY <1>4
    <3>3. Plus(clkdc[id], timers_[id]) = Plus(timers_[id], clkdc[id])
      BY <3>1 DEF Plus, Times
    <3> QED BY <3>1, <3>2, <3>3, <2>1, PlusFacts
  <2> QED BY <2>1, <2>2
<1> QED BY <1>8, <1>9, <1>10, <1>11 DEF TimersInv

LEMMA TakeOut_Inv ==
  ASSUME TimersInv, NEW t \in Threads, TakeOut(t)
  PROVE  TimersInv'
<1>1. /\ Runs(t) /\ Op(t) = "take" /\ Advance(t)
      /\ UNCHANGED <<start_ing_timers_, to_tak_, clkdc, program, new_time, now, opened, error>>
      /\ timers_' = [timers_ EXCEPT ![Here(t)] = NoTime]
      /\ spent' = [spent EXCEPT ![Here(t)] = NoTime]
      /\ results' = results \union {<<timers_[Here(t)].time, spent[Here(t)].time>>}
  BY DEF TakeOut, ResetTimer
<1>2. /\ TimersTyped /\ NestedAsWritten /\ TimesAreTrue
      /\ Used => StartsAreKept /\ StackOfOne /\ StackOfAll /\ SecondClock
  BY DEF TimersInv
<1>3. /\ timers_ \in [Locations -> Times] /\ clkdc \in [Locations -> Times]
      /\ spent \in [Locations -> Times] /\ Here(t) \in Locations /\ NoTime \in Times
  <2>1. Here(t) \in Locations
    BY <1>1, <1>2, AtAStep
  <2>2. NoTime \in Times
    BY DEF NoTime, Times
  <2> QED BY <1>2, <2>1, <2>2 DEF TimersTyped
<1>4. /\ program[t] \in Programs /\ pc[t] \in DOMAIN program[t]
      /\ program[t][pc[t]].op = "take" /\ t \in Working
      /\ DOMAIN program[t] = 1 .. Len(program[t]) /\ pc[t] \in Nat
  BY <1>1, <1>2, AtAStep DEF Op
<1>5. /\ OpenAt[program[t]][pc[t] + 1] = Open(t)
      /\ \A j \in 1 .. pc[t] : program[t][j].op # "reset"
  BY <1>4, StepFacts DEF Open
<1>6. \A u \in Threads : Open(u)' = Open(u)
  BY <1>1, <1>2, <1>5, Advanced
<1>7. TimersTyped'
  <2>1. timers_' \in [Locations -> Times] /\ spent' \in [Locations -> Times]
    BY <1>1, <1>3
  <2> QED BY <1>1, <1>2, <2>1, Advanced DEF TimersTyped
<1>8. /\ NestedAsWritten'
      /\ (Alone' <=> Alone) /\ (OneSection' <=> OneSection) /\ (Used' <=> Used)
      /\ Used => StackOfOne' /\ StackOfAll'
  BY <1>1, <1>6, SameStack
<1>9. StartsAreKept => StartsAreKept'
  BY <1>1 DEF StartsAreKept, Kept
<1>10. SecondClock => SecondClock'
  BY <1>1, <1>2, SecondClockStays
<1>11. TimesAreTrue'
  <2> SUFFICES ASSUME Used
               PROVE  /\ error = "none"
                      /\ \A id \in Locations : Plus(timers_'[id], clkdc[id]) = spent'[id]
                      /\ \A r \in results' : r[1] = r[2]
    BY <1>1, <1>8 DEF TimesAreTrue, Used
  <2>1. /\ error = "none"
        /\ \A id \in Locations : Plus(timers_[id], clkdc[id]) = spent[id]
        /\ \A r \in results : r[1] = r[2]
    BY <1>2 DEF TimesAreTrue, Used
  <2>2. Alone
    <3>1. ~ OneSection
      BY <1>4 DEF OneSection
    <3> QED BY <3>1 DEF Used
  <2>3. clkdc[Here(t)] = NoTime
    <3>1. ASSUME NEW u \in Threads, NEW j \in 1 .. (pc[u] - 1)
          PROVE  program[u][j].op # "reset"
      <4>1. CASE u = t
        BY <1>4, <1>5, <3>1, <4>1
      <4>2. CASE u # t
        <5>1. program[u] = << >>
          BY <4>2, <2>2, <1>4 DEF Alone, Working
        <5>2. pc[u] = 1
          BY <5>1, <1>2 DEF TimersTyped
        <5> QED BY <5>2, <3>1
      <4> QED BY <4>1, <4>2
    <3> QED BY <3>1, <1>2, <1>3 DEF SecondClock
  <2>4. timers_[Here(t)] = spent[Here(t)]
    BY <2>1, <2>3, <1>3, PlusFacts
  <2>5. \A r \in results' : r[1] = r[2]
    BY <1>1, <2>1, <2>4
  <2>6. ASSUME NEW id \in Locations
        PROVE  Plus(timers_'[id], clkdc[id]) = spent'[id]
    <3>1. CASE id = Here(t)
      <4>1. timers_'[id] = NoTime /\ spent'[id] = NoTime
        BY <1>1, <1>3, <3>1
      <4> QED BY <4>1, <2>3, <3>1, <1>3, PlusFacts
    <3>2. CASE id # Here(t)
      BY <1>1, <1>3, <2>1, <3>2
    <3> QED BY <3>1, <3>2
  <2> QED BY <2>1, <2>5, <2>6
<1> QED BY <1>2, <1>7, <1>8, <1>9, <1>10, <1>11 DEF TimersInv

LEMMA TimersInit_Inv == TimersInit => TimersInv
<1> SUFFICES ASSUME TimersInit PROVE TimersInv
  OBVIOUS
<1>1. \A t \in Threads : opened[t] = << >> /\ pc[t] = 1 /\ program[t] \in Programs
  BY DEF TimersInit
<1>2. TimersTyped
  <2>1. ASSUME NEW t \in Threads
        PROVE  pc[t] <= Len(program[t]) + 1
    BY <1>1, ProgramFacts
  <2>2. [id \in Locations |-> NoTime] \in [Locations -> Times]
    BY DEF NoTime, Times
  <2>3. << >> \in Seq(Locations) /\ [t \in Threads |-> << >>] \in [Threads -> Seq(Opened)]
    OBVIOUS
  <2> QED BY <2>1, <2>2, <2>3 DEF TimersInit, TimersTyped
<1>3. NestedAsWritten
  <2>1. ASSUME NEW t \in Threads
        PROVE  AsWritten(opened[t], Open(t), t) /\ Apart(opened[t])
    <3>1. Nested(program[t], OpenAt[program[t]])
      BY <1>1, ProgramFacts
    <3>2. Open(t) = << >>
      BY <1>1, <3>1, Zenon DEF Open, Nested
    <3> QED BY <1>1, <3>2 DEF AsWritten, Apart
  <2> QED BY <2>1 DEF NestedAsWritten
<1>4. StartsAreKept
  BY <1>1 DEF StartsAreKept, Kept
<1>5. StackOfOne
  BY <1>1 DEF TimersInit, StackOfOne, StackOf, Working
<1>6. StackOfAll
  <2>1. Inside = {}
    BY <1>1 DEF Inside
  <2>2. Len(to_tak_) = 0
    BY DEF TimersInit
  <2> QED BY <2>1, <2>2, FS_EmptySet DEF StackOfAll
<1>7. SecondClock
  BY DEF SecondClock, TimersInit
<1>8. TimesAreTrue
  <2>1. NoTime \in Times /\ Plus(NoTime, NoTime) = NoTime
    BY DEF NoTime, Times, Plus
  <2> QED BY <2>1 DEF TimersInit, TimesAreTrue
<1> QED BY <1>2, <1>3, <1>4, <1>5, <1>6, <1>7, <1>8 DEF TimersInv

LEMMA TimersUnchanged_Inv ==
  ASSUME TimersInv, UNCHANGED timerVars
  PROVE  TimersInv'
<1>1. UNCHANGED <<timers_, start_ing_timers_, to_tak_, clkdc, program, pc, new_time, now,
                  opened, spent, results, error>>
  BY DEF timerVars, clock, threads, history
<1>2. /\ TimersTyped /\ TimesAreTrue
      /\ Used => StartsAreKept /\ StackOfOne /\ StackOfAll /\ SecondClock
  BY DEF TimersInv
<1>3. TimersTyped'
  BY <1>1, <1>2 DEF TimersTyped
<1>4. \A u \in Threads : Open(u)' = Open(u)
  BY <1>1 DEF Open
<1>5. (StartsAreKept => StartsAreKept') /\ (SecondClock => SecondClock')
  BY <1>1 DEF StartsAreKept, Kept, SecondClock
<1>6. /\ NestedAsWritten'
      /\ (Alone' <=> Alone) /\ (OneSection' <=> OneSection) /\ (Used' <=> Used)
      /\ Used => StackOfOne' /\ StackOfAll'
  BY <1>1, <1>4, SameStack
<1>7. TimesAreTrue'
  BY <1>1, <1>2, <1>6 DEF TimesAreTrue
<1> QED BY <1>2, <1>3, <1>5, <1>6, <1>7 DEF TimersInv

\* Threads, their sections and the stack they share fit together at every step, whatever the
\* programs time and however the mutex orders them (ClockArray.h:117-175).
THEOREM TimersInvariant == TimersSpec => []TimersInv
<1>1. TimersInv /\ [TimersNext]_timerVars => TimersInv'
  BY Tick_Inv, Tik_Inv, TakTime_Inv, Tak_Inv, TakThrows_Inv, TakeOut_Inv, AdvanceAndReset_Inv,
     ResetThrows_Inv, TimersUnchanged_Inv DEF TimersNext
<1> QED BY <1>1, TimersInit_Inv, PTL DEF TimersSpec

\* A clock used by one thread, or by many for one section, times each section truly, for all
\* well nested programs, although a Tak pops whatever is on the top (ClockArray.h:159).
THEOREM TrueTimes == TimersSpec => []TimesAreTrue
<1>1. TimersInv => TimesAreTrue
  BY DEF TimersInv
<1> QED BY <1>1, TimersInvariant, PTL

----------------------------------------------------------------------------
\* The solver.

\* What the object is for a configuration xi of n dipoles.
Renewed(xi, n) ==
  /\ n_ = n /\ an_ = A \div n /\ f_ = RightPart(n, A \div n)
  /\ m_1_ = FirstMatrix(xi, n, A \div n) /\ m_2_ = SecondMatrix(xi, n, A \div n)

\* Before the first configuration the right part is empty.
DipolesInv ==
  /\ configuration \in Configurations \union {<< >>}
  /\ configuration = << >> => f_ = << >>
  /\ ObjectIsRenewed

LEMMA IdxSize ==
  ASSUME NEW k \in Nat
  PROVE  Cardinality(Idx(k)) = k
<1>1. Cardinality(0 .. (k - 1)) = IF 0 > k - 1 THEN 0 ELSE (k - 1) - 0 + 1
  BY FS_Interval
<1> QED BY <1>1 DEF Idx

\* The number of dipoles of a configuration.
LEMMA DipolesOf ==
  ASSUME NEW xi \in Configurations
  PROVE  /\ SizeOf(xi) \div 2 \in Nat \ {0}
         /\ SizeOf(xi) = 2 * (SizeOf(xi) \div 2)
         /\ xi # << >>
<1>1. PICK n \in 1 .. Cardinality(DOMAIN xi) : DOMAIN xi = 0 .. (2 * n - 1)
  BY DipolesAssumption
<1>2. n \in Nat \ {0}
  BY <1>1, SMT
<1>3. SizeOf(xi) = 2 * n
  BY <1>1, <1>2, IdxSize DEF SizeOf, Idx
<1>4. xi # << >>
  <2>1. DOMAIN << >> = {} /\ 0 \in DOMAIN xi
    BY <1>1, <1>2
  <2> QED BY <2>1
<1> QED BY <1>2, <1>3, <1>4

\* The right part has four entries for each dipole.
LEMMA RightPartSize ==
  ASSUME NEW n \in Nat, NEW an
  PROVE  SizeOf(RightPart(n, an)) = 4 * n
<1>1. DOMAIN RightPart(n, an) = Idx(4 * n)
  BY DEF RightPart
<1> QED BY <1>1, IdxSize DEF SizeOf

LEMMA NothingSize == SizeOf(<< >>) = 0
BY FS_EmptySet DEF SizeOf

LEMMA WithinBlock ==
  ASSUME NEW k \in Nat \ {0}, NEW h \in Idx(k)
  PROVE  h % k = h /\ (k + h) % k = h
<1>1. h \in Nat /\ 0 <= h /\ h < k
  BY DEF Idx
<1> QED BY <1>1, Z3

LEMMA EntryOfMatrix ==
  ASSUME NEW n \in Nat, NEW m1, NEW m2, NEW h \in Idx(4 * n), NEW j \in Idx(4 * n)
  PROVE  /\ h < 2 * n /\ j < 2 * n =>
              GetMatrixx(m1, m2, n)[<<h, j>>] = m1[<<h % (2 * n), j % (2 * n)>>]
         /\ ~ (h < 2 * n) /\ j < 2 * n =>
              GetMatrixx(m1, m2, n)[<<h, j>>] = m2[<<h % (2 * n), j % (2 * n)>>]
         /\ h < 2 * n /\ ~ (j < 2 * n) =>
              GetMatrixx(m1, m2, n)[<<h, j>>] = - m2[<<h % (2 * n), j % (2 * n)>>]
         /\ ~ (h < 2 * n) /\ ~ (j < 2 * n) =>
              GetMatrixx(m1, m2, n)[<<h, j>>] = m1[<<h % (2 * n), j % (2 * n)>>]
<1> DEFINE f(p) == CASE (p[1] < 2 * n) = (p[2] < 2 * n) -> m1[<<p[1] % (2 * n), p[2] % (2 * n)>>]
                     [] p[1] < 2 * n /\ p[2] >= 2 * n -> - m2[<<p[1] % (2 * n), p[2] % (2 * n)>>]
                     [] OTHER -> m2[<<p[1] % (2 * n), p[2] % (2 * n)>>]
           e == <<h, j>>
<1>1. e[1] = h /\ e[2] = j /\ e \in Idx(4 * n) \X Idx(4 * n)
  OBVIOUS
<1>2. GetMatrixx(m1, m2, n) = [p \in Idx(4 * n) \X Idx(4 * n) |-> f(p)]
  BY DEF GetMatrixx
<1>3. GetMatrixx(m1, m2, n)[e] = f(e)
  <2> HIDE DEF f, e
  <2> QED BY <1>1, <1>2
<1>4. h \in Int /\ j \in Int
  BY DEF Idx
<1>5. h < 2 * n /\ j < 2 * n => f(e) = m1[<<h % (2 * n), j % (2 * n)>>]
  <2> HIDE DEF e
  <2> QED BY <1>1, <1>4
<1>6. ~ (h < 2 * n) /\ j < 2 * n => f(e) = m2[<<h % (2 * n), j % (2 * n)>>]
  <2> HIDE DEF e
  <2> QED BY <1>1, <1>4
<1>7. h < 2 * n /\ ~ (j < 2 * n) => f(e) = - m2[<<h % (2 * n), j % (2 * n)>>]
  <2>1. ~ (j < 2 * n) => j >= 2 * n
    BY <1>4
  <2> HIDE DEF e
  <2> QED BY <1>1, <1>4, <2>1
<1>8. ~ (h < 2 * n) /\ ~ (j < 2 * n) => f(e) = m1[<<h % (2 * n), j % (2 * n)>>]
  <2> HIDE DEF e
  <2> QED BY <1>1, <1>4
<1> QED BY <1>3, <1>5, <1>6, <1>7, <1>8

\* From the matrix in a file come the blocks that it was made of.
IsEntry(n, p) == n \in Nat \ {0} /\ p \in Idx(2 * n) \X Idx(2 * n)
ReadFromMatrix(m1, m2, n, p) ==
  /\ GetMatrixx(m1, m2, n)[p] = m1[p]
  /\ GetMatrixx(m1, m2, n)[<<2 * n + p[1], p[2]>>] = m2[p]

LEMMA BlocksOfMatrix ==
  \A n, m1, m2, p : IsEntry(n, p) => ReadFromMatrix(m1, m2, n, p)
<1> SUFFICES ASSUME NEW n, NEW m1, NEW m2, NEW p, IsEntry(n, p) PROVE ReadFromMatrix(m1, m2, n, p)
  BY Zenon
<1>0. n \in Nat \ {0} /\ p \in Idx(2 * n) \X Idx(2 * n)
  BY Zenon DEF IsEntry
<1> DEFINE k == 2 * n
           h == p[1]
           j == p[2]
<1>1. k \in Nat \ {0} /\ 4 * n = 2 * k
  BY <1>0
<1>2. h \in Idx(k) /\ j \in Idx(k) /\ p = <<h, j>>
  BY <1>0
<1> HIDE DEF h, j
<1>3. /\ h \in Idx(4 * n) /\ j \in Idx(4 * n) /\ k + h \in Idx(4 * n)
      /\ h < k /\ j < k /\ ~ (k + h < k)
  BY <1>0, <1>1, <1>2 DEF Idx
<1>4. h % k = h /\ j % k = j /\ (k + h) % k = h
  BY <1>0, <1>1, <1>2, WithinBlock
<1>5. GetMatrixx(m1, m2, n)[<<h, j>>] = m1[<<h % k, j % k>>]
  BY <1>0, <1>3, EntryOfMatrix
<1>6. GetMatrixx(m1, m2, n)[<<k + h, j>>] = m2[<<(k + h) % k, j % k>>]
  BY <1>0, <1>3, EntryOfMatrix
<1>7. /\ GetMatrixx(m1, m2, n)[p] = m1[p]
      /\ GetMatrixx(m1, m2, n)[<<2 * n + p[1], p[2]>>] = m2[p]
  BY <1>2, <1>4, <1>5, <1>6 DEF h, j
<1> QED BY <1>7, Zenon DEF ReadFromMatrix

LEMMA MatricesAreBlocks ==
  ASSUME NEW xi, NEW n, NEW an
  PROVE  /\ FirstMatrix(xi, n, an) = [p \in Idx(2 * n) \X Idx(2 * n) |-> FirstMatrix(xi, n, an)[p]]
         /\ SecondMatrix(xi, n, an) = [p \in Idx(2 * n) \X Idx(2 * n) |-> SecondMatrix(xi, n, an)[p]]
BY DEF FirstMatrix, SecondMatrix, Block

LEMMA SetNewCoordinates_Inv ==
  ASSUME DipolesInv, NEW xi \in Configurations, SetNewCoordinates(xi)
  PROVE  DipolesInv'
<1> DEFINE n == SizeOf(xi) \div 2
<1>1. n \in Nat \ {0} /\ SizeOf(xi) = 2 * n /\ xi # << >>
  BY DipolesOf
<1> HIDE DEF n
<1>2. n_' = n /\ an_' = A \div n /\ f_' = RightPart(n, A \div n)
  <2>1. CASE NeedsInit(xi)
    BY <2>1 DEF SetNewCoordinates, InitArrays, n
  <2>2. CASE ~ NeedsInit(xi)
    <3>1. SizeOf(f_) = 4 * n
      BY <2>2, <1>1 DEF NeedsInit
    <3>2. configuration # << >> /\ configuration \in Configurations
      BY <3>1, <1>1, NothingSize DEF DipolesInv
    <3> DEFINE k == SizeOf(configuration) \div 2
    <3>3. k \in Nat \ {0}
      BY <3>2, DipolesOf
    <3>4. n_ = k /\ an_ = A \div k /\ f_ = RightPart(k, A \div k)
      BY <3>2 DEF DipolesInv, ObjectIsRenewed
    <3> HIDE DEF k
    <3>5. k = n
      <4>1. SizeOf(f_) = 4 * k
        BY <3>3, <3>4, RightPartSize
      <4> QED BY <4>1, <3>1, <3>3, <1>1
    <3> QED BY <3>4, <3>5, <2>2 DEF SetNewCoordinates
  <2> QED BY <2>1, <2>2
<1>3. /\ m_1_' = FirstMatrix(xi, n, A \div n)
      /\ m_2_' = SecondMatrix(xi, n, A \div n)
      /\ configuration' = xi
  BY <1>2 DEF SetNewCoordinates, SystemChanges
<1> QED BY <1>1, <1>2, <1>3 DEF DipolesInv, ObjectIsRenewed, n

LEMMA LoadFromMatrix_Inv ==
  ASSUME DipolesInv, NEW xi \in Configurations, LoadFromMatrix(xi)
  PROVE  DipolesInv'
<1> DEFINE n == SizeOf(xi) \div 2
           m1 == FirstMatrix(xi, n, A \div n)
           m2 == SecondMatrix(xi, n, A \div n)
<1>1. n \in Nat \ {0} /\ xi # << >>
  BY DipolesOf
<1>2. /\ n_' = n /\ an_' = A \div n /\ f_' = RightPart(n, A \div n)
      /\ m_1_' = [p \in Idx(2 * n) \X Idx(2 * n) |-> GetMatrixx(m1, m2, n)[p]]
      /\ m_2_' = [p \in Idx(2 * n) \X Idx(2 * n) |-> GetMatrixx(m1, m2, n)[<<2 * n + p[1], p[2]>>]]
      /\ configuration' = xi
  BY DEF LoadFromMatrix, SecondBlock, InitArrays, SystemChanges
<1>3. m_1_' = m1 /\ m_2_' = m2
  <2> DEFINE S == Idx(2 * n) \X Idx(2 * n)
  <2>1. m1 = [p \in S |-> m1[p]] /\ m2 = [p \in S |-> m2[p]]
    BY MatricesAreBlocks
  <2>2. ASSUME NEW p \in S
        PROVE  /\ GetMatrixx(m1, m2, n)[p] = m1[p]
               /\ GetMatrixx(m1, m2, n)[<<2 * n + p[1], p[2]>>] = m2[p]
    <3> HIDE DEF m1, m2, n
    <3>1. IsEntry(n, p)
      BY <1>1, Zenon DEF IsEntry
    <3>2. ReadFromMatrix(m1, m2, n, p)
      BY <3>1, BlocksOfMatrix, Zenon
    <3> QED BY <3>2, Zenon DEF ReadFromMatrix
  <2> HIDE DEF m1, m2, n
  <2>3. m_1_' = [p \in S |-> m1[p]] /\ m_2_' = [p \in S |-> m2[p]]
    BY <1>2, <2>2
  <2> QED BY <2>1, <2>3
<1> QED BY <1>1, <1>2, <1>3 DEF DipolesInv, ObjectIsRenewed

LEMMA DipolesStep ==
  ASSUME DipolesInv, [DipolesNext]_dipoleVars
  PROVE  DipolesInv'
<1>1. ASSUME UNCHANGED <<object, configuration>>
      PROVE  DipolesInv'
  BY <1>1 DEF DipolesInv, ObjectIsRenewed, object
<1>2. CASE Solve
  BY <1>1, <1>2 DEF Solve
<1>3. CASE \E n \in Sizes : GetFullFunction(n)
  BY <1>1, <1>3 DEF GetFullFunction
<1>4. CASE UNCHANGED dipoleVars
  BY <1>1, <1>4 DEF dipoleVars
<1> QED BY <1>2, <1>3, <1>4, SetNewCoordinates_Inv, LoadFromMatrix_Inv DEF DipolesNext

\* The object is that of its configuration, through all changes of it (Dipoles.h:208).
THEOREM SolverIsRenewed == DipolesSpec => []ObjectIsRenewed
<1>1. DipolesInit => DipolesInv
  BY DEF DipolesInit, DipolesInv, ObjectIsRenewed
<1>2. DipolesInv /\ [DipolesNext]_dipoleVars => DipolesInv'
  BY DipolesStep
<1>3. DipolesInv => ObjectIsRenewed
  BY DEF DipolesInv
<1> QED BY <1>1, <1>2, <1>3, PTL DEF DipolesSpec

----------------------------------------------------------------------------
\* The products of the solver, and their algebra.

LEMMA IdxIsFinite ==
  ASSUME NEW k \in Nat
  PROVE  IsFiniteSet(Idx(k))
BY FS_Interval DEF Idx

\* A sum of Apply.
LEMMA SumOfApply ==
  ASSUME NEW k \in Nat, NEW a, NEW v, NEW r
  PROVE  MapThenSumSet(LAMBDA q : a[<<r, q>>] * v[q], Idx(k))
           = SumFunctionOnSet([q \in Idx(k) |-> a[<<r, q>>] * v[q]], Idx(k))
<1> DEFINE S == Idx(k)
           f == [q \in S |-> a[<<r, q>>] * v[q]]
           Term(it, s) == IF s = {} THEN 0
                          ELSE a[<<r, FoldPick(s)>>] * v[FoldPick(s)] + it[s \ {FoldPick(s)}]
           fold == CHOOSE it : it = [s \in SUBSET S |-> Term(it, s)]
<1>1. MapThenSumSet(LAMBDA q : a[<<r, q>>] * v[q], S) = fold[S]
  BY DEF MapThenSumSet, MapThenFoldSet, FoldPick
<1>2. ASSUME NEW it, NEW s \in SUBSET S PROVE Term(it, s) = FoldStep(f, it, s)
  BY PickIsMember DEF FoldStep
<1>3. IsFiniteSet(S)
  BY IdxIsFinite
<1> HIDE DEF S, f, Term
<1>4. PICK it : it = [s \in SUBSET S |-> FoldStep(f, it, s)]
  BY <1>3, FoldExists
<1>5. it = [s \in SUBSET S |-> Term(it, s)]
  BY <1>2, <1>4
<1>6. fold = [s \in SUBSET S |-> Term(fold, s)]
  BY <1>5, Zenon
<1> HIDE DEF fold
<1>7. \A s \in SUBSET S : fold[s] = FoldStep(f, fold, s)
  BY <1>2, <1>6
<1>8. fold[S] = Folded(f, S)[S]
  BY <1>3, <1>7, FoldIsUnique
<1> QED BY <1>1, <1>8, SumIsFolded DEF S, f

\* And one of Mul.
LEMMA SumOfMul ==
  ASSUME NEW k \in Nat, NEW a, NEW b, NEW p
  PROVE  MapThenSumSet(LAMBDA q : a[<<p[1], q>>] * b[<<q, p[2]>>], Idx(k))
           = SumFunctionOnSet([q \in Idx(k) |-> a[<<p[1], q>>] * b[<<q, p[2]>>]], Idx(k))
<1> DEFINE S == Idx(k)
           f == [q \in S |-> a[<<p[1], q>>] * b[<<q, p[2]>>]]
           Term(it, s) == IF s = {} THEN 0
                          ELSE a[<<p[1], FoldPick(s)>>] * b[<<FoldPick(s), p[2]>>]
                                 + it[s \ {FoldPick(s)}]
           fold == CHOOSE it : it = [s \in SUBSET S |-> Term(it, s)]
<1>1. MapThenSumSet(LAMBDA q : a[<<p[1], q>>] * b[<<q, p[2]>>], S) = fold[S]
  BY DEF MapThenSumSet, MapThenFoldSet, FoldPick
<1>2. ASSUME NEW it, NEW s \in SUBSET S PROVE Term(it, s) = FoldStep(f, it, s)
  BY PickIsMember DEF FoldStep
<1>3. IsFiniteSet(S)
  BY IdxIsFinite
<1> HIDE DEF S, f, Term
<1>4. PICK it : it = [s \in SUBSET S |-> FoldStep(f, it, s)]
  BY <1>3, FoldExists
<1>5. it = [s \in SUBSET S |-> Term(it, s)]
  BY <1>2, <1>4
<1>6. fold = [s \in SUBSET S |-> Term(fold, s)]
  BY <1>5, Zenon
<1> HIDE DEF fold
<1>7. \A s \in SUBSET S : fold[s] = FoldStep(f, fold, s)
  BY <1>2, <1>6
<1>8. fold[S] = Folded(f, S)[S]
  BY <1>3, <1>7, FoldIsUnique
<1> QED BY <1>1, <1>8, SumIsFolded DEF S, f

----------------------------------------------------------------------------
Matrix(k) == [Idx(k) \X Idx(k) -> Int]
Vector(k) == [Idx(k) -> Int]
Dot(u, v, k) == SumFunctionOnSet([q \in Idx(k) |-> u[q] * v[q]], Idx(k))
RowVector(a, r, k) == [q \in Idx(k) |-> a[<<r, q>>]]
Column(a, c, k) == [q \in Idx(k) |-> a[<<q, c>>]]
Start(v, k) == [q \in Idx(k) |-> v[q]]

LEMMA RowsAndColumns ==
  ASSUME NEW k \in Nat, NEW a \in Matrix(k), NEW r \in Idx(k)
  PROVE  /\ RowVector(a, r, k) \in Vector(k) /\ Column(a, r, k) \in Vector(k)
         /\ \A q \in Idx(k) : RowVector(a, r, k)[q] = a[<<r, q>>] /\ Column(a, r, k)[q] = a[<<q, r>>]
BY DEF Matrix, Vector, RowVector, Column

LEMMA DotType ==
  ASSUME NEW k \in Nat, NEW u \in Vector(k), NEW v \in Vector(k)
  PROVE  Dot(u, v, k) \in Int
<1> DEFINE f == [q \in Idx(k) |-> u[q] * v[q]]
<1>1. \A q \in Idx(k) : f[q] \in Int
  <2> SUFFICES ASSUME NEW q \in Idx(k) PROVE u[q] * v[q] \in Int
    OBVIOUS
  <2>1. u[q] \in Int /\ v[q] \in Int
    BY DEF Vector
  <2> QED BY <2>1
<1> HIDE DEF f
<1>2. SumFunctionOnSet(f, Idx(k)) \in Int
  BY <1>1, IdxIsFinite, SumIsInt
<1> QED BY <1>2 DEF f, Dot

\* The sum of two vectors times a third, and their difference.
LEMMA DotAdd ==
  ASSUME NEW k \in Nat, NEW u \in Vector(k), NEW v \in Vector(k), NEW w \in Vector(k),
         NEW s \in Vector(k), \A q \in Idx(k) : s[q] = u[q] + v[q]
  PROVE  Dot(w, s, k) = Dot(w, u, k) + Dot(w, v, k)
<1> DEFINE f == [q \in Idx(k) |-> w[q] * u[q]]
           g == [q \in Idx(k) |-> w[q] * v[q]]
           h == [q \in Idx(k) |-> w[q] * s[q]]
<1>0. \A x, y, z \in Int : /\ x * y \in Int
                           /\ x * (y + z) = x * y + x * z
  BY Z3
<1>1. \A q \in Idx(k) : f[q] \in Int /\ g[q] \in Int /\ h[q] = f[q] + g[q]
  <2> SUFFICES ASSUME NEW q \in Idx(k)
               PROVE  /\ w[q] * u[q] \in Int /\ w[q] * v[q] \in Int
                      /\ w[q] * s[q] = w[q] * u[q] + w[q] * v[q]
    OBVIOUS
  <2>1. u[q] \in Int /\ v[q] \in Int /\ w[q] \in Int /\ s[q] = u[q] + v[q]
    BY DEF Vector
  <2> QED BY <1>0, <2>1
<1> HIDE DEF f, g, h
<1>2. SumFunctionOnSet(h, Idx(k)) = SumFunctionOnSet(f, Idx(k)) + SumFunctionOnSet(g, Idx(k))
  BY <1>1, IdxIsFinite, SumAdd
<1> QED BY <1>2 DEF f, g, h, Dot

LEMMA DotCommutes ==
  ASSUME NEW k \in Nat, NEW u \in Vector(k), NEW v \in Vector(k)
  PROVE  Dot(u, v, k) = Dot(v, u, k)
<1>1. \A q \in Idx(k) : u[q] \in Int /\ v[q] \in Int
  BY DEF Vector
<1>2. \A q \in Idx(k) : u[q] * v[q] = v[q] * u[q]
  BY <1>1
<1>3. [q \in Idx(k) |-> u[q] * v[q]] = [q \in Idx(k) |-> v[q] * u[q]]
  BY <1>2
<1> QED BY <1>3 DEF Dot

\* A row times a matrix times a column.
LEMMA DotAssociative ==
  ASSUME NEW k \in Nat, NEW u \in Vector(k), NEW b \in Matrix(k), NEW v \in Vector(k),
         NEW ub \in Vector(k), \A q \in Idx(k) : ub[q] = Dot(u, Column(b, q, k), k),
         NEW bv \in Vector(k), \A p \in Idx(k) : bv[p] = Dot(RowVector(b, p, k), v, k)
  PROVE  Dot(ub, v, k) = Dot(u, bv, k)
<1>1. \A x \in Idx(k) : u[x] \in Int /\ v[x] \in Int
  BY DEF Vector
<1>2. \A x, y \in Idx(k) : b[<<x, y>>] \in Int
  BY DEF Matrix
<1>3. \A q \in Idx(k) : ub[q] = SumFunctionOnSet([p \in Idx(k) |-> u[p] * b[<<p, q>>]], Idx(k))
  <2> SUFFICES ASSUME NEW q \in Idx(k)
               PROVE  ub[q] = SumFunctionOnSet([p \in Idx(k) |-> u[p] * b[<<p, q>>]], Idx(k))
    OBVIOUS
  <2>1. [p \in Idx(k) |-> u[p] * Column(b, q, k)[p]] = [p \in Idx(k) |-> u[p] * b[<<p, q>>]]
    BY DEF Column
  <2> QED BY <2>1 DEF Dot
<1>4. \A p \in Idx(k) : bv[p] = SumFunctionOnSet([q \in Idx(k) |-> b[<<p, q>>] * v[q]], Idx(k))
  <2> SUFFICES ASSUME NEW p \in Idx(k)
               PROVE  bv[p] = SumFunctionOnSet([q \in Idx(k) |-> b[<<p, q>>] * v[q]], Idx(k))
    OBVIOUS
  <2>1. [q \in Idx(k) |-> RowVector(b, p, k)[q] * v[q]] = [q \in Idx(k) |-> b[<<p, q>>] * v[q]]
    BY DEF RowVector
  <2> QED BY <2>1 DEF Dot
<1>5. IsFiniteSet(Idx(k))
  BY IdxIsFinite
<1> DEFINE left == [q \in Idx(k) |-> [p \in Idx(k) |-> u[p] * b[<<p, q>>]]]
           right == [p \in Idx(k) |-> [q \in Idx(k) |-> b[<<p, q>>] * v[q]]]
           f == [q \in Idx(k) |-> ub[q] * v[q]]
           g == [p \in Idx(k) |-> u[p] * bv[p]]
<1>6. /\ \A p, q \in Idx(k) : /\ left[q][p] = u[p] * b[<<p, q>>]
                              /\ right[p][q] = b[<<p, q>>] * v[q]
      /\ \A q \in Idx(k) : f[q] = SumFunctionOnSet(left[q], Idx(k)) * v[q]
      /\ \A p \in Idx(k) : g[p] = u[p] * SumFunctionOnSet(right[p], Idx(k))
  BY <1>3, <1>4
<1> HIDE DEF left, right, f, g
<1>7. Products(Idx(k), u, b, v, left, right, f, g)
  BY <1>1, <1>2, <1>5, <1>6 DEF Products
<1>8. SumFunctionOnSet(f, Idx(k)) = SumFunctionOnSet(g, Idx(k))
  BY <1>7, SumOfProducts
<1> QED BY <1>8 DEF f, g, Dot

----------------------------------------------------------------------------
\* Apply and Mul, entry by entry.
LEMMA ApplyEntry ==
  ASSUME NEW k \in Nat, NEW a \in Matrix(k), NEW v \in Vector(k)
  PROVE  /\ Apply(a, v, k) \in Vector(k)
         /\ \A r \in Idx(k) : Apply(a, v, k)[r] = Dot(RowVector(a, r, k), v, k)
<1>1. ASSUME NEW r \in Idx(k)
      PROVE  Apply(a, v, k)[r] = Dot(RowVector(a, r, k), v, k)
  <2>1. Apply(a, v, k)[r] = SumFunctionOnSet([q \in Idx(k) |-> a[<<r, q>>] * v[q]], Idx(k))
    BY SumOfApply DEF Apply
  <2>2. [q \in Idx(k) |-> RowVector(a, r, k)[q] * v[q]] = [q \in Idx(k) |-> a[<<r, q>>] * v[q]]
    BY DEF RowVector
  <2> QED BY <2>1, <2>2 DEF Dot
<1>2. \A r \in Idx(k) : Dot(RowVector(a, r, k), v, k) \in Int
  BY RowsAndColumns, DotType
<1>3. Apply(a, v, k) = [r \in Idx(k) |-> Apply(a, v, k)[r]]
  BY DEF Apply
<1> QED BY <1>1, <1>2, <1>3 DEF Vector

LEMMA MulEntry ==
  ASSUME NEW k \in Nat, NEW a \in Matrix(k), NEW b \in Matrix(k)
  PROVE  /\ Mul(a, b, k) \in Matrix(k)
         /\ \A r, c \in Idx(k) : Mul(a, b, k)[<<r, c>>] = Dot(RowVector(a, r, k), Column(b, c, k), k)
<1>1. ASSUME NEW r \in Idx(k), NEW c \in Idx(k)
      PROVE  Mul(a, b, k)[<<r, c>>] = Dot(RowVector(a, r, k), Column(b, c, k), k)
  <2> DEFINE p == <<r, c>>
  <2>1. p \in Idx(k) \X Idx(k) /\ p[1] = r /\ p[2] = c
    OBVIOUS
  <2> HIDE DEF p
  <2>2. Mul(a, b, k)[p] = MapThenSumSet(LAMBDA q : a[<<p[1], q>>] * b[<<q, p[2]>>], Idx(k))
    BY <2>1 DEF Mul
  <2>3. Mul(a, b, k)[p]
          = SumFunctionOnSet([q \in Idx(k) |-> a[<<p[1], q>>] * b[<<q, p[2]>>]], Idx(k))
    BY <2>2, SumOfMul
  <2>4. [q \in Idx(k) |-> RowVector(a, r, k)[q] * Column(b, c, k)[q]]
          = [q \in Idx(k) |-> a[<<p[1], q>>] * b[<<q, p[2]>>]]
    BY <2>1 DEF RowVector, Column
  <2> QED BY <2>3, <2>4 DEF p, Dot
<1>2. \A r, c \in Idx(k) : Dot(RowVector(a, r, k), Column(b, c, k), k) \in Int
  BY RowsAndColumns, DotType
<1>3. Mul(a, b, k) = [p \in Idx(k) \X Idx(k) |-> Mul(a, b, k)[p]]
  BY DEF Mul
<1>4. \A p \in Idx(k) \X Idx(k) : Mul(a, b, k)[p] \in Int
  <2> SUFFICES ASSUME NEW p \in Idx(k) \X Idx(k) PROVE Mul(a, b, k)[p] \in Int
    OBVIOUS
  <2>1. p = <<p[1], p[2]>> /\ p[1] \in Idx(k) /\ p[2] \in Idx(k)
    OBVIOUS
  <2>2. Mul(a, b, k)[<<p[1], p[2]>>] \in Int
    BY <2>1, <1>1, <1>2
  <2> QED BY <2>1, <2>2
<1> QED BY <1>1, <1>3, <1>4 DEF Matrix

\* Two matrices, or vectors, with the same entries.
LEMMA SameMatrix ==
  ASSUME NEW k \in Nat, NEW a \in Matrix(k), NEW b \in Matrix(k),
         \A r, c \in Idx(k) : a[<<r, c>>] = b[<<r, c>>]
  PROVE  a = b
<1>1. \A p \in Idx(k) \X Idx(k) : a[p] = b[p]
  OBVIOUS
<1> QED BY <1>1 DEF Matrix

LEMMA SameVector ==
  ASSUME NEW k \in Nat, NEW u \in Vector(k), NEW v \in Vector(k),
         \A r \in Idx(k) : u[r] = v[r]
  PROVE  u = v
BY DEF Vector

LEMMA AddSubEntries ==
  ASSUME NEW k \in Nat
  PROVE  /\ \A a, b \in Matrix(k) : /\ Add(a, b) \in Matrix(k)
                                    /\ \A r, c \in Idx(k) :
                                         Add(a, b)[<<r, c>>] = a[<<r, c>>] + b[<<r, c>>]
         /\ \A u, v \in Vector(k) : /\ Add(u, v) \in Vector(k) /\ Sub(u, v) \in Vector(k)
                                    /\ \A r \in Idx(k) : /\ Add(u, v)[r] = u[r] + v[r]
                                                         /\ Sub(u, v)[r] = u[r] - v[r]
BY DEF Matrix, Vector, Add, Sub

\* Apply reads as much of a vector as the matrix has columns.
LEMMA ApplyStart ==
  ASSUME NEW k \in Nat, NEW a, NEW v
  PROVE  Apply(a, v, k) = Apply(a, Start(v, k), k)
<1>1. ASSUME NEW r \in Idx(k)
      PROVE  MapThenSumSet(LAMBDA q : a[<<r, q>>] * v[q], Idx(k))
               = MapThenSumSet(LAMBDA q : a[<<r, q>>] * Start(v, k)[q], Idx(k))
  <2>1. [q \in Idx(k) |-> a[<<r, q>>] * v[q]] = [q \in Idx(k) |-> a[<<r, q>>] * Start(v, k)[q]]
    BY DEF Start
  <2> DEFINE w == Start(v, k)
  <2> HIDE DEF w
  <2>2. /\ MapThenSumSet(LAMBDA q : a[<<r, q>>] * v[q], Idx(k))
             = SumFunctionOnSet([q \in Idx(k) |-> a[<<r, q>>] * v[q]], Idx(k))
        /\ MapThenSumSet(LAMBDA q : a[<<r, q>>] * w[q], Idx(k))
             = SumFunctionOnSet([q \in Idx(k) |-> a[<<r, q>>] * w[q]], Idx(k))
    BY SumOfApply
  <2> QED BY <2>1, <2>2 DEF w
<1> QED BY <1>1 DEF Apply

\* A product of matrices is applied factor by factor.
LEMMA ApplyMul ==
  ASSUME NEW k \in Nat, NEW a \in Matrix(k), NEW b \in Matrix(k), NEW v \in Vector(k)
  PROVE  Apply(Mul(a, b, k), v, k) = Apply(a, Apply(b, v, k), k)
<1> DEFINE ab == Mul(a, b, k)
           bv == Apply(b, v, k)
<1>1. ab \in Matrix(k) /\ bv \in Vector(k)
  BY MulEntry, ApplyEntry
<1>2. Apply(ab, v, k) \in Vector(k) /\ Apply(a, bv, k) \in Vector(k)
  <2> HIDE DEF ab, bv
  <2> QED BY <1>1, ApplyEntry
<1>3. ASSUME NEW r \in Idx(k) PROVE Apply(ab, v, k)[r] = Apply(a, bv, k)[r]
  <2> DEFINE u == RowVector(a, r, k)
             ub == RowVector(ab, r, k)
  <2>1. \A q \in Idx(k) : ub[q] = Dot(u, Column(b, q, k), k)
    <3> SUFFICES ASSUME NEW q \in Idx(k) PROVE ub[q] = Dot(u, Column(b, q, k), k)
      OBVIOUS
    <3>1. ab[<<r, q>>] = Dot(u, Column(b, q, k), k)
      BY MulEntry
    <3> HIDE DEF ab
    <3>2. ub[q] = ab[<<r, q>>]
      BY DEF RowVector
    <3> QED BY <3>1, <3>2
  <2>2. \A p \in Idx(k) : bv[p] = Dot(RowVector(b, p, k), v, k)
    BY ApplyEntry
  <2> HIDE DEF ab, bv
  <2>3. u \in Vector(k) /\ ub \in Vector(k)
    BY <1>1, RowsAndColumns
  <2>4. Apply(ab, v, k)[r] = Dot(ub, v, k) /\ Apply(a, bv, k)[r] = Dot(u, bv, k)
    BY <1>1, ApplyEntry
  <2> HIDE DEF u, ub
  <2>5. Dot(ub, v, k) = Dot(u, bv, k)
    BY <1>1, <2>1, <2>2, <2>3, DotAssociative
  <2> QED BY <2>4, <2>5
<1> HIDE DEF ab, bv
<1>4. Apply(ab, v, k) = Apply(a, bv, k)
  BY <1>2, <1>3, SameVector
<1> QED BY <1>4 DEF ab, bv

----------------------------------------------------------------------------
\* Sums and differences, of matrices and of vectors.
LEMMA ApplySum ==
  ASSUME NEW k \in Nat, NEW a \in Matrix(k), NEW u \in Vector(k), NEW v \in Vector(k),
         NEW s \in Vector(k), \A q \in Idx(k) : s[q] = u[q] + v[q]
  PROVE  \A r \in Idx(k) : Apply(a, s, k)[r] = Apply(a, u, k)[r] + Apply(a, v, k)[r]
<1> SUFFICES ASSUME NEW r \in Idx(k)
             PROVE  Apply(a, s, k)[r] = Apply(a, u, k)[r] + Apply(a, v, k)[r]
  OBVIOUS
<1> DEFINE w == RowVector(a, r, k)
<1>1. w \in Vector(k)
  BY RowsAndColumns
<1>2. /\ Apply(a, s, k)[r] = Dot(w, s, k)
      /\ Apply(a, u, k)[r] = Dot(w, u, k)
      /\ Apply(a, v, k)[r] = Dot(w, v, k)
  BY ApplyEntry
<1> HIDE DEF w
<1> QED BY <1>1, <1>2, DotAdd

LEMMA ApplyAddSub ==
  ASSUME NEW k \in Nat, NEW a \in Matrix(k), NEW u \in Vector(k), NEW v \in Vector(k)
  PROVE  \A r \in Idx(k) :
           /\ Apply(a, Add(u, v), k)[r] = Apply(a, u, k)[r] + Apply(a, v, k)[r]
           /\ Apply(a, Sub(u, v), k)[r] = Apply(a, u, k)[r] - Apply(a, v, k)[r]
<1> DEFINE s == Add(u, v)
           d == Sub(u, v)
<1>1. /\ s \in Vector(k) /\ \A q \in Idx(k) : s[q] = u[q] + v[q]
      /\ d \in Vector(k) /\ \A q \in Idx(k) : d[q] = u[q] - v[q]
  BY AddSubEntries
<1> HIDE DEF s, d
<1>2. \A r \in Idx(k) : Apply(a, s, k)[r] = Apply(a, u, k)[r] + Apply(a, v, k)[r]
  BY <1>1, ApplySum
<1>3. \A q \in Idx(k) : u[q] = d[q] + v[q]
  BY <1>1 DEF Vector
<1>4. \A r \in Idx(k) : Apply(a, u, k)[r] = Apply(a, d, k)[r] + Apply(a, v, k)[r]
  BY <1>1, <1>3, ApplySum
<1>5. \A r \in Idx(k) : Apply(a, d, k)[r] \in Int /\ Apply(a, v, k)[r] \in Int
  BY <1>1, ApplyEntry DEF Vector
<1> QED BY <1>2, <1>4, <1>5 DEF s, d

LEMMA AddApply ==
  ASSUME NEW k \in Nat, NEW a \in Matrix(k), NEW b \in Matrix(k), NEW v \in Vector(k)
  PROVE  /\ Add(a, b) \in Matrix(k)
         /\ \A r \in Idx(k) :
              Apply(Add(a, b), v, k)[r] = Apply(a, v, k)[r] + Apply(b, v, k)[r]
<1> DEFINE s == Add(a, b)
<1>1. s \in Matrix(k) /\ \A r, c \in Idx(k) : s[<<r, c>>] = a[<<r, c>>] + b[<<r, c>>]
  BY AddSubEntries
<1> HIDE DEF s
<1>2. ASSUME NEW r \in Idx(k)
      PROVE  Apply(s, v, k)[r] = Apply(a, v, k)[r] + Apply(b, v, k)[r]
  <2> DEFINE sr == RowVector(s, r, k)
             ar == RowVector(a, r, k)
             br == RowVector(b, r, k)
  <2>1. /\ sr \in Vector(k) /\ ar \in Vector(k) /\ br \in Vector(k)
        /\ \A q \in Idx(k) : sr[q] = ar[q] + br[q]
    <3>1. sr \in Vector(k) /\ ar \in Vector(k) /\ br \in Vector(k)
      BY <1>1, RowsAndColumns
    <3>2. \A q \in Idx(k) : sr[q] = s[<<r, q>>] /\ ar[q] = a[<<r, q>>] /\ br[q] = b[<<r, q>>]
      BY DEF RowVector
    <3> QED BY <1>1, <3>1, <3>2
  <2>2. /\ Apply(s, v, k)[r] = Dot(sr, v, k)
        /\ Apply(a, v, k)[r] = Dot(ar, v, k)
        /\ Apply(b, v, k)[r] = Dot(br, v, k)
    BY <1>1, ApplyEntry
  <2> HIDE DEF sr, ar, br
  <2>3. /\ Dot(sr, v, k) = Dot(v, sr, k)
        /\ Dot(ar, v, k) = Dot(v, ar, k)
        /\ Dot(br, v, k) = Dot(v, br, k)
    BY <2>1, DotCommutes
  <2>4. Dot(v, sr, k) = Dot(v, ar, k) + Dot(v, br, k)
    BY <2>1, DotAdd
  <2> QED BY <2>2, <2>3, <2>4
<1> QED BY <1>1, <1>2 DEF s

\* The columns of a product, and that matrices with the same columns are the same.
LEMMA ColumnOfMul ==
  ASSUME NEW k \in Nat, NEW a \in Matrix(k), NEW b \in Matrix(k), NEW c \in Idx(k)
  PROVE  Column(Mul(a, b, k), c, k) = Apply(a, Column(b, c, k), k)
<1> DEFINE ab == Mul(a, b, k)
           bc == Column(b, c, k)
<1>1. /\ ab \in Matrix(k) /\ bc \in Vector(k)
      /\ \A r \in Idx(k) : ab[<<r, c>>] = Dot(RowVector(a, r, k), bc, k)
  BY MulEntry, RowsAndColumns
<1> HIDE DEF ab, bc
<1>2. /\ Column(ab, c, k) \in Vector(k)
      /\ \A r \in Idx(k) : Column(ab, c, k)[r] = ab[<<r, c>>]
  BY <1>1, RowsAndColumns
<1>3. /\ Apply(a, bc, k) \in Vector(k)
      /\ \A r \in Idx(k) : Apply(a, bc, k)[r] = Dot(RowVector(a, r, k), bc, k)
  BY <1>1, ApplyEntry
<1>4. Column(ab, c, k) = Apply(a, bc, k)
  <2>1. \A r \in Idx(k) : Column(ab, c, k)[r] = Apply(a, bc, k)[r]
    BY <1>1, <1>2, <1>3
  <2> QED BY <1>2, <1>3, <2>1, SameVector
<1> QED BY <1>4 DEF ab, bc

LEMMA SameColumns ==
  ASSUME NEW k \in Nat, NEW a \in Matrix(k), NEW b \in Matrix(k),
         \A c \in Idx(k) : Column(a, c, k) = Column(b, c, k)
  PROVE  a = b
<1>1. \A r, c \in Idx(k) : a[<<r, c>>] = b[<<r, c>>]
  <2> SUFFICES ASSUME NEW r \in Idx(k), NEW c \in Idx(k) PROVE a[<<r, c>>] = b[<<r, c>>]
    OBVIOUS
  <2>1. Column(a, c, k)[r] = a[<<r, c>>] /\ Column(b, c, k)[r] = b[<<r, c>>]
    BY DEF Column
  <2> QED BY <2>1
<1> QED BY <1>1, SameMatrix

----------------------------------------------------------------------------
\* What Solve computes, for blocks a and b that commute.
Squares(a, b, k) == Add(Mul(a, a, k), Mul(b, b, k))

LEMMA SquaresApply ==
  ASSUME NEW k \in Nat, NEW a \in Matrix(k), NEW b \in Matrix(k), NEW v \in Vector(k)
  PROVE  /\ Squares(a, b, k) \in Matrix(k)
         /\ \A r \in Idx(k) : Apply(Squares(a, b, k), v, k)[r]
                = Apply(a, Apply(a, v, k), k)[r] + Apply(b, Apply(b, v, k), k)[r]
<1>1. Mul(a, a, k) \in Matrix(k) /\ Mul(b, b, k) \in Matrix(k)
  BY MulEntry
<1>2. /\ Apply(Mul(a, a, k), v, k) = Apply(a, Apply(a, v, k), k)
      /\ Apply(Mul(b, b, k), v, k) = Apply(b, Apply(b, v, k), k)
  BY ApplyMul
<1> QED BY <1>1, <1>2, AddApply DEF Squares

LEMMA SquaresColumn ==
  ASSUME NEW k \in Nat, NEW a \in Matrix(k), NEW b \in Matrix(k), NEW c \in Idx(k)
  PROVE  \A r \in Idx(k) : Column(Squares(a, b, k), c, k)[r]
            = Apply(a, Column(a, c, k), k)[r] + Apply(b, Column(b, c, k), k)[r]
<1>1. Mul(a, a, k) \in Matrix(k) /\ Mul(b, b, k) \in Matrix(k)
  BY MulEntry
<1>2. /\ Column(Mul(a, a, k), c, k) = Apply(a, Column(a, c, k), k)
      /\ Column(Mul(b, b, k), c, k) = Apply(b, Column(b, c, k), k)
  BY ColumnOfMul
<1>3. /\ Squares(a, b, k) \in Matrix(k)
      /\ \A r \in Idx(k) : Squares(a, b, k)[<<r, c>>] = Mul(a, a, k)[<<r, c>>] + Mul(b, b, k)[<<r, c>>]
  BY <1>1, AddSubEntries DEF Squares
<1>4. \A r \in Idx(k) : /\ Column(Squares(a, b, k), c, k)[r] = Squares(a, b, k)[<<r, c>>]
                        /\ Column(Mul(a, a, k), c, k)[r] = Mul(a, a, k)[<<r, c>>]
                        /\ Column(Mul(b, b, k), c, k)[r] = Mul(b, b, k)[<<r, c>>]
  BY <1>1, <1>3, RowsAndColumns
<1> QED BY <1>2, <1>3, <1>4

\* The sum of the squares commutes with either block.
LEMMA SquaresCommute ==
  ASSUME NEW k \in Nat, NEW a \in Matrix(k), NEW b \in Matrix(k),
         Mul(a, b, k) = Mul(b, a, k)
  PROVE  /\ Mul(Squares(a, b, k), a, k) = Mul(a, Squares(a, b, k), k)
         /\ Mul(Squares(a, b, k), b, k) = Mul(b, Squares(a, b, k), k)
<1> DEFINE t == Squares(a, b, k)
<1>1. t \in Matrix(k)
  <2>1. Mul(a, a, k) \in Matrix(k) /\ Mul(b, b, k) \in Matrix(k)
    BY MulEntry
  <2> QED BY <2>1, AddSubEntries DEF Squares
<1>2. ASSUME NEW d \in Matrix(k), NEW e \in Matrix(k), Mul(d, e, k) = Mul(e, d, k),
             NEW c \in Idx(k)
      PROVE  Apply(e, Apply(e, Column(d, c, k), k), k) = Apply(d, Apply(e, Column(e, c, k), k), k)
  <2> DEFINE dc == Column(d, c, k)
             ec == Column(e, c, k)
  <2>1. dc \in Vector(k) /\ ec \in Vector(k)
    BY RowsAndColumns
  <2>2. Apply(e, dc, k) = Apply(d, ec, k)
    BY <1>2, ColumnOfMul
  <2> HIDE DEF dc, ec
  <2>3. Apply(e, Apply(d, ec, k), k) = Apply(d, Apply(e, ec, k), k)
    BY <1>2, <2>1, ApplyMul
  <2> QED BY <2>2, <2>3 DEF dc, ec
<1>3. ASSUME NEW c \in Idx(k)
      PROVE  /\ Apply(t, Column(a, c, k), k) = Apply(a, Column(t, c, k), k)
             /\ Apply(t, Column(b, c, k), k) = Apply(b, Column(t, c, k), k)
  <2> DEFINE ac == Column(a, c, k)
             bc == Column(b, c, k)
             tc == Column(t, c, k)
             aa == Apply(a, ac, k)
             bb == Apply(b, bc, k)
  <2>1. ac \in Vector(k) /\ bc \in Vector(k) /\ tc \in Vector(k)
    BY <1>1, RowsAndColumns
  <2>2. /\ Apply(b, Apply(b, ac, k), k) = Apply(a, bb, k)
        /\ Apply(a, Apply(a, bc, k), k) = Apply(b, aa, k)
    BY <1>2
  <2>3. \A r \in Idx(k) : tc[r] = aa[r] + bb[r]
    BY SquaresColumn
  <2> HIDE DEF t, ac, bc, tc
  <2>4. aa \in Vector(k) /\ bb \in Vector(k)
    BY <2>1, ApplyEntry
  <2>5. \A r \in Idx(k) : /\ Apply(t, ac, k)[r] = Apply(a, aa, k)[r] + Apply(b, Apply(b, ac, k), k)[r]
                          /\ Apply(t, bc, k)[r] = Apply(a, Apply(a, bc, k), k)[r] + Apply(b, bb, k)[r]
    BY <2>1, SquaresApply DEF t
  <2> HIDE DEF aa, bb
  <2>6. \A r \in Idx(k) : /\ Apply(a, tc, k)[r] = Apply(a, aa, k)[r] + Apply(a, bb, k)[r]
                          /\ Apply(b, tc, k)[r] = Apply(b, aa, k)[r] + Apply(b, bb, k)[r]
    BY <2>1, <2>3, <2>4, ApplySum
  <2>7. /\ Apply(t, ac, k) \in Vector(k) /\ Apply(a, tc, k) \in Vector(k)
        /\ Apply(t, bc, k) \in Vector(k) /\ Apply(b, tc, k) \in Vector(k)
    BY <1>1, <2>1, ApplyEntry
  <2>8. Apply(t, ac, k) = Apply(a, tc, k) /\ Apply(t, bc, k) = Apply(b, tc, k)
    BY <2>2, <2>5, <2>6, <2>7, SameVector
  <2> QED BY <2>8 DEF ac, bc, tc
<1> HIDE DEF t
<1>4. \A c \in Idx(k) : /\ Column(Mul(t, a, k), c, k) = Column(Mul(a, t, k), c, k)
                        /\ Column(Mul(t, b, k), c, k) = Column(Mul(b, t, k), c, k)
  BY <1>1, <1>3, ColumnOfMul
<1>5. /\ Mul(t, a, k) \in Matrix(k) /\ Mul(a, t, k) \in Matrix(k)
      /\ Mul(t, b, k) \in Matrix(k) /\ Mul(b, t, k) \in Matrix(k)
  BY <1>1, MulEntry
<1>6. Mul(t, a, k) = Mul(a, t, k) /\ Mul(t, b, k) = Mul(b, t, k)
  BY <1>4, <1>5, SameColumns
<1> QED BY <1>6 DEF t

\* Both halves of the system hold for the numerators.
LEMMA NumeratorsSolve ==
  ASSUME NEW k \in Nat, NEW a \in Matrix(k), NEW b \in Matrix(k),
         Mul(a, b, k) = Mul(b, a, k),
         NEW u \in Vector(k), NEW v \in Vector(k), NEW x, NEW y,
         x = Add(Apply(a, u, k), Apply(b, v, k)),
         y = Sub(Apply(a, v, k), Apply(b, u, k))
  PROVE  /\ x \in Vector(k) /\ y \in Vector(k)
         /\ \A r \in Idx(k) :
              /\ Apply(a, x, k)[r] - Apply(b, y, k)[r] = Apply(Squares(a, b, k), u, k)[r]
              /\ Apply(b, x, k)[r] + Apply(a, y, k)[r] = Apply(Squares(a, b, k), v, k)[r]
<1> DEFINE au == Apply(a, u, k)
           av == Apply(a, v, k)
           bu == Apply(b, u, k)
           bv == Apply(b, v, k)
<1>1. au \in Vector(k) /\ av \in Vector(k) /\ bu \in Vector(k) /\ bv \in Vector(k)
  BY ApplyEntry
<1>2. Apply(a, bu, k) = Apply(b, au, k) /\ Apply(a, bv, k) = Apply(b, av, k)
  BY ApplyMul
<1>3. \A r \in Idx(k) :
        /\ Apply(Squares(a, b, k), u, k)[r] = Apply(a, au, k)[r] + Apply(b, bu, k)[r]
        /\ Apply(Squares(a, b, k), v, k)[r] = Apply(a, av, k)[r] + Apply(b, bv, k)[r]
  BY SquaresApply
<1>4. x = Add(au, bv) /\ y = Sub(av, bu)
  OBVIOUS
<1> HIDE DEF au, av, bu, bv
<1>5. x \in Vector(k) /\ y \in Vector(k)
  BY <1>1, <1>4, AddSubEntries
<1>6. \A r \in Idx(k) : /\ Apply(a, x, k)[r] = Apply(a, au, k)[r] + Apply(a, bv, k)[r]
                        /\ Apply(b, x, k)[r] = Apply(b, au, k)[r] + Apply(b, bv, k)[r]
                        /\ Apply(a, y, k)[r] = Apply(a, av, k)[r] - Apply(a, bu, k)[r]
                        /\ Apply(b, y, k)[r] = Apply(b, av, k)[r] - Apply(b, bu, k)[r]
  BY <1>1, <1>4, ApplyAddSub
<1>7. \A r \in Idx(k) : /\ Apply(a, au, k)[r] \in Int /\ Apply(a, bv, k)[r] \in Int
                        /\ Apply(b, au, k)[r] \in Int /\ Apply(b, bv, k)[r] \in Int
                        /\ Apply(a, av, k)[r] \in Int /\ Apply(a, bu, k)[r] \in Int
                        /\ Apply(b, av, k)[r] \in Int /\ Apply(b, bu, k)[r] \in Int
  BY <1>1, ApplyEntry DEF Vector
<1>8. ASSUME NEW r \in Idx(k)
      PROVE  /\ Apply(a, x, k)[r] - Apply(b, y, k)[r] = Apply(Squares(a, b, k), u, k)[r]
             /\ Apply(b, x, k)[r] + Apply(a, y, k)[r] = Apply(Squares(a, b, k), v, k)[r]
  BY <1>2, <1>3, <1>6, <1>7
<1> QED BY <1>5, <1>8

\* Every entry of the matrix is one of a block, or of the second block with its sign changed.
LEMMA BlocksInMatrix ==
  ASSUME NEW n \in Nat \ {0}, NEW a \in Matrix(2 * n), NEW b \in Matrix(2 * n),
         NEW r \in Idx(2 * n), NEW c \in Idx(2 * n)
  PROVE  /\ GetMatrixx(a, b, n)[<<r, c>>] = a[<<r, c>>]
         /\ GetMatrixx(a, b, n)[<<r, 2 * n + c>>] = - b[<<r, c>>]
         /\ GetMatrixx(a, b, n)[<<2 * n + r, c>>] = b[<<r, c>>]
         /\ GetMatrixx(a, b, n)[<<2 * n + r, 2 * n + c>>] = a[<<r, c>>]
<1> DEFINE k == 2 * n
<1>1. k \in Nat \ {0} /\ 4 * n = 2 * k
  OBVIOUS
<1> HIDE DEF k
<1>2. /\ r \in Idx(k) /\ c \in Idx(k)
      /\ r \in Idx(4 * n) /\ c \in Idx(4 * n) /\ k + r \in Idx(4 * n) /\ k + c \in Idx(4 * n)
      /\ r < k /\ c < k /\ ~ (k + r < k) /\ ~ (k + c < k)
  BY <1>1 DEF Idx, k
<1>3. r % k = r /\ c % k = c /\ (k + r) % k = r /\ (k + c) % k = c
  BY <1>1, <1>2, WithinBlock
<1>4. /\ GetMatrixx(a, b, n)[<<r, c>>] = a[<<r % k, c % k>>]
      /\ GetMatrixx(a, b, n)[<<r, k + c>>] = - b[<<r % k, (k + c) % k>>]
      /\ GetMatrixx(a, b, n)[<<k + r, c>>] = b[<<(k + r) % k, c % k>>]
      /\ GetMatrixx(a, b, n)[<<k + r, k + c>>] = a[<<(k + r) % k, (k + c) % k>>]
  BY <1>2, EntryOfMatrix DEF k
<1> QED BY <1>3, <1>4 DEF k

\* x1 and x2 are the halves of x.
Halves(x, x1, x2, k) ==
  /\ x \in Vector(2 * k) /\ x1 \in Vector(k) /\ x2 \in Vector(k)
  /\ \A q \in Idx(k) : x[q] = x1[q] /\ x[k + q] = x2[q]

\* A product over a row of two halves.
LEMMA DotOfHalves ==
  ASSUME NEW k \in Nat, NEW w, NEW w1, NEW w2, Halves(w, w1, w2, k),
         NEW x, NEW x1, NEW x2, Halves(x, x1, x2, k)
  PROVE  Dot(w, x, 2 * k) = Dot(w1, x1, k) + Dot(w2, x2, k)
<1> USE DEF Halves
<1> DEFINE f == [q \in Idx(2 * k) |-> w[q] * x[q]]
           f1 == [q \in Idx(k) |-> w1[q] * x1[q]]
           f2 == [q \in Idx(k) |-> w2[q] * x2[q]]
           g == [q \in 0 .. (k - 1) |-> f[k + q]]
<1>1. \A q \in Idx(2 * k) : f[q] \in Int
  <2> SUFFICES ASSUME NEW q \in Idx(2 * k) PROVE w[q] * x[q] \in Int
    OBVIOUS
  <2>1. w[q] \in Int /\ x[q] \in Int
    BY DEF Vector
  <2> QED BY <2>1
<1>2. \A q \in Idx(k) : q \in Idx(2 * k) /\ k + q \in Idx(2 * k)
  BY DEF Idx
<1>3. \A q \in Idx(k) : f[q] = f1[q] /\ f[k + q] = f2[q]
  BY <1>2
<1>4. SumFunctionOnSet(f, Idx(2 * k)) = SumFunctionOnSet(f, Idx(k)) + SumFunctionOnSet(g, Idx(k))
  <2>1. \A q \in 0 .. (2 * k - 1) : f[q] \in Int
    BY <1>1 DEF Idx
  <2> HIDE DEF f
  <2> QED BY <2>1, SumOfHalves DEF Idx
<1>5. \A q \in Idx(k) : g[q] = f[k + q]
  <2> HIDE DEF f
  <2> QED BY DEF Idx
<1> HIDE DEF f, f1, f2, g
<1>6. /\ SumFunctionOnSet(f, Idx(k)) = SumFunctionOnSet(f1, Idx(k))
      /\ SumFunctionOnSet(g, Idx(k)) = SumFunctionOnSet(f2, Idx(k))
  BY <1>3, <1>5, IdxIsFinite, SumAgrees
<1> QED BY <1>4, <1>6 DEF f, f1, f2, Dot

LEMMA DotNegative ==
  ASSUME NEW k \in Nat, NEW u \in Vector(k), NEW v \in Vector(k),
         NEW w \in Vector(k), \A q \in Idx(k) : w[q] = - u[q]
  PROVE  Dot(w, v, k) = - Dot(u, v, k)
<1> DEFINE f == [q \in Idx(k) |-> u[q] * v[q]]
           h == [q \in Idx(k) |-> w[q] * v[q]]
<1>1. \A q \in Idx(k) : f[q] \in Int /\ h[q] = (- 1) * f[q]
  <2> SUFFICES ASSUME NEW q \in Idx(k)
               PROVE  u[q] * v[q] \in Int /\ w[q] * v[q] = (- 1) * (u[q] * v[q])
    OBVIOUS
  <2>1. u[q] \in Int /\ v[q] \in Int /\ w[q] = - u[q]
    BY DEF Vector
  <2>2. \A x, y \in Int : x * y \in Int /\ (- x) * y = (- 1) * (x * y)
    BY Z3
  <2> QED BY <2>1, <2>2
<1> HIDE DEF f, h
<1>2. SumFunctionOnSet(h, Idx(k)) = (- 1) * SumFunctionOnSet(f, Idx(k))
  <2>1. - 1 \in Int
    OBVIOUS
  <2> QED BY <1>1, <2>1, IdxIsFinite, SumScale
<1>3. SumFunctionOnSet(f, Idx(k)) \in Int
  BY <1>1, IdxIsFinite, SumIsInt
<1> QED BY <1>2, <1>3 DEF f, h, Dot

\* A system of blocks a and b, and a vector x of the halves x1 and x2.
System(n, a, b, x, x1, x2) ==
  /\ n \in Nat \ {0}
  /\ a \in Matrix(2 * n) /\ b \in Matrix(2 * n)
  /\ x \in Vector(4 * n) /\ x1 \in Vector(2 * n) /\ x2 \in Vector(2 * n)
  /\ \A q \in Idx(2 * n) : x[q] = x1[q] /\ x[2 * n + q] = x2[q]

\* The matrix times the vector, half by half.
LEMMA SystemByHalves ==
  ASSUME NEW n, NEW a, NEW b, NEW x, NEW x1, NEW x2, System(n, a, b, x, x1, x2)
  PROVE  /\ Apply(GetMatrixx(a, b, n), x, 4 * n) \in Vector(4 * n)
         /\ \A r \in Idx(2 * n) :
              /\ Apply(GetMatrixx(a, b, n), x, 4 * n)[r]
                   = Apply(a, x1, 2 * n)[r] - Apply(b, x2, 2 * n)[r]
              /\ Apply(GetMatrixx(a, b, n), x, 4 * n)[2 * n + r]
                   = Apply(b, x1, 2 * n)[r] + Apply(a, x2, 2 * n)[r]
<1> USE DEF System
<1> DEFINE k == 2 * n
           m == GetMatrixx(a, b, n)
<1>1. k \in Nat /\ 4 * n = 2 * k
  OBVIOUS
<1>2. ASSUME NEW r \in Idx(k), NEW c \in Idx(k)
      PROVE  /\ m[<<r, c>>] = a[<<r, c>>] /\ m[<<r, k + c>>] = - b[<<r, c>>]
             /\ m[<<k + r, c>>] = b[<<r, c>>] /\ m[<<k + r, k + c>>] = a[<<r, c>>]
  BY BlocksInMatrix
<1>3. m = [p \in Idx(2 * k) \X Idx(2 * k) |-> m[p]]
  BY DEF GetMatrixx
<1> HIDE DEF m, k
<1>4. a \in Matrix(k) /\ b \in Matrix(k) /\ x1 \in Vector(k) /\ x2 \in Vector(k)
  BY DEF k
<1>5. x \in Vector(2 * k) /\ \A q \in Idx(k) : x[q] = x1[q] /\ x[k + q] = x2[q]
  BY <1>1 DEF k
<1>6. \A r, c \in Idx(2 * k) : m[<<r, c>>] \in Int
  <2>1. \A r, c \in Idx(k) : /\ m[<<r, c>>] \in Int /\ m[<<r, k + c>>] \in Int
                             /\ m[<<k + r, c>>] \in Int /\ m[<<k + r, k + c>>] \in Int
    <3> SUFFICES ASSUME NEW r \in Idx(k), NEW c \in Idx(k)
                 PROVE  /\ m[<<r, c>>] \in Int /\ m[<<r, k + c>>] \in Int
                        /\ m[<<k + r, c>>] \in Int /\ m[<<k + r, k + c>>] \in Int
      OBVIOUS
    <3>1. a[<<r, c>>] \in Int /\ b[<<r, c>>] \in Int
      BY <1>4 DEF Matrix
    <3> QED BY <1>2, <3>1
  <2>2. \A r \in Idx(2 * k) : r \in Idx(k) \/ \E q \in Idx(k) : r = k + q
    <3> SUFFICES ASSUME NEW r \in Idx(2 * k), r \notin Idx(k)
                 PROVE  r - k \in Idx(k) /\ r = k + (r - k)
      OBVIOUS
    <3> QED BY <1>1 DEF Idx
  <2> QED BY <2>1, <2>2
<1>7. m \in Matrix(2 * k)
  <2>1. \A p \in Idx(2 * k) \X Idx(2 * k) : m[p] \in Int
    <3> SUFFICES ASSUME NEW p \in Idx(2 * k) \X Idx(2 * k) PROVE m[p] \in Int
      OBVIOUS
    <3>1. p = <<p[1], p[2]>> /\ p[1] \in Idx(2 * k) /\ p[2] \in Idx(2 * k)
      OBVIOUS
    <3>2. m[<<p[1], p[2]>>] \in Int
      BY <1>6, <3>1
    <3> QED BY <3>1, <3>2
  <2> QED BY <1>3, <2>1 DEF Matrix
<1>8. /\ Apply(m, x, 2 * k) \in Vector(2 * k)
      /\ \A r \in Idx(2 * k) : Apply(m, x, 2 * k)[r] = Dot(RowVector(m, r, 2 * k), x, 2 * k)
  BY <1>1, <1>5, <1>7, ApplyEntry
<1>9. ASSUME NEW r \in Idx(k)
      PROVE  /\ Apply(m, x, 2 * k)[r] = Apply(a, x1, k)[r] - Apply(b, x2, k)[r]
             /\ Apply(m, x, 2 * k)[k + r] = Apply(b, x1, k)[r] + Apply(a, x2, k)[r]
  <2> DEFINE ar == RowVector(a, r, k)
             br == RowVector(b, r, k)
             minus == [q \in Idx(k) |-> - br[q]]
             upper == RowVector(m, r, 2 * k)
             lower == RowVector(m, k + r, 2 * k)
  <2>1. r \in Idx(2 * k) /\ k + r \in Idx(2 * k)
    BY <1>1 DEF Idx
  <2>2. /\ ar \in Vector(k) /\ br \in Vector(k)
        /\ \A q \in Idx(k) : ar[q] = a[<<r, q>>] /\ br[q] = b[<<r, q>>]
    BY <1>1, <1>4, RowsAndColumns
  <2>3. upper \in Vector(2 * k) /\ lower \in Vector(2 * k)
    BY <1>1, <1>7, <2>1, RowsAndColumns
  <2>4. minus \in Vector(k) /\ \A q \in Idx(k) : minus[q] = - br[q]
    <3> HIDE DEF br
    <3> QED BY <2>2 DEF Vector
  <2>5. \A q \in Idx(k) : /\ upper[q] = ar[q] /\ upper[k + q] = minus[q]
                          /\ lower[q] = br[q] /\ lower[k + q] = ar[q]
    <3> SUFFICES ASSUME NEW q \in Idx(k)
                 PROVE  /\ upper[q] = ar[q] /\ upper[k + q] = minus[q]
                        /\ lower[q] = br[q] /\ lower[k + q] = ar[q]
      OBVIOUS
    <3>1. q \in Idx(2 * k) /\ k + q \in Idx(2 * k)
      BY <1>1 DEF Idx
    <3>2. /\ upper[q] = m[<<r, q>>] /\ upper[k + q] = m[<<r, k + q>>]
          /\ lower[q] = m[<<k + r, q>>] /\ lower[k + q] = m[<<k + r, k + q>>]
      BY <3>1 DEF RowVector
    <3> HIDE DEF upper, lower, ar, br, minus
    <3> QED BY <1>2, <2>2, <2>4, <3>2
  <2>6. /\ Apply(a, x1, k)[r] = Dot(ar, x1, k) /\ Apply(a, x2, k)[r] = Dot(ar, x2, k)
        /\ Apply(b, x1, k)[r] = Dot(br, x1, k) /\ Apply(b, x2, k)[r] = Dot(br, x2, k)
    BY <1>1, <1>4, ApplyEntry
  <2>7. Apply(m, x, 2 * k)[r] = Dot(upper, x, 2 * k) /\ Apply(m, x, 2 * k)[k + r] = Dot(lower, x, 2 * k)
    BY <1>8, <2>1
  <2> HIDE DEF ar, br, minus, upper, lower
  <2>8. /\ Halves(upper, ar, minus, k) /\ Halves(lower, br, ar, k)
        /\ Halves(x, x1, x2, k)
    BY <1>1, <1>4, <1>5, <2>2, <2>3, <2>4, <2>5 DEF Halves
  <2>9. /\ Dot(upper, x, 2 * k) = Dot(ar, x1, k) + Dot(minus, x2, k)
        /\ Dot(lower, x, 2 * k) = Dot(br, x1, k) + Dot(ar, x2, k)
    BY <1>1, <2>8, DotOfHalves
  <2>10. Dot(minus, x2, k) = - Dot(br, x2, k)
    BY <1>1, <1>4, <2>2, <2>4, DotNegative
  <2>11. Dot(ar, x1, k) \in Int /\ Dot(br, x2, k) \in Int
    BY <1>1, <1>4, <2>2, DotType
  <2> QED BY <2>6, <2>7, <2>9, <2>10, <2>11
<1> QED BY <1>1, <1>8, <1>9 DEF m, k

\* What Solve leaves in sol.
SolutionOf(m1, m2, f, n) ==
  [tt |-> Squares(m1, m2, 2 * n),
   num |-> <<Add(Apply(m1, f, 2 * n), Apply(m2, Lower(f, 2 * n), 2 * n)),
             Sub(Apply(m1, Lower(f, 2 * n), 2 * n), Apply(m2, f, 2 * n))>>]

\* A solution for commuting blocks solves the system that they are the blocks of.
LEMMA SolutionSolves ==
  ASSUME NEW n \in Nat \ {0}, NEW m1 \in Matrix(2 * n), NEW m2 \in Matrix(2 * n),
         NEW f \in Vector(4 * n), NEW s, s = SolutionOf(m1, m2, f, n),
         Mul(m1, m2, 2 * n) = Mul(m2, m1, 2 * n),
         NEW x, x = [q \in Idx(4 * n) |-> s.num[1 + q \div (2 * n)][q % (2 * n)]],
         NEW side, side = Apply(GetMatrixx(m1, m2, n), x, 4 * n)
  PROVE  /\ Mul(s.tt, m1, 2 * n) = Mul(m1, s.tt, 2 * n)
         /\ Mul(s.tt, m2, 2 * n) = Mul(m2, s.tt, 2 * n)
         /\ [q \in Idx(2 * n) |-> side[q]] = Apply(s.tt, f, 2 * n)
         /\ Lower(side, 2 * n) = Apply(s.tt, Lower(f, 2 * n), 2 * n)
<1> DEFINE k == 2 * n
           u == Start(f, k)
           v == Lower(f, k)
           x1 == Add(Apply(m1, u, k), Apply(m2, v, k))
           x2 == Sub(Apply(m1, v, k), Apply(m2, u, k))
<1>1. k \in Nat \ {0} /\ 4 * n = 2 * k
  OBVIOUS
<1>2. s.tt = Squares(m1, m2, k) /\ s.num[1] = x1 /\ s.num[2] = x2
  <2>1. Apply(m1, f, k) = Apply(m1, u, k) /\ Apply(m2, f, k) = Apply(m2, u, k)
    BY <1>1, ApplyStart
  <2> HIDE DEF u, v
  <2> QED BY <2>1 DEF SolutionOf, v
<1>3. m1 \in Matrix(k) /\ m2 \in Matrix(k) /\ Mul(m1, m2, k) = Mul(m2, m1, k)
  OBVIOUS
<1>4. u \in Vector(k) /\ v \in Vector(k)
  <2>1. \A q \in Idx(k) : q \in Idx(4 * n) /\ k + q \in Idx(4 * n)
    BY <1>1 DEF Idx
  <2>2. \A q \in Idx(k) : f[q] \in Int /\ f[k + q] \in Int
    BY <2>1 DEF Vector
  <2> HIDE DEF k
  <2> QED BY <2>2 DEF Vector, Start, Lower
<1>5. \A q \in Idx(k) : x[q] = s.num[1][q] /\ x[k + q] = s.num[2][q]
  <2> SUFFICES ASSUME NEW q \in Idx(k) PROVE x[q] = s.num[1][q] /\ x[k + q] = s.num[2][q]
    OBVIOUS
  <2>1. q \in Idx(4 * n) /\ k + q \in Idx(4 * n)
    BY <1>1 DEF Idx
  <2>2. q % k = q /\ (k + q) % k = q
    BY <1>1, WithinBlock
  <2>3. q \div k = 0 /\ (k + q) \div k = 1
    <3>1. q \in Nat /\ q < k
      BY <1>1 DEF Idx
    <3> HIDE DEF k
    <3> QED BY <1>1, <3>1, Z3
  <2>4. /\ x[q] = s.num[1 + q \div k][q % k]
        /\ x[k + q] = s.num[1 + (k + q) \div k][(k + q) % k]
    BY <2>1
  <2>5. 1 + 0 = 1 /\ 1 + 1 = 2
    OBVIOUS
  <2> QED BY <2>2, <2>3, <2>4, <2>5
<1>6. x = [q \in Idx(2 * k) |-> x[q]] /\ side = Apply(GetMatrixx(m1, m2, n), x, 4 * n)
  OBVIOUS
<1> HIDE DEF k, u, v
<1>7. /\ x1 \in Vector(k) /\ x2 \in Vector(k)
      /\ \A r \in Idx(k) :
           /\ Apply(m1, x1, k)[r] - Apply(m2, x2, k)[r] = Apply(Squares(m1, m2, k), u, k)[r]
           /\ Apply(m2, x1, k)[r] + Apply(m1, x2, k)[r] = Apply(Squares(m1, m2, k), v, k)[r]
  BY <1>1, <1>3, <1>4, NumeratorsSolve
<1> HIDE DEF x1, x2
<1>8. \A q \in Idx(k) : x[q] = x1[q] /\ x[k + q] = x2[q]
  BY <1>2, <1>5
<1>9. x \in Vector(2 * k)
  <2>1. ASSUME NEW q \in Idx(2 * k) PROVE x[q] \in Int
    <3>1. CASE q \in Idx(k)
      BY <1>7, <1>8, <3>1 DEF Vector
    <3>2. CASE q \notin Idx(k)
      <4>1. q - k \in Idx(k) /\ q = k + (q - k)
        BY <1>1, <3>2 DEF Idx
      <4> DEFINE h == q - k
      <4> HIDE DEF h
      <4>2. h \in Idx(k) /\ q = k + h
        BY <4>1 DEF h
      <4>3. x[k + h] = x2[h] /\ x2[h] \in Int
        BY <1>7, <1>8, <4>2 DEF Vector
      <4> QED BY <4>2, <4>3
    <3> QED BY <3>1, <3>2
  <2> QED BY <1>6, <2>1 DEF Vector
<1>10. /\ side \in Vector(2 * k)
       /\ \A r \in Idx(k) : /\ side[r] = Apply(m1, x1, k)[r] - Apply(m2, x2, k)[r]
                            /\ side[k + r] = Apply(m2, x1, k)[r] + Apply(m1, x2, k)[r]
  <2>1. x \in Vector(4 * n) /\ x1 \in Vector(2 * n) /\ x2 \in Vector(2 * n)
    BY <1>1, <1>7, <1>9 DEF k
  <2>2. System(n, m1, m2, x, x1, x2)
    BY <1>8, <2>1 DEF k, System
  <2>3. /\ side \in Vector(4 * n)
        /\ \A r \in Idx(2 * n) :
             /\ side[r] = Apply(m1, x1, 2 * n)[r] - Apply(m2, x2, 2 * n)[r]
             /\ side[2 * n + r] = Apply(m2, x1, 2 * n)[r] + Apply(m1, x2, 2 * n)[r]
    <3> DEFINE y == Apply(GetMatrixx(m1, m2, n), x, 4 * n)
    <3>1. /\ y \in Vector(4 * n)
          /\ \A r \in Idx(2 * n) :
               /\ y[r] = Apply(m1, x1, 2 * n)[r] - Apply(m2, x2, 2 * n)[r]
               /\ y[2 * n + r] = Apply(m2, x1, 2 * n)[r] + Apply(m1, x2, 2 * n)[r]
      BY <2>2, SystemByHalves
    <3> QED BY <1>6, <3>1
  <2> QED BY <1>1, <2>3 DEF k
<1> DEFINE tt == Squares(m1, m2, k)
<1>11. tt \in Matrix(k) /\ Apply(tt, u, k) \in Vector(k) /\ Apply(tt, v, k) \in Vector(k)
  BY <1>1, <1>3, <1>4, SquaresApply, ApplyEntry
<1>12. /\ \A r \in Idx(k) : side[r] = Apply(tt, u, k)[r]
       /\ \A r \in Idx(k) : side[k + r] = Apply(tt, v, k)[r]
  BY <1>7, <1>10
<1>13. Mul(tt, m1, k) = Mul(m1, tt, k) /\ Mul(tt, m2, k) = Mul(m2, tt, k)
  BY <1>1, <1>3, SquaresCommute
<1>14. Apply(tt, f, k) = Apply(tt, u, k)
  BY <1>1, ApplyStart DEF u
<1> HIDE DEF tt
<1>15. [q \in Idx(k) |-> side[q]] = Apply(tt, u, k)
  BY <1>11, <1>12 DEF Vector
<1>16. Lower(side, k) = Apply(tt, v, k)
  BY <1>11, <1>12 DEF Vector, Lower
<1>17. s.tt = tt
  BY <1>2 DEF tt
<1> QED BY <1>13, <1>14, <1>15, <1>16, <1>17 DEF k, v

\* The blocks of a configuration are matrices of numbers.
LEMMA DistanceType ==
  ASSUME NEW xi \in Configurations, NEW n \in Nat \ {0}, SizeOf(xi) = 2 * n,
         NEW h \in Idx(n), NEW m \in Idx(n)
  PROVE  /\ TwoDVecDifference(h, m, xi, n)[1] \in Int
         /\ TwoDVecDifference(h, m, xi, n)[2] \in Int
         /\ GetDistance(h, m, xi, n) \in Int
<1>1. SizeOf(xi) \div 2 = n
  OBVIOUS
<1>2. /\ \A k \in DOMAIN xi : xi[k] \in Int
      /\ \E r \in 0 .. MaxDistance :
           r * r = TwoDVecDifference(h, m, xi, n)[1] * TwoDVecDifference(h, m, xi, n)[1]
                     + TwoDVecDifference(h, m, xi, n)[2] * TwoDVecDifference(h, m, xi, n)[2]
  BY <1>1, DistanceAssumption
<1>3. DOMAIN xi = 0 .. (2 * n - 1)
  <2>1. PICK l \in 1 .. Cardinality(DOMAIN xi) : DOMAIN xi = 0 .. (2 * l - 1)
    BY DipolesAssumption
  <2>2. l \in Nat \ {0}
    BY <2>1, SMT
  <2>3. SizeOf(xi) = 2 * l
    BY <2>1, <2>2, IdxSize DEF SizeOf, Idx
  <2> QED BY <2>1, <2>2, <2>3
<1>4. h \in DOMAIN xi /\ m \in DOMAIN xi /\ h + n \in DOMAIN xi /\ m + n \in DOMAIN xi
  BY <1>3 DEF Idx
<1>5. /\ TwoDVecDifference(h, m, xi, n)[1] = xi[h] - xi[m]
      /\ TwoDVecDifference(h, m, xi, n)[2] = xi[h + n] - xi[m + n]
  BY DEF TwoDVecDifference
<1>6. GetDistance(h, m, xi, n) \in 0 .. MaxDistance
  BY <1>2 DEF GetDistance
<1> QED BY <1>2, <1>4, <1>5, <1>6

LEMMA PairType ==
  ASSUME NEW xi \in Configurations, NEW n \in Nat \ {0}, SizeOf(xi) = 2 * n,
         NEW h \in Idx(n), NEW m \in Idx(n), NEW a \in {1, 2}, NEW b \in {1, 2}
  PROVE  /\ K1(TwoDVecDifference(m, h, xi, n), GetDistance(h, m, xi, n), a, b) \in Int
         /\ K2(GetDistance(h, m, xi, n), a, b) \in Int
<1> DEFINE rim == TwoDVecDifference(m, h, xi, n)
           r == GetDistance(h, m, xi, n)
<1>1. rim[1] \in Int /\ rim[2] \in Int /\ r \in Int
  BY DistanceType
<1> HIDE DEF rim, r
<1>2. rim[a] \in Int /\ rim[b] \in Int
  BY <1>1
<1>3. 3 * rim[a] * rim[b] \in Int /\ r * r \in Int /\ 1 * r * r * r \in Int
  BY <1>1, <1>2
<1>4. K1(rim, r, a, b) \in Int
  BY <1>3 DEF K1
<1>5. K2(r, a, b) \in Int
  BY <1>3 DEF K2, OmegaByC
<1> QED BY <1>4, <1>5 DEF rim, r

\* A block of a configuration, entry by entry.
LEMMA BlockEntry ==
  ASSUME NEW n \in Nat \ {0}, NEW diagonal, NEW pair, NEW r \in Idx(2 * n), NEW c \in Idx(2 * n)
  PROVE  /\ r \div 2 \in Idx(n) /\ c \div 2 \in Idx(n)
         /\ 1 + (r % 2) \in {1, 2} /\ 1 + (c % 2) \in {1, 2}
         /\ Block(n, diagonal, pair)[<<r, c>>]
              = IF r \div 2 = c \div 2 THEN (IF r = c THEN diagonal ELSE 0)
                ELSE pair[<<r \div 2, c \div 2, 1 + (r % 2), 1 + (c % 2)>>]
<1>1. r \in Nat /\ c \in Nat /\ r < 2 * n /\ c < 2 * n
  BY DEF Idx
<1>2. /\ r \div 2 \in Nat /\ r \div 2 < n /\ c \div 2 \in Nat /\ c \div 2 < n
      /\ r % 2 \in {0, 1} /\ c % 2 \in {0, 1}
  BY <1>1, Z3
<1>3. /\ r \div 2 \in Idx(n) /\ c \div 2 \in Idx(n)
      /\ 1 + (r % 2) \in {1, 2} /\ 1 + (c % 2) \in {1, 2}
  <2>1. \A q : q \in Nat /\ q < n => q \in Idx(n)
    BY DEF Idx
  <2>2. \A b \in {0, 1} : 1 + b \in {1, 2}
    OBVIOUS
  <2> QED BY <1>2, <2>1, <2>2
<1> DEFINE p == <<r, c>>
<1>4. p \in Idx(2 * n) \X Idx(2 * n) /\ p[1] = r /\ p[2] = c
  OBVIOUS
<1> HIDE DEF p
<1> DEFINE entry(q) == IF q[1] \div 2 = q[2] \div 2
                       THEN (IF q[1] = q[2] THEN diagonal ELSE 0)
                       ELSE pair[<<q[1] \div 2, q[2] \div 2, 1 + (q[1] % 2), 1 + (q[2] % 2)>>]
<1>5. Block(n, diagonal, pair)[p]
        = IF p[1] \div 2 = p[2] \div 2 THEN (IF p[1] = p[2] THEN diagonal ELSE 0)
          ELSE pair[<<p[1] \div 2, p[2] \div 2, 1 + (p[1] % 2), 1 + (p[2] % 2)>>]
  <2>1. Block(n, diagonal, pair) = [q \in Idx(2 * n) \X Idx(2 * n) |-> entry(q)]
    BY DEF Block
  <2>2. Block(n, diagonal, pair)[p] = entry(p)
    <3> HIDE DEF entry
    <3> QED BY <1>4, <2>1
  <2> QED BY <2>2
<1> QED BY <1>3, <1>4, <1>5 DEF p

LEMMA BlocksAreMatrices ==
  ASSUME NEW xi \in Configurations, NEW n \in Nat \ {0}, SizeOf(xi) = 2 * n, NEW an \in Int
  PROVE  FirstMatrix(xi, n, an) \in Matrix(2 * n) /\ SecondMatrix(xi, n, an) \in Matrix(2 * n)
<1> DEFINE first == [e \in PairEntries(n) |->
              LET rim == TwoDVecDifference(e[2], e[1], xi, n)
                  r == GetDistance(e[1], e[2], xi, n)
              IN - an * (K1(rim, r, e[3], e[4]) * Cos - K2(r, e[3], e[4]) * Sin)]
           second == [e \in PairEntries(n) |->
              LET rim == TwoDVecDifference(e[2], e[1], xi, n)
                  r == GetDistance(e[1], e[2], xi, n)
              IN - an * (K2(r, e[3], e[4]) * Cos + K1(rim, r, e[3], e[4]) * Sin)]
<1>1. \A e \in PairEntries(n) : first[e] \in Int /\ second[e] \in Int
  <2> SUFFICES ASSUME NEW e \in PairEntries(n) PROVE first[e] \in Int /\ second[e] \in Int
    OBVIOUS
  <2> DEFINE k1 == K1(TwoDVecDifference(e[2], e[1], xi, n), GetDistance(e[1], e[2], xi, n), e[3], e[4])
             k2 == K2(GetDistance(e[1], e[2], xi, n), e[3], e[4])
  <2>1. e[1] \in Idx(n) /\ e[2] \in Idx(n) /\ e[3] \in {1, 2} /\ e[4] \in {1, 2}
    BY DEF PairEntries
  <2>2. k1 \in Int /\ k2 \in Int
    BY <2>1, PairType
  <2>3. first[e] = - an * (k1 * 2 - k2 * 3) /\ second[e] = - an * (k2 * 2 + k1 * 3)
    BY DEF Cos, Sin
  <2> HIDE DEF k1, k2, first, second
  <2> QED BY <2>2, <2>3
<1>2. FirstMatrix(xi, n, an) = Block(n, 0, first) /\ SecondMatrix(xi, n, an) = Block(n, - 7, second)
  BY DEF FirstMatrix, SecondMatrix, Detuning, Damping
<1> HIDE DEF first, second
<1>3. ASSUME NEW d \in Int, NEW pair, \A e \in PairEntries(n) : pair[e] \in Int
      PROVE  Block(n, d, pair) \in Matrix(2 * n)
  <2>1. \A r, c \in Idx(2 * n) : Block(n, d, pair)[<<r, c>>] \in Int
    <3> SUFFICES ASSUME NEW r \in Idx(2 * n), NEW c \in Idx(2 * n)
                 PROVE  Block(n, d, pair)[<<r, c>>] \in Int
      OBVIOUS
    <3> DEFINE e == <<r \div 2, c \div 2, 1 + (r % 2), 1 + (c % 2)>>
    <3>1. /\ e \in PairEntries(n)
          /\ Block(n, d, pair)[<<r, c>>]
               = IF r \div 2 = c \div 2 THEN (IF r = c THEN d ELSE 0) ELSE pair[e]
      BY BlockEntry DEF PairEntries
    <3> HIDE DEF e
    <3> QED BY <1>3, <3>1
  <2>2. \A p \in Idx(2 * n) \X Idx(2 * n) : Block(n, d, pair)[p] \in Int
    <3> SUFFICES ASSUME NEW p \in Idx(2 * n) \X Idx(2 * n) PROVE Block(n, d, pair)[p] \in Int
      OBVIOUS
    <3>1. p = <<p[1], p[2]>> /\ p[1] \in Idx(2 * n) /\ p[2] \in Idx(2 * n)
      OBVIOUS
    <3>2. Block(n, d, pair)[<<p[1], p[2]>>] \in Int
      BY <2>1, <3>1
    <3> QED BY <3>1, <3>2
  <2>3. Block(n, d, pair) = [p \in Idx(2 * n) \X Idx(2 * n) |-> Block(n, d, pair)[p]]
    BY DEF Block
  <2> QED BY <2>2, <2>3 DEF Matrix
<1>4. 0 \in Int /\ - 7 \in Int
  OBVIOUS
<1> QED BY <1>1, <1>2, <1>3, <1>4

LEMMA RightPartType ==
  ASSUME NEW n \in Nat, NEW an \in Int
  PROVE  RightPart(n, an) \in Vector(4 * n)
BY DEF RightPart, Vector, Eps

BlocksOf(xi) == LET n == SizeOf(xi) \div 2
                IN <<FirstMatrix(xi, n, A \div n), SecondMatrix(xi, n, A \div n)>>
BlocksCommute(xi) == Mul(BlocksOf(xi)[1], BlocksOf(xi)[2], SizeOf(xi))
                       = Mul(BlocksOf(xi)[2], BlocksOf(xi)[1], SizeOf(xi))

LEMMA BlocksType ==
  ASSUME NEW xi \in Configurations, NEW n \in Nat \ {0}, n = SizeOf(xi) \div 2
  PROVE  /\ SizeOf(xi) = 2 * n /\ A \div n \in Int
         /\ BlocksOf(xi) = <<FirstMatrix(xi, n, A \div n), SecondMatrix(xi, n, A \div n)>>
         /\ FirstMatrix(xi, n, A \div n) \in Matrix(2 * n)
         /\ SecondMatrix(xi, n, A \div n) \in Matrix(2 * n)
<1>1. SizeOf(xi) = 2 * n
  BY DipolesOf
<1>2. A \div n \in Int
  BY DipolesAssumption
<1> QED BY <1>1, <1>2, BlocksAreMatrices DEF BlocksOf

----------------------------------------------------------------------------
\* Solve is called for the object of the configuration, and its result is kept until that changes.
SolutionInv ==
  /\ DipolesInv
  /\ configuration = << >> => n_ = 0
  /\ sol # NoSolution => /\ configuration # << >>
                         /\ sol = SolutionOf(m_1_, m_2_, f_, n_)

\* What is solved is the system of the configuration, if its blocks commute.
LEMMA InvSolves ==
  ASSUME SolutionInv, configuration # << >> => BlocksCommute(configuration)
  PROVE  SystemIsSolved
<1> SUFFICES ASSUME sol # NoSolution PROVE SystemIsSolved
  BY DEF SystemIsSolved
<1> DEFINE xi == configuration
           n == SizeOf(xi) \div 2
           an == A \div n
           m1 == FirstMatrix(xi, n, an)
           m2 == SecondMatrix(xi, n, an)
           f == RightPart(n, an)
           x == [q \in Idx(4 * n) |-> sol.num[1 + q \div (2 * n)][q % (2 * n)]]
           side == Apply(GetMatrixx(m1, m2, n), x, 4 * n)
<1>1. xi # << >> /\ xi \in Configurations
  BY DEF SolutionInv, DipolesInv
<1>2. n \in Nat \ {0}
  BY <1>1, DipolesOf
<1>3. m_1_ = m1 /\ m_2_ = m2 /\ f_ = f /\ n_ = n
  BY <1>1 DEF SolutionInv, DipolesInv, ObjectIsRenewed
<1>4. /\ SizeOf(xi) = 2 * n /\ an \in Int
      /\ BlocksOf(xi) = <<m1, m2>>
      /\ m1 \in Matrix(2 * n) /\ m2 \in Matrix(2 * n)
  BY <1>1, <1>2, BlocksType
<1>5. Mul(m1, m2, 2 * n) = Mul(m2, m1, 2 * n)
  <2>1. BlocksCommute(xi)
    BY <1>1
  <2> HIDE DEF m1, m2, n
  <2> QED BY <2>1, <1>4 DEF BlocksCommute
<1>6. f \in Vector(4 * n)
  BY <1>2, <1>4, RightPartType
<1>7. sol = SolutionOf(m1, m2, f, n)
  BY <1>3 DEF SolutionInv
<1>8. /\ x = [q \in Idx(4 * n) |-> sol.num[1 + q \div (2 * n)][q % (2 * n)]]
      /\ side = Apply(GetMatrixx(m1, m2, n), x, 4 * n)
  OBVIOUS
<1>9. /\ Mul(sol.tt, m1, 2 * n) = Mul(m1, sol.tt, 2 * n)
      /\ Mul(sol.tt, m2, 2 * n) = Mul(m2, sol.tt, 2 * n)
      /\ [q \in Idx(2 * n) |-> side[q]] = Apply(sol.tt, f, 2 * n)
      /\ Lower(side, 2 * n) = Apply(sol.tt, Lower(f, 2 * n), 2 * n)
  <2> HIDE DEF n, m1, m2, f, x, side
  <2> QED BY <1>2, <1>4, <1>5, <1>6, <1>7, <1>8, SolutionSolves
<1> QED BY <1>9 DEF SystemIsSolved

THEOREM SolutionInvariant == DipolesSpec => []SolutionInv
<1>1. DipolesInit => SolutionInv
  BY DEF DipolesInit, SolutionInv, DipolesInv, ObjectIsRenewed
<1>2. SolutionInv /\ [DipolesNext]_dipoleVars => SolutionInv'
  <2> SUFFICES ASSUME SolutionInv, [DipolesNext]_dipoleVars PROVE SolutionInv'
    OBVIOUS
  <2>1. DipolesInv'
    BY DipolesStep DEF SolutionInv
  <2>2. CASE \E xi \in Configurations : SetNewCoordinates(xi) \/ LoadFromMatrix(xi)
    <3>1. PICK xi \in Configurations : configuration' = xi /\ sol' = NoSolution
      BY <2>2 DEF SetNewCoordinates, LoadFromMatrix, SystemChanges
    <3>2. xi # << >>
      BY DipolesOf
    <3> QED BY <2>1, <3>1, <3>2 DEF SolutionInv
  <2>3. CASE Solve
    <3>1. sol' = SolutionOf(m_1_, m_2_, f_, n_) /\ n_ > 0
      BY <2>3 DEF Solve, SolutionOf, Squares
    <3>2. UNCHANGED <<n_, m_1_, m_2_, f_, configuration>>
      BY <2>3 DEF Solve, object
    <3>3. configuration # << >>
      BY <3>1 DEF SolutionInv
    <3> QED BY <2>1, <3>1, <3>2, <3>3 DEF SolutionInv
  <2>4. CASE UNCHANGED <<object, sol, configuration>>
    BY <2>1, <2>4 DEF SolutionInv, object
  <2>5. CASE \E n \in Sizes : GetFullFunction(n)
    BY <2>4, <2>5 DEF GetFullFunction
  <2>6. CASE UNCHANGED dipoleVars
    BY <2>4, <2>6 DEF dipoleVars
  <2> QED BY <2>2, <2>3, <2>5, <2>6 DEF DipolesNext
<1> QED BY <1>1, <1>2, PTL DEF DipolesSpec

\* Solve gives the solution of the system of the configuration given last (Dipoles.cpp:68-71),
\* for any number of dipoles, whenever the blocks of that configuration commute.
THEOREM CommutingSystemsAreSolved ==
  DipolesSpec => []((configuration # << >> => BlocksCommute(configuration)) => SystemIsSolved)
<1>1. SolutionInv => ((configuration # << >> => BlocksCommute(configuration)) => SystemIsSolved)
  BY InvSolves
<1> QED BY <1>1, SolutionInvariant, PTL

\* Products of two and of four terms.
LEMMA DotOfTwo ==
  ASSUME NEW u \in Vector(2), NEW v \in Vector(2)
  PROVE  Dot(u, v, 2) = u[0] * v[0] + u[1] * v[1]
<1> DEFINE f == [q \in Idx(2) |-> u[q] * v[q]]
<1>1. Idx(2) = {0, 1}
  BY DEF Idx
<1>2. \A q \in {0, 1} : f[q] = u[q] * v[q] /\ f[q] \in Int
  <2> SUFFICES ASSUME NEW q \in {0, 1} PROVE u[q] * v[q] \in Int
    BY <1>1
  <2>1. u[q] \in Int /\ v[q] \in Int
    BY <1>1 DEF Vector
  <2> QED BY <2>1
<1>3. Dot(u, v, 2) = SumFunctionOnSet(f, {0, 1})
  BY <1>1 DEF Dot
<1> HIDE DEF f
<1>4. IsFiniteSet({0, 1}) /\ IsFiniteSet({1})
  BY FS_Singleton, FS_AddElement
<1>5. {0, 1} \ {0} = {1} /\ {1} \ {1} = {}
  OBVIOUS
<1>6. SumFunctionOnSet(f, {0, 1}) = f[0] + SumFunctionOnSet(f, {1})
  <2>1. SumFunctionOnSet(f, {0, 1}) = f[0] + SumFunctionOnSet(f, {0, 1} \ {0})
    BY <1>2, <1>4, SumRemove
  <2> QED BY <1>5, <2>1
<1>7. SumFunctionOnSet(f, {1}) = f[1] + 0
  <2>1. SumFunctionOnSet(f, {1}) = f[1] + SumFunctionOnSet(f, {1} \ {1})
    BY <1>2, <1>4, SumRemove
  <2> QED BY <1>5, <2>1, SumOfNothing
<1> QED BY <1>2, <1>3, <1>6, <1>7

LEMMA DotOfFour ==
  ASSUME NEW u \in Vector(4), NEW v \in Vector(4)
  PROVE  Dot(u, v, 4) = u[0] * v[0] + u[1] * v[1] + u[2] * v[2] + u[3] * v[3]
<1> DEFINE u1 == [q \in Idx(2) |-> u[q]]
           u2 == [q \in Idx(2) |-> u[2 + q]]
           v1 == [q \in Idx(2) |-> v[q]]
           v2 == [q \in Idx(2) |-> v[2 + q]]
<1>1. \A q \in 0 .. 3 : u[q] \in Int /\ v[q] \in Int
  BY DEF Vector, Idx
<1>2. \A q \in Idx(2) : q \in 0 .. 3 /\ 2 + q \in 0 .. 3
  BY DEF Idx
<1>3. /\ u1 \in Vector(2) /\ u2 \in Vector(2) /\ v1 \in Vector(2) /\ v2 \in Vector(2)
      /\ \A q \in Idx(2) : /\ u[q] = u1[q] /\ u[2 + q] = u2[q]
                           /\ v[q] = v1[q] /\ v[2 + q] = v2[q]
  BY <1>1, <1>2 DEF Vector
<1>4. /\ u1[0] = u[0] /\ u1[1] = u[1] /\ u2[0] = u[2] /\ u2[1] = u[3]
      /\ v1[0] = v[0] /\ v1[1] = v[1] /\ v2[0] = v[2] /\ v2[1] = v[3]
  BY DEF Idx
<1> HIDE DEF u1, u2, v1, v2
<1>5. /\ 2 \in Nat /\ 2 * 2 = 4
      /\ Halves(u, u1, u2, 2) /\ Halves(v, v1, v2, 2)
  BY <1>3 DEF Halves
<1>6. Dot(u, v, 2 * 2) = Dot(u1, v1, 2) + Dot(u2, v2, 2)
  BY <1>3, <1>5, DotOfHalves
<1>7. /\ Dot(u1, v1, 2) = u[0] * v[0] + u[1] * v[1]
      /\ Dot(u2, v2, 2) = u[2] * v[2] + u[3] * v[3]
  BY <1>3, <1>4, DotOfTwo
<1>8. \A x, y \in Int : x * y \in Int
  BY Z3
<1>9. /\ u[0] * v[0] \in Int /\ u[1] * v[1] \in Int
      /\ u[2] * v[2] \in Int /\ u[3] * v[3] \in Int
  BY <1>1, <1>8
<1> QED BY <1>5, <1>6, <1>7, <1>9

LEMMA MulOfFour ==
  ASSUME NEW a \in Matrix(4), NEW b \in Matrix(4), NEW r \in Idx(4), NEW c \in Idx(4)
  PROVE  Mul(a, b, 4)[<<r, c>>]
           = a[<<r, 0>>] * b[<<0, c>>] + a[<<r, 1>>] * b[<<1, c>>]
               + a[<<r, 2>>] * b[<<2, c>>] + a[<<r, 3>>] * b[<<3, c>>]
<1> DEFINE u == RowVector(a, r, 4)
           v == Column(b, c, 4)
<1>1. Mul(a, b, 4)[<<r, c>>] = Dot(u, v, 4)
  BY MulEntry
<1>2. u \in Vector(4) /\ v \in Vector(4)
  BY RowsAndColumns
<1>3. \A q \in {0, 1, 2, 3} : u[q] = a[<<r, q>>] /\ v[q] = b[<<q, c>>]
  <2>1. \A q \in {0, 1, 2, 3} : q \in Idx(4)
    BY DEF Idx
  <2> QED BY <2>1 DEF RowVector, Column
<1> HIDE DEF u, v
<1>4. Dot(u, v, 4) = u[0] * v[0] + u[1] * v[1] + u[2] * v[2] + u[3] * v[3]
  BY <1>2, DotOfFour
<1> QED BY <1>1, <1>3, <1>4

LEMMA MulOfTwo ==
  ASSUME NEW a \in Matrix(2), NEW b \in Matrix(2), NEW r \in Idx(2), NEW c \in Idx(2)
  PROVE  Mul(a, b, 2)[<<r, c>>] = a[<<r, 0>>] * b[<<0, c>>] + a[<<r, 1>>] * b[<<1, c>>]
<1> DEFINE u == RowVector(a, r, 2)
           v == Column(b, c, 2)
<1>1. Mul(a, b, 2)[<<r, c>>] = Dot(u, v, 2)
  BY MulEntry
<1>2. u \in Vector(2) /\ v \in Vector(2)
  BY RowsAndColumns
<1>3. \A q \in {0, 1} : u[q] = a[<<r, q>>] /\ v[q] = b[<<q, c>>]
  <2>1. \A q \in {0, 1} : q \in Idx(2)
    BY DEF Idx
  <2> QED BY <2>1 DEF RowVector, Column
<1> HIDE DEF u, v
<1>4. Dot(u, v, 2) = u[0] * v[0] + u[1] * v[1]
  BY <1>2, DotOfTwo
<1> QED BY <1>1, <1>3, <1>4

\* The first block of one dipole is zero.
LEMMA OneDipoleCommutes ==
  ASSUME NEW xi \in Configurations, SizeOf(xi) = 2
  PROVE  BlocksCommute(xi)
<1> DEFINE an == A \div 1
           m1 == FirstMatrix(xi, 1, an)
           m2 == SecondMatrix(xi, 1, an)
<1>0. 1 \in Nat \ {0} /\ 1 = SizeOf(xi) \div 2 /\ 2 * 1 = 2
  OBVIOUS
<1>1. /\ m1 \in Matrix(2) /\ m2 \in Matrix(2)
      /\ BlocksOf(xi) = <<m1, m2>>
  BY <1>0, BlocksType
<1>2. \A r, c \in {0, 1} : m1[<<r, c>>] = 0
  <2> SUFFICES ASSUME NEW r \in {0, 1}, NEW c \in {0, 1} PROVE m1[<<r, c>>] = 0
    OBVIOUS
  <2>1. r \in Idx(2 * 1) /\ c \in Idx(2 * 1) /\ r \div 2 = 0 /\ c \div 2 = 0
    BY DEF Idx
  <2>2. PICK pair : m1 = Block(1, 0, pair)
    BY DEF FirstMatrix, Detuning
  <2> HIDE DEF m1
  <2>3. Block(1, 0, pair)[<<r, c>>]
          = IF r \div 2 = c \div 2 THEN (IF r = c THEN 0 ELSE 0)
            ELSE pair[<<r \div 2, c \div 2, 1 + (r % 2), 1 + (c % 2)>>]
    BY <1>0, <2>1, BlockEntry
  <2> QED BY <2>1, <2>2, <2>3
<1> HIDE DEF m1, m2
<1>3. Mul(m1, m2, 2) \in Matrix(2) /\ Mul(m2, m1, 2) \in Matrix(2)
  BY <1>1, MulEntry
<1>4. \A r, c \in Idx(2) : Mul(m1, m2, 2)[<<r, c>>] = Mul(m2, m1, 2)[<<r, c>>]
  <2> SUFFICES ASSUME NEW r \in Idx(2), NEW c \in Idx(2)
               PROVE  Mul(m1, m2, 2)[<<r, c>>] = Mul(m2, m1, 2)[<<r, c>>]
    OBVIOUS
  <2>1. r \in {0, 1} /\ c \in {0, 1} /\ 0 \in Idx(2) /\ 1 \in Idx(2)
    BY DEF Idx
  <2>2. /\ m2[<<r, 0>>] \in Int /\ m2[<<r, 1>>] \in Int
        /\ m2[<<0, c>>] \in Int /\ m2[<<1, c>>] \in Int
    BY <1>1, <2>1 DEF Matrix
  <2>3. /\ m1[<<r, 0>>] = 0 /\ m1[<<r, 1>>] = 0 /\ m1[<<0, c>>] = 0 /\ m1[<<1, c>>] = 0
    BY <1>2, <2>1
  <2>4. /\ Mul(m1, m2, 2)[<<r, c>>] = 0 * m2[<<0, c>>] + 0 * m2[<<1, c>>]
        /\ Mul(m2, m1, 2)[<<r, c>>] = m2[<<r, 0>>] * 0 + m2[<<r, 1>>] * 0
    BY <1>1, <2>3, MulOfTwo
  <2> QED BY <2>2, <2>4
<1>5. Mul(m1, m2, 2) = Mul(m2, m1, 2)
  BY <1>3, <1>4, SameMatrix
<1> QED BY <1>1, <1>5 DEF BlocksCommute

\* The blocks of two dipoles: one number on the diagonal, the same symmetric block beside it.
Form(a, d, p11, p12, p22) ==
  /\ a[<<0, 0>>] = d /\ a[<<0, 1>>] = 0 /\ a[<<0, 2>>] = p11 /\ a[<<0, 3>>] = p12
  /\ a[<<1, 0>>] = 0 /\ a[<<1, 1>>] = d /\ a[<<1, 2>>] = p12 /\ a[<<1, 3>>] = p22
  /\ a[<<2, 0>>] = p11 /\ a[<<2, 1>>] = p12 /\ a[<<2, 2>>] = d /\ a[<<2, 3>>] = 0
  /\ a[<<3, 0>>] = p12 /\ a[<<3, 1>>] = p22 /\ a[<<3, 2>>] = 0 /\ a[<<3, 3>>] = d

LEMMA FormsCommute ==
  ASSUME NEW a \in Matrix(4), NEW d \in Int, NEW p11 \in Int, NEW p12 \in Int, NEW p22 \in Int,
         Form(a, d, p11, p12, p22),
         NEW b \in Matrix(4), NEW e \in Int, NEW q11 \in Int, NEW q12 \in Int, NEW q22 \in Int,
         Form(b, e, q11, q12, q22),
         p11 * q12 + p12 * q22 = q11 * p12 + q12 * p22
  PROVE  Mul(a, b, 4) = Mul(b, a, 4)
<1>1. 0 \in Idx(4) /\ 1 \in Idx(4) /\ 2 \in Idx(4) /\ 3 \in Idx(4)
  BY DEF Idx
<1>2. \A r, c \in Idx(4) :
        /\ Mul(a, b, 4)[<<r, c>>]
             = a[<<r, 0>>] * b[<<0, c>>] + a[<<r, 1>>] * b[<<1, c>>]
                 + a[<<r, 2>>] * b[<<2, c>>] + a[<<r, 3>>] * b[<<3, c>>]
        /\ Mul(b, a, 4)[<<r, c>>]
             = b[<<r, 0>>] * a[<<0, c>>] + b[<<r, 1>>] * a[<<1, c>>]
                 + b[<<r, 2>>] * a[<<2, c>>] + b[<<r, 3>>] * a[<<3, c>>]
  BY MulOfFour
<1>3. /\ Mul(a, b, 4)[<<0, 0>>] = Mul(b, a, 4)[<<0, 0>>]
      /\ Mul(a, b, 4)[<<0, 1>>] = Mul(b, a, 4)[<<0, 1>>]
      /\ Mul(a, b, 4)[<<0, 2>>] = Mul(b, a, 4)[<<0, 2>>]
      /\ Mul(a, b, 4)[<<0, 3>>] = Mul(b, a, 4)[<<0, 3>>]
  <2>1. /\ Mul(a, b, 4)[<<0, 0>>] = d * e + 0 * 0 + p11 * q11 + p12 * q12
        /\ Mul(b, a, 4)[<<0, 0>>] = e * d + 0 * 0 + q11 * p11 + q12 * p12
    BY <1>1, <1>2, Zenon DEF Form
  <2>2. /\ Mul(a, b, 4)[<<0, 1>>] = d * 0 + 0 * e + p11 * q12 + p12 * q22
        /\ Mul(b, a, 4)[<<0, 1>>] = e * 0 + 0 * d + q11 * p12 + q12 * p22
    BY <1>1, <1>2, Zenon DEF Form
  <2>3. /\ Mul(a, b, 4)[<<0, 2>>] = d * q11 + 0 * q12 + p11 * e + p12 * 0
        /\ Mul(b, a, 4)[<<0, 2>>] = e * p11 + 0 * p12 + q11 * d + q12 * 0
    BY <1>1, <1>2, Zenon DEF Form
  <2>4. /\ Mul(a, b, 4)[<<0, 3>>] = d * q12 + 0 * q22 + p11 * 0 + p12 * e
        /\ Mul(b, a, 4)[<<0, 3>>] = e * p12 + 0 * p22 + q11 * 0 + q12 * d
    BY <1>1, <1>2, Zenon DEF Form
  <2> QED BY <2>1, <2>2, <2>3, <2>4
<1>4. /\ Mul(a, b, 4)[<<1, 0>>] = Mul(b, a, 4)[<<1, 0>>]
      /\ Mul(a, b, 4)[<<1, 1>>] = Mul(b, a, 4)[<<1, 1>>]
      /\ Mul(a, b, 4)[<<1, 2>>] = Mul(b, a, 4)[<<1, 2>>]
      /\ Mul(a, b, 4)[<<1, 3>>] = Mul(b, a, 4)[<<1, 3>>]
  <2>1. /\ Mul(a, b, 4)[<<1, 0>>] = 0 * e + d * 0 + p12 * q11 + p22 * q12
        /\ Mul(b, a, 4)[<<1, 0>>] = 0 * d + e * 0 + q12 * p11 + q22 * p12
    BY <1>1, <1>2, Zenon DEF Form
  <2>2. /\ Mul(a, b, 4)[<<1, 1>>] = 0 * 0 + d * e + p12 * q12 + p22 * q22
        /\ Mul(b, a, 4)[<<1, 1>>] = 0 * 0 + e * d + q12 * p12 + q22 * p22
    BY <1>1, <1>2, Zenon DEF Form
  <2>3. /\ Mul(a, b, 4)[<<1, 2>>] = 0 * q11 + d * q12 + p12 * e + p22 * 0
        /\ Mul(b, a, 4)[<<1, 2>>] = 0 * p11 + e * p12 + q12 * d + q22 * 0
    BY <1>1, <1>2, Zenon DEF Form
  <2>4. /\ Mul(a, b, 4)[<<1, 3>>] = 0 * q12 + d * q22 + p12 * 0 + p22 * e
        /\ Mul(b, a, 4)[<<1, 3>>] = 0 * p12 + e * p22 + q12 * 0 + q22 * d
    BY <1>1, <1>2, Zenon DEF Form
  <2> QED BY <2>1, <2>2, <2>3, <2>4
<1>5. /\ Mul(a, b, 4)[<<2, 0>>] = Mul(b, a, 4)[<<2, 0>>]
      /\ Mul(a, b, 4)[<<2, 1>>] = Mul(b, a, 4)[<<2, 1>>]
      /\ Mul(a, b, 4)[<<2, 2>>] = Mul(b, a, 4)[<<2, 2>>]
      /\ Mul(a, b, 4)[<<2, 3>>] = Mul(b, a, 4)[<<2, 3>>]
  <2>1. /\ Mul(a, b, 4)[<<2, 0>>] = p11 * e + p12 * 0 + d * q11 + 0 * q12
        /\ Mul(b, a, 4)[<<2, 0>>] = q11 * d + q12 * 0 + e * p11 + 0 * p12
    BY <1>1, <1>2, Zenon DEF Form
  <2>2. /\ Mul(a, b, 4)[<<2, 1>>] = p11 * 0 + p12 * e + d * q12 + 0 * q22
        /\ Mul(b, a, 4)[<<2, 1>>] = q11 * 0 + q12 * d + e * p12 + 0 * p22
    BY <1>1, <1>2, Zenon DEF Form
  <2>3. /\ Mul(a, b, 4)[<<2, 2>>] = p11 * q11 + p12 * q12 + d * e + 0 * 0
        /\ Mul(b, a, 4)[<<2, 2>>] = q11 * p11 + q12 * p12 + e * d + 0 * 0
    BY <1>1, <1>2, Zenon DEF Form
  <2>4. /\ Mul(a, b, 4)[<<2, 3>>] = p11 * q12 + p12 * q22 + d * 0 + 0 * e
        /\ Mul(b, a, 4)[<<2, 3>>] = q11 * p12 + q12 * p22 + e * 0 + 0 * d
    BY <1>1, <1>2, Zenon DEF Form
  <2> QED BY <2>1, <2>2, <2>3, <2>4
<1>6. /\ Mul(a, b, 4)[<<3, 0>>] = Mul(b, a, 4)[<<3, 0>>]
      /\ Mul(a, b, 4)[<<3, 1>>] = Mul(b, a, 4)[<<3, 1>>]
      /\ Mul(a, b, 4)[<<3, 2>>] = Mul(b, a, 4)[<<3, 2>>]
      /\ Mul(a, b, 4)[<<3, 3>>] = Mul(b, a, 4)[<<3, 3>>]
  <2>1. /\ Mul(a, b, 4)[<<3, 0>>] = p12 * e + p22 * 0 + 0 * q11 + d * q12
        /\ Mul(b, a, 4)[<<3, 0>>] = q12 * d + q22 * 0 + 0 * p11 + e * p12
    BY <1>1, <1>2, Zenon DEF Form
  <2>2. /\ Mul(a, b, 4)[<<3, 1>>] = p12 * 0 + p22 * e + 0 * q12 + d * q22
        /\ Mul(b, a, 4)[<<3, 1>>] = q12 * 0 + q22 * d + 0 * p12 + e * p22
    BY <1>1, <1>2, Zenon DEF Form
  <2>3. /\ Mul(a, b, 4)[<<3, 2>>] = p12 * q11 + p22 * q12 + 0 * e + d * 0
        /\ Mul(b, a, 4)[<<3, 2>>] = q12 * p11 + q22 * p12 + 0 * d + e * 0
    BY <1>1, <1>2, Zenon DEF Form
  <2>4. /\ Mul(a, b, 4)[<<3, 3>>] = p12 * q12 + p22 * q22 + 0 * 0 + d * e
        /\ Mul(b, a, 4)[<<3, 3>>] = q12 * p12 + q22 * p22 + 0 * 0 + e * d
    BY <1>1, <1>2, Zenon DEF Form
  <2> QED BY <2>1, <2>2, <2>3, <2>4
<1>7. Mul(a, b, 4) \in Matrix(4) /\ Mul(b, a, 4) \in Matrix(4)
  BY MulEntry
<1>8. \A r, c \in Idx(4) : Mul(a, b, 4)[<<r, c>>] = Mul(b, a, 4)[<<r, c>>]
  <2>1. \A r \in Idx(4) : r = 0 \/ r = 1 \/ r = 2 \/ r = 3
    BY DEF Idx
  <2> QED BY <1>3, <1>4, <1>5, <1>6, <2>1
<1> QED BY <1>7, <1>8, SameMatrix

\* Seen from either of two dipoles, the other is at the same distance in the opposite direction.
LEMMA OppositeDirections ==
  ASSUME NEW xi \in Configurations, SizeOf(xi) = 4
  PROVE  /\ TwoDVecDifference(0, 1, xi, 2)[1] = - TwoDVecDifference(1, 0, xi, 2)[1]
         /\ TwoDVecDifference(0, 1, xi, 2)[2] = - TwoDVecDifference(1, 0, xi, 2)[2]
         /\ GetDistance(0, 1, xi, 2) = GetDistance(1, 0, xi, 2)
<1> DEFINE d == TwoDVecDifference(0, 1, xi, 2)
           e == TwoDVecDifference(1, 0, xi, 2)
<1>1. 2 \in Nat \ {0} /\ SizeOf(xi) = 2 * 2 /\ 0 \in Idx(2) /\ 1 \in Idx(2)
  BY DEF Idx
<1>2. d[1] \in Int /\ d[2] \in Int /\ e[1] \in Int /\ e[2] \in Int
  BY <1>1, DistanceType
<1>3. d[1] = xi[0] - xi[1] /\ d[2] = xi[2] - xi[3] /\ e[1] = xi[1] - xi[0] /\ e[2] = xi[3] - xi[2]
  BY DEF TwoDVecDifference
<1>4. xi[0] \in Int /\ xi[1] \in Int /\ xi[2] \in Int /\ xi[3] \in Int
  <2>1. SizeOf(xi) \div 2 = 2
    BY <1>1
  <2>2. \A k \in DOMAIN xi : xi[k] \in Int
    BY DistanceAssumption
  <2>3. DOMAIN xi = 0 .. 3
    <3>1. PICK l \in 1 .. Cardinality(DOMAIN xi) : DOMAIN xi = 0 .. (2 * l - 1)
      BY DipolesAssumption
    <3>2. l \in Nat \ {0}
      BY <3>1, SMT
    <3>3. SizeOf(xi) = 2 * l
      BY <3>1, <3>2, IdxSize DEF SizeOf, Idx
    <3> QED BY <3>1, <3>2, <3>3
  <2> QED BY <2>2, <2>3
<1>5. d[1] = - e[1] /\ d[2] = - e[2]
  BY <1>3, <1>4
<1> DEFINE sd == d[1] * d[1] + d[2] * d[2]
           se == e[1] * e[1] + e[2] * e[2]
<1>6. sd = se
  <2>1. \A x, y \in Int : (- x) * (- x) + (- y) * (- y) = x * x + y * y
    BY Z3
  <2> HIDE DEF d, e
  <2> QED BY <1>2, <1>5, <2>1
<1>7. /\ GetDistance(0, 1, xi, 2) = CHOOSE r \in 0 .. MaxDistance : r * r = sd
      /\ GetDistance(1, 0, xi, 2) = CHOOSE r \in 0 .. MaxDistance : r * r = se
  BY DEF GetDistance
<1> HIDE DEF sd, se
<1>8. GetDistance(0, 1, xi, 2) = GetDistance(1, 0, xi, 2)
  BY <1>6, <1>7
<1> QED BY <1>5, <1>8

\* Entries of the two blocks for a pair, from k, of k_1, and l, of k_2.
FirstEntry(an, k, l) == - an * (k * 2 - l * 3)
SecondEntry(an, k, l) == - an * (l * 2 + k * 3)

\* k11, k12 and k22 are the numbers of k_1, d is the one on the diagonal of k_2.
LEMMA PairCommutes ==
  ASSUME NEW an \in Int, NEW k11 \in Int, NEW k12 \in Int, NEW k22 \in Int, NEW d \in Int
  PROVE  FirstEntry(an, k11, d) * SecondEntry(an, k12, 0)
             + FirstEntry(an, k12, 0) * SecondEntry(an, k22, d)
           = SecondEntry(an, k11, d) * FirstEntry(an, k12, 0)
             + SecondEntry(an, k12, 0) * FirstEntry(an, k22, d)
<1> DEFINE p11 == FirstEntry(an, k11, d)
           p12 == FirstEntry(an, k12, 0)
           p22 == FirstEntry(an, k22, d)
           q11 == SecondEntry(an, k11, d)
           q12 == SecondEntry(an, k12, 0)
           q22 == SecondEntry(an, k22, d)
<1>1. PICK x \in Int, y \in Int, z \in Int, w \in Int :
        x = an * k11 /\ y = an * k12 /\ z = an * k22 /\ w = an * d
  OBVIOUS
<1>2. \A a, k, l \in Int : /\ - a * (k * 2 - l * 3) = 3 * (a * l) - 2 * (a * k)
                           /\ - a * (l * 2 + k * 3) = - 2 * (a * l) - 3 * (a * k)
                           /\ a * 0 = 0
  BY Z3
<1>3. /\ p11 = 3 * w - 2 * x /\ p12 = 3 * 0 - 2 * y /\ p22 = 3 * w - 2 * z
      /\ q11 = - 2 * w - 3 * x /\ q12 = - 2 * 0 - 3 * y /\ q22 = - 2 * w - 3 * z
  BY <1>1, <1>2 DEF FirstEntry, SecondEntry
<1> HIDE DEF p11, p12, p22, q11, q12, q22
<1>4. \A s, t, u, v \in Int :
        (3 * v - 2 * s) * (- 2 * 0 - 3 * t) + (3 * 0 - 2 * t) * (- 2 * v - 3 * u)
          = (- 2 * v - 3 * s) * (3 * 0 - 2 * t) + (- 2 * 0 - 3 * t) * (3 * v - 2 * u)
  BY Z3
<1>5. p11 * q12 + p12 * q22 = q11 * p12 + q12 * p22
  BY <1>3, <1>4
<1> QED BY <1>5 DEF p11, p12, p22, q11, q12, q22

\* Beside the diagonal blocks, an entry is that of a pair.
LEMMA PairEntry ==
  ASSUME NEW xi \in Configurations, NEW n \in Nat \ {0}, NEW an,
         NEW r \in Idx(2 * n), NEW c \in Idx(2 * n),
         NEW h, NEW m, NEW s, NEW t, h = r \div 2, m = c \div 2, s = 1 + (r % 2), t = 1 + (c % 2)
  PROVE  /\ h = m => /\ FirstMatrix(xi, n, an)[<<r, c>>] = 0
                     /\ SecondMatrix(xi, n, an)[<<r, c>>] = IF r = c THEN - 7 ELSE 0
         /\ h # m => LET rim == TwoDVecDifference(m, h, xi, n)
                         dist == GetDistance(h, m, xi, n)
                     IN /\ FirstMatrix(xi, n, an)[<<r, c>>]
                             = FirstEntry(an, K1(rim, dist, s, t), K2(dist, s, t))
                        /\ SecondMatrix(xi, n, an)[<<r, c>>]
                             = SecondEntry(an, K1(rim, dist, s, t), K2(dist, s, t))
<1> DEFINE first == [e \in PairEntries(n) |->
              LET rim == TwoDVecDifference(e[2], e[1], xi, n)
                  dist == GetDistance(e[1], e[2], xi, n)
              IN - an * (K1(rim, dist, e[3], e[4]) * Cos - K2(dist, e[3], e[4]) * Sin)]
           second == [e \in PairEntries(n) |->
              LET rim == TwoDVecDifference(e[2], e[1], xi, n)
                  dist == GetDistance(e[1], e[2], xi, n)
              IN - an * (K2(dist, e[3], e[4]) * Cos + K1(rim, dist, e[3], e[4]) * Sin)]
           pair == <<h, m, s, t>>
<1>1. FirstMatrix(xi, n, an) = Block(n, 0, first) /\ SecondMatrix(xi, n, an) = Block(n, - 7, second)
  BY DEF FirstMatrix, SecondMatrix, Detuning, Damping
<1>2. h \in Idx(n) /\ m \in Idx(n) /\ s \in {1, 2} /\ t \in {1, 2}
  BY BlockEntry
<1>3. pair \in PairEntries(n) /\ pair[1] = h /\ pair[2] = m /\ pair[3] = s /\ pair[4] = t
  BY <1>2 DEF PairEntries
<1> HIDE DEF pair
<1>4. LET rim == TwoDVecDifference(m, h, xi, n)
          dist == GetDistance(h, m, xi, n)
      IN /\ first[pair] = FirstEntry(an, K1(rim, dist, s, t), K2(dist, s, t))
         /\ second[pair] = SecondEntry(an, K1(rim, dist, s, t), K2(dist, s, t))
  BY <1>3 DEF Cos, Sin, FirstEntry, SecondEntry
<1> HIDE DEF first, second
<1>5. /\ FirstMatrix(xi, n, an)[<<r, c>>]
           = IF h = m THEN (IF r = c THEN 0 ELSE 0) ELSE first[pair]
      /\ SecondMatrix(xi, n, an)[<<r, c>>]
           = IF h = m THEN (IF r = c THEN - 7 ELSE 0) ELSE second[pair]
  BY <1>1, BlockEntry DEF pair
<1> QED BY <1>4, <1>5

LEMMA TwoDipolesCommute ==
  ASSUME NEW xi \in Configurations, SizeOf(xi) = 4
  PROVE  BlocksCommute(xi)
<1> DEFINE an == A \div 2
           m1 == FirstMatrix(xi, 2, an)
           m2 == SecondMatrix(xi, 2, an)
           rim(h) == TwoDVecDifference(1 - h, h, xi, 2)
           dist(h) == GetDistance(h, 1 - h, xi, 2)
           k1(s, t) == K1(rim(0), dist(0), s, t)
           d == K2(dist(0), 1, 1)
           p(k, l) == FirstEntry(an, k, l)
           q(k, l) == SecondEntry(an, k, l)
<1>1. /\ 2 \in Nat \ {0} /\ 2 = SizeOf(xi) \div 2 /\ SizeOf(xi) = 2 * 2 /\ 2 * 2 = 4
      /\ 0 \in Idx(2) /\ 1 \in Idx(2) /\ 1 \in {1, 2} /\ 2 \in {1, 2}
      /\ 1 - 0 = 1 /\ 1 - 1 = 0
  BY DEF Idx
<1>2. /\ m1 \in Matrix(4) /\ m2 \in Matrix(4) /\ an \in Int
      /\ BlocksOf(xi) = <<m1, m2>>
  BY <1>1, BlocksType
<1>3. k1(1, 1) \in Int /\ k1(1, 2) \in Int /\ k1(2, 2) \in Int /\ d \in Int
  BY <1>1, PairType
\* Both dipoles see the same numbers.
<1>4. \A h \in {0, 1}, s, t \in {1, 2} :
        /\ K1(rim(h), dist(h), s, t) = IF s = t THEN k1(s, s) ELSE k1(1, 2)
        /\ K2(dist(h), s, t) = IF s = t THEN d ELSE 0
  <2> DEFINE x == rim(0)[1]
             y == rim(0)[2]
             z == dist(0)
  <2>1. rim(1)[1] = - x /\ rim(1)[2] = - y /\ dist(1) = z
    BY <1>1, OppositeDirections
  <2>2. x \in Int /\ y \in Int /\ z \in Int
    BY <1>1, DistanceType
  <2>3. \A u, v \in Int : 3 * (- u) * (- v) = 3 * u * v /\ 3 * v * u = 3 * u * v
    BY Z3
  <2> HIDE DEF rim, dist
  <2>4. \A s, t \in {1, 2} : /\ K1(rim(1), dist(1), s, t) = K1(rim(0), dist(0), s, t)
                             /\ K1(rim(0), dist(0), s, t) = K1(rim(0), dist(0), t, s)
    <3>1. \A g : \A s, t \in {1, 2} :
            K1(g, z, s, t) = 3 * g[s] * g[t] - (IF s = t THEN z * z ELSE 0)
      BY DEF K1
    <3>2. \A s \in {1, 2} : rim(1)[s] = - rim(0)[s] /\ rim(0)[s] \in Int
      BY <2>1, <2>2
    <3>3. \A s, t \in {1, 2} : /\ 3 * rim(1)[s] * rim(1)[t] = 3 * rim(0)[s] * rim(0)[t]
                               /\ 3 * rim(0)[s] * rim(0)[t] = 3 * rim(0)[t] * rim(0)[s]
      BY <2>3, <3>2
    <3> HIDE DEF x, y, z
    <3> QED BY <2>1, <3>1, <3>3 DEF z
  <2>5. \A s, t \in {1, 2} : K2(z, s, t) = IF s = t THEN K2(z, 1, 1) ELSE 0
    BY DEF K2
  <2> HIDE DEF x, y, z
  <2> QED BY <2>1, <2>4, <2>5 DEF z
<1> DEFINE Entry(r, c, h, m, s, t) ==
             /\ h = m => m1[<<r, c>>] = 0 /\ m2[<<r, c>>] = IF r = c THEN - 7 ELSE 0
             /\ h # m =>
                  IF s = t THEN m1[<<r, c>>] = p(k1(s, s), d) /\ m2[<<r, c>>] = q(k1(s, s), d)
                  ELSE m1[<<r, c>>] = p(k1(1, 2), 0) /\ m2[<<r, c>>] = q(k1(1, 2), 0)
<1>5. ASSUME NEW r \in Idx(4), NEW c \in Idx(4)
      PROVE  Entry(r, c, r \div 2, c \div 2, 1 + (r % 2), 1 + (c % 2))
  <2> DEFINE h == r \div 2
             m == c \div 2
             s == 1 + (r % 2)
             t == 1 + (c % 2)
  <2>1. r \in 0 .. 3 /\ c \in 0 .. 3
    BY DEF Idx
  <2>2. h \in {0, 1} /\ m \in {0, 1} /\ s \in {1, 2} /\ t \in {1, 2}
    BY <2>1
  <2>3. h = m => m1[<<r, c>>] = 0 /\ m2[<<r, c>>] = IF r = c THEN - 7 ELSE 0
    BY <1>1, PairEntry
  <2>4. h # m => /\ m1[<<r, c>>] = p(K1(rim(h), dist(h), s, t), K2(dist(h), s, t))
                 /\ m2[<<r, c>>] = q(K1(rim(h), dist(h), s, t), K2(dist(h), s, t))
    <3>1. h # m => m = 1 - h
      BY <2>2
    <3> QED BY <1>1, <3>1, PairEntry
  <2> HIDE DEF m1, m2, rim, dist, d, p, q, h, m, s, t
  <2>5. Entry(r, c, h, m, s, t)
    BY <1>4, <2>2, <2>3, <2>4
  <2> QED BY <2>5 DEF h, m, s, t
<1> DEFINE x == k1(1, 1)
           y == k1(1, 2)
           z == k1(2, 2)
<1> HIDE DEF m1, m2, rim, dist, d, p, q
<1>6. Form(m1, 0, p(x, d), p(y, 0), p(z, d)) /\ Form(m2, - 7, q(x, d), q(y, 0), q(z, d))
  <2>1. 0 \in Idx(4) /\ 1 \in Idx(4) /\ 2 \in Idx(4) /\ 3 \in Idx(4)
    BY DEF Idx
  <2>2. /\ 0 \div 2 = 0 /\ 1 \div 2 = 0 /\ 2 \div 2 = 1 /\ 3 \div 2 = 1
        /\ 1 + (0 % 2) = 1 /\ 1 + (1 % 2) = 2 /\ 1 + (2 % 2) = 1 /\ 1 + (3 % 2) = 2
    BY Z3
  <2> HIDE DEF k1
  <2> QED BY <1>5, <2>1, <2>2 DEF Form
<1> HIDE DEF k1
<1>7. /\ p(x, d) \in Int /\ p(y, 0) \in Int /\ p(z, d) \in Int
      /\ q(x, d) \in Int /\ q(y, 0) \in Int /\ q(z, d) \in Int
  BY <1>2, <1>3 DEF p, q, FirstEntry, SecondEntry
<1>8. p(x, d) * q(y, 0) + p(y, 0) * q(z, d) = q(x, d) * p(y, 0) + q(y, 0) * p(z, d)
  BY <1>2, <1>3, PairCommutes DEF p, q, x, y, z, k1
<1>9. Mul(m1, m2, 4) = Mul(m2, m1, 4)
  <2>1. 0 \in Int /\ - 7 \in Int
    OBVIOUS
  <2> HIDE DEF x, y, z
  <2> QED BY <1>2, <1>6, <1>7, <1>8, <2>1, FormsCommute
<1> QED BY <1>2, <1>9 DEF BlocksCommute

\* For one or two dipoles nothing else is needed: the blocks commute, so what Solve returns is
\* the solution of the system, however often the object was renewed before (Dipoles.cpp:68-71).
THEOREM SystemsOfTwoAreSolved ==
  (\A xi \in Configurations : SizeOf(xi) \in {2, 4}) => (DipolesSpec => []SystemIsSolved)
<1> SUFFICES ASSUME \A xi \in Configurations : SizeOf(xi) \in {2, 4}
             PROVE  DipolesSpec => []SystemIsSolved
  OBVIOUS
<1>1. \A xi \in Configurations : BlocksCommute(xi)
  BY OneDipoleCommutes, TwoDipolesCommute
<1>2. SolutionInv => SystemIsSolved
  <2>1. SolutionInv => (configuration # << >> => BlocksCommute(configuration))
    BY <1>1 DEF SolutionInv, DipolesInv
  <2> QED BY <2>1, InvSolves
<1> QED BY <1>2, SolutionInvariant, PTL

----------------------------------------------------------------------------
\* Connection strings.

Word == Tokens \union PortNumbers \union {"amqp", "amqps", "postgresql"}

\* The string is that of the fields, but for the one that a default constructor leaves empty.
StringsInv ==
  /\ class \in Classes
  /\ fields \in [Fields(class) -> Seq(Word)]
  /\ class = "PostgreSQLCStr" => fields["port"] \in Values("port")
  /\ class = "AMQPSQLCStr" => fields["secure"] \in Values("secure")
  /\ formatted_string_ = Format(class, fields) \/ fields = Default
  /\ StringsComeBack

LEMMA OneWord ==
  ASSUME NEW S, NEW x \in S
  PROVE  <<x>> \in Seq(S)
OBVIOUS

\* A text grows by the only word of a plain field.
LEMMA OneWordMore ==
  ASSUME NEW s \in Seq(Word), NEW t \in Seq(Word), Len(t) = 1
  PROVE  /\ s \o t \in Seq(Word) /\ Len(s \o t) = Len(s) + 1 /\ (s \o t)[Len(s) + 1] = t[1]
         /\ \A k \in 1 .. Len(s) : (s \o t)[k] = s[k]
<1>1. /\ s \o t \in Seq(Word) /\ Len(s \o t) = Len(s) + Len(t)
      /\ \A h \in 1 .. Len(s) + Len(t) : (s \o t)[h] = IF h <= Len(s) THEN s[h] ELSE t[h - Len(s)]
  BY ConcatProperties
<1>2. Len(s) \in Nat
  BY LenProperties
<1>3. (s \o t)[Len(s) + 1] = t[1]
  BY <1>1, <1>2
<1> QED BY <1>1, <1>2, <1>3

LEMMA OnlyWord ==
  ASSUME NEW S, NEW t \in Seq(S), Len(t) = 1
  PROVE  t = <<t[1]>>
OBVIOUS

LEMMA ValuesAreTexts ==
  ASSUME NEW field, NEW value \in Values(field)
  PROVE  value \in Seq(Word)
<1>1. CASE field = "port"
  <2>1. PICK p \in PortNumbers : value = <<p>>
    BY <1>1 DEF Values
  <2>2. p \in Word
    BY DEF Word
  <2> QED BY <2>1, <2>2
<1>2. CASE field = "secure"
  <2>1. value \in {<<"amqp">>, <<"amqps">>}
    BY <1>2 DEF Values
  <2>2. "amqp" \in Word /\ "amqps" \in Word
    BY DEF Word
  <2>3. <<"amqp">> \in Seq(Word) /\ <<"amqps">> \in Seq(Word)
    BY <2>2, OneWord
  <2> QED BY <2>1, <2>3
<1>3. CASE field # "port" /\ field # "secure"
  <2>1. value \in Seq(Tokens)
    BY <1>3, StringsAssumption DEF Values
  <2>2. Tokens \subseteq Word
    BY DEF Word
  <2> QED BY <2>1, <2>2
<1> QED BY <1>1, <1>2, <1>3

\* A default object has empty texts.
LEMMA DefaultIsNotPlain ==
  ASSUME class \in Classes
  PROVE  /\ Default \in [Fields(class) -> Seq(Word)]
         /\ class = "PostgreSQLCStr" => Default["port"] \in Values("port")
         /\ class = "AMQPSQLCStr" => Default["secure"] \in Values("secure")
         /\ \E f \in Fields(class) : ~ Plain(f, Default[f])
<1>1. ASSUME NEW f \in Fields(class) PROVE Default[f] \in Seq(Word)
  <2>1. "5432" \in Word /\ "amqp" \in Word
    BY StringsAssumption DEF Word
  <2>2. Default[f] = <<"5432">> \/ Default[f] = <<"amqp">> \/ Default[f] = << >>
    BY DEF Default
  <2>3. <<"5432">> \in Seq(Word) /\ <<"amqp">> \in Seq(Word) /\ << >> \in Seq(Word)
    BY <2>1, OneWord
  <2> QED BY <2>2, <2>3
<1>2. Default \in [Fields(class) -> Seq(Word)]
  BY <1>1 DEF Default
<1>3. class = "PostgreSQLCStr" => Default["port"] \in Values("port")
  BY StringsAssumption DEF Default, Values, Fields
<1>4. class = "AMQPSQLCStr" => Default["secure"] \in Values("secure")
  BY DEF Default, Values, Fields
<1>5. "user" \in Fields(class)
  BY DEF Fields
<1>6. ~ Plain("user", Default["user"])
  BY <1>5 DEF Plain, Default
<1> QED BY <1>2, <1>3, <1>4, <1>5, <1>6

LEMMA DefaultConstruct_Inv ==
  ASSUME StringsInv, DefaultConstruct
  PROVE  StringsInv'
<1>1. class' = class /\ fields' = Default /\ copy' = Unscanned
  BY DEF DefaultConstruct
<1>2. class \in Classes
  BY DEF StringsInv
<1>3. Default' = Default
  BY <1>1 DEF Default
<1>4. StringsComeBack'
  BY <1>1 DEF StringsComeBack, Unscanned
<1> QED BY <1>1, <1>2, <1>3, <1>4, DefaultIsNotPlain DEF StringsInv

LEMMA Construct_Inv ==
  ASSUME StringsInv, Construct
  PROVE  StringsInv'
<1>1. PICK texts \in [Texts(class) -> Inputs], port \in Values("port"), secure \in Values("secure") :
        fields' = [f \in Fields(class) |->
          IF f = "port" THEN port ELSE IF f = "secure" THEN secure ELSE texts[f]]
  BY Zenon DEF Construct
<1>2. class' = class /\ copy' = Unscanned /\ formatted_string_' = Format(class, fields')
  BY DEF Construct, UpdateFormat
<1>3. class \in Classes
  BY DEF StringsInv
<1>4. ASSUME NEW f \in Fields(class) PROVE fields'[f] \in Seq(Word)
  <2>1. CASE f = "port"
    BY <1>1, <2>1, ValuesAreTexts
  <2>2. CASE f = "secure"
    BY <1>1, <2>2, ValuesAreTexts
  <2>3. CASE f # "port" /\ f # "secure"
    <3>1. fields'[f] = texts[f] /\ texts[f] \in Inputs
      BY <1>1, <2>3 DEF Texts
    <3>2. Inputs = Values("user")
      BY DEF Values
    <3> QED BY <3>1, <3>2, ValuesAreTexts
  <2> QED BY <2>1, <2>2, <2>3
<1>5. fields' \in [Fields(class) -> Seq(Word)]
  BY <1>1, <1>4
<1>6. class = "PostgreSQLCStr" => fields'["port"] \in Values("port")
  BY <1>1 DEF Fields
<1>7. class = "AMQPSQLCStr" => fields'["secure"] \in Values("secure")
  BY <1>1 DEF Fields
<1>8. StringsComeBack'
  BY <1>2 DEF StringsComeBack, Unscanned
<1> QED BY <1>2, <1>3, <1>5, <1>6, <1>7, <1>8 DEF StringsInv

LEMMA Set_Inv ==
  ASSUME StringsInv, NEW field \in Fields(class), NEW value \in Values(field), Set(field, value)
  PROVE  StringsInv'
<1>1. fields' = [fields EXCEPT ![field] = value]
  BY DEF Set
<1>2. class' = class /\ copy' = Unscanned /\ formatted_string_' = Format(class, fields')
  BY DEF Set, UpdateFormat
<1>3. class \in Classes /\ fields \in [Fields(class) -> Seq(Word)]
  BY DEF StringsInv
<1>4. fields' \in [Fields(class) -> Seq(Word)]
  BY <1>1, <1>3, ValuesAreTexts
<1>5. class = "PostgreSQLCStr" => fields'["port"] \in Values("port")
  BY <1>1, <1>3 DEF StringsInv, Fields
<1>6. class = "AMQPSQLCStr" => fields'["secure"] \in Values("secure")
  BY <1>1, <1>3 DEF StringsInv, Fields
<1>7. StringsComeBack'
  BY <1>2 DEF StringsComeBack, Unscanned
<1> QED BY <1>2, <1>3, <1>4, <1>5, <1>6, <1>7 DEF StringsInv

\* The words of a plain string are its fields in their order, so the scan gives them back.
LEMMA PostgresComesBack ==
  ASSUME class = "PostgreSQLCStr", fields \in [Fields(class) -> Seq(Word)],
         fields["port"] \in Values("port"),
         \A f \in Fields(class) : Plain(f, fields[f]),
         NEW w, w = Format(class, fields)
  PROVE  PostgresScans(w) /\ PostgresFields(w) = fields
<1> DEFINE head == <<"postgresql">>
           user == fields["user"]
           password == fields["password"]
           host == fields["host"]
           port == fields["port"]
           dbname == fields["dbname"]
<1>1. /\ user \in Seq(Word) /\ password \in Seq(Word) /\ host \in Seq(Word)
      /\ port \in Seq(Word) /\ dbname \in Seq(Word)
      /\ Len(user) = 1 /\ Len(password) = 1 /\ Len(host) = 1 /\ Len(port) = 1 /\ Len(dbname) = 1
  BY DEF Fields, Plain
<1>2. head \in Seq(Word) /\ Len(head) = 1 /\ head[1] = "postgresql"
  BY DEF Word
<1>3. w = ((((head \o user) \o password) \o host) \o port) \o dbname
  BY DEF Format
<1>p. port[1] \in PortNumbers
  BY DEF Values
<1>f. /\ fields = [user |-> user, password |-> password, host |-> host, port |-> port,
                   dbname |-> dbname]
  BY DEF Fields
<1> HIDE DEF head, user, password, host, port, dbname
<1> DEFINE w2 == head \o user
           w3 == w2 \o password
           w4 == w3 \o host
           w5 == w4 \o port
<1>w. /\ user = <<user[1]>> /\ password = <<password[1]>> /\ host = <<host[1]>>
      /\ port = <<port[1]>> /\ dbname = <<dbname[1]>>
  BY <1>1, OnlyWord
<1>8. w2 = head \o user /\ w3 = w2 \o password /\ w4 = w3 \o host /\ w5 = w4 \o port /\ w = w5 \o dbname
  BY <1>3
<1> HIDE DEF w2, w3, w4, w5
<1>4. w2 \in Seq(Word) /\ Len(w2) = 2 /\ w2[2] = user[1] /\ w2[1] = head[1]
  <2>1. /\ w2 \in Seq(Word) /\ Len(w2) = Len(head) + 1 /\ w2[Len(head) + 1] = user[1]
        /\ \A k \in 1 .. Len(head) : w2[k] = head[k]
    BY <1>1, <1>2, <1>8, OneWordMore
  <2> QED BY <2>1, <1>2
<1>5. w3 \in Seq(Word) /\ Len(w3) = 3 /\ w3[3] = password[1] /\ \A k \in 1 .. 2 : w3[k] = w2[k]
  <2>1. /\ w3 \in Seq(Word) /\ Len(w3) = Len(w2) + 1 /\ w3[Len(w2) + 1] = password[1]
        /\ \A k \in 1 .. Len(w2) : w3[k] = w2[k]
    BY <1>1, <1>4, <1>8, OneWordMore
  <2> QED BY <2>1, <1>4
<1>6. w4 \in Seq(Word) /\ Len(w4) = 4 /\ w4[4] = host[1] /\ \A k \in 1 .. 3 : w4[k] = w3[k]
  <2>0. w3 \in Seq(Word) /\ host \in Seq(Word) /\ Len(host) = 1 /\ w4 = w3 \o host
    BY <1>1, <1>5, <1>8
  <2>1. /\ w4 \in Seq(Word) /\ Len(w4) = Len(w3) + 1 /\ w4[Len(w3) + 1] = host[1]
        /\ \A k \in 1 .. Len(w3) : w4[k] = w3[k]
    BY <2>0, OneWordMore
  <2> QED BY <2>1, <1>5
<1>7. w5 \in Seq(Word) /\ Len(w5) = 5 /\ w5[5] = port[1] /\ \A k \in 1 .. 4 : w5[k] = w4[k]
  <2>0. w4 \in Seq(Word) /\ port \in Seq(Word) /\ Len(port) = 1 /\ w5 = w4 \o port
    BY <1>1, <1>6, <1>8
  <2>1. /\ w5 \in Seq(Word) /\ Len(w5) = Len(w4) + 1 /\ w5[Len(w4) + 1] = port[1]
        /\ \A k \in 1 .. Len(w4) : w5[k] = w4[k]
    BY <2>0, OneWordMore
  <2> QED BY <2>1, <1>6
<1>9. Len(w) = 6 /\ w[6] = dbname[1] /\ \A k \in 1 .. 5 : w[k] = w5[k]
  <2>0. w5 \in Seq(Word) /\ dbname \in Seq(Word) /\ Len(dbname) = 1 /\ w = w5 \o dbname
    BY <1>1, <1>7, <1>8
  <2>1. /\ Len(w) = Len(w5) + 1 /\ w[Len(w5) + 1] = dbname[1]
        /\ \A k \in 1 .. Len(w5) : w[k] = w5[k]
    BY <2>0, OneWordMore
  <2> QED BY <2>1, <1>7
<1>10. /\ w[1] = "postgresql" /\ w[2] = user[1] /\ w[3] = password[1] /\ w[4] = host[1]
       /\ w[5] = port[1]
  BY <1>2, <1>4, <1>5, <1>6, <1>7, <1>9
<1>11. PostgresScans(w)
  BY <1>9, <1>10, <1>p DEF PostgresScans
<1>12. PostgresFields(w) = [user |-> user, password |-> password, host |-> host, port |-> port,
                            dbname |-> dbname]
  BY <1>9, <1>10, <1>w DEF PostgresFields
<1> QED BY <1>11, <1>12, <1>f

LEMMA AmqpComesBack ==
  ASSUME class = "AMQPSQLCStr", fields \in [Fields(class) -> Seq(Word)],
         fields["secure"] \in Values("secure"),
         \A f \in Fields(class) : Plain(f, fields[f]),
         NEW w, w = Format(class, fields)
  PROVE  AmqpScans(w) /\ AmqpFields(w) = fields
<1> DEFINE secure == fields["secure"]
           user == fields["user"]
           password == fields["password"]
           host_port == fields["host_port"]
<1>1. /\ secure \in Seq(Word) /\ user \in Seq(Word) /\ password \in Seq(Word)
      /\ host_port \in Seq(Word)
      /\ Len(secure) = 1 /\ Len(user) = 1 /\ Len(password) = 1 /\ Len(host_port) = 2
  BY DEF Fields, Plain
<1>2. w = ((secure \o user) \o password) \o host_port
  BY DEF Format
<1>3. secure = <<"amqp">> \/ secure = <<"amqps">>
  BY DEF Values
<1>f. fields = [secure |-> secure, user |-> user, password |-> password, host_port |-> host_port]
  BY DEF Fields
<1> HIDE DEF secure, user, password, host_port
<1> DEFINE w2 == secure \o user
           w3 == w2 \o password
<1>w. user = <<user[1]>> /\ password = <<password[1]>>
  BY <1>1, OnlyWord
<1>6. w2 = secure \o user /\ w3 = w2 \o password /\ w = w3 \o host_port
  BY <1>2
<1> HIDE DEF w2, w3
<1>4. w2 \in Seq(Word) /\ Len(w2) = 2 /\ w2[1] = secure[1] /\ w2[2] = user[1]
  <2>1. /\ w2 \in Seq(Word) /\ Len(w2) = Len(secure) + 1 /\ w2[Len(secure) + 1] = user[1]
        /\ \A k \in 1 .. Len(secure) : w2[k] = secure[k]
    BY <1>1, <1>6, OneWordMore
  <2> QED BY <2>1, <1>1
<1>5. w3 \in Seq(Word) /\ Len(w3) = 3 /\ w3[1] = w2[1] /\ w3[2] = w2[2] /\ w3[3] = password[1]
  <2>1. /\ w3 \in Seq(Word) /\ Len(w3) = Len(w2) + 1 /\ w3[Len(w2) + 1] = password[1]
        /\ \A k \in 1 .. Len(w2) : w3[k] = w2[k]
    BY <1>1, <1>4, <1>6, OneWordMore
  <2> QED BY <2>1, <1>4
<1>7. Len(w) = 5 /\ w[4] = host_port[1] /\ w[5] = host_port[2] /\ \A k \in 1 .. 3 : w[k] = w3[k]
  <2>1. /\ Len(w3 \o host_port) = Len(w3) + Len(host_port)
        /\ \A h \in 1 .. Len(w3) + Len(host_port) :
             (w3 \o host_port)[h] = IF h <= Len(w3) THEN w3[h] ELSE host_port[h - Len(w3)]
    <3> HIDE <1>6
    <3> QED BY <1>1, <1>5, ConcatProperties
  <2>2. /\ Len(w) = 3 + 2
        /\ \A h \in 1 .. 3 + 2 : w[h] = IF h <= 3 THEN w3[h] ELSE host_port[h - 3]
    BY <2>1, <1>1, <1>5, <1>6
  <2> QED BY <2>2
<1>8. host_port = <<host_port[1], host_port[2]>>
  BY <1>1
<1>9. w[1] = secure[1] /\ w[2] = user[1] /\ w[3] = password[1]
  BY <1>4, <1>5, <1>7
<1>10. secure = IF w[1] = "amqps" THEN <<"amqps">> ELSE <<"amqp">>
  BY <1>3, <1>9
<1>11. AmqpFields(w) = [secure |-> secure, user |-> user, password |-> password,
                        host_port |-> host_port]
  BY <1>5, <1>7, <1>8, <1>9, <1>10, <1>w DEF AmqpFields
<1> QED BY <1>7, <1>11, <1>f DEF AmqpScans

LEMMA FromString_Inv ==
  ASSUME StringsInv, FromString
  PROVE  StringsInv'
<1>1. UNCHANGED <<class, fields, formatted_string_>>
  BY DEF FromString
<1> DEFINE plain == \A f \in Fields(class) : Plain(f, fields[f])
           w == formatted_string_
<1>2. class \in Classes /\ fields \in [Fields(class) -> Seq(Word)]
  BY DEF StringsInv
<1>3. ASSUME plain PROVE copy' = [outcome |-> "scanned", fields |-> fields]
  <2>1. w = Format(class, fields)
    BY <1>2, <1>3, DefaultIsNotPlain DEF StringsInv
  <2>2. CASE class = "PostgreSQLCStr"
    <3>1. PostgresScans(w) /\ PostgresFields(w) = fields
      BY <1>2, <1>3, <2>1, <2>2, PostgresComesBack DEF StringsInv
    <3> QED BY <2>2, <3>1 DEF FromString, Scans, ScannedFields
  <2>3. CASE class = "AMQPSQLCStr"
    <3>1. AmqpScans(w) /\ AmqpFields(w) = fields
      BY <1>2, <1>3, <2>1, <2>3, AmqpComesBack DEF StringsInv
    <3> QED BY <2>3, <3>1 DEF FromString, Scans, ScannedFields
  <2> QED BY <1>2, <2>2, <2>3 DEF Classes
<1>4. StringsComeBack'
  BY <1>1, <1>3 DEF StringsComeBack
<1>5. Default' = Default
  BY <1>1 DEF Default
<1> QED BY <1>1, <1>4, <1>5 DEF StringsInv

THEOREM StringsInvariant == StringsSpec => []StringsInv
<1>1. StringsInit => StringsInv
  <2> SUFFICES ASSUME StringsInit PROVE StringsInv
    OBVIOUS
  <2>1. class \in Classes /\ fields = Default /\ copy = Unscanned
    BY DEF StringsInit
  <2>2. StringsComeBack
    BY <2>1 DEF StringsComeBack
  <2> QED BY <2>1, <2>2, DefaultIsNotPlain DEF StringsInv
<1>2. StringsInv /\ [StringsNext]_stringVars => StringsInv'
  <2> SUFFICES ASSUME StringsInv, [StringsNext]_stringVars PROVE StringsInv'
    OBVIOUS
  <2>1. CASE DefaultConstruct
    BY <2>1, DefaultConstruct_Inv
  <2>2. CASE Construct
    BY <2>2, Construct_Inv
  <2>3. CASE FromString
    BY <2>3, FromString_Inv
  <2>4. CASE \E field \in Fields(class) : \E value \in Values(field) : Set(field, value)
    BY <2>4, Set_Inv
  <2>5. CASE UNCHANGED stringVars
    <3>1. UNCHANGED <<class, fields, formatted_string_, copy>>
      BY <2>5 DEF stringVars
    <3> QED BY <3>1 DEF StringsInv, StringsComeBack, Default
  <2> QED BY <2>1, <2>2, <2>3, <2>4, <2>5 DEF StringsNext
<1> QED BY <1>1, <1>2, PTL DEF StringsSpec

\* Whatever was set before, for all words: a string of plain fields gives another object the
\* same fields (connectionString.cpp:77-84, 159-166).
THEOREM ScannedAsSet == StringsSpec => []StringsComeBack
<1>1. StringsInv => StringsComeBack
  BY DEF StringsInv
<1> QED BY <1>1, StringsInvariant, PTL

----------------------------------------------------------------------------
(* CoordGenerate.                                                          *)


GenSteps == {"loop", "set", "solve", "bind", "apply", "add", "store", "print"}
MeshValues == [grid : {"zeros", "constructed"}, xi : Int, sol : Int]

\* A thread that has begun a simulation and not added it.
Holds(t) == at[t] \notin {"loop", "print"}

\* The simulations in the sum: begun and not held by a thread.
Done == {s \in Simulations \ todo : \A t \in Crew : Holds(t) => i[t] # s}

GenTyped ==
  /\ state \in StateT
  /\ todo \in SUBSET Simulations
  /\ at \in [Crew -> GenSteps]
  /\ i \in [Crew -> Int]
  /\ dipoles1 \in [Crew -> [system : Int, xi : Int, solution : Int \union Crew]]
  /\ mesh \in [Crew -> [grid : {"zeros", "constructed"}, data_2 : MeshValues]]
  /\ solution \in [Crew -> Int]
  /\ DOMAIN seen = Crew

\* Who works has a simulation of his own.
OwnSimulations ==
  /\ \A t \in Crew : at[t] # "loop" => Works(t) /\ i[t] \in Simulations \ todo
  /\ \A t, u \in Crew : t # u /\ Holds(t) /\ Holds(u) => i[t] # i[u]

\* What a thread's object, solution and mesh are at each step: of its simulation.
ObjectsAreOwn ==
  \A t \in Crew :
    /\ at[t] \in {"solve", "bind", "apply", "add", "store", "print"}
         => dipoles1[Own(t)].system = i[t]
    /\ at[t] \in {"bind", "apply", "add", "store", "print"} => solution[t] = i[t]
    /\ at[t] = "apply" => dipoles1[Own(t)].xi = i[t] /\ dipoles1[Own(t)].solution = t
    /\ at[t] \in {"add", "store", "print"}
         => mesh[Own(t)].data_2 = Value(i[t], mesh[Own(t)].grid)

MeshesConstructed ==
  state # "openmp_old" => \A t \in Crew : mesh[t].grid = "constructed"

\* One thread at a time adds, to what it has just read; the sum has each simulation
\* that is done, once.
SumOfDone ==
  /\ \A t \in Crew : at[t] = "store" <=> critical = t
  /\ \A t \in Crew : at[t] = "store" => seen[t] = result
  /\ state # "openmp_old" => result = SetToBag({Value(s, "constructed") : s \in Done})

Written ==
  /\ \A t \in Crew : at[t] = "print" => state = "printImpl"
  /\ SimulationsAveraged

GenInv ==
  /\ GenTyped
  /\ OwnSimulations
  /\ ObjectsAreOwn
  /\ MeshesConstructed
  /\ SumOfDone
  /\ Written

Moves(t) ==
  \/ Begin(t) \/ SetCoordinates(t) \/ SolveSystem(t) \/ BindFunctions(t)
  \/ ApplyToMesh(t) \/ StartAdd(t) \/ FinishAdd(t) \/ PrintSimulation(t)

----------------------------------------------------------------------------
LEMMA NoneIsNoSimulation == None \notin Simulations /\ None \notin Crew /\ Simulations \subseteq Int
BY GenerateAssumption DEF None, Simulations, Crew

\* Threads that work at the same time have objects of their own.
LEMMA OwnObjects ==
  ASSUME NEW t \in Crew, NEW u \in Crew, t # u, Works(t), Works(u)
  PROVE  Own(t) # Own(u) /\ Own(t) \in Crew /\ Own(u) \in Crew
BY DEF Works, Own, Crew

LEMMA OwnInCrew ==
  ASSUME NEW t \in Crew
  PROVE  Own(t) \in Crew
BY DEF Own, Crew

\* One more simulation in a bag of simulations.
LEMMA OneMoreValue ==
  ASSUME NEW D, NEW s, s \notin D, NEW g
  PROVE  SetToBag({Value(x, g) : x \in D}) (+) SetToBag({Value(s, g)})
           = SetToBag({Value(x, g) : x \in D \union {s}})
<1> DEFINE old == {Value(x, g) : x \in D}
           v == Value(s, g)
<1>1. v \notin old
  BY DEF Value
<1>2. {Value(x, g) : x \in D \union {s}} = old \union {v}
  OBVIOUS
<1> HIDE DEF old, v
<1>3. SetToBag(old) (+) SetToBag({v}) = SetToBag(old \union {v})
  BY <1>1 DEF SetToBag, (+)
<1> QED BY <1>2, <1>3 DEF old, v

----------------------------------------------------------------------------
LEMMA TypedInit == GenerateInit => GenTyped
BY NoneIsNoSimulation
   DEF GenerateInit, GenTyped, GenSteps, StateT, NoDipoles, NoValue, MeshValues, None

LEMMA TypedNext ==
  ASSUME GenInv, [GenerateNext]_genVars
  PROVE  GenTyped'
<1> USE DEF GenInv, GenTyped, At, Go, GenSteps
<1>1. ASSUME NEW t \in Crew, Begin(t) PROVE GenTyped'
  BY <1>1, NoneIsNoSimulation DEF Begin
<1>2. ASSUME NEW t \in Crew, SetCoordinates(t) PROVE GenTyped'
  BY <1>2, OwnInCrew DEF SetCoordinates
<1>3. ASSUME NEW t \in Crew, SolveSystem(t) PROVE GenTyped'
  BY <1>3, OwnInCrew DEF SolveSystem
<1>4. ASSUME NEW t \in Crew, BindFunctions(t) PROVE GenTyped'
  BY <1>4, OwnInCrew DEF BindFunctions
<1>5. ASSUME NEW t \in Crew, ApplyToMesh(t) PROVE GenTyped'
  <2> DEFINE d == dipoles1[Own(t)]
             value == [grid |-> mesh[Own(t)].grid, xi |-> d.xi, sol |-> solution[d.solution]]
  <2>1. Own(t) \in Crew
    BY OwnInCrew
  <2>2. d.solution = t /\ d.xi \in Int
    BY <1>5, <2>1 DEF ApplyToMesh, ObjectsAreOwn
  <2>3. value \in MeshValues
    BY <2>1, <2>2 DEF MeshValues
  <2>4. mesh' = [mesh EXCEPT ![Own(t)].data_2 = value]
    BY <1>5 DEF ApplyToMesh
  <2> HIDE DEF value, d
  <2>5. mesh' \in [Crew -> [grid : {"zeros", "constructed"}, data_2 : MeshValues]]
    BY <2>1, <2>3, <2>4
  <2> QED BY <1>5, <2>5 DEF ApplyToMesh
<1>6. ASSUME NEW t \in Crew, StartAdd(t) PROVE GenTyped'
  BY <1>6 DEF StartAdd
<1>7. ASSUME NEW t \in Crew, FinishAdd(t) PROVE GenTyped'
  BY <1>7 DEF FinishAdd
<1>8. ASSUME NEW t \in Crew, PrintSimulation(t) PROVE GenTyped'
  BY <1>8 DEF PrintSimulation
<1>9. CASE WriteAverage \/ UNCHANGED genVars
  BY <1>9 DEF WriteAverage, genVars
<1> QED BY <1>1, <1>2, <1>3, <1>4, <1>5, <1>6, <1>7, <1>8, <1>9 DEF GenerateNext

----------------------------------------------------------------------------
\* The mode does not change, so that nobody's work and objects do.
LEMMA ModeIsKept ==
  ASSUME [GenerateNext]_genVars
  PROVE  /\ state' = state
         /\ \A t : (Works(t)' <=> Works(t)) /\ Own(t)' = Own(t)
<1>1. state' = state
  BY DEF GenerateNext, genVars, Begin, SetCoordinates, SolveSystem, BindFunctions, ApplyToMesh,
         StartAdd, FinishAdd, PrintSimulation, WriteAverage
<1> QED BY <1>1 DEF Works, Own, Parallel

\* What a step that neither begins nor ends a simulation leaves.
LEMMA OwnKept ==
  ASSUME GenInv, [GenerateNext]_genVars, UNCHANGED <<todo, i>>,
         \A t \in Crew : (at'[t] # "loop" => at[t] # "loop") /\ (Holds(t)' => Holds(t))
  PROVE  OwnSimulations'
BY ModeIsKept DEF GenInv, OwnSimulations

LEMMA OwnNext ==
  ASSUME GenInv, [GenerateNext]_genVars
  PROVE  OwnSimulations'
<1> USE DEF GenTyped, At, Go
<1>0. GenTyped /\ OwnSimulations
  BY DEF GenInv
<1>1. ASSUME NEW t \in Crew, Begin(t) PROVE OwnSimulations'
  <2>1. PICK sim \in todo : todo' = todo \ {sim} /\ i' = [i EXCEPT ![t] = sim]
    BY <1>1 DEF Begin
  <2>2. at' = [at EXCEPT ![t] = "set"] /\ Works(t) /\ at[t] = "loop"
    BY <1>1 DEF Begin
  <2>3. sim \in Simulations /\ i'[t] = sim /\ \A u \in Crew : u # t => i'[u] = i[u] /\ at'[u] = at[u]
    BY <1>0, <2>1, <2>2
  <2>4. \A u \in Crew : u # t /\ at[u] # "loop" => i[u] \in Simulations \ todo' /\ i[u] # sim
    BY <1>0, <2>1 DEF OwnSimulations
  <2>5. \A u \in Crew : at'[u] # "loop" => Works(u)' /\ i'[u] \in Simulations \ todo'
    BY <1>0, <2>1, <2>2, <2>3, <2>4, ModeIsKept DEF OwnSimulations
  <2>6. \A u, x \in Crew : u # x /\ Holds(u)' /\ Holds(x)' => i'[u] # i'[x]
    BY <1>0, <2>3, <2>4 DEF OwnSimulations, Holds
  <2> QED BY <2>5, <2>6 DEF OwnSimulations
<1>2. ASSUME NEW t \in Crew,
             SetCoordinates(t) \/ SolveSystem(t) \/ BindFunctions(t) \/ ApplyToMesh(t)
               \/ StartAdd(t) \/ FinishAdd(t) \/ PrintSimulation(t)
      PROVE  OwnSimulations'
  <2>1. UNCHANGED <<todo, i>>
    BY <1>2 DEF SetCoordinates, SolveSystem, BindFunctions, ApplyToMesh, StartAdd, FinishAdd,
                PrintSimulation
  <2>2. PICK step : at' = [at EXCEPT ![t] = step] /\ (step = "print" => Holds(t)) /\ at[t] # "loop"
                      /\ (at[t] = "print" => step = "loop")
    BY <1>2 DEF SetCoordinates, SolveSystem, BindFunctions, ApplyToMesh, StartAdd, FinishAdd,
                PrintSimulation, Holds
  <2>3. \A u \in Crew : (at'[u] # "loop" => at[u] # "loop") /\ (Holds(u)' => Holds(u))
    BY <1>0, <2>2 DEF Holds
  <2> QED BY <2>1, <2>3, OwnKept
<1>3. CASE WriteAverage \/ UNCHANGED genVars
  <2>1. UNCHANGED <<todo, i, at>>
    BY <1>3 DEF WriteAverage, genVars
  <2> QED BY <2>1, OwnKept DEF Holds
<1> QED BY <1>1, <1>2, <1>3 DEF GenerateNext

----------------------------------------------------------------------------
\* A step of a thread does not touch the objects of another that works.
LEMMA OthersObjects ==
  ASSUME GenInv, [GenerateNext]_genVars, NEW t \in Crew, Moves(t), NEW u \in Crew, u # t
  PROVE  /\ at'[u] = at[u] /\ i'[u] = i[u] /\ solution'[u] = solution[u]
         /\ at[u] # "loop" => dipoles1'[Own(u)] = dipoles1[Own(u)] /\ mesh'[Own(u)] = mesh[Own(u)]
<1> USE DEF GenTyped, At, Go
<1>0. GenTyped /\ OwnSimulations /\ Works(t)
  BY DEF GenInv, Moves, Begin, SetCoordinates, SolveSystem, BindFunctions, ApplyToMesh, StartAdd,
         FinishAdd, PrintSimulation
<1>1. at'[u] = at[u] /\ i'[u] = i[u] /\ solution'[u] = solution[u]
  BY <1>0 DEF Moves, Begin, SetCoordinates, SolveSystem, BindFunctions, ApplyToMesh, StartAdd,
              FinishAdd, PrintSimulation
<1>2. ASSUME at[u] # "loop"
      PROVE  dipoles1'[Own(u)] = dipoles1[Own(u)] /\ mesh'[Own(u)] = mesh[Own(u)]
  <2>1. Own(t) # Own(u) /\ Own(t) \in Crew /\ Own(u) \in Crew
    BY <1>0, <1>2, OwnObjects DEF OwnSimulations
  <2> QED
    BY <1>0, <2>1 DEF Moves, Begin, SetCoordinates, SolveSystem, BindFunctions, ApplyToMesh,
                      StartAdd, FinishAdd, PrintSimulation
<1> QED BY <1>1, <1>2

LEMMA ObjectsNext ==
  ASSUME GenInv, [GenerateNext]_genVars
  PROVE  ObjectsAreOwn'
<1> USE DEF GenTyped, At, Go
<1>0. GenTyped /\ OwnSimulations /\ ObjectsAreOwn /\ SumOfDone
  BY DEF GenInv
<1>1. ASSUME NEW t \in Crew, Moves(t) PROVE ObjectsAreOwn'
  <2> DEFINE OwnOf(u) ==
        /\ at[u] \in {"solve", "bind", "apply", "add", "store", "print"}
             => dipoles1[Own(u)].system = i[u]
        /\ at[u] \in {"bind", "apply", "add", "store", "print"} => solution[u] = i[u]
        /\ at[u] = "apply" => dipoles1[Own(u)].xi = i[u] /\ dipoles1[Own(u)].solution = u
        /\ at[u] \in {"add", "store", "print"}
             => mesh[Own(u)].data_2 = Value(i[u], mesh[Own(u)].grid)
  <2>1. ASSUME NEW u \in Crew, u # t PROVE OwnOf(u)'
    <3>1. OwnOf(u) /\ Own(u)' = Own(u)
      BY <1>0, ModeIsKept DEF ObjectsAreOwn
    <3>2. /\ at'[u] = at[u] /\ i'[u] = i[u] /\ solution'[u] = solution[u]
          /\ at[u] # "loop" => dipoles1'[Own(u)] = dipoles1[Own(u)] /\ mesh'[Own(u)] = mesh[Own(u)]
      BY <1>1, <2>1, OthersObjects
    <3> QED BY <3>1, <3>2 DEF Value
  <2>2. OwnOf(t)'
    <3>0. OwnOf(t) /\ Own(t)' = Own(t) /\ Own(t) \in Crew
      BY <1>0, ModeIsKept, OwnInCrew DEF ObjectsAreOwn
    <3>1. CASE Begin(t)
      BY <1>0, <3>1 DEF Begin
    <3>2. CASE SetCoordinates(t)
      BY <1>0, <3>0, <3>2 DEF SetCoordinates
    <3>3. CASE SolveSystem(t)
      BY <1>0, <3>0, <3>3 DEF SolveSystem
    <3>4. CASE BindFunctions(t)
      BY <1>0, <3>0, <3>4 DEF BindFunctions
    <3>5. CASE ApplyToMesh(t)
      <4>1. dipoles1[Own(t)].solution = t /\ dipoles1[Own(t)].xi = i[t] /\ solution[t] = i[t]
            /\ dipoles1[Own(t)].system = i[t]
        BY <3>0, <3>5 DEF ApplyToMesh
      <4>2. at'[t] = "add" /\ UNCHANGED <<i, dipoles1, solution>>
        BY <1>0, <3>5 DEF ApplyToMesh
      <4>3. mesh' = [mesh EXCEPT ![Own(t)].data_2 = Value(i[t], mesh[Own(t)].grid)]
        BY <3>5, <4>1 DEF ApplyToMesh, Value
      <4>4. /\ mesh'[Own(t)].data_2 = Value(i[t], mesh[Own(t)].grid)
            /\ mesh'[Own(t)].grid = mesh[Own(t)].grid
        BY <1>0, <3>0, <4>3
      <4> QED BY <3>0, <4>1, <4>2, <4>4 DEF Value
    <3>6. CASE StartAdd(t)
      BY <1>0, <3>0, <3>6 DEF StartAdd, Value
    <3>7. CASE FinishAdd(t)
      BY <1>0, <3>0, <3>7 DEF FinishAdd, Value
    <3>8. CASE PrintSimulation(t)
      BY <1>0, <3>8 DEF PrintSimulation
    <3> QED BY <1>1, <3>1, <3>2, <3>3, <3>4, <3>5, <3>6, <3>7, <3>8 DEF Moves
  <2> QED BY <2>1, <2>2 DEF ObjectsAreOwn
<1>2. CASE WriteAverage \/ UNCHANGED genVars
  <2>1. UNCHANGED <<at, i, dipoles1, mesh, solution>>
    BY <1>2 DEF WriteAverage, genVars
  <2> QED BY <1>0, <2>1, ModeIsKept DEF ObjectsAreOwn, Value
<1> QED BY <1>1, <1>2 DEF GenerateNext, Moves

\* Nobody constructs or destroys a mesh.
LEMMA GridsAreKept ==
  ASSUME GenInv, [GenerateNext]_genVars
  PROVE  \A t \in Crew : mesh'[t].grid = mesh[t].grid
<1> USE DEF GenTyped
<1>0. GenTyped
  BY DEF GenInv
<1>1. ASSUME NEW t \in Crew, ApplyToMesh(t) PROVE \A u \in Crew : mesh'[u].grid = mesh[u].grid
  <2>1. PICK value : mesh' = [mesh EXCEPT ![Own(t)].data_2 = value]
    BY <1>1 DEF ApplyToMesh
  <2> QED BY <1>0, <2>1
<1>2. CASE UNCHANGED mesh
  BY <1>2
<1> QED
  BY <1>1, <1>2 DEF GenerateNext, genVars, Begin, SetCoordinates, SolveSystem, BindFunctions,
                    StartAdd, FinishAdd, PrintSimulation, WriteAverage

LEMMA MeshesNext ==
  ASSUME GenInv, [GenerateNext]_genVars
  PROVE  MeshesConstructed'
BY GridsAreKept, ModeIsKept DEF GenInv, MeshesConstructed

----------------------------------------------------------------------------
\* GenSteps before and after an addition, as the sum sees them.
LEMMA DoneKept ==
  ASSUME UNCHANGED <<todo, i>>, \A t \in Crew : Holds(t)' <=> Holds(t)
  PROVE  Done' = Done
BY DEF Done

LEMMA SumKept ==
  ASSUME GenInv, [GenerateNext]_genVars, Done' = Done, UNCHANGED <<result, seen, critical>>,
         \A t \in Crew : at'[t] = "store" <=> at[t] = "store"
  PROVE  SumOfDone'
<1>1. state' = state /\ SumOfDone
  BY ModeIsKept DEF GenInv
<1> QED BY <1>1 DEF SumOfDone

\* A simulation that is begun is not done, and none else is begun.
LEMMA DoneBegin ==
  ASSUME GenInv, NEW t \in Crew, Begin(t)
  PROVE  Done' = Done
<1> USE DEF GenTyped, At, Go
<1>0. GenTyped /\ OwnSimulations
  BY DEF GenInv
<1>1. PICK sim \in todo : todo' = todo \ {sim} /\ i' = [i EXCEPT ![t] = sim]
  BY DEF Begin
<1>2. at' = [at EXCEPT ![t] = "set"] /\ at[t] = "loop"
  BY DEF Begin
<1>3. /\ ~ Holds(t) /\ Holds(t)' /\ i'[t] = sim
      /\ \A u \in Crew : u # t => i'[u] = i[u] /\ (Holds(u)' <=> Holds(u))
  BY <1>0, <1>1, <1>2 DEF Holds
<1>4. \A u \in Crew : Holds(u) => i[u] # sim
  BY <1>0, <1>1 DEF OwnSimulations, Holds
<1> QED BY <1>1, <1>3, <1>4 DEF Done

\* What a thread adds is the value of its simulation, which was not done before.
LEMMA SumFinishAdd ==
  ASSUME GenInv, [GenerateNext]_genVars, NEW t \in Crew, FinishAdd(t)
  PROVE  SumOfDone'
<1> USE DEF GenTyped, At, Go
<1>0. GenTyped /\ OwnSimulations /\ ObjectsAreOwn /\ MeshesConstructed /\ SumOfDone /\ state' = state
  BY ModeIsKept DEF GenInv
<1>1. /\ at[t] = "store" /\ at' = [at EXCEPT ![t] = IF state = "printImpl" THEN "print" ELSE "loop"]
      /\ critical' = None
      /\ result' = seen[t] (+) SetToBag({mesh[Own(t)].data_2})
      /\ UNCHANGED <<todo, i, seen>>
  BY DEF FinishAdd
<1>2. Holds(t) /\ i[t] \in Simulations \ todo /\ i[t] \notin Done
  BY <1>0, <1>1 DEF Holds, OwnSimulations, Done
<1>3. \A u \in Crew : u # t => at'[u] = at[u] /\ at[u] # "store"
  BY <1>0, <1>1 DEF SumOfDone
<1>4. Done' = Done \union {i[t]}
  <2>1. ~ Holds(t)' /\ \A u \in Crew : u # t => (Holds(u)' <=> Holds(u))
    BY <1>0, <1>1, <1>3 DEF Holds
  <2>2. \A u \in Crew : u # t /\ Holds(u) => i[u] # i[t]
    BY <1>0, <1>2 DEF OwnSimulations
  <2> QED BY <1>1, <1>2, <2>1, <2>2 DEF Done
<1>5. ASSUME state # "openmp_old"
      PROVE  result' = SetToBag({Value(s, "constructed") : s \in Done'})
  <2>1. mesh[Own(t)].grid = "constructed"
    BY <1>0, <1>5, OwnInCrew DEF MeshesConstructed
  <2>2. mesh[Own(t)].data_2 = Value(i[t], "constructed")
    BY <1>0, <1>1, <2>1 DEF ObjectsAreOwn
  <2>3. seen[t] = SetToBag({Value(s, "constructed") : s \in Done})
    BY <1>0, <1>1, <1>5 DEF SumOfDone
  <2>4. result' = SetToBag({Value(s, "constructed") : s \in Done})
                    (+) SetToBag({Value(i[t], "constructed")})
    BY <1>1, <2>2, <2>3
  <2>5. result' = SetToBag({Value(s, "constructed") : s \in Done \union {i[t]}})
    BY <1>2, <2>4, OneMoreValue
  <2> QED BY <1>4, <2>5
<1>6. \A u \in Crew : (at'[u] = "store" <=> critical' = u) /\ at'[u] # "store"
  BY <1>0, <1>1, <1>3, NoneIsNoSimulation
<1> QED BY <1>0, <1>5, <1>6 DEF SumOfDone

LEMMA SumNext ==
  ASSUME GenInv, [GenerateNext]_genVars
  PROVE  SumOfDone'
<1> USE DEF GenTyped, At, Go
<1>0. GenTyped /\ SumOfDone /\ state' = state
  BY ModeIsKept DEF GenInv
<1>1. ASSUME NEW t \in Crew, Begin(t) PROVE SumOfDone'
  <2>1. UNCHANGED <<result, seen, critical>> /\ \A u \in Crew : at'[u] = "store" <=> at[u] = "store"
    BY <1>0, <1>1 DEF Begin
  <2> QED BY <1>1, <2>1, DoneBegin, SumKept
<1>2. ASSUME NEW t \in Crew,
             SetCoordinates(t) \/ SolveSystem(t) \/ BindFunctions(t) \/ ApplyToMesh(t)
               \/ PrintSimulation(t)
      PROVE  SumOfDone'
  <2>1. /\ UNCHANGED <<todo, i, result, seen, critical>>
        /\ \A u \in Crew : (at'[u] = "store" <=> at[u] = "store") /\ (Holds(u)' <=> Holds(u))
    BY <1>0, <1>2 DEF SetCoordinates, SolveSystem, BindFunctions, ApplyToMesh, PrintSimulation, Holds
  <2> QED BY <2>1, DoneKept, SumKept
<1>3. ASSUME NEW t \in Crew, StartAdd(t) PROVE SumOfDone'
  <2>1. /\ UNCHANGED <<todo, i, result>> /\ critical = None /\ critical' = t
        /\ at' = [at EXCEPT ![t] = "store"] /\ at[t] = "add"
        /\ seen' = [seen EXCEPT ![t] = result]
    BY <1>3 DEF StartAdd
  <2>2. \A u \in Crew : Holds(u)' <=> Holds(u)
    BY <1>0, <2>1 DEF Holds
  <2>3. Done' = Done
    BY <2>1, <2>2, DoneKept
  <2>4. \A u \in Crew : at[u] # "store"
    BY <1>0, <2>1, NoneIsNoSimulation DEF SumOfDone
  <2>5. \A u \in Crew : at'[u] = "store" <=> critical' = u
    BY <1>0, <2>1, <2>4
  <2>6. \A u \in Crew : at'[u] = "store" => seen'[u] = result'
    BY <1>0, <2>1, <2>4
  <2> QED BY <1>0, <2>1, <2>3, <2>5, <2>6 DEF SumOfDone
<1>4. ASSUME NEW t \in Crew, FinishAdd(t) PROVE SumOfDone'
  BY <1>4, SumFinishAdd
<1>5. CASE WriteAverage \/ UNCHANGED genVars
  <2>1. UNCHANGED <<todo, i, at, result, seen, critical>>
    BY <1>5 DEF WriteAverage, genVars
  <2> QED BY <2>1, DoneKept, SumKept DEF Holds
<1> QED BY <1>1, <1>2, <1>3, <1>4, <1>5 DEF GenerateNext

----------------------------------------------------------------------------
LEMMA WrittenNext ==
  ASSUME GenInv, [GenerateNext]_genVars
  PROVE  Written'
<1> USE DEF GenTyped, At, Go
<1>0. GenTyped /\ OwnSimulations /\ ObjectsAreOwn /\ MeshesConstructed /\ SumOfDone /\ Written
      /\ state' = state
  BY ModeIsKept DEF GenInv
<1>1. \A t \in Crew : at'[t] = "print" => state' = "printImpl"
  BY <1>0 DEF Written, GenerateNext, genVars, Begin, SetCoordinates, SolveSystem, BindFunctions,
              ApplyToMesh, StartAdd, FinishAdd, PrintSimulation, WriteAverage
<1>2. ASSUME NEW t \in Crew, PrintSimulation(t) PROVE SimulationsAveraged'
  <2>1. at[t] = "print" /\ state = "printImpl" /\ Works(t) /\ t = Main /\ Own(t) = t
        /\ i[t] \in Simulations
    BY <1>0, <1>2 DEF PrintSimulation, Written, OwnSimulations, Works, Own, Parallel
  <2>2. solution[t] = i[t] /\ mesh[t].data_2 = Value(i[t], "constructed")
    BY <1>0, <2>1 DEF ObjectsAreOwn, MeshesConstructed
  <2>3. files' = [n \in DOMAIN files \union {i[t]} |->
          IF n = i[t] THEN [coordinates |-> i[t], solution |-> i[t],
                            mesh |-> Value(i[t], "constructed")]
          ELSE files[n]]
    BY <1>2, <2>2 DEF PrintSimulation
  <2>4. i[t] # None
    BY <2>1, NoneIsNoSimulation
  <2>5. None \in DOMAIN files' => None \in DOMAIN files /\ files'[None] = files[None]
    BY <2>3, <2>4
  <2>6. ASSUME NEW sim \in DOMAIN files' \ {None}
        PROVE  files'[sim] = [coordinates |-> sim, solution |-> sim, mesh |-> Value(sim, "constructed")]
    BY <1>0, <2>3, <2>6 DEF Written, SimulationsAveraged
  <2>7. None \in DOMAIN files' /\ state' # "openmp_old" =>
          files'[None].sum = SetToBag({Value(sim, files'[None].grid) : sim \in Simulations})
    <3>1. None \in DOMAIN files /\ state # "openmp_old" =>
            files[None].sum = SetToBag({Value(sim, files[None].grid) : sim \in Simulations})
      BY <1>0 DEF Written, SimulationsAveraged
    <3> QED BY <1>0, <2>5, <3>1
  <2> QED BY <2>6, <2>7 DEF SimulationsAveraged
<1>3. ASSUME WriteAverage PROVE SimulationsAveraged'
  <2>1. /\ todo = {} /\ \A t \in Crew : Works(t) => at[t] = "loop"
        /\ files' = [n \in DOMAIN files \union {None} |->
             IF n = None THEN [grid |-> mesh[Main].grid, sum |-> result, over |-> nsym]
             ELSE files[n]]
    BY <1>3 DEF WriteAverage
  <2>2. Done = Simulations
    BY <1>0, <2>1 DEF OwnSimulations, Done, Holds
  <2>3. files'[None].sum = result /\ files'[None].grid = mesh[Main].grid
    BY <2>1
  <2>4. ASSUME state # "openmp_old"
        PROVE  files'[None].sum = SetToBag({Value(sim, files'[None].grid) : sim \in Simulations})
    <3>1. result = SetToBag({Value(sim, "constructed") : sim \in Done})
      BY <1>0, <2>4 DEF SumOfDone
    <3>2. mesh[Main].grid = "constructed"
      BY <1>0, <2>4 DEF MeshesConstructed, Crew
    <3> QED BY <2>2, <2>3, <3>1, <3>2
  <2>5. \A sim \in DOMAIN files' \ {None} : sim \in DOMAIN files \ {None} /\ files'[sim] = files[sim]
    BY <2>1
  <2> QED BY <1>0, <2>4, <2>5 DEF Written, SimulationsAveraged
<1>4. ASSUME UNCHANGED files PROVE SimulationsAveraged'
  BY <1>0, <1>4 DEF Written, SimulationsAveraged
<1>5. SimulationsAveraged'
  BY <1>2, <1>3, <1>4 DEF GenerateNext, genVars, Begin, SetCoordinates, SolveSystem, BindFunctions,
                          ApplyToMesh, StartAdd, FinishAdd
<1> QED BY <1>1, <1>5 DEF Written

----------------------------------------------------------------------------
LEMMA GenInvInit == GenerateInit => GenInv
<1> SUFFICES ASSUME GenerateInit PROVE GenInv
  OBVIOUS
<1>1. /\ \A t \in Crew : at[t] = "loop" /\ ~ Holds(t)
      /\ todo = Simulations /\ critical = None /\ result = EmptyBag /\ DOMAIN files = {}
  BY DEF GenerateInit, Holds
<1>2. Done = {}
  BY <1>1 DEF Done
<1>3. result = SetToBag({Value(s, "constructed") : s \in Done})
  BY <1>1, <1>2 DEF EmptyBag
<1>4. MeshesConstructed
  BY DEF GenerateInit, MeshesConstructed
<1>5. SumOfDone
  BY <1>1, <1>3, NoneIsNoSimulation DEF SumOfDone
<1> QED
  BY <1>1, <1>4, <1>5, TypedInit
  DEF GenInv, OwnSimulations, ObjectsAreOwn, Written, SimulationsAveraged

\* The loop's inductive invariant.
THEOREM GenerateInvariant == GenerateSpec => []GenInv
<1>1. GenInv /\ [GenerateNext]_genVars => GenInv'
  BY TypedNext, OwnNext, ObjectsNext, MeshesNext, SumNext, WrittenNext DEF GenInv
<1> QED BY <1>1, GenInvInit, PTL DEF GenerateSpec

\* coordGenerate's average holds each simulation once and with its own solution, for
\* every team and schedule; a simulation's file holds what belongs to it.
THEOREM EachSimulationOnce == GenerateSpec => []SimulationsAveraged
<1>1. GenInv => SimulationsAveraged
  BY DEF GenInv, Written
<1> QED BY <1>1, GenerateInvariant, PTL

----------------------------------------------------------------------------
(***************************************************************************)
(* Records.  A printer ends a record with a word and its line end (it is   *)
(* Closed), a parser reads exactly the words of its record, so that what   *)
(* it leaves is the line end and the records behind it.                    *)
(***************************************************************************)

\* What a stream may hold.
Streams == Seq(Int)

LEMMA TextFacts ==
  ASSUME NEW u \in Streams
  PROVE  /\ Len(u) \in Nat /\ DOMAIN u = 1 .. Len(u)
         /\ \A p \in 1 .. Len(u) : u[p] \in Int
         /\ u \o << >> = u /\ << >> \o u = u
         /\ << >> \in Streams /\ Len(<< >>) = 0
         /\ Len(u) = 0 => u = << >>
<1>1. Len(u) \in Nat /\ DOMAIN u = 1 .. Len(u) /\ \A p \in 1 .. Len(u) : u[p] \in Int
  BY LenProperties DEF Streams
<1>2. u \o << >> = u /\ << >> \o u = u
  BY ConcatEmptySeq DEF Streams
<1>3. << >> \in Streams /\ Len(<< >>) = 0 /\ (Len(u) = 0 => u = << >>)
  BY EmptySeq DEF Streams
<1> QED BY <1>1, <1>2, <1>3

LEMMA TextConcat ==
  ASSUME NEW u \in Streams, NEW v \in Streams
  PROVE  /\ u \o v \in Streams /\ Len(u \o v) = Len(u) + Len(v)
         /\ \A p \in 1 .. Len(u) : (u \o v)[p] = u[p]
         /\ \A p \in 1 .. Len(v) : (u \o v)[Len(u) + p] = v[p]
<1>1. /\ u \o v \in Streams /\ Len(u \o v) = Len(u) + Len(v)
      /\ \A p \in 1 .. (Len(u) + Len(v)) :
           (u \o v)[p] = IF p <= Len(u) THEN u[p] ELSE v[p - Len(u)]
  BY ConcatProperties DEF Streams
<1>2. Len(u) \in Nat /\ Len(v) \in Nat
  BY TextFacts
<1>3. ASSUME NEW p \in 1 .. Len(v) PROVE (u \o v)[Len(u) + p] = v[p]
  <2>1. Len(u) + p \in 1 .. (Len(u) + Len(v)) /\ ~ (Len(u) + p <= Len(u)) /\ Len(u) + p - Len(u) = p
    BY <1>2
  <2> QED BY <1>1, <2>1
<1>4. ASSUME NEW p \in 1 .. Len(u) PROVE (u \o v)[p] = u[p]
  <2>1. p \in 1 .. (Len(u) + Len(v)) /\ p <= Len(u)
    BY <1>2
  <2> QED BY <1>1, <2>1
<1> QED BY <1>1, <1>3, <1>4

\* Two texts with the same words at the same places.
LEMMA TextEqual ==
  ASSUME NEW u \in Streams, NEW v \in Streams, Len(u) = Len(v), \A p \in 1 .. Len(u) : u[p] = v[p]
  PROVE  u = v
BY SeqEqual DEF Streams

LEMMA TextAssociative == \A u, v, t \in Streams : (u \o v) \o t = u \o (v \o t)
<1> SUFFICES ASSUME NEW u \in Streams, NEW v \in Streams, NEW t \in Streams
             PROVE  (u \o v) \o t = u \o (v \o t)
  OBVIOUS
<1> DEFINE x == (u \o v) \o t
           y == u \o (v \o t)
<1>1. Len(u) \in Nat /\ Len(v) \in Nat /\ Len(t) \in Nat
  BY TextFacts
<1>2. /\ u \o v \in Streams /\ Len(u \o v) = Len(u) + Len(v)
      /\ v \o t \in Streams /\ Len(v \o t) = Len(v) + Len(t)
  BY TextConcat
<1>3. x \in Streams /\ y \in Streams /\ Len(x) = Len(y) /\ Len(x) = Len(u) + Len(v) + Len(t)
  BY <1>1, <1>2, TextConcat
<1>4. ASSUME NEW p \in 1 .. Len(x) PROVE x[p] = y[p]
  <2>1. CASE p <= Len(u)
    <3>1. p \in 1 .. Len(u) /\ p \in 1 .. Len(u \o v)
      BY <1>1, <1>2, <2>1
    <3>2. x[p] = (u \o v)[p] /\ (u \o v)[p] = u[p] /\ y[p] = u[p]
      BY <1>2, <3>1, TextConcat
    <3> QED BY <3>2
  <2>2. CASE Len(u) < p /\ p <= Len(u) + Len(v)
    <3> DEFINE q == p - Len(u)
    <3>1. q \in 1 .. Len(v) /\ q \in 1 .. Len(v \o t) /\ p = Len(u) + q /\ p \in 1 .. Len(u \o v)
      BY <1>1, <1>2, <2>2
    <3> HIDE DEF q
    <3>2. x[p] = (u \o v)[p] /\ (u \o v)[p] = v[q]
      BY <1>2, <3>1, TextConcat
    <3>3. y[p] = (v \o t)[q] /\ (v \o t)[q] = v[q]
      BY <1>2, <3>1, TextConcat
    <3> QED BY <3>2, <3>3
  <2>3. CASE Len(u) + Len(v) < p
    <3> DEFINE q == p - Len(u) - Len(v)
    <3>1. /\ q \in 1 .. Len(t) /\ Len(v) + q \in 1 .. Len(v \o t)
          /\ p = Len(u) + (Len(v) + q) /\ p = Len(u \o v) + q
      BY <1>1, <1>2, <1>3, <2>3
    <3> HIDE DEF q
    <3>2. x[p] = t[q]
      BY <1>2, <3>1, TextConcat
    <3>3. y[p] = (v \o t)[Len(v) + q] /\ (v \o t)[Len(v) + q] = t[q]
      BY <1>2, <3>1, TextConcat
    <3> QED BY <3>2, <3>3
  <2> QED BY <1>1, <1>3, <2>1, <2>2, <2>3
<1> HIDE DEF x, y
<1>5. x = y
  BY <1>3, <1>4, TextEqual
<1> QED BY <1>5 DEF x, y

LEMMA TextAppend ==
  ASSUME NEW u \in Streams, NEW w \in Int
  PROVE  /\ <<w>> \in Streams /\ Len(<<w>>) = 1 /\ <<w>>[1] = w
         /\ Append(u, w) = u \o <<w>> /\ Append(u, w) \in Streams
         /\ Len(Append(u, w)) = Len(u) + 1 /\ Append(u, w)[Len(u) + 1] = w
         /\ \A p \in 1 .. Len(u) : Append(u, w)[p] = u[p]
<1>1. <<w>> \in Streams /\ Len(<<w>>) = 1 /\ <<w>>[1] = w
  BY DEF Streams
<1>2. Append(u, w) = u \o <<w>>
  BY AppendIsConcat DEF Streams
<1>3. /\ Append(u, w) \in Streams /\ Len(Append(u, w)) = Len(u) + 1 /\ Append(u, w)[Len(u) + 1] = w
      /\ \A p \in 1 .. Len(u) : Append(u, w)[p] = u[p]
  BY AppendProperties DEF Streams
<1> QED BY <1>1, <1>2, <1>3

----------------------------------------------------------------------------
\* Concatenations.

\* g is what FlattenSeq(f) computes, piece by piece.
Flattening(g, f, n) ==
  /\ g \in [1 .. n -> Streams] /\ g[1] = f[1]
  /\ \A ix \in 2 .. n : g[ix] = g[ix - 1] \o f[ix]
FlatStep(g, f, ix) == IF ix = 1 THEN f[ix] ELSE g[ix - 1] \o f[ix]
Flat(f) == CHOOSE g : g = [ix \in 1 .. Len(f) |-> FlatStep(g, f, ix)]

LEMMA FlattenSeqIs ==
  ASSUME NEW f, Len(f) # 0 PROVE FlattenSeq(f) = Flat(f)[Len(f)]
BY DEF FlattenSeq, Flat, FlatStep

LEMMA FlatteningExists ==
  ASSUME NEW n \in Nat \ {0}, NEW f \in [1 .. n -> Streams]
  PROVE  \E g : Flattening(g, f, n)
<1> DEFINE G == {m \in Nat : m + 1 <= n => \E g : Flattening(g, f, m + 1)}
<1>1. 0 \in G
  <2> DEFINE g == [ix \in 1 .. 1 |-> f[1]]
  <2>1. f[1] \in Streams
    OBVIOUS
  <2>2. Flattening(g, f, 1)
    BY <2>1 DEF Flattening
  <2> HIDE DEF g
  <2> QED BY <2>2
<1>2. ASSUME NEW m \in Nat, m \in G PROVE m + 1 \in G
  <2> SUFFICES ASSUME m + 2 <= n PROVE \E g : Flattening(g, f, m + 2)
    OBVIOUS
  <2>1. PICK g : Flattening(g, f, m + 1)
    BY <1>2
  <2> DEFINE h == [ix \in 1 .. (m + 2) |-> IF ix = m + 2 THEN g[m + 1] \o f[ix] ELSE g[ix]]
  <2>2. g[m + 1] \in Streams /\ f[m + 2] \in Streams
    BY <2>1 DEF Flattening
  <2>3. g[m + 1] \o f[m + 2] \in Streams
    BY <2>2, TextConcat
  <2>4. h \in [1 .. (m + 2) -> Streams] /\ h[1] = f[1]
    BY <2>1, <2>3 DEF Flattening
  <2>5. ASSUME NEW ix \in 2 .. (m + 2) PROVE h[ix] = h[ix - 1] \o f[ix]
    <3>1. CASE ix = m + 2
      <4>1. ix - 1 = m + 1 /\ m + 1 \in 1 .. (m + 2) /\ m + 1 # m + 2 /\ m + 2 \in 1 .. (m + 2)
        BY <3>1
      <4>2. h[m + 1] = g[m + 1] /\ h[m + 2] = g[m + 1] \o f[m + 2]
        BY <4>1
      <4> QED BY <3>1, <4>1, <4>2
    <3>2. CASE ix # m + 2
      <4>1. h[ix] = g[ix] /\ h[ix - 1] = g[ix - 1] /\ ix \in 2 .. (m + 1)
        BY <3>2
      <4> QED BY <2>1, <4>1 DEF Flattening
    <3> QED BY <3>1, <3>2
  <2> HIDE DEF h
  <2> QED BY <2>4, <2>5 DEF Flattening
<1>3. n - 1 \in G
  <2> HIDE DEF G
  <2> QED BY <1>1, <1>2, NaturalInduction
<1> QED BY <1>3

LEMMA FlattenSeqUnfolds ==
  ASSUME NEW n \in Nat \ {0}, NEW f \in Seq(Streams), Len(f) = n
  PROVE  \E g : Flattening(g, f, n) /\ FlattenSeq(f) = g[n]
<1>1. f \in [1 .. n -> Streams]
  BY LenProperties
<1>2. PICK g : Flattening(g, f, n)
  BY <1>1, FlatteningExists
<1>3. g = [ix \in 1 .. Len(f) |-> FlatStep(g, f, ix)]
  <2>1. \A ix \in 1 .. n : g[ix] = FlatStep(g, f, ix)
    <3>1. \A ix \in 1 .. n : ix # 1 => ix \in 2 .. n
      OBVIOUS
    <3>2. g[1] = f[1] /\ \A ix \in 2 .. n : g[ix] = g[ix - 1] \o f[ix]
      BY <1>2 DEF Flattening
    <3> QED BY <3>1, <3>2, Zenon DEF FlatStep
  <2>2. g = [ix \in 1 .. n |-> g[ix]]
    BY <1>2 DEF Flattening
  <2> QED BY <2>1, <2>2
<1>4. Flat(f) = [ix \in 1 .. Len(f) |-> FlatStep(Flat(f), f, ix)]
  BY <1>3, Zenon DEF Flat
<1> DEFINE h == Flat(f)
<1>5. h[1] = f[1] /\ \A ix \in 2 .. n : h[ix] = h[ix - 1] \o f[ix]
  <2>1. \A ix \in 1 .. n : h[ix] = FlatStep(h, f, ix)
    BY <1>4
  <2> HIDE DEF h
  <2>2. 1 \in 1 .. n /\ \A ix \in 2 .. n : ix \in 1 .. n /\ ix # 1
    OBVIOUS
  <2> QED BY <2>1, <2>2, Zenon DEF FlatStep
<1>6. h = [ix \in 1 .. n |-> h[ix]]
  BY <1>4
<1> HIDE DEF h
<1>7. \A ix \in 1 .. n : h[ix] \in Streams
  <2> DEFINE G == {m \in Nat : m + 1 <= n => h[m + 1] \in Streams}
  <2>1. 0 \in G
    BY <1>1, <1>5
  <2>2. ASSUME NEW m \in Nat, m \in G PROVE m + 1 \in G
    <3> SUFFICES ASSUME m + 2 <= n PROVE h[m + 2] \in Streams
      OBVIOUS
    <3>1. h[m + 1] \in Streams /\ f[m + 2] \in Streams /\ m + 2 \in 2 .. n /\ (m + 2) - 1 = m + 1
      BY <1>1, <2>2
    <3>2. h[m + 2] = h[m + 1] \o f[m + 2]
      BY <1>5, <3>1
    <3> QED BY <3>1, <3>2, TextConcat
  <2>3. Nat \subseteq G
    <3> HIDE DEF G
    <3> QED BY <2>1, <2>2, NaturalInduction
  <2>4. ASSUME NEW ix \in 1 .. n PROVE h[ix] \in Streams
    <3>1. ix - 1 \in Nat /\ (ix - 1) + 1 = ix
      OBVIOUS
    <3> QED BY <2>3, <3>1
  <2> QED BY <2>4
<1>8. Flattening(h, f, n)
  BY <1>5, <1>6, <1>7 DEF Flattening
<1>9. FlattenSeq(f) = h[n]
  BY FlattenSeqIs DEF h
<1> QED BY <1>8, <1>9

LEMMA FlattenType ==
  ASSUME NEW f \in Seq(Streams) PROVE FlattenSeq(f) \in Streams
<1>1. Len(f) \in Nat
  BY LenProperties
<1>2. CASE Len(f) = 0
  <2>1. f = << >>
    BY <1>2, EmptySeq
  <2>2. FlattenSeq(f) = f
    BY <1>2 DEF FlattenSeq
  <2>3. << >> \in Streams
    BY DEF Streams
  <2> QED BY <2>1, <2>2, <2>3
<1>3. CASE Len(f) # 0
  <2>1. PICK g : Flattening(g, f, Len(f)) /\ FlattenSeq(f) = g[Len(f)]
    BY <1>1, <1>3, FlattenSeqUnfolds
  <2> QED BY <1>1, <1>3, <2>1 DEF Flattening
<1> QED BY <1>2, <1>3

LEMMA FlattenNothing == FlattenSeq(<< >>) = << >>
<1>1. Len(<< >>) = 0
  OBVIOUS
<1> QED BY <1>1 DEF FlattenSeq

LEMMA FlattenAppend ==
  ASSUME NEW f \in Seq(Streams), NEW e \in Streams
  PROVE  FlattenSeq(Append(f, e)) = FlattenSeq(f) \o e
<1> DEFINE n == Len(f)
           k == Append(f, e)
<1>1. /\ n \in Nat /\ k \in Seq(Streams) /\ Len(k) = n + 1 /\ k[n + 1] = e
      /\ \A ix \in 1 .. n : k[ix] = f[ix]
  BY LenProperties, AppendProperties
<1> HIDE DEF n, k
<1>2. PICK h : Flattening(h, k, n + 1) /\ FlattenSeq(k) = h[n + 1]
  BY <1>1, FlattenSeqUnfolds
<1>3. CASE n = 0
  <2>1. f = << >>
    BY <1>3, EmptySeq DEF n
  <2>2. FlattenSeq(k) = e
    BY <1>1, <1>2, <1>3 DEF Flattening
  <2>3. << >> \o e = e
    BY TextFacts
  <2> QED BY <2>1, <2>2, <2>3, FlattenNothing DEF k
<1>4. CASE n # 0
  <2>1. PICK g : Flattening(g, f, n) /\ FlattenSeq(f) = g[n]
    BY <1>1, <1>4, FlattenSeqUnfolds DEF n
  <2> DEFINE G == {m \in Nat : m + 1 <= n => h[m + 1] = g[m + 1]}
  <2>2. 0 \in G
    BY <1>1, <1>2, <2>1 DEF Flattening
  <2>3. ASSUME NEW m \in Nat, m \in G PROVE m + 1 \in G
    <3> SUFFICES ASSUME m + 2 <= n PROVE h[m + 2] = g[m + 2]
      OBVIOUS
    <3>1. /\ h[m + 1] = g[m + 1] /\ k[m + 2] = f[m + 2] /\ (m + 2) - 1 = m + 1
          /\ m + 2 \in 2 .. n /\ m + 2 \in 2 .. (n + 1)
      BY <1>1, <2>3
    <3>2. h[m + 2] = h[m + 1] \o k[m + 2] /\ g[m + 2] = g[m + 1] \o f[m + 2]
      BY <1>2, <2>1, <3>1 DEF Flattening
    <3> QED BY <3>1, <3>2
  <2>4. n - 1 \in G
    <3> HIDE DEF G
    <3> QED BY <1>1, <1>4, <2>2, <2>3, NaturalInduction
  <2>5. h[n] = g[n]
    BY <1>1, <1>4, <2>4
  <2>6. h[n + 1] = h[n] \o k[n + 1]
    <3>1. n + 1 \in 2 .. (n + 1) /\ (n + 1) - 1 = n
      BY <1>1, <1>4
    <3> QED BY <1>2, <3>1 DEF Flattening
  <2> QED BY <1>1, <1>2, <2>1, <2>5, <2>6 DEF k
<1> QED BY <1>3, <1>4

\* Induction over sequences, by their last element.
LEMMA SequenceInduction ==
  ASSUME NEW T, NEW G, << >> \in G, \A s \in Seq(T), e \in T : s \in G => Append(s, e) \in G
  PROVE  \A s \in Seq(T) : s \in G
<1> DEFINE H == {m \in Nat : \A s \in Seq(T) : Len(s) = m => s \in G}
<1>1. 0 \in H
  BY EmptySeq
<1>2. ASSUME NEW m \in Nat, m \in H PROVE m + 1 \in H
  <2> SUFFICES ASSUME NEW t \in Seq(T), Len(t) = m + 1 PROVE t \in G
    OBVIOUS
  <2>1. t # << >>
    BY EmptySeq
  <2>2. PICK s \in Seq(T), e \in T : t = Append(s, e)
    BY <2>1, SequenceEmptyOrAppend
  <2>3. Len(t) = Len(s) + 1 /\ Len(s) \in Nat
    BY <2>2, AppendProperties, LenProperties
  <2>4. s \in G
    BY <1>2, <2>3
  <2> QED BY <2>2, <2>4
<1>3. Nat \subseteq H
  <2> HIDE DEF H
  <2> QED BY <1>1, <1>2, NaturalInduction
<1>4. \A s \in Seq(T) : Len(s) \in Nat
  BY LenProperties
<1> QED BY <1>3, <1>4

LEMMA TextInduction ==
  ASSUME NEW G, << >> \in G, \A s \in Streams, w \in Int : s \in G => Append(s, w) \in G
  PROVE  \A s \in Streams : s \in G
BY SequenceInduction DEF Streams

\* k pieces of m words each.
Pieces(f, k, m) == f \in Seq(Streams) /\ Len(f) = k /\ \A ix \in 1 .. k : Len(f[ix]) = m

LEMMA PlaceInPieces ==
  ASSUME NEW k \in Nat, NEW m \in Nat, NEW ix \in 0 .. (k - 1), NEW j \in 1 .. m
  PROVE  ix * m + j \in 1 .. (k * m) /\ ix * m \in Nat /\ k * m \in Nat
<1>1. \A a, b \in Nat : a * b \in Nat
  BY Z3
<1>2. ix * m \in Nat /\ k * m \in Nat /\ (k - 1 - ix) * m \in Nat
  BY <1>1
<1>3. k * m = ix * m + m + (k - 1 - ix) * m
  BY Z3
<1> QED BY <1>2, <1>3

LEMMA FlattenPieces ==
  ASSUME NEW k \in Nat, NEW m \in Nat, NEW f, Pieces(f, k, m)
  PROVE  /\ FlattenSeq(f) \in Streams /\ Len(FlattenSeq(f)) = k * m
         /\ \A ix \in 0 .. (k - 1), j \in 1 .. m : FlattenSeq(f)[ix * m + j] = f[ix + 1][j]
<1> DEFINE Right(g, l) == /\ Len(FlattenSeq(g)) = l * m
                          /\ \A ix \in 0 .. (l - 1), j \in 1 .. m :
                               FlattenSeq(g)[ix * m + j] = g[ix + 1][j]
           G == {g \in Seq(Streams) : (\A ix \in 1 .. Len(g) : Len(g[ix]) = m) => Right(g, Len(g))}
<1>1. << >> \in G
  <2>1. << >> \in Seq(Streams) /\ Len(<< >>) = 0 /\ FlattenSeq(<< >>) = << >> /\ 0 * m = 0
    BY EmptySeq, FlattenNothing
  <2>2. Right(<< >>, 0)
    BY <2>1
  <2> QED BY <2>1, <2>2
<1>2. ASSUME NEW g \in Seq(Streams), NEW e \in Streams, g \in G PROVE Append(g, e) \in G
  <2> DEFINE h == Append(g, e)
             l == Len(g)
  <2>1. /\ h \in Seq(Streams) /\ Len(h) = l + 1 /\ h[l + 1] = e /\ l \in Nat
        /\ \A ix \in 1 .. l : h[ix] = g[ix]
    BY AppendProperties, LenProperties
  <2>2. FlattenSeq(h) = FlattenSeq(g) \o e
    BY FlattenAppend
  <2> HIDE DEF h, l
  <2> SUFFICES ASSUME \A ix \in 1 .. (l + 1) : Len(h[ix]) = m PROVE Right(h, l + 1)
    BY <2>1 DEF h
  <2>3. Len(e) = m
    BY <2>1
  <2>4. \A ix \in 1 .. l : Len(g[ix]) = m
    BY <2>1
  <2>5. Right(g, l)
    BY <1>2, <2>4 DEF l
  <2>6. FlattenSeq(g) \in Streams
    BY FlattenType
  <2>7. Len(FlattenSeq(h)) = (l + 1) * m
    <3>1. (l + 1) * m = l * m + m
      BY <2>1, Z3
    <3> QED BY <2>2, <2>3, <2>5, <2>6, <3>1, TextConcat
  <2>8. ASSUME NEW ix \in 0 .. l, NEW j \in 1 .. m PROVE FlattenSeq(h)[ix * m + j] = h[ix + 1][j]
    <3>1. CASE ix = l
      <4>1. FlattenSeq(h)[Len(FlattenSeq(g)) + j] = e[j]
        BY <2>2, <2>3, <2>6, TextConcat
      <4> QED BY <2>1, <2>5, <3>1, <4>1
    <3>2. CASE ix # l
      <4>1. ix \in 0 .. (l - 1) /\ ix + 1 \in 1 .. l
        BY <2>1, <3>2
      <4>2. ix * m + j \in 1 .. (l * m)
        BY <2>1, <4>1, PlaceInPieces
      <4>3. FlattenSeq(h)[ix * m + j] = FlattenSeq(g)[ix * m + j]
        BY <2>2, <2>5, <2>6, <4>2, TextConcat
      <4>4. FlattenSeq(g)[ix * m + j] = g[ix + 1][j]
        BY <2>5, <4>1
      <4> QED BY <2>1, <4>1, <4>3, <4>4
    <3> QED BY <3>1, <3>2
  <2>9. (l + 1) - 1 = l
    BY <2>1
  <2> QED BY <2>7, <2>8, <2>9
<1>3. \A g \in Seq(Streams) : g \in G
  <2> HIDE DEF G
  <2> QED BY <1>1, <1>2, SequenceInduction
<1>4. f \in Seq(Streams) /\ Len(f) = k /\ \A ix \in 1 .. k : Len(f[ix]) = m
  BY DEF Pieces
<1>5. Right(f, k)
  BY <1>3, <1>4
<1> QED BY <1>4, <1>5, FlattenType

----------------------------------------------------------------------------
\* What >> finds.

Bare(s) == [p \in DOMAIN s |-> IF s[p] = NewLine THEN << >> ELSE <<s[p]>>]

LEMMA BareType ==
  ASSUME NEW s \in Streams PROVE Bare(s) \in Seq(Streams) /\ Len(Bare(s)) = Len(s)
<1>1. Len(s) \in Nat /\ DOMAIN s = 1 .. Len(s) /\ << >> \in Streams
  BY TextFacts
<1>2. \A p \in 1 .. Len(s) : <<s[p]>> \in Streams
  BY TextFacts, TextAppend
<1>3. Bare(s) \in [1 .. Len(s) -> Streams]
  BY <1>1, <1>2 DEF Bare
<1> QED BY <1>1, <1>3

LEMMA WordsType ==
  ASSUME NEW s \in Streams PROVE Words(s) \in Streams /\ Len(Words(s)) \in Nat
<1>1. Words(s) = FlattenSeq(Bare(s))
  BY DEF Words, Bare
<1>2. Words(s) \in Streams
  BY <1>1, BareType, FlattenType
<1> QED BY <1>2, TextFacts

LEMMA WordsOfNothing == Words(<< >>) = << >>
<1>1. << >> \in Streams
  BY DEF Streams
<1>2. Len(Bare(<< >>)) = 0 /\ Bare(<< >>) \in Seq(Streams)
  BY <1>1, BareType
<1>3. Bare(<< >>) = << >>
  BY <1>2, EmptySeq
<1>4. Words(<< >>) = FlattenSeq(Bare(<< >>))
  BY DEF Words, Bare
<1> QED BY <1>3, <1>4, FlattenNothing

LEMMA WordsOfAppend ==
  ASSUME NEW s \in Streams, NEW w \in Int
  PROVE  Words(Append(s, w)) = IF w = NewLine THEN Words(s) ELSE Append(Words(s), w)
<1> DEFINE t == Append(s, w)
           e == IF w = NewLine THEN << >> ELSE <<w>>
<1>1. /\ t \in Streams /\ Len(t) = Len(s) + 1 /\ t[Len(s) + 1] = w /\ Len(s) \in Nat
      /\ \A p \in 1 .. Len(s) : t[p] = s[p]
      /\ <<w>> \in Streams /\ << >> \in Streams /\ DOMAIN t = 1 .. Len(t) /\ DOMAIN s = 1 .. Len(s)
  BY TextAppend, TextFacts
<1>2. Words(t) = FlattenSeq(Bare(t)) /\ Words(s) = FlattenSeq(Bare(s))
  BY DEF Words, Bare
<1>3. Bare(t) = Append(Bare(s), e)
  <2> DEFINE b == Append(Bare(s), e)
  <2>1. e \in Streams
    BY <1>1
  <2>2. /\ Bare(s) \in Seq(Streams) /\ Len(Bare(s)) = Len(s)
        /\ Bare(t) \in Seq(Streams) /\ Len(Bare(t)) = Len(t)
    BY <1>1, BareType
  <2> HIDE DEF e
  <2>3. /\ b \in Seq(Streams) /\ Len(b) = Len(s) + 1 /\ b[Len(s) + 1] = e
        /\ \A p \in 1 .. Len(s) : b[p] = Bare(s)[p]
    BY <2>1, <2>2, AppendProperties
  <2> HIDE DEF t, b
  <2>4. ASSUME NEW p \in 1 .. Len(t) PROVE Bare(t)[p] = b[p]
    <3>1. CASE p = Len(s) + 1
      <4>1. Bare(t)[p] = e
        BY <1>1, <3>1 DEF Bare, e
      <4> QED BY <2>3, <3>1, <4>1
    <3>2. CASE p # Len(s) + 1
      <4>1. p \in 1 .. Len(s)
        BY <1>1, <3>2
      <4>2. Bare(t)[p] = Bare(s)[p]
        BY <1>1, <4>1 DEF Bare
      <4> QED BY <2>3, <4>1, <4>2
    <3> QED BY <3>1, <3>2
  <2>5. Bare(t) = b
    BY <1>1, <2>2, <2>3, <2>4, SeqEqual
  <2> QED BY <2>5 DEF b
<1>4. e \in Streams
  BY <1>1
<1> HIDE DEF e, t
<1>5. Words(t) = Words(s) \o e
  BY <1>2, <1>3, <1>4, BareType, FlattenAppend
<1>6. Words(s) \in Streams
  BY WordsType
<1>7. Words(s) \o << >> = Words(s) /\ Words(s) \o <<w>> = Append(Words(s), w)
  BY <1>6, TextFacts, TextAppend
<1> QED BY <1>5, <1>7 DEF e, t

LEMMA WordsOfConcat ==
  ASSUME NEW u \in Streams, NEW v \in Streams
  PROVE  Words(u \o v) = Words(u) \o Words(v)
<1> DEFINE G == {t \in Streams : Words(u \o t) = Words(u) \o Words(t)}
<1>1. << >> \in G
  <2>1. u \o << >> = u /\ << >> \in Streams
    BY TextFacts
  <2>2. Words(u) \o << >> = Words(u)
    BY WordsType, TextFacts
  <2> QED BY <2>1, <2>2, WordsOfNothing
<1>2. ASSUME NEW s \in Streams, NEW w \in Int, s \in G PROVE Append(s, w) \in G
  <2> DEFINE a == Words(u)
             b == Words(s)
  <2>1. /\ Append(s, w) \in Streams /\ Append(s, w) = s \o <<w>> /\ <<w>> \in Streams
        /\ u \o s \in Streams
    BY TextAppend, TextConcat
  <2>2. u \o Append(s, w) = Append(u \o s, w)
    <3>1. Append(u \o s, w) = (u \o s) \o <<w>>
      BY <2>1, TextAppend
    <3> QED BY <2>1, <3>1, TextAssociative
  <2>3. a \in Streams /\ b \in Streams /\ Words(u \o s) = a \o b
    BY <1>2, WordsType
  <2> HIDE DEF a, b
  <2>4. a \o Append(b, w) = Append(a \o b, w)
    <3>1. Append(b, w) = b \o <<w>> /\ Append(a \o b, w) = (a \o b) \o <<w>>
      BY <2>3, TextAppend, TextConcat
    <3> DEFINE c == <<w>>
    <3>2. c \in Streams
      BY <2>1
    <3> HIDE DEF c
    <3>3. (a \o b) \o c = a \o (b \o c)
      BY <2>3, <3>2, TextAssociative
    <3> QED BY <3>1, <3>3 DEF c
  <2>5. Words(Append(u \o s, w)) = a \o Words(Append(s, w))
    BY <2>1, <2>3, <2>4, WordsOfAppend DEF b
  <2> QED BY <2>1, <2>2, <2>5 DEF a
<1>3. \A t \in Streams : t \in G
  <2> HIDE DEF G
  <2> QED BY <1>1, <1>2, TextInduction
<1> QED BY <1>3

\* The words of a concatenation are those of its parts.
LEMMA WordsOfFlattening ==
  ASSUME NEW f \in Seq(Streams)
  PROVE  Words(FlattenSeq(f)) = FlattenSeq([ix \in 1 .. Len(f) |-> Words(f[ix])])
<1> DEFINE Found(g) == [ix \in 1 .. Len(g) |-> Words(g[ix])]
           G == {g \in Seq(Streams) : /\ Found(g) \in Seq(Streams) /\ Len(Found(g)) = Len(g)
                                      /\ Words(FlattenSeq(g)) = FlattenSeq(Found(g))}
<1>1. \A g \in Seq(Streams) : Found(g) \in Seq(Streams) /\ Len(Found(g)) = Len(g)
  <2> SUFFICES ASSUME NEW g \in Seq(Streams) PROVE Found(g) \in Seq(Streams) /\ Len(Found(g)) = Len(g)
    OBVIOUS
  <2>1. Len(g) \in Nat /\ \A ix \in 1 .. Len(g) : g[ix] \in Streams
    BY LenProperties
  <2>2. \A ix \in 1 .. Len(g) : Words(g[ix]) \in Streams
    BY <2>1, WordsType
  <2>3. Found(g) \in [1 .. Len(g) -> Streams]
    BY <2>2
  <2> HIDE DEF Found
  <2> QED BY <2>1, <2>3
<1>2. << >> \in G
  <2>1. << >> \in Seq(Streams) /\ Len(<< >>) = 0
    BY EmptySeq
  <2>2. Found(<< >>) = << >>
    <3> HIDE DEF Found
    <3> QED BY <1>1, <2>1, EmptySeq
  <2> HIDE DEF Found
  <2> QED BY <2>1, <2>2, FlattenNothing, WordsOfNothing
<1>3. ASSUME NEW g \in Seq(Streams), NEW e \in Streams, g \in G PROVE Append(g, e) \in G
  <2> DEFINE h == Append(g, e)
             l == Len(g)
             w == Words(e)
  <2>1. /\ h \in Seq(Streams) /\ Len(h) = l + 1 /\ h[l + 1] = e /\ l \in Nat
        /\ \A ix \in 1 .. l : h[ix] = g[ix]
    BY AppendProperties, LenProperties
  <2>2. FlattenSeq(h) = FlattenSeq(g) \o e /\ FlattenSeq(g) \in Streams
    BY FlattenAppend, FlattenType
  <2>3. w \in Streams
    BY WordsType
  <2> HIDE DEF h, l, w
  <2>4. /\ \A ix \in 1 .. l : Found(h)[ix] = Found(g)[ix]
        /\ Found(h)[l + 1] = w
    BY <2>1 DEF w, l
  <2> HIDE DEF Found
  <2>5. Found(h) = Append(Found(g), w)
    <3>1. /\ Append(Found(g), w) \in Seq(Streams) /\ Len(Append(Found(g), w)) = l + 1
          /\ Append(Found(g), w)[l + 1] = w
          /\ \A ix \in 1 .. l : Append(Found(g), w)[ix] = Found(g)[ix]
      BY <1>1, <2>3, AppendProperties DEF l
    <3>2. Found(h) \in Seq(Streams) /\ Len(Found(h)) = l + 1
      BY <1>1, <2>1
    <3>3. \A ix \in 1 .. (l + 1) : ix \in 1 .. l \/ ix = l + 1
      BY <2>1
    <3>4. \A ix \in 1 .. (l + 1) : Found(h)[ix] = Append(Found(g), w)[ix]
      BY <2>4, <3>1, <3>3
    <3> QED BY <3>1, <3>2, <3>4, SeqEqual
  <2>6. FlattenSeq(Found(h)) = FlattenSeq(Found(g)) \o w
    BY <1>1, <2>3, <2>5, FlattenAppend
  <2>7. Words(FlattenSeq(h)) = Words(FlattenSeq(g)) \o w
    BY <2>2, WordsOfConcat DEF w
  <2>8. h \in G
    BY <1>1, <1>3, <2>1, <2>6, <2>7
  <2> QED BY <2>8 DEF h
<1>4. \A g \in Seq(Streams) : g \in G
  <2> HIDE DEF G
  <2> QED BY <1>2, <1>3, SequenceInduction
<1> QED BY <1>4

\* The number of words among the first p entries.
Seen(s, p) == Len(Words(SubSeq(s, 1, p)))

LEMMA SeenSteps ==
  ASSUME NEW s \in Streams
  PROVE  /\ Seen(s, 0) = 0
         /\ \A p \in 0 .. Len(s) : Seen(s, p) \in Nat /\ SubSeq(s, 1, p) \in Streams
         /\ \A p \in 1 .. Len(s) :
              Seen(s, p) = Seen(s, p - 1) + (IF s[p] = NewLine THEN 0 ELSE 1)
<1>1. Len(s) \in Nat /\ \A p \in 1 .. Len(s) : s[p] \in Int
  BY TextFacts
<1>2. \A p \in 0 .. Len(s) : /\ SubSeq(s, 1, p) \in Streams /\ Len(SubSeq(s, 1, p)) = p
                             /\ \A q \in 1 .. p : SubSeq(s, 1, p)[q] = s[q]
  <2> SUFFICES ASSUME NEW p \in 0 .. Len(s)
               PROVE  /\ SubSeq(s, 1, p) \in Streams /\ Len(SubSeq(s, 1, p)) = p
                      /\ \A q \in 1 .. p : SubSeq(s, 1, p)[q] = s[q]
    OBVIOUS
  <2>1. p \in Int /\ 1 \in Int /\ (\A q \in 1 .. p : s[q] \in Int) /\ p - 1 + 1 = p
    BY <1>1
  <2>2. /\ SubSeq(s, 1, p) \in Seq(Int) /\ Len(SubSeq(s, 1, p)) = IF 1 <= p THEN p - 1 + 1 ELSE 0
        /\ \A q \in 1 .. (p - 1 + 1) : SubSeq(s, 1, p)[q] = s[1 + q - 1]
    BY <2>1, SubSeqProperties
  <2> QED BY <1>1, <2>1, <2>2 DEF Streams
<1>3. Seen(s, 0) = 0
  <2>1. SubSeq(s, 1, 0) = << >>
    BY <1>1, <1>2, TextFacts
  <2>2. Seen(s, 0) = Len(<< >>)
    BY <2>1, WordsOfNothing DEF Seen
  <2> QED BY <2>2
<1>4. \A p \in 0 .. Len(s) : Seen(s, p) \in Nat
  BY <1>2, WordsType DEF Seen
<1>5. ASSUME NEW p \in 1 .. Len(s)
      PROVE  Seen(s, p) = Seen(s, p - 1) + (IF s[p] = NewLine THEN 0 ELSE 1)
  <2> DEFINE a == SubSeq(s, 1, p - 1)
             b == SubSeq(s, 1, p)
  <2>1. p - 1 \in 0 .. Len(s) /\ p \in 0 .. Len(s) /\ s[p] \in Int
    BY <1>1
  <2>2. /\ a \in Streams /\ Len(a) = p - 1 /\ \A q \in 1 .. (p - 1) : a[q] = s[q]
        /\ b \in Streams /\ Len(b) = p /\ \A q \in 1 .. p : b[q] = s[q]
    BY <1>2, <2>1
  <2> HIDE DEF a, b
  <2>3. b = Append(a, s[p])
    <3> DEFINE w == s[p]
    <3>0. w \in Int
      BY <2>1
    <3> HIDE DEF w
    <3>1. /\ Append(a, w) \in Streams /\ Len(Append(a, w)) = p /\ Append(a, w)[p] = w
          /\ \A q \in 1 .. (p - 1) : Append(a, w)[q] = s[q]
      <4>1. /\ Append(a, w) \in Streams /\ Len(Append(a, w)) = Len(a) + 1
            /\ Append(a, w)[Len(a) + 1] = w
            /\ \A q \in 1 .. Len(a) : Append(a, w)[q] = a[q]
        BY <2>2, <3>0, TextAppend
      <4>2. Len(a) + 1 = p
        BY <2>2
      <4> QED BY <2>2, <4>1, <4>2
    <3>2. \A q \in 1 .. p : q = p \/ q \in 1 .. (p - 1)
      OBVIOUS
    <3>3. \A q \in 1 .. p : b[q] = Append(a, w)[q]
      BY <2>2, <3>1, <3>2 DEF w
    <3>4. b = Append(a, w)
      BY <2>2, <3>1, <3>3, TextEqual
    <3> QED BY <3>4 DEF w
  <2>4. Words(b) = IF s[p] = NewLine THEN Words(a) ELSE Append(Words(a), s[p])
    BY <2>1, <2>2, <2>3, WordsOfAppend
  <2>5. Words(a) \in Streams
    BY <2>2, WordsType
  <2>6. Len(Append(Words(a), s[p])) = Len(Words(a)) + 1
    BY <2>1, <2>5, TextAppend
  <2>7. Len(Words(a)) \in Nat
    BY <2>5, TextFacts
  <2>8. Seen(s, p) = Len(Words(b)) /\ Seen(s, p - 1) = Len(Words(a))
    BY DEF Seen, a, b
  <2> QED BY <2>4, <2>6, <2>7, <2>8
<1> QED BY <1>2, <1>3, <1>4, <1>5

LEMMA SeenGrows ==
  ASSUME NEW s \in Streams, NEW q \in 1 .. Len(s), s[q] # NewLine, NEW p \in 0 .. (q - 1)
  PROVE  Seen(s, p) < Seen(s, q)
<1> DEFINE G == {m \in Nat : p + m <= Len(s) => Seen(s, p) <= Seen(s, p + m)}
<1>1. Len(s) \in Nat /\ p \in 0 .. Len(s)
  BY TextFacts
<1>2. 0 \in G
  BY <1>1, SeenSteps
<1>3. ASSUME NEW m \in Nat, m \in G PROVE m + 1 \in G
  <2> SUFFICES ASSUME p + (m + 1) <= Len(s) PROVE Seen(s, p) <= Seen(s, p + (m + 1))
    OBVIOUS
  <2>1. Seen(s, p) <= Seen(s, p + m) /\ p + (m + 1) \in 1 .. Len(s) /\ p + (m + 1) - 1 = p + m
        /\ p + m \in 0 .. Len(s)
    BY <1>1, <1>3
  <2>2. Seen(s, p + (m + 1)) = Seen(s, p + m) + (IF s[p + (m + 1)] = NewLine THEN 0 ELSE 1)
    BY <2>1, SeenSteps
  <2>3. Seen(s, p + m) \in Nat /\ Seen(s, p) \in Nat
    BY <1>1, <2>1, SeenSteps
  <2> QED BY <2>1, <2>2, <2>3
<1>4. q - 1 - p \in G
  <2> HIDE DEF G
  <2> QED BY <1>2, <1>3, NaturalInduction
<1>5. Seen(s, p) <= Seen(s, q - 1)
  BY <1>1, <1>4
<1>6. Seen(s, q) = Seen(s, q - 1) + 1
  BY SeenSteps
<1>7. Seen(s, p) \in Nat /\ Seen(s, q - 1) \in Nat
  BY <1>1, SeenSteps
<1> QED BY <1>5, <1>6, <1>7

LEMMA StartOfConcat ==
  ASSUME NEW u \in Streams, NEW t \in Streams, Len(u) > 0
  PROVE  SubSeq(u \o t, 1, Len(u)) = u
<1>1. u \in Seq(Int) /\ t \in Seq(Int) /\ Len(u) \in Nat
  BY TextFacts DEF Streams
<1>2. 1 \in 1 .. Len(u) /\ Len(u) \in 1 .. Len(u)
  BY <1>1
<1>3. SubSeq(u \o t, 1, Len(u)) = SubSeq(u, 1, Len(u))
  BY <1>1, <1>2, SubSeqOfConcat1
<1>4. SubSeq(u, 1, Len(u)) = u
  BY <1>1, SubSeqFull
<1> QED BY <1>3, <1>4

LEMMA RestOfConcat ==
  ASSUME NEW u \in Streams, NEW t \in Streams
  PROVE  SubSeq(u \o t, 1 + Len(u), Len(u \o t)) = t
<1> DEFINE s == u \o t
           n == Len(u)
           r == SubSeq(s, 1 + n, Len(s))
<1>1. /\ s \in Streams /\ Len(s) = n + Len(t) /\ n \in Nat /\ Len(t) \in Nat
      /\ \A ix \in 1 .. Len(t) : s[n + ix] = t[ix]
  BY TextFacts, TextConcat
<1> HIDE DEF s, n
<1>2. 1 + n \in Int /\ Len(s) \in Int /\ (\A ix \in (1 + n) .. Len(s) : s[ix] \in Int)
  BY <1>1, TextFacts
<1>3. /\ r \in Seq(Int) /\ Len(r) = IF 1 + n <= Len(s) THEN Len(s) - (1 + n) + 1 ELSE 0
      /\ \A ix \in 1 .. (Len(s) - (1 + n) + 1) : r[ix] = s[(1 + n) + ix - 1]
  BY <1>2, SubSeqProperties
<1> HIDE DEF r
<1>4. r \in Streams /\ Len(r) = Len(t)
  BY <1>1, <1>3 DEF Streams
<1>5. \A ix \in 1 .. Len(t) : r[ix] = t[ix]
  <2> SUFFICES ASSUME NEW ix \in 1 .. Len(t) PROVE r[ix] = t[ix]
    OBVIOUS
  <2>1. ix \in 1 .. (Len(s) - (1 + n) + 1) /\ (1 + n) + ix - 1 = n + ix
    BY <1>1
  <2>2. r[ix] = s[n + ix]
    BY <1>3, <2>1
  <2> QED BY <1>1, <2>2
<1>6. r = t
  BY <1>4, <1>5, TextEqual
<1> QED BY <1>6 DEF r, s, n

\* A text that ends in a word is consumed by reading as many words as it has.
EndsInWord(u) == u \in Streams /\ Len(u) > 0 /\ u[Len(u)] # NewLine

LEMMA AfterItsWords ==
  ASSUME NEW u, EndsInWord(u), NEW t \in Streams
  PROVE  AfterWords(u \o t, Len(Words(u))) = t
<1> DEFINE s == u \o t
           n == Len(u)
           Good(p) == Len(Words(SubSeq(s, 1, p))) = Len(Words(u)) /\ (p > 0 => s[p] # NewLine)
<1>1. /\ u \in Streams /\ n \in Nat \ {0} /\ s \in Streams /\ Len(s) = n + Len(t) /\ Len(t) \in Nat
      /\ (\A p \in 1 .. n : s[p] = u[p]) /\ (\A p \in 1 .. Len(t) : s[n + p] = t[p])
      /\ s[n] # NewLine
  <2>1. u \in Streams /\ Len(u) > 0 /\ u[Len(u)] # NewLine
    BY DEF EndsInWord
  <2>2. Len(u) \in Nat /\ Len(t) \in Nat
    BY <2>1, TextFacts
  <2>3. /\ s \in Streams /\ Len(s) = n + Len(t)
        /\ (\A p \in 1 .. n : s[p] = u[p]) /\ (\A p \in 1 .. Len(t) : s[n + p] = t[p])
    BY <2>1, TextConcat
  <2>4. n \in 1 .. n
    BY <2>1, <2>2
  <2> HIDE DEF s
  <2> QED BY <2>1, <2>2, <2>3, <2>4
<1> HIDE DEF s, n
<1>2. SubSeq(s, 1, n) = u
  BY <1>1, StartOfConcat DEF s, n
<1>3. n \in 0 .. Len(s) /\ Good(n)
  <2>1. n \in 0 .. Len(s)
    BY <1>1
  <2>2. Len(Words(SubSeq(s, 1, n))) = Len(Words(u))
    BY <1>2
  <2> QED BY <1>1, <2>1, <2>2
<1>4. ASSUME NEW p \in 0 .. Len(s), Good(p) PROVE p = n
  <2>1. Seen(s, p) = Seen(s, n)
    BY <1>2, <1>4 DEF Seen
  <2>2. Seen(s, n) \in Nat
    BY <1>1, <1>3, SeenSteps
  <2>3. CASE p < n
    <3>1. p \in 0 .. (n - 1) /\ n \in 1 .. Len(s)
      BY <1>1, <2>3
    <3>2. Seen(s, p) < Seen(s, n)
      BY <1>1, <3>1, SeenGrows
    <3> QED BY <2>1, <2>2, <3>2
  <2>4. CASE p > n
    <3>1. n \in 0 .. (p - 1) /\ p \in 1 .. Len(s) /\ s[p] # NewLine
      BY <1>1, <1>4, <2>4
    <3>2. Seen(s, n) < Seen(s, p)
      BY <1>1, <3>1, SeenGrows
    <3> QED BY <2>1, <2>2, <3>2
  <2> QED BY <1>1, <2>3, <2>4
<1>5. (CHOOSE p \in 0 .. Len(s) : Good(p)) = n
  <2> HIDE DEF Good
  <2> QED BY <1>3, <1>4
<1>6. AfterWords(s, Len(Words(u))) = SubSeq(s, 1 + n, Len(s))
  BY <1>5 DEF AfterWords
<1>7. SubSeq(s, 1 + n, Len(s)) = t
  BY <1>1, RestOfConcat DEF s, n
<1> QED BY <1>6, <1>7 DEF s

\* Lines and what is left of them.
Unbroken(u) == u \in Streams /\ \A p \in 1 .. Len(u) : u[p] # NewLine

LEMMA LineFacts ==
  ASSUME NEW u \in Streams
  PROVE  /\ Line(u) \in Streams /\ Line(u) = u \o <<NewLine>> /\ <<NewLine>> \in Streams
         /\ Words(Line(u)) = Words(u)
<1>1. NewLine \in Int
  BY DEF NewLine
<1>2. /\ <<NewLine>> \in Streams /\ Append(u, NewLine) = u \o <<NewLine>>
      /\ Append(u, NewLine) \in Streams
  BY <1>1, TextAppend
<1>3. Words(Append(u, NewLine)) = Words(u)
  BY <1>1, WordsOfAppend
<1> QED BY <1>2, <1>3 DEF Line

LEMMA PlainWords ==
  ASSUME NEW u, Unbroken(u)
  PROVE  Words(u) = u
<1> DEFINE G == {s \in Streams : (\A p \in 1 .. Len(s) : s[p] # NewLine) => Words(s) = s}
<1>1. << >> \in G
  BY WordsOfNothing DEF Streams
<1>2. ASSUME NEW s \in Streams, NEW w \in Int, s \in G PROVE Append(s, w) \in G
  <2>1. /\ Append(s, w) \in Streams /\ Len(Append(s, w)) = Len(s) + 1 /\ Append(s, w)[Len(s) + 1] = w
        /\ (\A p \in 1 .. Len(s) : Append(s, w)[p] = s[p]) /\ Len(s) \in Nat
    BY TextAppend, TextFacts
  <2> DEFINE t == Append(s, w)
  <2> HIDE DEF t
  <2> SUFFICES ASSUME \A p \in 1 .. Len(t) : t[p] # NewLine PROVE Words(t) = t
    BY <2>1 DEF t
  <2>2. w # NewLine
    BY <2>1 DEF t
  <2>3. \A p \in 1 .. Len(s) : s[p] # NewLine
    BY <2>1 DEF t
  <2>4. Words(s) = s
    BY <1>2, <2>3
  <2> QED BY <2>2, <2>4, WordsOfAppend DEF t
<1>3. \A s \in Streams : s \in G
  <2> HIDE DEF G
  <2> QED BY <1>1, <1>2, TextInduction
<1> QED BY <1>3 DEF Unbroken

LEMMA AfterItsLine ==
  ASSUME NEW u, Unbroken(u), NEW t \in Streams
  PROVE  AfterLine(Line(u) \o t) = t
<1> DEFINE l == Line(u)
           s == l \o t
           n == Len(l)
           Good(p) == s[p] = NewLine /\ \A q \in 1 .. (p - 1) : s[q] # NewLine
<1>1. u \in Streams /\ NewLine \in Int /\ \A p \in 1 .. Len(u) : u[p] # NewLine
  BY DEF Unbroken, NewLine
<1>2. /\ l \in Streams /\ n = Len(u) + 1 /\ l[n] = NewLine /\ (\A p \in 1 .. Len(u) : l[p] = u[p])
      /\ Len(u) \in Nat /\ Len(t) \in Nat
  <2>1. Len(u) \in Nat /\ Len(t) \in Nat
    BY <1>1, TextFacts
  <2>2. /\ l \in Streams /\ Len(l) = Len(u) + 1 /\ l[Len(u) + 1] = NewLine
        /\ (\A p \in 1 .. Len(u) : l[p] = u[p])
    BY <1>1, TextAppend DEF Line
  <2> HIDE DEF l
  <2> QED BY <2>1, <2>2
<1> HIDE DEF l
<1>3. /\ s \in Streams /\ Len(s) = n + Len(t) /\ (\A p \in 1 .. n : s[p] = l[p])
  BY <1>2, TextConcat
<1>4. DOMAIN s = 1 .. Len(s)
  BY <1>3, TextFacts
<1> HIDE DEF s, n
<1>5. n \in DOMAIN s /\ Good(n)
  BY <1>1, <1>2, <1>3, <1>4
<1>6. ASSUME NEW p \in DOMAIN s, Good(p) PROVE p = n
  <2>1. CASE p < n
    <3>1. p \in 1 .. Len(u) /\ p \in 1 .. n
      BY <1>2, <1>3, <1>4, <2>1
    <3> QED BY <1>1, <1>2, <1>3, <1>6, <3>1
  <2>2. CASE p > n
    <3>1. n \in 1 .. (p - 1)
      BY <1>2, <1>3, <1>4, <2>2
    <3> QED BY <1>5, <1>6, <3>1
  <2> QED BY <1>2, <1>3, <1>4, <2>1, <2>2
<1>7. (CHOOSE p \in DOMAIN s : Good(p)) = n
  <2> HIDE DEF Good
  <2> QED BY <1>5, <1>6
<1>8. AfterLine(s) = SubSeq(s, 1 + n, Len(s))
  BY <1>7 DEF AfterLine
<1>9. SubSeq(s, 1 + n, Len(s)) = t
  BY <1>2, RestOfConcat DEF s, n
<1> QED BY <1>8, <1>9 DEF s, l

\* A text that ends in a word and its line end.
Closed(u) == \E v : EndsInWord(v) /\ u = v \o <<NewLine>>

LEMMA ClosedText ==
  ASSUME NEW u, Closed(u) PROVE u \in Streams
<1>1. PICK v : EndsInWord(v) /\ u = v \o <<NewLine>>
  BY DEF Closed
<1> QED BY <1>1, LineFacts, TextConcat DEF EndsInWord

LEMMA LineClosed ==
  ASSUME NEW u, Unbroken(u), Len(u) > 0 PROVE Closed(Line(u))
<1>1. u \in Streams /\ Len(u) \in Nat
  BY TextFacts DEF Unbroken
<1>2. EndsInWord(u)
  BY <1>1 DEF Unbroken, EndsInWord
<1> QED BY <1>1, <1>2, LineFacts DEF Closed

LEMMA ClosedConcat ==
  ASSUME NEW u \in Streams, NEW v, Closed(v) PROVE Closed(u \o v)
<1> DEFINE nl == <<NewLine>>
<1>0. nl \in Streams
  BY LineFacts
<1>1. PICK w : EndsInWord(w) /\ v = w \o nl
  BY DEF Closed
<1>2. w \in Streams /\ Len(w) \in Nat /\ Len(u) \in Nat /\ Len(w) > 0 /\ w[Len(w)] # NewLine
  BY <1>1, TextFacts DEF EndsInWord
<1>3. u \o w \in Streams /\ Len(u \o w) = Len(u) + Len(w) /\ (u \o w)[Len(u) + Len(w)] = w[Len(w)]
  <2>1. Len(w) \in 1 .. Len(w)
    BY <1>2
  <2> QED BY <1>2, <2>1, TextConcat
<1>4. EndsInWord(u \o w)
  BY <1>2, <1>3 DEF EndsInWord
<1> HIDE DEF nl
<1>5. (u \o w) \o nl = u \o (w \o nl)
  BY <1>0, <1>2, TextAssociative
<1> QED BY <1>1, <1>4, <1>5 DEF Closed, nl

LEMMA ClosedFlatten ==
  ASSUME NEW k \in Nat \ {0}, NEW f \in [1 .. k -> Streams], \A ix \in 1 .. k : Closed(f[ix])
  PROVE  Closed(FlattenSeq(f))
<1>1. f \in Seq(Streams) /\ Len(f) = k
  OBVIOUS
<1>2. f # << >>
  BY <1>1
<1>3. PICK g \in Seq(Streams), e \in Streams : f = Append(g, e)
  BY <1>1, <1>2, SequenceEmptyOrAppend
<1>4. Len(f) = Len(g) + 1 /\ f[Len(g) + 1] = e /\ Len(g) \in Nat
  BY <1>3, AppendProperties, LenProperties
<1>5. Closed(e)
  BY <1>1, <1>4
<1>6. FlattenSeq(f) = FlattenSeq(g) \o e /\ FlattenSeq(g) \in Streams
  BY <1>3, FlattenAppend, FlattenType
<1> QED BY <1>5, <1>6, ClosedConcat

\* Nothing but line ends.
Blank(u) == u \in Streams /\ Words(u) = << >>

LEMMA BlankTexts == Blank(<< >>) /\ Blank(<<NewLine>>)
<1>1. << >> \in Streams
  BY DEF Streams
<1>2. Words(Line(<< >>)) = << >> /\ <<NewLine>> \in Streams /\ Line(<< >>) = << >> \o <<NewLine>>
  BY <1>1, LineFacts, WordsOfNothing
<1>3. << >> \o <<NewLine>> = <<NewLine>>
  BY <1>2, TextFacts
<1> QED BY <1>1, <1>2, <1>3, WordsOfNothing DEF Blank

\* What is found of a part of a text and what is left behind it.
ReadsPart(s, lead, u, t) ==
  Blank(lead) /\ Closed(u) /\ t \in Streams /\ s = lead \o (u \o t)

LEMMA ReadPart ==
  ASSUME NEW s, NEW lead, NEW u, NEW t, ReadsPart(s, lead, u, t)
  PROVE  /\ AfterWords(s, Len(Words(u))) = <<NewLine>> \o t
         /\ \A ix \in 1 .. Len(Words(u)) : Words(s)[ix] = Words(u)[ix]
         /\ SubSeq(Words(s), 1, Len(Words(u))) = Words(u)
         /\ s \in Streams /\ Len(Words(u)) \in Nat
<1> DEFINE nl == <<NewLine>>
<1>0. nl \in Streams
  BY BlankTexts DEF Blank
<1>1. lead \in Streams /\ Words(lead) = << >> /\ t \in Streams
  BY DEF ReadsPart, Blank
<1>2. PICK v : EndsInWord(v) /\ u = v \o nl
  BY DEF ReadsPart, Closed
<1>3. v \in Streams /\ u \in Streams
  BY <1>2, ClosedText DEF EndsInWord, ReadsPart
<1>4. Words(u) = Words(v)
  BY <1>2, <1>3, LineFacts
<1> HIDE DEF nl
<1> DEFINE w == lead \o v
           r == nl \o t
<1>5. EndsInWord(w) /\ w \in Streams /\ r \in Streams
  <2>1. /\ lead \o v \in Streams /\ Len(lead \o v) = Len(lead) + Len(v)
        /\ Len(lead) \in Nat /\ Len(v) \in Nat
    BY <1>1, <1>3, TextConcat, TextFacts
  <2>2. Len(v) > 0 /\ v[Len(v)] # NewLine
    BY <1>2 DEF EndsInWord
  <2>3. (lead \o v)[Len(lead) + Len(v)] = v[Len(v)]
    <3>1. Len(v) \in 1 .. Len(v)
      BY <2>1, <2>2
    <3> QED BY <1>1, <1>3, <3>1, TextConcat
  <2>4. nl \o t \in Streams
    BY <1>0, <1>1, TextConcat
  <2> QED BY <2>1, <2>2, <2>3, <2>4 DEF EndsInWord
<1>6. s = w \o r
  <2>1. u \o t = v \o r
    BY <1>0, <1>1, <1>2, <1>3, TextAssociative
  <2>2. w \o r = lead \o (v \o r)
    <3> HIDE DEF r
    <3> QED BY <1>1, <1>3, <1>5, TextAssociative
  <2> QED BY <2>1, <2>2 DEF ReadsPart
<1>7. Words(w) = Words(u)
  <2>1. Words(w) = << >> \o Words(v)
    BY <1>1, <1>3, WordsOfConcat
  <2>2. << >> \o Words(v) = Words(v)
    BY <1>3, WordsType, TextFacts
  <2> QED BY <1>4, <2>1, <2>2
<1> HIDE DEF w, r
<1>8. AfterWords(s, Len(Words(u))) = r
  BY <1>5, <1>6, <1>7, AfterItsWords
<1>9. Words(s) = Words(w) \o Words(r) /\ Words(w) \in Streams /\ Words(r) \in Streams
  BY <1>5, <1>6, WordsOfConcat, WordsType
<1>10. \A ix \in 1 .. Len(Words(w)) : Words(s)[ix] = Words(w)[ix]
  BY <1>9, TextConcat
<1>11. s \in Streams
  BY <1>5, <1>6, TextConcat
<1>12. Len(Words(w)) \in Nat
  BY <1>9, TextFacts
<1>13. Len(Words(w)) > 0
  <2>1. Len(w) \in 1 .. Len(w) /\ w[Len(w)] \in Int /\ w # << >>
    BY <1>5, TextFacts DEF EndsInWord
  <2>2. PICK x \in Streams, e \in Int : w = Append(x, e)
    BY <1>5, <2>1, SequenceEmptyOrAppend DEF Streams
  <2>3. e # NewLine
    BY <1>5, <2>2, TextAppend DEF EndsInWord
  <2>4. Words(w) = Append(Words(x), e) /\ Words(x) \in Streams
    BY <2>2, <2>3, WordsOfAppend, WordsType
  <2> QED BY <2>4, TextAppend, TextFacts
<1>14. SubSeq(Words(s), 1, Len(Words(w))) = Words(w)
  BY <1>9, <1>13, StartOfConcat
<1> QED BY <1>7, <1>8, <1>10, <1>11, <1>12, <1>14 DEF r, nl

\* k closed pieces of m words each.
Table(f, k, m) ==
  f \in [1 .. k -> Streams] /\ \A ix \in 1 .. k : Closed(f[ix]) /\ Len(Words(f[ix])) = m

LEMMA TableWords ==
  ASSUME NEW k \in Nat \ {0}, NEW m \in Nat, NEW f, Table(f, k, m)
  PROVE  /\ Closed(FlattenSeq(f)) /\ Len(Words(FlattenSeq(f))) = k * m
         /\ \A ix \in 0 .. (k - 1), j \in 1 .. m :
              Words(FlattenSeq(f))[ix * m + j] = Words(f[ix + 1])[j]
<1> DEFINE g == [ix \in 1 .. k |-> Words(f[ix])]
<1>1. f \in [1 .. k -> Streams] /\ \A ix \in 1 .. k : Closed(f[ix]) /\ Len(Words(f[ix])) = m
  BY DEF Table
<1>2. f \in Seq(Streams) /\ Len(f) = k
  BY <1>1
<1>3. Closed(FlattenSeq(f))
  BY <1>1, ClosedFlatten
<1>4. Words(FlattenSeq(f)) = FlattenSeq(g)
  BY <1>2, WordsOfFlattening
<1>5. Pieces(g, k, m)
  <2>1. \A ix \in 1 .. k : Words(f[ix]) \in Streams
    BY <1>1, WordsType
  <2>2. g \in [1 .. k -> Streams]
    BY <2>1
  <2>3. \A ix \in 1 .. k : Len(g[ix]) = m
    BY <1>1
  <2> HIDE DEF g
  <2>4. g \in Seq(Streams) /\ Len(g) = k
    BY <2>2
  <2> QED BY <2>3, <2>4 DEF Pieces
<1>6. \A ix \in 0 .. (k - 1) : g[ix + 1] = Words(f[ix + 1])
  OBVIOUS
<1> HIDE DEF g
<1>7. /\ Len(FlattenSeq(g)) = k * m
      /\ \A ix \in 0 .. (k - 1), j \in 1 .. m : FlattenSeq(g)[ix * m + j] = g[ix + 1][j]
  BY <1>5, FlattenPieces
<1> QED BY <1>3, <1>4, <1>6, <1>7

----------------------------------------------------------------------------
\* Numbers on a line.

LEMMA NatLine ==
  ASSUME NEW b \in Seq(Nat), Len(b) > 0
  PROVE  /\ Unbroken(b) /\ b \in Streams /\ Line(b) \in Streams
         /\ Closed(Line(b)) /\ Words(Line(b)) = b
<1>1. Unbroken(b)
  <2>1. b \in Seq(Int) /\ \A p \in 1 .. Len(b) : b[p] \in Nat
    OBVIOUS
  <2>2. \A x \in Nat : x # NewLine
    BY DEF NewLine
  <2> QED BY <2>1, <2>2 DEF Unbroken, Streams
<1>2. b \in Streams
  BY <1>1 DEF Unbroken
<1> QED BY <1>1, <1>2, LineFacts, LineClosed, PlainWords

LEMMA FlattenSingles ==
  ASSUME NEW k \in Nat, NEW b \in [1 .. k -> Int], NEW f, f \in [1 .. k -> Streams],
         \A ix \in 1 .. k : f[ix] = <<b[ix]>>
  PROVE  FlattenSeq(f) = b
<1>1. Pieces(f, k, 1)
  <2>1. f \in Seq(Streams) /\ Len(f) = k
    OBVIOUS
  <2>2. \A ix \in 1 .. k : Len(f[ix]) = 1
    <3>1. \A x \in Int : Len(<<x>>) = 1
      OBVIOUS
    <3> QED BY <3>1
  <2> QED BY <2>1, <2>2 DEF Pieces
<1>2. /\ FlattenSeq(f) \in Streams /\ Len(FlattenSeq(f)) = k * 1
      /\ \A ix \in 0 .. (k - 1), j \in 1 .. 1 : FlattenSeq(f)[ix * 1 + j] = f[ix + 1][j]
  <2>1. 1 \in Nat
    OBVIOUS
  <2> QED BY <1>1, <2>1, FlattenPieces
<1>3. b \in Streams /\ Len(b) = k
  BY DEF Streams
<1>4. ASSUME NEW p \in 1 .. k PROVE FlattenSeq(f)[p] = b[p]
  <2>1. p - 1 \in 0 .. (k - 1) /\ 1 \in 1 .. 1 /\ (p - 1) * 1 + 1 = p /\ (p - 1) + 1 = p
    OBVIOUS
  <2>2. FlattenSeq(f)[p] = f[p][1]
    BY <1>2, <2>1
  <2> QED BY <2>2
<1>5. k * 1 = k
  OBVIOUS
<1> QED BY <1>2, <1>3, <1>4, <1>5, TextEqual

\* k numbers, one after the other.
Singles(k, b) == [ix \in 1 .. k |-> <<b[ix - 1]>>]

LEMMA EachSingle ==
  ASSUME NEW k \in Nat, NEW b, b \in [Upto(k) -> Nat]
  PROVE  /\ FlattenSeq(Singles(k, b)) \in Seq(Nat) /\ Len(FlattenSeq(Singles(k, b))) = k
         /\ \A ix \in Upto(k) : FlattenSeq(Singles(k, b))[ix + 1] = b[ix]
<1> DEFINE f == [ix \in 1 .. k |-> <<b[ix - 1]>>]
           c == [ix \in 1 .. k |-> b[ix - 1]]
<1>1. \A ix \in 1 .. k : b[ix - 1] \in Nat
  BY DEF Upto
<1>2. c \in [1 .. k -> Nat] /\ c \in [1 .. k -> Int]
  BY <1>1
<1>3. \A ix \in 1 .. k : <<b[ix - 1]>> \in Streams
  BY <1>1, TextAppend DEF Streams
<1>4. f \in [1 .. k -> Streams] /\ \A ix \in 1 .. k : f[ix] = <<c[ix]>>
  BY <1>3
<1>5. \A ix \in Upto(k) : c[ix + 1] = b[ix]
  BY DEF Upto
<1>6. c \in Seq(Nat) /\ Len(c) = k
  BY <1>2
<1> HIDE DEF f, c
<1>7. FlattenSeq(f) = c
  BY <1>2, <1>4, FlattenSingles
<1> QED BY <1>5, <1>6, <1>7 DEF f, Singles

LEMMA RowIs ==
  ASSUME NEW k \in Nat, NEW a, a \in [Upto(k) -> Nat]
  PROVE  /\ Cardinality(DOMAIN a) = k
         /\ Row(a) \in Seq(Nat) /\ Len(Row(a)) = k /\ \A ix \in Upto(k) : Row(a)[ix + 1] = a[ix]
<1>1. Cardinality(DOMAIN a) = k
  <2>1. DOMAIN a = 0 .. (k - 1)
    BY DEF Upto
  <2>2. Cardinality(0 .. (k - 1)) = IF 0 > k - 1 THEN 0 ELSE k - 1 - 0 + 1
    BY FS_Interval
  <2> QED BY <2>1, <2>2
<1>2. Row(a) = FlattenSeq(Singles(k, a))
  BY <1>1 DEF Row, Each, Singles
<1> QED BY <1>1, <1>2, EachSingle

----------------------------------------------------------------------------
\* What a parser makes of a header, and of a text that has none.
HasHeader(s, lead, h, hd, v, t) ==
  /\ Blank(lead) /\ Closed(hd) /\ Closed(v) /\ t \in Streams
  /\ h = hd \/ h = << >>
  /\ s = lead \o ((h \o v) \o t)

LEMMA ReadHeader ==
  ASSUME NEW s, NEW lead, NEW h, NEW hd, NEW v, NEW t, HasHeader(s, lead, h, hd, v, t)
  PROVE  /\ Closed(h \o v) /\ s \in Streams
         /\ h = << >> => s = lead \o (v \o t)
         /\ h = hd => /\ AfterWords(s, Len(Words(hd))) = <<NewLine>> \o (v \o t)
                      /\ \A ix \in 1 .. Len(Words(hd)) : Words(s)[ix] = Words(hd)[ix]
                      /\ SubSeq(Words(s), 1, Len(Words(hd))) = Words(hd)
<1> USE DEF HasHeader
<1>1. hd \in Streams /\ v \in Streams /\ << >> \in Streams /\ h \in Streams /\ lead \in Streams
  BY ClosedText, TextFacts DEF Blank
<1>2. v \o t \in Streams /\ h \o v \in Streams
  BY <1>1, TextConcat
<1>9. (h \o v) \o t = h \o (v \o t)
  BY <1>1, TextAssociative
<1>3. (h \o v) \o t \in Streams
  BY <1>2, TextConcat
<1>4. s \in Streams
  BY <1>1, <1>3, TextConcat
<1>5. Closed(h \o v)
  BY <1>1, ClosedConcat
<1>6. h = << >> => s = lead \o (v \o t)
  <2>1. << >> \o v = v
    BY <1>1, TextFacts
  <2> QED BY <2>1
<1>7. ASSUME h = hd
      PROVE  /\ AfterWords(s, Len(Words(hd))) = <<NewLine>> \o (v \o t)
             /\ \A ix \in 1 .. Len(Words(hd)) : Words(s)[ix] = Words(hd)[ix]
             /\ SubSeq(Words(s), 1, Len(Words(hd))) = Words(hd)
  <2> DEFINE w == v \o t
  <2>1. ReadsPart(s, lead, hd, w)
    BY <1>2, <1>9, <1>7 DEF ReadsPart
  <2> HIDE DEF w
  <2>2. /\ AfterWords(s, Len(Words(hd))) = <<NewLine>> \o w
        /\ \A ix \in 1 .. Len(Words(hd)) : Words(s)[ix] = Words(hd)[ix]
        /\ SubSeq(Words(s), 1, Len(Words(hd))) = Words(hd)
    BY <2>1, ReadPart
  <2> QED BY <2>2 DEF w
<1> QED BY <1>4, <1>5, <1>6, <1>7

\* Solutions and coordinates for programs.
\* ParseOneDim after OneDimSerialize, with the size in the text or as an option.
LEMMA OneDimComesBack ==
  ASSUME NEW k \in Nat \ {0}, NEW r, r.value \in [Upto(k) -> Nat],
         NEW lead, Blank(lead), NEW t \in Streams, NEW u, u = OneDimSerialize(r)
  PROVE  /\ Closed(u)
         /\ ParseOneDim(lead \o (u \o t), r) = [value |-> r.value, rest |-> <<NewLine>> \o t]
<1> DEFINE a == r.value
           hd == Line(<<k>>)
           yes == "size" \in r.header
           h == IF yes THEN hd ELSE << >>
           l == Line(Row(a))
           s == lead \o (u \o t)
           s1 == IF yes THEN AfterWords(s, 1) ELSE s
<1>1. /\ Cardinality(DOMAIN a) = k
      /\ Row(a) \in Seq(Nat) /\ Len(Row(a)) = k /\ \A ix \in Upto(k) : Row(a)[ix + 1] = a[ix]
  <2> HIDE DEF a
  <2> QED BY RowIs DEF a
<1>2. Closed(l) /\ Words(l) = Row(a) /\ l \in Streams
  BY <1>1, NatLine
<1>3. Closed(hd) /\ Words(hd) = <<k>> /\ hd \in Streams
  <2>1. <<k>> \in Seq(Nat) /\ Len(<<k>>) > 0
    OBVIOUS
  <2> QED BY <2>1, NatLine
<1>4. u = h \o l
  BY <1>1 DEF OneDimSerialize
<1> HIDE DEF a, hd, l
<1>5. HasHeader(s, lead, h, hd, l, t)
  BY <1>2, <1>3, <1>4 DEF HasHeader
<1> HIDE DEF s
<1>6. /\ Closed(u)
      /\ yes => Words(s)[1] = k /\ AfterWords(s, 1) = <<NewLine>> \o (l \o t)
      /\ ~ yes => s = lead \o (l \o t)
  <2>1. Len(Words(hd)) = 1 /\ Words(hd)[1] = k /\ 1 \in 1 .. 1
    BY <1>3
  <2>2. (yes => h = hd) /\ (~ yes => h = << >>)
    OBVIOUS
  <2> HIDE DEF h, yes
  <2>3. /\ Closed(h \o l)
        /\ h = << >> => s = lead \o (l \o t)
        /\ h = hd => /\ AfterWords(s, Len(Words(hd))) = <<NewLine>> \o (l \o t)
                     /\ \A ix \in 1 .. Len(Words(hd)) : Words(s)[ix] = Words(hd)[ix]
    BY <1>5, ReadHeader
  <2> QED BY <1>4, <2>1, <2>2, <2>3
<1>7. PICK b : Blank(b) /\ s1 = b \o (l \o t)
  BY <1>6, BlankTexts
<1> HIDE DEF h, s1, yes
<1>8. ReadsPart(s1, b, l, t)
  BY <1>2, <1>7 DEF ReadsPart
<1>9. AfterWords(s1, Len(Words(l))) = <<NewLine>> \o t
      /\ \A ix \in 1 .. Len(Words(l)) : Words(s1)[ix] = Words(l)[ix]
  BY <1>8, ReadPart
<1>11. AfterWords(s1, k) = <<NewLine>> \o t /\ \A ix \in 1 .. k : Words(s1)[ix] = Row(a)[ix]
  BY <1>1, <1>2, <1>9
<1>12. (IF yes THEN Words(s)[1] ELSE Cardinality(DOMAIN a)) = k
  BY <1>1, <1>6
<1>13. [ix \in Upto(k) |-> Words(s1)[ix + 1]] = a
  <2>1. \A ix \in Upto(k) : Words(s1)[ix + 1] = a[ix]
    BY <1>1, <1>11 DEF Upto
  <2>2. a \in [Upto(k) -> Nat]
    BY DEF a
  <2> QED BY <2>1, <2>2
<1> DEFINE n == IF yes THEN Words(s)[1] ELSE Cardinality(DOMAIN a)
<1>14. ParseOneDim(s, r) =
         [value |-> [ix \in Upto(n) |-> Words(s1)[ix + 1]], rest |-> AfterWords(s1, n)]
  BY DEF ParseOneDim, s1, a, yes
<1> HIDE DEF n
<1>16. n = k
  BY <1>12 DEF n
<1>15. ParseOneDim(s, r) = [value |-> a, rest |-> <<NewLine>> \o t]
  BY <1>11, <1>13, <1>14, <1>16
<1> QED BY <1>6, <1>15 DEF s, a

\* The place of an entry in rows of m.
LEMMA RowAndColumn ==
  ASSUME NEW k \in Nat, NEW m \in Nat \ {0}, NEW x \in Upto(k * m)
  PROVE  /\ x \div m \in Upto(k) /\ x % m \in Upto(m) /\ x = (x \div m) * m + (x % m)
         /\ x \in Nat
<1>1. \A a, b \in Nat : a * b \in Nat
  BY Z3
<1>2. x \in Nat /\ x < k * m
  BY <1>1 DEF Upto
<1>3. x \div m \in Nat /\ x % m \in 0 .. (m - 1) /\ x = m * (x \div m) + (x % m)
  BY <1>2
<1>4. (x \div m) * m = m * (x \div m)
  BY <1>3, Z3
<1>5. x \div m < k
  <2>1. SUFFICES ASSUME x \div m >= k PROVE FALSE
    BY <1>3
  <2>2. (x \div m) * m >= k * m
    BY <1>3, <2>1, Z3
  <2> QED BY <1>2, <1>3, <1>4, <2>2, <1>1
<1> QED BY <1>2, <1>3, <1>4, <1>5 DEF Upto

LEMMA TableEntries ==
  ASSUME NEW k \in Nat \ {0}, NEW m \in Nat \ {0}, NEW f, Table(f, k, m), NEW d,
         \A ix \in Upto(k), j \in Upto(m) : Words(f[ix + 1])[j + 1] = d[ix * m + j]
  PROVE  \A x \in Upto(k * m) : Words(FlattenSeq(f))[x + 1] = d[x]
<1> SUFFICES ASSUME NEW x \in Upto(k * m) PROVE Words(FlattenSeq(f))[x + 1] = d[x]
  OBVIOUS
<1> DEFINE ix == x \div m
           j == x % m
<1>1. ix \in Upto(k) /\ j \in Upto(m) /\ x = ix * m + j /\ x \in Nat
  BY RowAndColumn
<1>2. ix \in 0 .. (k - 1) /\ j + 1 \in 1 .. m /\ ix * m \in Nat
  <2>1. \A a, b \in Nat : a * b \in Nat
    BY Z3
  <2>2. ix \in Nat /\ ix \in 0 .. (k - 1) /\ j + 1 \in 1 .. m
    BY <1>1 DEF Upto
  <2> HIDE DEF ix, j
  <2> QED BY <2>1, <2>2
<1> HIDE DEF ix, j
<1>3. Words(FlattenSeq(f))[ix * m + (j + 1)] = Words(f[ix + 1])[j + 1]
  BY <1>2, TableWords
<1>4. ix * m + (j + 1) = x + 1
  <2> DEFINE y == ix * m
  <2>1. x = y + j /\ y \in Nat /\ j \in Int
    BY <1>1, <1>2 DEF Upto
  <2> HIDE DEF y
  <2>2. y + (j + 1) = x + 1
    BY <2>1
  <2> QED BY <2>2 DEF y
<1>5. Words(f[ix + 1])[j + 1] = d[ix * m + j]
  BY <1>1
<1> QED BY <1>1, <1>3, <1>4, <1>5

\* A sequence of numbers by rows.
MatrixLines(rows, cols, d) ==
  [ix \in 1 .. rows |-> Line(FlattenSeq([j \in 1 .. cols |-> <<d[(ix - 1) * cols + (j - 1)]>>]))]

LEMMA MatrixTable ==
  ASSUME NEW rows \in Nat \ {0}, NEW cols \in Nat \ {0}, NEW d, d \in [Upto(rows * cols) -> Nat]
  PROVE  /\ Closed(FlattenSeq(MatrixLines(rows, cols, d)))
         /\ Len(Words(FlattenSeq(MatrixLines(rows, cols, d)))) = rows * cols
         /\ \A x \in Upto(rows * cols) : Words(FlattenSeq(MatrixLines(rows, cols, d)))[x + 1] = d[x]
<1> DEFINE f == MatrixLines(rows, cols, d)
           row(ix) == [j \in Upto(cols) |-> d[ix * cols + j]]
<1>1. ASSUME NEW ix \in Upto(rows)
      PROVE  /\ f[ix + 1] \in Streams /\ Closed(f[ix + 1]) /\ Len(Words(f[ix + 1])) = cols
             /\ \A j \in Upto(cols) : Words(f[ix + 1])[j + 1] = d[ix * cols + j]
  <2>1. ix \in Nat /\ ix \in 0 .. (rows - 1) /\ ix + 1 \in 1 .. rows /\ (ix + 1) - 1 = ix
    BY DEF Upto
  <2>2. \A j \in Upto(cols) : ix * cols + j \in Upto(rows * cols)
    <3> SUFFICES ASSUME NEW j \in Upto(cols) PROVE ix * cols + j \in Upto(rows * cols)
      OBVIOUS
    <3>1. j + 1 \in 1 .. cols /\ j \in Nat
      BY DEF Upto
    <3>2. ix * cols + (j + 1) \in 1 .. (rows * cols) /\ ix * cols \in Nat /\ rows * cols \in Nat
      BY <2>1, <3>1, PlaceInPieces
    <3> QED BY <3>1, <3>2 DEF Upto
  <2>3. row(ix) \in [Upto(cols) -> Nat]
    BY <2>2
  <2> DEFINE l == FlattenSeq(Singles(cols, row(ix)))
  <2>4. \A j \in 1 .. cols : row(ix)[j - 1] = d[ix * cols + (j - 1)]
    BY DEF Upto
  <2>5. f[ix + 1] = Line(l)
    <3>1. f[ix + 1] = Line(FlattenSeq([j \in 1 .. cols |-> <<d[ix * cols + (j - 1)]>>]))
      BY <2>1 DEF MatrixLines
    <3>2. Singles(cols, row(ix)) = [j \in 1 .. cols |-> <<d[ix * cols + (j - 1)]>>]
      BY <2>4 DEF Singles
    <3> QED BY <3>1, <3>2
  <2>6. l \in Seq(Nat) /\ Len(l) = cols /\ \A j \in Upto(cols) : l[j + 1] = row(ix)[j]
    <3> HIDE DEF row
    <3> QED BY <2>3, EachSingle
  <2>7. \A j \in Upto(cols) : l[j + 1] = d[ix * cols + j]
    BY <2>6
  <2> HIDE DEF l, f
  <2> QED BY <2>5, <2>6, <2>7, NatLine
<1>2. Table(f, rows, cols)
  <2>1. \A ix \in 1 .. rows : ix - 1 \in Upto(rows) /\ (ix - 1) + 1 = ix
    BY DEF Upto
  <2>2. f = [ix \in 1 .. rows |-> f[ix]]
    BY DEF MatrixLines
  <2> HIDE DEF f
  <2>3. \A ix \in 1 .. rows : f[ix] \in Streams /\ Closed(f[ix]) /\ Len(Words(f[ix])) = cols
    BY <1>1, <2>1
  <2>4. f \in [1 .. rows -> Streams]
    BY <2>2, <2>3
  <2> QED BY <2>3, <2>4 DEF Table
<1> HIDE DEF f
<1>3. Closed(FlattenSeq(f)) /\ Len(Words(FlattenSeq(f))) = rows * cols
  BY <1>2, TableWords
<1>4. \A x \in Upto(rows * cols) : Words(FlattenSeq(f))[x + 1] = d[x]
  BY <1>1, <1>2, TableEntries
<1> QED BY <1>3, <1>4 DEF f

\* ParseMatrix after MatrixPrint2D.
LEMMA MatrixComesBack ==
  ASSUME NEW rows \in Nat \ {0}, NEW cols \in Nat \ {0}, NEW d, d \in [Upto(rows * cols) -> Nat],
         NEW r, r.value = [dimensions |-> <<rows, cols>>, data |-> d],
         NEW lead, Blank(lead), NEW t \in Streams, NEW u, u = MatrixPrint2D(r)
  PROVE  /\ Closed(u)
         /\ ParseMatrix(lead \o (u \o t), r) = [value |-> r.value, rest |-> <<NewLine>> \o t]
<1> DEFINE hd == Line(<<rows, cols>>)
           yes == "dims" \in r.header
           h == IF yes THEN hd ELSE << >>
           l == FlattenSeq(MatrixLines(rows, cols, d))
           s == lead \o (u \o t)
           s1 == IF yes THEN AfterWords(s, 2) ELSE s
           k == rows * cols
<1>1. /\ Closed(l) /\ Len(Words(l)) = k /\ l \in Streams
      /\ \A x \in Upto(k) : Words(l)[x + 1] = d[x]
  BY MatrixTable, ClosedText
<1>2. Closed(hd) /\ Words(hd) = <<rows, cols>>
  <2>1. <<rows, cols>> \in Seq(Nat) /\ Len(<<rows, cols>>) > 0
    OBVIOUS
  <2> QED BY <2>1, NatLine
<1>3. r.value.dimensions = <<rows, cols>> /\ r.value.data = d
  OBVIOUS
<1>4. u = h \o l
  BY <1>3 DEF MatrixPrint2D, Each, MatrixLines
<1> HIDE DEF hd, l
<1>5. HasHeader(s, lead, h, hd, l, t)
  BY <1>1, <1>2, <1>4 DEF HasHeader
<1> HIDE DEF s
<1>6. /\ Closed(u) /\ s \in Streams
      /\ yes => /\ SubSeq(Words(s), 1, 2) = <<rows, cols>>
                /\ AfterWords(s, 2) = <<NewLine>> \o (l \o t)
      /\ ~ yes => s = lead \o (l \o t)
  <2>1. Len(Words(hd)) = 2
    BY <1>2
  <2>2. (yes => h = hd) /\ (~ yes => h = << >>)
    OBVIOUS
  <2> HIDE DEF h, yes
  <2>3. /\ Closed(h \o l) /\ s \in Streams
        /\ h = << >> => s = lead \o (l \o t)
        /\ h = hd => /\ AfterWords(s, Len(Words(hd))) = <<NewLine>> \o (l \o t)
                     /\ SubSeq(Words(s), 1, Len(Words(hd))) = Words(hd)
    BY <1>5, ReadHeader
  <2> QED BY <1>2, <1>4, <2>1, <2>2, <2>3
<1>7. PICK b : Blank(b) /\ s1 = b \o (l \o t)
  BY <1>6, BlankTexts
<1> HIDE DEF h, s1, yes
<1>8. ReadsPart(s1, b, l, t)
  BY <1>1, <1>7 DEF ReadsPart
<1>9. /\ AfterWords(s1, k) = <<NewLine>> \o t
      /\ \A ix \in 1 .. k : Words(s1)[ix] = Words(l)[ix]
  <2>1. /\ AfterWords(s1, Len(Words(l))) = <<NewLine>> \o t
        /\ \A ix \in 1 .. Len(Words(l)) : Words(s1)[ix] = Words(l)[ix]
    BY <1>8, ReadPart
  <2> HIDE DEF k
  <2> QED BY <1>1, <2>1
<1> DEFINE dims == IF yes THEN SubSeq(Words(s), 1, 2) ELSE r.value.dimensions
           n == dims[1] * dims[2]
           data == [ix \in Upto(n) |-> Words(s1)[ix + 1]]
<1>10. dims = <<rows, cols>>
  BY <1>3, <1>6
<1>11. ParseMatrix(s, r) =
         [value |-> [dimensions |-> dims, data |-> data], rest |-> AfterWords(s1, n)]
  BY DEF ParseMatrix, s1, yes
<1> HIDE DEF dims
<1>12. n = k
  BY <1>10
<1>13. data = d
  <2>1. k \in Nat
    BY Z3
  <2>2. \A ix \in Upto(k) : Words(s1)[ix + 1] = d[ix]
    BY <1>1, <1>9, <2>1 DEF Upto
  <2>3. d \in [Upto(k) -> Nat]
    OBVIOUS
  <2> HIDE DEF n, k
  <2> QED BY <1>12, <2>2, <2>3
<1> HIDE DEF n, data
<1>14. ParseMatrix(s, r) = [value |-> r.value, rest |-> <<NewLine>> \o t]
  BY <1>9, <1>10, <1>11, <1>12, <1>13
<1> QED BY <1>6, <1>14 DEF s

\* The two lines of the limits.
LEMMA LimitLines ==
  ASSUME NEW lims \in Seq(Nat), Len(lims) = 4,
         NEW hd, hd = Line(SubSeq(lims, 1, 2)) \o Line(SubSeq(lims, 3, 4))
  PROVE  Closed(hd) /\ Words(hd) = lims
<1> DEFINE a == SubSeq(lims, 1, 2)
           b == SubSeq(lims, 3, 4)
<1>1. \A ix \in 1 .. 4 : lims[ix] \in Nat
  <2>1. \A ix \in 1 .. Len(lims) : lims[ix] \in Nat
    BY ElementOfSeq
  <2> QED BY <2>1
<1>2. a \in Seq(Nat) /\ Len(a) = 2
  <2>1. 1 \in Int /\ 2 \in Int /\ \A ix \in 1 .. 2 : lims[ix] \in Nat
    BY <1>1
  <2>2. a \in Seq(Nat) /\ Len(a) = IF 1 <= 2 THEN 2 - 1 + 1 ELSE 0
    BY <2>1, SubSeqProperties
  <2> QED BY <2>2
<1>3. b \in Seq(Nat) /\ Len(b) = 2
  <2>1. 3 \in Int /\ 4 \in Int /\ \A ix \in 3 .. 4 : lims[ix] \in Nat
    BY <1>1
  <2>2. b \in Seq(Nat) /\ Len(b) = IF 3 <= 4 THEN 4 - 3 + 1 ELSE 0
    BY <2>1, SubSeqProperties
  <2> QED BY <2>2
<1>4. a \o b = lims
  <2>1. 1 \in 1 .. (Len(lims) + 1) /\ 2 \in (1 - 1) .. Len(lims) /\ 4 \in 2 .. Len(lims) /\ 2 + 1 = 3
    OBVIOUS
  <2>2. SubSeq(lims, 1, 2) \o SubSeq(lims, 2 + 1, 4) = SubSeq(lims, 1, 4)
    BY <2>1, ConcatAdjacentSubSeq
  <2>3. SubSeq(lims, 1, 4) = lims
    BY SubSeqFull
  <2> QED BY <2>1, <2>2, <2>3
<1> HIDE DEF a, b
<1>5. /\ Line(a) \in Streams /\ Words(Line(a)) = a
      /\ Closed(Line(b)) /\ Line(b) \in Streams /\ Words(Line(b)) = b
  <2>1. Len(a) > 0 /\ Len(b) > 0
    BY <1>2, <1>3
  <2> QED BY <1>2, <1>3, <2>1, NatLine
<1>6. hd = Line(a) \o Line(b)
  BY DEF a, b
<1> QED BY <1>4, <1>5, <1>6, ClosedConcat, WordsOfConcat

\* ParseMeshSerialized after PrintMesh, for each header.
LEMMA MeshComesBack ==
  ASSUME NEW rows \in Nat \ {0}, NEW cols \in Nat \ {0}, NEW d, d \in [Upto(rows * cols) -> Nat],
         NEW lims \in Seq(Nat), Len(lims) = 4,
         NEW r, r.value = ConstructMeshes(<<rows, cols>>, lims, d),
         NEW lead, Blank(lead), NEW t \in Streams, NEW u, u = PrintMesh(r)
  PROVE  /\ Closed(u)
         /\ ParseMeshSerialized(lead \o (u \o t), r) = [value |-> r.value, rest |-> <<NewLine>> \o t]
<1> DEFINE hd == Line(<<rows, cols>>)
           yes == "dims" \in r.header
           h == IF yes THEN hd ELSE << >>
           hd2 == Line(SubSeq(lims, 1, 2)) \o Line(SubSeq(lims, 3, 4))
           yes2 == "lims" \in r.header
           h2 == IF yes2 THEN hd2 ELSE << >>
           l == Line(Row(d))
           s == lead \o (u \o t)
           s1 == IF yes THEN AfterWords(s, 2) ELSE s
           s2 == IF yes2 THEN AfterWords(s1, 4) ELSE s1
           k == rows * cols
<1>1. k \in Nat \ {0}
  BY Z3
<1>2. d \in [Upto(k) -> Nat]
  OBVIOUS
<1>3. r.value.dimensions = <<rows, cols>> /\ r.value.limits = lims /\ r.value.data_2 = d
  BY DEF ConstructMeshes
<1>4. u = (h \o h2) \o l
  BY <1>3 DEF PrintMesh
<1> HIDE DEF k
<1>5. /\ Row(d) \in Seq(Nat) /\ Len(Row(d)) = k /\ \A ix \in Upto(k) : Row(d)[ix + 1] = d[ix]
  BY <1>1, <1>2, RowIs
<1>6. Closed(l) /\ Words(l) = Row(d)
  BY <1>1, <1>5, NatLine
<1>7. Closed(hd) /\ Words(hd) = <<rows, cols>>
  <2>1. <<rows, cols>> \in Seq(Nat) /\ Len(<<rows, cols>>) > 0
    OBVIOUS
  <2> QED BY <2>1, NatLine
<1>8. Closed(hd2) /\ Words(hd2) = lims
  BY LimitLines
<1> HIDE DEF hd, hd2, l
<1> DEFINE v == h2 \o l
<1>9. Closed(v) /\ u = h \o v
  <2>1. h \in Streams /\ h2 \in Streams /\ l \in Streams /\ << >> \in Streams
    BY <1>6, <1>7, <1>8, ClosedText DEF Streams
  <2> HIDE DEF h, h2
  <2> QED BY <1>4, <1>6, <2>1, ClosedConcat, TextAssociative
<1> HIDE DEF v
<1>10. HasHeader(s, lead, h, hd, v, t)
  BY <1>7, <1>9 DEF HasHeader
<1> HIDE DEF s
<1>11. /\ Closed(u) /\ s \in Streams
       /\ yes => /\ SubSeq(Words(s), 1, 2) = <<rows, cols>>
                 /\ AfterWords(s, 2) = <<NewLine>> \o (v \o t)
       /\ ~ yes => s = lead \o (v \o t)
  <2>1. Len(Words(hd)) = 2
    BY <1>7
  <2>2. (yes => h = hd) /\ (~ yes => h = << >>)
    OBVIOUS
  <2> HIDE DEF h, yes
  <2>3. /\ Closed(h \o v) /\ s \in Streams
        /\ h = << >> => s = lead \o (v \o t)
        /\ h = hd => /\ AfterWords(s, Len(Words(hd))) = <<NewLine>> \o (v \o t)
                     /\ SubSeq(Words(s), 1, Len(Words(hd))) = Words(hd)
    BY <1>10, ReadHeader
  <2> QED BY <1>7, <1>9, <2>1, <2>2, <2>3
<1>12. PICK b : Blank(b) /\ s1 = b \o (v \o t)
  BY <1>11, BlankTexts
<1> HIDE DEF h, s1, yes
<1>13. HasHeader(s1, b, h2, hd2, l, t)
  BY <1>6, <1>8, <1>12 DEF HasHeader, v
<1>14. /\ yes2 => /\ SubSeq(Words(s1), 1, 4) = lims
                  /\ AfterWords(s1, 4) = <<NewLine>> \o (l \o t)
       /\ ~ yes2 => s1 = b \o (l \o t)
       /\ s1 \in Streams
  <2>1. Len(Words(hd2)) = 4
    BY <1>8
  <2>2. (yes2 => h2 = hd2) /\ (~ yes2 => h2 = << >>)
    OBVIOUS
  <2> HIDE DEF h2, yes2
  <2>3. /\ s1 \in Streams
        /\ h2 = << >> => s1 = b \o (l \o t)
        /\ h2 = hd2 => /\ AfterWords(s1, Len(Words(hd2))) = <<NewLine>> \o (l \o t)
                       /\ SubSeq(Words(s1), 1, Len(Words(hd2))) = Words(hd2)
    BY <1>13, ReadHeader
  <2> QED BY <1>8, <2>1, <2>2, <2>3
<1>15. PICK c : Blank(c) /\ s2 = c \o (l \o t)
  BY <1>12, <1>14, BlankTexts
<1> HIDE DEF h2, s2, yes2
<1>16. ReadsPart(s2, c, l, t)
  BY <1>6, <1>15 DEF ReadsPart
<1>17. /\ AfterWords(s2, k) = <<NewLine>> \o t
       /\ \A ix \in 1 .. k : Words(s2)[ix] = Row(d)[ix]
  <2>1. /\ AfterWords(s2, Len(Words(l))) = <<NewLine>> \o t
        /\ \A ix \in 1 .. Len(Words(l)) : Words(s2)[ix] = Words(l)[ix]
    BY <1>16, ReadPart
  <2> QED BY <1>5, <1>6, <2>1
<1> DEFINE dims == IF yes THEN SubSeq(Words(s), 1, 2) ELSE r.value.dimensions
           limits == IF yes2 THEN SubSeq(Words(s1), 1, 4) ELSE r.value.limits
           n == dims[1] * dims[2]
           data == [ix \in Upto(n) |-> Words(s2)[ix + 1]]
<1>18. dims = <<rows, cols>>
  BY <1>3, <1>11
<1>19. limits = lims
  BY <1>3, <1>14
<1>20. ParseMeshSerialized(s, r) =
         [value |-> ConstructMeshes(dims, limits, data), rest |-> AfterWords(s2, n)]
  BY DEF ParseMeshSerialized, s1, s2, yes, yes2
<1> HIDE DEF dims, limits
<1>21. n = k
  BY <1>18 DEF k
<1>22. data = d
  <2>0. \A ix \in Upto(k) : ix + 1 \in 1 .. k
    BY <1>1 DEF Upto
  <2>1. \A ix \in Upto(k) : Words(s2)[ix + 1] = d[ix]
    BY <1>5, <1>17, <2>0
  <2> HIDE DEF n
  <2> QED BY <1>2, <1>21, <2>1
<1> HIDE DEF n, data
<1>23. ParseMeshSerialized(s, r) = [value |-> r.value, rest |-> <<NewLine>> \o t]
  BY <1>17, <1>18, <1>19, <1>20, <1>21, <1>22
<1> QED BY <1>11, <1>23 DEF s

----------------------------------------------------------------------------
\* Tables for people.

LEMMA TitleLine == Unbroken(<<Title>>) /\ Closed(Line(<<Title>>)) /\ Words(Line(<<Title>>)) = <<Title>>
<1>1. Unbroken(<<Title>>)
  <2>1. <<Title>> \in Seq(Int) /\ Len(<<Title>>) = 1 /\ <<Title>>[1] # NewLine
    BY DEF Title, NewLine
  <2> QED BY <2>1 DEF Unbroken, Streams
<1>2. <<Title>> \in Streams /\ Len(<<Title>>) > 0
  BY <1>1 DEF Unbroken
<1> QED BY <1>1, <1>2, LineClosed, LineFacts, PlainWords

LEMMA NothingOnALine == Unbroken(<< >>) /\ Line(<< >>) = <<NewLine>>
<1>1. << >> \in Streams /\ Len(<< >>) = 0
  BY DEF Streams
<1> QED BY <1>1 DEF Unbroken, Line

\* A part at the start of a text.
LEMMA ReadFirst ==
  ASSUME NEW u, Closed(u), NEW t \in Streams
  PROVE  /\ AfterWords(u \o t, Len(Words(u))) = <<NewLine>> \o t
         /\ \A ix \in 1 .. Len(Words(u)) : Words(u \o t)[ix] = Words(u)[ix]
         /\ SubSeq(Words(u \o t), 1, Len(Words(u))) = Words(u)
<1>1. u \in Streams
  BY ClosedText
<1>2. u \o t \in Streams
  BY <1>1, TextConcat
<1>3. << >> \o (u \o t) = u \o t
  BY <1>2, TextFacts
<1>4. ReadsPart(u \o t, << >>, u, t)
  BY <1>3, BlankTexts DEF ReadsPart
<1> QED BY <1>4, ReadPart

\* Two columns.
CoordinateLines(n, c) == [ix \in 1 .. n |-> Line(<<c[ix - 1], c[(ix - 1) + n]>>)]

\* The table of coordinates is made of lines of two words.
LEMMA CoordinateTable ==
  ASSUME NEW n \in Nat \ {0}, NEW c, c \in [Upto(2 * n) -> Nat]
  PROVE  /\ Table(CoordinateLines(n, c), n, 2)
         /\ \A ix \in Upto(n) : Words(CoordinateLines(n, c)[ix + 1]) = <<c[ix], c[ix + n]>>
<1> DEFINE f == CoordinateLines(n, c)
<1>1. ASSUME NEW ix \in Upto(n)
      PROVE  /\ f[ix + 1] \in Streams /\ Closed(f[ix + 1])
             /\ Words(f[ix + 1]) = <<c[ix], c[ix + n]>>
  <2>1. ix \in Nat /\ ix + 1 \in 1 .. n /\ (ix + 1) - 1 = ix /\ ix \in Upto(2 * n) /\ ix + n \in Upto(2 * n)
    BY DEF Upto
  <2> DEFINE b == <<c[ix], c[ix + n]>>
  <2>2. f[ix + 1] = Line(b)
    BY <2>1 DEF CoordinateLines
  <2>3. b \in Seq(Nat) /\ Len(b) > 0
    <3>1. c[ix] \in Nat /\ c[ix + n] \in Nat
      BY <2>1
    <3> QED BY <3>1
  <2> HIDE DEF b, f
  <2>4. f[ix + 1] \in Streams /\ Closed(f[ix + 1]) /\ Words(f[ix + 1]) = b
    BY <2>2, <2>3, NatLine
  <2> QED BY <2>4 DEF b
<1>2. \A ix \in 1 .. n : ix - 1 \in Upto(n) /\ (ix - 1) + 1 = ix
  BY DEF Upto
<1>3. f = [ix \in 1 .. n |-> f[ix]]
  BY DEF CoordinateLines
<1> HIDE DEF f
<1>4. \A ix \in 1 .. n : f[ix] \in Streams /\ Closed(f[ix]) /\ Len(Words(f[ix])) = 2
  <2> SUFFICES ASSUME NEW ix \in 1 .. n PROVE f[ix] \in Streams /\ Closed(f[ix]) /\ Len(Words(f[ix])) = 2
    OBVIOUS
  <2>1. /\ f[ix] \in Streams /\ Closed(f[ix])
        /\ Words(f[ix]) = <<c[ix - 1], c[(ix - 1) + n]>>
    <3>1. f[(ix - 1) + 1] = f[ix]
      BY <1>2
    <3> QED BY <1>1, <1>2, <3>1
  <2> QED BY <2>1
<1>5. f \in [1 .. n -> Streams]
  BY <1>3, <1>4
<1>6. Table(f, n, 2)
  BY <1>4, <1>5 DEF Table
<1> QED BY <1>1, <1>6 DEF f

CoordinatesFirst(u, n, c, t) ==
  n \in Nat \ {0} /\ c \in [Upto(2 * n) -> Nat] /\ t \in Streams /\ u = PrintCoordinates2(c)

\* ParseCoordinates after PrintCoordinates2, at the start of a stream: the columns are read
\* back although the table is written by rows.
LEMMA CoordinatesComeBack ==
  ASSUME NEW u, NEW n, NEW c, NEW t, CoordinatesFirst(u, n, c, t)
  PROVE  /\ Closed(u)
         /\ \A r : ParseCoordinates(u \o t, r) = [value |-> c, rest |-> <<NewLine>> \o t]
         /\ Words(AfterLine(u \o t))[1] = n
         /\ Words(AfterLine(<<NewLine>> \o (u \o t)))[1] = Title
<1> DEFINE f == CoordinateLines(n, c)
           ti == Line(<<Title>>)
           hd == Line(<<n>>)
           body == FlattenSeq(f)
<1>. USE DEF CoordinatesFirst
<1>1. Cardinality(DOMAIN c) \div 2 = n
  <2>1. Cardinality(DOMAIN c) = 2 * n
    <3>1. 2 * n \in Nat
      OBVIOUS
    <3> QED BY <3>1, RowIs
  <2> QED BY <2>1
<1>2. u = (ti \o hd) \o body
  BY <1>1 DEF PrintCoordinates2, Each, CoordinateLines
<1>3. Closed(ti) /\ Words(ti) = <<Title>> /\ Unbroken(<<Title>>)
  BY TitleLine
<1>4. Closed(hd) /\ Words(hd) = <<n>>
  <2>1. <<n>> \in Seq(Nat) /\ Len(<<n>>) > 0
    OBVIOUS
  <2> QED BY <2>1, NatLine
<1>5. /\ Closed(body) /\ Len(Words(body)) = n * 2
      /\ \A ix \in 0 .. (n - 1), j \in 1 .. 2 : Words(body)[ix * 2 + j] = Words(f[ix + 1])[j]
  <2>1. Table(f, n, 2) /\ 2 \in Nat
    BY CoordinateTable
  <2> HIDE DEF f
  <2> QED BY <2>1, TableWords
<1>6. ti \in Streams /\ hd \in Streams /\ body \in Streams
  BY <1>3, <1>4, <1>5, ClosedText
<1>7. \A ix \in Upto(n) : Words(f[ix + 1]) = <<c[ix], c[ix + n]>>
  BY CoordinateTable
<1> DEFINE s1 == hd \o (body \o t)
<1> HIDE DEF ti, hd, body, f
<1>8. Closed(u) /\ u \o t = ti \o s1
  <2> DEFINE w == body \o t
  <2>1. ti \o hd \in Streams /\ w \in Streams
    BY <1>6, TextConcat
  <2>2. Closed(u)
    BY <1>2, <1>5, <2>1, ClosedConcat
  <2>3. ((ti \o hd) \o body) \o t = (ti \o hd) \o (body \o t)
    <3> DEFINE v == ti \o hd
    <3>1. \A x, y \in Streams : (v \o x) \o y = v \o (x \o y)
      BY <2>1, TextAssociative
    <3> HIDE DEF v
    <3> QED BY <1>6, <3>1 DEF v
  <2> HIDE DEF w
  <2>4. (ti \o hd) \o w = ti \o (hd \o w)
    <3>1. \A x, y \in Streams : (ti \o x) \o y = ti \o (x \o y)
      BY <1>6, TextAssociative
    <3> QED BY <1>6, <2>1, <3>1
  <2> QED BY <1>2, <2>2, <2>3, <2>4 DEF w
<1>9. body \o t \in Streams /\ s1 \in Streams
  <2>1. body \o t \in Streams
    BY <1>6, TextConcat
  <2> QED BY <1>6, <2>1, TextConcat
<1>10. AfterLine(u \o t) = s1
  <2> HIDE DEF s1
  <2>1. AfterLine(Line(<<Title>>) \o s1) = s1
    BY <1>3, <1>9, AfterItsLine
  <2> QED BY <1>8, <2>1 DEF ti
<1> DEFINE w == body \o t
<1> HIDE DEF w
<1>11. AfterWords(s1, 1) = <<NewLine>> \o w /\ Words(s1)[1] = n
  <2>1. Len(Words(hd)) = 1 /\ Words(hd)[1] = n /\ 1 \in 1 .. 1 /\ w \in Streams /\ s1 = hd \o w
    BY <1>4, <1>9 DEF w
  <2> HIDE DEF s1
  <2> QED BY <1>4, <2>1, ReadFirst
<1> DEFINE s2 == <<NewLine>> \o w
<1>12. ReadsPart(s2, <<NewLine>>, body, t)
  BY <1>5, BlankTexts DEF ReadsPart, w
<1> HIDE DEF s2
<1>13. /\ AfterWords(s2, 2 * n) = <<NewLine>> \o t
       /\ \A ix \in 1 .. (2 * n) : Words(s2)[ix] = Words(body)[ix]
  <2>1. n * 2 = 2 * n
    OBVIOUS
  <2>2. /\ AfterWords(s2, Len(Words(body))) = <<NewLine>> \o t
        /\ \A ix \in 1 .. Len(Words(body)) : Words(s2)[ix] = Words(body)[ix]
    BY <1>12, ReadPart
  <2> QED BY <1>5, <2>1, <2>2
<1>14. ASSUME NEW k \in Upto(2 * n) PROVE Words(s2)[2 * (k % n) + 1 + k \div n] = c[k]
  <2> DEFINE ix == k % n
             j == k \div n
  <2>1. k \in Nat /\ ix \in 0 .. (n - 1) /\ ix \in Upto(n) /\ j \in 0 .. 1 /\ k = ix + j * n
    <3>1. k \in 0 .. (2 * n - 1)
      BY DEF Upto
    <3>2. CASE k < n
      <4>1. ix = k /\ j = 0
        BY <3>1, <3>2, Z3
      <4> HIDE DEF ix, j
      <4> QED BY <3>1, <3>2, <4>1 DEF Upto
    <3>3. CASE k >= n
      <4>1. ix = k - n /\ j = 1
        BY <3>1, <3>3, Z3
      <4> HIDE DEF ix, j
      <4> QED BY <3>1, <3>3, <4>1 DEF Upto
    <3> QED BY <3>1, <3>2, <3>3
  <2> HIDE DEF ix, j
  <2>2. 2 * ix + 1 + j \in 1 .. (2 * n) /\ 2 * ix + 1 + j = ix * 2 + (j + 1) /\ j + 1 \in 1 .. 2
    BY <2>1
  <2>3. Words(s2)[2 * ix + 1 + j] = Words(f[ix + 1])[j + 1]
    BY <1>5, <1>13, <2>1, <2>2
  <2>4. Words(f[ix + 1])[j + 1] = c[k]
    <3>1. CASE j = 0
      <4>1. k = ix
        BY <2>1, <3>1
      <4> QED BY <1>7, <2>1, <3>1, <4>1
    <3>2. CASE j = 1
      <4>1. k = ix + n
        BY <2>1, <3>2
      <4> QED BY <1>7, <2>1, <3>2, <4>1
    <3> QED BY <2>1, <3>1, <3>2
  <2> QED BY <2>3, <2>4 DEF ix, j
<1>15. ASSUME NEW r PROVE ParseCoordinates(u \o t, r) = [value |-> c, rest |-> <<NewLine>> \o t]
  <2> DEFINE value == [k \in Upto(2 * n) |-> Words(s2)[2 * (k % n) + 1 + k \div n]]
  <2>1. value = c
    BY <1>14
  <2>2. ParseCoordinates(u \o t, r) = [value |-> value, rest |-> AfterWords(s2, 2 * n)]
    <3> HIDE DEF s1
    <3> QED BY <1>10, <1>11 DEF ParseCoordinates, s2
  <2> HIDE DEF value
  <2> QED BY <1>13, <2>1, <2>2
<1>16. Words(AfterLine(<<NewLine>> \o (u \o t)))[1] = Title
  <2>1. u \o t \in Streams
    BY <1>8, ClosedText, TextConcat
  <2> HIDE DEF s1
  <2>2. AfterLine(<<NewLine>> \o (u \o t)) = u \o t
    BY <2>1, NothingOnALine, AfterItsLine
  <2>3. Words(ti \o s1)[1] = Title
    <3>1. Len(Words(ti)) = 1 /\ Words(ti)[1] = Title /\ 1 \in 1 .. 1
      BY <1>3
    <3> QED BY <1>3, <1>9, <3>1, ReadFirst
  <2> QED BY <1>8, <2>2, <2>3
<1> HIDE DEF s1
<1> QED BY <1>8, <1>10, <1>11, <1>15, <1>16

AreTexts(a, b, c, d, e) ==
  a \in Streams /\ b \in Streams /\ c \in Streams /\ d \in Streams /\ e \in Streams

LEMMA FiveParts ==
  ASSUME NEW a, NEW b, NEW c, NEW d, NEW e, AreTexts(a, b, c, d, e)
  PROVE  /\ (((a \o b) \o c) \o d) \o e = a \o (b \o (c \o (d \o e)))
         /\ ((a \o b) \o c) \in Streams
         /\ d \o e \in Streams /\ c \o (d \o e) \in Streams /\ b \o (c \o (d \o e)) \in Streams
<1>0. a \in Streams /\ b \in Streams /\ c \in Streams /\ d \in Streams /\ e \in Streams
  BY DEF AreTexts
<1> DEFINE ab == a \o b
           abc == ab \o c
           de == d \o e
           cde == c \o de
<1>1. ab \in Streams /\ de \in Streams
  BY <1>0, TextConcat
<1> HIDE DEF ab, de
<1>2. abc \in Streams /\ cde \in Streams
  BY <1>0, <1>1, TextConcat
<1> HIDE DEF abc, cde
<1>3. (abc \o d) \o e = abc \o de
  <2>1. \A x, y \in Streams : (abc \o x) \o y = abc \o (x \o y)
    BY <1>2, TextAssociative
  <2> QED BY <1>0, <2>1 DEF de
<1>4. abc \o de = ab \o cde
  <2>1. \A x, y \in Streams : (ab \o x) \o y = ab \o (x \o y)
    BY <1>1, TextAssociative
  <2> QED BY <1>0, <1>1, <2>1 DEF abc, cde
<1>5. ab \o cde = a \o (b \o cde)
  <2>1. \A x, y \in Streams : (a \o x) \o y = a \o (x \o y)
    BY <1>0, TextAssociative
  <2> QED BY <1>0, <1>2, <2>1 DEF ab
<1>6. b \o cde \in Streams
  BY <1>0, <1>2, TextConcat
<1> QED BY <1>1, <1>2, <1>3, <1>4, <1>5, <1>6 DEF ab, abc, de, cde

\* Two lines for each dipole.
SolutionLines(n, c) ==
  [ix \in 1 .. n |-> Line(<<c[2 * (ix - 1)], c[2 * (ix - 1) + 2 * n], 0>>)
                    \o Line(<<c[2 * (ix - 1) + 1], c[2 * (ix - 1) + 1 + 2 * n], 0>>)]

\* The table of a solution is made of pairs of lines of three words.
LEMMA SolutionTable ==
  ASSUME NEW n \in Nat \ {0}, NEW c, c \in [Upto(4 * n) -> Nat]
  PROVE  /\ Table(SolutionLines(n, c), n, 6)
         /\ \A ix \in Upto(n) : Words(SolutionLines(n, c)[ix + 1])
              = <<c[2 * ix], c[2 * ix + 2 * n], 0, c[2 * ix + 1], c[2 * ix + 1 + 2 * n], 0>>
<1> DEFINE f == SolutionLines(n, c)
           six(ix) == <<c[2 * ix], c[2 * ix + 2 * n], 0, c[2 * ix + 1], c[2 * ix + 1 + 2 * n], 0>>
<1>1. ASSUME NEW ix \in Upto(n)
      PROVE  f[ix + 1] \in Streams /\ Closed(f[ix + 1]) /\ Words(f[ix + 1]) = six(ix)
  <2>1. /\ ix \in Nat /\ ix + 1 \in 1 .. n /\ (ix + 1) - 1 = ix
        /\ 2 * ix \in Upto(4 * n) /\ 2 * ix + 2 * n \in Upto(4 * n)
        /\ 2 * ix + 1 \in Upto(4 * n) /\ 2 * ix + 1 + 2 * n \in Upto(4 * n)
    BY DEF Upto
  <2> DEFINE x == <<c[2 * ix], c[2 * ix + 2 * n], 0>>
             y == <<c[2 * ix + 1], c[2 * ix + 1 + 2 * n], 0>>
  <2>2. f[ix + 1] = Line(x) \o Line(y)
    BY <2>1 DEF SolutionLines
  <2>3. x \in Seq(Nat) /\ Len(x) > 0 /\ y \in Seq(Nat) /\ Len(y) > 0 /\ x \o y = six(ix)
    <3>1. /\ c[2 * ix] \in Nat /\ c[2 * ix + 2 * n] \in Nat
          /\ c[2 * ix + 1] \in Nat /\ c[2 * ix + 1 + 2 * n] \in Nat
      BY <2>1
    <3>2. \A a, b \in Nat : <<a, b, 0>> \in Seq(Nat) /\ Len(<<a, b, 0>>) > 0
      OBVIOUS
    <3>3. ASSUME NEW a \in Nat, NEW b \in Nat, NEW p \in Nat, NEW q \in Nat
          PROVE  <<a, b, 0>> \o <<p, q, 0>> = <<a, b, 0, p, q, 0>>
      <4> DEFINE v == <<a, b, 0>>
                 w == <<p, q, 0>>
                 z == <<a, b, 0, p, q, 0>>
      <4>1. /\ v \in Streams /\ w \in Streams /\ z \in Streams /\ Len(v) = 3 /\ Len(w) = 3 /\ Len(z) = 6
            /\ z[1] = v[1] /\ z[2] = v[2] /\ z[3] = v[3] /\ z[4] = w[1] /\ z[5] = w[2] /\ z[6] = w[3]
        BY DEF Streams
      <4> HIDE DEF v, w, z
      <4> DEFINE vw == v \o w
      <4>2. /\ vw \in Streams /\ Len(vw) = Len(v) + Len(w)
            /\ \A k \in 1 .. Len(v) : vw[k] = v[k]
            /\ \A k \in 1 .. Len(w) : vw[Len(v) + k] = w[k]
        BY <4>1, TextConcat
      <4> HIDE DEF vw
      <4>3. Len(vw) = 6 /\ \A k \in 1 .. Len(vw) : vw[k] = z[k]
        <5>1. Len(vw) = 6
          BY <4>1, <4>2
        <5>2. vw[1] = v[1] /\ vw[2] = v[2] /\ vw[3] = v[3]
          BY <4>1, <4>2
        <5>3. vw[4] = w[1] /\ vw[5] = w[2] /\ vw[6] = w[3]
          <6>1. vw[3 + 1] = w[1] /\ vw[3 + 2] = w[2] /\ vw[3 + 3] = w[3]
            BY <4>1, <4>2
          <6> QED BY <6>1
        <5>4. \A k \in 1 .. 6 : k \in {1, 2, 3, 4, 5, 6}
          OBVIOUS
        <5> QED BY <4>1, <5>1, <5>2, <5>3, <5>4
      <4>4. vw = z
        <5>1. /\ vw \in Streams /\ z \in Streams /\ Len(vw) = Len(z)
              /\ \A k \in 1 .. Len(vw) : vw[k] = z[k]
          BY <4>1, <4>2, <4>3
        <5> QED BY <5>1, TextEqual
      <4> QED BY <4>4 DEF v, w, z, vw
    <3> QED BY <3>1, <3>2, <3>3, Zenon
  <2> HIDE DEF x, y, f, six
  <2>4. /\ Line(x) \in Streams /\ Line(y) \in Streams /\ Closed(Line(y))
        /\ Words(Line(x)) = x /\ Words(Line(y)) = y
    BY <2>3, NatLine
  <2> QED BY <2>2, <2>3, <2>4, ClosedConcat, ClosedText, WordsOfConcat
<1>2. \A ix \in 1 .. n : ix - 1 \in Upto(n) /\ (ix - 1) + 1 = ix
  BY DEF Upto
<1>3. f = [ix \in 1 .. n |-> f[ix]]
  BY DEF SolutionLines
<1>4. \A ix \in Upto(n) : Len(six(ix)) = 6
  OBVIOUS
<1> HIDE DEF f, six
<1>5. \A ix \in 1 .. n : f[ix] \in Streams /\ Closed(f[ix]) /\ Len(Words(f[ix])) = 6
  <2> SUFFICES ASSUME NEW ix \in 1 .. n PROVE f[ix] \in Streams /\ Closed(f[ix]) /\ Len(Words(f[ix])) = 6
    OBVIOUS
  <2>1. f[(ix - 1) + 1] = f[ix] /\ ix - 1 \in Upto(n)
    BY <1>2
  <2> QED BY <1>1, <1>4, <2>1
<1>6. f \in [1 .. n -> Streams]
  BY <1>3, <1>5
<1>7. Table(f, n, 6)
  BY <1>5, <1>6 DEF Table
<1> QED BY <1>1, <1>7 DEF f, six

\* ParseSolution after PrintSolutionFormat1: each of the four amplitudes of a dipole is found
\* in its line, and the third word of a line is passed over.
LEMMA SolutionComesBack ==
  ASSUME NEW n \in Nat \ {0}, NEW c, c \in [Upto(4 * n) -> Nat],
         NEW lead, Blank(lead), NEW t \in Streams, NEW u, u = PrintSolutionFormat1(c)
  PROVE  /\ Closed(u)
         /\ \A r : ParseSolution(lead \o (u \o t), r) = [value |-> c, rest |-> <<NewLine>> \o t]
<1> DEFINE f == SolutionLines(n, c)
           ti == Line(<<Title>>)
           hd == Line(<<n>>)
           body == FlattenSeq(f)
           s == lead \o (u \o t)
<1>1. Cardinality(DOMAIN c) \div 4 = n
  <2>1. Cardinality(DOMAIN c) = 4 * n
    <3>1. 4 * n \in Nat
      OBVIOUS
    <3> QED BY <3>1, RowIs
  <2> QED BY <2>1
<1>2. u = ((hd \o ti) \o ti) \o body
  BY <1>1 DEF PrintSolutionFormat1, Each, SolutionLines
<1>3. Closed(ti) /\ Unbroken(<<Title>>)
  BY TitleLine
<1>4. Closed(hd) /\ Words(hd) = <<n>>
  <2>1. <<n>> \in Seq(Nat) /\ Len(<<n>>) > 0
    OBVIOUS
  <2> QED BY <2>1, NatLine
<1>5. /\ Closed(body) /\ Len(Words(body)) = n * 6
      /\ \A ix \in 0 .. (n - 1), j \in 1 .. 6 : Words(body)[ix * 6 + j] = Words(f[ix + 1])[j]
  <2>1. Table(f, n, 6) /\ 6 \in Nat
    BY SolutionTable
  <2> HIDE DEF f
  <2> QED BY <2>1, TableWords
<1>6. ti \in Streams /\ hd \in Streams /\ body \in Streams
  BY <1>3, <1>4, <1>5, ClosedText
<1>7. \A ix \in Upto(n) : Words(f[ix + 1])
        = <<c[2 * ix], c[2 * ix + 2 * n], 0, c[2 * ix + 1], c[2 * ix + 1 + 2 * n], 0>>
  BY SolutionTable
<1> DEFINE s1 == body \o t
           s2 == ti \o s1
           s3 == ti \o s2
<1> HIDE DEF ti, hd, body, f
<1>8. /\ u \o t = hd \o s3 /\ s1 \in Streams /\ s2 \in Streams /\ s3 \in Streams
      /\ Closed(u)
  <2>0. AreTexts(hd, ti, ti, body, t)
    BY <1>6 DEF AreTexts
  <2>1. /\ (((hd \o ti) \o ti) \o body) \o t = hd \o (ti \o (ti \o (body \o t)))
        /\ (hd \o ti) \o ti \in Streams
        /\ body \o t \in Streams /\ ti \o (body \o t) \in Streams /\ ti \o (ti \o (body \o t)) \in Streams
    BY <2>0, FiveParts
  <2>2. Closed(((hd \o ti) \o ti) \o body)
    BY <1>5, <2>1, ClosedConcat
  <2> QED BY <1>2, <2>1, <2>2
<1> HIDE DEF s1
<1>9. AfterLine(s2) = s1
  BY <1>3, <1>8, AfterItsLine DEF ti
<1> HIDE DEF s2
<1>10. AfterLine(s3) = s2
  BY <1>3, <1>8, AfterItsLine DEF ti
<1> HIDE DEF s3
<1>11. AfterLine(<<NewLine>> \o s3) = s3
  BY <1>8, NothingOnALine, AfterItsLine
<1>12. AfterWords(s, 1) = <<NewLine>> \o s3 /\ Words(s)[1] = n
  <2>1. ReadsPart(s, lead, hd, s3)
    BY <1>4, <1>8 DEF ReadsPart
  <2>2. Len(Words(hd)) = 1 /\ Words(hd)[1] = n /\ 1 \in 1 .. 1
    BY <1>4
  <2> HIDE DEF s
  <2>3. /\ AfterWords(s, Len(Words(hd))) = <<NewLine>> \o s3
        /\ \A ix \in 1 .. Len(Words(hd)) : Words(s)[ix] = Words(hd)[ix]
    BY <2>1, ReadPart
  <2> QED BY <2>2, <2>3
<1> HIDE DEF s
<1>13. /\ AfterWords(s1, 6 * n) = <<NewLine>> \o t
       /\ \A ix \in 1 .. (6 * n) : Words(s1)[ix] = Words(body)[ix]
  <2>1. n * 6 = 6 * n
    OBVIOUS
  <2>2. /\ AfterWords(s1, Len(Words(body))) = <<NewLine>> \o t
        /\ \A ix \in 1 .. Len(Words(body)) : Words(s1)[ix] = Words(body)[ix]
    BY <1>5, ReadFirst DEF s1
  <2> QED BY <1>5, <2>1, <2>2
<1> DEFINE column(k) == 6 * ((k % (2 * n)) \div 2) + (IF k % 2 = 0 THEN 1 ELSE 4)
                          + (IF k < 2 * n THEN 0 ELSE 1)
<1>14. ASSUME NEW k \in Upto(4 * n) PROVE Words(s1)[column(k)] = c[k]
  <2> DEFINE ix == (k % (2 * n)) \div 2
             q == k % 2
             j == (IF q = 0 THEN 1 ELSE 4) + (IF k < 2 * n THEN 0 ELSE 1)
  <2>1. /\ k \in 0 .. (4 * n - 1) /\ ix \in 0 .. (n - 1) /\ ix \in Upto(n) /\ q \in {0, 1}
        /\ k = 2 * ix + q + (IF k < 2 * n THEN 0 ELSE 2 * n)
    <3>1. k \in 0 .. (4 * n - 1)
      BY DEF Upto
    <3>2. k < 2 * n => k % (2 * n) = k
      BY <3>1, Z3
    <3>3. k >= 2 * n => k % (2 * n) = k - 2 * n
      BY <3>1, Z3
    <3>4. q \in {0, 1} /\ \A x \in Nat : x = 2 * (x \div 2) + (x % 2)
      BY <3>1, Z3
    <3>5. k >= 2 * n => (k - 2 * n) % 2 = k % 2
      BY <3>1, Z3
    <3>6. k = 2 * ix + q + (IF k < 2 * n THEN 0 ELSE 2 * n) /\ ix \in Nat
      <4>1. CASE k < 2 * n
        <5>1. k = 2 * (k \div 2) + q /\ k \div 2 \in Nat /\ ix = k \div 2
          BY <3>1, <3>2, <3>4, <4>1
        <5> HIDE DEF ix, q
        <5> QED BY <3>1, <4>1, <5>1
      <4>2. CASE k >= 2 * n
        <5> DEFINE x == k - 2 * n
        <5>1. x \in Nat /\ k % (2 * n) = x /\ x % 2 = q /\ x = 2 * (x \div 2) + (x % 2)
          BY <3>1, <3>3, <3>4, <3>5, <4>2
        <5>2. ix = x \div 2 /\ x \div 2 \in Nat /\ x = 2 * (x \div 2) + q
          BY <5>1
        <5>3. x = 2 * ix + q /\ ix \in Nat /\ k = x + 2 * n
          BY <3>1, <5>2
        <5> HIDE DEF ix, q, x
        <5> QED BY <3>1, <3>4, <4>2, <5>3
      <4> QED BY <3>1, <4>1, <4>2
    <3> HIDE DEF ix, q
    <3> QED BY <3>1, <3>4, <3>6 DEF Upto
  <2>2. column(k) = ix * 6 + j
    <3>1. ix \in Int
      BY <2>1
    <3> HIDE DEF ix
    <3> QED BY <3>1 DEF ix
  <2>3. j \in 1 .. 6 /\ ix * 6 + j \in 1 .. (6 * n)
    <3> HIDE DEF ix
    <3> QED BY <2>1
  <2>4. Words(s1)[ix * 6 + j] = Words(f[ix + 1])[j]
    <3> HIDE DEF ix, j
    <3> QED BY <1>5, <1>13, <2>1, <2>3
  <2>5. Words(f[ix + 1])[j] = c[k]
    <3> DEFINE w == Words(f[ix + 1])
    <3>1. /\ w[1] = c[2 * ix] /\ w[2] = c[2 * ix + 2 * n]
          /\ w[4] = c[2 * ix + 1] /\ w[5] = c[2 * ix + 1 + 2 * n]
      <4> HIDE DEF ix
      <4> QED BY <1>7, <2>1
    <3>2. CASE q = 0 /\ k < 2 * n
      <4>1. j = 1 /\ k = 2 * ix
        BY <2>1, <3>2
      <4> HIDE DEF ix, j
      <4> QED BY <3>1, <4>1
    <3>3. CASE q = 0 /\ ~ (k < 2 * n)
      <4>1. j = 2 /\ k = 2 * ix + 2 * n
        BY <2>1, <3>3
      <4> HIDE DEF ix, j
      <4> QED BY <3>1, <4>1
    <3>4. CASE q = 1 /\ k < 2 * n
      <4>1. j = 4 /\ k = 2 * ix + 1
        BY <2>1, <3>4
      <4> HIDE DEF ix, j
      <4> QED BY <3>1, <4>1
    <3>5. CASE q = 1 /\ ~ (k < 2 * n)
      <4>1. j = 5 /\ k = 2 * ix + 1 + 2 * n
        BY <2>1, <3>5
      <4> HIDE DEF ix, j
      <4> QED BY <3>1, <4>1
    <3> QED BY <2>1, <3>2, <3>3, <3>4, <3>5
  <2> QED BY <2>2, <2>4, <2>5
<1>15. ASSUME NEW r PROVE ParseSolution(s, r) = [value |-> c, rest |-> <<NewLine>> \o t]
  <2> DEFINE col == [k \in Upto(4 * n) |-> column(k)]
             value == [k \in Upto(4 * n) |-> Words(s1)[col[k]]]
  <2>1. ParseSolution(s, r) = [value |-> value, rest |-> AfterWords(s1, 6 * n)]
    BY <1>9, <1>10, <1>11, <1>12 DEF ParseSolution
  <2>2. value = c
    <3> HIDE DEF column
    <3> QED BY <1>14
  <2> HIDE DEF value
  <2> QED BY <1>13, <2>1, <2>2
<1> QED BY <1>8, <1>15 DEF s

\* A row for each phi.
TableLines(rows, cols, ph, d) ==
  [ix \in 1 .. cols |->
     Line(<<ph[ix - 1]>> \o FlattenSeq([j \in 1 .. rows |-> <<d[(j - 1) * cols + (ix - 1)]>>]))]

\* One number and a row.
LEMMA NumberAndRow ==
  ASSUME NEW a \in Nat, NEW b \in Seq(Nat)
  PROVE  /\ <<a>> \o b \in Seq(Nat) /\ Len(<<a>> \o b) = Len(b) + 1
         /\ (<<a>> \o b)[1] = a /\ \A j \in 1 .. Len(b) : (<<a>> \o b)[j + 1] = b[j]
<1> DEFINE v == <<a>>
<1>1. v \in Seq(Nat) /\ Len(v) = 1 /\ v[1] = a /\ Len(b) \in Nat
  OBVIOUS
<1> HIDE DEF v
<1> DEFINE w == v \o b
<1>2. w \in Seq(Nat)
  BY <1>1, ConcatProperties
<1>3. /\ Len(w) = Len(v) + Len(b)
      /\ \A p \in 1 .. Len(v) : w[p] = v[p]
      /\ \A p \in 1 .. Len(b) : w[Len(v) + p] = b[p]
  <2>1. v \in Streams /\ b \in Streams
    BY <1>1 DEF Streams
  <2> QED BY <2>1, TextConcat
<1> HIDE DEF w
<1>4. w[1] = a
  BY <1>1, <1>3
<1>5. ASSUME NEW j \in 1 .. Len(b) PROVE w[j + 1] = b[j]
  <2>1. 1 + j = j + 1
    BY <1>1
  <2> QED BY <1>1, <1>3, <2>1
<1> QED BY <1>1, <1>2, <1>3, <1>4, <1>5 DEF v, w

IsTable(rows, cols, th, ph, d) ==
  /\ rows \in Nat \ {0} /\ cols \in Nat \ {0}
  /\ d \in [Upto(rows * cols) -> Nat] /\ ph \in [Upto(cols) -> Nat] /\ th \in [Upto(rows) -> Nat]

\* Where the words of a row are among those of the table.
LEMMA TableOfRows ==
  ASSUME NEW rows, NEW cols, NEW th, NEW ph, NEW d, IsTable(rows, cols, th, ph, d),
         NEW f, f = TableLines(rows, cols, ph, d)
  PROVE  /\ Table(f, cols, rows + 1)
         /\ \A ix \in Upto(cols) : Words(f[ix + 1])[1] = ph[ix]
         /\ \A ix \in Upto(cols), j \in Upto(rows) : Words(f[ix + 1])[j + 2] = d[j * cols + ix]
<1> DEFINE row(ix) == [j \in Upto(rows) |-> d[j * cols + ix]]
<1>0. /\ rows \in Nat \ {0} /\ cols \in Nat \ {0}
      /\ d \in [Upto(rows * cols) -> Nat] /\ ph \in [Upto(cols) -> Nat]
  BY DEF IsTable
<1>1. ASSUME NEW ix \in Upto(cols)
      PROVE  /\ f[ix + 1] \in Streams /\ Closed(f[ix + 1]) /\ Len(Words(f[ix + 1])) = rows + 1
             /\ Words(f[ix + 1])[1] = ph[ix]
             /\ \A j \in Upto(rows) : Words(f[ix + 1])[j + 2] = d[j * cols + ix]
  <2>1. /\ ix \in Nat /\ ix + 1 \in 1 .. cols /\ (ix + 1) - 1 = ix /\ ph[ix] \in Nat
    BY <1>0 DEF Upto
  <2>2. \A j \in Upto(rows) : j * cols + ix \in Upto(rows * cols)
    <3> SUFFICES ASSUME NEW j \in Upto(rows) PROVE j * cols + ix \in Upto(rows * cols)
      OBVIOUS
    <3>1. j \in 0 .. (rows - 1) /\ j \in Nat
      BY <1>0 DEF Upto
    <3>2. j * cols + (ix + 1) \in 1 .. (rows * cols) /\ j * cols \in Nat /\ rows * cols \in Nat
      BY <1>0, <2>1, <3>1, PlaceInPieces
    <3> QED BY <2>1, <3>2 DEF Upto
  <2>3. row(ix) \in [Upto(rows) -> Nat]
    BY <1>0, <2>2
  <2> DEFINE b == FlattenSeq(Singles(rows, row(ix)))
             a == ph[ix]
             l == <<a>> \o b
  <2>4. \A j \in 1 .. rows : row(ix)[j - 1] = d[(j - 1) * cols + ix]
    BY <1>0 DEF Upto
  <2>5. f[ix + 1] = Line(l)
    <3>1. f[ix + 1] = Line(<<ph[ix]>> \o FlattenSeq([j \in 1 .. rows |-> <<d[(j - 1) * cols + ix]>>]))
      BY <2>1 DEF TableLines
    <3>2. Singles(rows, row(ix)) = [j \in 1 .. rows |-> <<d[(j - 1) * cols + ix]>>]
      BY <2>4 DEF Singles
    <3> QED BY <3>1, <3>2
  <2>6. b \in Seq(Nat) /\ Len(b) = rows /\ \A j \in Upto(rows) : b[j + 1] = row(ix)[j]
    <3> HIDE DEF row
    <3> QED BY <1>0, <2>3, EachSingle
  <2>7. \A j \in Upto(rows) : b[j + 1] = d[j * cols + ix]
    BY <2>6
  <2>8. a \in Nat
    BY <2>1
  <2> HIDE DEF b, a
  <2>9. /\ l \in Seq(Nat) /\ Len(l) = rows + 1 /\ l[1] = a
        /\ \A j \in 1 .. rows : l[j + 1] = b[j]
    BY <1>0, <2>6, <2>8, NumberAndRow
  <2> HIDE DEF l
  <2>10. ASSUME NEW j \in Upto(rows) PROVE l[j + 2] = d[j * cols + ix]
    <3>1. j + 1 \in 1 .. rows /\ (j + 1) + 1 = j + 2
      BY <1>0 DEF Upto
    <3> QED BY <2>7, <2>9, <3>1
  <2>11. Line(l) \in Streams /\ Closed(Line(l)) /\ Words(Line(l)) = l
    BY <1>0, <2>9, NatLine
  <2> QED BY <2>5, <2>9, <2>10, <2>11 DEF a
<1>2. Table(f, cols, rows + 1)
  <2>1. \A ix \in 1 .. cols : ix - 1 \in Upto(cols) /\ (ix - 1) + 1 = ix
    BY <1>0 DEF Upto
  <2>2. f = [ix \in 1 .. cols |-> f[ix]]
    BY DEF TableLines
  <2>3. \A ix \in 1 .. cols : f[ix] \in Streams /\ Closed(f[ix]) /\ Len(Words(f[ix])) = rows + 1
    <3> SUFFICES ASSUME NEW ix \in 1 .. cols
                 PROVE  f[ix] \in Streams /\ Closed(f[ix]) /\ Len(Words(f[ix])) = rows + 1
      OBVIOUS
    <3>1. ix - 1 \in Upto(cols) /\ f[(ix - 1) + 1] = f[ix]
      BY <2>1
    <3> QED BY <1>1, <3>1
  <2>4. f \in [1 .. cols -> Streams]
    BY <2>2, <2>3
  <2> QED BY <2>3, <2>4 DEF Table
<1> QED BY <1>1, <1>2

\* What a parser of a table for people meets of it after the title of its columns.
TableStarts(s, l, body, rows, cols, th, ph, d, t) ==
  /\ IsTable(rows, cols, th, ph, d)
  /\ l = Line(FlattenSeq(Singles(rows, th)))
  /\ body = FlattenSeq(TableLines(rows, cols, ph, d))
  /\ t \in Streams /\ s = l \o (body \o t)

LEMMA TableIsRead ==
  ASSUME NEW s, NEW l, NEW body, NEW rows, NEW cols, NEW th, NEW ph, NEW d, NEW t,
         TableStarts(s, l, body, rows, cols, th, ph, d, t)
  PROVE  /\ AfterWords(s, rows + cols * (rows + 1)) = <<NewLine>> \o t
         /\ \A ix \in Upto(rows) : Words(s)[ix + 1] = th[ix]
         /\ \A ix \in Upto(cols) : Words(s)[rows + ix * (rows + 1) + 1] = ph[ix]
         /\ \A ix \in Upto(cols), j \in Upto(rows) :
              Words(s)[rows + ix * (rows + 1) + 1 + 1 + j] = d[j * cols + ix]
         /\ Closed(body) /\ Closed(l)
<1> DEFINE f == TableLines(rows, cols, ph, d)
           thetas == FlattenSeq(Singles(rows, th))
           m == rows + 1
           bt == l \o body
           k == cols * m
<1>. USE DEF TableStarts
<1>0. /\ rows \in Nat \ {0} /\ cols \in Nat \ {0}
      /\ d \in [Upto(rows * cols) -> Nat] /\ ph \in [Upto(cols) -> Nat]
      /\ th \in [Upto(rows) -> Nat]
  BY DEF IsTable
<1>1. thetas \in Seq(Nat) /\ Len(thetas) = rows /\ \A ix \in Upto(rows) : thetas[ix + 1] = th[ix]
  BY <1>0, EachSingle
<1>2. m \in Nat \ {0} /\ k \in Nat
  <2>1. m \in Nat \ {0}
    BY <1>0
  <2> HIDE DEF m
  <2> QED BY <1>0, <2>1, Z3
<1>3. /\ Table(f, cols, m)
      /\ \A ix \in Upto(cols) : Words(f[ix + 1])[1] = ph[ix]
      /\ \A ix \in Upto(cols), j \in Upto(rows) : Words(f[ix + 1])[j + 2] = d[j * cols + ix]
  BY TableOfRows
<1> HIDE DEF thetas, f, m
<1>4. Closed(l) /\ Words(l) = thetas /\ l \in Streams
  <2>1. Len(thetas) > 0
    BY <1>0, <1>1
  <2> QED BY <1>0, <1>1, <2>1, NatLine DEF thetas
<1>5. /\ Closed(body) /\ Len(Words(body)) = k /\ body \in Streams
      /\ \A ix \in 0 .. (cols - 1), j \in 1 .. m : Words(body)[ix * m + j] = Words(f[ix + 1])[j]
  <2>1. body = FlattenSeq(f)
    BY DEF f
  <2> QED BY <1>0, <1>2, <1>3, <2>1, TableWords, ClosedText
<1> HIDE DEF k
<1>6. Closed(bt) /\ Words(bt) = thetas \o Words(body) /\ s = bt \o t
  <2>1. Closed(bt) /\ Words(bt) = Words(l) \o Words(body)
    BY <1>4, <1>5, ClosedConcat, WordsOfConcat
  <2>2. \A x, y \in Streams : (l \o x) \o y = l \o (x \o y)
    BY <1>4, TextAssociative
  <2>3. s = bt \o t
    BY <1>0, <1>5, <2>2
  <2> QED BY <1>4, <2>1, <2>3
<1> HIDE DEF bt
<1> DEFINE wb == Words(body)
<1>7. wb \in Seq(Int) /\ Len(wb) = k
  BY <1>0, <1>5, WordsType DEF Streams
<1> HIDE DEF wb
<1>8. /\ Len(Words(bt)) = rows + k
      /\ \A p \in 1 .. rows : Words(bt)[p] = thetas[p]
      /\ \A p \in 1 .. k : Words(bt)[rows + p] = wb[p]
  <2>1. thetas \in Streams /\ wb \in Streams
    BY <1>0, <1>1, <1>7 DEF Streams
  <2>2. /\ Len(thetas \o wb) = Len(thetas) + Len(wb)
        /\ \A p \in 1 .. Len(thetas) : (thetas \o wb)[p] = thetas[p]
        /\ \A p \in 1 .. Len(wb) : (thetas \o wb)[Len(thetas) + p] = wb[p]
    BY <2>1, TextConcat
  <2>3. Words(bt) = thetas \o wb
    BY <1>6 DEF wb
  <2> QED BY <1>0, <1>1, <1>7, <2>2, <2>3
<1>9. /\ AfterWords(s, rows + k) = <<NewLine>> \o t
      /\ \A p \in 1 .. (rows + k) : Words(s)[p] = Words(bt)[p]
  <2>1. /\ AfterWords(s, Len(Words(bt))) = <<NewLine>> \o t
        /\ \A ix \in 1 .. Len(Words(bt)) : Words(s)[ix] = Words(bt)[ix]
    <3>1. /\ AfterWords(bt \o t, Len(Words(bt))) = <<NewLine>> \o t
          /\ \A ix \in 1 .. Len(Words(bt)) : Words(bt \o t)[ix] = Words(bt)[ix]
      BY <1>6, ReadFirst
    <3> QED BY <1>6, <3>1
  <2> QED BY <1>0, <1>8, <2>1
<1>10. ASSUME NEW ix \in Upto(rows) PROVE Words(s)[ix + 1] = th[ix]
  <2>1. ix + 1 \in 1 .. rows /\ ix + 1 \in 1 .. (rows + k)
    BY <1>0, <1>2 DEF Upto
  <2> QED BY <1>0, <1>1, <1>8, <1>9, <2>1
<1>11. ASSUME NEW ix \in Upto(cols), NEW j \in 1 .. m
       PROVE  Words(s)[rows + (ix * m + j)] = Words(f[ix + 1])[j]
  <2>1. ix \in 0 .. (cols - 1)
    BY <1>0 DEF Upto
  <2>2. ix * m + j \in 1 .. k
    BY <1>0, <1>2, <2>1, PlaceInPieces DEF k
  <2>3. rows + (ix * m + j) \in 1 .. (rows + k)
    <3> DEFINE x == ix * m + j
    <3> HIDE DEF x
    <3> QED BY <1>0, <1>2, <2>2 DEF x
  <2>4. Words(body)[ix * m + j] = Words(f[ix + 1])[j]
    BY <1>0, <1>5, <2>1
  <2> QED BY <1>0, <1>8, <1>9, <2>2, <2>3, <2>4 DEF wb
<1>12. ASSUME NEW ix \in Upto(cols) PROVE Words(s)[rows + ix * m + 1] = ph[ix]
  <2>1. 1 \in 1 .. m /\ ix * m \in Nat
    <3>1. ix \in Nat
      BY <1>0 DEF Upto
    <3>2. \A x, y \in Nat : x * y \in Nat
      BY Z3
    <3> QED BY <1>0, <1>2, <3>1, <3>2
  <2>2. rows + (ix * m + 1) = rows + ix * m + 1
    BY <1>0, <2>1
  <2>3. Words(s)[rows + (ix * m + 1)] = Words(f[ix + 1])[1]
    BY <1>11, <2>1
  <2> QED BY <1>0, <1>3, <2>2, <2>3
<1>13. ASSUME NEW ix \in Upto(cols), NEW j \in Upto(rows)
       PROVE  Words(s)[rows + ix * m + 1 + 1 + j] = d[j * cols + ix]
  <2>1. j + 2 \in 1 .. m /\ ix * m \in Nat /\ j \in Nat
    <3>1. ix \in Nat
      BY <1>0 DEF Upto
    <3>2. \A x, y \in Nat : x * y \in Nat
      BY Z3
    <3> QED BY <1>0, <1>2, <3>1, <3>2 DEF Upto, m
  <2>2. rows + (ix * m + (j + 2)) = rows + ix * m + 1 + 1 + j
    BY <1>0, <2>1
  <2>3. Words(s)[rows + (ix * m + (j + 2))] = Words(f[ix + 1])[j + 2]
    BY <1>11, <2>1
  <2> QED BY <1>0, <1>3, <2>2, <2>3
<1> QED BY <1>4, <1>5, <1>9, <1>10, <1>12, <1>13 DEF k, m

HasTable(m, rows, cols, th, ph, d, lims) ==
  /\ IsTable(rows, cols, th, ph, d) /\ m = ConstructMeshes(<<rows, cols>>, lims, d)
  /\ m.dimensions = <<rows, cols>> /\ m.data_2 = d
  /\ \A ix \in Upto(rows) : m.grid[2][ix * cols] = th[ix]
  /\ \A ix \in Upto(cols) : m.grid[1][ix] = ph[ix]
  /\ lims = <<th[0], th[rows - 1], ph[0], ph[cols - 1]>>

TableFollows(s, lead, u, m, t, rows, cols, th, ph, d, lims) ==
  /\ HasTable(m, rows, cols, th, ph, d, lims)
  /\ Blank(lead) /\ t \in Streams /\ u = PrintDec(m) /\ s = lead \o (u \o t)

\* ParseMeshTable after PrintDec: the values are read by columns of the table, the limits from
\* its first line and its first column.
LEMMA TableComesBack ==
  ASSUME NEW s, NEW lead, NEW u, NEW m, NEW t, NEW rows, NEW cols, NEW th, NEW ph, NEW d, NEW lims,
         TableFollows(s, lead, u, m, t, rows, cols, th, ph, d, lims), NEW r
  PROVE  /\ Closed(u)
         /\ ParseMeshTable(s, r)
              = [value |-> m, rest |-> <<NewLine>> \o t]
<1> DEFINE ti == Line(<<Title>>)
           hd == Line(<<rows, cols>>)
           thetas == FlattenSeq(Singles(rows, th))
           tl == Line(<<Title>> \o thetas)
           l == Line(thetas)
           body == FlattenSeq(TableLines(rows, cols, ph, d))
<1>. USE DEF HasTable, TableFollows
<1>0. /\ rows \in Nat \ {0} /\ cols \in Nat \ {0}
      /\ d \in [Upto(rows * cols) -> Nat] /\ ph \in [Upto(cols) -> Nat]
      /\ th \in [Upto(rows) -> Nat]
  BY DEF IsTable
<1>1. u = ((hd \o ti) \o tl) \o body
  <2>1. \A ix \in 1 .. rows : m.grid[2][(ix - 1) * cols] = th[ix - 1]
    <3>1. \A ix \in 1 .. rows : ix - 1 \in Upto(rows)
      BY <1>0 DEF Upto
    <3> QED BY <3>1
  <2>2. \A ix \in 1 .. cols : m.grid[1][ix - 1] = ph[ix - 1]
    <3>1. \A ix \in 1 .. cols : ix - 1 \in Upto(cols)
      BY <1>0 DEF Upto
    <3> QED BY <3>1
  <2>3. Singles(rows, th) = [ix \in 1 .. rows |-> <<m.grid[2][(ix - 1) * cols]>>]
    BY <2>1 DEF Singles
  <2>4. TableLines(rows, cols, ph, d) = [ix \in 1 .. cols |->
          Line(<<m.grid[1][ix - 1]>>
               \o FlattenSeq([j \in 1 .. rows |-> <<m.data_2[(j - 1) * cols + (ix - 1)]>>]))]
    BY <2>2 DEF TableLines
  <2>5. u = ((Line(<<rows, cols>>) \o Line(<<Title>>))
             \o Line(<<Title>> \o FlattenSeq([ix \in 1 .. rows |-> <<m.grid[2][(ix - 1) * cols]>>])))
            \o FlattenSeq([ix \in 1 .. cols |->
                 Line(<<m.grid[1][ix - 1]>>
                      \o FlattenSeq([j \in 1 .. rows |-> <<m.data_2[(j - 1) * cols + (ix - 1)]>>]))])
    <3>1. u = PrintDec(m) /\ m.dimensions = <<rows, cols>>
      OBVIOUS
    <3>2. m.dimensions[1] = rows /\ m.dimensions[2] = cols
      <4> HIDE DEF HasTable, TableFollows
      <4> QED BY <3>1
    <3> HIDE DEF HasTable, TableFollows
    <3> QED BY <3>1, <3>2, Zenon DEF PrintDec, Each
  <2> QED BY <2>3, <2>4, <2>5
<1>2. Closed(ti) /\ Words(ti) = <<Title>> /\ Unbroken(<<Title>>)
  BY TitleLine
<1>3. Closed(hd) /\ Words(hd) = <<rows, cols>>
  <2>1. <<rows, cols>> \in Seq(Nat) /\ Len(<<rows, cols>>) > 0
    BY <1>0
  <2> QED BY <2>1, NatLine
<1>4. thetas \in Streams
  <2>1. thetas \in Seq(Nat)
    BY <1>0, EachSingle
  <2> QED BY <2>1 DEF Streams
<1> DEFINE w == body \o t
           s1 == l \o w
<1> HIDE DEF thetas
<1>5. /\ AfterWords(s1, rows + cols * (rows + 1)) = <<NewLine>> \o t
      /\ \A ix \in Upto(rows) : Words(s1)[ix + 1] = th[ix]
      /\ \A ix \in Upto(cols) : Words(s1)[rows + ix * (rows + 1) + 1] = ph[ix]
      /\ \A ix \in Upto(cols), j \in Upto(rows) :
           Words(s1)[rows + ix * (rows + 1) + 1 + 1 + j] = d[j * cols + ix]
      /\ Closed(body) /\ Closed(l)
  <2>1. TableStarts(s1, l, body, rows, cols, th, ph, d, t)
    BY DEF TableStarts, thetas
  <2> HIDE DEF s1, l, body
  <2> QED BY <2>1, TableIsRead
<1>6. ti \in Streams /\ hd \in Streams /\ body \in Streams /\ l \in Streams
  BY <1>2, <1>3, <1>5, ClosedText
<1> DEFINE one == <<Title>>
<1>7. tl = one \o l /\ EndsInWord(one) /\ Words(one) = one /\ Len(one) = 1 /\ one \in Streams
  <2>1. one \in Streams /\ Len(one) = 1 /\ one[1] # NewLine
    BY <1>2 DEF Unbroken, Title, NewLine
  <2>2. Words(one) = one
    BY <1>2, PlainWords
  <2> HIDE DEF one
  <2>3. EndsInWord(one)
    BY <2>1 DEF EndsInWord
  <2> DEFINE nl == <<NewLine>>
             ot == one \o thetas
  <2>4. nl \in Streams /\ ot \in Streams
    BY <1>4, <2>1, LineFacts, TextConcat
  <2> HIDE DEF nl
  <2>5. (one \o thetas) \o nl = one \o (thetas \o nl)
    BY <1>4, <2>1, <2>4, TextAssociative
  <2>6. Line(thetas) = thetas \o nl
    BY <1>4, LineFacts DEF nl
  <2>7. Line(ot) = ot \o nl
    <3> HIDE DEF ot
    <3> QED BY <2>4, LineFacts DEF nl
  <2> QED BY <2>1, <2>2, <2>3, <2>5, <2>6, <2>7 DEF one
<1>8. tl \in Streams
  <2> HIDE DEF one, tl, l
  <2>1. one \o l \in Streams
    BY <1>6, <1>7, TextConcat
  <2> QED BY <1>7, <2>1
<1> DEFINE s2 == tl \o w
           s3 == ti \o s2
<1> HIDE DEF ti, hd, tl, l, body, one
<1>9. /\ u \o t = hd \o s3 /\ w \in Streams /\ s2 \in Streams /\ s3 \in Streams /\ Closed(u)
  <2>1. AreTexts(hd, ti, tl, body, t)
    BY <1>6, <1>8 DEF AreTexts
  <2>2. /\ (((hd \o ti) \o tl) \o body) \o t = hd \o (ti \o (tl \o (body \o t)))
        /\ (hd \o ti) \o tl \in Streams
        /\ body \o t \in Streams /\ tl \o (body \o t) \in Streams /\ ti \o (tl \o (body \o t)) \in Streams
    BY <2>1, FiveParts
  <2>3. Closed(((hd \o ti) \o tl) \o body)
    BY <1>0, <1>5, <2>2, ClosedConcat
  <2> QED BY <1>1, <2>2, <2>3
<1>10. s1 \in Streams /\ s2 = one \o s1
  <2>1. w \in Streams
    BY <1>9
  <2> HIDE DEF w
  <2>2. (one \o l) \o w = one \o (l \o w)
    <3>1. \A x, y \in Streams : (one \o x) \o y = one \o (x \o y)
      BY <1>7, TextAssociative
    <3> QED BY <1>6, <2>1, <3>1
  <2> QED BY <1>6, <1>7, <2>1, <2>2, TextConcat
<1> HIDE DEF w, s1
<1>11. AfterWords(s2, 1) = s1
  <2>1. AfterWords(one \o s1, Len(Words(one))) = s1
    BY <1>7, <1>10, AfterItsWords
  <2> QED BY <1>7, <1>10, <2>1
<1> HIDE DEF s2
<1>12. AfterLine(s3) = s2
  BY <1>2, <1>9, AfterItsLine DEF ti
<1> HIDE DEF s3
<1>13. AfterLine(<<NewLine>> \o s3) = s3
  BY <1>9, NothingOnALine, AfterItsLine
<1>14. AfterWords(s, 2) = <<NewLine>> \o s3 /\ SubSeq(Words(s), 1, 2) = <<rows, cols>>
  <2>1. ReadsPart(s, lead, hd, s3)
    BY <1>3, <1>9 DEF ReadsPart
  <2>2. Len(Words(hd)) = 2
    BY <1>3
  <2> HIDE DEF HasTable, TableFollows
  <2>3. /\ AfterWords(s, Len(Words(hd))) = <<NewLine>> \o s3
        /\ SubSeq(Words(s), 1, Len(Words(hd))) = Words(hd)
    BY <2>1, ReadPart
  <2> QED BY <1>3, <2>2, <2>3
<1> DEFINE RowPlace(dims, ix) == dims[1] + ix * (dims[1] + 1) + 1
           dims == SubSeq(Words(s), 1, 2)
           v == Words(s1)
<1>15. ParseMeshTable(s, r)
                = [value |-> ConstructMeshes(dims,
                     <<v[1], v[dims[1]], v[dims[1] + 0 * (dims[1] + 1) + 1],
                       v[dims[1] + (dims[2] - 1) * (dims[1] + 1) + 1]>>,
                     [k \in Upto(dims[1] * dims[2]) |->
                        v[dims[1] + (k % dims[2]) * (dims[1] + 1) + 1 + 1 + k \div dims[2]]]),
                   rest |-> AfterWords(s1, dims[1] + dims[2] * (dims[1] + 1))]
  <2> HIDE DEF HasTable, TableFollows
  <2> QED BY <1>11, <1>12, <1>13, <1>14 DEF ParseMeshTable
<1>16. v[1] = th[0] /\ v[rows] = th[rows - 1]
  <2>1. 0 \in Upto(rows) /\ rows - 1 \in Upto(rows) /\ 0 + 1 = 1 /\ (rows - 1) + 1 = rows
    BY <1>0 DEF Upto
  <2> QED BY <1>0, <1>5, <2>1
<1>17. v[rows + 0 * (rows + 1) + 1] = ph[0] /\ v[rows + (cols - 1) * (rows + 1) + 1] = ph[cols - 1]
  <2>1. 0 \in Upto(cols) /\ cols - 1 \in Upto(cols)
    BY <1>0 DEF Upto
  <2> QED BY <1>0, <1>5, <2>1
<1> DEFINE value == [k \in Upto(rows * cols) |->
                       v[rows + (k % cols) * (rows + 1) + 1 + 1 + k \div cols]]
<1>18. value = d
  <2> SUFFICES ASSUME NEW k \in Upto(rows * cols)
               PROVE  v[rows + (k % cols) * (rows + 1) + 1 + 1 + k \div cols] = d[k]
    BY <1>0
  <2> DEFINE ix == k % cols
             j == k \div cols
  <2>1. j \in Upto(rows) /\ ix \in Upto(cols) /\ k = j * cols + ix
    BY <1>0, RowAndColumn
  <2> HIDE DEF ix, j, v
  <2>2. v[rows + ix * (rows + 1) + 1 + 1 + j] = d[j * cols + ix]
    BY <1>0, <1>5, <2>1 DEF v
  <2> QED BY <2>1, <2>2 DEF ix, j
<1> DEFINE ends == <<v[1], v[rows], v[rows + 0 * (rows + 1) + 1],
                     v[rows + (cols - 1) * (rows + 1) + 1]>>
<1>19. ParseMeshTable(s, r) = [value |-> ConstructMeshes(<<rows, cols>>, ends, value),
                                      rest |-> AfterWords(s1, rows + cols * (rows + 1))]
  <2>0. dims = <<rows, cols>>
    BY <1>14
  <2>1. dims = <<rows, cols>> /\ dims[1] = rows /\ dims[2] = cols
    <3> HIDE DEF dims
    <3> QED BY <2>0
  <2> HIDE DEF v, dims
  <2> QED BY <1>15, <2>1
<1>20. ends = lims
  <2> HIDE DEF v
  <2> QED BY <1>16, <1>17
<1> HIDE DEF ends, value, v
<1>21. ParseMeshTable(s, r) = [value |-> m, rest |-> <<NewLine>> \o t]
  <2>1. m = ConstructMeshes(<<rows, cols>>, lims, d)
    OBVIOUS
  <2> HIDE DEF HasTable, TableFollows
  <2> QED BY <1>5, <1>18, <1>19, <1>20, <2>1
<1> QED BY <1>9, <1>21

----------------------------------------------------------------------------
\* Meshes between limits.

\* The last number of a linspace is its upper limit.
LEMMA Linspace ==
  ASSUME NEW a \in Nat, NEW b \in Nat, a <= b, NEW n \in Nat \ {0, 1}, (b - a) % (n - 1) = 0
  PROVE  /\ MyLinspace(a, b, n) \in [Upto(n) -> Nat]
         /\ MyLinspace(a, b, n)[0] = a /\ MyLinspace(a, b, n)[n - 1] = b
<1> DEFINE m == n - 1
           x == b - a
           q == x \div m
           f == [ix \in Upto(n) |-> a + ix * q]
<1>1. m \in Nat \ {0} /\ x \in Nat /\ x % m = 0
  OBVIOUS
<1> HIDE DEF m, x
<1>2. q \in Nat /\ x = m * q
  BY <1>1
<1> HIDE DEF q
<1>3. \A ix \in Upto(n) : a + ix * q \in Nat
  <2>1. \A ix \in Upto(n) : ix \in Nat
    BY DEF Upto
  <2>2. \A ix \in Nat : ix * q \in Nat
    BY <1>2, Z3
  <2> QED BY <2>1, <2>2
<1>4. f \in [Upto(n) -> Nat]
  BY <1>3
<1>5. f[0] = a
  <2>1. 0 \in Upto(n) /\ 0 * q = 0
    BY <1>2, Z3 DEF Upto
  <2> QED BY <2>1
<1>6. f[m] = b
  <2>1. m \in Upto(n) /\ a + x = b
    BY DEF Upto, m, x
  <2> QED BY <1>2, <2>1
<1>7. MyLinspace(a, b, n) = f
  BY DEF MyLinspace, q, x, m
<1> QED BY <1>4, <1>5, <1>6, <1>7 DEF m

\* The grid of a mesh begins and ends with its limits, so that the table shows them.
LEMMA MeshOfLimits ==
  ASSUME NEW rows \in Nat \ {0, 1}, NEW cols \in Nat \ {0, 1},
         NEW d, d \in [Upto(rows * cols) -> Nat], NEW lims, Fits(lims, rows, cols),
         NEW th, th = MyLinspace(lims[1], lims[2], rows),
         NEW ph, ph = MyLinspace(lims[3], lims[4], cols),
         NEW m, m = ConstructMeshes(<<rows, cols>>, lims, d)
  PROVE  HasTable(m, rows, cols, th, ph, d, lims)
<1>1. /\ lims \in Seq(Nat) /\ Len(lims) = 4 /\ lims[1] < lims[2] /\ lims[3] < lims[4]
      /\ (lims[2] - lims[1]) % (rows - 1) = 0 /\ (lims[4] - lims[3]) % (cols - 1) = 0
  BY DEF Fits
<1>2. lims[1] \in Nat /\ lims[2] \in Nat /\ lims[3] \in Nat /\ lims[4] \in Nat
  <2>1. \A ix \in 1 .. Len(lims) : lims[ix] \in Nat
    BY <1>1, ElementOfSeq
  <2> QED BY <1>1, <2>1
<1>3. /\ th \in [Upto(rows) -> Nat] /\ th[0] = lims[1] /\ th[rows - 1] = lims[2]
      /\ ph \in [Upto(cols) -> Nat] /\ ph[0] = lims[3] /\ ph[cols - 1] = lims[4]
  <2> DEFINE a == lims[1]
             b == lims[2]
             x == lims[3]
             y == lims[4]
  <2>1. /\ a \in Nat /\ b \in Nat /\ a <= b /\ (b - a) % (rows - 1) = 0
        /\ x \in Nat /\ y \in Nat /\ x <= y /\ (y - x) % (cols - 1) = 0
    BY <1>1, <1>2
  <2>2. th = MyLinspace(a, b, rows) /\ ph = MyLinspace(x, y, cols)
    OBVIOUS
  <2> HIDE DEF a, b, x, y
  <2>3. th \in [Upto(rows) -> Nat] /\ th[0] = a /\ th[rows - 1] = b
    BY <2>1, <2>2, Linspace
  <2>4. ph \in [Upto(cols) -> Nat] /\ ph[0] = x /\ ph[cols - 1] = y
    BY <2>1, <2>2, Linspace
  <2> QED BY <2>3, <2>4 DEF a, b, x, y
<1>4. IsTable(rows, cols, th, ph, d)
  BY <1>3 DEF IsTable
<1> DEFINE g1 == [ix \in Upto(cols * rows) |-> ph[ix % cols]]
           g2 == [ix \in Upto(cols * rows) |-> th[ix \div cols]]
<1>5. m.dimensions = <<rows, cols>> /\ m.data_2 = d /\ m.grid[1] = g1 /\ m.grid[2] = g2
  BY DEF ConstructMeshes, MyMeshGrid
<1> HIDE DEF g1, g2
<1>6. ASSUME NEW ix \in Upto(rows) PROVE m.grid[2][ix * cols] = th[ix]
  <2>1. ix \in Nat /\ ix * cols \in Nat /\ ix * cols < cols * rows /\ (ix * cols) \div cols = ix
    <3>1. ix \in 0 .. (rows - 1) /\ ix \in Nat
      BY DEF Upto
    <3>2. \A x, y \in Nat : x * y \in Nat /\ x * y = y * x
      BY Z3
    <3>3. ix * cols < rows * cols
      BY <3>1, Z3
    <3>4. \A y \in Nat \ {0} : (ix * y) \div y = ix
      BY <3>1, Z3
    <3> QED BY <3>1, <3>2, <3>3, <3>4
  <2>2. ix * cols \in Upto(cols * rows)
    <3> DEFINE x == ix * cols
               k == cols * rows
    <3>1. x \in Nat /\ k \in Nat /\ x < k
      <4>1. cols * rows \in Nat
        BY Z3
      <4> QED BY <2>1, <4>1
    <3> HIDE DEF x, k
    <3>2. x \in Upto(k)
      BY <3>1 DEF Upto
    <3> QED BY <3>2 DEF x, k
  <2> DEFINE x == ix * cols
  <2> HIDE DEF x
  <2>3. g2[x] = th[x \div cols]
    BY <2>2 DEF g2, x
  <2> QED BY <1>5, <2>1, <2>3 DEF x
<1>7. ASSUME NEW ix \in Upto(cols) PROVE m.grid[1][ix] = ph[ix]
  <2>1. ix \in 0 .. (cols - 1)
    BY DEF Upto
  <2>2. ix % cols = ix
    BY <2>1, Z3
  <2>3. ix \in Upto(cols * rows)
    <3> DEFINE k == cols * rows
    <3>1. cols <= k /\ k \in Nat
      BY Z3
    <3> HIDE DEF k
    <3>2. ix \in Upto(k)
      BY <2>1, <3>1 DEF Upto
    <3> QED BY <3>2 DEF k
  <2> QED BY <1>5, <2>2, <2>3 DEF g1
<1>8. <<th[0], th[rows - 1], ph[0], ph[cols - 1]>> = lims
  <2> DEFINE v == <<th[0], th[rows - 1], ph[0], ph[cols - 1]>>
  <2>1. /\ v \in Seq(Nat) /\ Len(v) = 4
        /\ v[1] = lims[1] /\ v[2] = lims[2] /\ v[3] = lims[3] /\ v[4] = lims[4]
    BY <1>2, <1>3
  <2> HIDE DEF v
  <2>2. \A ix \in 1 .. 4 : ix \in {1, 2, 3, 4}
    OBVIOUS
  <2>3. \A ix \in 1 .. Len(v) : v[ix] = lims[ix]
    BY <2>1, <2>2
  <2>4. v \in Streams /\ lims \in Streams /\ Len(v) = Len(lims)
    BY <1>1, <2>1 DEF Streams
  <2>5. v = lims
    BY <2>3, <2>4, TextEqual
  <2> QED BY <2>5 DEF v
<1> QED BY <1>4, <1>5, <1>6, <1>7, <1>8 DEF HasTable

----------------------------------------------------------------------------
\* Records.

IsCoordinates(r) ==
  /\ r.what = "coordinates" /\ r.io \in {"SERIALIZABLE", "HUMAN_READABLE"}
  /\ \E n \in Nat \ {0} : r.value \in [Upto(2 * n) -> Nat]
IsSolution(r) ==
  /\ r.what = "solution" /\ r.io \in {"SERIALIZABLE", "HUMAN_READABLE"}
  /\ \E n \in Nat \ {0} : r.value \in [Upto(4 * n) -> Nat]
IsMatrix(r) ==
  /\ r.what = "matrix" /\ r.io = "SERIALIZABLE"
  /\ \E rows, cols \in Nat \ {0} : \E d \in [Upto(rows * cols) -> Nat] :
       r.value = [dimensions |-> <<rows, cols>>, data |-> d]
IsMesh(r) ==
  /\ r.what = "mesh" /\ r.io \in {"SERIALIZABLE", "HUMAN_READABLE"}
  /\ \E rows, cols \in Nat \ {0, 1} : \E d \in [Upto(rows * cols) -> Nat] :
       /\ Fits(Limits, rows, cols) /\ r.value = ConstructMeshes(<<rows, cols>>, Limits, d)
IsRecord(r) == IsCoordinates(r) \/ IsSolution(r) \/ IsMatrix(r) \/ IsMesh(r)

ForPeople(r) == r.what = "coordinates" /\ r.io = "HUMAN_READABLE"

\* A record is closed, and it comes back.
ComesBack(r, s, t) == Parsed(s, r) = [value |-> r.value, rest |-> <<NewLine>> \o t]

\* Coordinates, but those for people that are not first.
LEMMA CoordinateRecord ==
  ASSUME NEW r, IsCoordinates(r), NEW lead, lead \in {<< >>, <<NewLine>>}, NEW t \in Streams
  PROVE  /\ Closed(Printed(r))
         /\ ForPeople(r) /\ lead # << >> => ParserThrows(lead \o (Printed(r) \o t), r)
         /\ ~ (ForPeople(r) /\ lead # << >>) =>
              /\ ComesBack(r, lead \o (Printed(r) \o t), t)
              /\ ~ ParserThrows(lead \o (Printed(r) \o t), r)
<1> DEFINE u == Printed(r)
           s == lead \o (u \o t)
<1>1. PICK n \in Nat \ {0} : r.value \in [Upto(2 * n) -> Nat]
  BY DEF IsCoordinates
<1>2. r.what = "coordinates" /\ r.io \in {"SERIALIZABLE", "HUMAN_READABLE"}
  BY DEF IsCoordinates
<1>3. Blank(lead)
  BY BlankTexts
<1>4. CASE r.io = "HUMAN_READABLE"
  <2>1. u = PrintCoordinates2(r.value) /\ Parsed(s, r) = ParseCoordinates(s, r) /\ ForPeople(r)
    BY <1>2, <1>4, Zenon DEF Printed, Parsed, ForPeople
  <2> HIDE DEF u
  <2> DEFINE c == r.value
  <2>2. /\ Closed(u)
        /\ \A x : ParseCoordinates(u \o t, x) = [value |-> c, rest |-> <<NewLine>> \o t]
        /\ Words(AfterLine(u \o t))[1] = n
        /\ Words(AfterLine(<<NewLine>> \o (u \o t)))[1] = Title
    <3>1. c \in [Upto(2 * n) -> Nat] /\ u = PrintCoordinates2(c)
      BY <1>1, <2>1
    <3> HIDE DEF c
    <3>2. CoordinatesFirst(u, n, c, t)
      BY <3>1 DEF CoordinatesFirst
    <3> QED BY <3>2, CoordinatesComeBack
  <2>3. << >> \o (u \o t) = u \o t
    <3>1. u \o t \in Streams
      BY <2>2, ClosedText, TextConcat
    <3> QED BY <3>1, TextFacts
  <2>4. CASE lead = << >>
    <3>1. s = u \o t
      BY <2>3, <2>4
    <3>2. ~ ParserThrows(s, r)
      <4>1. n # Title
        BY <1>1 DEF Title
      <4> QED BY <2>2, <3>1, <4>1 DEF ParserThrows
    <3> QED BY <2>1, <2>2, <2>4, <3>1, <3>2 DEF ComesBack, u
  <2>5. CASE lead = <<NewLine>>
    <3>1. lead # << >>
      BY <2>5
    <3>2. ParserThrows(s, r)
      BY <1>2, <1>4, <2>2, <2>5 DEF ParserThrows
    <3> QED BY <2>1, <2>2, <3>1, <3>2 DEF u
  <2> QED BY <2>4, <2>5
<1>5. CASE r.io = "SERIALIZABLE"
  <2>1. u = OneDimSerialize(r) /\ Parsed(s, r) = ParseOneDim(s, r) /\ ~ ForPeople(r)
        /\ ~ ParserThrows(s, r)
    <3>1. r.io # "HUMAN_READABLE" /\ r.what # "matrix" /\ r.what # "mesh"
      BY <1>2, <1>5
    <3> QED BY <3>1, Zenon DEF Printed, Parsed, ForPeople, ParserThrows
  <2> HIDE DEF u
  <2>2. 2 * n \in Nat \ {0}
    OBVIOUS
  <2>3. /\ Closed(u)
        /\ ParseOneDim(lead \o (u \o t), r) = [value |-> r.value, rest |-> <<NewLine>> \o t]
    BY <1>1, <1>3, <2>1, <2>2, OneDimComesBack
  <2> QED BY <2>1, <2>3 DEF ComesBack, u
<1> QED BY <1>2, <1>4, <1>5

\* Solutions, for people and for programs.
LEMMA SolutionRecord ==
  ASSUME NEW r, IsSolution(r), NEW lead, Blank(lead), NEW t \in Streams
  PROVE  /\ Closed(Printed(r)) /\ ComesBack(r, lead \o (Printed(r) \o t), t)
<1> DEFINE u == Printed(r)
           s == lead \o (u \o t)
<1>1. PICK n \in Nat \ {0} : r.value \in [Upto(4 * n) -> Nat]
  BY DEF IsSolution
<1>2. r.what = "solution" /\ r.io \in {"SERIALIZABLE", "HUMAN_READABLE"}
  BY DEF IsSolution
<1>3. CASE r.io = "HUMAN_READABLE"
  <2>1. u = PrintSolutionFormat1(r.value) /\ Parsed(s, r) = ParseSolution(s, r)
    <3>1. r.what # "coordinates"
      BY <1>2
    <3> QED BY <1>2, <1>3, <3>1, Zenon DEF Printed, Parsed
  <2> HIDE DEF u
  <2> DEFINE c == r.value
  <2>2. /\ Closed(u)
        /\ \A x : ParseSolution(lead \o (u \o t), x) = [value |-> c, rest |-> <<NewLine>> \o t]
    <3>1. c \in [Upto(4 * n) -> Nat] /\ u = PrintSolutionFormat1(c)
      BY <1>1, <2>1
    <3> HIDE DEF c
    <3> QED BY <1>1, <3>1, SolutionComesBack
  <2> QED BY <2>1, <2>2 DEF ComesBack, u
<1>4. CASE r.io = "SERIALIZABLE"
  <2>1. u = OneDimSerialize(r) /\ Parsed(s, r) = ParseOneDim(s, r)
    <3>1. r.io # "HUMAN_READABLE" /\ r.what # "matrix" /\ r.what # "mesh"
      BY <1>2, <1>4
    <3> QED BY <3>1, Zenon DEF Printed, Parsed
  <2> HIDE DEF u
  <2>2. 4 * n \in Nat \ {0}
    OBVIOUS
  <2>3. /\ Closed(u)
        /\ ParseOneDim(lead \o (u \o t), r) = [value |-> r.value, rest |-> <<NewLine>> \o t]
    BY <1>1, <2>1, <2>2, OneDimComesBack
  <2> QED BY <2>1, <2>3 DEF ComesBack, u
<1> QED BY <1>2, <1>3, <1>4

\* Matrices.
LEMMA MatrixRecord ==
  ASSUME NEW r, IsMatrix(r), NEW lead, Blank(lead), NEW t \in Streams
  PROVE  /\ Closed(Printed(r)) /\ ComesBack(r, lead \o (Printed(r) \o t), t)
<1> DEFINE u == Printed(r)
           s == lead \o (u \o t)
<1>0. PICK rows \in Nat \ {0}, cols \in Nat \ {0} :
        \E d \in [Upto(rows * cols) -> Nat] : r.value = [dimensions |-> <<rows, cols>>, data |-> d]
  BY DEF IsMatrix
<1>1. PICK d \in [Upto(rows * cols) -> Nat] : r.value = [dimensions |-> <<rows, cols>>, data |-> d]
  BY <1>0
<1>2. u = MatrixPrint2D(r) /\ Parsed(s, r) = ParseMatrix(s, r)
  <2>1. r.what = "matrix" /\ r.io = "SERIALIZABLE"
    BY DEF IsMatrix
  <2>2. r.what # "coordinates" /\ r.what # "solution" /\ r.what # "mesh" /\ r.io # "HUMAN_READABLE"
    BY <2>1
  <2> QED BY <2>1, <2>2, Zenon DEF Printed, Parsed
<1> HIDE DEF u
<1>3. /\ Closed(u)
      /\ ParseMatrix(lead \o (u \o t), r) = [value |-> r.value, rest |-> <<NewLine>> \o t]
  BY <1>1, <1>2, MatrixComesBack
<1> QED BY <1>2, <1>3 DEF ComesBack, u

\* Meshes, for people and for programs.
LEMMA MeshRecord ==
  ASSUME NEW r, IsMesh(r), NEW lead, Blank(lead), NEW t \in Streams
  PROVE  /\ Closed(Printed(r)) /\ ComesBack(r, lead \o (Printed(r) \o t), t)
<1> DEFINE u == Printed(r)
           s == lead \o (u \o t)
           m == r.value
<1>0. PICK rows \in Nat \ {0, 1}, cols \in Nat \ {0, 1} :
        \E d \in [Upto(rows * cols) -> Nat] :
          Fits(Limits, rows, cols) /\ m = ConstructMeshes(<<rows, cols>>, Limits, d)
  BY DEF IsMesh
<1>1. PICK d \in [Upto(rows * cols) -> Nat] :
        Fits(Limits, rows, cols) /\ m = ConstructMeshes(<<rows, cols>>, Limits, d)
  BY <1>0
<1>2. r.what = "mesh" /\ r.io \in {"SERIALIZABLE", "HUMAN_READABLE"}
  BY DEF IsMesh
<1>3. CASE r.io = "HUMAN_READABLE"
  <2>1. u = PrintDec(m) /\ Parsed(s, r) = ParseMeshTable(s, r)
    <3>1. r.what # "coordinates" /\ r.what # "solution" /\ r.what # "matrix"
      BY <1>2
    <3> QED BY <1>2, <1>3, <3>1, Zenon DEF Printed, Parsed
  <2> DEFINE th == MyLinspace(Limits[1], Limits[2], rows)
             ph == MyLinspace(Limits[3], Limits[4], cols)
  <2> HIDE DEF u, m, th, ph
  <2>2. HasTable(m, rows, cols, th, ph, d, Limits)
    BY <1>1, MeshOfLimits DEF th, ph
  <2>3. Closed(u) /\ ParseMeshTable(s, r) = [value |-> m, rest |-> <<NewLine>> \o t]
    <3>1. TableFollows(s, lead, u, m, t, rows, cols, th, ph, d, Limits)
      BY <2>1, <2>2 DEF TableFollows, u
    <3> HIDE DEF s
    <3> QED BY <3>1, TableComesBack
  <2> QED BY <1>1, <2>1, <2>3 DEF ComesBack, u, m
<1>4. CASE r.io = "SERIALIZABLE"
  <2>1. u = PrintMesh(r) /\ Parsed(s, r) = ParseMeshSerialized(s, r)
    <3>1. /\ r.what # "coordinates" /\ r.what # "solution" /\ r.what # "matrix"
          /\ r.io # "HUMAN_READABLE"
      BY <1>2, <1>4
    <3> QED BY <1>2, <1>4, <3>1, Zenon DEF Printed, Parsed
  <2> HIDE DEF u
  <2>2. rows \in Nat \ {0} /\ cols \in Nat \ {0} /\ Limits \in Seq(Nat) /\ Len(Limits) = 4
    BY <1>1 DEF Fits
  <2>3. /\ Closed(u)
        /\ ParseMeshSerialized(lead \o (u \o t), r) = [value |-> r.value, rest |-> <<NewLine>> \o t]
    BY <1>1, <2>1, <2>2, MeshComesBack
  <2> QED BY <2>1, <2>3 DEF ComesBack, u
<1> QED BY <1>2, <1>3, <1>4

----------------------------------------------------------------------------
\* Documents.

\* A document gives its numbers back, with the size or without.
LEMMA JsonOfNumbers ==
  ASSUME NEW k \in Nat \ {0}, NEW a, a \in [Upto(k) -> Nat], NEW print_size \in BOOLEAN
  PROVE  JsonToContinuous(ContinuousToJson(a, print_size), k) = a
<1> DEFINE json == ContinuousToJson(a, print_size)
           one == <<k>>
<1>1. /\ Cardinality(DOMAIN a) = k
      /\ Row(a) \in Seq(Nat) /\ Len(Row(a)) = k /\ \A ix \in Upto(k) : Row(a)[ix + 1] = a[ix]
  BY RowIs
<1>2. one # << >> /\ one[1] = k
  OBVIOUS
<1>3. json.data = Row(a) /\ json.size = IF print_size THEN one ELSE << >>
  BY <1>1 DEF ContinuousToJson
<1> HIDE DEF json, one
<1>4. (IF json.size = << >> THEN k ELSE json.size[1]) = k
  <2>1. CASE print_size
    <3>1. json.size = one
      BY <1>3, <2>1
    <3> QED BY <1>2, <3>1
  <2>2. CASE ~ print_size
    BY <1>3, <2>2
  <2> QED BY <2>1, <2>2
<1>5. JsonToContinuous(json, k) = [ix \in Upto(k) |-> json.data[ix + 1]]
  BY <1>4 DEF JsonToContinuous
<1> QED BY <1>1, <1>3, <1>5 DEF json

\* A document gives a mesh back; what it leaves out is an option.
LEMMA JsonOfMesh ==
  ASSUME NEW r, IsMesh(r)
  PROVE  FromJson(ToJson(r), r) = r.value
<1>1. PICK rows \in Nat \ {0, 1}, cols \in Nat \ {0, 1} :
        \E d \in [Upto(rows * cols) -> Nat] :
          Fits(Limits, rows, cols) /\ r.value = ConstructMeshes(<<rows, cols>>, Limits, d)
  BY DEF IsMesh
<1>2. PICK d \in [Upto(rows * cols) -> Nat] :
        Fits(Limits, rows, cols) /\ r.value = ConstructMeshes(<<rows, cols>>, Limits, d)
  BY <1>1
<1> DEFINE two == <<rows, cols>>
           json == ToJson(r)
           k == rows * cols
           dims == IF json.dimensions = << >> THEN r.value.dimensions ELSE json.dimensions
           lims == IF json.limits = << >> THEN r.value.limits ELSE json.limits
<1>3. r.value.dimensions = two /\ r.value.limits = Limits /\ r.value.data_2 = d
  BY <1>2 DEF ConstructMeshes
<1>4. two[1] = rows /\ two[2] = cols /\ two # << >>
  OBVIOUS
<1>5. Limits # << >>
  <2>1. Limits \in Seq(Nat) /\ Len(Limits) = 4
    BY <1>2 DEF Fits
  <2>2. Len(<< >>) = 0
    OBVIOUS
  <2> QED BY <2>1, <2>2
<1> HIDE DEF two
<1>6. /\ json.dimensions = (IF "dims" \in r.header THEN two ELSE << >>)
      /\ json.limits = (IF "lims" \in r.header THEN Limits ELSE << >>)
      /\ json.data = ContinuousToJson(d, FALSE)
  BY <1>3 DEF ToJson
<1> HIDE DEF json
<1>7. dims = two
  BY <1>3, <1>4, <1>6
<1>8. lims = Limits
  BY <1>3, <1>5, <1>6
<1>9. FromJson(json, r) = ConstructMeshes(dims, lims, JsonToContinuous(json.data, dims[1] * dims[2]))
  BY DEF FromJson
<1> HIDE DEF dims, lims
<1>10. JsonToContinuous(ContinuousToJson(d, FALSE), k) = d
  <2>1. k \in Nat \ {0} /\ d \in [Upto(k) -> Nat] /\ FALSE \in BOOLEAN
    <3>1. k \in Nat \ {0}
      BY Z3
    <3> QED BY <3>1
  <2> HIDE DEF k
  <2> QED BY <2>1, JsonOfNumbers
<1>11. dims[1] * dims[2] = k
  BY <1>4, <1>7
<1> HIDE DEF k
<1> QED BY <1>2, <1>6, <1>7, <1>8, <1>9, <1>10, <1>11 DEF two, json

----------------------------------------------------------------------------
\* The stream.

Arrays == UNION {[Upto(k) -> Nat] : k \in Nat}
RecordValues == Arrays
  \union {[dimensions |-> p, data |-> a] : p \in Nat \X Nat, a \in Arrays}
  \union {ConstructMeshes(p, Limits, a) : p \in Nat \X Nat, a \in Arrays}
GoodRecords ==
  {r \in [what : {"coordinates", "solution", "matrix", "mesh"},
          io : {"SERIALIZABLE", "HUMAN_READABLE"}, header : SUBSET {"size", "dims", "lims"},
          value : RecordValues] : IsRecord(r)}

\* What Write writes is a record.
LEMMA RecordIsGood ==
  ASSUME RecordsAssumption, place \in Nat, Len(written) \in Nat, NEW s \in Shapes
  PROVE  Record(s) \in GoodRecords
<1> DEFINE r == Record(s)
           n == s.dims[1]
           k == s.dims[1] * s.dims[2]
<1>1. ASSUME NEW m \in Nat PROVE Filled(m) \in [Upto(m) -> Nat] /\ Filled(m) \in Arrays
  <2>1. \A ix \in Upto(m) : 100 * (1 + place + Len(written)) + ix \in Nat
    BY DEF Upto
  <2>2. Filled(m) \in [Upto(m) -> Nat]
    BY <2>1 DEF Filled
  <2> QED BY <2>2 DEF Arrays
<1> DEFINE v == CASE s.what = "coordinates" -> Filled(2 * s.dims[1])
                  [] s.what = "solution" -> Filled(4 * s.dims[1])
                  [] s.what = "matrix" ->
                       [dimensions |-> s.dims, data |-> Filled(s.dims[1] * s.dims[2])]
                  [] s.what = "mesh" ->
                       ConstructMeshes(s.dims, Limits, Filled(s.dims[1] * s.dims[2]))
<1>2. /\ r.what = s.what /\ r.io = s.io /\ r.header = s.header /\ r.value = v
      /\ r = [what |-> s.what, io |-> s.io, header |-> s.header, value |-> v]
  <2>1. r = [what |-> s.what, io |-> s.io, header |-> s.header, value |-> v]
    BY Zenon DEF Record
  <2> HIDE DEF r, v
  <2> QED BY <2>1
<1>3. /\ s.what = "coordinates" => r.value = Filled(2 * s.dims[1])
      /\ s.what = "solution" => r.value = Filled(4 * s.dims[1])
      /\ s.what = "matrix" => r.value = [dimensions |-> s.dims, data |-> Filled(k)]
      /\ s.what = "mesh" => r.value = ConstructMeshes(s.dims, Limits, Filled(k))
  <2>1. /\ "coordinates" # "solution" /\ "coordinates" # "matrix" /\ "coordinates" # "mesh"
        /\ "solution" # "matrix" /\ "solution" # "mesh" /\ "matrix" # "mesh"
    OBVIOUS
  <2>2. /\ s.what = "coordinates" => v = Filled(2 * s.dims[1])
        /\ s.what = "solution" => v = Filled(4 * s.dims[1])
        /\ s.what = "matrix" => v = [dimensions |-> s.dims, data |-> Filled(k)]
        /\ s.what = "mesh" => v = ConstructMeshes(s.dims, Limits, Filled(k))
    BY <2>1, Zenon
  <2> HIDE DEF v, r
  <2> QED BY <1>2, <2>2
<1> HIDE DEF v
<1>4. /\ s.io \in {"SERIALIZABLE", "HUMAN_READABLE"} /\ s.header \in SUBSET {"size", "dims", "lims"}
      /\ \/ s.what \in {"coordinates", "solution"} /\ s.dims \in Counts \X {1}
         \/ s.what = "matrix" /\ s.io = "SERIALIZABLE" /\ s.dims \in Dims
         \/ s.what = "mesh" /\ s.dims \in Dims
  BY DEF Shapes
<1> HIDE DEF r, k
<1> DEFINE w == r.value
<1>10. ASSUME IsRecord(r), w \in RecordValues PROVE r \in GoodRecords
  <2>1. s.what \in {"coordinates", "solution", "matrix", "mesh"}
    BY <1>4
  <2>2. r = [what |-> s.what, io |-> s.io, header |-> s.header, value |-> w]
    BY <1>2
  <2> HIDE DEF w
  <2> QED BY <1>4, <1>10, <2>1, <2>2 DEF GoodRecords
<1>5. CASE s.what \in {"coordinates", "solution"} /\ s.dims \in Counts \X {1}
  <2>1. n \in Nat \ {0}
    BY <1>5 DEF RecordsAssumption
  <2>2. /\ 2 * n \in Nat /\ 4 * n \in Nat
    BY <2>1
  <2> HIDE DEF n
  <2>3. IsRecord(r) /\ r.value \in Arrays
    <3>1. CASE s.what = "coordinates"
      <4>1. r.value = Filled(2 * n)
        BY <1>3, <3>1 DEF n
      <4>2. r.value \in [Upto(2 * n) -> Nat] /\ r.value \in Arrays
        BY <1>1, <2>2, <4>1
      <4> QED BY <1>2, <1>4, <2>1, <3>1, <4>2 DEF IsRecord, IsCoordinates
    <3>2. CASE s.what = "solution"
      <4>1. r.value = Filled(4 * n)
        BY <1>3, <3>2 DEF n
      <4>2. r.value \in [Upto(4 * n) -> Nat] /\ r.value \in Arrays
        BY <1>1, <2>2, <4>1
      <4> QED BY <1>2, <1>4, <2>1, <3>2, <4>2 DEF IsRecord, IsSolution
    <3> QED BY <1>5, <3>1, <3>2
  <2>4. w \in RecordValues
    BY <2>3 DEF RecordValues
  <2> QED BY <1>10, <2>3, <2>4, Zenon DEF r
<1>6. ASSUME s.dims \in Dims
      PROVE  /\ s.dims \in Nat \X Nat /\ Fits(Limits, s.dims[1], s.dims[2])
             /\ s.dims[1] \in Nat \ {0, 1} /\ s.dims[2] \in Nat \ {0, 1}
             /\ s.dims = <<s.dims[1], s.dims[2]>>
             /\ Filled(k) \in [Upto(s.dims[1] * s.dims[2]) -> Nat] /\ Filled(k) \in Arrays
  <2>1. s.dims \in (Nat \ {0, 1}) \X (Nat \ {0, 1}) /\ Fits(Limits, s.dims[1], s.dims[2])
    BY <1>6 DEF RecordsAssumption
  <2>2. /\ s.dims[1] \in Nat \ {0, 1} /\ s.dims[2] \in Nat \ {0, 1}
        /\ s.dims = <<s.dims[1], s.dims[2]>> /\ s.dims \in Nat \X Nat
    BY <2>1
  <2>3. k \in Nat
    BY <2>2, Z3 DEF k
  <2>4. Filled(k) \in [Upto(k) -> Nat] /\ Filled(k) \in Arrays
    BY <1>1, <2>3
  <2> QED BY <2>1, <2>2, <2>4 DEF k
<1>7. CASE s.what = "matrix" /\ s.io = "SERIALIZABLE" /\ s.dims \in Dims
  <2> DEFINE p == s.dims
             rows == p[1]
             cols == p[2]
             d == Filled(k)
  <2>1. r.value = [dimensions |-> p, data |-> d]
    BY <1>3, <1>7
  <2>2. /\ p \in Nat \X Nat /\ rows \in Nat \ {0} /\ cols \in Nat \ {0} /\ p = <<rows, cols>>
        /\ d \in [Upto(rows * cols) -> Nat] /\ d \in Arrays
    BY <1>6, <1>7
  <2> HIDE DEF p, rows, cols, d
  <2>3. IsMatrix(r)
    BY <1>2, <1>7, <2>1, <2>2 DEF IsMatrix
  <2>4. r.value \in RecordValues
    BY <2>1, <2>2 DEF RecordValues
  <2>5. IsRecord(r)
    BY <2>3 DEF IsRecord
  <2> QED BY <1>10, <2>4, <2>5, Zenon DEF r
<1>8. CASE s.what = "mesh" /\ s.dims \in Dims
  <2> DEFINE p == s.dims
             rows == p[1]
             cols == p[2]
             d == Filled(k)
  <2>1. r.value = ConstructMeshes(p, Limits, d)
    BY <1>3, <1>8
  <2>2. /\ p \in Nat \X Nat /\ rows \in Nat \ {0, 1} /\ cols \in Nat \ {0, 1} /\ p = <<rows, cols>>
        /\ d \in [Upto(rows * cols) -> Nat] /\ d \in Arrays /\ Fits(Limits, rows, cols)
    BY <1>6, <1>8
  <2> HIDE DEF p, rows, cols, d
  <2>3. IsMesh(r)
    BY <1>2, <1>4, <1>8, <2>1, <2>2 DEF IsMesh
  <2>4. r.value \in RecordValues
    BY <2>1, <2>2 DEF RecordValues
  <2>5. IsRecord(r)
    BY <2>3 DEF IsRecord
  <2> QED BY <1>10, <2>4, <2>5, Zenon DEF r
<1> QED BY <1>4, <1>5, <1>7, <1>8 DEF r

\* Everything that was written and not read.
PrintedAll(w) == [ix \in 1 .. Len(w) |-> Printed(w[ix])]

\* A printed record ends in a word and its line end.
LEMMA PrintedIsClosed ==
  ASSUME NEW r, IsRecord(r)
  PROVE  Closed(Printed(r)) /\ Printed(r) \in Streams
<1>1. << >> \in Streams /\ << >> \in {<< >>, <<NewLine>>} /\ Blank(<< >>)
  BY BlankTexts DEF Streams
<1>2. Closed(Printed(r))
  BY <1>1, CoordinateRecord, SolutionRecord, MatrixRecord, MeshRecord DEF IsRecord
<1> QED BY <1>2, ClosedText

LEMMA PrintedAllType ==
  ASSUME NEW w \in Seq(GoodRecords)
  PROVE  PrintedAll(w) \in Seq(Streams) /\ FlattenSeq(PrintedAll(w)) \in Streams
<1>1. \A ix \in 1 .. Len(w) : w[ix] \in GoodRecords
  BY ElementOfSeq
<1>2. \A ix \in 1 .. Len(w) : Printed(w[ix]) \in Streams
  BY <1>1, PrintedIsClosed DEF GoodRecords
<1>3. Len(w) \in Nat
  BY LenProperties
<1>4. PrintedAll(w) \in [1 .. Len(w) -> Streams]
  BY <1>2 DEF PrintedAll
<1>5. PrintedAll(w) \in Seq(Streams)
  BY <1>3, <1>4, IsASeq
<1> QED BY <1>5, FlattenType

LEMMA PrintedAllAppend ==
  ASSUME NEW w \in Seq(GoodRecords), NEW r \in GoodRecords
  PROVE  FlattenSeq(PrintedAll(Append(w, r))) = FlattenSeq(PrintedAll(w)) \o Printed(r)
<1> DEFINE n == Len(w)
           v == Append(w, r)
           p == PrintedAll(w)
           u == Printed(r)
           q == Append(p, u)
<1>1. /\ n \in Nat /\ Len(v) = n + 1 /\ (\A ix \in 1 .. n : v[ix] = w[ix]) /\ v[n + 1] = r
  BY LenProperties, AppendProperties
<1>2. p \in Seq(Streams) /\ u \in Streams
  BY PrintedAllType, PrintedIsClosed DEF GoodRecords
<1>3. Len(p) = n /\ \A ix \in 1 .. n : p[ix] = Printed(w[ix])
  <2>1. p \in Seq(Streams) /\ DOMAIN p = 1 .. n
    BY <1>2 DEF PrintedAll
  <2>2. Len(p) = n
    <3> HIDE DEF p, n
    <3>1. Len(p) \in Nat /\ DOMAIN p = 1 .. Len(p)
      BY <2>1, LenProperties
    <3> QED BY <1>1, <2>1, <3>1
  <2> QED BY <2>2 DEF PrintedAll
<1> HIDE DEF n, v, p, u
<1>4. /\ q \in Seq(Streams) /\ Len(q) = n + 1 /\ (\A ix \in 1 .. n : q[ix] = p[ix]) /\ q[n + 1] = u
  <2>1. /\ q \in Seq(Streams) /\ Len(q) = Len(p) + 1 /\ (\A ix \in 1 .. Len(p) : q[ix] = p[ix])
        /\ q[Len(p) + 1] = u
    BY <1>2, AppendProperties
  <2> HIDE DEF q
  <2> QED BY <1>3, <2>1
<1> HIDE DEF q
<1>5. q = PrintedAll(v)
  <2>1. \A ix \in 1 .. (n + 1) : q[ix] = Printed(v[ix])
    <3> SUFFICES ASSUME NEW ix \in 1 .. (n + 1) PROVE q[ix] = Printed(v[ix])
      OBVIOUS
    <3>1. CASE ix \in 1 .. n
      <4>1. v[ix] = w[ix] /\ q[ix] = p[ix] /\ p[ix] = Printed(w[ix])
        BY <1>1, <1>3, <1>4, <3>1
      <4> QED BY <4>1
    <3>2. CASE ix = n + 1
      BY <1>1, <1>4, <3>2 DEF u
    <3> QED BY <1>1, <3>1, <3>2
  <2>2. q = [ix \in 1 .. (n + 1) |-> q[ix]]
    <3>1. DOMAIN q = 1 .. Len(q) /\ q = [ix \in 1 .. Len(q) |-> q[ix]]
      BY <1>4
    <3> QED BY <1>4, <3>1
  <2> QED BY <1>1, <2>1, <2>2 DEF PrintedAll
<1>6. FlattenSeq(q) = FlattenSeq(p) \o u
  BY <1>2, FlattenAppend DEF q
<1> QED BY <1>5, <1>6 DEF v, p, u

\* A concatenation begins with its first piece.
LEMMA FlattenFirst ==
  ASSUME NEW f \in Seq(Streams), f # << >>
  PROVE  FlattenSeq(f) = Head(f) \o FlattenSeq(Tail(f))
<1> DEFINE G == {g \in Seq(Streams) : g # << >> => FlattenSeq(g) = Head(g) \o FlattenSeq(Tail(g))}
<1>1. << >> \in G
  OBVIOUS
<1>2. ASSUME NEW g \in Seq(Streams), NEW e \in Streams, g \in G PROVE Append(g, e) \in G
  <2> DEFINE k == Append(g, e)
             h == Head(g)
             t == FlattenSeq(Tail(g))
  <2>1. k \in Seq(Streams) /\ FlattenSeq(k) = FlattenSeq(g) \o e
    BY AppendProperties, FlattenAppend
  <2>2. /\ Head(k) = IF g = << >> THEN e ELSE h
        /\ Tail(k) = IF g = << >> THEN << >> ELSE Append(Tail(g), e)
    BY HeadTailAppend
  <2>3. CASE g = << >>
    <3>1. << >> \o e = e /\ e \o << >> = e
      BY TextFacts
    <3>2. Head(k) = e /\ Tail(k) = << >>
      BY <2>2, <2>3
    <3> HIDE DEF k
    <3>3. FlattenSeq(k) = Head(k) \o FlattenSeq(Tail(k))
      BY <2>1, <2>3, <3>1, <3>2, FlattenNothing
    <3> QED BY <2>1, <3>3 DEF k
  <2>4. CASE g # << >>
    <3>1. h \in Streams /\ Tail(g) \in Seq(Streams)
      BY <2>4, HeadTailProperties
    <3>2. t \in Streams /\ FlattenSeq(Append(Tail(g), e)) = t \o e
      BY <3>1, FlattenType, FlattenAppend
    <3>3. FlattenSeq(g) = h \o t
      BY <1>2, <2>4
    <3>4. Head(k) = h /\ Tail(k) = Append(Tail(g), e)
      BY <2>2, <2>4
    <3> HIDE DEF k, h, t
    <3>5. (h \o t) \o e = h \o (t \o e)
      BY <3>1, <3>2, TextAssociative
    <3>6. FlattenSeq(k) = Head(k) \o FlattenSeq(Tail(k))
      BY <2>1, <3>2, <3>3, <3>4, <3>5
    <3> QED BY <2>1, <3>6 DEF k
  <2> QED BY <2>3, <2>4
<1>3. \A g \in Seq(Streams) : g \in G
  <2> HIDE DEF G
  <2> QED BY <1>1, <1>2, SequenceInduction
<1> QED BY <1>3

\* What the stream holds begins with the record that is next.
LEMMA PrintedAllFirst ==
  ASSUME NEW w \in Seq(GoodRecords), w # << >>
  PROVE  /\ FlattenSeq(PrintedAll(w)) = Printed(Head(w)) \o FlattenSeq(PrintedAll(Tail(w)))
         /\ Head(w) \in GoodRecords /\ Tail(w) \in Seq(GoodRecords)
<1> DEFINE n == Len(w)
           p == PrintedAll(w)
           v == Tail(w)
<1>1. /\ Head(w) \in GoodRecords /\ v \in Seq(GoodRecords) /\ Len(v) = n - 1 /\ n \in Nat
      /\ \A ix \in 1 .. Len(v) : v[ix] = w[ix + 1]
  BY HeadTailProperties, LenProperties
<1>2. n # 0 /\ Head(w) = w[1]
  <2>1. n # 0
    BY EmptySeq
  <2> QED BY <2>1
<1>3. p \in Seq(Streams) /\ Len(p) = n /\ \A ix \in 1 .. n : p[ix] = Printed(w[ix])
  <2>1. p \in Seq(Streams) /\ DOMAIN p = 1 .. n
    BY PrintedAllType DEF PrintedAll
  <2>2. Len(p) = n
    <3> HIDE DEF p, n
    <3>1. Len(p) \in Nat /\ DOMAIN p = 1 .. Len(p)
      BY <2>1, LenProperties
    <3> QED BY <1>1, <2>1, <3>1
  <2> QED BY <2>1, <2>2 DEF PrintedAll
<1> HIDE DEF n, p
<1>4. p # << >> /\ Head(p) = Printed(Head(w))
  <2>1. p # << >>
    BY <1>1, <1>2, <1>3, EmptySeq
  <2>2. Head(p) = p[1] /\ 1 \in 1 .. n
    BY <1>1, <1>2, <1>3, <2>1
  <2> QED BY <1>2, <1>3, <2>1, <2>2
<1>5. Tail(p) = PrintedAll(v)
  <2>1. /\ Tail(p) \in Seq(Streams) /\ Len(Tail(p)) = n - 1
        /\ \A ix \in 1 .. Len(Tail(p)) : Tail(p)[ix] = p[ix + 1]
    BY <1>3, <1>4, HeadTailProperties
  <2> DEFINE t == Tail(p)
  <2> HIDE DEF t, v
  <2>2. \A ix \in 1 .. (n - 1) : t[ix] = Printed(v[ix])
    <3> SUFFICES ASSUME NEW ix \in 1 .. (n - 1) PROVE t[ix] = Printed(v[ix])
      OBVIOUS
    <3>1. ix + 1 \in 1 .. n
      BY <1>1
    <3>2. t[ix] = p[ix + 1] /\ v[ix] = w[ix + 1] /\ p[ix + 1] = Printed(w[ix + 1])
      BY <1>1, <1>3, <2>1, <3>1 DEF t
    <3> QED BY <3>2
  <2>3. t = [ix \in 1 .. (n - 1) |-> t[ix]]
    <3>1. t = [ix \in 1 .. Len(t) |-> t[ix]]
      <4>1. t \in Seq(Streams)
        BY <2>1 DEF t
      <4> QED BY <4>1
    <3> QED BY <2>1, <3>1 DEF t
  <2>4. t = PrintedAll(v)
    BY <1>1, <2>2, <2>3 DEF PrintedAll
  <2> QED BY <2>4 DEF t
<1>6. FlattenSeq(p) = Head(p) \o FlattenSeq(Tail(p))
  BY <1>3, <1>4, FlattenFirst
<1> QED BY <1>1, <1>4, <1>5, <1>6 DEF p, v

----------------------------------------------------------------------------
\* What the stream holds is what was written and not read, behind the line end that the last
\* parser left.
Lead == IF place = 0 THEN << >> ELSE <<NewLine>>

RecordsInv ==
  /\ place \in Nat /\ written \in Seq(GoodRecords)
  /\ text = Lead \o FlattenSeq(PrintedAll(written))
  /\ RecordsComeBack
  /\ ioError => written # << >>

LEMMA LeadIsBlank ==
  /\ Lead \in {<< >>, <<NewLine>>} /\ Blank(Lead) /\ Lead \in Streams
  /\ Lead # << >> <=> place # 0
<1>1. << >> # <<NewLine>>
  OBVIOUS
<1>2. \A x \in {<< >>, <<NewLine>>} : Blank(x) /\ x \in Streams
  BY BlankTexts DEF Blank
<1> QED BY <1>1, <1>2 DEF Lead

\* The invariant holds of the empty stream.
LEMMA RecordsInitially == RecordsInit => RecordsInv
<1> SUFFICES ASSUME RecordsInit PROVE RecordsInv
  OBVIOUS
<1>1. text = << >> /\ written = << >> /\ place = 0 /\ returned = << >> /\ ioError = FALSE
  BY DEF RecordsInit
<1>2. written \in Seq(GoodRecords)
  BY <1>1
<1>3. PrintedAll(written) = << >>
  BY <1>1 DEF PrintedAll
<1>4. << >> \o << >> = << >>
  OBVIOUS
<1>5. text = Lead \o FlattenSeq(PrintedAll(written))
  BY <1>1, <1>3, <1>4, FlattenNothing DEF Lead
<1> QED BY <1>1, <1>2, <1>5 DEF RecordsInv, RecordsComeBack

\* The record that is read next.
LEMMA NextRecord ==
  ASSUME RecordsInv, written # << >>,
         NEW r, r = Head(written), NEW t, t = FlattenSeq(PrintedAll(Tail(written)))
  PROVE  /\ r \in GoodRecords /\ Tail(written) \in Seq(GoodRecords) /\ t \in Streams
         /\ text = Lead \o (Printed(r) \o t)
         /\ ParserThrows(text, r) <=> (ForPeople(r) /\ place # 0)
         /\ ~ ParserThrows(text, r) => ComesBack(r, text, t)
<1>1. /\ place \in Nat /\ written \in Seq(GoodRecords)
      /\ text = Lead \o FlattenSeq(PrintedAll(written))
  BY DEF RecordsInv
<1>2. /\ r \in GoodRecords /\ Tail(written) \in Seq(GoodRecords)
      /\ FlattenSeq(PrintedAll(written)) = Printed(r) \o t
  BY <1>1, PrintedAllFirst
<1>3. t \in Streams
  BY <1>2, PrintedAllType
<1>4. text = Lead \o (Printed(r) \o t)
  BY <1>1, <1>2
<1>5. /\ Lead \in {<< >>, <<NewLine>>} /\ Blank(Lead) /\ (Lead # << >> <=> place # 0)
  BY LeadIsBlank
<1>6. CASE IsCoordinates(r)
  <2>1. /\ ForPeople(r) /\ Lead # << >> => ParserThrows(Lead \o (Printed(r) \o t), r)
        /\ ~ (ForPeople(r) /\ Lead # << >>) =>
              /\ ComesBack(r, Lead \o (Printed(r) \o t), t)
              /\ ~ ParserThrows(Lead \o (Printed(r) \o t), r)
    BY <1>3, <1>5, <1>6, CoordinateRecord
  <2> QED BY <1>2, <1>3, <1>4, <1>5, <2>1
<1>7. CASE ~ IsCoordinates(r)
  <2>1. IsSolution(r) \/ IsMatrix(r) \/ IsMesh(r)
    BY <1>2, <1>7 DEF GoodRecords, IsRecord
  <2>2. ComesBack(r, Lead \o (Printed(r) \o t), t)
    BY <1>3, <1>5, <2>1, SolutionRecord, MatrixRecord, MeshRecord
  <2>3. r.what # "coordinates"
    BY <2>1 DEF IsSolution, IsMatrix, IsMesh
  <2>4. ~ ParserThrows(text, r) /\ ~ ForPeople(r)
    BY <2>3 DEF ParserThrows, ForPeople
  <2> QED BY <1>2, <1>3, <1>4, <2>2, <2>4
<1> QED BY <1>6, <1>7

\* A record is written behind the others.
LEMMA WriteKeepsRecords == ASSUME RecordsAssumption, RecordsInv, Write PROVE RecordsInv'
<1>1. /\ place \in Nat /\ written \in Seq(GoodRecords)
      /\ text = Lead \o FlattenSeq(PrintedAll(written)) /\ RecordsComeBack
  BY DEF RecordsInv
<1>2. PICK shape \in Shapes :
        text' = text \o Printed(Record(shape)) /\ written' = Append(written, Record(shape))
  BY DEF Write
<1>3. UNCHANGED <<place, returned, ioError>> /\ ~ ioError
  BY DEF Write
<1> DEFINE r == Record(shape)
           w == written
           p == FlattenSeq(PrintedAll(w))
<1>4. r \in GoodRecords
  <2>1. Len(written) \in Nat
    BY <1>1, LenProperties
  <2> QED BY <1>1, <2>1, RecordIsGood
<1>5. p \in Streams /\ Lead \in Streams /\ Printed(r) \in Streams
  BY <1>1, <1>4, LeadIsBlank, PrintedAllType, PrintedIsClosed DEF GoodRecords
<1> HIDE DEF r, w
<1>6. FlattenSeq(PrintedAll(Append(w, r))) = p \o Printed(r)
  BY <1>1, <1>4, PrintedAllAppend DEF w
<1>7. written' \in Seq(GoodRecords)
  BY <1>1, <1>2, <1>4, AppendProperties DEF r
<1>8. text' = Lead' \o FlattenSeq(PrintedAll(written'))
  <2>1. Lead' = Lead
    BY <1>3 DEF Lead
  <2>2. text' = (Lead \o p) \o Printed(r)
    BY <1>1, <1>2 DEF r, w
  <2>3. written' = Append(w, r)
    BY <1>2 DEF r, w
  <2> HIDE DEF p
  <2>4. (Lead \o p) \o Printed(r) = Lead \o (p \o Printed(r))
    BY <1>5, TextAssociative
  <2> QED BY <1>6, <2>1, <2>2, <2>3, <2>4 DEF p
<1>9. RecordsComeBack'
  BY <1>1, <1>3 DEF RecordsComeBack
<1>10. place' \in Nat /\ ~ ioError'
  BY <1>1, <1>3
<1> QED BY <1>7, <1>8, <1>9, <1>10 DEF RecordsInv

\* A parser consumes its record but for the line end, and returns what was written.
LEMMA ReadKeepsRecords == ASSUME RecordsInv, Read PROVE RecordsInv'
<1> DEFINE r == Head(written)
           t == FlattenSeq(PrintedAll(Tail(written)))
<1>1. written # << >> /\ ~ ioError /\ ~ ParserThrows(text, r)
  BY DEF Read
<1>2. /\ text' = Parsed(text, r).rest /\ returned' = <<r.value, Parsed(text, r).value>>
      /\ written' = Tail(written) /\ place' = place + 1 /\ ioError' = ioError
  BY DEF Read
<1>3. /\ Tail(written) \in Seq(GoodRecords) /\ ComesBack(r, text, t) /\ place \in Nat
  BY <1>1, NextRecord DEF RecordsInv
<1>4. text' = <<NewLine>> \o t /\ returned'[1] = returned'[2]
  <2> HIDE DEF r, t
  <2>1. Parsed(text, r).rest = <<NewLine>> \o t /\ Parsed(text, r).value = r.value
    BY <1>3 DEF ComesBack
  <2> QED BY <1>2, <2>1
<1>5. Lead' = <<NewLine>> /\ place' \in Nat
  BY <1>2, <1>3 DEF Lead
<1>6. text' = Lead' \o FlattenSeq(PrintedAll(written'))
  BY <1>2, <1>4, <1>5
<1>7. RecordsComeBack' /\ ~ ioError'
  BY <1>1, <1>2, <1>4 DEF RecordsComeBack
<1> QED BY <1>2, <1>3, <1>5, <1>6, <1>7 DEF RecordsInv

\* A parser throws only on coordinates for people that are not first.
LEMMA ThrowKeepsRecords == ASSUME RecordsInv, ReadThrows PROVE RecordsInv'
<1>1. /\ written # << >> /\ ParserThrows(text, Head(written))
      /\ UNCHANGED <<text, written, place, returned>>
  BY DEF ReadThrows
<1>2. ForPeople(Head(written)) /\ place # 0
  BY <1>1, NextRecord
<1>3. /\ place \in Nat /\ written \in Seq(GoodRecords)
      /\ text = Lead \o FlattenSeq(PrintedAll(written)) /\ RecordsComeBack
  BY DEF RecordsInv
<1>4. text' = Lead' \o FlattenSeq(PrintedAll(written'))
  BY <1>1, <1>3 DEF Lead
<1>5. RecordsComeBack'
  BY <1>1, <1>2, <1>3 DEF RecordsComeBack, ForPeople
<1> QED BY <1>1, <1>3, <1>4, <1>5 DEF RecordsInv

\* A document does not touch the stream.
LEMMA ExchangeKeepsRecords == ASSUME RecordsAssumption, RecordsInv, Exchange PROVE RecordsInv'
<1>1. /\ place \in Nat /\ written \in Seq(GoodRecords)
      /\ text = Lead \o FlattenSeq(PrintedAll(written)) /\ RecordsComeBack
      /\ ioError => written # << >>
  BY DEF RecordsInv
<1>2. UNCHANGED <<text, written, place, ioError>>
  BY DEF Exchange
<1>3. PICK shape \in {s \in Shapes : s.what # "matrix"}, print_size \in BOOLEAN :
        LET r == Record(shape)
        IN returned' = IF r.what = "mesh" THEN <<r.value, FromJson(ToJson(r), r)>>
             ELSE <<r.value, JsonToContinuous(ContinuousToJson(r.value, print_size),
                                              Cardinality(DOMAIN r.value))>>
  BY DEF Exchange
<1> DEFINE r == Record(shape)
<1>4. r \in GoodRecords
  <2>1. Len(written) \in Nat
    BY <1>1, LenProperties
  <2> QED BY <1>1, <2>1, RecordIsGood
<1>5. r.what # "matrix"
  <2>1. r.what = shape.what
    BY Zenon DEF Record
  <2> HIDE DEF r
  <2> QED BY <2>1
<1>6. returned' = IF r.what = "mesh" THEN <<r.value, FromJson(ToJson(r), r)>>
                  ELSE <<r.value, JsonToContinuous(ContinuousToJson(r.value, print_size),
                                                   Cardinality(DOMAIN r.value))>>
  BY <1>3
<1> HIDE DEF r
<1>7. returned'[1] = returned'[2]
  <2>1. CASE r.what = "mesh"
    <3>1. IsMesh(r)
      BY <1>4, <2>1 DEF GoodRecords, IsRecord, IsCoordinates, IsSolution, IsMatrix
    <3>2. FromJson(ToJson(r), r) = r.value
      BY <3>1, JsonOfMesh
    <3> QED BY <1>6, <2>1, <3>2
  <2>2. CASE r.what # "mesh"
    <3>1. IsCoordinates(r) \/ IsSolution(r)
      BY <1>4, <1>5, <2>2 DEF GoodRecords, IsRecord, IsMesh, IsMatrix
    <3>2. PICK k \in Nat \ {0} : r.value \in [Upto(k) -> Nat]
      <4>1. \A n \in Nat \ {0} : 2 * n \in Nat \ {0} /\ 4 * n \in Nat \ {0}
        OBVIOUS
      <4> QED BY <3>1, <4>1 DEF IsCoordinates, IsSolution
    <3> DEFINE a == r.value
    <3> HIDE DEF a
    <3>3. a \in [Upto(k) -> Nat]
      BY <3>2 DEF a
    <3>4. Cardinality(DOMAIN a) = k /\ JsonToContinuous(ContinuousToJson(a, print_size), k) = a
      BY <3>3, RowIs, JsonOfNumbers
    <3> QED BY <1>6, <2>2, <3>4 DEF a
  <2> QED BY <2>1, <2>2
<1>8. RecordsComeBack'
  BY <1>1, <1>2, <1>7 DEF RecordsComeBack
<1>9. text' = Lead' \o FlattenSeq(PrintedAll(written'))
  BY <1>1, <1>2 DEF Lead
<1> QED BY <1>1, <1>2, <1>8, <1>9 DEF RecordsInv

\* Every record comes back from the stream or from its document, and only coordinates for
\* people that are not the first record are refused (Parsers.h:246), for all records, sizes,
\* dimensions and limits that divide into equal steps.
THEOREM RecordsSafe == RecordsSpec => []RecordsComeBack
<1>1. RecordsInit => RecordsInv
  BY RecordsInitially
<1>2. RecordsInv /\ [RecordsNext]_recordVars => RecordsInv'
  <2> SUFFICES ASSUME RecordsInv, [RecordsNext]_recordVars PROVE RecordsInv'
    OBVIOUS
  <2>1. ASSUME UNCHANGED recordVars PROVE RecordsInv'
    <3>1. /\ place' = place /\ written' = written /\ text' = text /\ returned' = returned
          /\ ioError' = ioError
      BY <2>1 DEF recordVars
    <3> QED BY <3>1 DEF RecordsInv, RecordsComeBack, Lead
  <2> QED BY <2>1, RecordsAssumption, WriteKeepsRecords, ReadKeepsRecords, ThrowKeepsRecords,
             ExchangeKeepsRecords DEF RecordsNext
<1>3. RecordsInv => RecordsComeBack
  BY DEF RecordsInv
<1> QED BY <1>1, <1>2, <1>3, PTL DEF RecordsSpec
=============================================================================
