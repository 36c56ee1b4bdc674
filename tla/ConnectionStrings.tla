-------------------------- MODULE ConnectionStrings --------------------------
(***************************************************************************)
(* The connection strings of the database and of the broker: objects whose *)
(* setters refresh a formatted string, and a scan of such a string that    *)
(* fills an object.  The delimiters of a URL become spaces before the      *)
(* scan, so what counts of a string are its words: an empty field has      *)
(* none, a field that holds a delimiter or a space has several.            *)
(***************************************************************************)
EXTENDS Integers, Sequences

CONSTANTS Tokens,
          PortNumbers,  \* words that are numbers
          Inputs        \* what a caller may set a text to: sequences of words

ASSUME StringsAssumption == "5432" \in PortNumbers /\ Inputs \subseteq Seq(Tokens)

Classes == {"PostgreSQLCStr", "AMQPSQLCStr"}

Fields(class) ==
  IF class = "PostgreSQLCStr" THEN {"user", "password", "host", "port", "dbname"}
  ELSE {"secure", "user", "password", "host_port"}

Texts(class) == Fields(class) \ {"port", "secure"}

\* What a caller sets a field to.
Values(field) ==
  IF field = "port" THEN {<<p>> : p \in PortNumbers}
  ELSE IF field = "secure" THEN {<<"amqp">>, <<"amqps">>} ELSE Inputs

Plain(field, value) ==
  IF field = "host_port" THEN Len(value) = 2 ELSE Len(value) = 1

VARIABLES
  class,
  fields,             \* field |-> words
  formatted_string_,  \* words
  copy                \* what FromString(to_string()) made of another object

stringVars == <<class, fields, formatted_string_, copy>>

----------------------------------------------------------------------------

Format(c, f) ==
  IF c = "PostgreSQLCStr"
  THEN <<"postgresql">> \o f["user"] \o f["password"] \o f["host"] \o f["port"] \o f["dbname"]
  ELSE f["secure"] \o f["user"] \o f["password"] \o f["host_port"]

UpdateFormat(f) == formatted_string_' = Format(class, f)

Default == [f \in Fields(class) |->
  IF f = "port" THEN <<"5432">> ELSE IF f = "secure" THEN <<"amqp">> ELSE << >>]

Unscanned == [outcome |-> "none", fields |-> << >>]

\* The default constructors do not format.
DefaultConstruct ==
  /\ fields' = Default
  /\ formatted_string_' = << >>
  /\ copy' = Unscanned
  /\ UNCHANGED class

Construct ==
  /\ \E text \in [Texts(class) -> Inputs], port \in Values("port"), secure \in Values("secure") :
       fields' = [f \in Fields(class) |->
         IF f = "port" THEN port ELSE IF f = "secure" THEN secure ELSE text[f]]
  /\ UpdateFormat(fields')
  /\ copy' = Unscanned
  /\ UNCHANGED class

\* Mutant: the setter forgets the formatted string.
Set_Stale(field, value) ==
  /\ fields' = [fields EXCEPT ![field] = value]
  /\ copy' = Unscanned
  /\ UNCHANGED <<class, formatted_string_>>
Set(field, value) ==
  /\ fields' = [fields EXCEPT ![field] = value]
  /\ UpdateFormat(fields')
  /\ copy' = Unscanned
  /\ UNCHANGED class

\* The scan takes five words after the literal, the fourth as a number; more may follow.
PostgresScans(w) == Len(w) >= 6 /\ w[1] = "postgresql" /\ w[5] \in PortNumbers
PostgresFields(w) ==
  [user |-> <<w[2]>>, password |-> <<w[3]>>, host |-> <<w[4]>>, port |-> <<w[5]>>,
   dbname |-> <<w[6]>>]

\* Five words, the first one by its last letter, the last two joined.
AmqpScans(w) == Len(w) >= 5
AmqpFields(w) ==
  [secure |-> IF w[1] = "amqps" THEN <<"amqps">> ELSE <<"amqp">>,
   user |-> <<w[2]>>, password |-> <<w[3]>>, host_port |-> <<w[4], w[5]>>]

Scans(w) == IF class = "PostgreSQLCStr" THEN PostgresScans(w) ELSE AmqpScans(w)
ScannedFields(w) == IF class = "PostgreSQLCStr" THEN PostgresFields(w) ELSE AmqpFields(w)

\* Another object reads this one's string; a ScanningError leaves it alone.
FromString ==
  /\ copy' = IF Scans(formatted_string_)
             THEN [outcome |-> "scanned", fields |-> ScannedFields(formatted_string_)]
             ELSE [outcome |-> "ScanningError", fields |-> << >>]
  /\ UNCHANGED <<class, fields, formatted_string_>>

----------------------------------------------------------------------------

StringsInit ==
  /\ class \in Classes
  /\ fields = Default
  /\ formatted_string_ = << >>
  /\ copy = Unscanned

StringsNext ==
  \/ DefaultConstruct \/ Construct \/ FromString
  \/ \E field \in Fields(class) : \E value \in Values(field) : Set(field, value)

StringsSpec == StringsInit /\ [][StringsNext]_stringVars

\* Whatever setters were called before, in whatever order, a string whose fields are plain
\* names the same server, user and database when another object scans it
\* (connectionString.cpp:77-84, 159-166): nothing is thrown, no field takes another's word.
StringsComeBack ==
  (\A f \in Fields(class) : Plain(f, fields[f])) =>
    copy = Unscanned \/ copy = [outcome |-> "scanned", fields |-> fields]
=============================================================================
