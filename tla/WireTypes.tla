----------------------------- MODULE WireTypes -----------------------------
(***************************************************************************)
(* The structures that travel as JSON: tasks from the client to a worker,  *)
(* and what the RabbitMQ client sends and lists.  An object is made from a *)
(* document by a constructor that reads each field at its place, and gives *)
(* a document in which each field is written at its place.                 *)
(*                                                                         *)
(* A document is a function from places to values; what is missing reads   *)
(* as zero, false or the empty string.  The usual text of a place is the   *)
(* place's name, so that no field can pass for another.                    *)
(***************************************************************************)
EXTENDS Integers

CONSTANTS Word32,    \* the numbers below it fit in a Json::UInt
          Numbers,   \* that documents hold, with -1 for all that is no natural
          MaxHops    \* bound: how often a document is passed on

ASSUME WireAssumption == Word32 \in Nat \ {0}

\* A field: where the constructor reads it, where ToJson writes it.  A raw field is a
\* Json::Value, copied as it is; a variant is made by JsonToVariant.
Field(name, place, type) == [name |-> name, read |-> place, written |-> place, type |-> type]
Named(names, type) == {Field(n, n, type) : n \in names}
Creator == Field("creator", "user_who_performed_action", "string")
AutoDelete == Field("autoDelete", "auto_delete", "bool")

TestSolveParam ==
  Named({"experiment_id", "range[0]", "range[1]"}, "uint") \union {Field("N_", "N", "uint")}
  \union Named({"args"}, "variant")
exchange == Named({"name"}, "string") \union {Creator, AutoDelete}
  \union Named({"type"}, "enum") \union Named({"durable", "internal"}, "bool")
queue == Named({"name"}, "string") \union {Creator, AutoDelete} \union Named({"durable"}, "bool")
connection == Named({"host", "name", "peer_host", "user"}, "string")
  \union Named({"channels", "port", "peer_port"}, "cast") \union Named({"connected_at"}, "uint64")
channel == Named({"name", "user", "vhost", "state"}, "string")
  \union {Field("channel_number", "number", "cast")} \union Named({"consumer_count"}, "uint")
  \union {[name |-> "connection_name", read |-> "connection_details.name",
           written |-> "connection_name", type |-> "string"]}
message == Named({"routing_key", "payload", "payload_encoding"}, "string")
global_param == Named({"name"}, "string") \union Named({"value"}, "raw")
rabbitMQUser == Named({"name", "password_hash", "tags"}, "string")
queueBinding == {Field("exchange", "source", "string")} \union Named({"routing_key"}, "string")

\* The last two are read only.
Structures == {TestSolveParam, exchange, queue, connection, channel, message, global_param,
               rabbitMQUser, queueBinding}
ReadOnly == {rabbitMQUser, queueBinding}

VARIABLES
  structure, sent,  \* the first document
  doc,              \* the document that is read next
  held,             \* the object that was read last
  hops, refused

wireVars == <<structure, sent, doc, held, hops, refused>>

----------------------------------------------------------------------------

Zero(type) == CASE type = "bool" -> FALSE [] type \in {"string", "enum"} -> ""
                [] type \in {"variant", "raw"} -> "null" [] OTHER -> 0
ValueAt(d, f) == IF f.read \in DOMAIN d THEN d[f.read] ELSE Zero(f.type)

\* Mutant: numbers are cut to 32 bits.
Converts_Wraps(type, v) == CASE type = "variant" -> v \notin {"array", "object"}
                             [] type = "enum" -> v # ""
                             [] type \in {"uint", "cast", "uint64"} -> v # -1 [] OTHER -> TRUE
\* asUInt, asUInt64, StrToEnum and JsonToVariant throw; what is kept raw is never refused.
Converts(type, v) == CASE type = "variant" -> v \notin {"array", "object"}
                       [] type = "enum" -> v # ""
                       [] type \in {"uint", "cast"} -> v \in 0 .. (Word32 - 1)
                       [] type = "uint64" -> v # -1
                       [] OTHER -> TRUE
AsType(type, v) == IF type \in {"uint", "cast"} THEN v % Word32 ELSE v

\* A constructor, by a handler, by the message callback or by a list call of RabbitMQRestService.
FromDocument ==
  /\ ~ refused
  /\ \A f \in structure : Converts(f.type, ValueAt(doc, f))
  /\ held' = [n \in {f.name : f \in structure} |->
       LET f == CHOOSE g \in structure : g.name = n IN AsType(f.type, ValueAt(doc, f))]
  /\ UNCHANGED <<structure, sent, doc, hops, refused>>

Refuse ==
  /\ ~ refused
  /\ \E f \in structure : ~ Converts(f.type, ValueAt(doc, f))
  /\ refused' = TRUE
  /\ UNCHANGED <<structure, sent, doc, held, hops>>

\* static_cast<Json::UInt> in connection and channel.
ToDocument ==
  /\ DOMAIN held # {} /\ structure \notin ReadOnly /\ hops < MaxHops
  /\ doc' = [p \in {f.written : f \in structure} |->
       LET f == CHOOSE g \in structure : g.written = p
       IN IF f.type = "cast" THEN held[f.name] % Word32 ELSE held[f.name]]
  /\ hops' = hops + 1
  /\ UNCHANGED <<structure, sent, held, refused>>

----------------------------------------------------------------------------

Usual(f) == CASE f.type = "bool" -> TRUE [] f.type \in {"string", "enum"} -> f.read
              [] f.type \in {"variant", "raw"} -> "real" [] OTHER -> 1
Others(f) == CASE f.type = "bool" -> {FALSE} [] f.type \in {"string", "enum"} -> {""}
                  [] f.type \in {"variant", "raw"} ->
                       {"null", "bool", "int", "uint", "string", "array", "object"}
                  [] OTHER -> Numbers

\* The usual document, and those that differ from it or lack a value at one place.  The
\* places of strings and truth values hold these: what asString and asBool make of another
\* kind of value is left out.
UsualDocument(s) == [p \in {f.read : f \in s} |-> Usual(CHOOSE f \in s : f.read = p)]
Documents(s) == {UsualDocument(s)}
  \union UNION {{[UsualDocument(s) EXCEPT ![f.read] = v] : v \in Others(f)} : f \in s}
  \union {[p \in {g.read : g \in s \ {f}} |-> UsualDocument(s)[p]] : f \in s}

WireInit ==
  /\ structure \in Structures
  /\ sent \in Documents(structure)
  /\ doc = sent
  /\ held = << >>
  /\ hops = 0 /\ refused = FALSE

WireNext == FromDocument \/ Refuse \/ ToDocument

WireSpec == WireInit /\ [][WireNext]_wireVars

\* However often a structure is passed on (client, main node, worker), each field holds what
\* the first document said of it: a number that does not fit in 32 bits is refused where it
\* is first read and never cut (networkTypes.cpp:50-54, 164), also where ToJson casts.  The
\* connection name of a channel is written where no constructor looks for it
\* (networkTypes.cpp:178, 188).  The value of a global parameter is whatever the first
\* document holds, arrays and objects too (networkTypes.cpp:214-224).
ObjectsComeBack ==
  /\ DOMAIN held # {} => \A f \in structure :
       held[f.name] = ValueAt(sent, f) \/ (f.name = "connection_name" /\ hops > 0)
  /\ refused => hops = 0
=============================================================================
