------------------------------ MODULE Records ------------------------------
(***************************************************************************)
(* Printers and parsers: coordinates, solutions, matrices and meshes go    *)
(* through a text stream, one record after the other, or through JSON.     *)
(*                                                                         *)
(* A text is a sequence of words and line ends; numbers are naturals and   *)
(* the words of titles are all alike.  Arrays are functions from the       *)
(* code's indices.  Who writes a serializable record ends its line.        *)
(***************************************************************************)
EXTENDS Integers, Sequences, FiniteSets, SequencesExt

CONSTANTS Counts,      \* numbers of dipoles
          Dims,        \* dimensions of meshes and matrices, at least two by two
          Limits,      \* of the meshes, multiples of their steps
          MaxRecords

\* Limits divide into equal steps, so that naturals can stand for the doubles; MyLinspace
\* throws for equal ones.
Fits(lims, rows, cols) ==
  /\ lims \in Seq(Nat) /\ Len(lims) = 4 /\ lims[1] < lims[2] /\ lims[3] < lims[4]
  /\ (lims[2] - lims[1]) % (rows - 1) = 0 /\ (lims[4] - lims[3]) % (cols - 1) = 0

ASSUME RecordsAssumption ==
  /\ Counts \subseteq Nat \ {0}
  /\ Dims \subseteq (Nat \ {0, 1}) \X (Nat \ {0, 1})
  /\ \A d \in Dims : Fits(Limits, d[1], d[2])

NewLine == -1
Title == -2

VARIABLES
  text,       \* what the stream still holds
  written,    \* records that are on the stream
  place,      \* records that were read from it
  returned,   \* history: <<written, read>>
  ioError     \* thrown by a parser

recordVars == <<text, written, place, returned, ioError>>

Upto(k) == 0 .. (k - 1)
Line(words) == Append(words, NewLine)
\* The concatenation of F(0) .. F(k - 1).
Each(k, F(_)) == FlattenSeq([i \in 1 .. k |-> F(i - 1)])
Row(a) == Each(Cardinality(DOMAIN a), LAMBDA i : <<a[i]>>)

\* What istream >> finds: line ends are skipped.
Words(s) == FlattenSeq([p \in DOMAIN s |-> IF s[p] = NewLine THEN << >> ELSE <<s[p]>>])
AfterWords(s, k) ==
  SubSeq(s, 1 + CHOOSE p \in 0 .. Len(s) :
              Len(Words(SubSeq(s, 1, p))) = k /\ (p > 0 => s[p] # NewLine), Len(s))
\* getline
AfterLine(s) == SubSeq(s, 1 + CHOOSE p \in DOMAIN s :
  s[p] = NewLine /\ \A q \in 1 .. (p - 1) : s[q] # NewLine, Len(s))

----------------------------------------------------------------------------
\* Meshes.

MyLinspace(lower, upper, n) == [i \in Upto(n) |-> lower + i * ((upper - lower) \div (n - 1))]

\* Every phi for the first theta, then for the next one.
MyMeshGrid(a, b, k, n) == <<[i \in Upto(k * n) |-> a[i % k]], [i \in Upto(k * n) |-> b[i \div k]]>>

ConstructMeshes(dims, lims, data_2) ==
  [dimensions |-> dims, limits |-> lims, data_2 |-> data_2,
   grid |-> MyMeshGrid(MyLinspace(lims[3], lims[4], dims[2]),
                       MyLinspace(lims[1], lims[2], dims[1]), dims[2], dims[1])]

----------------------------------------------------------------------------
\* Printers.  A record is [what, io, header, value]: header is what is printed of the size, the
\* dimensions and the limits.

OneDimSerialize(r) ==
  (IF "size" \in r.header THEN Line(<<Cardinality(DOMAIN r.value)>>) ELSE << >>)
  \o Line(Row(r.value))

MatrixPrint2D(r) ==
  LET rows == r.value.dimensions[1]
      cols == r.value.dimensions[2]
  IN (IF "dims" \in r.header THEN Line(<<rows, cols>>) ELSE << >>)
     \o Each(rows, LAMBDA i : Line(Each(cols, LAMBDA j : <<r.value.data[i * cols + j]>>)))

PrintMesh(r) ==
  LET lims == r.value.limits
  IN (IF "dims" \in r.header THEN Line(r.value.dimensions) ELSE << >>)
     \o (IF "lims" \in r.header THEN Line(SubSeq(lims, 1, 2)) \o Line(SubSeq(lims, 3, 4))
         ELSE << >>)
     \o Line(Row(r.value.data_2))

\* A row for each phi.
PrintDec(m) ==
  LET ext0 == m.dimensions[1]
      ext1 == m.dimensions[2]
  IN Line(m.dimensions) \o Line(<<Title>>)
     \o Line(<<Title>> \o Each(ext0, LAMBDA i : <<m.grid[2][i * ext1]>>))
     \o Each(ext1, LAMBDA i :
          Line(<<m.grid[1][i]>> \o Each(ext0, LAMBDA j : <<m.data_2[j * ext1 + i]>>)))

\* The third number of a line is computed from the two before it; nobody reads it.
PrintSolutionFormat1(sol) ==
  LET n == Cardinality(DOMAIN sol) \div 4
  IN Line(<<n>>) \o Line(<<Title>>) \o Line(<<Title>>)
     \o Each(n, LAMBDA i : Line(<<sol[2 * i], sol[2 * i + 2 * n], 0>>)
                           \o Line(<<sol[2 * i + 1], sol[2 * i + 1 + 2 * n], 0>>))

PrintCoordinates2(col) ==
  LET n == Cardinality(DOMAIN col) \div 2
  IN Line(<<Title>>) \o Line(<<n>>) \o Each(n, LAMBDA i : Line(<<col[i], col[i + n]>>))

Printed(r) ==
  CASE r.io = "HUMAN_READABLE" /\ r.what = "coordinates" -> PrintCoordinates2(r.value)
    [] r.io = "HUMAN_READABLE" /\ r.what = "solution" -> PrintSolutionFormat1(r.value)
    [] r.io = "HUMAN_READABLE" /\ r.what = "mesh" -> PrintDec(r.value)
    [] r.what = "matrix" -> MatrixPrint2D(r)
    [] r.io = "SERIALIZABLE" /\ r.what = "mesh" -> PrintMesh(r)
    [] OTHER -> OneDimSerialize(r)

----------------------------------------------------------------------------
\* Parsers: [value, rest].  What the header does not hold is passed as an option.

ParseOneDim(s, r) ==
  LET k == IF "size" \in r.header THEN Words(s)[1] ELSE Cardinality(DOMAIN r.value)
      s1 == IF "size" \in r.header THEN AfterWords(s, 1) ELSE s
  IN [value |-> [i \in Upto(k) |-> Words(s1)[i + 1]], rest |-> AfterWords(s1, k)]

ParseSolution(s, r) ==
  LET n == Words(s)[1]
      s1 == AfterLine(AfterLine(AfterLine(AfterWords(s, 1))))
      w == Words(s1)
      \* ax, bx, cx, ay, by, cy of dipole i
      column == [k \in Upto(4 * n) |->
        6 * ((k % (2 * n)) \div 2) + (IF k % 2 = 0 THEN 1 ELSE 4) + (IF k < 2 * n THEN 0 ELSE 1)]
  IN [value |-> [k \in Upto(4 * n) |-> w[column[k]]], rest |-> AfterWords(s1, 6 * n)]

\* Mutant: the two columns as they stand.
ParseCoordinates_Rows(s, r) ==
  LET s1 == AfterLine(s)
      n == Words(s1)[1]
      s2 == AfterWords(s1, 1)
  IN [value |-> [k \in Upto(2 * n) |-> Words(s2)[k + 1]], rest |-> AfterWords(s2, 2 * n)]
\* The first line is taken for the title.
ParseCoordinates(s, r) ==
  LET s1 == AfterLine(s)
      n == Words(s1)[1]
      s2 == AfterWords(s1, 1)
  IN [value |-> [k \in Upto(2 * n) |-> Words(s2)[2 * (k % n) + 1 + k \div n]],
      rest |-> AfterWords(s2, 2 * n)]
\* in >> n meets a title.
ParserThrows(s, r) ==
  /\ r.io = "HUMAN_READABLE" /\ r.what = "coordinates"
  /\ Words(AfterLine(s))[1] = Title

ParseMatrix(s, r) ==
  LET dims == IF "dims" \in r.header THEN SubSeq(Words(s), 1, 2) ELSE r.value.dimensions
      s1 == IF "dims" \in r.header THEN AfterWords(s, 2) ELSE s
      k == dims[1] * dims[2]
  IN [value |-> [dimensions |-> dims, data |-> [i \in Upto(k) |-> Words(s1)[i + 1]]],
      rest |-> AfterWords(s1, k)]

ParseMeshSerialized(s, r) ==
  LET dims == IF "dims" \in r.header THEN SubSeq(Words(s), 1, 2) ELSE r.value.dimensions
      s1 == IF "dims" \in r.header THEN AfterWords(s, 2) ELSE s
      lims == IF "lims" \in r.header THEN SubSeq(Words(s1), 1, 4) ELSE r.value.limits
      s2 == IF "lims" \in r.header THEN AfterWords(s1, 4) ELSE s1
      k == dims[1] * dims[2]
  IN [value |-> ConstructMeshes(dims, lims, [i \in Upto(k) |-> Words(s2)[i + 1]]),
      rest |-> AfterWords(s2, k)]

\* The limits are the first and the last of the thetas and of the phis.
ParseMeshTable(s, r) ==
  LET dims == SubSeq(Words(s), 1, 2)
      s1 == AfterWords(AfterLine(AfterLine(AfterWords(s, 2))), 1)
      w == Words(s1)
      Start(i) == dims[1] + i * (dims[1] + 1) + 1
  IN [value |-> ConstructMeshes(dims,
        <<w[1], w[dims[1]], w[Start(0)], w[Start(dims[2] - 1)]>>,
        [k \in Upto(dims[1] * dims[2]) |-> w[Start(k % dims[2]) + 1 + k \div dims[2]]]),
      rest |-> AfterWords(s1, dims[1] + dims[2] * (dims[1] + 1))]

Parsed(s, r) ==
  CASE r.io = "HUMAN_READABLE" /\ r.what = "coordinates" -> ParseCoordinates(s, r)
    [] r.io = "HUMAN_READABLE" /\ r.what = "solution" -> ParseSolution(s, r)
    [] r.io = "HUMAN_READABLE" /\ r.what = "mesh" -> ParseMeshTable(s, r)
    [] r.what = "matrix" -> ParseMatrix(s, r)
    [] r.io = "SERIALIZABLE" /\ r.what = "mesh" -> ParseMeshSerialized(s, r)
    [] OTHER -> ParseOneDim(s, r)

----------------------------------------------------------------------------
\* JSON: a member that is left out is << >>.

ContinuousToJson(a, print_size) ==
  [size |-> IF print_size THEN <<Cardinality(DOMAIN a)>> ELSE << >>, data |-> Row(a)]
JsonToContinuous(doc, k) == [i \in Upto(IF doc.size = << >> THEN k ELSE doc.size[1]) |->
  doc.data[i + 1]]

ToJson(r) ==
  [dimensions |-> IF "dims" \in r.header THEN r.value.dimensions ELSE << >>,
   limits |-> IF "lims" \in r.header THEN r.value.limits ELSE << >>,
   data |-> ContinuousToJson(r.value.data_2, FALSE)]
FromJson(doc, r) ==
  LET dims == IF doc.dimensions = << >> THEN r.value.dimensions ELSE doc.dimensions
      lims == IF doc.limits = << >> THEN r.value.limits ELSE doc.limits
  IN ConstructMeshes(dims, lims, JsonToContinuous(doc.data, dims[1] * dims[2]))

----------------------------------------------------------------------------

\* Numbers that no other record and no other index has.
Filled(k) == [i \in Upto(k) |-> 100 * (1 + place + Len(written)) + i]

\* What may be printed: the kind, the form, the header and the dimensions.
Shapes ==
  [what : {"coordinates", "solution"}, io : {"SERIALIZABLE"}, header : SUBSET {"size"},
   dims : Counts \X {1}]
  \union [what : {"coordinates", "solution"}, io : {"HUMAN_READABLE"}, header : {{"size"}},
          dims : Counts \X {1}]
  \union [what : {"matrix"}, io : {"SERIALIZABLE"}, header : SUBSET {"dims"}, dims : Dims]
  \union [what : {"mesh"}, io : {"SERIALIZABLE"}, header : SUBSET {"dims", "lims"}, dims : Dims]
  \union [what : {"mesh"}, io : {"HUMAN_READABLE"}, header : {{"dims", "lims"}}, dims : Dims]

Record(s) ==
  [what |-> s.what, io |-> s.io, header |-> s.header,
   value |-> CASE s.what = "coordinates" -> Filled(2 * s.dims[1])
               [] s.what = "solution" -> Filled(4 * s.dims[1])
               [] s.what = "matrix" ->
                    [dimensions |-> s.dims, data |-> Filled(s.dims[1] * s.dims[2])]
               [] s.what = "mesh" ->
                    ConstructMeshes(s.dims, Limits, Filled(s.dims[1] * s.dims[2]))]

Write ==
  /\ place + Len(written) < MaxRecords /\ ~ ioError
  /\ \E shape \in Shapes :
       /\ text' = text \o Printed(Record(shape))
       /\ written' = Append(written, Record(shape))
  /\ UNCHANGED <<place, returned, ioError>>

Read ==
  /\ written # << >> /\ ~ ioError
  /\ ~ ParserThrows(text, Head(written))
  /\ LET p == Parsed(text, Head(written))
     IN text' = p.rest /\ returned' = <<Head(written).value, p.value>>
  /\ written' = Tail(written)
  /\ place' = place + 1
  /\ UNCHANGED ioError

ReadThrows ==
  /\ written # << >> /\ ~ ioError
  /\ ParserThrows(text, Head(written))
  /\ ioError' = TRUE
  /\ UNCHANGED <<text, written, place, returned>>

\* Documents do not share a stream: what was written before does not matter.
Exchange ==
  /\ text = << >> /\ place = 0
  /\ \E shape \in {s \in Shapes : s.what # "matrix"} : \E print_size \in BOOLEAN :
       LET r == Record(shape)
       IN returned' = IF r.what = "mesh" THEN <<r.value, FromJson(ToJson(r), r)>>
            ELSE <<r.value, JsonToContinuous(ContinuousToJson(r.value, print_size),
                                             Cardinality(DOMAIN r.value))>>
  /\ UNCHANGED <<text, written, place, ioError>>

RecordsInit ==
  /\ text = << >> /\ written = << >> /\ place = 0 /\ returned = << >>
  /\ ioError = FALSE

RecordsNext == Write \/ Read \/ ReadThrows \/ Exchange

RecordsSpec == RecordsInit /\ [][RecordsNext]_recordVars

\* Every record comes back from the stream or from its document with the sizes, the limits and
\* each value at the index it had, whatever was read before it, although tables are written by
\* rows of phi and solutions by dipole (MeshCreator.cpp:102, Parsers.h:218).  A parser gives up
\* only on coordinates for people that are not the first record: the end of the line before
\* them is taken for their title (Parsers.h:246).
RecordsComeBack ==
  /\ returned # << >> => returned[1] = returned[2]
  /\ ioError => /\ Head(written).what = "coordinates" /\ Head(written).io = "HUMAN_READABLE"
                /\ place > 0
=============================================================================
