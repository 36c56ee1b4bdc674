------------------------------ MODULE Dipoles ------------------------------
(***************************************************************************)
(* The dipole solver: an object that keeps the system of equations of a    *)
(* configuration and is reused for the next one, the solution in blocks,   *)
(* and the two functions of the direction graph that read it.              *)
(*                                                                         *)
(* Indices are those of the code, from 0.  Numbers are integers: the       *)
(* matrices of a pair at distance r are multiplied by r^5, one factor for  *)
(* all entries of two dipoles; cos and sin of omega * r / c are two        *)
(* numbers.  A solution is kept as the matrix and the right part of the    *)
(* equations that give it, tt * x = num: nothing is inverted.              *)
(***************************************************************************)
EXTENDS Integers, FiniteSets, FiniteSetsExt

CONSTANTS A,               \* params::a, which is divided by the number of dipoles
          Configurations,  \* coordinates 0 .. 2n-1 |-> number, all x before all y
          MaxDistance,     \* distances are integers up to this bound
          Sizes            \* of the solutions that directions are computed for

\* Coordinates of one or more dipoles, whose number divides A.
ASSUME DipolesAssumption ==
  /\ A \in Int
  /\ \A xi \in Configurations : \E n \in 1 .. Cardinality(DOMAIN xi) :
       DOMAIN xi = 0 .. (2 * n - 1) /\ A % n = 0

\* params
Eps == 1
OmegaByC == 1
Damping == 7            \* yo * omega
Detuning == 0           \* omega0 ^ 2 - omega ^ 2
Cos == 2
Sin == 3

Idx(k) == 0 .. (k - 1)
SizeOf(xi) == Cardinality(DOMAIN xi)

Mul(a, b, k) == [p \in Idx(k) \X Idx(k) |->
  MapThenSumSet(LAMBDA q : a[<<p[1], q>>] * b[<<q, p[2]>>], Idx(k))]
Apply(a, v, k) == [r \in Idx(k) |-> MapThenSumSet(LAMBDA q : a[<<r, q>>] * v[q], Idx(k))]
Add(a, b) == [p \in DOMAIN a |-> a[p] + b[p]]
Sub(a, b) == [p \in DOMAIN a |-> a[p] - b[p]]
Lower(v, k) == [i \in Idx(k) |-> v[k + i]]

VARIABLES
  n_, an_, m_1_, m_2_, f_,
  sol,            \* the caller's solution of the system, until the system changes
  directions,     \* what the functions of GetFullFunction are bound to
  configuration   \* history: whose system it should be

object == <<n_, an_, m_1_, m_2_, f_>>
dipoleVars == <<object, sol, directions, configuration>>

NoSolution == [tt |-> << >>, num |-> << >>]

----------------------------------------------------------------------------

TwoDVecDifference(i1, i2, xi, n) == <<xi[i1] - xi[i2], xi[i1 + n] - xi[i2 + n]>>
GetDistance(i1, i2, xi, n) ==
  LET d == TwoDVecDifference(i1, i2, xi, n)
  IN CHOOSE r \in 0 .. MaxDistance : r * r = d[1] * d[1] + d[2] * d[2]

\* Numbers are integers here: the coordinates, and so that r ^ 5 can be a factor, the distances.
ASSUME DistanceAssumption ==
  /\ MaxDistance \in Nat
  /\ \A xi \in Configurations :
       LET n == SizeOf(xi) \div 2
       IN /\ \A k \in DOMAIN xi : xi[k] \in Int
          /\ \A i, m \in Idx(n) : LET d == TwoDVecDifference(i, m, xi, n)
                                 IN \E r \in 0 .. MaxDistance :
                                      r * r = d[1] * d[1] + d[2] * d[2]

\* GetMatrices: entry (a, b) of k_1 and k_2, times r ^ 5.
K1(rim, r, a, b) == 3 * rim[a] * rim[b] - (IF a = b THEN r * r ELSE 0)
K2(r, a, b) == IF a = b THEN OmegaByC * r * r * r ELSE 0

\* Blocks (i, m) of two by two entries; pair has those for i # m.
Block(n, diagonal, pair) ==
  [p \in Idx(2 * n) \X Idx(2 * n) |->
    LET i == p[1] \div 2
        m == p[2] \div 2
    IN IF i = m THEN (IF p[1] = p[2] THEN diagonal ELSE 0)
       ELSE pair[<<i, m, 1 + (p[1] % 2), 1 + (p[2] % 2)>>]]

PairEntries(n) == Idx(n) \X Idx(n) \X {1, 2} \X {1, 2}

FirstMatrix(xi, n, an) ==
  Block(n, Detuning, [e \in PairEntries(n) |->
    LET rim == TwoDVecDifference(e[2], e[1], xi, n)
        r == GetDistance(e[1], e[2], xi, n)
    IN - an * (K1(rim, r, e[3], e[4]) * Cos - K2(r, e[3], e[4]) * Sin)])

SecondMatrix(xi, n, an) ==
  Block(n, - Damping, [e \in PairEntries(n) |->
    LET rim == TwoDVecDifference(e[2], e[1], xi, n)
        r == GetDistance(e[1], e[2], xi, n)
    IN - an * (K2(r, e[3], e[4]) * Cos + K1(rim, r, e[3], e[4]) * Sin)])

RightPart(n, an) == [k \in Idx(4 * n) |->
  IF (k < 2 * n) = (k % 2 = 0) THEN an * Eps ELSE 0]

\* Mutant: the right part is made before an_ is set.
InitArrays_OldAn(n) ==
  /\ n_' = n
  /\ an_' = A \div n
  /\ f_' = RightPart(n, an_)
\* m_1_ and m_2_ are replaced by what the caller fills in.
InitArrays(n) ==
  /\ n_' = n
  /\ an_' = A \div n
  /\ f_' = RightPart(n, A \div n)

GetMatrixx(m1, m2, n) == [p \in Idx(4 * n) \X Idx(4 * n) |->
  LET r == p[1] % (2 * n)
      c == p[2] % (2 * n)
  IN CASE (p[1] < 2 * n) = (p[2] < 2 * n) -> m1[<<r, c>>]
       [] p[1] < 2 * n /\ p[2] >= 2 * n -> - m2[<<r, c>>]
       [] OTHER -> m2[<<r, c>>]]

SystemChanges(xi) ==
  /\ sol' = NoSolution
  /\ configuration' = xi
  /\ UNCHANGED directions

NeedsInit(xi) == SizeOf(f_) # 2 * SizeOf(xi)

\* The constructor for the first configuration.
SetNewCoordinates(xi) ==
  /\ IF NeedsInit(xi) THEN InitArrays(SizeOf(xi) \div 2) ELSE UNCHANGED <<n_, an_, f_>>
  /\ m_1_' = FirstMatrix(xi, n_', an_')
  /\ m_2_' = SecondMatrix(xi, n_', an_')
  /\ SystemChanges(xi)

\* Mutant: the upper right block.
SecondBlock_Right(matrix, n) ==
  [p \in Idx(2 * n) \X Idx(2 * n) |-> matrix[<<p[1], 2 * n + p[2]>>]]
SecondBlock(matrix, n) ==
  [p \in Idx(2 * n) \X Idx(2 * n) |-> matrix[<<2 * n + p[1], p[2]>>]]

\* The matrix in the file is one that GetMatrixx returned.
LoadFromMatrix(xi) ==
  LET n == SizeOf(xi) \div 2
      matrix == GetMatrixx(FirstMatrix(xi, n, A \div n), SecondMatrix(xi, n, A \div n), n)
  IN /\ InitArrays(n)
     /\ m_1_' = [p \in Idx(2 * n) \X Idx(2 * n) |-> matrix[p]]
     /\ m_2_' = SecondBlock(matrix, n)
     /\ SystemChanges(xi)

\* All specializations: the same equations, the result in two vectors or in one.
Solve ==
  LET k == 2 * n_
      f2 == Lower(f_, k)
  IN /\ n_ > 0 /\ sol = NoSolution
     /\ sol' = [tt |-> Add(Mul(m_1_, m_1_, k), Mul(m_2_, m_2_, k)),
                num |-> <<Add(Apply(m_1_, f_, k), Apply(m_2_, f2, k)),
                          Sub(Apply(m_1_, f2, k), Apply(m_2_, f_, k))>>]
     /\ UNCHANGED <<object, directions, configuration>>

\* Entries of the solution that the functions take for a dipole: A, then B.
Amplitudes(i, n) == <<2 * i, 2 * i + 1, 2 * i + 2 * n, 2 * i + 1 + 2 * n>>
\* The inner loop of i_2_function_.
InnerAmplitudes(j, n) == <<2 * j, 2 * j + 1, 2 * j + 2 * n, j + 1 + 2 * n>>

\* Both functions are sums over the pairs of dipoles: ifunction_ squares the sum over the
\* dipoles and is integrated over a period, i_2_function_ adds the integrals of the products.
\* What either does with the amplitudes is left out, and with it two more differences:
\* sin(params::omega) without t0 (Dipoles.h:237) and b_ajs made from bi (Dipoles.h:321).
Pairs(n) == {p \in Idx(n) \X Idx(n) : p[2] <= p[1]}
IfunctionTerms(n) == {<<Amplitudes(p[1], n), Amplitudes(p[2], n)>> : p \in Pairs(n)}
I2FunctionTerms(n) ==
  {<<Amplitudes(i, n), Amplitudes(i, n)>> : i \in Idx(n)} \union
  {<<Amplitudes(p[1], n), InnerAmplitudes(p[2], n)>> : p \in {q \in Pairs(n) : q[2] < q[1]}}

GetFullFunction(n) ==
  /\ directions' = [ifunction_ |-> IfunctionTerms(n), i_2_function_ |-> I2FunctionTerms(n)]
  /\ UNCHANGED <<object, sol, configuration>>

----------------------------------------------------------------------------

DipolesInit ==
  /\ n_ = 0 /\ an_ = A /\ m_1_ = << >> /\ m_2_ = << >> /\ f_ = << >>
  /\ sol = NoSolution
  /\ directions = [ifunction_ |-> {}, i_2_function_ |-> {}]
  /\ configuration = << >>

DipolesNext ==
  \/ \E xi \in Configurations : SetNewCoordinates(xi) \/ LoadFromMatrix(xi)
  \/ Solve
  \/ \E n \in Sizes : GetFullFunction(n)

DipolesSpec == DipolesInit /\ [][DipolesNext]_dipoleVars

----------------------------------------------------------------------------

\* However the object was used before (other sizes, matrices from a file, the same configuration
\* again), its coefficient, right part and matrices are those of the configuration given last,
\* although SetNewCoordinates renews the first two only when the size differs (Dipoles.h:208).
ObjectIsRenewed == configuration # << >> =>
  LET n == SizeOf(configuration) \div 2
      an == A \div n
  IN /\ n_ = n /\ an_ = an /\ f_ = RightPart(n, an)
     /\ m_1_ = FirstMatrix(configuration, n, an)
     /\ m_2_ = SecondMatrix(configuration, n, an)

\* However the object was used before (other sizes, matrices from a file), what Solve returns
\* (Dipoles.cpp:68-71) is the solution of the system of the configuration given last:
\* matrix * x = right part.  With tt * x = num, and tt commuting with both blocks, that is
\* matrix * num = tt * right part.  It holds because the blocks of two dipoles commute;
\* with three they need not, and the code's solution is an approximation.
SystemIsSolved == sol # NoSolution =>
  LET n == SizeOf(configuration) \div 2
      k == 2 * n
      an == A \div n
      m1 == FirstMatrix(configuration, n, an)
      m2 == SecondMatrix(configuration, n, an)
      f == RightPart(n, an)
      x == [i \in Idx(4 * n) |-> sol.num[1 + i \div k][i % k]]
      side == Apply(GetMatrixx(m1, m2, n), x, 4 * n)
  IN /\ Mul(sol.tt, m1, k) = Mul(m1, sol.tt, k)
     /\ Mul(sol.tt, m2, k) = Mul(m2, sol.tt, k)
     /\ [i \in Idx(k) |-> side[i]] = Apply(sol.tt, f, k)
     /\ Lower(side, k) = Apply(sol.tt, Lower(f, k), k)

\* smokeTests.cpp TestFunctionImplEqualRes expects the numeric and the analytic function
\* (Dipoles.h:137, 138) to give the same mesh: both read the amplitudes of the same pairs.
FunctionsAgree == directions.ifunction_ = directions.i_2_function_
=============================================================================
