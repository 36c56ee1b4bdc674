----------------------------- MODULE FiniteSums -----------------------------
(***************************************************************************)
(* Induction as a statement about sets, and the facts about finite sums    *)
(* that the proofs of the other modules cite.                              *)
(***************************************************************************)
EXTENDS Integers, FiniteSets, Functions, FiniteSetTheorems, TLAPS

\* A set of naturals that is not empty has a least member.
LEMMA LeastNatural ==
  ASSUME NEW T, T \subseteq Nat, T # {}
  PROVE  \E m \in T : \A n \in T : m <= n
<1>1. IsWellFoundedOn(OpToRel(<, Nat), Nat)
  BY NatLessThanWellFounded
<1>2. PICK m \in T : \A n \in T : <<n, m>> \notin OpToRel(<, Nat)
  <2>. HIDE DEF OpToRel
  <2>. QED BY <1>1, WFMin, Zenon
<1>3. \A n \in T : m <= n
  <2>. SUFFICES ASSUME NEW n \in T PROVE m <= n
    OBVIOUS
  <2>1. n \in Nat /\ m \in Nat
    OBVIOUS
  <2>2. <<n, m>> \notin OpToRel(<, Nat)
    BY <1>2
  <2>3. ~ (n < m)
    BY <2>1, <2>2 DEF OpToRel
  <2>. QED BY <2>1, <2>3
<1>. QED BY <1>3

\* Induction over the naturals.
LEMMA NaturalInduction ==
  ASSUME NEW G, 0 \in G, \A n \in Nat : n \in G => n + 1 \in G
  PROVE  Nat \subseteq G
<1>. SUFFICES ASSUME Nat \ G # {} PROVE FALSE
  OBVIOUS
<1>1. PICK m \in Nat \ G : \A n \in Nat \ G : m <= n
  BY LeastNatural
<1>2. m # 0 /\ m - 1 \in Nat
  OBVIOUS
<1>3. m - 1 \in G
  BY <1>1, <1>2
<1>. QED BY <1>2, <1>3

\* Induction over the subsets of a finite set, by their members.
LEMMA SubsetInduction ==
  ASSUME NEW S, IsFiniteSet(S), NEW G,
         \A T \in SUBSET S : (\A x \in T : T \ {x} \in G) => T \in G
  PROVE  \A T \in SUBSET S : T \in G
<1>. SUFFICES ASSUME NEW U \in SUBSET S, U \notin G PROVE FALSE
  OBVIOUS
<1>. DEFINE Sizes == {Cardinality(T) : T \in (SUBSET S) \ G}
<1>1. \A T \in SUBSET S : IsFiniteSet(T) /\ Cardinality(T) \in Nat
  BY FS_Subset, FS_CardinalityType
<1>2. Sizes \subseteq Nat /\ Sizes # {}
  <2>1. Cardinality(U) \in Sizes
    OBVIOUS
  <2>2. Sizes \subseteq Nat
    BY <1>1
  <2>. QED BY <2>1, <2>2
<1>3. PICK m \in Sizes : \A n \in Sizes : m <= n
  <2>. HIDE DEF Sizes
  <2>. QED BY <1>2, LeastNatural
<1>4. PICK T \in (SUBSET S) \ G : m = Cardinality(T)
  OBVIOUS
<1>5. ASSUME NEW x \in T PROVE T \ {x} \in G
  <2>1. Cardinality(T \ {x}) = Cardinality(T) - 1
    BY <1>1, FS_RemoveElement
  <2>2. ~ (m <= Cardinality(T \ {x}))
    BY <2>1, <1>1, <1>4
  <2>3. T \ {x} \in SUBSET S
    OBVIOUS
  <2>. QED BY <2>2, <2>3, <1>3
<1>6. T \in SUBSET S /\ T \notin G
  BY <1>4
<1>. QED BY <1>5, <1>6

----------------------------------------------------------------------------
(* The fold that SumFunctionOnSet is defined by.                           *)

FoldPick(s) == CHOOSE x \in s : TRUE
FoldStep(f, it, s) == IF s = {} THEN 0 ELSE f[FoldPick(s)] + it[s \ {FoldPick(s)}]
Folded(f, S) == CHOOSE it : it = [s \in SUBSET S |-> FoldStep(f, it, s)]

LEMMA SumIsFolded == ASSUME NEW f, NEW S PROVE SumFunctionOnSet(f, S) = Folded(f, S)[S]
BY DEF SumFunctionOnSet, FoldFunctionOnSet, MapThenFoldSet, Folded, FoldStep, FoldPick

LEMMA PickIsMember == ASSUME NEW s, s # {} PROVE FoldPick(s) \in s
BY DEF FoldPick

\* The recursive function of the fold exists.
LEMMA FoldExists ==
  ASSUME NEW f, NEW S, IsFiniteSet(S)
  PROVE  \E it : it = [s \in SUBSET S |-> FoldStep(f, it, s)]
<1>. DEFINE Small(n) == {s \in SUBSET S : Cardinality(s) <= n}
            G == {n \in Nat : \E it : it = [s \in Small(n) |-> FoldStep(f, it, s)]}
<1>1. \A T \in SUBSET S : /\ IsFiniteSet(T) /\ Cardinality(T) \in Nat
                          /\ Cardinality(T) <= Cardinality(S)
  BY FS_Subset, FS_CardinalityType
<1>2. ASSUME NEW n \in Nat, NEW s \in Small(n + 1), s # {} PROVE s \ {FoldPick(s)} \in Small(n)
  <2>1. Cardinality(s \ {FoldPick(s)}) = Cardinality(s) - 1
    BY <1>1, PickIsMember, FS_RemoveElement, <1>2
  <2>. QED BY <2>1, <1>1
<1>3. 0 \in G
  <2>1. \A s \in Small(0) : s = {}
    BY <1>1, FS_EmptySet
  <2>. DEFINE it == [s \in Small(0) |-> 0]
  <2>2. it = [s \in Small(0) |-> FoldStep(f, it, s)]
    BY <2>1 DEF FoldStep
  <2>. QED BY <2>2
<1>4. ASSUME NEW n \in Nat, n \in G PROVE n + 1 \in G
  <2>1. PICK old : old = [s \in Small(n) |-> FoldStep(f, old, s)]
    BY <1>4
  <2>. DEFINE it == [s \in Small(n + 1) |-> FoldStep(f, old, s)]
  <2>2. Small(n) \subseteq Small(n + 1)
    BY <1>1
  <2>3. \A s \in Small(n) : it[s] = old[s]
    <3>. SUFFICES ASSUME NEW s \in Small(n) PROVE it[s] = old[s]
      OBVIOUS
    <3>1. old[s] = FoldStep(f, old, s)
      <4>. HIDE DEF Small
      <4>. QED BY <2>1
    <3>2. s \in Small(n + 1)
      BY <2>2
    <3>. HIDE DEF Small
    <3>. QED BY <3>1, <3>2
  <2>4. \A s \in Small(n + 1) : s # {} => it[s \ {FoldPick(s)}] = old[s \ {FoldPick(s)}]
    <3>. HIDE DEF Small, it
    <3>. QED BY <1>2, <2>3
  <2>5. it = [s \in Small(n + 1) |-> FoldStep(f, it, s)]
    <3>1. ASSUME NEW s \in Small(n + 1)
          PROVE  FoldStep(f, old, s) = FoldStep(f, it, s)
      <4>. HIDE DEF it, Small
      <4>. QED BY <2>4 DEF FoldStep
    <3>. HIDE DEF Small
    <3>2. it = [s \in Small(n + 1) |-> FoldStep(f, old, s)]
      OBVIOUS
    <3>. HIDE DEF it
    <3>. QED BY <3>1, <3>2
  <2>6. n + 1 \in Nat
    OBVIOUS
  <2>. QED
    <3>. HIDE DEF it, Small
    <3>. QED BY <2>5, <2>6
<1>5. Cardinality(S) \in G
  <2>. HIDE DEF G
  <2>1. Nat \subseteq G
    BY <1>3, <1>4, NaturalInduction
  <2>. QED BY <2>1, FS_CardinalityType
<1>6. Small(Cardinality(S)) = SUBSET S
  BY <1>1
<1>7. \E it : it = [s \in Small(Cardinality(S)) |-> FoldStep(f, it, s)]
  <2>. HIDE DEF Small
  <2>. QED BY <1>5
<1>. HIDE DEF Small
<1>. QED BY <1>6, <1>7

\* A function that unfolds like the fold is the fold.
LEMMA FoldUnfolds ==
  ASSUME NEW f, NEW S, IsFiniteSet(S), NEW s \in SUBSET S
  PROVE  Folded(f, S)[s] = FoldStep(f, Folded(f, S), s)
<1>1. Folded(f, S) = [t \in SUBSET S |-> FoldStep(f, Folded(f, S), t)]
  <2>1. \E it : it = [t \in SUBSET S |-> FoldStep(f, it, t)]
    BY FoldExists
  <2>. QED BY <2>1, Zenon DEF Folded
<1>. QED BY <1>1

LEMMA FoldIsUnique ==
  ASSUME NEW f, NEW S, IsFiniteSet(S), NEW T \in SUBSET S, NEW it,
         \A s \in SUBSET T : it[s] = FoldStep(f, it, s)
  PROVE  it[T] = Folded(f, S)[T]
<1>. DEFINE G == {s \in SUBSET T : it[s] = Folded(f, S)[s]}
<1>1. IsFiniteSet(T)
  BY FS_Subset
<1>2. ASSUME NEW s \in SUBSET T, \A x \in s : s \ {x} \in G PROVE s \in G
  <2>1. Folded(f, S)[s] = FoldStep(f, Folded(f, S), s)
    <3>1. s \in SUBSET S
      OBVIOUS
    <3>. QED BY <3>1, FoldUnfolds
  <2>2. s # {} => it[s \ {FoldPick(s)}] = Folded(f, S)[s \ {FoldPick(s)}]
    BY <1>2, PickIsMember
  <2>3. it[s] = FoldStep(f, it, s)
    OBVIOUS
  <2>. QED BY <2>1, <2>2, <2>3 DEF FoldStep
<1>3. \A s \in SUBSET T : s \in G
  <2>. HIDE DEF G
  <2>. QED BY <1>1, <1>2, SubsetInduction, Zenon
<1>. QED BY <1>3

LEMMA SumUnfolds ==
  ASSUME NEW f, NEW S, IsFiniteSet(S)
  PROVE  SumFunctionOnSet(f, S)
           = IF S = {} THEN 0 ELSE f[FoldPick(S)] + SumFunctionOnSet(f, S \ {FoldPick(S)})
<1>1. Folded(f, S)[S] = FoldStep(f, Folded(f, S), S)
  BY FoldUnfolds
<1>2. Folded(f, S)[S \ {FoldPick(S)}] = Folded(f, S \ {FoldPick(S)})[S \ {FoldPick(S)}]
  <2>. DEFINE T == S \ {FoldPick(S)}
  <2>1. IsFiniteSet(T)
    BY FS_Subset
  <2>2. \A s \in SUBSET T :
          Folded(f, T)[s] = FoldStep(f, Folded(f, T), s)
    <3>. HIDE DEF T
    <3>. QED BY <2>1, FoldUnfolds
  <2>3. T \in SUBSET S
    OBVIOUS
  <2>. HIDE DEF T
  <2>4. Folded(f, T)[T] = Folded(f, S)[T]
    <3>. DEFINE it == Folded(f, T)
    <3>1. \A s \in SUBSET T : it[s] = FoldStep(f, it, s)
      BY <2>2
    <3>. HIDE DEF it
    <3>2. it[T] = Folded(f, S)[T]
      BY <3>1, <2>3, FoldIsUnique
    <3>. QED BY <3>2 DEF it
  <2>. QED BY <2>4 DEF T
<1>. QED BY <1>1, <1>2, SumIsFolded DEF FoldStep

\* A sum is in every set that holds its terms and zero and is closed under addition.
LEMMA SumType ==
  ASSUME NEW V, 0 \in V, \A u, v \in V : u + v \in V,
         NEW S, IsFiniteSet(S), NEW f, \A x \in S : f[x] \in V
  PROVE  SumFunctionOnSet(f, S) \in V
<1>. DEFINE G == {T \in SUBSET S : SumFunctionOnSet(f, T) \in V}
<1>1. ASSUME NEW T \in SUBSET S, \A x \in T : T \ {x} \in G PROVE T \in G
  <2>1. IsFiniteSet(T)
    BY FS_Subset
  <2>2. SumFunctionOnSet(f, T)
          = IF T = {} THEN 0 ELSE f[FoldPick(T)] + SumFunctionOnSet(f, T \ {FoldPick(T)})
    BY <2>1, SumUnfolds
  <2>3. T # {} => FoldPick(T) \in T /\ SumFunctionOnSet(f, T \ {FoldPick(T)}) \in V
    BY <1>1, PickIsMember
  <2>. QED BY <2>2, <2>3
<1>2. \A T \in SUBSET S : T \in G
  <2>. HIDE DEF G
  <2>. QED BY <1>1, SubsetInduction, Zenon
<1>. QED BY <1>2

\* The order of the terms does not matter: any of them may come first.
LEMMA SumRemove ==
  ASSUME NEW S, IsFiniteSet(S), NEW f, \A x \in S : f[x] \in Int, NEW a \in S
  PROVE  SumFunctionOnSet(f, S) = f[a] + SumFunctionOnSet(f, S \ {a})
<1>. DEFINE G == {T \in SUBSET S :
                    \A x \in T : SumFunctionOnSet(f, T) = f[x] + SumFunctionOnSet(f, T \ {x})}
<1>1. ASSUME NEW T \in SUBSET S, \A x \in T : T \ {x} \in G PROVE T \in G
  <2>. SUFFICES ASSUME NEW x \in T
                PROVE  SumFunctionOnSet(f, T) = f[x] + SumFunctionOnSet(f, T \ {x})
    OBVIOUS
  <2>. DEFINE p == FoldPick(T)
  <2>1. IsFiniteSet(T) /\ IsFiniteSet(T \ {x}) /\ IsFiniteSet((T \ {x}) \ {p})
    BY FS_Subset
  <2>2. p \in T /\ SumFunctionOnSet(f, T) = f[p] + SumFunctionOnSet(f, T \ {p})
    BY <2>1, SumUnfolds, PickIsMember
  <2>3. CASE x = p
    BY <2>2, <2>3
  <2>4. CASE x # p
    <3>1. T \ {p} \in G /\ T \ {x} \in G
      BY <1>1, <2>2
    <3>2. SumFunctionOnSet(f, T \ {p}) = f[x] + SumFunctionOnSet(f, (T \ {p}) \ {x})
      BY <3>1, <2>4
    <3>3. SumFunctionOnSet(f, T \ {x}) = f[p] + SumFunctionOnSet(f, (T \ {x}) \ {p})
      BY <3>1, <2>2, <2>4
    <3>4. (T \ {p}) \ {x} = (T \ {x}) \ {p}
      OBVIOUS
    <3>5. SumFunctionOnSet(f, (T \ {x}) \ {p}) \in Int
      BY <2>1, SumType
    <3>6. f[x] \in Int /\ f[p] \in Int
      BY <2>2
    <3>7. SumFunctionOnSet(f, T) = f[p] + (f[x] + SumFunctionOnSet(f, (T \ {x}) \ {p}))
      BY <2>2, <3>2, <3>4
    <3>. HIDE DEF G, p
    <3>. QED BY <3>3, <3>5, <3>6, <3>7
  <2>. QED BY <2>3, <2>4
<1>2. \A T \in SUBSET S : T \in G
  <2>. HIDE DEF G
  <2>. QED BY <1>1, SubsetInduction, Zenon
<1>. QED BY <1>2

\* A sum is about the terms it adds.
LEMMA SumAgrees ==
  ASSUME NEW S, IsFiniteSet(S), NEW f, NEW g, \A x \in S : f[x] = g[x]
  PROVE  SumFunctionOnSet(f, S) = SumFunctionOnSet(g, S)
<1>. DEFINE G == {T \in SUBSET S : SumFunctionOnSet(f, T) = SumFunctionOnSet(g, T)}
<1>1. ASSUME NEW T \in SUBSET S, \A x \in T : T \ {x} \in G PROVE T \in G
  <2>1. IsFiniteSet(T)
    BY FS_Subset
  <2>2. /\ SumFunctionOnSet(f, T)
             = IF T = {} THEN 0 ELSE f[FoldPick(T)] + SumFunctionOnSet(f, T \ {FoldPick(T)})
        /\ SumFunctionOnSet(g, T)
             = IF T = {} THEN 0 ELSE g[FoldPick(T)] + SumFunctionOnSet(g, T \ {FoldPick(T)})
    BY <2>1, SumUnfolds
  <2>3. T # {} => /\ f[FoldPick(T)] = g[FoldPick(T)]
                  /\ SumFunctionOnSet(f, T \ {FoldPick(T)}) = SumFunctionOnSet(g, T \ {FoldPick(T)})
    BY <1>1, PickIsMember
  <2>. QED BY <2>2, <2>3
<1>2. \A T \in SUBSET S : T \in G
  <2>. HIDE DEF G
  <2>. QED BY <1>1, SubsetInduction, Zenon
<1>. QED BY <1>2

\* What a sum of naturals is.
LEMMA SumOfNaturals ==
  ASSUME NEW S, IsFiniteSet(S), NEW f, \A x \in S : f[x] \in Nat
  PROVE  /\ SumFunctionOnSet(f, {}) = 0
         /\ SumFunctionOnSet(f, S) \in Nat
         /\ \A a \in S : SumFunctionOnSet(f, S) = SumFunctionOnSet(f, S \ {a}) + f[a]
<1>0. 0 \in Nat /\ \A u, v \in Nat : u + v \in Nat
  OBVIOUS
<1>1. SumFunctionOnSet(f, {}) = 0
  BY SumUnfolds, FS_EmptySet
<1>2. SumFunctionOnSet(f, S) \in Nat
  BY <1>0, SumType, Zenon
<1>3. ASSUME NEW a \in S PROVE SumFunctionOnSet(f, S) = SumFunctionOnSet(f, S \ {a}) + f[a]
  <2>1. IsFiniteSet(S \ {a})
    BY FS_Subset
  <2>2. SumFunctionOnSet(f, S \ {a}) \in Nat
    <3>1. \A x \in S \ {a} : f[x] \in Nat
      OBVIOUS
    <3>. QED BY <1>0, <2>1, <3>1, SumType, Zenon
  <2>3. \A x \in S : f[x] \in Int
    OBVIOUS
  <2>4. SumFunctionOnSet(f, S) = f[a] + SumFunctionOnSet(f, S \ {a})
    BY <2>3, SumRemove
  <2>. QED BY <2>2, <2>3, <2>4
<1>. QED BY <1>1, <1>2, <1>3

\* The sum of a nonempty set begins with the member that the fold picks.
LEMMA SumFirst ==
  ASSUME NEW S, IsFiniteSet(S), NEW f, NEW T \in SUBSET S, T # {}
  PROVE  /\ FoldPick(T) \in T
         /\ T \ {FoldPick(T)} \in SUBSET S
         /\ SumFunctionOnSet(f, T) = f[FoldPick(T)] + SumFunctionOnSet(f, T \ {FoldPick(T)})
<1>1. IsFiniteSet(T)
  BY FS_Subset
<1>. QED BY <1>1, SumUnfolds, PickIsMember

LEMMA SumOfNothing == ASSUME NEW f PROVE SumFunctionOnSet(f, {}) = 0
BY SumUnfolds, FS_EmptySet

LEMMA SumIsInt ==
  ASSUME NEW S, IsFiniteSet(S), NEW f, \A x \in S : f[x] \in Int
  PROVE  \A T \in SUBSET S : SumFunctionOnSet(f, T) \in Int
<1>1. 0 \in Int /\ \A u, v \in Int : u + v \in Int
  OBVIOUS
<1>2. ASSUME NEW T \in SUBSET S PROVE SumFunctionOnSet(f, T) \in Int
  <2>1. IsFiniteSet(T) /\ \A x \in T : f[x] \in Int
    BY FS_Subset
  <2>. QED BY <1>1, <2>1, SumType, Zenon
<1>. QED BY <1>2

\* Sums are linear.
LEMMA SumAdd ==
  ASSUME NEW S, IsFiniteSet(S), NEW f, NEW g, NEW h,
         \A x \in S : f[x] \in Int /\ g[x] \in Int /\ h[x] = f[x] + g[x]
  PROVE  SumFunctionOnSet(h, S) = SumFunctionOnSet(f, S) + SumFunctionOnSet(g, S)
<1>. DEFINE F(T) == SumFunctionOnSet(f, T)
            D(T) == SumFunctionOnSet(g, T)
            H(T) == SumFunctionOnSet(h, T)
            G == {T \in SUBSET S : H(T) = F(T) + D(T)}
<1>1. \A T \in SUBSET S : F(T) \in Int /\ D(T) \in Int
  BY SumIsInt
<1>2. H({}) = 0 /\ F({}) = 0 /\ D({}) = 0
  BY SumOfNothing
<1>3. ASSUME NEW T \in SUBSET S, T # {}
      PROVE  \E p \in T : /\ T \ {p} \in SUBSET S
                          /\ F(T) = f[p] + F(T \ {p})
                          /\ D(T) = g[p] + D(T \ {p})
                          /\ H(T) = h[p] + H(T \ {p})
  <2>1. FoldPick(T) \in T
    BY <1>3, SumFirst
  <2>. WITNESS FoldPick(T) \in T
  <2>. QED BY <1>3, SumFirst
<1>. HIDE DEF F, D, H
<1>4. ASSUME NEW T \in SUBSET S, \A x \in T : T \ {x} \in G PROVE T \in G
  <2>1. CASE T = {}
    BY <2>1, <1>2
  <2>2. CASE T # {}
    <3>1. PICK p \in T : /\ T \ {p} \in SUBSET S
                         /\ F(T) = f[p] + F(T \ {p})
                         /\ D(T) = g[p] + D(T \ {p})
                         /\ H(T) = h[p] + H(T \ {p})
      BY <2>2, <1>3
    <3>2. H(T \ {p}) = F(T \ {p}) + D(T \ {p})
      BY <1>4
    <3>3. F(T \ {p}) \in Int /\ D(T \ {p}) \in Int
      BY <3>1, <1>1
    <3>4. f[p] \in Int /\ g[p] \in Int /\ h[p] = f[p] + g[p]
      OBVIOUS
    <3>5. H(T) = F(T) + D(T)
      BY <3>1, <3>2, <3>3, <3>4
    <3>. QED BY <3>5
  <2>. QED BY <2>1, <2>2
<1>5. \A T \in SUBSET S : T \in G
  <2>. HIDE DEF G
  <2>. QED BY <1>4, SubsetInduction, Zenon
<1>. QED BY <1>5 DEF F, D, H

LEMMA SumScale ==
  ASSUME NEW S, IsFiniteSet(S), NEW c \in Int, NEW f, NEW h,
         \A x \in S : f[x] \in Int /\ h[x] = c * f[x]
  PROVE  SumFunctionOnSet(h, S) = c * SumFunctionOnSet(f, S)
<1>. DEFINE F(T) == SumFunctionOnSet(f, T)
            H(T) == SumFunctionOnSet(h, T)
            G == {T \in SUBSET S : H(T) = c * F(T)}
<1>1. \A T \in SUBSET S : F(T) \in Int
  BY SumIsInt
<1>2. H({}) = 0 /\ F({}) = 0
  BY SumOfNothing
<1>3. ASSUME NEW T \in SUBSET S, T # {}
      PROVE  \E p \in T : /\ T \ {p} \in SUBSET S
                          /\ F(T) = f[p] + F(T \ {p})
                          /\ H(T) = h[p] + H(T \ {p})
  <2>1. FoldPick(T) \in T
    BY <1>3, SumFirst
  <2>. WITNESS FoldPick(T) \in T
  <2>. QED BY <1>3, SumFirst
<1>. HIDE DEF F, H
<1>4. ASSUME NEW T \in SUBSET S, \A x \in T : T \ {x} \in G PROVE T \in G
  <2>1. CASE T = {}
    BY <2>1, <1>2
  <2>2. CASE T # {}
    <3>1. PICK p \in T : /\ T \ {p} \in SUBSET S
                         /\ F(T) = f[p] + F(T \ {p})
                         /\ H(T) = h[p] + H(T \ {p})
      BY <2>2, <1>3
    <3>2. H(T \ {p}) = c * F(T \ {p})
      BY <1>4
    <3>3. F(T \ {p}) \in Int /\ f[p] \in Int /\ h[p] = c * f[p]
      BY <3>1, <1>1
    <3>4. \A u, v \in Int : c * u + c * v = c * (u + v)
      BY Z3
    <3>5. H(T) = c * F(T)
      BY <3>1, <3>2, <3>3, <3>4
    <3>. QED BY <3>5
  <2>. QED BY <2>1, <2>2
<1>5. \A T \in SUBSET S : T \in G
  <2>. HIDE DEF G
  <2>. QED BY <1>4, SubsetInduction, Zenon
<1>. QED BY <1>5 DEF F, H

LEMMA SumOfZeros ==
  ASSUME NEW S, IsFiniteSet(S), NEW f, \A x \in S : f[x] = 0
  PROVE  SumFunctionOnSet(f, S) = 0
<1>1. 0 \in {0} /\ (\A u, v \in {0} : u + v \in {0}) /\ \A x \in S : f[x] \in {0}
  OBVIOUS
<1>2. SumFunctionOnSet(f, S) \in {0}
  BY <1>1, SumType, Zenon
<1>. QED BY <1>2

\* Rows before columns or columns before rows.
LEMMA SumExchange ==
  ASSUME NEW S, IsFiniteSet(S), NEW T, IsFiniteSet(T), NEW M,
         \A x \in S, y \in T : M[<<x, y>>] \in Int
  PROVE  SumFunctionOnSet([x \in S |-> SumFunctionOnSet([y \in T |-> M[<<x, y>>]], T)], S)
           = SumFunctionOnSet([y \in T |-> SumFunctionOnSet([x \in S |-> M[<<x, y>>]], S)], T)
<1>. DEFINE row(x) == [y \in T |-> M[<<x, y>>]]
            col(y) == [x \in S |-> M[<<x, y>>]]
            rows == [x \in S |-> SumFunctionOnSet(row(x), T)]
            cols(U) == [y \in T |-> SumFunctionOnSet(col(y), U)]
            G == {U \in SUBSET S : SumFunctionOnSet(rows, U) = SumFunctionOnSet(cols(U), T)}
<1>1. \A x \in S, y \in T : row(x)[y] \in Int /\ col(y)[x] = row(x)[y]
  OBVIOUS
<1>2. \A U \in SUBSET S, y \in T : cols(U)[y] \in Int
  <2>. SUFFICES ASSUME NEW U \in SUBSET S, NEW y \in T PROVE SumFunctionOnSet(col(y), U) \in Int
    OBVIOUS
  <2>1. \A x \in S : col(y)[x] \in Int
    OBVIOUS
  <2>. HIDE DEF col
  <2>. QED BY <2>1, SumIsInt
<1>3. ASSUME NEW U \in SUBSET S, \A x \in U : U \ {x} \in G PROVE U \in G
  <2>1. CASE U = {}
    <3>1. \A y \in T : cols(U)[y] = 0
      BY <2>1, SumOfNothing
    <3>2. SumFunctionOnSet(rows, U) = 0
      BY <2>1, SumOfNothing
    <3>. HIDE DEF rows, cols
    <3>3. SumFunctionOnSet(cols(U), T) = 0
      BY <3>1, SumOfZeros
    <3>. QED BY <3>2, <3>3
  <2>2. CASE U # {}
    <3>. DEFINE p == FoldPick(U)
                W == U \ {p}
    <3>1. p \in U /\ W \in SUBSET S /\ W \in G
      BY <2>2, SumFirst, <1>3
    <3>2. SumFunctionOnSet(rows, U) = rows[p] + SumFunctionOnSet(rows, W)
      <4>. HIDE DEF rows
      <4>. QED BY <2>2, SumFirst
    <3>3. \A y \in T : cols(U)[y] = row(p)[y] + cols(W)[y]
      <4>. SUFFICES ASSUME NEW y \in T
                    PROVE  SumFunctionOnSet(col(y), U) = row(p)[y] + SumFunctionOnSet(col(y), W)
        OBVIOUS
      <4>1. SumFunctionOnSet(col(y), U) = col(y)[p] + SumFunctionOnSet(col(y), W)
        <5>. HIDE DEF col
        <5>. QED BY <2>2, SumFirst
      <4>2. col(y)[p] = row(p)[y]
        BY <3>1, <1>1
      <4>. HIDE DEF row, col, p, W
      <4>. QED BY <4>1, <4>2
    <3>4. \A y \in T : row(p)[y] \in Int /\ cols(W)[y] \in Int
      <4>. HIDE DEF row, cols, p, W
      <4>. QED BY <1>1, <1>2, <3>1
    <3>5. SumFunctionOnSet(cols(U), T) = SumFunctionOnSet(row(p), T) + SumFunctionOnSet(cols(W), T)
      <4>. HIDE DEF row, cols, p, W
      <4>. QED BY <3>3, <3>4, SumAdd
    <3>6. rows[p] = SumFunctionOnSet(row(p), T)
      BY <3>1
    <3>7. SumFunctionOnSet(rows, W) = SumFunctionOnSet(cols(W), T)
      <4>. HIDE DEF W
      <4>. QED BY <3>1
    <3>. HIDE DEF row, rows, cols, p, W
    <3>. QED BY <3>2, <3>5, <3>6, <3>7
  <2>. QED BY <2>1, <2>2
<1>4. \A U \in SUBSET S : U \in G
  <2>. HIDE DEF G
  <2>. QED BY <1>3, SubsetInduction, Zenon
<1>. QED BY <1>4

\* A sum over 0 .. 2k - 1 is that of its two halves.
LEMMA SumOfHalves ==
  ASSUME NEW k \in Nat, NEW f, \A x \in 0 .. (2 * k - 1) : f[x] \in Int
  PROVE  SumFunctionOnSet(f, 0 .. (2 * k - 1))
           = SumFunctionOnSet(f, 0 .. (k - 1))
               + SumFunctionOnSet([q \in 0 .. (k - 1) |-> f[k + q]], 0 .. (k - 1))
<1>. DEFINE g == [q \in 0 .. (k - 1) |-> f[k + q]]
            F(j) == SumFunctionOnSet(f, 0 .. (k + j - 1))
            H(j) == SumFunctionOnSet(g, 0 .. (j - 1))
            G == {j \in Nat : j <= k => F(j) = F(0) + H(j)}
<1>1. /\ \A j \in Nat : IsFiniteSet(0 .. (j - 1)) /\ IsFiniteSet(0 .. (k + j - 1))
      /\ \A x \in 0 .. (k - 1) : g[x] \in Int /\ g[x] = f[k + x]
  <2>1. \A a, b \in Int : IsFiniteSet(a .. b)
    BY FS_Interval
  <2>2. ASSUME NEW x \in 0 .. (k - 1) PROVE k + x \in 0 .. (2 * k - 1)
    OBVIOUS
  <2>. QED BY <2>1, <2>2
<1>2. \A j \in Nat : j <= k => F(j) \in Int /\ H(j) \in Int
  <2>. SUFFICES ASSUME NEW j \in Nat, j <= k PROVE F(j) \in Int /\ H(j) \in Int
    OBVIOUS
  <2>1. /\ \A x \in 0 .. (k + j - 1) : f[x] \in Int
        /\ \A x \in 0 .. (j - 1) : g[x] \in Int
    BY <1>1
  <2>. HIDE DEF g
  <2>. QED BY <1>1, <2>1, SumIsInt
<1>. HIDE DEF g
<1>3. 0 \in G
  <2>1. 0 .. (0 - 1) = {}
    OBVIOUS
  <2>2. H(0) = 0
    BY <2>1, SumOfNothing
  <2>. HIDE DEF F, H
  <2>3. F(0) \in Int
    BY <1>2
  <2>. QED BY <2>2, <2>3
<1>4. ASSUME NEW j \in Nat, j \in G PROVE j + 1 \in G
  <2>. SUFFICES ASSUME j + 1 <= k PROVE F(j + 1) = F(0) + H(j + 1)
    OBVIOUS
  <2>1. F(j + 1) = f[k + j] + F(j)
    <3>1. /\ 0 .. (k + (j + 1) - 1) = 0 .. (k + j)
          /\ k + j \in 0 .. (k + j)
          /\ (0 .. (k + j)) \ {k + j} = 0 .. (k + j - 1)
          /\ \A x \in 0 .. (k + j) : f[x] \in Int
      OBVIOUS
    <3>2. IsFiniteSet(0 .. (k + j))
      BY FS_Interval
    <3>3. SumFunctionOnSet(f, 0 .. (k + j))
            = f[k + j] + SumFunctionOnSet(f, (0 .. (k + j)) \ {k + j})
      BY <3>1, <3>2, SumRemove
    <3>. QED BY <3>1, <3>3
  <2>2. H(j + 1) = g[j] + H(j)
    <3>1. /\ 0 .. ((j + 1) - 1) = 0 .. j
          /\ j \in 0 .. j
          /\ (0 .. j) \ {j} = 0 .. (j - 1)
          /\ \A x \in 0 .. j : g[x] \in Int
      BY <1>1
    <3>2. IsFiniteSet(0 .. j)
      BY FS_Interval
    <3>3. SumFunctionOnSet(g, 0 .. j) = g[j] + SumFunctionOnSet(g, (0 .. j) \ {j})
      BY <3>1, <3>2, SumRemove
    <3>. QED BY <3>1, <3>3
  <2>3. g[j] = f[k + j] /\ g[j] \in Int
    BY <1>1
  <2>. HIDE DEF F, H
  <2>4. j <= k /\ 0 <= k
    OBVIOUS
  <2>5. F(j) = F(0) + H(j) /\ F(0) \in Int /\ H(j) \in Int
    BY <1>2, <1>4, <2>4
  <2>. QED BY <2>1, <2>2, <2>3, <2>5
<1>5. F(k) = F(0) + H(k)
  <2>1. k \in G
    <3>. HIDE DEF G
    <3>. QED BY <1>3, <1>4, NaturalInduction
  <2>. QED BY <2>1
<1>6. k + k - 1 = 2 * k - 1 /\ k + 0 - 1 = k - 1
  OBVIOUS
<1>. QED BY <1>5, <1>6 DEF g

\* A row times a matrix times a column, from either side: f has the terms of (a M) c, g those
\* of a (M c), left and right those of a M and M c.
Products(S, a, M, c, left, right, f, g) ==
  /\ IsFiniteSet(S)
  /\ \A x \in S : a[x] \in Int /\ c[x] \in Int
  /\ \A x, y \in S : M[<<x, y>>] \in Int
  /\ \A p, q \in S : left[q][p] = a[p] * M[<<p, q>>] /\ right[p][q] = M[<<p, q>>] * c[q]
  /\ \A q \in S : f[q] = SumFunctionOnSet(left[q], S) * c[q]
  /\ \A p \in S : g[p] = a[p] * SumFunctionOnSet(right[p], S)

LEMMA SumOfProducts ==
  ASSUME NEW S, NEW a, NEW M, NEW c, NEW left, NEW right, NEW f, NEW g,
         Products(S, a, M, c, left, right, f, g)
  PROVE  SumFunctionOnSet(f, S) = SumFunctionOnSet(g, S)
<1>. USE DEF Products
<1>. DEFINE N == [e \in S \X S |-> (a[e[1]] * M[e]) * c[e[2]]]
            aM(q) == [p \in S |-> a[p] * M[<<p, q>>]]
            Mc(p) == [q \in S |-> M[<<p, q>>] * c[q]]
            row(p) == [q \in S |-> N[<<p, q>>]]
            col(q) == [p \in S |-> N[<<p, q>>]]
<1>1. \A p, q \in S : /\ N[<<p, q>>] = (a[p] * M[<<p, q>>]) * c[q]
                      /\ aM(q)[p] = a[p] * M[<<p, q>>] /\ aM(q)[p] \in Int
                      /\ Mc(p)[q] = M[<<p, q>>] * c[q] /\ Mc(p)[q] \in Int
                      /\ row(p)[q] = N[<<p, q>>] /\ col(q)[p] = N[<<p, q>>]
  <2>. SUFFICES ASSUME NEW p \in S, NEW q \in S
                PROVE  /\ N[<<p, q>>] = (a[p] * M[<<p, q>>]) * c[q]
                       /\ a[p] * M[<<p, q>>] \in Int
                       /\ M[<<p, q>>] * c[q] \in Int
    OBVIOUS
  <2>1. a[p] \in Int /\ M[<<p, q>>] \in Int /\ c[q] \in Int
    OBVIOUS
  <2>. QED BY <2>1
<1>2. \A x, y, z \in Int : /\ (x * y) * z \in Int
                           /\ (x * y) * z = z * (x * y)
                           /\ (x * y) * z = x * (y * z)
  BY Z3
<1>3. \A p, q \in S : /\ N[<<p, q>>] \in Int
                      /\ col(q)[p] = c[q] * aM(q)[p]
                      /\ row(p)[q] = a[p] * Mc(p)[q]
  <2>. SUFFICES ASSUME NEW p \in S, NEW q \in S
                PROVE  /\ N[<<p, q>>] \in Int
                       /\ N[<<p, q>>] = c[q] * aM(q)[p]
                       /\ N[<<p, q>>] = a[p] * Mc(p)[q]
    BY <1>1
  <2>1. a[p] \in Int /\ M[<<p, q>>] \in Int /\ c[q] \in Int
    OBVIOUS
  <2>. HIDE DEF N, aM, Mc
  <2>. QED BY <2>1, <1>1, <1>2
<1>. HIDE DEF N
<1>4. ASSUME NEW q \in S
      PROVE  SumFunctionOnSet(col(q), S) = SumFunctionOnSet(aM(q), S) * c[q]
  <2>. HIDE DEF col, aM
  <2>1. c[q] \in Int /\ \A p \in S : aM(q)[p] \in Int /\ col(q)[p] = c[q] * aM(q)[p]
    BY <1>1, <1>3
  <2>2. SumFunctionOnSet(col(q), S) = c[q] * SumFunctionOnSet(aM(q), S)
    BY <2>1, SumScale
  <2>3. SumFunctionOnSet(aM(q), S) \in Int
    BY <2>1, SumIsInt
  <2>. QED BY <2>1, <2>2, <2>3
<1>5. ASSUME NEW p \in S
      PROVE  SumFunctionOnSet(row(p), S) = a[p] * SumFunctionOnSet(Mc(p), S)
  <2>. HIDE DEF row, Mc
  <2>1. a[p] \in Int /\ \A q \in S : Mc(p)[q] \in Int /\ row(p)[q] = a[p] * Mc(p)[q]
    BY <1>1, <1>3
  <2>. QED BY <2>1, SumScale
<1>6. SumFunctionOnSet([p \in S |-> SumFunctionOnSet(row(p), S)], S)
        = SumFunctionOnSet([q \in S |-> SumFunctionOnSet(col(q), S)], S)
  <2>1. \A p, q \in S : N[<<p, q>>] \in Int
    BY <1>3
  <2>. QED BY <2>1, SumExchange, SMTT(30)
<1>7. SumFunctionOnSet(f, S) = SumFunctionOnSet([q \in S |-> SumFunctionOnSet(col(q), S)], S)
  <2>1. ASSUME NEW q \in S PROVE f[q] = SumFunctionOnSet(col(q), S)
    <3>1. \A p \in S : left[q][p] = aM(q)[p]
      BY <1>1
    <3>. HIDE DEF aM, col
    <3>2. SumFunctionOnSet(left[q], S) = SumFunctionOnSet(aM(q), S)
      BY <3>1, SumAgrees
    <3>. QED BY <1>4, <3>2
  <2>. DEFINE cols == [q \in S |-> SumFunctionOnSet(col(q), S)]
  <2>2. \A q \in S : f[q] = cols[q]
    <3>. HIDE DEF col
    <3>. QED BY <2>1
  <2>. HIDE DEF cols
  <2>3. SumFunctionOnSet(f, S) = SumFunctionOnSet(cols, S)
    BY <2>2, SumAgrees
  <2>. QED BY <2>3 DEF cols
<1>8. SumFunctionOnSet(g, S) = SumFunctionOnSet([p \in S |-> SumFunctionOnSet(row(p), S)], S)
  <2>1. ASSUME NEW p \in S PROVE g[p] = SumFunctionOnSet(row(p), S)
    <3>1. \A q \in S : right[p][q] = Mc(p)[q]
      BY <1>1
    <3>. HIDE DEF Mc, row
    <3>2. SumFunctionOnSet(right[p], S) = SumFunctionOnSet(Mc(p), S)
      BY <3>1, SumAgrees
    <3>. QED BY <1>5, <3>2
  <2>. DEFINE rows == [p \in S |-> SumFunctionOnSet(row(p), S)]
  <2>2. \A p \in S : g[p] = rows[p]
    <3>. HIDE DEF row
    <3>. QED BY <2>1
  <2>. HIDE DEF rows
  <2>3. SumFunctionOnSet(g, S) = SumFunctionOnSet(rows, S)
    BY <2>2, SumAgrees
  <2>. QED BY <2>3 DEF rows
<1>. QED BY <1>6, <1>7, <1>8
====
