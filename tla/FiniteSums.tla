----------------------------- MODULE FiniteSums -----------------------------
(***************************************************************************)
(* Induction over naturals and over the subsets of a finite set, stated of *)
(* a set where the library states it of an operator; and with it what      *)
(* SumFunction computes, in whatever order it chooses the elements.        *)
(***************************************************************************)
EXTENDS Integers, FiniteSets, Functions, FiniteSetTheorems, TLAPS

-----------------------------------------------------------------------------
(* Induction *)

LEMMA LeastNatural ==
  ASSUME NEW N \in SUBSET Nat, N # {}
  PROVE  \E m \in N : \A k \in N : m <= k
<1>1. PICK m \in N : \A k \in N : ~(<<k, m>> \in OpToRel(<, Nat))
  BY NatLessThanWellFounded, WFMin
<1>2. ASSUME NEW k \in N
      PROVE  m <= k
  <2>1. m \in Nat /\ k \in Nat
    OBVIOUS
  <2>2. ~(k < m)
    BY <1>1, <2>1 DEF OpToRel
  <2>3. QED
    BY <2>1, <2>2
<1>3. QED
  BY <1>2

LEMMA NaturalInduction ==
  ASSUME NEW P, 0 \in P, \A n \in Nat : n \in P => n + 1 \in P
  PROVE  Nat \subseteq P
<1>1. SUFFICES ASSUME Nat \ P # {} PROVE FALSE
  OBVIOUS
<1>2. PICK m \in Nat \ P : \A k \in Nat \ P : m <= k
  BY <1>1, LeastNatural
<1>3. m # 0 /\ m - 1 \in Nat
  BY <1>2
<1>4. m - 1 \in P
  BY <1>2, <1>3
<1>5. QED
  BY <1>2, <1>3, <1>4

\* A property of subsets holds of all that are in it whenever their strict subsets are.
LEMMA SubsetInduction ==
  ASSUME NEW S, IsFiniteSet(S), NEW P,
         \A T \in SUBSET S : (\A U \in SUBSET T : U # T => U \in P) => T \in P
  PROVE  \A T \in SUBSET S : T \in P
<1> DEFINE Bad == (SUBSET S) \ P
<1>1. SUFFICES ASSUME Bad # {} PROVE FALSE
  OBVIOUS
<1>2. IsWellFoundedOn(StrictSubsetOrdering(S), SUBSET S)
  BY FS_StrictSubsetOrderingWellFounded, FS_FiniteSubsetsOfFinite
<1>3. PICK T \in Bad : \A U \in Bad : ~(<<U, T>> \in StrictSubsetOrdering(S))
  <2>1. Bad \subseteq SUBSET S
    OBVIOUS
  <2> HIDE DEF Bad
  <2>2. QED
    BY <1>1, <1>2, <2>1, WFMin
<1>4. \A U \in SUBSET T : U # T => U \in P
  BY <1>3 DEF StrictSubsetOrdering
<1>5. QED
  BY <1>3, <1>4

-----------------------------------------------------------------------------
(* Sums *)

\* h sums g over the subsets of S, as SumFunction does.
Sums(h, g, S) ==
  h = [s \in SUBSET S |->
         IF s = {} THEN 0 ELSE g[CHOOSE x \in s : TRUE] + h[s \ {CHOOSE x \in s : TRUE}]]

LEMMA SumsExist ==
  ASSUME NEW S, IsFiniteSet(S), NEW g \in [S -> Int]
  PROVE  \E h : Sums(h, g, S)
<1> DEFINE first(s) == CHOOSE x \in s : TRUE
           next(h, s) == IF s = {} THEN 0 ELSE g[first(s)] + h[s \ {first(s)}]
           P == {n \in Nat : \E h \in [SUBSET S -> Int] :
                   \A s \in SUBSET S : Cardinality(s) <= n => h[s] = next(h, s)}
<1>1. \A s \in SUBSET S : IsFiniteSet(s) /\ Cardinality(s) \in Nat
  BY FS_Subset, FS_CardinalityType
<1>2. ASSUME NEW s \in SUBSET S, s # {}
      PROVE  /\ first(s) \in s /\ s \ {first(s)} \in SUBSET S
             /\ Cardinality(s \ {first(s)}) = Cardinality(s) - 1
  <2>1. first(s) \in s
    BY <1>2
  <2>2. QED
    BY <1>1, <2>1, FS_RemoveElement
<1> HIDE DEF first
<1>3. 0 \in P
  <2> DEFINE h == [s \in SUBSET S |-> 0]
  <2>1. h \in [SUBSET S -> Int]
    OBVIOUS
  <2>2. ASSUME NEW s \in SUBSET S, Cardinality(s) <= 0
        PROVE  h[s] = next(h, s)
    <3>1. s = {}
      BY <1>1, <2>2, FS_EmptySet
    <3>2. QED
      BY <3>1
  <2>3. QED
    BY <2>1, <2>2
<1>4. ASSUME NEW n \in Nat, n \in P
      PROVE  n + 1 \in P
  <2>1. PICK h \in [SUBSET S -> Int] :
          \A s \in SUBSET S : Cardinality(s) <= n => h[s] = next(h, s)
    BY <1>4
  <2> DEFINE k == [s \in SUBSET S |-> IF Cardinality(s) <= n THEN h[s] ELSE next(h, s)]
  <2>2. ASSUME NEW s \in SUBSET S
        PROVE  next(h, s) \in Int
    BY <1>2
  <2>3. k \in [SUBSET S -> Int]
    BY <2>2
  <2>4. ASSUME NEW s \in SUBSET S, Cardinality(s) <= n + 1
        PROVE  k[s] = next(k, s)
    <3>1. k[s] = next(h, s)
      BY <2>1
    <3>2. CASE s = {}
      BY <3>1, <3>2
    <3>3. CASE s # {}
      <4>1. Cardinality(s \ {first(s)}) <= n
        BY <1>1, <1>2, <2>4, <3>3
      <4>2. k[s \ {first(s)}] = h[s \ {first(s)}]
        BY <1>2, <3>3, <4>1
      <4>3. QED
        BY <3>1, <3>3, <4>2
    <3>4. QED
      BY <3>2, <3>3
  <2> HIDE DEF k, next
  <2>5. QED
    BY <2>3, <2>4
<1>5. Cardinality(S) \in P
  <2>1. Nat \subseteq P
    <3> HIDE DEF P
    <3>1. QED
      BY <1>3, <1>4, NaturalInduction
  <2> HIDE DEF P
  <2>2. QED
    BY <1>1, <2>1
<1>6. PICK h \in [SUBSET S -> Int] :
        \A s \in SUBSET S : Cardinality(s) <= Cardinality(S) => h[s] = next(h, s)
  BY <1>5
<1>7. \A s \in SUBSET S : h[s] = next(h, s)
  BY <1>1, <1>6, FS_Subset
<1>8. h = [s \in SUBSET S |-> next(h, s)]
  BY <1>7
<1>9. QED
  BY <1>8 DEF Sums, first

LEMMA SumsOfNothing ==
  ASSUME NEW S, NEW g, NEW h, Sums(h, g, S)
  PROVE  h[{}] = 0
BY DEF Sums

\* Any element may be taken first.
LEMMA SumsRemove ==
  ASSUME NEW S, IsFiniteSet(S), NEW g \in [S -> Int], NEW h, Sums(h, g, S)
  PROVE  \A T \in SUBSET S : h[T] \in Int /\ \A x \in T : h[T] = g[x] + h[T \ {x}]
<1> DEFINE first(s) == CHOOSE x \in s : TRUE
           P == {T \in SUBSET S : h[T] \in Int /\ \A x \in T : h[T] = g[x] + h[T \ {x}]}
<1>1. ASSUME NEW s \in SUBSET S, s # {}
      PROVE  first(s) \in s /\ h[s] = g[first(s)] + h[s \ {first(s)}]
  BY <1>1 DEF Sums
<1>2. h[{}] = 0
  BY SumsOfNothing
<1> HIDE DEF first
<1>3. ASSUME NEW T \in SUBSET S, \A U \in SUBSET T : U # T => U \in P
      PROVE  T \in P
  <2>1. CASE T = {}
    BY <1>2, <2>1
  <2>2. CASE T # {}
    <3>1. first(T) \in T /\ h[T] = g[first(T)] + h[T \ {first(T)}]
      BY <1>1, <2>2
    <3>2. \A U \in SUBSET T : U # T => h[U] \in Int /\ \A x \in U : h[U] = g[x] + h[U \ {x}]
      BY <1>3
    <3>3. h[T \ {first(T)}] \in Int
      BY <3>1, <3>2
    <3>4. h[T] \in Int
      BY <3>1, <3>3
    <3>5. ASSUME NEW x \in T, x # first(T)
          PROVE  h[T] = g[x] + h[T \ {x}]
      <4>1. h[T \ {first(T)}] = g[x] + h[(T \ {first(T)}) \ {x}]
        BY <3>1, <3>2, <3>5
      <4>2. h[T \ {x}] = g[first(T)] + h[(T \ {x}) \ {first(T)}]
        BY <3>1, <3>2, <3>5
      <4>3. (T \ {first(T)}) \ {x} = (T \ {x}) \ {first(T)}
        OBVIOUS
      <4>4. /\ g[x] \in Int /\ g[first(T)] \in Int
            /\ h[(T \ {first(T)}) \ {x}] \in Int
        BY <3>1, <3>2
      <4>5. \A a, b, c \in Int : a + (b + c) = b + (a + c)
        OBVIOUS
      <4>6. h[T] = g[first(T)] + (g[x] + h[(T \ {first(T)}) \ {x}])
        BY <3>1, <4>1
      <4>7. h[T] = g[x] + (g[first(T)] + h[(T \ {first(T)}) \ {x}])
        BY <4>4, <4>5, <4>6
      <4>8. QED
        BY <4>2, <4>3, <4>7
    <3>6. QED
      BY <3>1, <3>4, <3>5
  <2>3. QED
    BY <2>1, <2>2
<1>4. \A T \in SUBSET S : T \in P
  <2> HIDE DEF P
  <2>1. QED
    BY <1>3, SubsetInduction
<1>5. QED
  BY <1>4

\* What is summed is what the elements are, and zeros add nothing.
LEMMA SumsAgree ==
  ASSUME NEW S, IsFiniteSet(S), NEW g \in [S -> Int], NEW h, Sums(h, g, S),
         NEW R, IsFiniteSet(R), NEW f \in [R -> Int], NEW k, Sums(k, f, R)
  PROVE  \A T \in SUBSET S : T \in SUBSET R /\ (\A x \in T : g[x] = f[x]) => h[T] = k[T]
<1> DEFINE P == {T \in SUBSET S : T \in SUBSET R /\ (\A x \in T : g[x] = f[x]) => h[T] = k[T]}
<1>1. ASSUME NEW T \in SUBSET S, \A U \in SUBSET T : U # T => U \in P,
             T \in SUBSET R, \A x \in T : g[x] = f[x]
      PROVE  h[T] = k[T]
  <2>1. CASE T = {}
    BY <2>1, SumsOfNothing
  <2>2. CASE T # {}
    <3>1. PICK x \in T : TRUE
      BY <2>2
    <3>2. h[T] = g[x] + h[T \ {x}] /\ k[T] = f[x] + k[T \ {x}]
      BY <1>1, SumsRemove
    <3>3. h[T \ {x}] = k[T \ {x}]
      <4>1. T \ {x} \in P
        BY <1>1
      <4>2. QED
        BY <1>1, <4>1
    <3>4. QED
      BY <1>1, <3>2, <3>3
  <2>3. QED
    BY <2>1, <2>2
<1>2. \A T \in SUBSET S : (\A U \in SUBSET T : U # T => U \in P) => T \in P
  BY <1>1
<1>3. \A T \in SUBSET S : T \in P
  <2> HIDE DEF P
  <2>1. QED
    BY <1>2, SubsetInduction
<1>4. QED
  BY <1>3

LEMMA SumsSkipZeros ==
  ASSUME NEW S, IsFiniteSet(S), NEW g \in [S -> Int], NEW h, Sums(h, g, S), NEW Z \in SUBSET S
  PROVE  \A T \in SUBSET S : Z \subseteq T /\ (\A x \in T \ Z : g[x] = 0) => h[T] = h[Z]
<1> DEFINE P == {T \in SUBSET S : Z \subseteq T /\ (\A x \in T \ Z : g[x] = 0) => h[T] = h[Z]}
<1>1. ASSUME NEW T \in SUBSET S, \A U \in SUBSET T : U # T => U \in P,
             Z \subseteq T, \A x \in T \ Z : g[x] = 0
      PROVE  h[T] = h[Z]
  <2>1. CASE T = Z
    BY <2>1
  <2>2. CASE T # Z
    <3>1. PICK x \in T : x \notin Z
      BY <1>1, <2>2
    <3>2. h[T] = g[x] + h[T \ {x}] /\ h[T \ {x}] \in Int
      BY SumsRemove
    <3>3. h[T \ {x}] = h[Z]
      <4>1. T \ {x} \in P
        BY <1>1
      <4>2. QED
        BY <1>1, <3>1, <4>1
    <3>4. g[x] = 0
      BY <1>1, <3>1
    <3>5. QED
      BY <3>2, <3>3, <3>4
  <2>3. QED
    BY <2>1, <2>2
<1>2. \A T \in SUBSET S : (\A U \in SUBSET T : U # T => U \in P) => T \in P
  BY <1>1
<1>3. \A T \in SUBSET S : T \in P
  <2> HIDE DEF P
  <2>1. QED
    BY <1>2, SubsetInduction
<1>4. QED
  BY <1>3

LEMMA SumFunctionSums ==
  ASSUME NEW S, IsFiniteSet(S), NEW g \in [S -> Int]
  PROVE  \E h : Sums(h, g, S) /\ SumFunction(g) = h[S]
<1>1. \E h : Sums(h, g, S)
  BY SumsExist
<1>2. DOMAIN g = S
  OBVIOUS
<1>3. SumFunction(g) = (CHOOSE h : Sums(h, g, S))[S]
  BY <1>2 DEF SumFunction, SumFunctionOnSet, FoldFunctionOnSet, MapThenFoldSet, Sums
<1>4. QED
  BY <1>1, <1>3

LEMMA SumTyped ==
  ASSUME NEW S, IsFiniteSet(S), NEW g \in [S -> Int]
  PROVE  SumFunction(g) \in Int
BY SumFunctionSums, SumsRemove

LEMMA SumNatural ==
  ASSUME NEW S, IsFiniteSet(S), NEW g \in [S -> Nat]
  PROVE  SumFunction(g) \in Nat
<1>1. g \in [S -> Int]
  OBVIOUS
<1>2. PICK h : Sums(h, g, S) /\ SumFunction(g) = h[S]
  BY <1>1, SumFunctionSums
<1> DEFINE P == {T \in SUBSET S : h[T] \in Nat}
<1>3. ASSUME NEW T \in SUBSET S, \A U \in SUBSET T : U # T => U \in P
      PROVE  T \in P
  <2>1. CASE T = {}
    BY <1>2, <2>1, SumsOfNothing
  <2>2. CASE T # {}
    <3>1. PICK x \in T : TRUE
      BY <2>2
    <3>2. h[T] = g[x] + h[T \ {x}]
      BY <1>1, <1>2, SumsRemove
    <3>3. h[T \ {x}] \in Nat
      BY <1>3
    <3>4. QED
      BY <3>2, <3>3
  <2>3. QED
    BY <2>1, <2>2
<1>4. \A T \in SUBSET S : T \in P
  <2> HIDE DEF P
  <2>1. QED
    BY <1>3, SubsetInduction
<1>5. QED
  BY <1>2, <1>4

\* A sum is that of any larger set whose other terms are zero.
LEMMA SumOfPart ==
  ASSUME NEW S, IsFiniteSet(S), NEW g \in [S -> Int], NEW T \in SUBSET S, NEW f,
         f \in [T -> Int], \A x \in T : f[x] = g[x], \A x \in S \ T : g[x] = 0
  PROVE  SumFunction(f) = SumFunction(g)
<1>1. IsFiniteSet(T)
  BY FS_Subset
<1>2. PICK h : Sums(h, g, S) /\ SumFunction(g) = h[S]
  BY SumFunctionSums
<1>3. PICK k : Sums(k, f, T) /\ SumFunction(f) = k[T]
  BY <1>1, SumFunctionSums
<1>4. h[T] = k[T]
  BY <1>1, <1>2, <1>3, SumsAgree
<1>5. h[S] = h[T]
  BY <1>2, SumsSkipZeros
<1>6. QED
  BY <1>2, <1>3, <1>4, <1>5

\* Of a finite set, one element comes last in the order of its values.
LEMMA Greatest ==
  ASSUME NEW S, IsFiniteSet(S), NEW g \in [S -> Int], S # {}
  PROVE  \E x \in S : \A y \in S : g[y] <= g[x]
<1> DEFINE P == {T \in SUBSET S : T # {} => \E x \in T : \A y \in T : g[y] <= g[x]}
<1>1. ASSUME NEW T \in SUBSET S, \A U \in SUBSET T : U # T => U \in P, T # {}
      PROVE  \E x \in T : \A y \in T : g[y] <= g[x]
  <2>1. PICK t \in T : TRUE
    BY <1>1
  <2>2. CASE T \ {t} = {}
    <3>1. T = {t}
      BY <2>2
    <3>2. QED
      BY <3>1
  <2>3. CASE T \ {t} # {}
    <3>1. T \ {t} \in P
      BY <1>1
    <3>2. PICK m \in T \ {t} : \A y \in T \ {t} : g[y] <= g[m]
      BY <2>3, <3>1
    <3>3. CASE g[t] <= g[m]
      BY <3>2, <3>3
    <3>4. CASE ~(g[t] <= g[m])
      <4>1. \A y \in T : g[y] <= g[t]
        BY <3>2, <3>4
      <4>2. QED
        BY <4>1
    <3>5. QED
      BY <3>3, <3>4
  <2>4. QED
    BY <2>2, <2>3
<1>2. \A T \in SUBSET S : (\A U \in SUBSET T : U # T => U \in P) => T \in P
  BY <1>1
<1>3. \A T \in SUBSET S : T \in P
  <2> HIDE DEF P
  <2>1. QED
    BY <1>2, SubsetInduction
<1>4. QED
  BY <1>3

-----------------------------------------------------------------------------
(* Sums compared *)

\* h[T] is the sum of g over T: any element may be left out, and adds its term.
Totals(h, g, S) ==
  /\ h[{}] = 0
  /\ \A T \in SUBSET S : \A x \in T :
       /\ h[T] \in Int /\ h[T \ {x}] \in Int /\ g[x] \in Int
       /\ h[T] = g[x] + h[T \ {x}]

LEMMA SumsTotal ==
  ASSUME NEW S, IsFiniteSet(S), NEW g \in [S -> Int]
  PROVE  \E h : Totals(h, g, S) /\ SumFunction(g) = h[S]
<1>1. PICK h : Sums(h, g, S) /\ SumFunction(g) = h[S]
  BY SumFunctionSums
<1>2. \A T \in SUBSET S : h[T] \in Int /\ \A x \in T : h[T] = g[x] + h[T \ {x}]
  <2>1. ASSUME NEW T \in SUBSET S
        PROVE  h[T] \in Int
    BY <1>1, SumsRemove
  <2>2. ASSUME NEW T \in SUBSET S, NEW x \in T
        PROVE  h[T] = g[x] + h[T \ {x}]
    BY <1>1, SumsRemove
  <2>3. QED
    BY <2>1, <2>2
<1>3. \A T \in SUBSET S : \A x \in T : T \ {x} \in SUBSET S /\ g[x] \in Int
  OBVIOUS
<1>4. h[{}] = 0
  BY <1>1, SumsOfNothing
<1>5. QED
  BY <1>1, <1>2, <1>3, <1>4 DEF Totals

LEMMA Distributes ==
  \A c, a, b \in Int : c * (a + b) = c * a + c * b
OBVIOUS

Summable(f, S) == IsFiniteSet(S) /\ f \in [S -> Int]
Combines(f, c, g, d, k, S) == \A x \in S : f[x] = c * g[x] + d * k[x]
Counts(f, Z, S) == Z \in SUBSET S /\ \A x \in S : f[x] = IF x \in Z THEN 1 ELSE 0

LEMMA SumLinear ==
  ASSUME NEW S, NEW f, NEW g, NEW k, NEW c \in Int, NEW d \in Int,
         Summable(f, S), Summable(g, S), Summable(k, S), Combines(f, c, g, d, k, S)
  PROVE  SumFunction(f) = c * SumFunction(g) + d * SumFunction(k)
<1>0. /\ IsFiniteSet(S) /\ f \in [S -> Int] /\ g \in [S -> Int] /\ k \in [S -> Int]
      /\ \A x \in S : f[x] = c * g[x] + d * k[x]
  BY DEF Summable, Combines
<1>1. PICK sf : Totals(sf, f, S) /\ SumFunction(f) = sf[S]
  BY <1>0, SumsTotal
<1>2. PICK sg : Totals(sg, g, S) /\ SumFunction(g) = sg[S]
  BY <1>0, SumsTotal
<1>3. PICK sk : Totals(sk, k, S) /\ SumFunction(k) = sk[S]
  BY <1>0, SumsTotal
<1> DEFINE P == {T \in SUBSET S : sf[T] = c * sg[T] + d * sk[T]}
<1>4. ASSUME NEW T \in SUBSET S, \A U \in SUBSET T : U # T => U \in P
      PROVE  T \in P
  <2>1. CASE T = {}
    <3>1. sf[{}] = 0 /\ sg[{}] = 0 /\ sk[{}] = 0
      BY <1>1, <1>2, <1>3 DEF Totals
    <3>2. QED
      BY <2>1, <3>1
  <2>2. CASE T # {}
    <3>1. PICK x \in T : TRUE
      BY <2>2
    <3>2. /\ sf[T] = f[x] + sf[T \ {x}]
          /\ sg[T \ {x}] \in Int /\ g[x] \in Int /\ sg[T] = g[x] + sg[T \ {x}]
          /\ sk[T \ {x}] \in Int /\ k[x] \in Int /\ sk[T] = k[x] + sk[T \ {x}]
      BY <1>1, <1>2, <1>3 DEF Totals
    <3>3. sf[T \ {x}] = c * sg[T \ {x}] + d * sk[T \ {x}]
      <4>1. T \ {x} \in P
        BY <1>4
      <4>2. QED
        BY <4>1
    <3>4. f[x] = c * g[x] + d * k[x]
      BY <1>0
    <3>5. /\ c * sg[T] = c * g[x] + c * sg[T \ {x}]
          /\ d * sk[T] = d * k[x] + d * sk[T \ {x}]
      BY <3>2, Distributes
    <3>6. /\ c * g[x] \in Int /\ c * sg[T \ {x}] \in Int
          /\ d * k[x] \in Int /\ d * sk[T \ {x}] \in Int
      BY <3>2
    <3>7. \A p, q, r, s \in Int : (p + q) + (r + s) = (p + r) + (q + s)
      OBVIOUS
    <3>8. sf[T] = (c * g[x] + d * k[x]) + (c * sg[T \ {x}] + d * sk[T \ {x}])
      BY <3>2, <3>3, <3>4
    <3>9. sf[T] = c * sg[T] + d * sk[T]
      BY <3>5, <3>6, <3>7, <3>8
    <3>10. QED
      BY <3>9
  <2>3. QED
    BY <2>1, <2>2
<1>5. \A T \in SUBSET S : T \in P
  <2> HIDE DEF P
  <2>1. QED
    BY <1>0, <1>4, SubsetInduction
<1>6. QED
  BY <1>1, <1>2, <1>3, <1>5

LEMMA SumAtMost ==
  ASSUME NEW S, IsFiniteSet(S), NEW f \in [S -> Int], NEW g \in [S -> Int],
         \A x \in S : f[x] <= g[x]
  PROVE  SumFunction(f) <= SumFunction(g)
<1>1. PICK sf : Totals(sf, f, S) /\ SumFunction(f) = sf[S]
  BY SumsTotal
<1>2. PICK sg : Totals(sg, g, S) /\ SumFunction(g) = sg[S]
  BY SumsTotal
<1> DEFINE P == {T \in SUBSET S : sf[T] <= sg[T]}
<1>3. ASSUME NEW T \in SUBSET S, \A U \in SUBSET T : U # T => U \in P
      PROVE  T \in P
  <2>1. CASE T = {}
    <3>1. sf[{}] = 0 /\ sg[{}] = 0
      BY <1>1, <1>2 DEF Totals
    <3>2. QED
      BY <2>1, <3>1
  <2>2. CASE T # {}
    <3>1. PICK x \in T : TRUE
      BY <2>2
    <3>2. /\ sf[T \ {x}] \in Int /\ f[x] \in Int /\ sf[T] = f[x] + sf[T \ {x}]
          /\ sg[T \ {x}] \in Int /\ g[x] \in Int /\ sg[T] = g[x] + sg[T \ {x}]
      BY <1>1, <1>2 DEF Totals
    <3>3. sf[T \ {x}] <= sg[T \ {x}]
      <4>1. T \ {x} \in P
        BY <1>3
      <4>2. QED
        BY <4>1
    <3>4. QED
      BY <3>2, <3>3
  <2>3. QED
    BY <2>1, <2>2
<1>4. \A T \in SUBSET S : T \in P
  <2> HIDE DEF P
  <2>1. QED
    BY <1>3, SubsetInduction
<1>5. QED
  BY <1>1, <1>2, <1>4

\* g gives the elements of T what f gives them, and all others nothing.
Pads(g, S, f, T) ==
  T \in SUBSET S /\ (\A x \in T : f[x] = g[x]) /\ (\A x \in S \ T : g[x] = 0)

LEMMA SumPadded ==
  ASSUME NEW S, NEW T, NEW g, NEW f, Summable(g, S), Summable(f, T), Pads(g, S, f, T)
  PROVE  SumFunction(f) = SumFunction(g)
<1>1. /\ IsFiniteSet(S) /\ IsFiniteSet(T) /\ T \in SUBSET S
      /\ g \in [S -> Int] /\ f \in [T -> Int]
  BY DEF Summable, Pads
<1>2. PICK h : Sums(h, g, S) /\ SumFunction(g) = h[S]
  BY <1>1, SumFunctionSums
<1>3. PICK k : Sums(k, f, T) /\ SumFunction(f) = k[T]
  BY <1>1, SumFunctionSums
<1>4. h[T] = k[T]
  BY <1>1, <1>2, <1>3, SumsAgree DEF Pads
<1>5. h[S] = h[T]
  BY <1>1, <1>2, SumsSkipZeros DEF Pads
<1>6. QED
  BY <1>2, <1>3, <1>4, <1>5

\* Counting the elements of a part one by one.
LEMMA SumCounts ==
  ASSUME NEW S, NEW Z, NEW f, Summable(f, S), Counts(f, Z, S)
  PROVE  SumFunction(f) = Cardinality(Z)
<1>0. /\ IsFiniteSet(S) /\ f \in [S -> Int]
      /\ Z \in SUBSET S /\ \A x \in S : f[x] = IF x \in Z THEN 1 ELSE 0
  BY DEF Summable, Counts
<1>1. PICK sf : Totals(sf, f, S) /\ SumFunction(f) = sf[S]
  BY <1>0, SumsTotal
<1> DEFINE P == {T \in SUBSET S : sf[T] = Cardinality(T \cap Z)}
<1>2. ASSUME NEW T \in SUBSET S, \A U \in SUBSET T : U # T => U \in P
      PROVE  T \in P
  <2>1. CASE T = {}
    <3>1. sf[{}] = 0 /\ Cardinality({}) = 0 /\ T \cap Z = {}
      BY <1>1, <2>1, FS_EmptySet DEF Totals
    <3>2. QED
      BY <2>1, <3>1
  <2>2. CASE T # {}
    <3>1. PICK x \in T : TRUE
      BY <2>2
    <3>2. /\ sf[T \ {x}] \in Int /\ f[x] \in Int /\ sf[T] = f[x] + sf[T \ {x}]
      BY <1>1 DEF Totals
    <3>3. sf[T \ {x}] = Cardinality((T \ {x}) \cap Z)
      <4>1. T \ {x} \in P
        BY <1>2
      <4>2. QED
        BY <4>1
    <3>4. IsFiniteSet(T \cap Z) /\ Cardinality(T \cap Z) \in Int
      <4>1. IsFiniteSet(T \cap Z)
        BY <1>0, FS_Subset
      <4>2. QED
        BY <4>1, FS_CardinalityType
    <3>5. CASE x \in Z
      <4>1. (T \ {x}) \cap Z = (T \cap Z) \ {x} /\ x \in T \cap Z
        BY <3>5
      <4>2. Cardinality((T \cap Z) \ {x}) = Cardinality(T \cap Z) - 1
        BY <3>4, <4>1, FS_RemoveElement
      <4>3. f[x] = 1 /\ Cardinality(T \cap Z) \in Int
        BY <1>0, <3>4, <3>5
      <4>4. sf[T \ {x}] = Cardinality(T \cap Z) - 1
        BY <3>3, <4>1, <4>2
      <4>5. sf[T] = Cardinality(T \cap Z)
        BY <3>2, <4>3, <4>4
      <4>6. QED
        BY <4>5
    <3>6. CASE x \notin Z
      <4>1. (T \ {x}) \cap Z = T \cap Z
        BY <3>6
      <4>2. f[x] = 0
        BY <1>0, <3>6
      <4>3. sf[T \ {x}] = Cardinality(T \cap Z)
        BY <3>3, <4>1
      <4>4. sf[T] = Cardinality(T \cap Z)
        BY <3>2, <3>4, <4>2, <4>3
      <4>5. QED
        BY <4>4
    <3>7. QED
      BY <3>5, <3>6
  <2>3. QED
    BY <2>1, <2>2
<1>3. \A T \in SUBSET S : T \in P
  <2> HIDE DEF P
  <2>1. QED
    BY <1>0, <1>2, SubsetInduction
<1>4. sf[S] = Cardinality(S \cap Z) /\ S \cap Z = Z
  BY <1>0, <1>3
<1>5. QED
  BY <1>1, <1>4

\* b names the elements of S by those of R, and f says of each what g says of its name.
Renames(b, S, R) ==
  /\ b \in [S -> R] /\ \A x, y \in S : b[x] = b[y] => x = y
  /\ \A z \in R : \E x \in S : b[x] = z
SameByName(f, g, b, S) == \A x \in S : f[x] = g[b[x]]

\* A sum over things is the sum over their names, where no two have one name.
LEMMA SumRenamed ==
  ASSUME NEW S, NEW R, NEW b, NEW f, NEW g,
         Summable(f, S), Summable(g, R), Renames(b, S, R), SameByName(f, g, b, S)
  PROVE  SumFunction(f) = SumFunction(g)
<1>0. /\ IsFiniteSet(S) /\ IsFiniteSet(R) /\ f \in [S -> Int] /\ g \in [R -> Int]
      /\ b \in [S -> R] /\ (\A x, y \in S : b[x] = b[y] => x = y)
      /\ (\A z \in R : \E x \in S : b[x] = z) /\ (\A x \in S : f[x] = g[b[x]])
  BY DEF Summable, Renames, SameByName
<1>1. PICK sf : Totals(sf, f, S) /\ SumFunction(f) = sf[S]
  BY <1>0, SumsTotal
<1>2. PICK sg : Totals(sg, g, R) /\ SumFunction(g) = sg[R]
  BY <1>0, SumsTotal
<1> DEFINE image(T) == {b[x] : x \in T}
           P == {T \in SUBSET S : sf[T] = sg[image(T)]}
<1>3. ASSUME NEW T \in SUBSET S, \A U \in SUBSET T : U # T => U \in P
      PROVE  T \in P
  <2>1. CASE T = {}
    <3>1. sf[{}] = 0 /\ sg[{}] = 0 /\ image(T) = {}
      BY <1>1, <1>2, <2>1 DEF Totals
    <3>2. QED
      BY <2>1, <3>1
  <2>2. CASE T # {}
    <3>1. PICK x \in T : TRUE
      BY <2>2
    <3>2. /\ image(T) \in SUBSET R /\ b[x] \in image(T)
          /\ image(T) \ {b[x]} = image(T \ {x})
      BY <1>0
    <3>3. sf[T] = f[x] + sf[T \ {x}]
      BY <1>1 DEF Totals
    <3> HIDE DEF image
    <3>4. sg[image(T)] = g[b[x]] + sg[image(T) \ {b[x]}]
      BY <1>2, <3>2 DEF Totals
    <3>5. sf[T \ {x}] = sg[image(T \ {x})]
      <4>1. T \ {x} \in P
        BY <1>3
      <4>2. QED
        BY <4>1
    <3>6. sf[T] = sg[image(T)]
      BY <1>0, <3>2, <3>3, <3>4, <3>5
    <3>7. QED
      BY <3>6
  <2>3. QED
    BY <2>1, <2>2
<1>4. \A T \in SUBSET S : T \in P
  <2> HIDE DEF P
  <2>1. QED
    BY <1>0, <1>3, SubsetInduction
<1>5. image(S) = R
  BY <1>0
<1>6. QED
  BY <1>1, <1>2, <1>4, <1>5

\* What is divided by a whole, part by part, does not exceed what was divided.
LEMMA QuotientsAtMost ==
  ASSUME NEW S, IsFiniteSet(S), NEW w \in [S -> Nat], NEW x \in Nat, NEW m \in Nat \ {0},
         SumFunction(w) <= m
  PROVE  SumFunction([i \in S |-> (x * w[i]) \div m]) <= x
<1> DEFINE q == [i \in S |-> (x * w[i]) \div m]
           scaled == [i \in S |-> x * w[i]]
           up == [i \in S |-> m * q[i]]
<1>1. \A a, b \in Nat : a * b \in Nat
  OBVIOUS
<1>2. \A a \in Nat : a \div m \in Nat /\ m * (a \div m) <= a
  OBVIOUS
<1>3. \A i \in S : w[i] \in Nat
  OBVIOUS
<1>4. \A i \in S : scaled[i] \in Nat /\ q[i] \in Nat /\ up[i] \in Nat /\ up[i] <= scaled[i]
  <2>1. ASSUME NEW i \in S
        PROVE  scaled[i] \in Nat /\ q[i] \in Nat /\ up[i] \in Nat /\ up[i] <= scaled[i]
    <3> DEFINE a == x * w[i]
    <3>1. a \in Nat
      BY <1>1, <1>3
    <3>2. scaled[i] = a /\ q[i] = a \div m /\ up[i] = m * (a \div m)
      OBVIOUS
    <3> HIDE DEF a, scaled, q, up
    <3>3. QED
      BY <1>1, <1>2, <3>1, <3>2
  <2>2. QED
    BY <2>1
<1>5. Combines(scaled, x, w, 0, w, S) /\ Combines(up, m, q, 0, q, S)
  <2>1. \A i \in S : scaled[i] = x * w[i] /\ up[i] = m * q[i]
    OBVIOUS
  <2> HIDE DEF scaled, up, q
  <2>2. \A a, b \in Nat : a * b \in Nat /\ a * b = a * b + 0 * b
    OBVIOUS
  <2>3. QED
    BY <1>3, <1>4, <2>1, <2>2 DEF Combines
<1>6. q \in [S -> Nat] /\ scaled \in [S -> Int] /\ up \in [S -> Int] /\ q \in [S -> Int]
      /\ w \in [S -> Int]
  <2>1. q = [i \in S |-> q[i]] /\ scaled = [i \in S |-> scaled[i]] /\ up = [i \in S |-> up[i]]
    OBVIOUS
  <2> HIDE DEF q, scaled, up
  <2>2. QED
    BY <1>4, <2>1
<1> HIDE DEF q, scaled, up
<1>7. Summable(q, S) /\ Summable(scaled, S) /\ Summable(up, S) /\ Summable(w, S)
  BY <1>6 DEF Summable
<1>8. SumFunction(scaled) = x * SumFunction(w) + 0 * SumFunction(w)
  BY <1>5, <1>7, SumLinear
<1>9. SumFunction(up) = m * SumFunction(q) + 0 * SumFunction(q)
  BY <1>5, <1>7, SumLinear
<1>10. SumFunction(up) <= SumFunction(scaled)
  BY <1>4, <1>6, SumAtMost
<1>11. SumFunction(w) \in Nat /\ SumFunction(q) \in Nat
  BY <1>6, SumNatural
<1>12. m * SumFunction(q) <= x * SumFunction(w)
  <2>1. \A a \in Nat, b \in Nat : a * b + 0 * b = a * b
    OBVIOUS
  <2>2. QED
    BY <1>8, <1>9, <1>10, <1>11, <2>1
<1>13. \A a, b, c \in Nat : b <= c => a * b <= a * c
  OBVIOUS
<1>14. m * SumFunction(q) <= x * m
  <2>1. x * SumFunction(w) <= x * m
    BY <1>11, <1>13
  <2>2. x * SumFunction(w) \in Nat /\ x * m \in Nat /\ m * SumFunction(q) \in Nat
    BY <1>1, <1>11
  <2>3. QED
    BY <1>12, <2>1, <2>2
<1>15. \A a, b \in Nat : m * a <= b * m => a <= b
  <2>1. \A a, b \in Nat : a >= b + 1 => m * a >= m * (b + 1)
    BY <1>13
  <2>2. \A b \in Nat : m * (b + 1) = b * m + m
    OBVIOUS
  <2>3. \A a, b \in Nat : m * a \in Nat /\ b * m \in Nat /\ m * (b + 1) \in Nat
    BY <1>1
  <2>4. QED
    BY <2>1, <2>2, <2>3
<1>16. QED
  BY <1>11, <1>14, <1>15 DEF q

LEMMA ConstantSums ==
  ASSUME NEW n \in Nat, NEW c \in Int
  PROVE  SumFunction([i \in 1 .. n |-> c]) = c * n
<1> DEFINE f == [i \in 1 .. n |-> c]
           one == [i \in 1 .. n |-> 1]
<1>1. IsFiniteSet(1 .. n) /\ Cardinality(1 .. n) = n
  <2>1. 1 \in Int /\ n \in Int
    OBVIOUS
  <2>2. QED
    BY <2>1, FS_Interval
<1>2. Summable(f, 1 .. n) /\ Summable(one, 1 .. n)
  BY <1>1 DEF Summable
<1>3. Combines(f, c, one, 0, one, 1 .. n) /\ Counts(one, 1 .. n, 1 .. n)
  BY DEF Combines, Counts
<1> HIDE DEF f, one
<1>4. SumFunction(f) = c * SumFunction(one) + 0 * SumFunction(one)
  BY <1>2, <1>3, SumLinear
<1>5. SumFunction(one) = n
  BY <1>1, <1>2, <1>3, SumCounts
<1>6. QED
  BY <1>4, <1>5 DEF f

\* No term of a sum of natural numbers exceeds it.
LEMMA TermAtMost ==
  ASSUME NEW S, IsFiniteSet(S), NEW f \in [S -> Nat], NEW x \in S
  PROVE  f[x] <= SumFunction(f)
<1>1. f \in [S -> Int]
  OBVIOUS
<1>2. PICK h : Totals(h, f, S) /\ SumFunction(f) = h[S]
  BY <1>1, SumsTotal
<1> DEFINE rest == [y \in S |-> IF y = x THEN 0 ELSE f[y]]
           only == [y \in S |-> IF y \in {x} THEN 1 ELSE 0]
<1>3. Combines(f, 1, rest, f[x], only, S)
  BY DEF Combines
<1>4. rest \in [S -> Nat] /\ rest \in [S -> Int] /\ only \in [S -> Int]
  OBVIOUS
<1>5. Counts(only, {x}, S)
  BY DEF Counts
<1> HIDE DEF rest, only
<1>6. Summable(rest, S) /\ Summable(only, S) /\ Summable(f, S)
  BY <1>1, <1>4 DEF Summable
<1>7. f[x] \in Int /\ 1 \in Int
  OBVIOUS
<1>8. SumFunction(f) = 1 * SumFunction(rest) + f[x] * SumFunction(only)
  BY <1>3, <1>6, <1>7, SumLinear
<1>9. SumFunction(only) = 1
  BY <1>5, <1>6, FS_Singleton, SumCounts
<1>10. SumFunction(rest) \in Nat
  BY <1>4, SumNatural
<1>11. QED
  BY <1>7, <1>8, <1>9, <1>10

\* A sum over part of a function's domain.
LEMMA SumOnSet ==
  ASSUME NEW S, NEW g, IsFiniteSet(S), \A x \in S : g[x] \in Int
  PROVE  SumFunctionOnSet(g, S) = SumFunction([x \in S |-> g[x]])
<1> DEFINE f == [x \in S |-> g[x]]
<1>1. f \in [S -> Int] /\ DOMAIN f = S
  OBVIOUS
<1>2. SumFunctionOnSet(g, S) = (CHOOSE h : Sums(h, g, S))[S]
  BY DEF SumFunctionOnSet, FoldFunctionOnSet, MapThenFoldSet, Sums
<1>3. SumFunction(f) = (CHOOSE h : Sums(h, f, S))[S]
  BY <1>1 DEF SumFunction, SumFunctionOnSet, FoldFunctionOnSet, MapThenFoldSet, Sums
<1>4. \A h : Sums(h, g, S) <=> Sums(h, f, S)
  <2>1. \A s \in SUBSET S : s # {} => f[CHOOSE x \in s : TRUE] = g[CHOOSE x \in s : TRUE]
    OBVIOUS
  <2> HIDE DEF f
  <2>2. QED
    BY <2>1 DEF Sums
<1> HIDE DEF f
<1>5. PICK h : Sums(h, f, S)
  BY <1>1, SumsExist
<1>6. Sums(CHOOSE k : Sums(k, f, S), f, S) /\ Sums(CHOOSE k : Sums(k, g, S), f, S)
  BY <1>4, <1>5
<1>7. (CHOOSE k : Sums(k, g, S))[S] = (CHOOSE k : Sums(k, f, S))[S]
  BY <1>1, <1>6, SumsAgree
<1>8. QED
  BY <1>2, <1>3, <1>7 DEF f

\* A part sums to no more than the whole, where no term takes anything off.
LEMMA SumOfPartAtMost ==
  ASSUME NEW g, NEW S, NEW T \in SUBSET S, IsFiniteSet(S), \A x \in S : g[x] \in Nat
  PROVE  SumFunctionOnSet(g, T) <= SumFunctionOnSet(g, S)
<1> DEFINE f == [x \in T |-> g[x]]
           p == [x \in S |-> IF x \in T THEN g[x] ELSE 0]
           h == [x \in S |-> g[x]]
<1>1. IsFiniteSet(T)
  BY FS_Subset
<1>2. Summable(f, T) /\ Summable(p, S) /\ Pads(p, S, f, T)
  BY <1>1 DEF Summable, Pads
<1>3. p \in [S -> Int] /\ h \in [S -> Int] /\ \A x \in S : p[x] <= h[x]
  OBVIOUS
<1>4. SumFunctionOnSet(g, T) = SumFunction(f)
  BY <1>1, SumOnSet
<1>5. SumFunctionOnSet(g, S) = SumFunction(h)
  BY SumOnSet
<1> HIDE DEF f, p, h
<1>6. SumFunction(f) = SumFunction(p)
  BY <1>2, SumPadded
<1>7. SumFunction(p) <= SumFunction(h)
  BY <1>3, SumAtMost
<1>8. QED
  BY <1>4, <1>5, <1>6, <1>7

=============================================================================
