---------------------------- MODULE SumTheorems ----------------------------
(***************************************************************************)
(* What the sums of the allocator are: SumFunctionOnSet of a finite set    *)
(* does not depend on the order in which its elements are taken.           *)
(***************************************************************************)
EXTENDS Functions, FiniteSetTheorems, TLAPS

\* A set of naturals that is not empty has a least element.
LEMMA LeastNatural ==
    ASSUME NEW T \in SUBSET Nat, T # {}
    PROVE  \E c \in T : \A d \in T : c <= d
<1>1. \E x \in T : \A y \in T : ~(<<y, x>> \in OpToRel(<, Nat))
  BY NatLessThanWellFounded, WFMin
<1>2. \A x, y \in Nat : y < x => <<y, x>> \in OpToRel(<, Nat)
  BY DEF OpToRel
<1>3. PICK c \in T : \A d \in T : ~(<<d, c>> \in OpToRel(<, Nat))
  BY <1>1
<1>4. \A d \in T : ~(d < c)
  BY <1>2, <1>3
<1> QED
  BY <1>4

\* Induction over the subsets of a finite set.
LEMMA SubsetInduction ==
    ASSUME NEW S, IsFiniteSet(S), NEW P,
           \A s \in SUBSET S : (\A x \in s : s \ {x} \in P) => s \in P
    PROVE  \A s \in SUBSET S : s \in P
<1> DEFINE T == {Cardinality(s) : s \in (SUBSET S) \ P}
<1>1. \A s \in SUBSET S : IsFiniteSet(s) /\ Cardinality(s) \in Nat
  BY FS_Subset, FS_CardinalityType
<1>2. CASE T # {}
  <2>1. T \in SUBSET Nat
    BY <1>1
  <2>2. PICK c \in T : \A d \in T : c <= d
    <3> HIDE DEF T
    <3> QED
      BY <1>2, <2>1, LeastNatural
  <2>3. PICK s \in (SUBSET S) \ P : Cardinality(s) = c
    BY <2>2
  <2>4. ASSUME NEW x \in s PROVE s \ {x} \in P
    <3>1. IsFiniteSet(s)
      BY <1>1
    <3>2. Cardinality(s \ {x}) = Cardinality(s) - 1
      BY <3>1, FS_RemoveElement
    <3>3. s \ {x} \in SUBSET S
      OBVIOUS
    <3>4. CASE s \ {x} \notin P
      <4>1. Cardinality(s \ {x}) \in T
        BY <3>3, <3>4
      <4>2. c <= c - 1 /\ c \in Nat
        <5> HIDE DEF T
        <5>1. c <= Cardinality(s \ {x})
          BY <2>2, <4>1
        <5>2. c \in Nat
          BY <2>1, <2>2
        <5> QED
          BY <2>3, <3>2, <5>1, <5>2
      <4> QED
        BY <4>2
    <3> QED
      BY <3>4
  <2> QED
    BY <2>3, <2>4
<1> QED
  BY <1>2

-----------------------------------------------------------------------------
(* The recursion of the fold.                                              *)

\* The element the fold takes first.
First(s) == CHOOSE x \in s : TRUE

IsIter(g, f, D) ==
    g = [s \in D |-> IF s = {} THEN 0 ELSE f[First(s)] + g[s \ {First(s)}]]

LEMMA FirstIn == \A s : s # {} => First(s) \in s
BY DEF First

\* The fold's function exists.
LEMMA IterExists ==
    ASSUME NEW f, NEW S, IsFiniteSet(S)
    PROVE  \E g : IsIter(g, f, SUBSET S)
<1> DEFINE Upto(n) == {s \in SUBSET S : Cardinality(s) <= n}
           T == {n \in Nat : ~\E g : IsIter(g, f, Upto(n))}
<1>1. \A s \in SUBSET S : IsFiniteSet(s) /\ Cardinality(s) \in Nat
  BY FS_Subset, FS_CardinalityType
<1>2. ASSUME T # {} PROVE FALSE
  <2>1. PICK n \in T : \A d \in T : n <= d
    <3>1. T \in SUBSET Nat
      OBVIOUS
    <3> HIDE DEF T
    <3> QED
      BY <1>2, <3>1, LeastNatural
  <2>2. n \in Nat /\ ~\E g : IsIter(g, f, Upto(n))
    BY <2>1
  <2>3. CASE n = 0
    <3> DEFINE g == [s \in Upto(0) |-> 0]
    <3>1. \A s \in Upto(0) : s = {}
      BY <1>1, FS_EmptySet
    <3>2. IsIter(g, f, Upto(0))
      <4> HIDE DEF Upto
      <4> QED
        BY <3>1 DEF IsIter
    <3> QED
      BY <2>2, <2>3, <3>2
  <2>4. CASE n # 0
    <3> DEFINE m == n - 1
    <3>1. m \in Nat /\ m < n /\ m + 1 = n
      BY <2>2, <2>4
    <3> HIDE DEF m
    <3>2. m \notin T
      <4> HIDE DEF T
      <4> QED
        BY <2>1, <2>2, <3>1
    <3>3. PICK g : IsIter(g, f, Upto(m))
      BY <3>1, <3>2
    <3> DEFINE h == [s \in Upto(n) |-> IF s = {} THEN 0 ELSE f[First(s)] + g[s \ {First(s)}]]
    <3>4. ASSUME NEW s \in Upto(n), s # {} PROVE s \ {First(s)} \in Upto(m)
      <4>1. First(s) \in s /\ IsFiniteSet(s)
        BY <1>1, <3>4, FirstIn
      <4>2. Cardinality(s \ {First(s)}) = Cardinality(s) - 1
        BY <4>1, FS_RemoveElement
      <4>3. Cardinality(s) \in Nat /\ Cardinality(s) <= n
        BY <1>1
      <4> QED
        BY <2>2, <3>1, <4>2, <4>3
    <3>5. Upto(m) \subseteq Upto(n)
      BY <1>1, <2>2, <3>1
    <3> HIDE DEF Upto
    <3>6. ASSUME NEW s \in Upto(m) PROVE h[s] = g[s]
      BY <3>3, <3>5 DEF IsIter
    <3>7. ASSUME NEW s \in Upto(n)
          PROVE  h[s] = IF s = {} THEN 0 ELSE f[First(s)] + h[s \ {First(s)}]
      BY <3>4, <3>6
    <3>8. IsIter(h, f, Upto(n))
      <4>1. h = [s \in Upto(n) |-> h[s]]
        OBVIOUS
      <4> HIDE DEF h
      <4> QED
        BY <3>7, <4>1 DEF IsIter
    <3> QED
      BY <2>2, <3>8
  <2> QED
    BY <2>3, <2>4
<1>3. Cardinality(S) \in Nat
  BY <1>1
<1>4. \E g : IsIter(g, f, Upto(Cardinality(S)))
  <2>1. ASSUME NEW n \in Nat PROVE \E g : IsIter(g, f, Upto(n))
    <3>1. n \notin T
      BY <1>2
    <3> QED
      BY <3>1
  <2> QED
    BY <1>3, <2>1
<1>5. Upto(Cardinality(S)) = SUBSET S
  <2>1. \A s \in SUBSET S : Cardinality(s) <= Cardinality(S)
    BY FS_Subset
  <2> QED
    BY <2>1
<1> QED
  BY <1>4, <1>5

\* Two folds agree where both are defined.
LEMMA IterUnique ==
    ASSUME NEW f, NEW S, IsFiniteSet(S), NEW T \in SUBSET S, NEW g, NEW h,
           IsIter(g, f, SUBSET S), IsIter(h, f, SUBSET T)
    PROVE  g[T] = h[T]
<1> DEFINE P == {s \in SUBSET T : g[s] = h[s]}
<1>1. IsFiniteSet(T)
  BY FS_Subset
<1>2. ASSUME NEW s \in SUBSET T, \A x \in s : s \ {x} \in P PROVE s \in P
  <2>1. g[s] = IF s = {} THEN 0 ELSE f[First(s)] + g[s \ {First(s)}]
    BY DEF IsIter
  <2>2. h[s] = IF s = {} THEN 0 ELSE f[First(s)] + h[s \ {First(s)}]
    BY DEF IsIter
  <2>3. s # {} => g[s \ {First(s)}] = h[s \ {First(s)}]
    BY <1>2, FirstIn
  <2> QED
    BY <2>1, <2>2, <2>3
<1>3. T \in P
  <2> HIDE DEF P
  <2> QED
    BY <1>1, <1>2, SubsetInduction
<1> QED
  BY <1>3

\* One step of the fold.
LEMMA SumUnfold ==
    ASSUME NEW f, NEW S, IsFiniteSet(S)
    PROVE  SumFunctionOnSet(f, S) =
             IF S = {} THEN 0 ELSE f[First(S)] + SumFunctionOnSet(f, S \ {First(S)})
<1>1. ASSUME NEW R, IsFiniteSet(R)
      PROVE  \E g : IsIter(g, f, SUBSET R) /\ SumFunctionOnSet(f, R) = g[R]
  <2> DEFINE iter[s \in SUBSET R] ==
                 IF s = {} THEN 0
                 ELSE LET x == CHOOSE y \in s : TRUE
                      IN  f[x] + iter[s \ {x}]
  <2>1. SumFunctionOnSet(f, R) = iter[R]
    BY DEF SumFunctionOnSet, FoldFunctionOnSet, MapThenFoldSet
  <2>2. \E g : IsIter(g, f, SUBSET R)
    BY <1>1, IterExists
  <2>3. IsIter(iter, f, SUBSET R)
    BY <2>2 DEF IsIter, First
  <2> HIDE DEF iter
  <2> QED
    BY <2>1, <2>3
<1>2. PICK g : IsIter(g, f, SUBSET S) /\ SumFunctionOnSet(f, S) = g[S]
  BY <1>1
<1>3. g[S] = IF S = {} THEN 0 ELSE f[First(S)] + g[S \ {First(S)}]
  BY <1>2 DEF IsIter
<1>4. CASE S # {}
  <2> DEFINE R == S \ {First(S)}
  <2>1. R \in SUBSET S /\ IsFiniteSet(R)
    BY FS_Subset
  <2> HIDE DEF R
  <2>2. PICK h : IsIter(h, f, SUBSET R) /\ SumFunctionOnSet(f, R) = h[R]
    BY <1>1, <2>1
  <2>3. g[R] = h[R]
    BY <1>2, <2>1, <2>2, IterUnique
  <2> QED
    BY <1>2, <1>3, <1>4, <2>2, <2>3 DEF R
<1> QED
  BY <1>2, <1>3, <1>4

-----------------------------------------------------------------------------
(* The sums of integers.                                                   *)

LEMMA SumInt ==
    ASSUME NEW S, IsFiniteSet(S), NEW f, \A x \in S : f[x] \in Int
    PROVE  \A s \in SUBSET S : SumFunctionOnSet(f, s) \in Int
<1> DEFINE P == {s \in SUBSET S : SumFunctionOnSet(f, s) \in Int}
<1>1. ASSUME NEW s \in SUBSET S, \A x \in s : s \ {x} \in P PROVE s \in P
  <2>1. IsFiniteSet(s)
    BY FS_Subset
  <2>2. SumFunctionOnSet(f, s) =
          IF s = {} THEN 0 ELSE f[First(s)] + SumFunctionOnSet(f, s \ {First(s)})
    BY <2>1, SumUnfold
  <2>3. s # {} => First(s) \in S /\ SumFunctionOnSet(f, s \ {First(s)}) \in Int
    BY <1>1, FirstIn
  <2> QED
    BY <2>2, <2>3
<1>2. \A s \in SUBSET S : s \in P
  <2> HIDE DEF P
  <2> QED
    BY <1>1, SubsetInduction
<1> QED
  BY <1>2

\* Any element may be taken first.
LEMMA SumRemove ==
    ASSUME NEW S, IsFiniteSet(S), NEW f, \A x \in S : f[x] \in Int
    PROVE  \A s \in SUBSET S : \A x \in s :
               SumFunctionOnSet(f, s) = f[x] + SumFunctionOnSet(f, s \ {x})
<1> DEFINE sum(s) == SumFunctionOnSet(f, s)
           P == {s \in SUBSET S : \A x \in s : sum(s) = f[x] + sum(s \ {x})}
<1>1. ASSUME NEW s \in SUBSET S, \A x \in s : s \ {x} \in P, NEW x \in s
      PROVE  sum(s) = f[x] + sum(s \ {x})
  <2> DEFINE y == First(s)
  <2>1. IsFiniteSet(s) /\ y \in s
    BY FS_Subset, FirstIn
  <2>2. sum(s) = f[y] + sum(s \ {y})
    BY <2>1, SumUnfold
  <2> HIDE DEF y
  <2>3. CASE x = y
    BY <2>2, <2>3
  <2>4. CASE x # y
    <3> DEFINE r == (s \ {x}) \ {y}
    <3>1. (s \ {y}) \ {x} = r
      OBVIOUS
    <3>2. s \ {y} \in P /\ x \in s \ {y} /\ s \ {x} \in P /\ y \in s \ {x}
      BY <1>1, <2>1, <2>4
    <3>3. sum(s \ {y}) = f[x] + sum(r) /\ sum(s \ {x}) = f[y] + sum(r)
      <4> HIDE DEF sum
      <4>1. sum(s \ {y}) = f[x] + sum((s \ {y}) \ {x})
        BY <3>2
      <4>2. sum(s \ {x}) = f[y] + sum((s \ {x}) \ {y})
        BY <3>2
      <4> QED
        BY <3>1, <4>1, <4>2
    <3>4. r \in SUBSET S
      OBVIOUS
    <3> HIDE DEF r
    <3>5. sum(r) \in Int
      BY <3>4, SumInt
    <3>6. f[x] \in Int /\ f[y] \in Int
      BY <2>1
    <3> HIDE DEF sum
    <3> QED
      BY <2>2, <3>3, <3>5, <3>6
  <2> QED
    BY <2>3, <2>4
<1>2. ASSUME NEW s \in SUBSET S, \A x \in s : s \ {x} \in P PROVE s \in P
  BY <1>1, <1>2
<1>3. \A s \in SUBSET S : s \in P
  <2> HIDE DEF P
  <2> QED
    BY <1>2, SubsetInduction
<1> QED
  BY <1>3

LEMMA SumNat ==
    ASSUME NEW S, IsFiniteSet(S), NEW f, \A x \in S : f[x] \in Nat
    PROVE  SumFunctionOnSet(f, S) \in Nat
<1> DEFINE P == {s \in SUBSET S : SumFunctionOnSet(f, s) \in Nat}
<1>1. ASSUME NEW s \in SUBSET S, \A x \in s : s \ {x} \in P PROVE s \in P
  <2>1. IsFiniteSet(s)
    BY FS_Subset
  <2>2. SumFunctionOnSet(f, s) =
          IF s = {} THEN 0 ELSE f[First(s)] + SumFunctionOnSet(f, s \ {First(s)})
    BY <2>1, SumUnfold
  <2>3. s # {} => First(s) \in S /\ SumFunctionOnSet(f, s \ {First(s)}) \in Nat
    BY <1>1, FirstIn
  <2> QED
    BY <2>2, <2>3
<1>2. \A s \in SUBSET S : s \in P
  <2> HIDE DEF P
  <2> QED
    BY <1>1, SubsetInduction
<1> QED
  BY <1>2

\* A sum depends only on the values at the elements of its set.
LEMMA SumAgree ==
    ASSUME NEW S, IsFiniteSet(S), NEW f, NEW g, \A x \in S : f[x] = g[x]
    PROVE  SumFunctionOnSet(f, S) = SumFunctionOnSet(g, S)
<1> DEFINE P == {s \in SUBSET S : SumFunctionOnSet(f, s) = SumFunctionOnSet(g, s)}
<1>1. ASSUME NEW s \in SUBSET S, \A x \in s : s \ {x} \in P PROVE s \in P
  <2>1. IsFiniteSet(s)
    BY FS_Subset
  <2>2. SumFunctionOnSet(f, s) =
          IF s = {} THEN 0 ELSE f[First(s)] + SumFunctionOnSet(f, s \ {First(s)})
    BY <2>1, SumUnfold
  <2>3. SumFunctionOnSet(g, s) =
          IF s = {} THEN 0 ELSE g[First(s)] + SumFunctionOnSet(g, s \ {First(s)})
    BY <2>1, SumUnfold
  <2>4. s # {} => /\ f[First(s)] = g[First(s)]
                  /\ SumFunctionOnSet(f, s \ {First(s)}) = SumFunctionOnSet(g, s \ {First(s)})
    BY <1>1, FirstIn
  <2> QED
    BY <2>2, <2>3, <2>4
<1>2. \A s \in SUBSET S : s \in P
  <2> HIDE DEF P
  <2> QED
    BY <1>1, SubsetInduction
<1> QED
  BY <1>2

\* Two functions that differ at one element: so do their sums.
LEMMA SumChange ==
    ASSUME NEW S, IsFiniteSet(S), NEW f, NEW g, NEW a \in S,
           \A x \in S : f[x] \in Int /\ g[x] \in Int /\ (x # a => f[x] = g[x])
    PROVE  f[a] + SumFunctionOnSet(g, S) = g[a] + SumFunctionOnSet(f, S)
<1> DEFINE R == S \ {a}
<1>1. SumFunctionOnSet(f, S) = f[a] + SumFunctionOnSet(f, R)
  BY SumRemove
<1>2. SumFunctionOnSet(g, S) = g[a] + SumFunctionOnSet(g, R)
  BY SumRemove
<1>3. IsFiniteSet(R) /\ R \in SUBSET S /\ \A x \in R : f[x] = g[x]
  BY FS_Subset
<1> HIDE DEF R
<1>4. SumFunctionOnSet(f, R) = SumFunctionOnSet(g, R)
  BY <1>3, SumAgree
<1>5. SumFunctionOnSet(f, R) \in Int
  BY <1>3, SumInt
<1>6. f[a] \in Int /\ g[a] \in Int
  OBVIOUS
<1> DEFINE p == SumFunctionOnSet(f, R)
<1> HIDE DEF p
<1>7. p \in Int /\ SumFunctionOnSet(f, S) = f[a] + p /\ SumFunctionOnSet(g, S) = g[a] + p
  BY <1>1, <1>2, <1>4, <1>5 DEF p
<1> QED
  BY <1>6, <1>7

\* A factor of all terms is a factor of the sum.
LEMMA SumScale ==
    ASSUME NEW S, IsFiniteSet(S), NEW f, NEW g, NEW c \in Int,
           \A x \in S : f[x] \in Int /\ g[x] = c * f[x]
    PROVE  SumFunctionOnSet(g, S) = c * SumFunctionOnSet(f, S)
<1> DEFINE P == {s \in SUBSET S : SumFunctionOnSet(g, s) = c * SumFunctionOnSet(f, s)}
<1>1. ASSUME NEW s \in SUBSET S, \A x \in s : s \ {x} \in P PROVE s \in P
  <2>1. IsFiniteSet(s)
    BY FS_Subset
  <2>2. CASE s = {}
    <3>1. SumFunctionOnSet(f, s) = 0 /\ SumFunctionOnSet(g, s) = 0
      BY <2>1, <2>2, SumUnfold
    <3> QED
      BY <3>1
  <2>3. CASE s # {}
    <3> DEFINE y == First(s)
               p == SumFunctionOnSet(f, s \ {y})
               q == SumFunctionOnSet(g, s \ {y})
    <3>1. SumFunctionOnSet(f, s) = f[y] + p /\ SumFunctionOnSet(g, s) = g[y] + q
      BY <2>1, <2>3, SumUnfold
    <3>2. y \in S /\ q = c * p
      BY <1>1, <2>3, FirstIn
    <3>3. p \in Int
      BY SumInt
    <3> HIDE DEF y, p, q
    <3>4. f[y] \in Int /\ g[y] = c * f[y]
      BY <3>2
    <3>5. c * (f[y] + p) = c * f[y] + c * p
      BY <3>3, <3>4
    <3> QED
      BY <3>1, <3>2, <3>4, <3>5
  <2> QED
    BY <2>2, <2>3
<1>2. \A s \in SUBSET S : s \in P
  <2> HIDE DEF P
  <2> QED
    BY <1>1, SubsetInduction
<1> QED
  BY <1>2
============================================================================
