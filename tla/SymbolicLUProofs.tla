-------------------------- MODULE SymbolicLUProofs --------------------------
(***************************************************************************)
(* For any number of species, any structure and any prime modulus: the     *)
(* plan of the sparse LU factorization keeps what paths join and reads     *)
(* only what it has written; carried out, it yields factors of W; and the  *)
(* substitution steps, transposed or with species frozen, solve the        *)
(* systems they stand for.  Run over the compact tables, under any         *)
(* permutation, the factorization and the substitutions give the same.     *)
(*                                                                         *)
(* The model's recursive functions and sums over sets are reasoned about   *)
(* by least counterexamples: a function defined from its own values at     *)
(* lesser arguments exists, and what distinguishes two of them would do so *)
(* at a least argument first.                                              *)
(***************************************************************************)
EXTENDS CompactPlan, FiniteSetTheorems, TLAPS

------------------------------------------------------------------------------
\* Induction and sums over finite sets.

\* A set of naturals that is not empty has a least member.
LEMMA Least ==
  ASSUME NEW T, T \subseteq Nat, T # {}
  PROVE  \E x \in T : \A y \in T : x <= y
<1>1. IsWellFoundedOn(OpToRel(<, Nat), Nat)
  BY NatLessThanWellFounded
<1>2. PICK x \in T : \A y \in T : ~ (<<y, x>> \in OpToRel(<, Nat))
  BY <1>1, WFMin
<1>3. \A y \in T : ~ (y < x)
  BY <1>2 DEF OpToRel
<1> QED
  BY <1>3

\* Induction over the naturals: a set that holds 0 and, with a number, the
\* next one, holds them all.
LEMMA NatInduct ==
  ASSUME NEW T, 0 \in T, \A n \in Nat : n \in T => n + 1 \in T
  PROVE  Nat \subseteq T
<1> SUFFICES ASSUME Nat \ T # {} PROVE FALSE
  OBVIOUS
<1>1. PICK x \in Nat \ T : \A y \in Nat \ T : x <= y
  BY Least
<1>2. x # 0 /\ x - 1 \in Nat
  BY <1>1
<1>3. x - 1 \in T
  BY <1>1, <1>2
<1> QED
  BY <1>1, <1>2, <1>3

\* Induction over the parts of a finite set: what holds of the empty set, and
\* still holds with one element more, holds of the whole set.
LEMMA FinitePart ==
  ASSUME NEW S, IsFiniteSet(S), NEW T, {} \in T,
         \A s \in SUBSET S : \A x \in S \ s : s \in T => s \union {x} \in T
  PROVE  S \in T
<1> SUFFICES ASSUME S \notin T PROVE FALSE
  OBVIOUS
<1> DEFINE Bad == {s \in SUBSET S : s \notin T}
<1>0. FiniteSubsetsOf(S) = SUBSET S
  BY FS_FiniteSubsetsOfFinite
<1>1. PICK s \in Bad : \A y \in Bad : ~ (<<y, s>> \in StrictSubsetOrdering(S))
  <2> HIDE DEF Bad
  <2>1. Bad # {} /\ Bad \subseteq FiniteSubsetsOf(S)
    BY <1>0 DEF Bad
  <2> QED
    BY <2>1, WFMin, FS_StrictSubsetOrderingWellFounded
<1>2. PICK x : x \in s
  BY <1>1
<1>3. <<s \ {x}, s>> \in StrictSubsetOrdering(S)
  BY <1>1, <1>2 DEF StrictSubsetOrdering
<1>4. s \ {x} \in T
  BY <1>1, <1>2, <1>3
<1>5. s = (s \ {x}) \union {x}
  BY <1>2
<1> QED
  BY <1>1, <1>2, <1>4, <1>5

------------------------------------------------------------------------------
\* Sums.
Pick(s) == CHOOSE x \in s : TRUE
Body(f, iter, s) == IF s = {} THEN 0 ELSE f[Pick(s)] + iter[s \ {Pick(s)}]
IsSum(f, S, iter) == iter = [s \in SUBSET S |-> Body(f, iter, s)]
Sum(f, S) == MapThenSumSet(LAMBDA k : f[k], S)

\* The element that a sum takes first is one of the set.
LEMMA PickIn == ASSUME NEW s, s # {} PROVE Pick(s) \in s
BY DEF Pick

\* A sum is the value at S of a function defined from its own values at smaller
\* sets.
LEMMA SumDef ==
  ASSUME NEW f, NEW S
  PROVE  Sum(f, S) = (CHOOSE iter : IsSum(f, S, iter))[S]
BY DEF Sum, MapThenSumSet, MapThenFoldSet, IsSum, Body, Pick

\* There is such a function, by steps of the size of its arguments.
LEMMA SumExists ==
  ASSUME NEW f, NEW S, IsFiniteSet(S)
  PROVE  \E iter : IsSum(f, S, iter)
<1> DEFINE Small(n) == {s \in SUBSET S : Cardinality(s) <= n}
           Good == {n \in Nat : \E iter : iter = [s \in Small(n) |-> Body(f, iter, s)]}
<1>1. \A s \in SUBSET S : IsFiniteSet(s) /\ Cardinality(s) \in Nat
  BY FS_Subset, FS_CardinalityType
<1>2. \A s \in SUBSET S : s # {} =>
        Cardinality(s \ {Pick(s)}) = Cardinality(s) - 1 /\ s \ {Pick(s)} \in SUBSET S
  BY <1>1, FS_RemoveElement, PickIn
<1>3. 0 \in Good
  <2> DEFINE iter == [s \in Small(0) |-> 0]
  <2>1. \A s \in Small(0) : s = {}
    BY <1>1, FS_EmptySet
  <2>2. iter = [s \in Small(0) |-> Body(f, iter, s)]
    BY <2>1 DEF Body
  <2> QED
    BY <2>2
<1>4. \A n \in Nat : n \in Good => n + 1 \in Good
  <2> TAKE n \in Nat
  <2> HAVE n \in Good
  <2>1. PICK iter : iter = [s \in Small(n) |-> Body(f, iter, s)]
    OBVIOUS
  <2> DEFINE next == [s \in Small(n + 1) |-> Body(f, iter, s)]
  <2>2. \A s \in Small(n) : next[s] = iter[s]
    BY <1>1, <2>1
  <2>3. \A s \in Small(n + 1) : Body(f, next, s) = Body(f, iter, s)
    <3> TAKE s \in Small(n + 1)
    <3>1. s # {} => s \ {Pick(s)} \in Small(n)
      BY <1>1, <1>2
    <3> HIDE DEF next, Small
    <3> QED
      BY <3>1, <2>2 DEF Body
  <2>4. next = [s \in Small(n + 1) |-> Body(f, next, s)]
    <3> HIDE DEF Small
    <3> QED
      BY <2>3
  <2> HIDE DEF Small, next
  <2> QED
    BY <2>4
<1>5. Cardinality(S) \in Good
  <2> HIDE DEF Good
  <2> SUFFICES ASSUME Nat \ Good # {} PROVE FALSE
    BY <1>1
  <2>1. PICK n \in Nat \ Good : \A m \in Nat \ Good : n <= m
    BY Least
  <2>2. n # 0 /\ n - 1 \in Nat /\ n - 1 \in Good
    BY <1>3, <2>1
  <2> QED
    BY <1>4, <2>1, <2>2
<1>6. Small(Cardinality(S)) = SUBSET S
  BY FS_Subset
<1> QED
  BY <1>5, <1>6 DEF IsSum

\* Two such functions agree at every finite set that is in the domain of both.
LEMMA SumUnique ==
  ASSUME NEW f, NEW S, NEW R, NEW g, NEW h, IsSum(f, S, g), IsSum(f, R, h),
         NEW s, s \subseteq S, s \subseteq R, IsFiniteSet(s)
  PROVE  g[s] = h[s]
<1> DEFINE Bad == {r \in SUBSET s : g[r] # h[r]}
<1> SUFFICES ASSUME s \in Bad PROVE FALSE
  OBVIOUS
<1>1. PICK r \in Bad : \A y \in Bad : ~ (<<y, r>> \in StrictSubsetOrdering(s))
  <2>1. Bad # {} /\ Bad \subseteq FiniteSubsetsOf(s)
    BY FS_FiniteSubsetsOfFinite
  <2> HIDE DEF Bad
  <2> QED
    BY <2>1, WFMin, FS_StrictSubsetOrderingWellFounded
<1>2. g[r] = Body(f, g, r) /\ h[r] = Body(f, h, r)
  BY DEF IsSum
<1>3. r # {}
  BY <1>1, <1>2 DEF Body
<1>4. <<r \ {Pick(r)}, r>> \in StrictSubsetOrdering(s)
  BY <1>1, <1>3, PickIn DEF StrictSubsetOrdering
<1>5. g[r \ {Pick(r)}] = h[r \ {Pick(r)}]
  BY <1>1, <1>4
<1> QED
  BY <1>1, <1>2, <1>5 DEF Body

\* The sum of nothing is 0; any other takes one term and adds the rest.
LEMMA SumStep ==
  ASSUME NEW f, NEW S, IsFiniteSet(S)
  PROVE  /\ S = {} => Sum(f, S) = 0
         /\ S # {} => Sum(f, S) = f[Pick(S)] + Sum(f, S \ {Pick(S)})
<1> DEFINE R == S \ {Pick(S)}
           g == CHOOSE iter : IsSum(f, S, iter)
           h == CHOOSE iter : IsSum(f, R, iter)
<1>1. IsFiniteSet(R)
  BY FS_RemoveElement
<1>2. IsSum(f, S, g) /\ IsSum(f, R, h)
  BY <1>1, SumExists
<1>3. Sum(f, S) = g[S] /\ Sum(f, R) = h[R]
  BY SumDef
<1> HIDE DEF g, h
<1>4. g[R] = h[R]
  BY <1>1, <1>2, SumUnique
<1>5. g[S] = Body(f, g, S)
  BY <1>2 DEF IsSum
<1> QED
  BY <1>3, <1>4, <1>5 DEF Body

\* A sum of integers is one, and any element may come first.
LEMMA SumSplit ==
  ASSUME NEW f, NEW S, IsFiniteSet(S), \A k \in S : f[k] \in Int
  PROVE  /\ Sum(f, S) \in Int
         /\ \A x \in S : Sum(f, S) = f[x] + Sum(f, S \ {x})
<1> DEFINE Fine(s) == Sum(f, s) \in Int /\ \A x \in s : Sum(f, s) = f[x] + Sum(f, s \ {x})
           Bad == {s \in SUBSET S : ~Fine(s)}
<1> SUFFICES ASSUME S \in Bad PROVE FALSE
  OBVIOUS
<1>1. PICK s \in Bad : \A y \in Bad : ~ (<<y, s>> \in StrictSubsetOrdering(S))
  <2>1. Bad # {} /\ Bad \subseteq FiniteSubsetsOf(S)
    BY FS_FiniteSubsetsOfFinite
  <2> HIDE DEF Bad
  <2> QED
    BY <2>1, WFMin, FS_StrictSubsetOrderingWellFounded
<1>2. \A x \in s : Fine(s \ {x})
  <2> TAKE x \in s
  <2>1. <<s \ {x}, s>> \in StrictSubsetOrdering(S)
    BY <1>1 DEF StrictSubsetOrdering
  <2>2. s \ {x} \in SUBSET S
    BY <1>1
  <2> HIDE DEF Fine
  <2> QED
    BY <2>1, <2>2, <1>1
<1>3. IsFiniteSet(s) /\ \A x, y \in s : IsFiniteSet(s \ {x}) /\ IsFiniteSet((s \ {x}) \ {y})
  BY <1>1, FS_Subset
<1>4. s # {}
  <2>1. Sum(f, {}) = 0
    BY SumStep, FS_EmptySet
  <2> QED
    BY <1>1, <2>1
<1> DEFINE c == Pick(s)
<1>5. c \in s /\ f[c] \in Int /\ Sum(f, s) = f[c] + Sum(f, s \ {c}) /\ Sum(f, s \ {c}) \in Int
  BY <1>1, <1>2, <1>3, <1>4, SumStep, PickIn
<1>6. \A x \in s : Sum(f, s) = f[x] + Sum(f, s \ {x})
  <2> TAKE x \in s
  <2> HIDE DEF c
  <2>1. CASE x = c
    BY <2>1, <1>5
  <2>2. CASE x # c
    <3>1. (s \ {c}) \ {x} = (s \ {x}) \ {c}
      OBVIOUS
    <3>2. Sum(f, s \ {c}) = f[x] + Sum(f, (s \ {c}) \ {x})
      BY <1>2, <1>5, <2>2
    <3>3. Sum(f, s \ {x}) = f[c] + Sum(f, (s \ {c}) \ {x}) /\ Sum(f, s \ {x}) \in Int
      BY <1>2, <1>5, <2>2, <3>1
    <3>4. f[x] \in Int
      BY <1>1
    <3>5. Fine((s \ {c}) \ {x})
      <4>1. <<(s \ {c}) \ {x}, s>> \in StrictSubsetOrdering(S)
        BY <1>1, <1>5 DEF StrictSubsetOrdering
      <4>2. (s \ {c}) \ {x} \in SUBSET S
        BY <1>1
      <4> HIDE DEF Fine
      <4> QED
        BY <4>1, <4>2, <1>1
    <3> QED
      BY <3>2, <3>3, <3>4, <3>5, <1>5
  <2> QED
    BY <2>1, <2>2
<1> QED
  BY <1>1, <1>5, <1>6

------------------------------------------------------------------------------
\* Arithmetic modulo P.

\* Division with remainder by the modulus.
LEMMA Remainder ==
  ASSUME NEW x \in Int
  PROVE  /\ x % P \in Field
         /\ x = (x \div P) * P + (x % P)
         /\ x \div P \in Int
BY SizesAssumption DEF Field

\* A multiple of p other than 0 is at least as far from 0 as p.
LEMMA LargerMultiple ==
  ASSUME NEW q \in Int, NEW p \in Nat, q # 0
  PROVE  q * p >= p \/ q * p <= -p
OBVIOUS

\* The remainder is the only one.
LEMMA RemainderUnique ==
  ASSUME NEW q \in Int, NEW r \in Field
  PROVE  (q * P + r) % P = r
<1> DEFINE x == q * P + r
           k == q - (x \div P)
<1>1. x \in Int /\ P \in Nat \ {0} /\ q * P \in Int
  BY SizesAssumption DEF Field
<1>2. x % P \in Field /\ x = (x \div P) * P + (x % P) /\ x \div P \in Int
  BY <1>1, Remainder
<1>3. k \in Int /\ k * P = q * P - (x \div P) * P
  BY <1>1, <1>2
<1>4. k * P = (x % P) - r
  BY <1>1, <1>2, <1>3 DEF Field
<1>5. k = 0
  <2> HIDE DEF k, x
  <2> QED
    BY <1>1, <1>2, <1>3, <1>4, LargerMultiple DEF Field
<1> QED
  BY <1>1, <1>2, <1>4, <1>5 DEF Field

\* The congruence of integers modulo P.
Same(x, y) == x % P = y % P

\* Congruent integers differ by a multiple of the modulus.
LEMMA SameByMultiple ==
  ASSUME NEW x \in Int, NEW y \in Int
  PROVE  Same(x, y) <=> \E q \in Int : x = q * P + y
<1> USE SizesAssumption
<1>1. ASSUME Same(x, y) PROVE \E q \in Int : x = q * P + y
  <2>1. x = ((x \div P) - (y \div P)) * P + y
    <3>1. /\ x \div P \in Int /\ y \div P \in Int
          /\ x = (x \div P) * P + (x % P) /\ y = (y \div P) * P + (x % P) /\ x % P \in Int
      BY <1>1, Remainder DEF Same, Field
    <3> QED
      BY <3>1
  <2>2. (x \div P) - (y \div P) \in Int
    BY Remainder
  <2> QED
    BY <2>1, <2>2
<1>2. ASSUME NEW q \in Int, x = q * P + y PROVE Same(x, y)
  <2>1. y = (y \div P) * P + (y % P) /\ y \div P \in Int /\ y % P \in Field
    BY Remainder
  <2>2. x = (q + (y \div P)) * P + (y % P) /\ q + (y \div P) \in Int
    BY <1>2, <2>1 DEF Field
  <2> QED
    BY <2>1, <2>2, RemainderUnique DEF Same
<1> QED
  BY <1>1, <1>2

\* An integer is congruent to its remainder.
LEMMA SameRemainder ==
  ASSUME NEW x \in Int
  PROVE  x % P \in Field /\ x % P \in Int /\ Same(x % P, x)
<1>1. x % P \in Field /\ x % P \in Int
  BY Remainder DEF Field
<1>2. (0 * P + (x % P)) % P = x % P
  BY <1>1, RemainderUnique
<1>3. 0 * P + (x % P) = x % P
  BY <1>1, SizesAssumption
<1> QED
  BY <1>1, <1>2, <1>3 DEF Same

\* The members of the field are their own remainders.
LEMMA FieldIsReduced ==
  ASSUME NEW x \in Field
  PROVE  x % P = x
<1>1. (0 * P + x) % P = x
  BY RemainderUnique
<1>2. 0 * P + x = x
  BY SizesAssumption DEF Field
<1> QED
  BY <1>1, <1>2

\* Congruence is kept by sums and differences.
LEMMA SamePlus ==
  ASSUME NEW x \in Int, NEW y \in Int, NEW u \in Int, NEW v \in Int, Same(x, y), Same(u, v)
  PROVE  Same(x + u, y + v) /\ Same(x - u, y - v)
<1> USE SizesAssumption
<1>1. PICK q \in Int : x = q * P + y
  BY SameByMultiple
<1>2. PICK r \in Int : u = r * P + v
  BY SameByMultiple
<1>3. x + u = (q + r) * P + (y + v) /\ x - u = (q - r) * P + (y - v)
  BY <1>1, <1>2
<1>4. q + r \in Int /\ q - r \in Int /\ x + u \in Int /\ y + v \in Int /\ x - u \in Int /\ y - v \in Int
  OBVIOUS
<1> QED
  BY <1>3, <1>4, SameByMultiple

\* Congruence is kept by products.
LEMMA SameTimes ==
  ASSUME NEW x \in Int, NEW y \in Int, NEW u \in Int, NEW v \in Int, Same(x, y), Same(u, v)
  PROVE  Same(x * u, y * v)
<1> USE SizesAssumption
<1>1. PICK q \in Int : x = q * P + y
  BY SameByMultiple
<1>2. PICK r \in Int : u = r * P + v
  BY SameByMultiple
<1>3. x * u = (q * u + y * r) * P + y * v
  <2>1. x * u = (q * P) * u + y * u
    BY <1>1
  <2>2. (q * P) * u = (q * u) * P
    OBVIOUS
  <2>3. y * u = y * (r * P) + y * v
    BY <1>2
  <2>4. y * (r * P) = (y * r) * P
    OBVIOUS
  <2>5. (q * u) * P + (y * r) * P = (q * u + y * r) * P
    OBVIOUS
  <2> DEFINE a == (q * u) * P
             b == (y * r) * P
             c == y * v
  <2>6. a \in Int /\ b \in Int /\ c \in Int
    OBVIOUS
  <2>7. x * u = a + (b + c) /\ a + b = (q * u + y * r) * P
    BY <2>1, <2>2, <2>3, <2>4, <2>5
  <2> HIDE DEF a, b, c
  <2>8. x * u = (a + b) + c
    BY <2>6, <2>7
  <2> QED
    BY <2>7, <2>8 DEF c
<1>4. q * u + y * r \in Int /\ x * u \in Int /\ y * v \in Int
  OBVIOUS
<1> QED
  BY <1>3, <1>4, SameByMultiple

------------------------------------------------------------------------------
\* Sums modulo P.
LEMMA TotalIsSum == ASSUME NEW f, NEW S PROVE Total(f, S) = Sum(f, S) % P
BY DEF Total, Sum

\* The total of nothing is 0.
LEMMA TotalEmpty == ASSUME NEW f PROVE Total(f, {}) = 0
<1>1. Sum(f, {}) = 0
  BY SumStep, FS_EmptySet
<1>2. 0 \in Field
  BY SizesAssumption DEF Field
<1> QED
  BY <1>1, <1>2, TotalIsSum, FieldIsReduced

\* A total is in the field, and any of its terms may be split off.
LEMMA TotalSplit ==
  ASSUME NEW f, NEW S, IsFiniteSet(S), \A k \in S : f[k] \in Int
  PROVE  /\ Total(f, S) \in Field
         /\ \A x \in S : Total(f, S) = (f[x] + Total(f, S \ {x})) % P
<1>1. Sum(f, S) \in Int /\ \A x \in S : Sum(f, S) = f[x] + Sum(f, S \ {x})
  BY SumSplit
<1>2. Total(f, S) \in Field
  BY <1>1, TotalIsSum, SameRemainder
<1>3. ASSUME NEW x \in S PROVE Total(f, S) = (f[x] + Total(f, S \ {x})) % P
  <2>1. IsFiniteSet(S \ {x})
    BY FS_RemoveElement
  <2>2. Sum(f, S \ {x}) \in Int /\ f[x] \in Int
    BY <2>1, SumSplit
  <2> DEFINE r == Sum(f, S \ {x})
  <2>3. r % P \in Int /\ Same(r % P, r) /\ Same(f[x], f[x])
    BY <2>2, SameRemainder DEF Same
  <2>4. Same(f[x] + (r % P), f[x] + r)
    BY <2>2, <2>3, SamePlus
  <2>5. Total(f, S \ {x}) = r % P /\ Total(f, S) = (f[x] + r) % P
    BY <1>1, TotalIsSum
  <2> QED
    BY <2>4, <2>5 DEF Same
<1> QED
  BY <1>2, <1>3

\* What an induction over the parts of a finite set has to show.
LEMMA TotalGrows ==
  ASSUME NEW f, NEW S, IsFiniteSet(S), \A k \in S : f[k] \in Int, NEW s \in SUBSET S, NEW x \in S \ s
  PROVE  Total(f, s \union {x}) = (f[x] + Total(f, s)) % P /\ Total(f, s) \in Field
<1>1. IsFiniteSet(s \union {x}) /\ IsFiniteSet(s)
  BY FS_Subset
<1>2. (s \union {x}) \ {x} = s
  OBVIOUS
<1> QED
  BY <1>1, <1>2, TotalSplit

\* Terms may be replaced by congruent ones.
LEMMA TotalSame ==
  ASSUME NEW f, NEW g, NEW S, IsFiniteSet(S),
         \A k \in S : f[k] \in Int /\ g[k] \in Int /\ Same(f[k], g[k])
  PROVE  Total(f, S) = Total(g, S)
<1> DEFINE T == {s \in SUBSET S : Total(f, s) = Total(g, s)}
<1>1. {} \in T
  BY TotalEmpty
<1>2. ASSUME NEW s \in SUBSET S, NEW x \in S \ s, s \in T PROVE s \union {x} \in T
  <2>1. /\ Total(f, s \union {x}) = (f[x] + Total(f, s)) % P /\ Total(f, s) \in Field
        /\ Total(g, s \union {x}) = (g[x] + Total(g, s)) % P /\ Total(g, s) \in Field
    BY TotalGrows
  <2>2. Same(f[x] + Total(f, s), g[x] + Total(f, s))
    BY <2>1, SamePlus DEF Same, Field
  <2> QED
    BY <1>2, <2>1, <2>2 DEF Same
<1> HIDE DEF T
<1>3. S \in T
  BY <1>1, <1>2, FinitePart
<1> QED
  BY <1>3 DEF T

\* Terms congruent to zero may be left out.
LEMMA TotalOver ==
  ASSUME NEW f, NEW S, IsFiniteSet(S), NEW R \in SUBSET S,
         \A k \in S : f[k] \in Int, \A k \in S \ R : Same(f[k], 0)
  PROVE  Total(f, S) = Total(f, R)
<1> DEFINE T == {s \in SUBSET S : Total(f, s) = Total(f, s \intersect R)}
<1>1. {} \in T
  OBVIOUS
<1>2. ASSUME NEW s \in SUBSET S, NEW x \in S \ s, s \in T PROVE s \union {x} \in T
  <2>1. Total(f, s \union {x}) = (f[x] + Total(f, s)) % P /\ Total(f, s) \in Field
    BY TotalGrows
  <2>2. CASE x \in R
    <3>1. (s \union {x}) \intersect R = (s \intersect R) \union {x}
      BY <2>2
    <3>2. Total(f, (s \intersect R) \union {x}) = (f[x] + Total(f, s \intersect R)) % P
      BY TotalGrows
    <3> QED
      BY <1>2, <2>1, <3>1, <3>2
  <2>3. CASE x \notin R
    <3>1. (s \union {x}) \intersect R = s \intersect R
      BY <2>3
    <3>2. Same(f[x] + Total(f, s), 0 + Total(f, s))
      BY <2>1, <2>3, SamePlus DEF Same, Field
    <3>3. 0 + Total(f, s) = Total(f, s) /\ Total(f, s) % P = Total(f, s)
      BY <2>1, FieldIsReduced DEF Field
    <3> QED
      BY <1>2, <2>1, <3>1, <3>2, <3>3 DEF Same
  <2> QED
    BY <2>2, <2>3
<1> HIDE DEF T
<1>3. S \in T
  BY <1>1, <1>2, FinitePart
<1>4. S \intersect R = R
  OBVIOUS
<1> QED
  BY <1>3, <1>4 DEF T

\* The total of terms congruent to zero is 0.
LEMMA TotalZero ==
  ASSUME NEW f, NEW S, IsFiniteSet(S), \A k \in S : f[k] \in Int /\ Same(f[k], 0)
  PROVE  Total(f, S) = 0
BY TotalOver, TotalEmpty

\* The sum of sums, and the multiple of a sum.
LEMMA TotalPlus ==
  ASSUME NEW f, NEW g, NEW S, IsFiniteSet(S), \A k \in S : f[k] \in Int /\ g[k] \in Int
  PROVE  Total([k \in S |-> f[k] + g[k]], S) = (Total(f, S) + Total(g, S)) % P
<1> DEFINE h == [k \in S |-> f[k] + g[k]]
           T == {s \in SUBSET S : Total(h, s) = (Total(f, s) + Total(g, s)) % P}
<1>0. \A k \in S : h[k] = f[k] + g[k] /\ h[k] \in Int
  OBVIOUS
<1> HIDE DEF h
<1>1. {} \in T
  BY TotalEmpty, FieldIsReduced, SizesAssumption DEF Field
<1>2. ASSUME NEW s \in SUBSET S, NEW x \in S \ s, s \in T PROVE s \union {x} \in T
  <2> DEFINE a == Total(f, s)
             b == Total(g, s)
             c == Total(h, s)
  <2>1. /\ Total(f, s \union {x}) = (f[x] + a) % P /\ a \in Field
        /\ Total(g, s \union {x}) = (g[x] + b) % P /\ b \in Field
        /\ Total(h, s \union {x}) = (h[x] + c) % P /\ c \in Field
    BY <1>0, TotalGrows
  <2>2. c = (a + b) % P
    BY <1>2
  <2> HIDE DEF a, b, c
  <2>3. a \in Int /\ b \in Int /\ c \in Int /\ f[x] \in Int /\ g[x] \in Int
    BY <2>1 DEF Field
  <2>4. Same(c, a + b)
    BY <2>2, <2>3, SameRemainder
  <2>5. Same((f[x] + g[x]) + c, (f[x] + g[x]) + (a + b))
    <3>1. f[x] + g[x] \in Int /\ a + b \in Int /\ Same(f[x] + g[x], f[x] + g[x])
      BY <2>3 DEF Same
    <3> QED
      BY <2>3, <2>4, <3>1, SamePlus
  <2>6. /\ Same((f[x] + a) % P, f[x] + a) /\ Same((g[x] + b) % P, g[x] + b)
        /\ f[x] + a \in Int /\ g[x] + b \in Int /\ (f[x] + a) % P \in Int /\ (g[x] + b) % P \in Int
    BY <2>3, SameRemainder
  <2>7. Same(((f[x] + a) % P) + ((g[x] + b) % P), (f[x] + a) + (g[x] + b))
    BY <2>6, SamePlus
  <2>8. (f[x] + a) + (g[x] + b) = (f[x] + g[x]) + (a + b)
    BY <2>3
  <2> QED
    BY <1>0, <2>1, <2>5, <2>7, <2>8 DEF Same
<1> HIDE DEF T
<1>3. S \in T
  BY <1>1, <1>2, FinitePart
<1> QED
  BY <1>3 DEF T, h

\* The multiple of a total is the total of the multiples.
LEMMA TotalTimes ==
  ASSUME NEW f, NEW c \in Int, NEW S, IsFiniteSet(S), \A k \in S : f[k] \in Int
  PROVE  Total([k \in S |-> c * f[k]], S) = (c * Total(f, S)) % P
<1> DEFINE h == [k \in S |-> c * f[k]]
           T == {s \in SUBSET S : Total(h, s) = (c * Total(f, s)) % P}
<1>0. \A k \in S : h[k] = c * f[k] /\ h[k] \in Int
  OBVIOUS
<1> HIDE DEF h
<1>1. {} \in T
  BY TotalEmpty, FieldIsReduced, SizesAssumption DEF Field
<1>2. ASSUME NEW s \in SUBSET S, NEW x \in S \ s, s \in T PROVE s \union {x} \in T
  <2> DEFINE a == Total(f, s)
             b == Total(h, s)
  <2>1. /\ Total(f, s \union {x}) = (f[x] + a) % P /\ a \in Field
        /\ Total(h, s \union {x}) = (h[x] + b) % P /\ b \in Field
    BY <1>0, TotalGrows
  <2>2. b = (c * a) % P
    BY <1>2
  <2> HIDE DEF a, b
  <2>3. a \in Int /\ b \in Int /\ f[x] \in Int /\ c * a \in Int /\ c * f[x] \in Int
    BY <2>1 DEF Field
  <2>4. Same(b, c * a)
    BY <2>2, <2>3, SameRemainder
  <2>5. Same(c * f[x] + b, c * f[x] + c * a)
    <3>1. Same(c * f[x], c * f[x])
      BY DEF Same
    <3> QED
      BY <2>3, <2>4, <3>1, SamePlus
  <2>6. Same((f[x] + a) % P, f[x] + a) /\ (f[x] + a) % P \in Int /\ f[x] + a \in Int
    BY <2>3, SameRemainder
  <2>7. Same(c * ((f[x] + a) % P), c * (f[x] + a))
    BY <2>6, SameTimes DEF Same
  <2>8. c * (f[x] + a) = c * f[x] + c * a
    BY <2>3
  <2> QED
    BY <1>0, <2>1, <2>5, <2>7, <2>8 DEF Same
<1> HIDE DEF T
<1>3. S \in T
  BY <1>1, <1>2, FinitePart
<1> QED
  BY <1>3 DEF T, h

\* Rows first or columns first.
LEMMA TotalExchange ==
  ASSUME NEW R, NEW S, IsFiniteSet(R), IsFiniteSet(S),
         NEW a, \A i \in R, j \in S : a[i][j] \in Int
  PROVE  Total([i \in R |-> Total(a[i], S)], R)
           = Total([j \in S |-> Total([i \in R |-> a[i][j]], R)], S)
<1> DEFINE h == [i \in R |-> Total(a[i], S)]
           v(r) == [j \in S |-> Total([i \in R |-> a[i][j]], r)]
           T == {r \in SUBSET R : Total(h, r) = Total(v(r), S)}
<1>0. \A i \in R : Total(a[i], S) \in Field /\ Total(a[i], S) \in Int
  BY TotalSplit DEF Field
<1>1. {} \in T
  <2>1. \A j \in S : v({})[j] = 0
    BY TotalEmpty
  <2>2. Total(v({}), S) = 0
    <3> HIDE DEF v
    <3> QED
      BY <2>1, TotalZero DEF Same
  <2> QED
    BY <2>2, TotalEmpty
<1>2. ASSUME NEW r \in SUBSET R, NEW x \in R \ r, r \in T PROVE r \union {x} \in T
  <2>1. Total(h, r \union {x}) = (h[x] + Total(h, r)) % P /\ h[x] = Total(a[x], S)
    <3>1. \A i \in R : h[i] \in Int
      BY <1>0
    <3> HIDE DEF h
    <3>2. Total(h, r \union {x}) = (h[x] + Total(h, r)) % P
      BY <3>1, TotalGrows
    <3> QED
      BY <3>2 DEF h
  <2>2. \A j \in S : /\ v(r \union {x})[j] = (a[x][j] + v(r)[j]) % P
                      /\ v(r)[j] \in Field /\ v(r \union {x})[j] \in Int
    <3> TAKE j \in S
    <3> DEFINE f == [i \in R |-> a[i][j]]
    <3>1. \A i \in R : f[i] \in Int
      OBVIOUS
    <3>2. f[x] = a[x][j] /\ v(r)[j] = Total(f, r) /\ v(r \union {x})[j] = Total(f, r \union {x})
      OBVIOUS
    <3> HIDE DEF f, v
    <3>3. Total(f, r \union {x}) = (f[x] + Total(f, r)) % P /\ Total(f, r) \in Field
      BY <3>1, TotalGrows
    <3>4. (f[x] + Total(f, r)) % P \in Int
      BY <3>1, <3>3, SameRemainder DEF Field
    <3> QED
      BY <3>2, <3>3, <3>4
  <2> DEFINE sum == [j \in S |-> a[x][j] + v(r)[j]]
             row == a[x]
             old == v(r)
             new == v(r \union {x})
  <2>3. Total(sum, S) = (Total(row, S) + Total(old, S)) % P
    <3>1. \A j \in S : row[j] \in Int /\ old[j] \in Int
      BY <2>2 DEF Field
    <3>2. sum = [j \in S |-> row[j] + old[j]]
      OBVIOUS
    <3> HIDE DEF row, old, sum
    <3> QED
      BY <3>1, <3>2, TotalPlus
  <2>4. Total(new, S) = Total(sum, S)
    <3>1. \A j \in S : row[j] \in Int /\ old[j] \in Int /\ new[j] = (row[j] + old[j]) % P
                       /\ sum[j] = row[j] + old[j]
      <4> TAKE j \in S
      <4>1. new[j] = (a[x][j] + v(r)[j]) % P /\ v(r)[j] \in Field
        BY <2>2
      <4>2. row[j] \in Int /\ old[j] = v(r)[j] /\ sum[j] = a[x][j] + v(r)[j]
        OBVIOUS
      <4> HIDE DEF v, new, sum, old
      <4> QED
        BY <4>1, <4>2 DEF Field
    <3> HIDE DEF row, old, sum, new
    <3>2. \A j \in S : new[j] \in Int /\ sum[j] \in Int /\ Same(new[j], sum[j])
      BY <3>1, SameRemainder
    <3> QED
      BY <3>2, TotalSame
  <2>5. Total(h, r) = Total(old, S)
    BY <1>2
  <2> HIDE DEF h, old, new, sum
  <2> QED
    BY <2>1, <2>3, <2>4, <2>5 DEF new
<1> HIDE DEF T
<1>3. R \in T
  BY <1>1, <1>2, FinitePart
<1> QED
  BY <1>3 DEF T

------------------------------------------------------------------------------
\* Recursive functions.

\* A recursive function whose value at i depends on its values at arguments of
\* lesser measure.
IsRecursion(S, D, m, b, step) ==
  /\ D # {}
  /\ m \in [S -> Nat]
  /\ b \in Nat
  /\ \A i \in S : m[i] < b
  /\ step \in [S -> [[S -> D] -> D]]
  /\ \A i \in S : \A f, g \in [S -> D] :
       (\A k \in S : m[k] < m[i] => f[k] = g[k]) => step[i][f] = step[i][g]

\* Such a recursive function exists.
LEMMA Recursion ==
  ASSUME NEW S, NEW D, NEW m, NEW b, NEW step, IsRecursion(S, D, m, b, step)
  PROVE  \E f \in [S -> D] : \A i \in S : f[i] = step[i][f]
<1> USE DEF IsRecursion
<1> DEFINE Good == {n \in Nat : \E f \in [S -> D] : \A i \in S : m[i] < n => f[i] = step[i][f]}
<1>1. 0 \in Good
  <2>1. PICK d : d \in D
    OBVIOUS
  <2>2. [i \in S |-> d] \in [S -> D]
    BY <2>1
  <2>3. \A i \in S : ~(m[i] < 0)
    OBVIOUS
  <2> QED
    BY <2>2, <2>3
<1>2. ASSUME NEW n \in Nat, n \in Good PROVE n + 1 \in Good
  <2>1. PICK f \in [S -> D] : \A i \in S : m[i] < n => f[i] = step[i][f]
    BY <1>2
  <2> DEFINE g == [i \in S |-> IF m[i] = n THEN step[i][f] ELSE f[i]]
  <2>2. g \in [S -> D]
    OBVIOUS
  <2>3. \A i \in S : m[i] < n + 1 => m[i] = n \/ m[i] < n
    <3>1. \A i \in S : m[i] \in Nat
      OBVIOUS
    <3>2. \A x \in Nat : x < n + 1 => x = n \/ x < n
      OBVIOUS
    <3> QED
      BY <3>1, <3>2
  <2>4. ASSUME NEW i \in S, m[i] < n + 1 PROVE g[i] = step[i][g]
    <3>1. \A k \in S : m[k] < m[i] => f[k] = g[k]
      BY <2>4
    <3>2. step[i][f] = step[i][g]
      BY <2>2, <3>1
    <3> QED
      BY <2>1, <2>3, <2>4, <3>2
  <2> HIDE DEF g
  <2> QED
    BY <2>2, <2>4
<1> HIDE DEF Good
<1>3. b \in Good
  BY <1>1, <1>2, NatInduct
<1> QED
  BY <1>3 DEF Good

\* The positions of a matrix.
Pairs == Index \X Index

\* The indices are the N naturals below N.
LEMMA IndexFacts == /\ IsFiniteSet(Index) /\ Cardinality(Index) = N /\ Index \subseteq Nat /\ 0 \in Index
                    /\ \A i \in Index : i < N
<1>1. N \in Nat /\ N # 0 /\ 0 \in Int /\ N - 1 \in Int
  BY SizesAssumption
<1>2. IsFiniteSet(0..(N - 1)) /\ Cardinality(0..(N - 1)) = IF 0 > N - 1 THEN 0 ELSE (N - 1) - 0 + 1
  BY <1>1, FS_Interval
<1> QED
  BY <1>1, <1>2 DEF Index

\* The stages of predict_fill_in.
IsElimination(f, S) ==
  /\ f \in [0..N -> SUBSET Pairs]
  /\ f[0] = S \union Diagonal
  /\ \A k \in 1..N :
       f[k] = f[k - 1] \union {ij \in (k..(N - 1)) \X (k..(N - 1)) :
                                 <<ij[1], k - 1>> \in f[k - 1] /\ <<k - 1, ij[2]>> \in f[k - 1]}

\* A first stage, and each later one of the stage before it.
IsStaged(n, D, first, later) == n \in Nat /\ first \in D /\ later \in [1..n -> [D -> D]]

\* A function of 0..n that is given stage by stage exists.
LEMMA StagedFunction ==
  ASSUME NEW n, NEW D, NEW first, NEW later, IsStaged(n, D, first, later)
  PROVE  \E f \in [0..n -> D] : f[0] = first /\ \A k \in 1..n : f[k] = later[k][f[k - 1]]
<1> USE DEF IsStaged
<1> DEFINE K == 0..n
           b == n + 1
           m == [k \in K |-> k]
           step == [k \in K |-> [f \in [K -> D] |-> IF k = 0 THEN first ELSE later[k][f[k - 1]]]]
<1>1. \A k \in K : k # 0 => k - 1 \in K /\ k \in 1..n /\ m[k - 1] < m[k]
  OBVIOUS
<1>2. m \in [K -> Nat] /\ b \in Nat /\ \A k \in K : m[k] < b
  OBVIOUS
<1>3. step \in [K -> [[K -> D] -> D]]
  <2> HIDE DEF K
  <2> QED
    BY <1>1
<1>4. \A k \in K : \A f, g \in [K -> D] :
        (\A l \in K : m[l] < m[k] => f[l] = g[l]) => step[k][f] = step[k][g]
  <2> TAKE k \in K
  <2> TAKE f, g \in [K -> D]
  <2> HAVE \A l \in K : m[l] < m[k] => f[l] = g[l]
  <2>1. k # 0 => f[k - 1] = g[k - 1]
    <3> HIDE DEF K, m
    <3> QED
      BY <1>1
  <2> HIDE DEF K, m
  <2> QED
    BY <2>1
<1>5. IsRecursion(K, D, m, b, step)
  <2> HIDE DEF K, b, m, step
  <2> QED
    BY <1>2, <1>3, <1>4 DEF IsRecursion
<1>6. PICK f \in [K -> D] : \A k \in K : f[k] = step[k][f]
  <2> HIDE DEF K, b, m, step
  <2> QED
    BY <1>5, Recursion
<1>7. f[0] = first
  BY <1>6
<1>8. \A k \in 1..n : f[k] = later[k][f[k - 1]]
  <2> TAKE k \in 1..n
  <2>1. k \in K /\ k # 0
    OBVIOUS
  <2> HIDE DEF K
  <2> QED
    BY <1>6, <2>1
<1> QED
  BY <1>7, <1>8

\* predict_fill_in computes the last stage of an elimination.
LEMMA EliminationExists ==
  ASSUME NEW S \in SUBSET Pairs
  PROVE  \E f : IsElimination(f, S) /\ PredictedPattern(S) = f[N]
<1> USE SizesAssumption
<1> DEFINE More(k, before) ==
             before \union {ij \in (k..(N - 1)) \X (k..(N - 1)) :
                              <<ij[1], k - 1>> \in before /\ <<k - 1, ij[2]>> \in before}
           D == SUBSET Pairs
           first == S \union Diagonal
           later == [k \in 1..N |-> [before \in D |-> More(k, before)]]
           Def(f) == [k \in 0..N |-> IF k = 0 THEN first ELSE More(k, f[k - 1])]
<1>1. IsStaged(N, D, first, later)
  BY DEF IsStaged, Pairs, Index, Diagonal
<1>2. PICK g \in [0..N -> D] : g[0] = first /\ \A k \in 1..N : g[k] = later[k][g[k - 1]]
  <2> HIDE DEF D, first, later
  <2> QED
    BY <1>1, StagedFunction
<1>3. \A k \in 1..N : k - 1 \in 0..N /\ g[k] = More(k, g[k - 1])
  <2> TAKE k \in 1..N
  <2>1. k - 1 \in 0..N
    OBVIOUS
  <2> HIDE DEF More, D
  <2> QED
    BY <1>2, <2>1
<1>4. \A k \in 0..N : k # 0 => k \in 1..N /\ k - 1 \in 0..N
  OBVIOUS
<1> HIDE DEF More, first
<1>5. g = Def(g)
  BY <1>2, <1>3, <1>4
<1> DEFINE f == CHOOSE h : h = Def(h)
<1>6. f = Def(f)
  <2> HIDE DEF Def
  <2> QED
    BY <1>5
<1>7. PredictedPattern(S) = f[N]
  BY DEF PredictedPattern, More, first
<1> HIDE DEF f
<1>8. f = g
  <2> DEFINE T == {k \in Nat : k \in 0..N => f[k] = g[k]}
  <2>1. 0 \in T
    BY <1>5, <1>6
  <2>2. ASSUME NEW k \in Nat, k \in T PROVE k + 1 \in T
    <3>1. k + 1 \in 0..N => f[k + 1] = More(k + 1, f[k]) /\ g[k + 1] = More(k + 1, g[k]) /\ f[k] = g[k]
      <4>1. (k + 1) - 1 = k /\ k + 1 # 0 /\ (k + 1 \in 0..N => k \in 0..N)
        OBVIOUS
      <4> QED
        BY <4>1, <2>2, <1>5, <1>6
    <3> QED
      BY <3>1
  <2> HIDE DEF T
  <2>3. Nat \subseteq T
    BY <2>1, <2>2, NatInduct
  <2>4. \A k \in 0..N : f[k] = g[k]
    BY <2>3 DEF T
  <2> QED
    BY <2>4, <1>5, <1>6
<1>9. IsElimination(g, S)
  BY <1>2, <1>3 DEF IsElimination, More, first
<1> QED
  BY <1>7, <1>8, <1>9

------------------------------------------------------------------------------
\* What the sparsity analysis computes.

\* The pattern of an elimination is the least that contains the structure and
\* the diagonal, and with <<i, k>> and <<k, j>>, k before both, <<i, j>>.
IsPattern(Q, S) ==
  /\ Q \subseteq Pairs
  /\ \A i, j \in Index :
       <<i, j>> \in Q <=> \/ <<i, j>> \in S \union Diagonal
                          \/ \E k \in Index : k < i /\ k < j /\ <<i, k>> \in Q /\ <<k, j>> \in Q

\* The predicted pattern has exactly the entries of the structure and the
\* diagonal, and the fill-in that a pivot before both indices causes.
LEMMA EliminationRule ==
  ASSUME NEW S \in SUBSET Pairs
  PROVE  IsPattern(PredictedPattern(S), S)
<1> USE SizesAssumption
<1>1. PICK f : IsElimination(f, S) /\ PredictedPattern(S) = f[N]
  BY EliminationExists
<1> DEFINE New(k) == {ij \in (k..(N - 1)) \X (k..(N - 1)) :
                        <<ij[1], k - 1>> \in f[k - 1] /\ <<k - 1, ij[2]>> \in f[k - 1]}
<1>2. /\ \A k \in 0..N : f[k] \in SUBSET Pairs
      /\ f[0] = S \union Diagonal
      /\ \A k \in 1..N : f[k] = f[k - 1] \union New(k)
  BY <1>1 DEF IsElimination
<1>3. \A k \in 0..N : \A l \in Nat : l \in k..N => f[k] \subseteq f[l]
  <2> TAKE k \in 0..N
  <2> DEFINE T == {l \in Nat : l \in k..N => f[k] \subseteq f[l]}
  <2>1. 0 \in T
    OBVIOUS
  <2>2. ASSUME NEW l \in Nat, l \in T PROVE l + 1 \in T
    <3> SUFFICES ASSUME l + 1 \in k..N PROVE f[k] \subseteq f[l + 1]
      OBVIOUS
    <3>1. CASE l + 1 = k
      BY <3>1
    <3>2. CASE l \in k..N
      <4>1. l + 1 \in 1..N /\ (l + 1) - 1 = l
        OBVIOUS
      <4> HIDE DEF New
      <4> QED
        BY <4>1, <1>2, <2>2, <3>2
    <3> QED
      BY <3>1, <3>2
  <2> HIDE DEF T
  <2>3. Nat \subseteq T
    BY <2>1, <2>2, NatInduct
  <2> QED
    BY <2>3 DEF T
<1>4. \A k \in 0..N : \A l \in Nat : \A i, j \in Index :
        l \in k..N /\ (i <= k \/ j <= k) /\ <<i, j>> \in f[l] => <<i, j>> \in f[k]
  <2> TAKE k \in 0..N
  <2> DEFINE T == {l \in Nat : \A i, j \in Index :
        l \in k..N /\ (i <= k \/ j <= k) /\ <<i, j>> \in f[l] => <<i, j>> \in f[k]}
  <2>1. 0 \in T
    OBVIOUS
  <2>2. ASSUME NEW l \in Nat, l \in T PROVE l + 1 \in T
    <3> SUFFICES ASSUME NEW i \in Index, NEW j \in Index, l + 1 \in k..N, i <= k \/ j <= k,
                        <<i, j>> \in f[l + 1]
                 PROVE  <<i, j>> \in f[k]
      OBVIOUS
    <3>1. CASE l + 1 = k
      BY <3>1
    <3>2. CASE l \in k..N
      <4>1. l + 1 \in 1..N /\ (l + 1) - 1 = l
        OBVIOUS
      <4>2. <<i, j>> \notin New(l + 1)
        BY <3>2 DEF Index
      <4>3. <<i, j>> \in f[l]
        <5> HIDE DEF New
        <5> QED
          BY <4>1, <4>2, <1>2
      <4> QED
        BY <4>3, <2>2, <3>2
    <3> QED
      BY <3>1, <3>2
  <2> HIDE DEF T
  <2>3. Nat \subseteq T
    BY <2>1, <2>2, NatInduct
  <2> QED
    BY <2>3 DEF T
<1>5. \A l \in Nat : \A i, j \in Index : l \in 0..N /\ <<i, j>> \in f[l] =>
        \/ <<i, j>> \in S \union Diagonal
        \/ \E k \in Index : k < i /\ k < j /\ <<i, k>> \in f[N] /\ <<k, j>> \in f[N]
  <2> DEFINE Goal(i, j) == \/ <<i, j>> \in S \union Diagonal
                           \/ \E k \in Index : k < i /\ k < j /\ <<i, k>> \in f[N] /\ <<k, j>> \in f[N]
             T == {l \in Nat : \A i, j \in Index : l \in 0..N /\ <<i, j>> \in f[l] => Goal(i, j)}
  <2>1. 0 \in T
    BY <1>2
  <2>2. ASSUME NEW l \in Nat, l \in T PROVE l + 1 \in T
    <3> SUFFICES ASSUME NEW i \in Index, NEW j \in Index, l + 1 \in 0..N, <<i, j>> \in f[l + 1]
                 PROVE  Goal(i, j)
      OBVIOUS
    <3>1. l + 1 \in 1..N /\ (l + 1) - 1 = l /\ l \in 0..N /\ l \in Index /\ N \in l..N
      BY DEF Index
    <3>2. CASE <<i, j>> \in f[l]
      <4> HIDE DEF Goal
      <4> QED
        BY <3>1, <3>2, <2>2
    <3>3. CASE <<i, j>> \in New(l + 1)
      <4>1. l < i /\ l < j /\ <<i, l>> \in f[l] /\ <<l, j>> \in f[l]
        BY <3>3, <3>1 DEF Index
      <4>2. f[l] \subseteq f[N]
        BY <1>3, <3>1
      <4> QED
        BY <3>1, <4>1, <4>2
    <3> HIDE DEF Goal, New
    <3> QED
      BY <3>1, <3>2, <3>3, <1>2
  <2> HIDE DEF T
  <2>3. Nat \subseteq T
    BY <2>1, <2>2, NatInduct
  <2> QED
    BY <2>3 DEF T
<1>6. ASSUME NEW i \in Index, NEW j \in Index, NEW k \in Index, k < i, k < j,
             <<i, k>> \in f[N], <<k, j>> \in f[N]
      PROVE  <<i, j>> \in f[N]
  <2>1. k \in 0..N /\ N \in k..N /\ k + 1 \in 1..N /\ (k + 1) - 1 = k /\ k + 1 \in 0..N /\ N \in (k + 1)..N
        /\ k <= k /\ N \in Nat
    BY DEF Index
  <2>2. <<i, k>> \in f[k] /\ <<k, j>> \in f[k]
    BY <2>1, <1>4, <1>6
  <2>3. <<i, j>> \in New(k + 1)
    BY <2>1, <2>2, <1>6 DEF Index
  <2>4. <<i, j>> \in f[k + 1]
    <3> HIDE DEF New
    <3> QED
      BY <2>1, <2>3, <1>2
  <2> QED
    BY <2>1, <2>4, <1>3
<1>7. f[0] \subseteq f[N] /\ N \in 0..N /\ N \in Nat
  BY <1>3
<1>8. f[N] \subseteq Pairs
  BY <1>2, <1>7
<1>9. ASSUME NEW i \in Index, NEW j \in Index
      PROVE  <<i, j>> \in f[N] <=>
               \/ <<i, j>> \in S \union Diagonal
               \/ \E k \in Index : k < i /\ k < j /\ <<i, k>> \in f[N] /\ <<k, j>> \in f[N]
  <2> HIDE DEF New
  <2>1. <<i, j>> \in S \union Diagonal => <<i, j>> \in f[N]
    BY <1>2, <1>7
  <2> QED
    BY <1>5, <1>6, <1>7, <2>1
<1> QED
  BY <1>1, <1>8, <1>9 DEF IsPattern

\* The stages of the transitive closure.
IsClosure(f, S) ==
  /\ f \in [0..N -> SUBSET Pairs]
  /\ f[0] = S \union Diagonal
  /\ \A k \in 1..N :
       f[k] = f[k - 1] \union {ij \in Index \X Index :
                                 <<ij[1], k - 1>> \in f[k - 1] /\ <<k - 1, ij[2]>> \in f[k - 1]}

\* Reach computes the last stage of a closure.
LEMMA ClosureExists ==
  ASSUME NEW S \in SUBSET Pairs
  PROVE  \E f : IsClosure(f, S) /\ Reach(S) = f[N]
<1> USE SizesAssumption
<1> DEFINE More(k, before) ==
             before \union {ij \in Index \X Index :
                              <<ij[1], k - 1>> \in before /\ <<k - 1, ij[2]>> \in before}
           D == SUBSET Pairs
           first == S \union Diagonal
           later == [k \in 1..N |-> [before \in D |-> More(k, before)]]
           Def(f) == [k \in 0..N |-> IF k = 0 THEN first ELSE More(k, f[k - 1])]
<1>1. IsStaged(N, D, first, later)
  BY DEF IsStaged, Pairs, Index, Diagonal
<1>2. PICK g \in [0..N -> D] : g[0] = first /\ \A k \in 1..N : g[k] = later[k][g[k - 1]]
  <2> HIDE DEF D, first, later
  <2> QED
    BY <1>1, StagedFunction
<1>3. \A k \in 1..N : k - 1 \in 0..N /\ g[k] = More(k, g[k - 1])
  <2> TAKE k \in 1..N
  <2>1. k - 1 \in 0..N
    OBVIOUS
  <2> HIDE DEF More, D
  <2> QED
    BY <1>2, <2>1
<1>4. \A k \in 0..N : k # 0 => k \in 1..N /\ k - 1 \in 0..N
  OBVIOUS
<1> HIDE DEF More, first
<1>5. g = Def(g)
  BY <1>2, <1>3, <1>4
<1> DEFINE f == CHOOSE h : h = Def(h)
<1>6. f = Def(f)
  <2> HIDE DEF Def
  <2> QED
    BY <1>5
<1>7. Reach(S) = f[N]
  BY DEF Reach, More, first
<1> HIDE DEF f
<1>8. f = g
  <2> DEFINE T == {k \in Nat : k \in 0..N => f[k] = g[k]}
  <2>1. 0 \in T
    BY <1>5, <1>6
  <2>2. ASSUME NEW k \in Nat, k \in T PROVE k + 1 \in T
    <3>1. k + 1 \in 0..N => f[k + 1] = More(k + 1, f[k]) /\ g[k + 1] = More(k + 1, g[k]) /\ f[k] = g[k]
      <4>1. (k + 1) - 1 = k /\ k + 1 # 0 /\ (k + 1 \in 0..N => k \in 0..N)
        OBVIOUS
      <4> QED
        BY <4>1, <2>2, <1>5, <1>6
    <3> QED
      BY <3>1
  <2> HIDE DEF T
  <2>3. Nat \subseteq T
    BY <2>1, <2>2, NatInduct
  <2>4. \A k \in 0..N : f[k] = g[k]
    BY <2>3 DEF T
  <2> QED
    BY <2>4, <1>5, <1>6
<1>9. IsClosure(g, S)
  BY <1>2, <1>3 DEF IsClosure, More, first
<1> QED
  BY <1>7, <1>8, <1>9

\* A stage of the closure joins over the species it lets lie between.
StageComposes(f, S, k) ==
  /\ f[k] \subseteq Pairs
  /\ S \union Diagonal \subseteq f[k]
  /\ \A i, m, j \in Index : m < k /\ <<i, m>> \in f[k] /\ <<m, j>> \in f[k] => <<i, j>> \in f[k]

\* Every stage does: each lets one species more lie between.
LEMMA StagesCompose ==
  ASSUME NEW S \in SUBSET Pairs, NEW f, IsClosure(f, S)
  PROVE  \A k \in 0..N : StageComposes(f, S, k)
<1> USE SizesAssumption
<1> DEFINE Through(k) == {ij \in Index \X Index : <<ij[1], k>> \in f[k] /\ <<k, ij[2]>> \in f[k]}
           T == {k \in Nat : k \in 0..N =>
                   /\ S \union Diagonal \subseteq f[k]
                   /\ \A i, m, j \in Index : m < k /\ <<i, m>> \in f[k] /\ <<m, j>> \in f[k] => <<i, j>> \in f[k]}
<1>2. 0 \in T
  BY DEF IsClosure, Index
<1>3. ASSUME NEW k \in Nat, k \in T PROVE k + 1 \in T
  <2> SUFFICES ASSUME k + 1 \in 0..N
               PROVE  /\ S \union Diagonal \subseteq f[k + 1]
                      /\ \A i, m, j \in Index :
                           m < k + 1 /\ <<i, m>> \in f[k + 1] /\ <<m, j>> \in f[k + 1] => <<i, j>> \in f[k + 1]
    OBVIOUS
  <2>1. k \in 0..N /\ k \in Index /\ k + 1 \in 1..N /\ (k + 1) - 1 = k
    BY DEF Index
  <2>2. f[k + 1] = f[k] \union Through(k)
    <3>1. f[k + 1] = f[k] \union {ij \in Index \X Index :
                                 <<ij[1], k>> \in f[k] /\ <<k, ij[2]>> \in f[k]}
      BY <2>1 DEF IsClosure
    <3> QED
      BY <3>1
  <2>3. /\ S \union Diagonal \subseteq f[k]
        /\ \A i, m, j \in Index : m < k /\ <<i, m>> \in f[k] /\ <<m, j>> \in f[k] => <<i, j>> \in f[k]
    BY <2>1, <1>3
  <2>4. <<k, k>> \in f[k]
    BY <2>1, <2>3 DEF Diagonal
  <2>5. \A i, j \in Index : <<i, j>> \in f[k + 1] <=> <<i, j>> \in f[k] \/ (<<i, k>> \in f[k] /\ <<k, j>> \in f[k])
    BY <2>2
  <2>6. ASSUME NEW i \in Index, NEW m \in Index, NEW j \in Index, m < k + 1,
               <<i, m>> \in f[k + 1], <<m, j>> \in f[k + 1]
        PROVE  <<i, j>> \in f[k + 1]
    <3>1. CASE m = k
      BY <3>1, <2>1, <2>4, <2>5, <2>6
    <3>2. CASE m < k
      <4>1. <<i, m>> \in f[k] \/ (<<i, k>> \in f[k] /\ <<k, m>> \in f[k])
        BY <2>5, <2>6
      <4>2. <<m, j>> \in f[k] \/ (<<m, k>> \in f[k] /\ <<k, j>> \in f[k])
        BY <2>5, <2>6
      <4> QED
        BY <4>1, <4>2, <3>2, <2>1, <2>3, <2>5
    <3> QED
      BY <2>6, <3>1, <3>2 DEF Index
  <2> HIDE DEF Through
  <2> QED
    BY <2>2, <2>3, <2>6
<1> HIDE DEF T
<1>4. Nat \subseteq T
  BY <1>2, <1>3, NatInduct
<1>5. \A k \in 0..N : k \in Nat /\ f[k] \subseteq Pairs
  BY DEF IsClosure
<1> QED
  BY <1>4, <1>5 DEF T, StageComposes

\* A set of pairs that is transitive over a structure and the diagonal.
IsTransitive(Q, S) ==
  /\ S \union Diagonal \subseteq Q
  /\ \A i, m, j \in Index : <<i, m>> \in Q /\ <<m, j>> \in Q => <<i, j>> \in Q

\* Reach is transitive: the last stage lets all species lie between.
LEMMA ReachIsTransitive ==
  ASSUME NEW S \in SUBSET Pairs
  PROVE  Reach(S) \subseteq Pairs /\ IsTransitive(Reach(S), S)
<1>1. PICK f : IsClosure(f, S) /\ Reach(S) = f[N]
  BY ClosureExists
<1>2. N \in 0..N /\ \A m \in Index : m < N
  BY IndexFacts, SizesAssumption
<1>3. StageComposes(f, S, N)
  BY <1>1, <1>2, StagesCompose
<1> QED
  BY <1>1, <1>2, <1>3 DEF StageComposes, IsTransitive

\* Reach is the least such set.
LEMMA ReachIsLeast ==
  ASSUME NEW S \in SUBSET Pairs, NEW Q, IsTransitive(Q, S)
  PROVE  Reach(S) \subseteq Q
<1>1. PICK f : IsClosure(f, S) /\ Reach(S) = f[N]
  BY ClosureExists
<1> DEFINE T == {k \in Nat : k \in 0..N => f[k] \subseteq Q}
<1>2. 0 \in T
  BY <1>1 DEF IsClosure, IsTransitive
<1>3. ASSUME NEW k \in Nat, k \in T PROVE k + 1 \in T
  <2> SUFFICES ASSUME k + 1 \in 0..N PROVE f[k + 1] \subseteq Q
    OBVIOUS
  <2>1. k \in 0..N /\ k \in Index /\ k + 1 \in 1..N /\ (k + 1) - 1 = k
    BY SizesAssumption DEF Index
  <2>2. f[k + 1] = f[k] \union {ij \in Index \X Index : <<ij[1], k>> \in f[k] /\ <<k, ij[2]>> \in f[k]}
    BY <2>1, <1>1 DEF IsClosure
  <2>3. f[k] \subseteq Q
    BY <2>1, <1>3
  <2>4. ASSUME NEW ij \in Index \X Index, <<ij[1], k>> \in f[k], <<k, ij[2]>> \in f[k] PROVE ij \in Q
    <3>1. ij[1] \in Index /\ ij[2] \in Index /\ ij = <<ij[1], ij[2]>>
      OBVIOUS
    <3>2. <<ij[1], k>> \in Q /\ <<k, ij[2]>> \in Q
      BY <2>3, <2>4
    <3>3. <<ij[1], ij[2]>> \in Q
      BY <2>1, <3>1, <3>2 DEF IsTransitive
    <3> QED
      BY <3>1, <3>3
  <2> QED
    BY <2>2, <2>3, <2>4
<1> HIDE DEF T
<1>4. N \in T /\ N \in 0..N
  BY <1>2, <1>3, NatInduct, SizesAssumption
<1> QED
  BY <1>1, <1>4 DEF T

\* The predicted pattern lies in every such set.
LEMMA PatternIsWithin ==
  ASSUME NEW S \in SUBSET Pairs, NEW Q, IsTransitive(Q, S)
  PROVE  PredictedPattern(S) \subseteq Q
<1> DEFINE R == PredictedPattern(S)
           T == {m \in Nat : \A i, j \in Index : (i < m \/ j < m) /\ <<i, j>> \in R => <<i, j>> \in Q}
<1>1. IsPattern(R, S)
  BY EliminationRule
<1> HIDE DEF R
<1>2. 0 \in T
  BY IndexFacts
<1>3. ASSUME NEW m \in Nat, m \in T PROVE m + 1 \in T
  <2> SUFFICES ASSUME NEW i \in Index, NEW j \in Index, i < m + 1 \/ j < m + 1, <<i, j>> \in R
               PROVE  <<i, j>> \in Q
    OBVIOUS
  <2>1. i \in Nat /\ j \in Nat
    BY IndexFacts
  <2>2. CASE <<i, j>> \in S \union Diagonal
    BY <2>2 DEF IsTransitive
  <2>3. CASE \E k \in Index : k < i /\ k < j /\ <<i, k>> \in R /\ <<k, j>> \in R
    <3>1. PICK k \in Index : k < i /\ k < j /\ <<i, k>> \in R /\ <<k, j>> \in R
      BY <2>3
    <3>2. k \in Nat /\ k < m
      BY <2>1, <3>1, IndexFacts
    <3>3. <<i, k>> \in Q /\ <<k, j>> \in Q
      BY <3>1, <3>2, <1>3
    <3> QED
      BY <3>3 DEF IsTransitive
  <2> QED
    BY <1>1, <2>2, <2>3 DEF IsPattern
<1> HIDE DEF T
<1>4. N \in T
  BY <1>2, <1>3, NatInduct, SizesAssumption
<1>5. R \subseteq Pairs
  BY <1>1 DEF IsPattern
<1>6. ASSUME NEW ij \in R PROVE ij \in Q
  <2>1. ij \in Pairs
    BY <1>5
  <2>2. ij[1] \in Index /\ ij[2] \in Index /\ ij = <<ij[1], ij[2]>>
    BY <2>1 DEF Pairs
  <2>3. ij[1] < N
    BY <2>2, IndexFacts
  <2>4. <<ij[1], ij[2]>> \in R
    BY <2>2
  <2>5. <<ij[1], ij[2]>> \in Q
    BY <1>4, <2>2, <2>3, <2>4 DEF T
  <2> QED
    BY <2>2, <2>5
<1> QED
  BY <1>6 DEF R

------------------------------------------------------------------------------
\* What the labels of the species have no say in.

\* J_perm[i, j] = J[permutation[i], permutation[j]].
Permuted(S, p) == {ij \in Index \X Index : <<p[ij[1]], p[ij[2]]>> \in S}

\* Blocks are independent if every coupling is one of a cycle: fill-in follows
\* couplings, so it leaves no component that these do not leave.
LEMMA IndependentMeansMutual ==
  ASSUME NEW S \in SUBSET Pairs
  PROVE  Independent(S, Components(S)) <=>
           \A i, j \in Index : <<i, j>> \in S => <<j, i>> \in Reach(S)
<1> DEFINE R == Reach(S)
           Q == {ij \in Pairs : <<ij[1], ij[2]>> \in R /\ <<ij[2], ij[1]>> \in R}
<1>1. R \subseteq Pairs /\ IsTransitive(R, S)
  BY ReachIsTransitive
<1>2. \A i, j \in Index : j \in Components(S)[i] <=> <<i, j>> \in R /\ <<j, i>> \in R
  BY DEF Components
<1>3. \A i, j \in Index : <<i, j>> \in S => <<i, j>> \in PredictedPattern(S)
  BY EliminationRule DEF IsPattern
<1>4. PredictedPattern(S) \subseteq Pairs
  BY EliminationRule DEF IsPattern
<1> HIDE DEF R
<1>5. ASSUME Independent(S, Components(S)), NEW i \in Index, NEW j \in Index, <<i, j>> \in S
      PROVE  <<j, i>> \in R
  <2>1. \A ij \in PredictedPattern(S) : ij[2] \in Components(S)[ij[1]]
    BY <1>5 DEF Independent
  <2>2. <<i, j>> \in PredictedPattern(S)
    BY <1>3, <1>5
  <2>3. j \in Components(S)[i]
    BY <2>1, <2>2
  <2> QED
    BY <1>2, <2>3
<1>6. ASSUME \A i, j \in Index : <<i, j>> \in S => <<j, i>> \in R
      PROVE  Independent(S, Components(S))
  <2>1. \A i, j \in Index : <<i, j>> \in Q <=> <<i, j>> \in R /\ <<j, i>> \in R
    BY DEF Pairs
  <2>2. S \union Diagonal \subseteq Q
    <3> SUFFICES ASSUME NEW ij \in S \union Diagonal PROVE ij \in Q
      OBVIOUS
    <3>1. ij[1] \in Index /\ ij[2] \in Index /\ ij = <<ij[1], ij[2]>> /\ ij \in Pairs
      BY DEF Diagonal, Pairs
    <3>2. <<ij[1], ij[2]>> \in R
      BY <3>1, <1>1 DEF IsTransitive
    <3>3. CASE ij \in S
      BY <3>1, <3>2, <3>3, <1>6
    <3>4. CASE ij \in Diagonal
      BY <3>1, <3>2, <3>4 DEF Diagonal
    <3> QED
      BY <3>3, <3>4
  <2>3. ASSUME NEW i \in Index, NEW m \in Index, NEW j \in Index, <<i, m>> \in Q, <<m, j>> \in Q
        PROVE  <<i, j>> \in Q
    <3>1. <<i, m>> \in R /\ <<m, i>> \in R /\ <<m, j>> \in R /\ <<j, m>> \in R
      BY <2>1, <2>3
    <3>2. <<i, j>> \in R /\ <<j, i>> \in R
      BY <3>1, <1>1 DEF IsTransitive
    <3> QED
      BY <2>1, <3>2
  <2> HIDE DEF Q
  <2>4. IsTransitive(Q, S)
    BY <2>2, <2>3 DEF IsTransitive
  <2>5. PredictedPattern(S) \subseteq Q
    BY <2>4, PatternIsWithin
  <2>6. ASSUME NEW ij \in PredictedPattern(S) PROVE ij[2] \in Components(S)[ij[1]]
    <3>1. ij \in Pairs /\ ij \in Q
      BY <1>4, <2>5
    <3>2. ij[1] \in Index /\ ij[2] \in Index /\ ij = <<ij[1], ij[2]>>
      BY <3>1 DEF Pairs
    <3>3. <<ij[1], ij[2]>> \in R /\ <<ij[2], ij[1]>> \in R
      BY <3>1, <3>2, <2>1
    <3> QED
      BY <1>2, <3>2, <3>3
  <2> QED
    BY <2>6 DEF Independent
<1> QED
  BY <1>5, <1>6 DEF R

\* A relabelling: each species under one label, and the label back.
IsRelabelling(p, q) ==
  /\ p \in [Index -> Index] /\ q \in [Index -> Index]
  /\ \A i \in Index : p[q[i]] = i /\ q[p[i]] = i

\* What is reached under other labels was reached before.
LEMMA ReachOfPermuted ==
  ASSUME NEW S \in SUBSET Pairs, NEW p, NEW q, IsRelabelling(p, q),
         NEW i \in Index, NEW j \in Index
  PROVE  <<i, j>> \in Reach(Permuted(S, p)) <=> <<p[i], p[j]>> \in Reach(S)
<1> DEFINE V == Permuted(S, p)
           Back == {ab \in Pairs : <<q[ab[1]], q[ab[2]]>> \in Reach(V)}
           Forth == {ab \in Pairs : <<p[ab[1]], p[ab[2]]>> \in Reach(S)}
<1>1. V \in SUBSET Pairs /\ \A a, b \in Index : <<a, b>> \in V <=> <<p[a], p[b]>> \in S
  BY DEF Permuted, Pairs
<1>2. IsTransitive(Reach(S), S)
  BY ReachIsTransitive
<1> HIDE DEF V
<1>3. IsTransitive(Reach(V), V)
  BY <1>1, ReachIsTransitive
<1>4. /\ \A a \in Index : p[a] \in Index /\ q[a] \in Index /\ p[q[a]] = a /\ q[p[a]] = a
      /\ \A a \in Index : <<a, a>> \in Diagonal
      /\ \A ab \in S \union V \union Diagonal :
           ab \in Pairs /\ ab[1] \in Index /\ ab[2] \in Index /\ ab = <<ab[1], ab[2]>>
      /\ \A ab \in Diagonal : ab[1] = ab[2]
  BY <1>1 DEF IsRelabelling, Diagonal, Pairs
<1>5. IsTransitive(Forth, V)
  <2>1. \A a, b \in Index : <<a, b>> \in Forth <=> <<p[a], p[b]>> \in Reach(S)
    BY DEF Pairs
  <2> HIDE DEF Forth
  <2>2. ASSUME NEW ab \in V \union Diagonal PROVE ab \in Forth
    <3>1. ab[1] \in Index /\ ab[2] \in Index /\ ab = <<ab[1], ab[2]>>
      BY <1>4
    <3>2. <<p[ab[1]], p[ab[2]]>> \in S \union Diagonal
      BY <3>1, <1>1, <1>4
    <3>3. <<p[ab[1]], p[ab[2]]>> \in Reach(S)
      BY <3>2, <1>2 DEF IsTransitive
    <3> QED
      BY <2>1, <3>1, <3>3
  <2>3. ASSUME NEW a \in Index, NEW m \in Index, NEW b \in Index, <<a, m>> \in Forth, <<m, b>> \in Forth
        PROVE  <<a, b>> \in Forth
    BY <2>1, <2>3, <1>2, <1>4 DEF IsTransitive
  <2> QED
    BY <2>2, <2>3 DEF IsTransitive
<1>6. IsTransitive(Back, S)
  <2>1. \A a, b \in Index : <<a, b>> \in Back <=> <<q[a], q[b]>> \in Reach(V)
    BY DEF Pairs
  <2> HIDE DEF Back
  <2>2. ASSUME NEW ab \in S \union Diagonal PROVE ab \in Back
    <3>1. ab[1] \in Index /\ ab[2] \in Index /\ ab = <<ab[1], ab[2]>>
      BY <1>4
    <3>2. <<q[ab[1]], q[ab[2]]>> \in V \union Diagonal
      BY <3>1, <1>1, <1>4
    <3>3. <<q[ab[1]], q[ab[2]]>> \in Reach(V)
      BY <3>2, <1>3 DEF IsTransitive
    <3> QED
      BY <2>1, <3>1, <3>3
  <2>3. ASSUME NEW a \in Index, NEW m \in Index, NEW b \in Index, <<a, m>> \in Back, <<m, b>> \in Back
        PROVE  <<a, b>> \in Back
    BY <2>1, <2>3, <1>3, <1>4 DEF IsTransitive
  <2> QED
    BY <2>2, <2>3 DEF IsTransitive
<1>7. Reach(V) \subseteq Forth
  <2> HIDE DEF Forth
  <2> QED
    BY <1>1, <1>5, ReachIsLeast
<1>8. Reach(S) \subseteq Back
  <2> HIDE DEF Back
  <2> QED
    BY <1>6, ReachIsLeast
<1>9. <<i, j>> \in Reach(V) => <<p[i], p[j]>> \in Reach(S)
  BY <1>7
<1>10. <<p[i], p[j]>> \in Reach(S) => <<q[p[i]], q[p[j]]>> \in Reach(V)
  BY <1>8
<1> QED
  BY <1>4, <1>9, <1>10 DEF V

\* The sparsity analysis looks for blocks, with the fill-in it predicts, under the
\* labels of the document, and the plan may be made under others: whether blocks are
\* factorized on their own comes out the same under all of them.
THEOREM BlocksIgnoreLabels ==
  ASSUME NEW S \in SUBSET (Index \X Index), NEW p \in Bijection(Index, Index)
  PROVE  Independent(Permuted(S, p), Components(Permuted(S, p)))
           <=> Independent(S, Components(S))
<1> DEFINE V == Permuted(S, p)
           q == [i \in Index |-> CHOOSE a \in Index : p[a] = i]
<1>1. S \in SUBSET Pairs /\ V \in SUBSET Pairs
  BY DEF Permuted, Pairs
<1>2. /\ p \in [Index -> Index]
      /\ \A a, b \in Index : p[a] = p[b] => a = b
      /\ \A i \in Index : \E a \in Index : p[a] = i
  BY DEF Bijection, Injection, Surjection, IsInjective
<1>3. IsRelabelling(p, q)
  <2>1. \A i \in Index : q[i] \in Index /\ p[q[i]] = i
    BY <1>2
  <2>2. q \in [Index -> Index]
    BY <2>1
  <2> HIDE DEF q
  <2>3. \A i \in Index : p[i] \in Index /\ q[p[i]] = i
    BY <1>2, <2>1
  <2> QED
    BY <1>2, <2>1, <2>2, <2>3 DEF IsRelabelling
<1>4. \A a, b \in Index : <<a, b>> \in V <=> <<p[a], p[b]>> \in S
  BY DEF Permuted
<1> HIDE DEF V, q
<1>5. \A a, b \in Index : <<a, b>> \in Reach(V) <=> <<p[a], p[b]>> \in Reach(S)
  <2> TAKE a, b \in Index
  <2>1. <<a, b>> \in Reach(Permuted(S, p)) <=> <<p[a], p[b]>> \in Reach(S)
    BY <1>1, <1>3, ReachOfPermuted
  <2> QED
    BY <2>1 DEF V
<1>6. (\A a, b \in Index : <<a, b>> \in V => <<b, a>> \in Reach(V))
        <=> (\A i, j \in Index : <<i, j>> \in S => <<j, i>> \in Reach(S))
  BY <1>2, <1>4, <1>5
<1> QED
  BY <1>1, <1>6, IndependentMeansMutual DEF V

\* Blocks divide the species and hold the pattern.
LEMMA BlocksDivide ==
  ASSUME NEW S \in SUBSET Pairs
  PROVE  /\ Blocks(S) \in [Index -> SUBSET Index]
         /\ \A i \in Index : i \in Blocks(S)[i]
         /\ \A i, j \in Index : j \in Blocks(S)[i] => Blocks(S)[j] = Blocks(S)[i]
         /\ \A ij \in PredictedPattern(S) : ij[2] \in Blocks(S)[ij[1]]
<1>1. CASE Independent(S, Components(S))
  <2> DEFINE R == Reach(S)
  <2>1. Blocks(S) = [i \in Index |-> {j \in Index : <<i, j>> \in R /\ <<j, i>> \in R}]
    BY <1>1 DEF Blocks, Components
  <2>2. /\ \A i \in Index : <<i, i>> \in R
        /\ \A i, m, j \in Index : <<i, m>> \in R /\ <<m, j>> \in R => <<i, j>> \in R
    BY ReachIsTransitive DEF IsTransitive, Diagonal
  <2>3. \A ij \in PredictedPattern(S) : ij[2] \in Blocks(S)[ij[1]]
    BY <1>1 DEF Independent, Blocks
  <2> HIDE DEF R
  <2>4. /\ Blocks(S) \in [Index -> SUBSET Index]
        /\ \A i \in Index : i \in Blocks(S)[i]
    BY <2>1, <2>2
  <2>5. ASSUME NEW i \in Index, NEW j \in Index, j \in Blocks(S)[i]
        PROVE  Blocks(S)[j] = Blocks(S)[i]
    <3>1. <<i, j>> \in R /\ <<j, i>> \in R
      BY <2>1, <2>5
    <3>2. \A k \in Index : <<i, k>> \in R /\ <<k, i>> \in R <=> <<j, k>> \in R /\ <<k, j>> \in R
      BY <2>2, <3>1
    <3> QED
      BY <2>1, <3>2
  <2> QED
    BY <2>3, <2>4, <2>5
<1>2. CASE ~Independent(S, Components(S))
  <2>1. Blocks(S) = [i \in Index |-> Index]
    BY <1>2 DEF Blocks
  <2>2. PredictedPattern(S) \subseteq Pairs
    BY EliminationRule DEF IsPattern
  <2> QED
    BY <2>1, <2>2 DEF Pairs
<1> QED
  BY <1>1, <1>2

------------------------------------------------------------------------------
\* Orders and listings.

\* A strict total order.
IsOrder(R, S) ==
  /\ \A x \in S : <<x, x>> \notin R
  /\ \A x, y, z \in S : <<x, y>> \in R /\ <<y, z>> \in R => <<x, z>> \in R
  /\ \A x, y \in S : x = y \/ <<x, y>> \in R \/ <<y, x>> \in R

\* A listing of S in the order R: every member has its place.
IsListing(s, R, S) ==
  /\ s \in [1..Cardinality(S) -> S]
  /\ \A x \in S : \E n \in 1..Cardinality(S) : s[n] = x
  /\ \A m, n \in 1..Cardinality(S) : m < n => <<s[m], s[n]>> \in R

\* Sorted lists a finite set in the order it is given.
LEMMA SortedIsListing ==
  ASSUME NEW S, IsFiniteSet(S), NEW R, IsOrder(R, S)
  PROVE  IsListing(Sorted(S, R), R, S)
<1> DEFINE below(x) == {y \in S : <<y, x>> \in R}
           c == Cardinality(S)
           rank == [x \in S |-> Cardinality(below(x)) + 1]
           s == Sorted(S, R)
<1>1. c \in Nat
  BY FS_CardinalityType
<1>2. ASSUME NEW x \in S PROVE rank[x] \in 1..c
  <2>1. below(x) \subseteq S \ {x}
    BY DEF IsOrder
  <2>2. IsFiniteSet(S \ {x}) /\ Cardinality(S \ {x}) = c - 1
    BY FS_RemoveElement
  <2>3. IsFiniteSet(below(x)) /\ Cardinality(below(x)) <= c - 1
    <3> HIDE DEF below
    <3> QED
      BY <2>1, <2>2, FS_Subset
  <2>4. Cardinality(below(x)) \in Nat
    BY <2>3, FS_CardinalityType
  <2> HIDE DEF below, c
  <2> QED
    BY <1>1, <2>3, <2>4
<1>3. ASSUME NEW x \in S, NEW y \in S, <<x, y>> \in R PROVE rank[x] < rank[y]
  <2>1. below(x) \union {x} \subseteq below(y) /\ x \notin below(x) /\ below(y) \subseteq S
    BY <1>3 DEF IsOrder
  <2>2. IsFiniteSet(below(y)) /\ IsFiniteSet(below(x))
    BY FS_Subset
  <2>3. Cardinality(below(x) \union {x}) = Cardinality(below(x)) + 1
    BY <2>1, <2>2, FS_AddElement
  <2>4. Cardinality(below(x) \union {x}) <= Cardinality(below(y))
    BY <2>1, <2>2, FS_Subset
  <2>5. Cardinality(below(x)) \in Nat /\ Cardinality(below(y)) \in Nat
    BY <2>2, FS_CardinalityType
  <2> HIDE DEF below
  <2> QED
    BY <2>3, <2>4, <2>5
<1> HIDE DEF rank
<1>t. \A x, y \in S : x # y => rank[x] < rank[y] \/ rank[y] < rank[x]
  <2>1. \A x, y \in S : x = y \/ <<x, y>> \in R \/ <<y, x>> \in R
    BY DEF IsOrder
  <2> QED
    BY <1>3, <2>1
<1>4. \A n \in 1..c : \E x \in S : rank[x] = n
  <2>1. rank \in [S -> 1..c]
    BY <1>2 DEF rank
  <2>2. \A x, y \in S : rank[x] = rank[y] => x = y
    <3> HIDE DEF below, c
    <3>1. \A x \in S : rank[x] \in Int
      BY <1>2
    <3> QED
      BY <1>t, <3>1
  <2>3. rank \in Injection(S, 1..c)
    <3> HIDE DEF rank
    <3> QED
      BY <2>1, <2>2 DEF Injection, IsInjective
  <2>4. IsFiniteSet(1..c) /\ Cardinality(1..c) = c
    <3> HIDE DEF c
    <3> QED
      BY <1>1, FS_Interval
  <2>5. rank \in Surjection(S, 1..c)
    <3> HIDE DEF rank
    <3> QED
      BY <2>3, <2>4, FS_Injection
  <2> HIDE DEF rank
  <2> QED
    BY <2>5 DEF Surjection
<1>5. s = [n \in 1..c |-> CHOOSE x \in S : Cardinality(below(x)) = n - 1]
  BY DEF Sorted
<1>6. \A n \in 1..c : s[n] \in S /\ rank[s[n]] = n
  <2> TAKE n \in 1..c
  <2>1. PICK x \in S : rank[x] = n
    BY <1>4
  <2>2. Cardinality(below(x)) = n - 1
    <3>1. IsFiniteSet(below(x))
      BY FS_Subset
    <3>2. Cardinality(below(x)) \in Nat
      BY <3>1, FS_CardinalityType
    <3>3. rank[x] = Cardinality(below(x)) + 1
      BY DEF rank
    <3> HIDE DEF below
    <3> QED
      BY <2>1, <3>2, <3>3
  <2>3. s[n] = CHOOSE z \in S : Cardinality(below(z)) = n - 1
    <3> HIDE DEF s, below
    <3> QED
      BY <1>5
  <2>4. s[n] \in S /\ Cardinality(below(s[n])) = n - 1
    <3> HIDE DEF s, below
    <3> QED
      BY <2>2, <2>3
  <2>5. rank[s[n]] = (n - 1) + 1
    <3> HIDE DEF s, below
    <3> QED
      BY <2>4 DEF rank
  <2> QED
    BY <2>4, <2>5
<1>7. DOMAIN s = 1..c /\ s \in [1..c -> S]
  <2> HIDE DEF s, below
  <2> QED
    BY <1>5, <1>6
<1>8. \A x \in S : \E n \in 1..c : s[n] = x
  <2> TAKE x \in S
  <2>1. rank[x] \in 1..c /\ rank[s[rank[x]]] = rank[x] /\ s[rank[x]] \in S
    BY <1>2, <1>6
  <2>2. s[rank[x]] = x
    <3>1. rank[x] \in Int
      BY <2>1
    <3> HIDE DEF s, below, c
    <3> QED
      BY <1>t, <2>1, <3>1
  <2> HIDE DEF rank, s
  <2> QED
    BY <2>1, <2>2
<1>9. \A m, n \in 1..c : m < n => <<s[m], s[n]>> \in R
  <2> TAKE m, n \in 1..c
  <2> HAVE m < n
  <2>1. s[m] \in S /\ s[n] \in S /\ rank[s[m]] = m /\ rank[s[n]] = n
    BY <1>6
  <2>2. ~(rank[s[n]] < rank[s[m]]) /\ s[m] # s[n]
    <3> HIDE DEF s
    <3> QED
      BY <2>1
  <2>3. \A x, y \in S : x = y \/ <<x, y>> \in R \/ <<y, x>> \in R
    BY DEF IsOrder
  <2> HIDE DEF s
  <2> QED
    BY <2>1, <2>2, <2>3, <1>3
<1>10. IsListing(s, R, S)
  <2> HIDE DEF s
  <2> QED
    BY <1>7, <1>8, <1>9 DEF IsListing
<1> QED
  BY <1>10

\* The listing of a set of natural numbers in ascending order.
LEMMA AscendingLists ==
  ASSUME NEW S, S \subseteq Nat, IsFiniteSet(S)
  PROVE  /\ Ascending(S) \in Seq(S)
         /\ Len(Ascending(S)) = Cardinality(S) /\ Cardinality(S) \in Nat
         /\ \A x \in S : \E n \in 1..Len(Ascending(S)) : Ascending(S)[n] = x
         /\ \A n \in 1..Len(Ascending(S)) : Ascending(S)[n] \in S
         /\ \A m, n \in 1..Len(Ascending(S)) : m < n => Ascending(S)[m] < Ascending(S)[n]
<1> DEFINE R == {ab \in S \X S : ab[1] < ab[2]}
<1>1. IsOrder(R, S)
  BY DEF IsOrder
<1>2. IsListing(Ascending(S), R, S)
  <2> HIDE DEF R
  <2>1. IsListing(Sorted(S, R), R, S)
    BY <1>1, SortedIsListing
  <2> QED
    BY <2>1 DEF Ascending, R
<1>3. Cardinality(S) \in Nat
  BY FS_CardinalityType
<1> DEFINE s == Ascending(S)
<1> HIDE DEF s
<1>4. IsListing(s, R, S)
  BY <1>2 DEF s
<1>5. s \in Seq(S) /\ Len(s) = Cardinality(S)
  BY <1>3, <1>4 DEF IsListing
<1> QED
  BY <1>3, <1>4, <1>5 DEF IsListing, s

\* A set of indices that is not empty has its least member as its Min.
LEMMA LeastMember ==
  ASSUME NEW S, S \subseteq Nat, S # {}
  PROVE  Min(S) \in S /\ \A x \in S : Min(S) <= x
<1>1. \E x \in S : \A y \in S : x <= y
  BY Least
<1> QED
  BY <1>1 DEF Min

\* Every species is a pivot once, and those of a block come in ascending order.
LEMMA PivotsListed ==
  ASSUME NEW blocks \in [Index -> SUBSET Index], \A i \in Index : i \in blocks[i],
         \A i, j \in Index : j \in blocks[i] => blocks[j] = blocks[i]
  PROVE  /\ PivotOrder(blocks) \in Seq(Index)
         /\ Len(PivotOrder(blocks)) = N
         /\ \A x \in Index : \E n \in 1..N : PivotOrder(blocks)[n] = x
         /\ \A m, n \in 1..N : m # n => PivotOrder(blocks)[m] # PivotOrder(blocks)[n]
         /\ \A m, n \in 1..N : m < n /\ PivotOrder(blocks)[n] \in blocks[PivotOrder(blocks)[m]]
              => PivotOrder(blocks)[m] < PivotOrder(blocks)[n]
<1> DEFINE least(i) == Min(blocks[i])
           R == {ij \in Index \X Index : \/ least(ij[1]) < least(ij[2])
                                         \/ least(ij[1]) = least(ij[2]) /\ ij[1] < ij[2]}
           s == PivotOrder(blocks)
<1>1. \A i \in Index : least(i) \in Nat /\ i \in Nat
  <2> TAKE i \in Index
  <2>1. blocks[i] \subseteq Nat /\ blocks[i] # {}
    BY IndexFacts
  <2> QED
    BY <2>1, LeastMember, IndexFacts
<1>2. \A i, j \in Index : <<i, j>> \in R <=> (least(i) < least(j) \/ (least(i) = least(j) /\ i < j))
  <2> HIDE DEF least
  <2> QED
    OBVIOUS
<1>3. \A i, j \in Index : j \in blocks[i] => least(j) = least(i)
  OBVIOUS
<1>4. IsListing(s, R, Index)
  <2>1. IsOrder(R, Index)
    <3> HIDE DEF R, least
    <3> QED
      BY <1>1, <1>2 DEF IsOrder
  <2> HIDE DEF R
  <2>2. IsListing(Sorted(Index, R), R, Index)
    BY <2>1, SortedIsListing, IndexFacts
  <2> QED
    BY <2>2 DEF PivotOrder, R
<1>5. Cardinality(Index) = N /\ N \in Nat
  BY IndexFacts, SizesAssumption
<1> HIDE DEF s, R, least
<1>6. s \in [1..N -> Index] /\ \A x \in Index : \E n \in 1..N : s[n] = x
  BY <1>4, <1>5 DEF IsListing
<1>7. \A m, n \in 1..N : m < n => <<s[m], s[n]>> \in R
  BY <1>4, <1>5 DEF IsListing
<1>8. ASSUME NEW m \in 1..N, NEW n \in 1..N, m < n
      PROVE  s[m] # s[n] /\ (s[n] \in blocks[s[m]] => s[m] < s[n])
  <2>1. s[m] \in Index /\ s[n] \in Index /\ <<s[m], s[n]>> \in R
    BY <1>6, <1>7, <1>8
  <2> QED
    BY <2>1, <1>1, <1>2, <1>3
<1>9. \A m, n \in 1..N : m # n => m < n \/ n < m
  BY <1>5
<1>10. s \in Seq(Index) /\ Len(s) = N
  BY <1>5, <1>6
<1> QED
  BY <1>6, <1>8, <1>9, <1>10 DEF s

------------------------------------------------------------------------------
\* The invariant of planning.

\* The pivots already planned.
Planned == Index \ {todo[n] : n \in 1..Len(todo)}

\* The types of what planning leaves behind.
PlanTypeOK ==
  /\ structure \subseteq (Index \X Index) \ Diagonal
  /\ block \in [Index -> SUBSET Index]
  /\ todo \in Seq(Index)
  /\ nzL \subseteq {ij \in Index \X Index : ij[1] > ij[2]}
  /\ nzU \subseteq {ij \in Index \X Index : ij[1] <= ij[2]}
  /\ fillIn \in Nat
  /\ code \in Seq(Entries)

\* Blocks divide the species; the pivots left are each there once, ascending
\* within a block, so a planned pivot has all lesser ones of its block behind it.
PivotInv ==
  /\ block = Blocks(structure)
  /\ \A i \in Index : i \in block[i]
  /\ \A i, j \in Index : j \in block[i] => block[j] = block[i]
  /\ \A m, n \in 1..Len(todo) : m # n => todo[m] # todo[n]
  /\ \A m, n \in 1..Len(todo) : m < n /\ todo[n] \in block[todo[m]] => todo[m] < todo[n]
  /\ \A d \in Planned : \A k \in block[d] : k < d => k \in Planned

\* What puts an entry into the row of U or the column of L of a pivot: products
\* of lesser species of its block, which planning has dealt with.
EntersU(i, j) == InW(i, j) \/ \E k \in block[i] : k < i /\ <<i, k>> \in nzL /\ <<k, j>> \in nzU
EntersL(i, j) == InW(i, j) \/ \E k \in block[j] : k < j /\ <<i, k>> \in nzL /\ <<k, j>> \in nzU

\* The patterns are complete in the rows and columns of planned pivots, and empty
\* in the others.
PatternInv ==
  /\ \A i \in Planned : \A j \in Index :
       /\ <<i, j>> \in nzU <=> j \in block[i] /\ j >= i /\ EntersU(i, j)
       /\ <<j, i>> \in nzL <=> j \in block[i] /\ j > i /\ EntersL(j, i)
  /\ \A i \in Index \ Planned : \A j \in Index : <<i, j>> \notin nzU /\ <<j, i>> \notin nzL

\* Every entry of the pattern has its assignment, every assignment its entry, and
\* it subtracts the products of that entry, none of which is planned later.
CodeInv ==
  /\ \A n \in 1..Len(code) :
       /\ code[n].inW = InW(code[n].row, code[n].col)
       /\ code[n].kind = "U" => /\ <<code[n].row, code[n].col>> \in nzU
                                /\ code[n].products = Products(code[n].row, code[n].col, code[n].row)
       /\ code[n].kind = "L" => /\ <<code[n].row, code[n].col>> \in nzL
                                /\ code[n].products = Products(code[n].row, code[n].col, code[n].col)
  /\ \A i, j \in Index : <<i, j>> \in nzU => \E n \in 1..Len(code) : Target(code[n]) = <<"U", i, j>>
  /\ \A i, j \in Index : <<i, j>> \in nzL => \E n \in 1..Len(code) : Target(code[n]) = <<"L", i, j>>

\* fill_in_count is the number of entries that are not in W.
CountInv == fillIn = Cardinality({ij \in nzL \union nzU : ~InW(ij[1], ij[2])})

\* The invariant of planning.
PlanInv == PlanTypeOK /\ PivotInv /\ PatternInv /\ CodeInv /\ ReadsFollowWrites /\ CountInv

\* Planning starts with nothing planned.
LEMMA PlanInvInit == Init => PlanInv
<1> SUFFICES ASSUME Init PROVE PlanInv
  OBVIOUS
<1> USE DEF Init
<1>1. structure \in SUBSET Pairs /\ structure \subseteq (Index \X Index) \ Diagonal
  BY DEF Pairs
<1>2. /\ block \in [Index -> SUBSET Index]
      /\ \A i \in Index : i \in block[i]
      /\ \A i, j \in Index : j \in block[i] => block[j] = block[i]
  BY <1>1, BlocksDivide
<1>3. /\ todo \in Seq(Index)
      /\ Len(todo) = N
      /\ \A x \in Index : \E n \in 1..N : todo[n] = x
      /\ \A m, n \in 1..N : m # n => todo[m] # todo[n]
      /\ \A m, n \in 1..N : m < n /\ todo[n] \in block[todo[m]] => todo[m] < todo[n]
  BY <1>2, PivotsListed
<1>4. Planned = {}
  BY <1>3 DEF Planned
<1>5. PlanTypeOK
  BY <1>1, <1>2, <1>3 DEF PlanTypeOK, Entries
<1>6. PivotInv
  BY <1>2, <1>3, <1>4 DEF PivotInv
<1>7. PatternInv
  BY <1>4 DEF PatternInv
<1>8. CodeInv
  BY DEF CodeInv
<1>9. ReadsFollowWrites
  BY DEF ReadsFollowWrites
<1>10. CountInv
  BY FS_EmptySet DEF CountInv
<1> QED
  BY <1>5, <1>6, <1>7, <1>8, <1>9, <1>10 DEF PlanInv

\* A sequence joined of three.
IsJoined(s, a, b, c, T) == a \in Seq(T) /\ b \in Seq(T) /\ c \in Seq(T) /\ s = a \o (b \o c)

\* What such a sequence looks like.
HasParts(s, a, b, c, T) ==
  /\ s \in Seq(T)
  /\ Len(s) = Len(a) + Len(b) + Len(c)
  /\ \A n \in 1..Len(a) : s[n] = a[n]
  /\ \A n \in 1..Len(b) : s[Len(a) + n] = b[n]
  /\ \A n \in 1..Len(c) : s[Len(a) + Len(b) + n] = c[n]
  /\ \A n \in 1..Len(s) :
       \/ n \in 1..Len(a)
       \/ \E m \in 1..Len(b) : n = Len(a) + m
       \/ \E m \in 1..Len(c) : n = Len(a) + Len(b) + m

\* A sequence joined of three has the members of each in their places.
LEMMA Concatenation ==
  ASSUME NEW T, NEW a, NEW b, NEW c, NEW s, IsJoined(s, a, b, c, T)
  PROVE  HasParts(s, a, b, c, T)
<1> USE DEF IsJoined
<1> DEFINE d == b \o c
<1>0. Len(a) \in Nat /\ Len(b) \in Nat /\ Len(c) \in Nat
  OBVIOUS
<1>1. /\ d \in Seq(T) /\ Len(d) = Len(b) + Len(c)
      /\ \A n \in 1..Len(d) : d[n] = IF n <= Len(b) THEN b[n] ELSE c[n - Len(b)]
  OBVIOUS
<1> HIDE DEF d
<1>e. s = a \o d
  BY DEF d
<1>2. /\ s \in Seq(T) /\ Len(s) = Len(a) + Len(d)
      /\ \A n \in 1..Len(s) : s[n] = IF n <= Len(a) THEN a[n] ELSE d[n - Len(a)]
  <2>1. d \in Seq(T) /\ Len(d) \in Nat
    BY <1>1
  <2>2. s \in Seq(T) /\ Len(s) = Len(a) + Len(d)
    BY <2>1, <1>e
  <2>3. \A n \in 1..(Len(a) + Len(d)) : s[n] = IF n <= Len(a) THEN a[n] ELSE d[n - Len(a)]
    BY <2>1, <1>e
  <2> QED
    BY <2>2, <2>3
<1>3. Len(s) = Len(a) + Len(b) + Len(c)
  BY <1>0, <1>1, <1>2
<1>4. \A n \in 1..Len(a) : s[n] = a[n]
  BY <1>0, <1>2, <1>3
<1>5. ASSUME NEW n \in 1..Len(b) PROVE s[Len(a) + n] = b[n]
  <2>1. /\ Len(a) + n \in 1..Len(s) /\ ~(Len(a) + n <= Len(a)) /\ (Len(a) + n) - Len(a) = n
        /\ n \in 1..Len(d) /\ n <= Len(b)
    BY <1>0, <1>1, <1>3
  <2> QED
    BY <2>1, <1>1, <1>2
<1>6. ASSUME NEW n \in 1..Len(c) PROVE s[Len(a) + Len(b) + n] = c[n]
  <2> DEFINE m == Len(b) + n
  <2>1. /\ m \in 1..Len(d) /\ ~(m <= Len(b)) /\ m - Len(b) = n
        /\ Len(a) + Len(b) + n = Len(a) + m
        /\ Len(a) + m \in 1..Len(s) /\ ~(Len(a) + m <= Len(a)) /\ (Len(a) + m) - Len(a) = m
    BY <1>0, <1>1, <1>3
  <2> HIDE DEF m
  <2> QED
    BY <2>1, <1>1, <1>2
<1>7. ASSUME NEW n \in 1..Len(s)
      PROVE  \/ n \in 1..Len(a)
             \/ \E m \in 1..Len(b) : n = Len(a) + m
             \/ \E m \in 1..Len(c) : n = Len(a) + Len(b) + m
  <2>1. CASE n <= Len(a)
    BY <2>1, <1>0
  <2>2. CASE n > Len(a) /\ n <= Len(a) + Len(b)
    <3>1. n - Len(a) \in 1..Len(b) /\ n = Len(a) + (n - Len(a))
      BY <2>2, <1>0
    <3> QED
      BY <3>1
  <2>3. CASE n > Len(a) + Len(b)
    <3>1. n - (Len(a) + Len(b)) \in 1..Len(c) /\ n = Len(a) + Len(b) + (n - (Len(a) + Len(b)))
      BY <2>3, <1>0, <1>3
    <3> QED
      BY <3>1
  <2> QED
    BY <2>1, <2>2, <2>3, <1>0, <1>3
<1> QED
  BY <1>2, <1>3, <1>4, <1>5, <1>6, <1>7 DEF HasParts

------------------------------------------------------------------------------
\* A pivot is planned.

\* The cardinality of a union of two sets apart.
LEMMA DisjointUnion ==
  ASSUME NEW S, NEW T, IsFiniteSet(S), IsFiniteSet(T), S \intersect T = {}
  PROVE  IsFiniteSet(S \union T) /\ Cardinality(S \union T) = Cardinality(S) + Cardinality(T)
<1>1. Cardinality(S) \in Nat /\ Cardinality(T) \in Nat /\ Cardinality({}) = 0
  BY FS_CardinalityType, FS_EmptySet
<1>2. /\ IsFiniteSet(S \union T)
      /\ Cardinality(S \union T) = Cardinality(S) + Cardinality(T) - Cardinality(S \intersect T)
  BY FS_Union
<1>3. Cardinality(S \intersect T) = 0
  BY <1>1
<1> QED
  BY <1>1, <1>2, <1>3

\* Planning a pivot, with its row of U and its column of L, keeps the invariant
\* of the plan.
LEMMA PlanInvStep ==
  ASSUME PlanInv, PlanPivot
  PROVE  PlanInv'
<1>i. PICK i : i = Head(todo)
  OBVIOUS
<1> DEFINE cols == {j \in Columns(i) : Enters(i, j, i)}
           rows == {j \in Rows(i) : Enters(j, i, i)}
           us   == Ascending(cols)
           ls   == Ascending(rows)
           codeU == [n \in 1..Len(us) |-> Entry("U", i, us[n], i)]
           codeL == [n \in 1..Len(ls) |-> Entry("L", ls[n], i, i)]
<1>0. /\ todo # <<>>
      /\ nzU' = nzU \union {<<i, j>> : j \in cols}
      /\ nzL' = nzL \union {<<j, i>> : j \in rows}
      /\ fillIn' = fillIn + Cardinality({j \in cols : ~InW(i, j)})
                          + Cardinality({j \in rows : ~InW(j, i)})
      /\ code' = code \o (codeU \o codeL)
      /\ todo' = Tail(todo)
      /\ UNCHANGED <<structure, block>>
  BY <1>i DEF PlanPivot, Emitted
<1>t. PlanTypeOK /\ PivotInv /\ PatternInv /\ CodeInv /\ ReadsFollowWrites /\ CountInv
  BY DEF PlanInv
<1>b. /\ block \in [Index -> SUBSET Index]
      /\ \A j \in Index : j \in block[j]
      /\ \A j, k \in Index : k \in block[j] => block[k] = block[j]
  BY <1>t DEF PlanTypeOK, PivotInv
<1>nat. Index \subseteq Nat
  BY IndexFacts
<1>1. /\ todo \in Seq(Index) /\ todo' \in Seq(Index) /\ Len(todo) \in Nat \ {0}
      /\ i = todo[1] /\ i \in Index /\ Len(todo') = Len(todo) - 1
      /\ \A n \in 1..Len(todo') : todo'[n] = todo[n + 1] /\ n + 1 \in 1..Len(todo)
  BY <1>t, <1>0, <1>i DEF PlanTypeOK
<1>2. i \notin Planned /\ Planned' = Planned \union {i} /\ Planned \subseteq Index
  <2>1. 1 \in 1..Len(todo)
    BY <1>1
  <2>2. i \notin Planned
    BY <2>1, <1>1 DEF Planned
  <2>3. {todo[n] : n \in 1..Len(todo)} = {i} \union {todo'[n] : n \in 1..Len(todo')}
    <3>1. \A n \in 1..Len(todo) : n = 1 \/ (n - 1 \in 1..Len(todo') /\ todo'[n - 1] = todo[n])
      BY <1>1
    <3> QED
      BY <3>1, <2>1, <1>1
  <2>4. \A n \in 1..Len(todo') : todo'[n] # i
    BY <1>1, <1>t, <2>1 DEF PivotInv
  <2> QED
    BY <2>2, <2>3, <2>4, <1>1 DEF Planned
<1>3. \A d \in Planned' : d \in Index /\ \A k \in block[d] : k < d => k # i /\ k \in Planned
  <2>1. \A d \in Planned : \A k \in block[d] : k < d => k \in Planned
    BY <1>t DEF PivotInv
  <2>2. ASSUME NEW k \in block[i], k < i PROVE k # i /\ k \in Planned
    <3>0. k \in Index /\ k # i
      BY <1>b, <1>1, <1>nat, <2>2
    <3>1. ASSUME k \notin Planned PROVE FALSE
      <4>1. PICK n \in 1..Len(todo) : todo[n] = k
        BY <3>0, <3>1 DEF Planned
      <4>2. 1 \in 1..Len(todo) /\ 1 < n
        BY <4>1, <3>0, <1>1
      <4>3. i < k
        BY <4>1, <4>2, <1>1, <1>t, <2>2 DEF PivotInv
      <4> QED
        BY <4>3, <2>2, <3>0, <1>1, <1>nat
    <3> QED
      BY <3>0, <3>1
  <2> QED
    BY <2>1, <2>2, <1>1, <1>2
<1>4. /\ cols \subseteq Index
      /\ \A j \in Index : j \in cols <=> j \in block[i] /\ j >= i /\ EntersU(i, j)
  <2>1. \A j \in Index : Enters(i, j, i) <=> EntersU(i, j)
    BY DEF Enters, EntersU, Products
  <2> QED
    BY <2>1, <1>b, <1>1 DEF Columns
<1>5. /\ rows \subseteq Index
      /\ \A j \in Index : j \in rows <=> j \in block[i] /\ j > i /\ EntersL(j, i)
  <2>1. \A j \in block[i] : Enters(j, i, i) <=> EntersL(j, i)
    <3> TAKE j \in block[i]
    <3>1. block[j] = block[i]
      BY <1>b, <1>1
    <3> QED
      BY <3>1 DEF Enters, EntersL, Products
  <2> QED
    BY <2>1, <1>b, <1>1 DEF Rows
<1> HIDE DEF cols, rows
<1>6. \A x, k \in Index : /\ <<k, x>> \in nzU' <=> <<k, x>> \in nzU \/ (k = i /\ x \in cols)
                          /\ <<x, k>> \in nzL' <=> <<x, k>> \in nzL \/ (k = i /\ x \in rows)
  BY <1>0
<1>7. \A x, y \in Index : InW(x, y)' <=> InW(x, y)
  BY <1>0 DEF InW
<1>8. ASSUME NEW d \in Planned', NEW j \in Index
      PROVE  /\ EntersU(d, j)' <=> EntersU(d, j)
             /\ EntersL(j, d)' <=> EntersL(j, d)
             /\ j \in block[d] => /\ Products(d, j, d)' = Products(d, j, d)
                                  /\ Products(j, d, d)' = Products(j, d, d)
  <2>1. d \in Index /\ block[d] \subseteq Index
    BY <1>3, <1>b
  <2>2. \A k \in block[d] : \A x \in Index : k < d =>
          /\ <<x, k>> \in nzL' <=> <<x, k>> \in nzL
          /\ <<k, x>> \in nzU' <=> <<k, x>> \in nzU
    BY <1>3, <1>6, <2>1
  <2>3. EntersU(d, j)' <=> EntersU(d, j)
    BY <2>1, <2>2, <1>0, <1>7 DEF EntersU
  <2>4. EntersL(j, d)' <=> EntersL(j, d)
    BY <2>1, <2>2, <1>0, <1>7 DEF EntersL
  <2>5. Products(d, j, d)' = Products(d, j, d)
    BY <2>1, <2>2, <1>0 DEF Products
  <2>6. j \in block[d] => Products(j, d, d)' = Products(j, d, d)
    <3>1. j \in block[d] => block[j] = block[d]
      BY <1>b, <2>1
    <3> QED
      BY <3>1, <2>1, <2>2, <1>0 DEF Products
  <2> QED
    BY <2>3, <2>4, <2>5, <2>6
<1>9. /\ nzL' \subseteq {ij \in Index \X Index : ij[1] > ij[2]}
      /\ nzU' \subseteq {ij \in Index \X Index : ij[1] <= ij[2]}
  <2>1. \A j \in cols : j \in Index /\ i <= j
    BY <1>1, <1>4, <1>nat
  <2>2. \A j \in rows : j \in Index /\ j > i
    BY <1>1, <1>5, <1>nat
  <2> QED
    BY <2>1, <2>2, <1>0, <1>1, <1>t DEF PlanTypeOK
<1>10. PivotInv'
  <2>1. \A m, n \in 1..Len(todo') : m # n => todo'[m] # todo'[n]
    <3> TAKE m, n \in 1..Len(todo')
    <3>1. /\ todo'[m] = todo[m + 1] /\ m + 1 \in 1..Len(todo)
          /\ todo'[n] = todo[n + 1] /\ n + 1 \in 1..Len(todo)
      BY <1>1
    <3>2. m # n => m + 1 # n + 1
      OBVIOUS
    <3> QED
      BY <3>1, <3>2, <1>t DEF PivotInv
  <2>2. \A m, n \in 1..Len(todo') : m < n /\ todo'[n] \in block[todo'[m]] => todo'[m] < todo'[n]
    <3> TAKE m, n \in 1..Len(todo')
    <3>1. /\ todo'[m] = todo[m + 1] /\ m + 1 \in 1..Len(todo)
          /\ todo'[n] = todo[n + 1] /\ n + 1 \in 1..Len(todo)
      BY <1>1
    <3>2. m < n => m + 1 < n + 1
      OBVIOUS
    <3> QED
      BY <3>1, <3>2, <1>t DEF PivotInv
  <2>3. block' = Blocks(structure)'
    BY <1>t, <1>0 DEF PivotInv
  <2>4. \A d \in Planned' : \A k \in block[d] : k < d => k \in Planned'
    BY <1>2, <1>3
  <2> QED
    BY <2>1, <2>2, <2>3, <2>4, <1>0, <1>b DEF PivotInv
<1>11. PatternInv'
  <2>1. ASSUME NEW d \in Planned', NEW j \in Index
        PROVE  /\ <<d, j>> \in nzU' <=> j \in block[d] /\ j >= d /\ EntersU(d, j)
               /\ <<j, d>> \in nzL' <=> j \in block[d] /\ j > d /\ EntersL(j, d)
    <3>1. CASE d = i
      <4>1. <<i, j>> \notin nzU /\ <<j, i>> \notin nzL
        BY <1>1, <1>2, <1>t DEF PatternInv
      <4> QED
        BY <3>1, <4>1, <1>1, <1>4, <1>5, <1>6
    <3>2. CASE d # i
      <4>1. d \in Planned /\ d \in Index
        BY <3>2, <1>2, <1>3
      <4> QED
        BY <3>2, <4>1, <1>6, <1>t DEF PatternInv
    <3> QED
      BY <3>1, <3>2
  <2>2. \A d \in Index \ Planned' : \A j \in Index : <<d, j>> \notin nzU' /\ <<j, d>> \notin nzL'
    BY <1>2, <1>6, <1>t DEF PatternInv
  <2>3. \A d \in Planned' : \A j \in Index :
          /\ EntersU(d, j)' <=> EntersU(d, j)
          /\ EntersL(j, d)' <=> EntersL(j, d)
    BY <1>8
  <2> QED
    BY <2>1, <2>2, <2>3, <1>0 DEF PatternInv
<1>12. /\ \A n \in 1..Len(us) : us[n] \in cols
       /\ \A x \in cols : \E n \in 1..Len(us) : us[n] = x
       /\ \A m, n \in 1..Len(us) : m < n => us[m] < us[n]
       /\ Len(us) \in Nat
  <2>1. cols \subseteq Nat /\ IsFiniteSet(cols)
    BY <1>4, <1>nat, IndexFacts, FS_Subset
  <2> QED
    BY <2>1, AscendingLists
<1>13. /\ \A n \in 1..Len(ls) : ls[n] \in rows
       /\ \A x \in rows : \E n \in 1..Len(ls) : ls[n] = x
       /\ \A m, n \in 1..Len(ls) : m < n => ls[m] < ls[n]
       /\ Len(ls) \in Nat
  <2>1. rows \subseteq Nat /\ IsFiniteSet(rows)
    BY <1>5, <1>nat, IndexFacts, FS_Subset
  <2> QED
    BY <2>1, AscendingLists
<1> HIDE DEF us, ls
<1>14. /\ codeU \in Seq(Entries) /\ Len(codeU) = Len(us)
       /\ \A n \in 1..Len(us) :
            /\ codeU[n].kind = "U" /\ codeU[n].row = i /\ codeU[n].col = us[n]
            /\ codeU[n].inW = InW(i, us[n]) /\ codeU[n].products = Products(i, us[n], i)
            /\ us[n] \in cols /\ us[n] \in Index /\ us[n] \in block[i]
  <2>1. \A n \in 1..Len(us) : us[n] \in cols /\ us[n] \in Index /\ us[n] \in block[i]
    BY <1>4, <1>12
  <2>2. \A n \in 1..Len(us) : Entry("U", i, us[n], i) \in Entries
    BY <2>1, <1>1, <1>b DEF Entry, Entries, Products, InW
  <2>3. codeU \in Seq(Entries) /\ Len(codeU) = Len(us)
    BY <2>2, <1>12
  <2> QED
    BY <2>1, <2>3 DEF Entry
<1>15. /\ codeL \in Seq(Entries) /\ Len(codeL) = Len(ls)
       /\ \A n \in 1..Len(ls) :
            /\ codeL[n].kind = "L" /\ codeL[n].row = ls[n] /\ codeL[n].col = i
            /\ codeL[n].inW = InW(ls[n], i) /\ codeL[n].products = Products(ls[n], i, i)
            /\ ls[n] \in rows /\ ls[n] \in Index /\ ls[n] \in block[i]
  <2>1. \A n \in 1..Len(ls) : ls[n] \in rows /\ ls[n] \in Index /\ ls[n] \in block[i]
    BY <1>5, <1>13
  <2>2. \A n \in 1..Len(ls) : Entry("L", ls[n], i, i) \in Entries
    BY <2>1, <1>1, <1>b DEF Entry, Entries, Products, InW
  <2>3. codeL \in Seq(Entries) /\ Len(codeL) = Len(ls)
    BY <2>2, <1>13
  <2> QED
    BY <2>1, <2>3 DEF Entry
<1> HIDE DEF codeU, codeL
<1> DEFINE len == Len(code)
<1>16. /\ code' \in Seq(Entries)
       /\ Len(code') = len + Len(us) + Len(ls)
       /\ \A n \in 1..len : code'[n] = code[n]
       /\ \A n \in 1..Len(us) : code'[len + n] = codeU[n]
       /\ \A n \in 1..Len(ls) : code'[len + Len(us) + n] = codeL[n]
       /\ \A n \in 1..Len(code') :
            \/ n \in 1..len
            \/ \E m \in 1..Len(us) : n = len + m
            \/ \E m \in 1..Len(ls) : n = len + Len(us) + m
       /\ len \in Nat
  <2>1. code \in Seq(Entries) /\ len \in Nat
    BY <1>t DEF PlanTypeOK
  <2>2. codeU \in Seq(Entries) /\ codeL \in Seq(Entries) /\ code' = code \o (codeU \o codeL)
        /\ Len(codeU) = Len(us) /\ Len(codeL) = Len(ls)
    BY <1>0, <1>14, <1>15
  <2> DEFINE s == code'
  <2> HIDE DEF s
  <2>3. s = code \o (codeU \o codeL)
    BY <2>2 DEF s
  <2>4. /\ s \in Seq(Entries)
        /\ Len(s) = Len(code) + Len(codeU) + Len(codeL)
        /\ \A n \in 1..Len(code) : s[n] = code[n]
        /\ \A n \in 1..Len(codeU) : s[Len(code) + n] = codeU[n]
        /\ \A n \in 1..Len(codeL) : s[Len(code) + Len(codeU) + n] = codeL[n]
        /\ \A n \in 1..Len(s) :
             \/ n \in 1..Len(code)
             \/ \E m \in 1..Len(codeU) : n = Len(code) + m
             \/ \E m \in 1..Len(codeL) : n = Len(code) + Len(codeU) + m
    <3>1. IsJoined(s, code, codeU, codeL, Entries)
      BY <2>1, <2>2, <2>3 DEF IsJoined
    <3>2. HasParts(s, code, codeU, codeL, Entries)
      BY <3>1, Concatenation
    <3> QED
      BY <3>2 DEF HasParts
  <2> QED
    BY <2>1, <2>2, <2>4 DEF s
<1> HIDE DEF len
<1>17. CodeInv'
  <2>1. ASSUME NEW n \in 1..Len(code'), NEW e, e = code'[n]
        PROVE  /\ e.inW = InW(e.row, e.col)'
               /\ e.kind = "U" => /\ <<e.row, e.col>> \in nzU'
                                  /\ e.products = Products(e.row, e.col, e.row)'
               /\ e.kind = "L" => /\ <<e.row, e.col>> \in nzL'
                                  /\ e.products = Products(e.row, e.col, e.col)'
    <3>1. CASE n \in 1..len
      <4>1. code[n] = e
        BY <2>1, <3>1, <1>16
      <4>r. e.row \in Index /\ e.col \in Index
        <5>1. e \in Entries
          BY <3>1, <4>1, <1>t DEF PlanTypeOK, len
        <5> QED
          BY <5>1 DEF Entries
      <4>2. /\ e.row \in Index /\ e.col \in Index
            /\ e.inW = InW(e.row, e.col)
            /\ e.kind = "U" => /\ <<e.row, e.col>> \in nzU
                               /\ e.products = Products(e.row, e.col, e.row)
            /\ e.kind = "L" => /\ <<e.row, e.col>> \in nzL
                               /\ e.products = Products(e.row, e.col, e.col)
        BY <3>1, <4>1, <4>r, <1>t DEF CodeInv, len
      <4>3. e.inW = InW(e.row, e.col)'
        BY <4>2, <1>0 DEF InW
      <4>4. e.kind = "U" => e.row \in Planned' /\ e.col \in block[e.row]
        BY <4>2, <1>2, <1>t DEF PatternInv
      <4>5. e.kind = "L" => e.col \in Planned' /\ e.row \in block[e.col]
        BY <4>2, <1>2, <1>t DEF PatternInv
      <4>6. e.kind = "U" => /\ <<e.row, e.col>> \in nzU'
                            /\ e.products = Products(e.row, e.col, e.row)'
        BY <4>2, <4>4, <1>0, <1>8
      <4>7. e.kind = "L" => /\ <<e.row, e.col>> \in nzL'
                            /\ e.products = Products(e.row, e.col, e.col)'
        BY <4>2, <4>5, <1>0, <1>8
      <4> QED
        BY <4>1, <4>3, <4>6, <4>7
    <3>2. ASSUME NEW m \in 1..Len(us), n = len + m
          PROVE  /\ e.inW = InW(e.row, e.col)'
                 /\ e.kind = "U"
                 /\ <<e.row, e.col>> \in nzU'
                 /\ e.products = Products(e.row, e.col, i)' /\ e.row = i
      <4>1. PICK x : x = us[m]
        OBVIOUS
      <4>2. e = codeU[m]
        BY <2>1, <3>2, <1>16
      <4>3. /\ e.kind = "U" /\ e.row = i /\ e.col = x
            /\ e.inW = InW(i, x) /\ e.products = Products(i, x, i)
            /\ x \in cols /\ x \in Index /\ x \in block[i]
        BY <4>1, <4>2, <1>14
      <4>4. i \in Planned' /\ <<i, x>> \in nzU'
        BY <4>3, <1>1, <1>2, <1>6
      <4>5. e.inW = InW(i, x)'
        BY <4>3, <1>0 DEF InW
      <4>6. Products(i, x, i)' = Products(i, x, i)
        BY <4>3, <4>4, <1>8
      <4> QED
        BY <4>3, <4>4, <4>5, <4>6
    <3>3. ASSUME NEW m \in 1..Len(ls), n = len + Len(us) + m
          PROVE  /\ e.inW = InW(e.row, e.col)'
                 /\ e.kind = "L"
                 /\ <<e.row, e.col>> \in nzL'
                 /\ e.products = Products(e.row, e.col, i)' /\ e.col = i
      <4>1. PICK x : x = ls[m]
        OBVIOUS
      <4>2. e = codeL[m]
        BY <2>1, <3>3, <1>16
      <4>3. /\ e.kind = "L" /\ e.row = x /\ e.col = i
            /\ e.inW = InW(x, i) /\ e.products = Products(x, i, i)
            /\ x \in rows /\ x \in Index /\ x \in block[i]
        BY <4>1, <4>2, <1>15
      <4>4. i \in Planned' /\ <<x, i>> \in nzL'
        BY <4>3, <1>1, <1>2, <1>6
      <4>5. e.inW = InW(x, i)'
        BY <4>3, <1>0 DEF InW
      <4>6. Products(x, i, i)' = Products(x, i, i)
        BY <4>3, <4>4, <1>8
      <4> QED
        BY <4>3, <4>4, <4>5, <4>6
    <3> QED
      BY <3>1, <3>2, <3>3, <1>16
  <2>2. ASSUME NEW x \in Index, NEW y \in Index, <<x, y>> \in nzU'
        PROVE  \E n \in 1..Len(code') : Target(code'[n]) = <<"U", x, y>>
    <3>1. CASE <<x, y>> \in nzU
      <4>1. PICK n \in 1..len : Target(code[n]) = <<"U", x, y>>
        BY <3>1, <1>t DEF CodeInv, len
      <4>2. n \in 1..Len(code') /\ code'[n] = code[n]
        BY <1>12, <1>13, <1>16
      <4> QED
        BY <4>1, <4>2
    <3>2. CASE x = i /\ y \in cols
      <4>1. PICK m \in 1..Len(us) : us[m] = y
        BY <3>2, <1>12
      <4>2. len + m \in 1..Len(code') /\ code'[len + m] = codeU[m]
        BY <1>12, <1>13, <1>16
      <4>3. codeU[m].kind = "U" /\ codeU[m].row = i /\ codeU[m].col = us[m]
        BY <1>14
      <4> QED
        BY <3>2, <4>1, <4>2, <4>3 DEF Target
    <3> QED
      BY <2>2, <3>1, <3>2, <1>6
  <2>3. ASSUME NEW x \in Index, NEW y \in Index, <<x, y>> \in nzL'
        PROVE  \E n \in 1..Len(code') : Target(code'[n]) = <<"L", x, y>>
    <3>1. CASE <<x, y>> \in nzL
      <4>1. PICK n \in 1..len : Target(code[n]) = <<"L", x, y>>
        BY <3>1, <1>t DEF CodeInv, len
      <4>2. n \in 1..Len(code') /\ code'[n] = code[n]
        BY <1>12, <1>13, <1>16
      <4> QED
        BY <4>1, <4>2
    <3>2. CASE y = i /\ x \in rows
      <4>1. PICK m \in 1..Len(ls) : ls[m] = x
        BY <3>2, <1>13
      <4>2. len + Len(us) + m \in 1..Len(code') /\ code'[len + Len(us) + m] = codeL[m]
        BY <1>12, <1>13, <1>16
      <4>3. codeL[m].kind = "L" /\ codeL[m].row = ls[m] /\ codeL[m].col = i
        BY <1>15
      <4> QED
        BY <3>2, <4>1, <4>2, <4>3 DEF Target
    <3> QED
      BY <2>3, <3>1, <3>2, <1>6
  <2> QED
    BY <2>1, <2>2, <2>3 DEF CodeInv
<1>18. ReadsFollowWrites'
  <2>1. \A x, y \in Index :
          /\ <<x, y>> \in nzU => \E m \in 1..len : Target(code'[m]) = <<"U", x, y>>
          /\ <<x, y>> \in nzL => \E m \in 1..len : Target(code'[m]) = <<"L", x, y>>
    BY <1>16, <1>t DEF CodeInv, len
  <2>2. \A m \in 1..len : /\ Target(code'[m]) = Target(code[m])
                        /\ \A x, y \in Index :
                             /\ Target(code'[m]) = <<"U", x, y>> => <<x, y>> \in nzU
                             /\ Target(code'[m]) = <<"L", x, y>> => <<x, y>> \in nzL
    BY <1>16, <1>t DEF CodeInv, len, Target
  <2>3. ASSUME NEW n \in 1..Len(code')
        PROVE  /\ \A r \in Operands(code'[n]) : \E m \in 1..(n - 1) : Target(code'[m]) = r
               /\ \A m \in 1..(n - 1) : Target(code'[m]) # Target(code'[n])
    <3>1. CASE n \in 1..len
      <4>1. code'[n] = code[n] /\ \A m \in 1..(n - 1) : m \in 1..len /\ code'[m] = code[m]
        BY <3>1, <1>16
      <4>2. /\ \A r \in Operands(code[n]) : \E m \in 1..(n - 1) : Target(code[m]) = r
            /\ \A m \in 1..(n - 1) : Target(code[m]) # Target(code[n])
        BY <3>1, <1>t DEF ReadsFollowWrites, len
      <4> QED
        BY <4>1, <4>2
    <3>2. ASSUME NEW l \in 1..Len(us), n = len + l
          PROVE  /\ \A r \in Operands(code'[n]) : \E m \in 1..(n - 1) : Target(code'[m]) = r
                 /\ \A m \in 1..(n - 1) : Target(code'[m]) # Target(code'[n])
      <4> DEFINE e == codeU[l]
      <4>1. code'[n] = e
        BY <3>2, <1>16
      <4>2. /\ e.kind = "U" /\ e.row = i /\ e.col = us[l] /\ e.products = Products(i, us[l], i)
            /\ us[l] \in Index
        BY <1>14
      <4>3. \A m \in 1..len : m \in 1..(n - 1)
        BY <3>2, <1>12, <1>16
      <4> HIDE DEF e
      <4>4. \A k \in e.products : k \in Index /\ <<i, k>> \in nzL /\ <<k, us[l]>> \in nzU
        BY <4>2, <1>b, <1>1 DEF Products
      <4>5. \A r \in Operands(e) : \E m \in 1..(n - 1) : Target(code'[m]) = r
        <5> TAKE r \in Operands(e)
        <5>1. PICK k \in e.products : r = <<"L", i, k>> \/ r = <<"U", k, us[l]>>
          BY <4>2 DEF Operands
        <5>2. k \in Index /\ <<i, k>> \in nzL /\ <<k, us[l]>> \in nzU
          BY <4>4
        <5>3. \E m \in 1..len : Target(code'[m]) = <<"L", i, k>>
          BY <5>2, <2>1, <1>1
        <5>4. \E m \in 1..len : Target(code'[m]) = <<"U", k, us[l]>>
          BY <5>2, <4>2, <2>1
        <5> QED
          BY <5>1, <5>3, <5>4, <4>3
      <4>6. \A m \in 1..(n - 1) : Target(code'[m]) # Target(e)
        <5> TAKE m \in 1..(n - 1)
        <5>0. Target(e) = <<"U", i, us[l]>>
          BY <4>2 DEF Target
        <5>1. CASE m \in 1..len
          <6>1. <<i, us[l]>> \notin nzU
            BY <4>2, <1>1, <1>2, <1>t DEF PatternInv
          <6> QED
            BY <5>0, <5>1, <6>1, <2>2, <4>2, <1>1
        <5>2. CASE m \notin 1..len
          <6>1. m - len \in 1..Len(us) /\ m = len + (m - len) /\ m - len < l
            BY <5>2, <3>2, <1>12, <1>16
          <6>2. code'[m] = codeU[m - len]
            BY <6>1, <1>16
          <6>3. us[m - len] < us[l] /\ us[m - len] \in Nat /\ us[l] \in Nat
            BY <6>1, <1>12, <1>4, <1>nat
          <6>4. Target(code'[m]) = <<"U", i, us[m - len]>>
            BY <6>1, <6>2, <1>14 DEF Target
          <6> QED
            BY <5>0, <6>3, <6>4
        <5> QED
          BY <5>1, <5>2
      <4> QED
        BY <4>1, <4>5, <4>6
    <3>3. ASSUME NEW l \in 1..Len(ls), n = len + Len(us) + l
          PROVE  /\ \A r \in Operands(code'[n]) : \E m \in 1..(n - 1) : Target(code'[m]) = r
                 /\ \A m \in 1..(n - 1) : Target(code'[m]) # Target(code'[n])
      <4> DEFINE e == codeL[l]
      <4>1. code'[n] = e
        BY <3>3, <1>16
      <4>2. /\ e.kind = "L" /\ e.row = ls[l] /\ e.col = i /\ e.products = Products(ls[l], i, i)
            /\ ls[l] \in Index /\ ls[l] \in block[i]
        BY <1>15
      <4>3. \A m \in 1..len : m \in 1..(n - 1)
        BY <3>3, <1>12, <1>13, <1>16
      <4> HIDE DEF e
      <4>4. \A k \in e.products : k \in Index /\ <<ls[l], k>> \in nzL /\ <<k, i>> \in nzU
        BY <4>2, <1>b, <1>1 DEF Products
      <4>5. \E m \in 1..(n - 1) : Target(code'[m]) = <<"U", i, i>>
        <5>1. i \in cols
          <6>1. EntersU(i, i)
            BY DEF EntersU, InW
          <6>2. i \in Nat /\ i \in block[i]
            BY <1>1, <1>b, <1>nat
          <6> QED
            BY <6>1, <6>2, <1>1, <1>4
        <5>2. PICK k \in 1..Len(us) : us[k] = i
          BY <5>1, <1>12
        <5>3. len + k \in 1..(n - 1) /\ code'[len + k] = codeU[k]
          BY <3>3, <1>12, <1>13, <1>16
        <5>4. Target(code'[len + k]) = <<"U", i, i>>
          BY <5>2, <5>3, <1>14 DEF Target
        <5> QED
          BY <5>3, <5>4
      <4>6. \A r \in Operands(e) : \E m \in 1..(n - 1) : Target(code'[m]) = r
        <5> TAKE r \in Operands(e)
        <5>1. CASE r = <<"U", i, i>>
          BY <5>1, <4>5
        <5>2. CASE r # <<"U", i, i>>
          <6>1. PICK k \in e.products : r = <<"L", ls[l], k>> \/ r = <<"U", k, i>>
            BY <5>2, <4>2 DEF Operands
          <6>2. k \in Index /\ <<ls[l], k>> \in nzL /\ <<k, i>> \in nzU
            BY <4>4
          <6>3. \E m \in 1..len : Target(code'[m]) = <<"L", ls[l], k>>
            BY <6>2, <4>2, <2>1
          <6>4. \E m \in 1..len : Target(code'[m]) = <<"U", k, i>>
            BY <6>2, <2>1, <1>1
          <6> QED
            BY <6>1, <6>3, <6>4, <4>3
        <5> QED
          BY <5>1, <5>2
      <4>7. \A m \in 1..(n - 1) : Target(code'[m]) # Target(e)
        <5> TAKE m \in 1..(n - 1)
        <5>0. Target(e) = <<"L", ls[l], i>>
          BY <4>2 DEF Target
        <5>1. CASE m \in 1..len
          <6>1. <<ls[l], i>> \notin nzL
            BY <4>2, <1>1, <1>2, <1>t DEF PatternInv
          <6> QED
            BY <5>0, <5>1, <6>1, <2>2, <4>2, <1>1
        <5>2. CASE m > len /\ m <= len + Len(us)
          <6>1. m - len \in 1..Len(us) /\ m = len + (m - len)
            BY <5>2, <1>12, <1>16
          <6>2. code'[m] = codeU[m - len]
            BY <6>1, <1>16
          <6>3. Target(code'[m]) = <<"U", i, us[m - len]>>
            BY <6>1, <6>2, <1>14 DEF Target
          <6> QED
            BY <5>0, <6>3
        <5>3. CASE m > len + Len(us)
          <6> DEFINE k == m - (len + Len(us))
          <6>1. k \in 1..Len(ls) /\ m = len + Len(us) + k /\ k < l
            BY <5>3, <3>3, <1>12, <1>13, <1>16
          <6> HIDE DEF k
          <6>2. code'[m] = codeL[k]
            BY <6>1, <1>16
          <6>3. ls[k] < ls[l] /\ ls[k] \in Nat /\ ls[l] \in Nat
            BY <6>1, <1>13, <1>5, <1>nat
          <6>4. Target(code'[m]) = <<"L", ls[k], i>>
            BY <6>1, <6>2, <1>15 DEF Target
          <6> QED
            BY <5>0, <6>3, <6>4
        <5> QED
          BY <5>1, <5>2, <5>3, <1>12, <1>16
      <4> QED
        BY <4>1, <4>6, <4>7
    <3> QED
      BY <3>1, <3>2, <3>3, <1>16
  <2> QED
    BY <2>3 DEF ReadsFollowWrites, Operands, Target
<1>19. CountInv' /\ fillIn' \in Nat
  <2> DEFINE old == {ij \in nzL \union nzU : ~InW(ij[1], ij[2])}
             cf == {j \in cols : ~InW(i, j)}
             rf == {j \in rows : ~InW(j, i)}
             fu == {<<i, j>> : j \in cf}
             fl == {<<j, i>> : j \in rf}
             new == {ij \in nzL' \union nzU' : ~InW(ij[1], ij[2])'}
  <2>1. new = old \union fu \union fl
    <3>1. \A x, y \in Index : <<x, y>> \in new <=> <<x, y>> \in old \/ <<x, y>> \in fu \/ <<x, y>> \in fl
      <4> TAKE x, y \in Index
      <4>1. <<x, y>> \in new <=> (<<x, y>> \in nzL' \/ <<x, y>> \in nzU') /\ ~InW(x, y)
        BY <1>0 DEF InW
      <4>2. <<x, y>> \in fu <=> x = i /\ y \in cols /\ ~InW(i, y)
        OBVIOUS
      <4>3. <<x, y>> \in fl <=> y = i /\ x \in rows /\ ~InW(x, i)
        OBVIOUS
      <4>4. <<x, y>> \in old <=> (<<x, y>> \in nzL \/ <<x, y>> \in nzU) /\ ~InW(x, y)
        OBVIOUS
      <4> HIDE DEF new, old, fu, fl
      <4> QED
        BY <4>1, <4>2, <4>3, <4>4, <1>6
    <3>2. new \subseteq Pairs /\ old \subseteq Pairs /\ fu \subseteq Pairs /\ fl \subseteq Pairs
      BY <1>9, <1>t, <1>1, <1>4, <1>5 DEF PlanTypeOK, Pairs
    <3> HIDE DEF new, old, fu, fl
    <3> QED
      BY <3>1, <3>2 DEF Pairs
  <2>2. /\ IsFiniteSet(cf) /\ IsFiniteSet(rf)
        /\ IsFiniteSet(old)
    <3>1. IsFiniteSet(Pairs)
      BY IndexFacts, FS_Product DEF Pairs
    <3>2. old \subseteq Pairs /\ cf \subseteq Index /\ rf \subseteq Index
      BY <1>t, <1>4, <1>5 DEF PlanTypeOK, Pairs
    <3> QED
      BY <3>1, <3>2, FS_Subset, IndexFacts
  <2>3. IsFiniteSet(fu) /\ Cardinality(fu) = Cardinality(cf)
    <3> DEFINE f == [j \in cf |-> <<i, j>>]
    <3>1. f \in Bijection(cf, fu)
      BY DEF Bijection, Injection, Surjection, IsInjective
    <3> HIDE DEF f, cf, fu
    <3> QED
      BY <3>1, <2>2, FS_Bijection DEF ExistsBijection
  <2>4. IsFiniteSet(fl) /\ Cardinality(fl) = Cardinality(rf)
    <3> DEFINE f == [j \in rf |-> <<j, i>>]
    <3>1. f \in Bijection(rf, fl)
      BY DEF Bijection, Injection, Surjection, IsInjective
    <3> HIDE DEF f, rf, fl
    <3> QED
      BY <3>1, <2>2, FS_Bijection DEF ExistsBijection
  <2>5. old \intersect fu = {} /\ (old \union fu) \intersect fl = {}
    <3>0. \A j \in Index : <<i, j>> \notin nzU /\ <<j, i>> \notin nzL
      BY <1>1, <1>2, <1>t DEF PatternInv
    <3>1. \A j \in cf : j \in Index /\ j >= i
      BY <1>4
    <3>2. \A j \in rf : j \in Index /\ j > i
      BY <1>5
    <3>3. /\ \A x, y \in Index : <<x, y>> \in nzL => x > y
          /\ \A x, y \in Index : <<x, y>> \in nzU => x <= y
      BY <1>t DEF PlanTypeOK
    <3>4. \A j \in Index : j >= i => <<i, j>> \notin nzL
      <4> TAKE j \in Index
      <4>1. i \in Nat /\ j \in Nat /\ (<<i, j>> \in nzL => i > j)
        BY <3>3, <1>1, <1>nat
      <4> QED
        BY <4>1
    <3>5. \A j \in Index : j > i => <<j, i>> \notin nzU /\ j # i
      <4> TAKE j \in Index
      <4>1. i \in Nat /\ j \in Nat /\ (<<j, i>> \in nzU => j <= i)
        BY <3>3, <1>1, <1>nat
      <4> QED
        BY <4>1
    <3>6. \A j \in cf : <<i, j>> \notin nzU /\ <<i, j>> \notin nzL
      BY <3>0, <3>1, <3>4
    <3>7. \A j \in rf : <<j, i>> \notin nzU /\ <<j, i>> \notin nzL /\ j # i
      BY <3>0, <3>2, <3>5
    <3> HIDE DEF cf, rf
    <3> QED
      BY <3>6, <3>7
  <2> HIDE DEF old, cf, rf, fu, fl, new
  <2>6. /\ IsFiniteSet(old \union fu)
        /\ Cardinality(old \union fu) = Cardinality(old) + Cardinality(fu)
    BY <2>2, <2>3, <2>5, DisjointUnion
  <2>7. Cardinality(new) = Cardinality(old) + Cardinality(fu) + Cardinality(fl)
    BY <2>1, <2>4, <2>5, <2>6, DisjointUnion
  <2>8. fillIn = Cardinality(old) /\ fillIn' = fillIn + Cardinality(cf) + Cardinality(rf)
    BY <1>t, <1>0 DEF CountInv, old, cf, rf
  <2>9. Cardinality(cf) \in Nat /\ Cardinality(rf) \in Nat /\ fillIn \in Nat
    BY <2>2, FS_CardinalityType, <1>t DEF PlanTypeOK
  <2>10. fillIn' = Cardinality(new) /\ fillIn' \in Nat
    BY <2>3, <2>4, <2>7, <2>8, <2>9
  <2> QED
    BY <2>10 DEF CountInv, new
<1>20. PlanTypeOK'
  BY <1>t, <1>0, <1>1, <1>9, <1>16, <1>19 DEF PlanTypeOK
<1> QED
  BY <1>10, <1>11, <1>17, <1>18, <1>19, <1>20 DEF PlanInv

\* The predicted pattern obeys the rule of elimination and lies in the blocks.
PatternClosed ==
  /\ IsPattern(PredictedPattern(structure), structure)
  /\ \A ij \in PredictedPattern(structure) : ij[2] \in block[ij[1]]

\* Whether the structure is factorized by blocks or whole, the predicted pattern
\* lies within the blocks.
LEMMA BlocksHoldPattern == PlanInv => PatternClosed
<1> SUFFICES ASSUME PlanInv PROVE PatternClosed
  OBVIOUS
<1>1. structure \in SUBSET Pairs
  BY DEF PlanInv, PlanTypeOK, Pairs
<1>2. block = Blocks(structure)
  BY DEF PlanInv, PivotInv
<1> QED
  BY <1>1, <1>2, EliminationRule, BlocksDivide DEF PatternClosed

\* A complete plan has the predicted pattern: by induction over the lesser index
\* of an entry, the k whose products an entry subtracts are those that fill it in.
LEMMA PlanHasPattern ==
  PlanInv /\ todo = <<>> =>
    /\ nzL \union nzU = PredictedPattern(structure)
    /\ fillIn = Cardinality(PredictedPattern(structure) \ (structure \union Diagonal))
<1> SUFFICES ASSUME PlanInv, todo = <<>>
             PROVE  /\ nzL \union nzU = PredictedPattern(structure)
                    /\ fillIn = Cardinality(PredictedPattern(structure) \ (structure \union Diagonal))
  OBVIOUS
<1> DEFINE Q == PredictedPattern(structure)
<1>t. PlanTypeOK /\ PivotInv /\ PatternInv /\ CountInv
  BY DEF PlanInv
<1>b. /\ block \in [Index -> SUBSET Index]
      /\ \A j \in Index : j \in block[j]
      /\ \A j, k \in Index : k \in block[j] => block[k] = block[j]
  BY <1>t DEF PlanTypeOK, PivotInv
<1>1. Planned = Index
  BY DEF Planned
<1>2. Q \subseteq Pairs /\ \A i, j \in Index :
        <<i, j>> \in Q <=> InW(i, j) \/ \E k \in Index : k < i /\ k < j /\ <<i, k>> \in Q /\ <<k, j>> \in Q
  <2>1. \A i, j \in Index : InW(i, j) <=> <<i, j>> \in structure \union Diagonal
    BY DEF InW, Diagonal
  <2> QED
    BY <2>1, BlocksHoldPattern DEF PatternClosed, IsPattern
<1>3. \A i, j \in Index : <<i, j>> \in Q => j \in block[i] /\ i \in block[j]
  <2>1. \A ij \in Q : ij[2] \in block[ij[1]]
    BY BlocksHoldPattern DEF PatternClosed
  <2> HIDE DEF Q
  <2> QED
    BY <2>1, <1>b
<1> HIDE DEF Q
<1>4. /\ \A i, j \in Index : <<i, j>> \in nzL => i > j
      /\ \A i, j \in Index : <<i, j>> \in nzU => i <= j
      /\ nzL \subseteq Pairs /\ nzU \subseteq Pairs
  BY <1>t DEF PlanTypeOK, Pairs
<1>5. \A i, j \in Index :
        /\ <<i, j>> \in nzU <=> j \in block[i] /\ j >= i /\ EntersU(i, j)
        /\ <<j, i>> \in nzL <=> j \in block[i] /\ j > i /\ EntersL(j, i)
  BY <1>1, <1>t DEF PatternInv
<1> DEFINE NZ == nzL \union nzU
           T == {m \in Nat : \A i, j \in Index : i < m \/ j < m => (<<i, j>> \in NZ <=> <<i, j>> \in Q)}
<1>6. 0 \in T
  BY IndexFacts
<1>7. ASSUME NEW m \in Nat, m \in T PROVE m + 1 \in T
  <2> SUFFICES ASSUME NEW i \in Index, NEW j \in Index, i < m + 1 \/ j < m + 1
               PROVE  <<i, j>> \in NZ <=> <<i, j>> \in Q
    OBVIOUS
  <2>0. i \in Nat /\ j \in Nat
    BY IndexFacts
  <2>1. CASE i < m \/ j < m
    BY <2>1, <1>7
  <2>2. CASE m <= i /\ m <= j
    <3>0. i = m \/ j = m
      BY <2>0, <2>2
    <3>1. \A k \in Index : k < m => /\ k < i /\ k < j
                                    /\ <<i, k>> \in nzL <=> <<i, k>> \in Q
                                    /\ <<k, j>> \in nzU <=> <<k, j>> \in Q
      <4> TAKE k \in Index
      <4> HAVE k < m
      <4>1. k \in Nat /\ k < i /\ k < j
        BY IndexFacts, <2>0, <2>2
      <4>2. (<<i, k>> \in NZ <=> <<i, k>> \in Q) /\ (<<k, j>> \in NZ <=> <<k, j>> \in Q)
        BY <1>7
      <4>3. <<i, k>> \notin nzU /\ <<k, j>> \notin nzL
        BY <4>1, <1>4, <2>0
      <4> QED
        BY <4>1, <4>2, <4>3
    <3>2. <<i, j>> \in Q <=> InW(i, j) \/ \E k \in Index : k < m /\ <<i, k>> \in nzL /\ <<k, j>> \in nzU
      <4>1. \A k \in Index : k < i /\ k < j <=> k < m
        BY IndexFacts, <2>0, <2>2, <3>0
      <4> QED
        BY <4>1, <3>1, <1>2
    <3>3. \A k \in Index : <<i, k>> \in nzL => k \in block[i]
      BY <1>5, <1>b
    <3>4. \A k \in Index : <<k, j>> \in nzU => k \in block[j]
      BY <1>5, <1>b
    <3>5. CASE i <= j
      <4>1. i = m /\ j >= i /\ <<i, j>> \notin nzL
        BY <3>5, <3>0, <2>0, <2>2, <1>4
      <4>2. EntersU(i, j) <=> InW(i, j) \/ \E k \in Index : k < m /\ <<i, k>> \in nzL /\ <<k, j>> \in nzU
        BY <4>1, <3>3, <1>b DEF EntersU
      <4> QED
        BY <4>1, <4>2, <3>2, <1>3, <1>5
    <3>6. CASE i > j
      <4>1. j = m /\ <<i, j>> \notin nzU
        BY <3>6, <3>0, <2>0, <2>2, <1>4
      <4>2. EntersL(i, j) <=> InW(i, j) \/ \E k \in Index : k < m /\ <<i, k>> \in nzL /\ <<k, j>> \in nzU
        BY <4>1, <3>4, <1>b DEF EntersL
      <4> QED
        BY <4>1, <4>2, <3>2, <3>6, <1>3, <1>5
    <3> QED
      BY <3>5, <3>6, <2>0
  <2> QED
    BY <2>0, <2>1, <2>2
<1> HIDE DEF T
<1>8. N \in T
  BY <1>6, <1>7, NatInduct, SizesAssumption
<1>9. NZ = Q
  <2>1. \A i, j \in Index : <<i, j>> \in NZ <=> <<i, j>> \in Q
    BY <1>8, IndexFacts DEF T
  <2>2. NZ \subseteq Pairs /\ Q \subseteq Pairs
    BY <1>2, <1>4
  <2> HIDE DEF NZ
  <2> QED
    BY <2>1, <2>2 DEF Pairs
<1>10. {ij \in NZ : ~InW(ij[1], ij[2])} = Q \ (structure \union Diagonal)
  <2>1. \A ij \in Pairs : InW(ij[1], ij[2]) <=> ij \in structure \union Diagonal
    BY DEF InW, Diagonal, Pairs
  <2> HIDE DEF NZ
  <2> QED
    BY <2>1, <1>2, <1>9
<1> QED
  BY <1>9, <1>10, <1>t DEF CountInv, Q

\* What a path from i to j may go on to, from i and from species before both.
Goes(i, j, T) ==
  i \in T /\ \A ab \in structure : ab[1] \in T /\ (ab[1] = i \/ (ab[1] < i /\ ab[1] < j)) => ab[2] \in T

\* Elimination follows paths: an entry it fills in is joined over the pivot that
\* causes it, by induction over the lesser index.
LEMMA PatternIsJoined ==
  ASSUME structure \in SUBSET Pairs, NEW i \in Index, NEW j \in Index,
         <<i, j>> \in PredictedPattern(structure)
  PROVE  Joined(i, j)
<1> DEFINE Q == PredictedPattern(structure)
           B == {m \in Nat : \A a, b \in Index : (a < m \/ b < m) /\ <<a, b>> \in Q =>
                    \A T \in SUBSET Index : Goes(a, b, T) => b \in T}
<1>1. IsPattern(Q, structure)
  BY EliminationRule
<1> HIDE DEF Q
<1>2. 0 \in B
  BY IndexFacts
<1>3. ASSUME NEW m \in Nat, m \in B PROVE m + 1 \in B
  <2> SUFFICES ASSUME NEW a \in Index, NEW b \in Index, a < m + 1 \/ b < m + 1, <<a, b>> \in Q,
                      NEW T \in SUBSET Index, Goes(a, b, T)
               PROVE  b \in T
    OBVIOUS
  <2>1. a \in Nat /\ b \in Nat /\ a \in T
    BY IndexFacts DEF Goes
  <2>2. CASE <<a, b>> \in structure
    BY <2>1, <2>2 DEF Goes
  <2>3. CASE <<a, b>> \in Diagonal
    BY <2>1, <2>3 DEF Diagonal
  <2>4. CASE \E k \in Index : k < a /\ k < b /\ <<a, k>> \in Q /\ <<k, b>> \in Q
    <3>1. PICK k \in Index : k < a /\ k < b /\ <<a, k>> \in Q /\ <<k, b>> \in Q
      BY <2>4
    <3>2. k \in Nat /\ k < m
      BY <2>1, <3>1, IndexFacts
    <3>3. \A ab \in structure : ab[1] \in Nat
      BY IndexFacts DEF Pairs
    <3>4. Goes(a, k, T)
      BY <2>1, <3>1, <3>2, <3>3 DEF Goes
    <3>5. k \in T
      BY <3>1, <3>2, <3>4, <1>3
    <3>6. Goes(k, b, T)
      BY <2>1, <3>1, <3>2, <3>3, <3>5 DEF Goes
    <3> QED
      BY <3>1, <3>2, <3>6, <1>3
  <2> QED
    BY <1>1, <2>2, <2>3, <2>4 DEF IsPattern
<1> HIDE DEF B
<1>4. N \in B
  BY <1>2, <1>3, NatInduct, SizesAssumption
<1>5. i < N
  BY IndexFacts
<1>6. \A T \in SUBSET Index : Goes(i, j, T) => j \in T
  BY <1>4, <1>5 DEF B, Q
<1> QED
  BY <1>6 DEF Joined, Goes

\* A stage of the closure has what elimination has, among the species that it does
\* not let lie between.
LEMMA StageIsPattern ==
  ASSUME structure \in SUBSET Pairs, NEW f, IsClosure(f, structure)
  PROVE  \A k \in 0..N : \A i, j \in Index :
           k <= i /\ k <= j /\ <<i, j>> \in f[k] => <<i, j>> \in PredictedPattern(structure)
<1> DEFINE Q == PredictedPattern(structure)
           B == {k \in Nat : k \in 0..N => \A i, j \in Index :
                   k <= i /\ k <= j /\ <<i, j>> \in f[k] => <<i, j>> \in Q}
<1>1. IsPattern(Q, structure)
  BY EliminationRule
<1> HIDE DEF Q
<1>2. 0 \in B
  BY <1>1 DEF IsClosure, IsPattern
<1>3. ASSUME NEW k \in Nat, k \in B PROVE k + 1 \in B
  <2> SUFFICES ASSUME k + 1 \in 0..N, NEW i \in Index, NEW j \in Index, k + 1 <= i, k + 1 <= j,
                      <<i, j>> \in f[k + 1]
               PROVE  <<i, j>> \in Q
    OBVIOUS
  <2>1. k \in 0..N /\ k \in Index /\ k + 1 \in 1..N /\ (k + 1) - 1 = k
    BY SizesAssumption DEF Index
  <2>2. i \in Nat /\ j \in Nat /\ k <= i /\ k <= j /\ k <= k /\ k < i /\ k < j
    <3>1. i \in Nat /\ j \in Nat
      BY IndexFacts
    <3> QED
      BY <3>1
  <2>3. f[k + 1] = f[k] \union {ij \in Index \X Index : <<ij[1], k>> \in f[k] /\ <<k, ij[2]>> \in f[k]}
    BY <2>1 DEF IsClosure
  <2>4. CASE <<i, j>> \in f[k]
    BY <2>1, <2>2, <2>4, <1>3
  <2>5. CASE <<i, k>> \in f[k] /\ <<k, j>> \in f[k]
    <3>1. <<i, k>> \in Q /\ <<k, j>> \in Q
      BY <2>1, <2>2, <2>5, <1>3
    <3> QED
      BY <3>1, <2>1, <2>2, <1>1 DEF IsPattern
  <2> QED
    BY <2>3, <2>4, <2>5
<1> HIDE DEF B
<1>4. Nat \subseteq B
  BY <1>2, <1>3, NatInduct
<1>5. \A k \in 0..N : k \in Nat
  OBVIOUS
<1> QED
  BY <1>4, <1>5 DEF B, Q

\* And every path is eliminated: the species that its way from i can reach over
\* species before i and j are those of a stage of the closure.
LEMMA JoinedIsPattern ==
  ASSUME structure \in SUBSET Pairs, NEW i \in Index, NEW j \in Index, Joined(i, j)
  PROVE  <<i, j>> \in PredictedPattern(structure)
<1> DEFINE m == IF i < j THEN i ELSE j
<1>1. i \in Nat /\ j \in Nat /\ m \in 0..N /\ m <= i /\ m <= j
      /\ \A a \in Index : a \in Nat /\ (a < i /\ a < j => a < m)
  BY IndexFacts, SizesAssumption
<1>2. PICK f : IsClosure(f, structure)
  BY ClosureExists
<1> HIDE DEF m
<1>3. StageComposes(f, structure, m)
  BY <1>1, <1>2, StagesCompose
<1> DEFINE T == {x \in Index : <<i, x>> \in f[m]}
<1>4. i \in T
  BY <1>3 DEF StageComposes, Diagonal
<1>5. ASSUME NEW ab \in structure, ab[1] \in T, ab[1] = i \/ (ab[1] < i /\ ab[1] < j)
      PROVE  ab[2] \in T
  <2>1. ab[1] \in Index /\ ab[2] \in Index /\ ab = <<ab[1], ab[2]>>
    BY DEF Pairs
  <2>2. <<ab[1], ab[2]>> \in f[m] /\ <<i, ab[1]>> \in f[m]
    BY <1>3, <1>5, <2>1 DEF StageComposes
  <2>3. CASE ab[1] = i
    BY <2>1, <2>2, <2>3
  <2>4. CASE ab[1] < i /\ ab[1] < j
    <3>1. ab[1] < m
      BY <2>1, <2>4, <1>1
    <3> QED
      BY <3>1, <2>1, <2>2, <1>3 DEF StageComposes
  <2> QED
    BY <1>5, <2>3, <2>4
<1>6. T \in SUBSET Index
  OBVIOUS
<1> HIDE DEF T
<1>7. j \in T
  BY <1>4, <1>5, <1>6 DEF Joined
<1>8. <<i, j>> \in f[m]
  BY <1>7 DEF T
<1> QED
  BY <1>1, <1>2, <1>8, StageIsPattern

\* A complete plan keeps the positions that paths join.
LEMMA PlanFollowsPaths == PlanInv => FillFollowsPaths
<1> SUFFICES ASSUME PlanInv, todo = <<>> PROVE FillFollowsPaths
  BY DEF FillFollowsPaths
<1>1. structure \in SUBSET Pairs
  BY DEF PlanInv, PlanTypeOK, Pairs
<1>2. PredictedPattern(structure) \subseteq Pairs
  BY <1>1, EliminationRule DEF IsPattern
<1>3. \A i, j \in Index : <<i, j>> \in PredictedPattern(structure) <=> Joined(i, j)
  <2> TAKE i, j \in Index
  <2>1. <<i, j>> \in PredictedPattern(structure) => Joined(i, j)
    BY <1>1, PatternIsJoined
  <2>2. Joined(i, j) => <<i, j>> \in PredictedPattern(structure)
    BY <1>1, JoinedIsPattern
  <2> QED
    BY <2>1, <2>2
<1>4. \A ij \in Index \X Index : ij \in PredictedPattern(structure) <=> Joined(ij[1], ij[2])
  <2> TAKE ij \in Index \X Index
  <2>1. ij[1] \in Index /\ ij[2] \in Index /\ ij = <<ij[1], ij[2]>>
    OBVIOUS
  <2> QED
    BY <2>1, <1>3
<1>5. {ij \in Index \X Index : Joined(ij[1], ij[2])} = PredictedPattern(structure)
  BY <1>2, <1>4 DEF Pairs
<1> QED
  BY <1>5, PlanHasPattern DEF FillFollowsPaths

------------------------------------------------------------------------------
\* A register holds what its assignment computes of the final values of others.
Computed(e) ==
  /\ e.kind = "U" => reg[Target(e)] = Numerator(e)
  /\ e.kind = "L" => /\ reg[<<"U", e.col, e.col>>] # 0
                     /\ reg[Target(e)] = Numerator(e) * Over(reg[<<"U", e.col, e.col>>]) % P

\* The invariant of the kernel: W is masked, each assignment so far has written
\* its register, and holds.
RunInv ==
  /\ phase \in {"planning", "running", "infinite", "factorized"}
  /\ phase # "planning" => todo = <<>>
  /\ active \subseteq Index
  /\ w \in [Index \X Index -> Field]
  /\ phase # "planning" => \A i, j \in Index :
       /\ ~InW(i, j) => w[<<i, j>>] = 0
       /\ i \notin active \/ j \notin active => w[<<i, j>>] = IF i = j THEN 1 ELSE 0
  /\ at \in 1..(Len(code) + 1)
  /\ phase = "planning" => at = 1
  /\ DOMAIN reg = {Target(code[n]) : n \in 1..(at - 1)}
  /\ \A r \in DOMAIN reg : reg[r] \in Field
  /\ \A n \in 1..(at - 1) : Computed(code[n])
  /\ phase = "factorized" => at > Len(code) /\ \A i \in Index : reg[<<"U", i, i>>] # 0

\* The inductive invariant.
IInv == PlanInv /\ RunInv

\* Every member of the field but 0 has an inverse, the modulus being prime.
LEMMA OverInverts ==
  ASSUME NEW x \in Field, x # 0
  PROVE  Over(x) \in Field /\ (x * Over(x)) % P = 1
<1>1. x \in 1..(P - 1)
  BY SizesAssumption DEF Field
<1>2. \E r \in Field : (x * r) % P = 1
  BY <1>1, PrimeAssumption DEF Field
<1> QED
  BY <1>2 DEF Over

\* Nothing is assigned before the kernel runs.
LEMMA RunInvInit == Init => RunInv
<1> SUFFICES ASSUME Init PROVE RunInv
  OBVIOUS
<1>1. w \in [Index \X Index -> Field] /\ 1 \in 1..(0 + 1) /\ 1..(1 - 1) = {}
  BY SizesAssumption DEF Init, Field
<1>2. code = <<>> /\ Len(code) = 0 /\ at = 1 /\ reg = [r \in {} |-> 0] /\ phase = "planning" /\ active = Index
  BY DEF Init
<1> QED
  BY <1>1, <1>2 DEF RunInv

\* What an entry's operands are when its turn comes.
LEMMA OperandsReady ==
  ASSUME PlanInv, RunInv, NEW n \in 1..Len(code), n <= at
  PROVE  /\ code[n] \in Entries
         /\ IsFiniteSet(code[n].products)
         /\ Operands(code[n]) \subseteq DOMAIN reg
         /\ \A k \in code[n].products : /\ <<"L", code[n].row, k>> \in DOMAIN reg
                                        /\ <<"U", k, code[n].col>> \in DOMAIN reg
         /\ code[n].kind = "L" => <<"U", code[n].col, code[n].col>> \in DOMAIN reg
         /\ Subtracted(code[n]) \in Field
         /\ Numerator(code[n]) \in Field
<1>1. code[n] \in Entries /\ at \in Nat
  BY DEF PlanInv, PlanTypeOK, RunInv
<1> DEFINE e == code[n]
<1>2. Operands(e) \subseteq DOMAIN reg
  <2>1. \A r \in Operands(e) : \E m \in 1..(n - 1) : Target(code[m]) = r
    BY DEF PlanInv, ReadsFollowWrites
  <2>2. \A m \in 1..(n - 1) : m \in 1..(at - 1)
    BY <1>1
  <2> QED
    BY <2>1, <2>2 DEF RunInv
<1> HIDE DEF e
<1>3. /\ \A k \in e.products : <<"L", e.row, k>> \in DOMAIN reg /\ <<"U", k, e.col>> \in DOMAIN reg
      /\ e.kind = "L" => <<"U", e.col, e.col>> \in DOMAIN reg
  BY <1>2 DEF Operands
<1>4. e \in Entries /\ e.row \in Index /\ e.col \in Index /\ e.products \subseteq Index /\ IsFiniteSet(e.products)
  <2>1. e.row \in Index /\ e.col \in Index /\ e.products \subseteq Index /\ e \in Entries
    BY <1>1 DEF Entries, e
  <2> QED
    BY <2>1, IndexFacts, FS_Subset
<1>5. Subtracted(e) \in Field
  <2> DEFINE f == [k \in e.products |-> reg[<<"L", e.row, k>>] * reg[<<"U", k, e.col>>]]
  <2>0. \A r \in DOMAIN reg : reg[r] \in Int
    BY DEF RunInv, Field
  <2>1. \A k \in e.products : reg[<<"L", e.row, k>>] \in Int /\ reg[<<"U", k, e.col>>] \in Int
    BY <1>3, <2>0
  <2>2. \A k \in e.products : f[k] \in Int
    BY <2>1
  <2> HIDE DEF f
  <2>3. Total(f, e.products) \in Field
    BY <2>2, <1>4, TotalSplit
  <2> QED
    BY <2>3 DEF f, Subtracted
<1>6. Numerator(e) \in Field
  <2>1. w[<<e.row, e.col>>] \in Field
    BY <1>4 DEF RunInv
  <2>2. (IF e.inW THEN w[<<e.row, e.col>>] ELSE 0) - Subtracted(e) \in Int
    BY <2>1, <1>5 DEF Field
  <2> QED
    BY <2>2, SameRemainder DEF Numerator
<1> QED
  BY <1>1, <1>2, <1>3, <1>4, <1>5, <1>6 DEF e

------------------------------------------------------------------------------
\* The kernel runs.

\* Entering the kernel masks the rows and the columns of frozen species.
LEMMA RunInvEnter ==
  ASSUME IInv, Enter
  PROVE  RunInv'
<1> USE DEF Enter, IInv
<1>1. /\ active' \subseteq Index /\ todo' = <<>> /\ phase' = "running" /\ at' = 1 /\ DOMAIN reg' = {}
      /\ reg' = reg /\ code' = code /\ structure' = structure
  <2>1. at = 1 /\ 1..(at - 1) = {}
    BY DEF RunInv
  <2> QED
    BY <2>1 DEF plan, RunInv
<1>2. PICK v \in [structure \union Diagonal -> Values] : w' = Masked(v, active')
  OBVIOUS
<1>3. \A ij \in structure \union Diagonal : v[ij] \in Field
  BY ValuesAssumption DEF Field
<1>4. 0 \in Field /\ 1 \in Field
  BY SizesAssumption DEF Field
<1>5. w' = [ij \in Index \X Index |->
              IF {ij[1], ij[2]} \subseteq active'
                THEN IF ij \in structure \union Diagonal THEN v[ij] ELSE 0
                ELSE IF ij[1] = ij[2] THEN 1 ELSE 0]
  BY <1>2 DEF Masked
<1>6. w' \in [Index \X Index -> Field]
  BY <1>3, <1>4, <1>5
<1>7. ASSUME NEW i \in Index, NEW j \in Index
      PROVE  /\ ~InW(i, j)' => w'[<<i, j>>] = 0
             /\ i \notin active' \/ j \notin active' => w'[<<i, j>>] = IF i = j THEN 1 ELSE 0
  <2>1. w'[<<i, j>>] = IF i \in active' /\ j \in active'
                         THEN IF <<i, j>> \in structure \union Diagonal THEN v[<<i, j>>] ELSE 0
                         ELSE IF i = j THEN 1 ELSE 0
    BY <1>5
  <2>2. InW(i, j)' <=> <<i, j>> \in structure \union Diagonal
    BY <1>1 DEF InW, Diagonal
  <2>3. ~InW(i, j)' => i # j
    BY DEF InW
  <2> QED
    BY <2>1, <2>2, <2>3
<1>8. Len(code) \in Nat /\ 1..(1 - 1) = {} /\ 1 \in 1..(Len(code) + 1)
  BY DEF PlanInv, PlanTypeOK
<1> QED
  BY <1>1, <1>6, <1>7, <1>8 DEF RunInv

\* An assignment writes a register of its own and computes it from registers
\* that no later assignment changes.
LEMMA RunInvAssign ==
  ASSUME IInv, phase = "running", at <= Len(code), NEW value \in Field,
         Assign(code[at], value),
         code[at].kind = "U" => value = Numerator(code[at]),
         code[at].kind = "L" => /\ reg[<<"U", code[at].col, code[at].col>>] # 0
                                /\ value = Numerator(code[at]) * Over(reg[<<"U", code[at].col, code[at].col>>]) % P
  PROVE  RunInv'
<1>t. PlanInv /\ RunInv
  BY DEF IInv
<1>1. at \in 1..Len(code) /\ at \in Nat /\ Len(code) \in Nat /\ code \in Seq(Entries)
  BY <1>t DEF PlanInv, PlanTypeOK, RunInv
<1>2. PICK t : t = Target(code[at])
  OBVIOUS
<1>3. PICK e : e = code[at]
  OBVIOUS
<1>4. /\ reg' = [r \in DOMAIN reg \union {t} |-> IF r = t THEN value ELSE reg[r]]
      /\ at' = at + 1
      /\ UNCHANGED <<structure, block, todo, nzL, nzU, fillIn, code, phase, active, w>>
  BY <1>2 DEF Assign, Target, plan
<1>5. t \notin DOMAIN reg
  <2>1. \A m \in 1..(at - 1) : Target(code[m]) # t
    BY <1>1, <1>2, <1>t DEF PlanInv, ReadsFollowWrites
  <2> QED
    BY <2>1, <1>t DEF RunInv
<1>6. /\ DOMAIN reg' = DOMAIN reg \union {t}
      /\ reg'[t] = value
      /\ \A r \in DOMAIN reg : reg'[r] = reg[r]
  BY <1>4, <1>5
<1>7. \A n \in 1..at : n \in 1..(at - 1) \/ n = at
  BY <1>1
<1>8. DOMAIN reg' = {Target(code[n]) : n \in 1..at}
  <2>1. DOMAIN reg = {Target(code[n]) : n \in 1..(at - 1)}
    BY <1>t DEF RunInv
  <2>2. \A n \in 1..(at - 1) : n \in 1..at
    BY <1>1
  <2>3. at \in 1..at
    BY <1>1
  <2> QED
    BY <1>2, <1>6, <1>7, <2>1, <2>2, <2>3
<1>9. ASSUME NEW n \in 1..at, NEW d, d = code[n]
      PROVE  /\ Numerator(d)' = Numerator(d)
             /\ d.kind = "L" => reg'[<<"U", d.col, d.col>>] = reg[<<"U", d.col, d.col>>]
  <2>1. /\ d \in Entries
        /\ \A k \in d.products : /\ <<"L", d.row, k>> \in DOMAIN reg
                                 /\ <<"U", k, d.col>> \in DOMAIN reg
        /\ d.kind = "L" => <<"U", d.col, d.col>> \in DOMAIN reg
    <3>1. n \in 1..Len(code) /\ n <= at
      BY <1>1
    <3> QED
      BY <3>1, <1>9, <1>t, OperandsReady
  <2>2. [k \in d.products |-> reg'[<<"L", d.row, k>>] * reg'[<<"U", k, d.col>>]]
          = [k \in d.products |-> reg[<<"L", d.row, k>>] * reg[<<"U", k, d.col>>]]
    BY <2>1, <1>6
  <2>3. Subtracted(d)' = Subtracted(d)
    BY <2>2 DEF Subtracted
  <2>4. Numerator(d)' = Numerator(d)
    BY <2>3, <1>4 DEF Numerator
  <2> QED
    BY <2>1, <2>4, <1>6
<1>10. ASSUME NEW n \in 1..at PROVE Computed(code[n])'
  <2>0. PICK d : d = code[n]
    OBVIOUS
  <2>1. Numerator(d)' = Numerator(d)
    BY <1>9, <2>0
  <2>2. d.kind = "L" => reg'[<<"U", d.col, d.col>>] = reg[<<"U", d.col, d.col>>]
    BY <1>9, <2>0
  <2>3. CASE n = at
    <3>1. reg'[Target(d)] = value
      BY <2>0, <2>3, <1>2, <1>6
    <3>2. Computed(d)'
      BY <2>0, <2>1, <2>2, <2>3, <3>1 DEF Computed, Target
    <3> QED
      BY <2>0, <3>2, <1>4
  <2>4. CASE n \in 1..(at - 1)
    <3>1. Computed(d) /\ Target(d) \in DOMAIN reg
      BY <2>0, <2>4, <1>t DEF RunInv
    <3>2. Computed(d)'
      BY <2>1, <2>2, <3>1, <1>6 DEF Computed, Target
    <3> QED
      BY <2>0, <3>2, <1>4
  <2> QED
    BY <1>7, <2>3, <2>4
<1>11. at' \in 1..(Len(code) + 1) /\ at' - 1 = at /\ phase' = "running"
  BY <1>1, <1>4
<1>12. \A r \in DOMAIN reg' : reg'[r] \in Field
  BY <1>6, <1>t DEF RunInv
<1>13. \A i, j \in Index : /\ ~InW(i, j)' => w'[<<i, j>>] = 0
                           /\ i \notin active' \/ j \notin active' => w'[<<i, j>>] = IF i = j THEN 1 ELSE 0
  <2>1. \A i, j \in Index : /\ ~InW(i, j) => w[<<i, j>>] = 0
                            /\ i \notin active \/ j \notin active => w[<<i, j>>] = IF i = j THEN 1 ELSE 0
    BY <1>t DEF RunInv
  <2> QED
    BY <2>1, <1>4 DEF InW
<1>14. /\ phase' # "planning" => todo' = <<>>
       /\ active' \subseteq Index
       /\ w' \in [Index \X Index -> Field]
  BY <1>t, <1>4 DEF RunInv
<1>15. DOMAIN reg' = {Target(code'[n]) : n \in 1..(at' - 1)} /\ Len(code') = Len(code)
       /\ \A n \in 1..(at' - 1) : Computed(code[n])'
  BY <1>8, <1>10, <1>11, <1>4
<1> QED
  BY <1>11, <1>12, <1>13, <1>14, <1>15 DEF RunInv

\* Every step keeps the inductive invariant.
LEMMA IInvStep == IInv /\ [Next]_vars => IInv'
<1> SUFFICES ASSUME IInv, [Next]_vars PROVE IInv'
  OBVIOUS
<1>t. PlanInv /\ RunInv
  BY DEF IInv
<1>0. ASSUME UNCHANGED plan PROVE PlanInv'
  <2>1. UNCHANGED <<structure, block, todo, nzL, nzU, fillIn, code>>
    BY <1>0 DEF plan
  <2>2. PlanTypeOK' /\ CountInv' /\ ReadsFollowWrites'
    <3>1. PlanTypeOK'
      BY <1>t, <2>1 DEF PlanInv, PlanTypeOK
    <3>2. CountInv'
      <4>1. {ij \in nzL' \union nzU' : ~InW(ij[1], ij[2])'} = {ij \in nzL \union nzU : ~InW(ij[1], ij[2])}
        BY <2>1 DEF InW
      <4> QED
        BY <1>t, <2>1, <4>1 DEF PlanInv, CountInv
    <3>3. ReadsFollowWrites'
      BY <1>t, <2>1 DEF PlanInv, ReadsFollowWrites, Operands, Target
    <3> QED
      BY <3>1, <3>2, <3>3
  <2>3. Planned' = Planned
    BY <2>1 DEF Planned
  <2>4. PivotInv'
    BY <1>t, <2>1, <2>3 DEF PlanInv, PivotInv
  <2>5. PatternInv'
    <3>2. PatternInv
      BY <1>t DEF PlanInv
    <3>3. \A i \in Planned' : \A j \in Index :
            /\ <<i, j>> \in nzU' <=> j \in block'[i] /\ j >= i /\ EntersU(i, j)'
            /\ <<j, i>> \in nzL' <=> j \in block'[i] /\ j > i /\ EntersL(j, i)'
      <4> TAKE i \in Planned'
      <4> TAKE j \in Index
      <4>1. /\ <<i, j>> \in nzU <=> j \in block[i] /\ j >= i /\ EntersU(i, j)
            /\ <<j, i>> \in nzL <=> j \in block[i] /\ j > i /\ EntersL(j, i)
        BY <2>3, <3>2 DEF PatternInv
      <4>2. EntersU(i, j)' = EntersU(i, j) /\ EntersL(j, i)' = EntersL(j, i)
        BY <2>1 DEF EntersU, EntersL, InW
      <4>3. nzU' = nzU /\ nzL' = nzL /\ block' = block
        BY <2>1
      <4>4. <<i, j>> \in nzU' <=> j \in block'[i] /\ j >= i /\ EntersU(i, j)'
        BY <4>1, <4>2, <4>3
      <4>5. <<j, i>> \in nzL' <=> j \in block'[i] /\ j > i /\ EntersL(j, i)'
        BY <4>1, <4>2, <4>3
      <4> QED
        BY <4>4, <4>5
    <3>4. \A i \in Index \ Planned' : \A j \in Index : <<i, j>> \notin nzU' /\ <<j, i>> \notin nzL'
      BY <2>1, <2>3, <3>2 DEF PatternInv
    <3> QED
      BY <3>3, <3>4 DEF PatternInv
  <2>6. CodeInv'
    BY <1>t, <2>1 DEF PlanInv, CodeInv, Products, InW, Target
  <2> QED
    BY <2>2, <2>4, <2>5, <2>6 DEF PlanInv
<1>1. CASE PlanPivot
  <2>1. PlanInv'
    BY <1>1, <1>t, PlanInvStep
  <2>2. /\ phase = "planning" /\ phase' = "planning" /\ at' = 1 /\ at = 1
        /\ UNCHANGED <<active, w, reg>>
    BY <1>1, <1>t DEF PlanPivot, RunInv
  <2>3. DOMAIN reg = {} /\ 1..(1 - 1) = {} /\ Len(code') \in Nat
    BY <1>t, <2>1, <2>2 DEF RunInv, PlanInv, PlanTypeOK
  <2>4. 1 \in 1..(Len(code') + 1)
    BY <2>3
  <2>5. RunInv'
    BY <1>t, <2>2, <2>3, <2>4 DEF RunInv
  <2> QED
    BY <2>1, <2>5 DEF IInv
<1>2. CASE Enter
  <2>1. UNCHANGED plan
    BY <1>2 DEF Enter
  <2> QED
    BY <1>0, <1>2, <2>1, RunInvEnter DEF IInv
<1>3. CASE AssignU
  <2>1. /\ phase = "running" /\ at <= Len(code) /\ code[at].kind = "U"
        /\ Assign(code[at], Numerator(code[at]))
    BY <1>3 DEF AssignU
  <2>2. at \in 1..Len(code) /\ at <= at
    BY <2>1, <1>t DEF RunInv, PlanInv, PlanTypeOK
  <2>3. Numerator(code[at]) \in Field
    BY <2>2, <1>t, OperandsReady
  <2>4. RunInv'
    BY <2>1, <2>3, RunInvAssign
  <2>5. UNCHANGED plan
    BY <2>1 DEF Assign
  <2> QED
    BY <1>0, <2>4, <2>5 DEF IInv
<1>4. CASE AssignL
  <2> DEFINE pivot == reg[<<"U", code[at].col, code[at].col>>]
             value == Numerator(code[at]) * Over(pivot) % P
  <2>1. /\ phase = "running" /\ at <= Len(code) /\ code[at].kind = "L" /\ pivot # 0
        /\ Assign(code[at], value)
    BY <1>4 DEF AssignL
  <2>2. at \in 1..Len(code) /\ at <= at
    BY <2>1, <1>t DEF RunInv, PlanInv, PlanTypeOK
  <2>3. Numerator(code[at]) \in Field /\ pivot \in Field
    BY <2>1, <2>2, <1>t, OperandsReady DEF RunInv
  <2>4. value \in Field
    <3> HIDE DEF pivot
    <3>1. Over(pivot) \in Field
      BY <2>1, <2>3, OverInverts
    <3>2. Numerator(code[at]) * Over(pivot) \in Int
      BY <2>3, <3>1 DEF Field
    <3> QED
      BY <3>2, SameRemainder
  <2>5. RunInv'
    BY <2>1, <2>4, RunInvAssign
  <2>6. UNCHANGED plan
    BY <2>1 DEF Assign
  <2> QED
    BY <1>0, <2>5, <2>6 DEF IInv
<1>5. ASSUME UNCHANGED <<plan, active, w, reg, at>>, phase # "planning" \/ phase' = phase,
             phase' = phase \/ phase' = "infinite"
                            \/ (phase' = "factorized" /\ at > Len(code) /\ \A i \in Index : reg[<<"U", i, i>>] # 0)
      PROVE  IInv'
  <2>1. PlanInv'
    BY <1>0, <1>5
  <2>2. UNCHANGED <<structure, block, todo, nzL, nzU, fillIn, code, active, w, reg, at>>
    BY <1>5 DEF plan
  <2>3. \A e : Computed(e)' <=> Computed(e)
    BY <2>2 DEF Computed, Numerator, Subtracted, Target
  <2>4. RunInv'
    <3>1. phase' \in {"planning", "running", "infinite", "factorized"} /\ (phase' = "planning" => phase = "planning")
      BY <1>5, <1>t DEF RunInv
    <3>2. phase' # "planning" => phase # "planning"
      BY <1>5
    <3>3. \A n \in 1..(at' - 1) : Computed(code[n])'
      <4> TAKE n \in 1..(at' - 1)
      <4>1. PICK e : e = code[n]
        OBVIOUS
      <4>2. Computed(e)'
        BY <2>2, <2>3, <4>1, <1>t DEF RunInv
      <4> QED
        BY <2>2, <4>1, <4>2
    <3>4. phase' = "factorized" => at' > Len(code') /\ \A i \in Index : reg'[<<"U", i, i>>] # 0
      BY <1>5, <1>t, <2>2 DEF RunInv
    <3>5. phase' # "planning" => \A i, j \in Index :
            /\ ~InW(i, j)' => w'[<<i, j>>] = 0
            /\ i \notin active' \/ j \notin active' => w'[<<i, j>>] = IF i = j THEN 1 ELSE 0
      <4>1. phase # "planning" => \A i, j \in Index :
            /\ ~InW(i, j) => w[<<i, j>>] = 0
            /\ i \notin active \/ j \notin active => w[<<i, j>>] = IF i = j THEN 1 ELSE 0
        BY <1>t DEF RunInv
      <4> QED
        BY <4>1, <2>2, <3>2 DEF InW
    <3>6. /\ phase' # "planning" => todo' = <<>>
          /\ active' \subseteq Index
          /\ w' \in [Index \X Index -> Field]
          /\ at' \in 1..(Len(code') + 1)
          /\ phase' = "planning" => at' = 1
          /\ DOMAIN reg' = {Target(code'[n]) : n \in 1..(at' - 1)}
          /\ \A r \in DOMAIN reg' : reg'[r] \in Field
      BY <1>t, <2>2, <3>1, <3>2 DEF RunInv
    <3> QED
      BY <3>1, <3>3, <3>4, <3>5, <3>6 DEF RunInv
  <2> QED
    BY <2>1, <2>4 DEF IInv
<1>6. CASE DivideByZero
  BY <1>5, <1>6 DEF DivideByZero
<1>7. CASE Factorized
  BY <1>5, <1>7 DEF Factorized
<1>8. CASE UNCHANGED vars
  <2>1. UNCHANGED <<plan, active, w, reg, at>> /\ phase' = phase
    BY <1>8 DEF vars, plan
  <2> QED
    BY <1>5, <2>1
<1> QED
  BY <1>1, <1>2, <1>3, <1>4, <1>6, <1>7, <1>8 DEF Next

\* The inductive invariant holds of every execution: the patterns and the code
\* planned so far have the entries that the pivots so far cause, and every register
\* holds what its assignment computes of the final values of the others.
THEOREM IInvHolds == Spec => []IInv
<1>1. Init => IInv
  BY PlanInvInit, RunInvInit DEF IInv
<1> QED
  BY <1>1, IInvStep, PTL DEF Spec

\* The type invariant of the planner and of the kernel, whatever the number of
\* species, the modulus and the values of W.
THEOREM TypeCorrect == Spec => []TypeOK
<1>1. IInv => TypeOK
  <2> SUFFICES ASSUME IInv PROVE TypeOK
    OBVIOUS
  <2>1. DOMAIN reg \subseteq {"L", "U"} \X Index \X Index
    <3>1. \A n \in 1..(at - 1) : n \in 1..Len(code)
      BY DEF IInv, RunInv, PlanInv, PlanTypeOK
    <3>2. \A n \in 1..Len(code) : Target(code[n]) \in {"L", "U"} \X Index \X Index
      <4> TAKE n \in 1..Len(code)
      <4>1. PICK e \in Entries : e = code[n]
        BY DEF IInv, PlanInv, PlanTypeOK
      <4>2. e.kind \in {"L", "U"} /\ e.row \in Index /\ e.col \in Index
        BY DEF Entries
      <4> QED
        BY <4>1, <4>2 DEF Target
    <3> QED
      BY <3>1, <3>2 DEF IInv, RunInv
  <2> QED
    BY <2>1 DEF IInv, RunInv, PlanInv, PlanTypeOK, TypeOK
<1> QED
  BY <1>1, IInvHolds, PTL

\* The emitted code of every structure declares each register once and before any
\* assignment that reads it, also where a structure is factorized by blocks.
THEOREM ReadsFollowWritesHolds == Spec => []ReadsFollowWrites
<1>1. IInv => ReadsFollowWrites
  BY DEF IInv, PlanInv
<1> QED
  BY <1>1, IInvHolds, PTL

\* For every structure of any size the plan keeps exactly the positions that paths
\* over earlier species join, whether it is made by blocks or whole, and its count
\* of fill-in is right.
THEOREM FillFollowsPathsHolds == Spec => []FillFollowsPaths
<1>1. IInv => FillFollowsPaths
  BY PlanFollowsPaths DEF IInv
<1> QED
  BY <1>1, IInvHolds, PTL

------------------------------------------------------------------------------
\* The equations of the factorization.

\* What the registers of a factorized W satisfy.
InnerBelow(i, j, p) == {k \in Index : k < p /\ <<i, k>> \in nzL /\ <<k, j>> \in nzU}
Product(i, j) == [k \in Index |-> L(i, k) * U(k, j)]

\* What the factorization is to solve: the pattern with its triangles and blocks,
\* the equations of its entries, and zeros outside it.
FactorEquations ==
  /\ nzL \subseteq Pairs /\ nzU \subseteq Pairs
  /\ \A i, j \in Index : <<i, j>> \in nzL => i > j
  /\ \A i, j \in Index : <<i, j>> \in nzU => i <= j
  /\ \A i, j \in Index : (<<i, j>> \in nzU \/ <<i, j>> \in nzL) => j \in block[i] /\ i \in block[j]
  /\ \A i \in Index : <<i, i>> \in nzU /\ U(i, i) \in Field /\ U(i, i) # 0
  /\ \A i, j \in Index : <<i, j>> \in nzL => L(i, j) \in Field
  /\ \A i, j \in Index : <<i, j>> \in nzU => U(i, j) \in Field
  /\ \A i, j \in Index : w[<<i, j>>] \in Field
  /\ \A i, j \in Index : <<i, j>> \in nzU =>
       U(i, j) = (w[<<i, j>>] - Total(Product(i, j), InnerBelow(i, j, i))) % P
  /\ \A i, j \in Index : <<i, j>> \in nzL =>
       L(i, j) = ((w[<<i, j>>] - Total(Product(i, j), InnerBelow(i, j, j))) % P) * Over(U(j, j)) % P
  /\ \A i, j \in Index : <<i, j>> \notin nzU /\ <<i, j>> \notin nzL =>
       w[<<i, j>>] = 0 /\ InnerBelow(i, j, IF i <= j THEN i ELSE j) = {}

\* In a complete plan what an entry subtracts are all the products of the pattern
\* below its pivot, and positions outside the pattern have neither a value of W
\* nor products.
LEMMA ProductsAreInner ==
  ASSUME PlanInv, todo = <<>>
  PROVE  /\ \A i, j \in Index : <<i, j>> \in nzU \/ <<i, j>> \in nzL => j \in block[i] /\ i \in block[j]
         /\ \A i, j \in Index : Products(i, j, i) = InnerBelow(i, j, i)
         /\ \A i, j \in Index : Products(i, j, j) = InnerBelow(i, j, j)
         /\ \A i \in Index : <<i, i>> \in nzU
         /\ \A i, j \in Index : i <= j /\ <<i, j>> \notin nzU => ~InW(i, j) /\ InnerBelow(i, j, i) = {}
         /\ \A i, j \in Index : i > j /\ <<i, j>> \notin nzL => ~InW(i, j) /\ InnerBelow(i, j, j) = {}
<1>t. PlanTypeOK /\ PivotInv /\ PatternInv
  BY DEF PlanInv
<1>b. /\ block \in [Index -> SUBSET Index]
      /\ \A j \in Index : j \in block[j]
      /\ \A j, k \in Index : k \in block[j] => block[k] = block[j]
  BY <1>t DEF PlanTypeOK, PivotInv
<1>1. \A i, j \in Index :
        /\ <<i, j>> \in nzU <=> j \in block[i] /\ j >= i /\ EntersU(i, j)
        /\ <<j, i>> \in nzL <=> j \in block[i] /\ j > i /\ EntersL(j, i)
  <2>1. Planned = Index
    BY DEF Planned
  <2> QED
    BY <2>1, <1>t DEF PatternInv
<1>2. \A i, j \in Index : <<i, j>> \in nzU \/ <<i, j>> \in nzL => j \in block[i] /\ i \in block[j]
  BY <1>1, <1>b
<1>3. \A i, j, p \in Index : Products(i, j, p) = InnerBelow(i, j, p)
  BY <1>2, <1>b DEF Products, InnerBelow
<1>4. \A i \in Index : <<i, i>> \in nzU
  <2> TAKE i \in Index
  <2>1. i >= i
    BY IndexFacts
  <2>2. EntersU(i, i)
    BY DEF EntersU, InW
  <2> QED
    BY <2>1, <2>2, <1>1, <1>b
<1>5. \A i, j \in Index : InW(i, j) => j \in block[i] /\ i \in block[j]
  <2> TAKE i, j \in Index
  <2> HAVE InW(i, j)
  <2>1. <<i, j>> \in PredictedPattern(structure)
    BY BlocksHoldPattern DEF PatternClosed, IsPattern, InW, Diagonal
  <2>2. <<i, j>>[2] \in block[<<i, j>>[1]]
    BY <2>1, BlocksHoldPattern DEF PatternClosed
  <2> QED
    BY <2>2, <1>b
<1>6. ASSUME NEW i \in Index, NEW j \in Index, i <= j, <<i, j>> \notin nzU
      PROVE  ~InW(i, j) /\ InnerBelow(i, j, i) = {}
  <2>0. j >= i
    BY <1>6, IndexFacts
  <2>1. CASE j \in block[i]
    <3>1. ~EntersU(i, j)
      BY <1>1, <1>6, <2>0, <2>1
    <3>2. ~InW(i, j) /\ Products(i, j, i) = {}
      BY <3>1 DEF EntersU, Products
    <3> QED
      BY <3>2, <1>3
  <2>2. CASE j \notin block[i]
    <3>1. \A k \in Index : ~(<<i, k>> \in nzL /\ <<k, j>> \in nzU)
      BY <1>2, <1>b, <2>2
    <3> QED
      BY <3>1, <1>5, <2>2 DEF InnerBelow
  <2> QED
    BY <2>1, <2>2
<1>7. ASSUME NEW i \in Index, NEW j \in Index, i > j, <<i, j>> \notin nzL
      PROVE  ~InW(i, j) /\ InnerBelow(i, j, j) = {}
  <2>1. CASE i \in block[j]
    <3>1. ~EntersL(i, j)
      BY <1>1, <1>7, <2>1
    <3>2. ~InW(i, j) /\ Products(i, j, j) = {}
      BY <3>1, <2>1, <1>b DEF EntersL, Products
    <3> QED
      BY <3>2, <1>3
  <2>2. CASE i \notin block[j]
    <3>1. \A k \in Index : ~(<<i, k>> \in nzL /\ <<k, j>> \in nzU)
      BY <1>2, <1>b, <2>2
    <3> QED
      BY <3>1, <1>5, <2>2 DEF InnerBelow
  <2> QED
    BY <2>1, <2>2
<1> QED
  BY <1>2, <1>3, <1>4, <1>6, <1>7

\* A total depends on the terms alone.
LEMMA SumsReadTheirTerms ==
  ASSUME NEW f, NEW g, NEW S, IsFiniteSet(S), \A k \in S : f[k] \in Int /\ g[k] = f[k]
  PROVE  Total(f, S) = Total(g, S)
<1>1. \A k \in S : f[k] \in Int /\ g[k] \in Int /\ Same(f[k], g[k])
  BY DEF Same
<1> QED
  BY <1>1, TotalSame

\* Straight-line code, run once, leaves registers that solve the equations of the
\* factorization: each was computed from the final values of the others.
LEMMA FactorsSatisfyEquations == IInv /\ phase = "factorized" => FactorEquations
<1> SUFFICES ASSUME IInv, phase = "factorized" PROVE FactorEquations
  OBVIOUS
<1>t. PlanInv /\ RunInv /\ todo = <<>>
  BY DEF IInv, RunInv
<1>p. PlanTypeOK /\ CodeInv
  BY <1>t DEF PlanInv
<1>1. /\ nzL \subseteq Pairs /\ nzU \subseteq Pairs
      /\ \A i, j \in Index : <<i, j>> \in nzL => i > j
      /\ \A i, j \in Index : <<i, j>> \in nzU => i <= j
  BY <1>p DEF PlanTypeOK, Pairs
<1>2. /\ \A i, j \in Index : <<i, j>> \in nzU \/ <<i, j>> \in nzL => j \in block[i] /\ i \in block[j]
      /\ \A i, j \in Index : Products(i, j, i) = InnerBelow(i, j, i)
      /\ \A i, j \in Index : Products(i, j, j) = InnerBelow(i, j, j)
      /\ \A i \in Index : <<i, i>> \in nzU
      /\ \A i, j \in Index : i <= j /\ <<i, j>> \notin nzU => ~InW(i, j) /\ InnerBelow(i, j, i) = {}
      /\ \A i, j \in Index : i > j /\ <<i, j>> \notin nzL => ~InW(i, j) /\ InnerBelow(i, j, j) = {}
  BY <1>t, ProductsAreInner
<1>3. \A n \in 1..Len(code) : n \in 1..(at - 1) /\ n <= at
  BY <1>t, <1>p DEF RunInv, PlanTypeOK
<1>4. \A i, j \in Index : w[<<i, j>>] \in Field /\ (~InW(i, j) => w[<<i, j>>] = 0)
  BY <1>t DEF RunInv
<1>5. ASSUME NEW e \in Entries, e.inW = InW(e.row, e.col)
      PROVE  (IF e.inW THEN w[<<e.row, e.col>>] ELSE 0) = w[<<e.row, e.col>>]
  <2>1. e.row \in Index /\ e.col \in Index
    BY DEF Entries
  <2> QED
    BY <1>4, <1>5, <2>1
<1>6. ASSUME NEW n \in 1..Len(code), NEW e, e = code[n]
      PROVE  /\ e \in Entries /\ e.row \in Index /\ e.col \in Index
             /\ Target(e) \in DOMAIN reg /\ Computed(e)
             /\ Numerator(e) = (w[<<e.row, e.col>>] - Total(Product(e.row, e.col), e.products)) % P
  <2>1. /\ e \in Entries /\ IsFiniteSet(e.products)
        /\ \A k \in e.products : <<"L", e.row, k>> \in DOMAIN reg /\ <<"U", k, e.col>> \in DOMAIN reg
    BY <1>3, <1>6, <1>t, OperandsReady
  <2>2. e.row \in Index /\ e.col \in Index /\ e.products \subseteq Index
    BY <2>1 DEF Entries
  <2>3. Target(e) \in DOMAIN reg /\ Computed(e)
    BY <1>3, <1>6, <1>t DEF RunInv
  <2> DEFINE f == [k \in e.products |-> reg[<<"L", e.row, k>>] * reg[<<"U", k, e.col>>]]
             g == Product(e.row, e.col)
  <2>4. \A k \in e.products : f[k] \in Int /\ g[k] = f[k]
    <3>0. \A r \in DOMAIN reg : reg[r] \in Int
      BY <1>t DEF RunInv, Field
    <3>1. \A k \in e.products : reg[<<"L", e.row, k>>] \in Int /\ reg[<<"U", k, e.col>>] \in Int
      BY <2>1, <3>0
    <3>2. \A k \in e.products : f[k] \in Int
      BY <3>1
    <3>3. \A k \in e.products : g[k] = f[k]
      BY <2>2 DEF Product, L, U
    <3> QED
      BY <3>2, <3>3
  <2>5. Total(f, e.products) = Total(g, e.products)
    <3> HIDE DEF f, g
    <3> QED
      BY <2>1, <2>4, SumsReadTheirTerms
  <2>6. e.inW = InW(e.row, e.col)
    BY <1>6, <1>p DEF CodeInv
  <2>7. Numerator(e) = (w[<<e.row, e.col>>] - Total(f, e.products)) % P
    <3>1. Subtracted(e) = Total(f, e.products)
      BY DEF Subtracted
    <3> HIDE DEF f
    <3> QED
      BY <3>1, <2>1, <2>6, <1>5 DEF Numerator
  <2> QED
    BY <2>1, <2>2, <2>3, <2>5, <2>7
<1>7. ASSUME NEW i \in Index, NEW j \in Index, <<i, j>> \in nzU
      PROVE  /\ U(i, j) \in Field
             /\ U(i, j) = (w[<<i, j>>] - Total(Product(i, j), InnerBelow(i, j, i))) % P
  <2>1. PICK n \in 1..Len(code) : Target(code[n]) = <<"U", i, j>>
    BY <1>7, <1>p DEF CodeInv
  <2>2. PICK e : e = code[n]
    OBVIOUS
  <2>3. e.kind = "U" /\ e.row = i /\ e.col = j
    BY <2>1, <2>2 DEF Target
  <2>4. e.products = InnerBelow(i, j, i)
    BY <2>2, <2>3, <1>2, <1>p DEF CodeInv
  <2>5. /\ Target(e) \in DOMAIN reg /\ Computed(e)
        /\ Numerator(e) = (w[<<e.row, e.col>>] - Total(Product(e.row, e.col), e.products)) % P
    BY <2>2, <1>6
  <2>6. U(i, j) = Numerator(e) /\ U(i, j) \in Field
    BY <2>1, <2>2, <2>3, <2>5, <1>t DEF Computed, U, RunInv
  <2> QED
    BY <2>3, <2>4, <2>5, <2>6
<1>8. ASSUME NEW i \in Index, NEW j \in Index, <<i, j>> \in nzL
      PROVE  /\ L(i, j) \in Field
             /\ L(i, j) = ((w[<<i, j>>] - Total(Product(i, j), InnerBelow(i, j, j))) % P) * Over(U(j, j)) % P
  <2>1. PICK n \in 1..Len(code) : Target(code[n]) = <<"L", i, j>>
    BY <1>8, <1>p DEF CodeInv
  <2>2. PICK e : e = code[n]
    OBVIOUS
  <2>3. e.kind = "L" /\ e.row = i /\ e.col = j
    BY <2>1, <2>2 DEF Target
  <2>4. e.products = InnerBelow(i, j, j)
    BY <2>2, <2>3, <1>2, <1>p DEF CodeInv
  <2>5. /\ Target(e) \in DOMAIN reg /\ Computed(e)
        /\ Numerator(e) = (w[<<e.row, e.col>>] - Total(Product(e.row, e.col), e.products)) % P
    BY <2>2, <1>6
  <2>6. L(i, j) = Numerator(e) * Over(U(j, j)) % P /\ L(i, j) \in Field
    BY <2>1, <2>2, <2>3, <2>5, <1>t DEF Computed, L, U, RunInv
  <2> QED
    BY <2>3, <2>4, <2>5, <2>6
<1>9. \A i \in Index : U(i, i) # 0
  BY <1>t DEF RunInv, U
<1>10. \A i, j \in Index : <<i, j>> \notin nzU /\ <<i, j>> \notin nzL =>
         w[<<i, j>>] = 0 /\ InnerBelow(i, j, IF i <= j THEN i ELSE j) = {}
  <2> TAKE i, j \in Index
  <2>1. i <= j \/ i > j
    BY IndexFacts
  <2>2. i > j => ~(i <= j)
    BY IndexFacts
  <2> QED
    BY <2>1, <2>2, <1>2, <1>4
<1> QED
  BY <1>1, <1>2, <1>4, <1>7, <1>8, <1>9, <1>10 DEF FactorEquations

------------------------------------------------------------------------------
\* The factors multiply to W.

\* What was subtracted may be added again.
LEMMA CancelSubtracted ==
  ASSUME NEW v \in Field, NEW s \in Field
  PROVE  (v - s) % P \in Field /\ (((v - s) % P) + s) % P = v
<1>1. v \in Int /\ s \in Int /\ v - s \in Int
  BY DEF Field
<1>2. (v - s) % P \in Field /\ (v - s) % P \in Int /\ Same((v - s) % P, v - s)
  BY <1>1, SameRemainder
<1>3. Same(((v - s) % P) + s, (v - s) + s)
  BY <1>1, <1>2, SamePlus DEF Same
<1>4. (v - s) + s = v
  BY <1>1
<1> QED
  BY <1>2, <1>3, <1>4, FieldIsReduced DEF Same

\* What was divided may be multiplied again.
LEMMA CancelDivided ==
  ASSUME NEW n \in Int, NEW u \in Field, u # 0
  PROVE  /\ (n * Over(u)) % P \in Field
         /\ Same(((n * Over(u)) % P) * u, n)
<1>1. Over(u) \in Field /\ (u * Over(u)) % P = 1
  BY OverInverts
<1>2. n \in Int /\ u \in Int /\ Over(u) \in Int /\ n * Over(u) \in Int /\ u * Over(u) \in Int
  BY <1>1 DEF Field
<1>3. (n * Over(u)) % P \in Field /\ (n * Over(u)) % P \in Int /\ Same((n * Over(u)) % P, n * Over(u))
  BY <1>2, SameRemainder
<1>4. Same(((n * Over(u)) % P) * u, (n * Over(u)) * u)
  BY <1>2, <1>3, SameTimes DEF Same
<1>5. (n * Over(u)) * u = n * (u * Over(u))
  BY <1>2
<1>6. Same(u * Over(u), 1)
  <2>1. 1 \in Field
    BY SizesAssumption DEF Field
  <2> QED
    BY <2>1, <1>1, FieldIsReduced DEF Same
<1>7. Same(n * (u * Over(u)), n * 1)
  BY <1>2, <1>6, SameTimes DEF Same
<1>8. n * 1 = n
  BY <1>2
<1> QED
  BY <1>3, <1>4, <1>5, <1>7, <1>8 DEF Same

\* A row of terms of which few count, one of them singled out.
LEMMA TotalPart ==
  ASSUME NEW f, \A k \in Index : f[k] \in Int, NEW S \in SUBSET Index, NEW p \in Index \ S,
         \A k \in Index : k \notin S /\ k # p => f[k] = 0
  PROVE  /\ Total(f, S) \in Field
         /\ Total(f, Index) = (f[p] + Total(f, S)) % P
<1>1. S \union {p} \in SUBSET Index /\ IsFiniteSet(Index) /\ IsFiniteSet(S)
  BY IndexFacts, FS_Subset
<1>2. \A k \in Index \ (S \union {p}) : Same(f[k], 0)
  BY DEF Same
<1>3. Total(f, Index) = Total(f, S \union {p})
  BY <1>1, <1>2, TotalOver
<1>4. Total(f, S \union {p}) = (f[p] + Total(f, S)) % P /\ Total(f, S) \in Field
  BY <1>1, TotalGrows
<1> QED
  BY <1>3, <1>4

\* The factors as full matrices.
LL(i, k) == IF k = i THEN 1 ELSE IF <<i, k>> \in nzL THEN L(i, k) ELSE 0
UU(k, j) == IF <<k, j>> \in nzU THEN U(k, j) ELSE 0

\* The matrices of the factors are triangular, over the field.
LEMMA FactorsAreTriangular ==
  ASSUME FactorEquations
  PROVE  \A i, j \in Index : /\ LL(i, j) \in Field /\ LL(i, j) \in Int
                             /\ UU(i, j) \in Field /\ UU(i, j) \in Int
                             /\ i < j => LL(i, j) = 0
                             /\ i > j => UU(i, j) = 0
<1>1. 0 \in Field /\ 1 \in Field
  BY SizesAssumption DEF Field
<1> TAKE i, j \in Index
<1>2. LL(i, j) \in Field /\ UU(i, j) \in Field
  BY <1>1 DEF LL, UU, FactorEquations
<1>3. i \in Nat /\ j \in Nat
  BY IndexFacts
<1>4. (i < j => LL(i, j) = 0) /\ (i > j => UU(i, j) = 0)
  BY <1>3 DEF LL, UU, FactorEquations
<1> QED
  BY <1>2, <1>4 DEF Field

\* The product of the factors is W, at an entry of U, at an entry of L and at a
\* position that the plan leaves out.
LEMMA FactorsMultiply ==
  ASSUME FactorEquations, NEW i \in Index, NEW j \in Index
  PROVE  Total([k \in Index |-> LL(i, k) * UU(k, j)], Index) = w[<<i, j>>]
<1> DEFINE f == [k \in Index |-> LL(i, k) * UU(k, j)]
<1>0. \A k \in Index : f[k] = LL(i, k) * UU(k, j) /\ f[k] \in Int
  BY FactorsAreTriangular
<1>n. i \in Nat /\ j \in Nat /\ Index \subseteq Nat
  BY IndexFacts
<1>v. w[<<i, j>>] \in Field
  BY DEF FactorEquations
<1>e. /\ \A k \in Index : <<i, k>> \in nzL => i > k
      /\ \A k \in Index : <<k, j>> \in nzU => k <= j
      /\ \A k \in Index : <<i, k>> \in nzL => L(i, k) \in Int
      /\ \A k \in Index : <<k, j>> \in nzU => U(k, j) \in Int
  BY DEF FactorEquations, Field
<1> HIDE DEF f
<1>z. \A k \in Index : (k # i /\ <<i, k>> \notin nzL) \/ <<k, j>> \notin nzU => f[k] = 0
  <2> TAKE k \in Index
  <2>1. LL(i, k) \in Int /\ UU(k, j) \in Int
    BY FactorsAreTriangular
  <2>2. k # i /\ <<i, k>> \notin nzL => LL(i, k) = 0
    BY DEF LL
  <2>3. <<k, j>> \notin nzU => UU(k, j) = 0
    BY DEF UU
  <2> QED
    BY <2>1, <2>2, <2>3, <1>0
<1>i. \A k \in Index : <<i, k>> \in nzL /\ <<k, j>> \in nzU => f[k] = L(i, k) * U(k, j) /\ f[k] = Product(i, j)[k]
  <2> TAKE k \in Index
  <2> HAVE <<i, k>> \in nzL /\ <<k, j>> \in nzU
  <2>1. k # i
    BY <1>e, <1>n
  <2> QED
    BY <2>1, <1>0 DEF LL, UU, Product
<1>s. \A p \in Index : p <= i /\ p <= j =>
        /\ InnerBelow(i, j, p) \in SUBSET Index /\ p \notin InnerBelow(i, j, p)
        /\ Total(f, InnerBelow(i, j, p)) = Total(Product(i, j), InnerBelow(i, j, p))
  <2> TAKE p \in Index
  <2> HAVE p <= i /\ p <= j
  <2> DEFINE S == InnerBelow(i, j, p)
  <2>1. S \in SUBSET Index /\ p \notin S
    BY <1>n DEF InnerBelow
  <2>2. IsFiniteSet(S)
    BY <2>1, IndexFacts, FS_Subset
  <2>3. \A k \in S : f[k] \in Int /\ Product(i, j)[k] = f[k]
    BY <1>0, <1>i DEF InnerBelow
  <2> HIDE DEF S
  <2>4. Total(f, S) = Total(Product(i, j), S)
    BY <2>2, <2>3, SumsReadTheirTerms
  <2> QED
    BY <2>1, <2>4 DEF S
<1>1. CASE <<i, j>> \in nzU
  <2> DEFINE S == InnerBelow(i, j, i)
  <2>0. i <= i /\ i <= j
    BY <1>1, <1>n DEF FactorEquations
  <2>1. \A k \in Index : k \notin S /\ k # i => f[k] = 0
    <3> TAKE k \in Index
    <3> HAVE k \notin S /\ k # i
    <3>1. <<i, k>> \in nzL => <<k, j>> \notin nzU
      BY <1>e, <1>n DEF InnerBelow
    <3> QED
      BY <3>1, <1>z
  <2>2. S \in SUBSET Index /\ i \in Index \ S /\ Total(f, S) = Total(Product(i, j), S)
    BY <2>0, <1>s
  <2> HIDE DEF S
  <2>3. Total(f, S) \in Field /\ Total(f, Index) = (f[i] + Total(f, S)) % P
    BY <2>1, <2>2, <1>0, TotalPart
  <2>4. f[i] = U(i, j)
    <3>1. U(i, j) \in Int
      BY <1>1, <1>e
    <3>2. LL(i, i) = 1
      BY DEF LL
    <3>3. UU(i, j) = U(i, j)
      BY <1>1 DEF UU
    <3>4. f[i] = 1 * U(i, j)
      BY <1>0, <3>2, <3>3
    <3> QED
      BY <3>1, <3>4
  <2>5. U(i, j) = (w[<<i, j>>] - Total(f, S)) % P
    BY <1>1, <2>2 DEF FactorEquations, S
  <2> QED
    BY <2>3, <2>4, <2>5, <1>v, CancelSubtracted DEF f
<1>2. CASE <<i, j>> \in nzL
  <2> DEFINE S == InnerBelow(i, j, j)
  <2>0. j <= i /\ j <= j /\ j # i /\ <<i, j>> \notin nzU
    BY <1>2, <1>n DEF FactorEquations
  <2>1. \A k \in Index : k \notin S /\ k # j => f[k] = 0
    <3> TAKE k \in Index
    <3> HAVE k \notin S /\ k # j
    <3>1. <<i, k>> \in nzL => <<k, j>> \notin nzU
      BY <1>e, <1>n DEF InnerBelow
    <3> QED
      BY <3>1, <1>z, <2>0
  <2>2. S \in SUBSET Index /\ j \in Index \ S /\ Total(f, S) = Total(Product(i, j), S)
    BY <2>0, <1>s
  <2> HIDE DEF S
  <2>3. Total(f, S) \in Field /\ Total(f, Index) = (f[j] + Total(f, S)) % P
    BY <2>1, <2>2, <1>0, TotalPart
  <2>u. <<j, j>> \in nzU /\ U(j, j) \in Field /\ U(j, j) # 0
    BY DEF FactorEquations
  <2>4. f[j] = L(i, j) * U(j, j)
    BY <1>2, <2>u, <1>i
  <2>5. L(i, j) = (((w[<<i, j>>] - Total(f, S)) % P) * Over(U(j, j))) % P
    BY <1>2, <2>2 DEF FactorEquations, S
  <2> DEFINE num == (w[<<i, j>>] - Total(f, S)) % P
             u == U(j, j)
             s == Total(f, S)
  <2>6. num \in Field /\ (num + s) % P = w[<<i, j>>]
    BY <2>3, <1>v, CancelSubtracted
  <2> HIDE DEF num, u, s
  <2>7. u \in Field /\ u # 0 /\ s \in Field /\ num \in Int /\ s \in Int /\ f[j] \in Int
    BY <2>3, <2>6, <2>u, <1>0 DEF u, s, Field
  <2>8. f[j] = ((num * Over(u)) % P) * u
    BY <2>4, <2>5 DEF num, u, s
  <2>9. Same(f[j], num)
    BY <2>7, <2>8, CancelDivided
  <2>10. Same(f[j] + s, num + s)
    BY <2>7, <2>9, SamePlus DEF Same
  <2> QED
    BY <2>3, <2>6, <2>10 DEF f, s, Same
<1>3. CASE <<i, j>> \notin nzU /\ <<i, j>> \notin nzL
  <2> DEFINE p == IF i <= j THEN i ELSE j
  <2>1. w[<<i, j>>] = 0 /\ InnerBelow(i, j, p) = {}
    BY <1>3 DEF FactorEquations
  <2>2. \A k \in Index : f[k] = 0
    <3> TAKE k \in Index
    <3>1. k # i /\ k # j /\ <<i, k>> \in nzL /\ <<k, j>> \in nzU => k < p
      BY <1>e, <1>n
    <3>2. k # i /\ k # j => <<i, k>> \notin nzL \/ <<k, j>> \notin nzU
      BY <2>1, <3>1 DEF InnerBelow
    <3>3. i = j => k # i
      BY <1>3 DEF FactorEquations
    <3> QED
      BY <3>2, <3>3, <1>z, <1>3
  <2>3. \A k \in Index : f[k] \in Int /\ Same(f[k], 0)
    BY <1>0, <2>2 DEF Same
  <2>4. Total(f, Index) = 0
    BY <2>3, TotalZero, IndexFacts
  <2> QED
    BY <2>1, <2>4 DEF f
<1> QED
  BY <1>1, <1>2, <1>3

\* The same, summed over the entries the pattern has.
LEMMA ReproducesW == FactorEquations /\ phase = "factorized" => FactorsReproduceW
<1> SUFFICES ASSUME FactorEquations, NEW i \in Index, NEW j \in Index
             PROVE  LET inner == {k \in Index : <<k, j>> \in nzU /\ (k = i \/ <<i, k>> \in nzL)}
                    IN  Total([k \in inner |-> (IF k = i THEN 1 ELSE L(i, k)) * U(k, j)], inner) = w[<<i, j>>]
  BY DEF FactorsReproduceW
<1> DEFINE inner == {k \in Index : <<k, j>> \in nzU /\ (k = i \/ <<i, k>> \in nzL)}
           g == [k \in inner |-> (IF k = i THEN 1 ELSE L(i, k)) * U(k, j)]
           f == [k \in Index |-> LL(i, k) * UU(k, j)]
<1>1. \A k \in Index : f[k] \in Int
  BY FactorsAreTriangular
<1>2. \A k \in inner : g[k] = f[k]
  BY DEF LL, UU
<1>3. \A k \in Index \ inner : f[k] = 0
  <2> TAKE k \in Index \ inner
  <2>1. LL(i, k) \in Int /\ UU(k, j) \in Int
    BY FactorsAreTriangular
  <2>2. LL(i, k) = 0 \/ UU(k, j) = 0
    BY DEF LL, UU
  <2> QED
    BY <2>1, <2>2
<1>4. inner \in SUBSET Index
  OBVIOUS
<1>5. Total(f, Index) = w[<<i, j>>]
  BY FactorsMultiply
<1> HIDE DEF f, g, inner
<1>6. Total(f, Index) = Total(f, inner)
  BY <1>1, <1>3, <1>4, TotalOver, IndexFacts DEF Same
<1>7. Total(f, inner) = Total(g, inner)
  BY <1>1, <1>2, <1>4, SumsReadTheirTerms, IndexFacts, FS_Subset
<1> QED
  BY <1>5, <1>6, <1>7 DEF g, inner

\* For every structure and values of W, the registers of a completed factorization
\* are factors of W, with any set of species frozen.
THEOREM FactorsReproduceWHolds == Spec => []FactorsReproduceW
<1>1. IInv => FactorsReproduceW
  <2>1. CASE phase = "factorized"
    BY <2>1, FactorsSatisfyEquations, ReproducesW
  <2>2. CASE phase # "factorized"
    BY <2>2 DEF FactorsReproduceW
  <2> QED
    BY <2>1, <2>2
<1> QED
  BY <1>1, IInvHolds, PTL

------------------------------------------------------------------------------
\* Triangular systems.

\* Row by row, y solves a triangular system whose terms off the diagonal are
\* those of before.
IsSubstitution(before, m, b, c, M) ==
  /\ before \in [Index -> SUBSET Index]
  /\ m \in [Index -> Nat]
  /\ \A i \in Index : m[i] < N + 1
  /\ \A i \in Index : \A k \in before[i] : m[k] < m[i]
  /\ \A i \in Index : b[i] \in Int /\ c[i] \in Int
  /\ \A i, k \in Index : M[i][k] \in Int

\* The value of row i, of those before it.
Substituted(A, before, b, c, M, y, i) ==
  IF i \in A THEN ((b[i] - Total([k \in before[i] |-> M[i][k] * y[k]], before[i])) * c[i]) % P ELSE 0

\* The substitution has a result.
HasSubstitution(A, before, b, c, M) ==
  \E y \in [Index -> Field] : \A i \in Index : y[i] = Substituted(A, before, b, c, M, y, i)

\* A row of a matrix, restricted, times a vector.
LEMMA TermsAreTotalled ==
  ASSUME NEW r, \A k \in Index : r[k] \in Int, NEW S \in SUBSET Index, NEW y \in [Index -> Field]
  PROVE  Total([k \in S |-> r[k] * y[k]], S) \in Field
<1> DEFINE f == [k \in S |-> r[k] * y[k]]
<1>1. IsFiniteSet(S)
  BY IndexFacts, FS_Subset
<1>2. \A k \in S : f[k] \in Int
  <2> TAKE k \in S
  <2>1. r[k] \in Int /\ y[k] \in Int
    BY DEF Field
  <2> QED
    BY <2>1
<1> HIDE DEF f
<1>3. Total(f, S) \in Field
  BY <1>1, <1>2, TotalSplit
<1> QED
  BY <1>3 DEF f

\* Every substitution has a result: each value depends on those before.
LEMMA SubstitutionExists ==
  ASSUME NEW A, NEW before, NEW m, NEW b, NEW c, NEW M, IsSubstitution(before, m, b, c, M)
  PROVE  HasSubstitution(A, before, b, c, M)
<1> DEFINE step == [i \in Index |-> [y \in [Index -> Field] |-> Substituted(A, before, b, c, M, y, i)]]
           nn == N + 1
<1>1. ASSUME NEW i \in Index, NEW y \in [Index -> Field]
      PROVE  Substituted(A, before, b, c, M, y, i) \in Field
  <2> DEFINE r == M[i]
             S == before[i]
             t == Total([k \in S |-> r[k] * y[k]], S)
  <2>1. t \in Field
    <3>1. (\A k \in Index : r[k] \in Int) /\ S \in SUBSET Index
      BY DEF IsSubstitution
    <3> HIDE DEF r, S
    <3> QED
      BY <3>1, TermsAreTotalled
  <2>2. Substituted(A, before, b, c, M, y, i) = IF i \in A THEN ((b[i] - t) * c[i]) % P ELSE 0
    BY DEF Substituted
  <2> HIDE DEF t
  <2>3. t \in Int /\ b[i] \in Int /\ c[i] \in Int /\ 0 \in Field
    BY <2>1, SizesAssumption DEF Field, IsSubstitution
  <2>4. (b[i] - t) * c[i] \in Int
    BY <2>3
  <2>5. ((b[i] - t) * c[i]) % P \in Field
    BY <2>4, SameRemainder
  <2> QED
    BY <2>2, <2>3, <2>5
<1>2. step \in [Index -> [[Index -> Field] -> Field]]
  BY <1>1
<1>3. ASSUME NEW i \in Index, NEW f \in [Index -> Field], NEW g \in [Index -> Field],
             \A k \in Index : m[k] < m[i] => f[k] = g[k]
      PROVE  step[i][f] = step[i][g]
  <2>1. \A k \in before[i] : f[k] = g[k]
    BY <1>3 DEF IsSubstitution
  <2>2. [k \in before[i] |-> M[i][k] * f[k]] = [k \in before[i] |-> M[i][k] * g[k]]
    BY <2>1
  <2> QED
    BY <2>2 DEF Substituted
<1>4. /\ Field # {} /\ m \in [Index -> Nat] /\ nn \in Nat
      /\ \A i \in Index : m[i] < nn
  <2>1. 0 \in Field /\ nn \in Nat
    BY SizesAssumption DEF Field
  <2> QED
    BY <2>1 DEF IsSubstitution
<1> DEFINE D == Field
<1>5. IsRecursion(Index, D, m, nn, step)
  <2> HIDE DEF step, nn
  <2> QED
    BY <1>2, <1>3, <1>4 DEF IsRecursion
<1>6. PICK y \in [Index -> D] : \A i \in Index : y[i] = step[i][y]
  <2> HIDE DEF step, nn, D
  <2> QED
    BY <1>5, Recursion
<1>7. \A i \in Index : y[i] = Substituted(A, before, b, c, M, y, i)
  BY <1>6
<1> QED
  BY <1>7 DEF HasSubstitution

\* Two functions are equal at every index if they are wherever they agree at
\* every index of lesser measure.
Agree(m, f, g) ==
  /\ m \in [Index -> Nat]
  /\ \A i \in Index : (\A k \in Index : m[k] < m[i] => f[k] = g[k]) => f[i] = g[i]

\* Functions that agree step by step agree.
LEMMA Agreement ==
  ASSUME NEW m, NEW f, NEW g, Agree(m, f, g)
  PROVE  \A i \in Index : f[i] = g[i]
<1> USE DEF Agree
<1> DEFINE T == {n \in Nat : \A i \in Index : m[i] < n => f[i] = g[i]}
<1>1. 0 \in T
  OBVIOUS
<1>2. ASSUME NEW n \in Nat, n \in T PROVE n + 1 \in T
  <2> SUFFICES ASSUME NEW i \in Index, m[i] < n + 1 PROVE f[i] = g[i]
    OBVIOUS
  <2>1. \A k \in Index : m[k] < m[i] => m[k] < n
    <3>1. m[i] \in Nat /\ \A k \in Index : m[k] \in Nat
      OBVIOUS
    <3> QED
      BY <3>1
  <2> QED
    BY <2>1, <1>2
<1> HIDE DEF T
<1>3. Nat \subseteq T
  BY <1>1, <1>2, NatInduct
<1> TAKE i \in Index
<1>4. m[i] \in Nat /\ m[i] + 1 \in Nat /\ m[i] < m[i] + 1
  OBVIOUS
<1> QED
  BY <1>3, <1>4 DEF T

\* Congruence is kept by multiples.
LEMMA SameMultiple ==
  ASSUME NEW c \in Int, NEW x \in Int, NEW y \in Int, Same(x, y)
  PROVE  Same(c * x, c * y)
<1>1. Same(c, c)
  BY DEF Same
<1> QED
  BY <1>1, SameTimes

\* The value a substitution gives to y[i] solves row i.
LEMMA RowSolved ==
  ASSUME NEW i \in Index, NEW r, \A k \in Index : r[k] \in Int,
         NEW y \in [Index -> Field], NEW S \in SUBSET Index, i \notin S,
         \A k \in Index : k \notin S /\ k # i => r[k] = 0,
         NEW v \in Int, NEW c \in Int, Same(r[i] * c, 1),
         y[i] = ((v - Total([k \in S |-> r[k] * y[k]], S)) * c) % P
  PROVE  Same(Total([k \in Index |-> r[k] * y[k]], Index), v)
<1> DEFINE f == [k \in Index |-> r[k] * y[k]]
           h == [k \in S |-> r[k] * y[k]]
           s == Total(h, S)
<1>0. \A k \in Index : r[k] \in Int /\ y[k] \in Int
  BY DEF Field
<1>1. \A k \in Index : f[k] = r[k] * y[k] /\ f[k] \in Int /\ (k \notin S /\ k # i => f[k] = 0)
  BY <1>0
<1>2. \A k \in S : h[k] = f[k]
  OBVIOUS
<1>s. s \in Field
  BY TermsAreTotalled
<1>t. y[i] = ((v - s) * c) % P
  OBVIOUS
<1> HIDE DEF f, h
<1>3. Total(f, Index) = (f[i] + Total(f, S)) % P
  BY <1>1, TotalPart
<1>4. Total(f, S) = s
  <2>1. IsFiniteSet(S)
    BY IndexFacts, FS_Subset
  <2> QED
    BY <2>1, <1>1, <1>2, SumsReadTheirTerms DEF s
<1> HIDE DEF s
<1>5. s \in Int /\ v - s \in Int /\ r[i] \in Int /\ (v - s) * c \in Int /\ r[i] * c \in Int
      /\ y[i] \in Int /\ f[i] \in Int
  BY <1>s, <1>0, <1>1 DEF Field
<1>6. Same(f[i], v - s)
  <2>1. Same(y[i], (v - s) * c)
    BY <1>t, <1>5, SameRemainder
  <2>2. Same(r[i] * y[i], r[i] * ((v - s) * c))
    BY <2>1, <1>5, SameMultiple
  <2>3. r[i] * ((v - s) * c) = (v - s) * (r[i] * c)
    BY <1>5
  <2>4. Same((v - s) * (r[i] * c), (v - s) * 1)
    BY <1>5, SameTimes DEF Same
  <2>5. (v - s) * 1 = v - s
    BY <1>5
  <2> QED
    BY <1>1, <2>2, <2>3, <2>4, <2>5 DEF Same
<1>7. Same(f[i] + s, (v - s) + s)
  BY <1>5, <1>6, SamePlus DEF Same
<1>8. (v - s) + s = v /\ f[i] + s \in Int
  BY <1>5
<1>9. Same((f[i] + s) % P, f[i] + s)
  BY <1>8, SameRemainder
<1>10. Same(Total(f, Index), v)
  BY <1>3, <1>4, <1>7, <1>8, <1>9 DEF Same
<1> QED
  BY <1>10 DEF f

\* A matrix and its product with another, by row and column.
IsProduct(A, B, C) ==
  /\ \A i, j \in Index : A[i][j] \in Int /\ B[i][j] \in Int /\ C[i][j] \in Int
  /\ \A i, j \in Index : Total([k \in Index |-> A[i][k] * B[k][j]], Index) = C[i][j]
Solves(A, x, b) == \A i \in Index : Same(Total([k \in Index |-> A[i][k] * x[k]], Index), b[i])

\* The same with equality: the totals are in the field.
SolvesExactly(C, x, b) == \A i \in Index : Total([j \in Index |-> C[i][j] * x[j]], Index) = b[i]

\* To solve with the first factor, then with the second, is to solve with the
\* product.
LEMMA SolveChain ==
  ASSUME NEW A, NEW B, NEW C, IsProduct(A, B, C),
         NEW x \in [Index -> Field], NEW y \in [Index -> Field], NEW b \in [Index -> Field],
         Solves(A, y, b), Solves(B, x, y)
  PROVE  SolvesExactly(C, x, b)
<1> SUFFICES ASSUME NEW i \in Index PROVE Total([j \in Index |-> C[i][j] * x[j]], Index) = b[i]
  BY DEF SolvesExactly
<1>f. IsFiniteSet(Index)
  BY IndexFacts
<1>0. \A k \in Index : x[k] \in Int /\ y[k] \in Int /\ b[k] \in Int
  BY DEF Field
<1>m. \A k, j \in Index : A[k][j] \in Int /\ B[k][j] \in Int /\ C[k][j] \in Int
  BY DEF IsProduct
<1> DEFINE a == [j \in Index |-> [k \in Index |-> x[j] * (A[i][k] * B[k][j])]]
           g == [j \in Index |-> C[i][j] * x[j]]
           h == [k \in Index |-> A[i][k] * y[k]]
           ga == [j \in Index |-> Total(a[j], Index)]
           ha == [k \in Index |-> Total([j \in Index |-> a[j][k]], Index)]
<1>a. \A j, k \in Index : a[j][k] \in Int
  BY <1>0, <1>m
<1>1. \A j \in Index : ga[j] \in Int /\ g[j] \in Int /\ Same(ga[j], g[j])
  <2> TAKE j \in Index
  <2> DEFINE p == [k \in Index |-> A[i][k] * B[k][j]]
  <2>1. \A k \in Index : p[k] \in Int
    BY <1>m
  <2>2. a[j] = [k \in Index |-> x[j] * p[k]]
    OBVIOUS
  <2>3. Total(p, Index) = C[i][j]
    BY DEF IsProduct
  <2> HIDE DEF p, a
  <2>4. Total(a[j], Index) = (x[j] * C[i][j]) % P
    BY <1>f, <1>0, <2>1, <2>2, <2>3, TotalTimes
  <2>5. x[j] * C[i][j] = C[i][j] * x[j] /\ x[j] * C[i][j] \in Int
    BY <1>0, <1>m
  <2> QED
    BY <2>4, <2>5, SameRemainder
<1>2. \A k \in Index : ha[k] \in Int /\ h[k] \in Int /\ Same(ha[k], h[k])
  <2> TAKE k \in Index
  <2> DEFINE p == [j \in Index |-> B[k][j] * x[j]]
             q == [j \in Index |-> a[j][k]]
  <2>1. \A j \in Index : p[j] \in Int
    BY <1>m, <1>0
  <2>2. q = [j \in Index |-> A[i][k] * p[j]]
    <3>1. \A j \in Index : x[j] * (A[i][k] * B[k][j]) = A[i][k] * (B[k][j] * x[j])
      BY <1>m, <1>0
    <3> QED
      BY <3>1
  <2>3. Same(Total(p, Index), y[k])
    BY DEF Solves
  <2> HIDE DEF p, a
  <2>4. Total(q, Index) = (A[i][k] * Total(p, Index)) % P /\ Total(p, Index) \in Field
    <3> HIDE DEF q
    <3> QED
      BY <1>f, <1>m, <2>1, <2>2, TotalTimes, TotalSplit
  <2>5. Total(p, Index) \in Int /\ A[i][k] * Total(p, Index) \in Int /\ A[i][k] * y[k] \in Int
    BY <2>4, <1>m, <1>0 DEF Field
  <2>6. Same(A[i][k] * Total(p, Index), A[i][k] * y[k])
    BY <2>3, <2>5, <1>0, <1>m, SameMultiple
  <2>7. ha[k] = (A[i][k] * Total(p, Index)) % P /\ h[k] = A[i][k] * y[k]
    BY <2>4
  <2> QED
    BY <2>5, <2>6, <2>7, SameRemainder DEF Same
<1>3. Total(ga, Index) = Total(ha, Index)
  <2> HIDE DEF a
  <2> QED
    BY <1>f, <1>a, TotalExchange
<1>4. Same(Total(h, Index), b[i])
  BY DEF Solves
<1> HIDE DEF g, h, ga, ha
<1>5. Total(ga, Index) = Total(g, Index) /\ Total(ha, Index) = Total(h, Index)
  BY <1>f, <1>1, <1>2, TotalSame
<1>6. Total(h, Index) \in Field /\ b[i] \in Field
  BY <1>f, <1>2, TotalSplit
<1>7. Total(h, Index) = b[i]
  BY <1>4, <1>6, FieldIsReduced DEF Same
<1> QED
  BY <1>3, <1>5, <1>7 DEF g

------------------------------------------------------------------------------
\* The factors as triangular systems.

\* What a substitution ascends or descends by, and divides by.
Upward == [i \in Index |-> i]
Downward == [i \in Index |-> N - i]
Ones == [i \in Index |-> 1]
OverPivots == [i \in Index |-> Over(U(i, i))]

\* The factors and W as functions of row and column, and transposed.
LowerRows == [i \in Index |-> [k \in Index |-> LL(i, k)]]
UpperRows == [i \in Index |-> [k \in Index |-> UU(i, k)]]
LowerColumns == [i \in Index |-> [k \in Index |-> LL(k, i)]]
UpperColumns == [i \in Index |-> [k \in Index |-> UU(k, i)]]
WRows == [i \in Index |-> [k \in Index |-> w[<<i, k>>]]]
WColumns == [i \in Index |-> [k \in Index |-> w[<<k, i>>]]]

\* The terms off the diagonal of the four factors.
LeftOf(i) == {k \in block[i] : k < i /\ <<i, k>> \in nzL}
RightOf(i) == {k \in block[i] : k > i /\ <<i, k>> \in nzU}
Above(i) == {k \in Index : k < i /\ <<k, i>> \in nzU}
Below(i) == {k \in Index : k > i /\ <<k, i>> \in nzL}

\* Indices ascend with the first measure and descend with the second.
LEMMA Measures ==
  /\ Upward \in [Index -> Nat] /\ Downward \in [Index -> Nat]
  /\ \A i \in Index : Upward[i] < N + 1 /\ Downward[i] < N + 1
  /\ \A i, k \in Index : k < i <=> Upward[k] < Upward[i]
  /\ \A i, k \in Index : k > i <=> Downward[k] < Downward[i]
<1>1. N \in Nat /\ \A i \in Index : i \in Nat /\ i < N /\ N - i \in Nat /\ i < N + 1 /\ N - i < N + 1
  BY SizesAssumption, IndexFacts
<1> QED
  BY <1>1 DEF Upward, Downward

\* The matrices of the factors multiply to W, and transposed to W transposed.
LEMMA FactorMatrices ==
  ASSUME FactorEquations
  PROVE  /\ \A i, k \in Index : /\ LowerRows[i][k] \in Int /\ UpperRows[i][k] \in Int
                                /\ LowerColumns[i][k] \in Int /\ UpperColumns[i][k] \in Int
                                /\ LowerRows[i][k] = LL(i, k) /\ UpperRows[i][k] = UU(i, k)
                                /\ LowerColumns[i][k] = LL(k, i) /\ UpperColumns[i][k] = UU(k, i)
         /\ IsProduct(LowerRows, UpperRows, WRows)
         /\ IsProduct(UpperColumns, LowerColumns, WColumns)
<1>1. \A i, k \in Index : LL(i, k) \in Int /\ UU(i, k) \in Int
  BY FactorsAreTriangular
<1>2. \A i, k \in Index : w[<<i, k>>] \in Int
  <2>1. \A i, k \in Index : w[<<i, k>>] \in Field
    BY DEF FactorEquations
  <2>2. \A x \in Field : x \in Int
    BY DEF Field
  <2> QED
    BY <2>1, <2>2
<1>3. ASSUME NEW i \in Index, NEW j \in Index
      PROVE  Total([k \in Index |-> LL(i, k) * UU(k, j)], Index) = w[<<i, j>>]
  BY FactorsMultiply
<1>4. IsProduct(LowerRows, UpperRows, WRows)
  <2>1. \A i, j \in Index : [k \in Index |-> LowerRows[i][k] * UpperRows[k][j]] = [k \in Index |-> LL(i, k) * UU(k, j)]
    BY DEF LowerRows, UpperRows
  <2>2. \A i, j \in Index : LowerRows[i][j] \in Int /\ UpperRows[i][j] \in Int /\ WRows[i][j] \in Int
    BY <1>1, <1>2 DEF LowerRows, UpperRows, WRows
  <2>3. \A i, j \in Index : WRows[i][j] = w[<<i, j>>]
    BY DEF WRows
  <2> QED
    BY <2>1, <2>2, <2>3, <1>3 DEF IsProduct
<1>5. IsProduct(UpperColumns, LowerColumns, WColumns)
  <2>1. \A i, j \in Index :
          [k \in Index |-> UpperColumns[i][k] * LowerColumns[k][j]]
            = [k \in Index |-> LL(j, k) * UU(k, i)]
    <3>1. \A i, j, k \in Index : UpperColumns[i][k] * LowerColumns[k][j] = LL(j, k) * UU(k, i)
      <4> TAKE i, j, k \in Index
      <4>1. UpperColumns[i][k] = UU(k, i) /\ LowerColumns[k][j] = LL(j, k)
        BY DEF UpperColumns, LowerColumns
      <4> QED
        BY <4>1, <1>1
    <3> QED
      BY <3>1
  <2>2. \A i, j \in Index : LowerColumns[i][j] \in Int /\ UpperColumns[i][j] \in Int /\ WColumns[i][j] \in Int
    BY <1>1, <1>2 DEF LowerColumns, UpperColumns, WColumns
  <2>3. \A i, j \in Index : WColumns[i][j] = w[<<j, i>>]
    BY DEF WColumns
  <2>4. ASSUME NEW i \in Index, NEW j \in Index
        PROVE  Total([k \in Index |-> UpperColumns[i][k] * LowerColumns[k][j]], Index) = WColumns[i][j]
    <3>1. Total([k \in Index |-> LL(j, k) * UU(k, i)], Index) = w[<<j, i>>]
      BY <1>3
    <3> QED
      BY <3>1, <2>1, <2>3
  <2> QED
    BY <2>2, <2>4 DEF IsProduct
<1>6. \A i, k \in Index : /\ LowerRows[i][k] = LL(i, k) /\ UpperRows[i][k] = UU(i, k)
                          /\ LowerColumns[i][k] = LL(k, i) /\ UpperColumns[i][k] = UU(k, i)
  BY DEF LowerRows, UpperRows, LowerColumns, UpperColumns
<1> QED
  BY <1>1, <1>4, <1>5, <1>6

\* What the four substitutions rest on.
LEMMA FactorRows ==
  ASSUME FactorEquations, NEW i \in Index
  PROVE  /\ LeftOf(i) \in SUBSET Index /\ \A k \in LeftOf(i) : k < i /\ LL(i, k) = L(i, k)
         /\ RightOf(i) \in SUBSET Index /\ \A k \in RightOf(i) : k > i /\ UU(i, k) = U(i, k)
         /\ Above(i) \in SUBSET Index /\ \A k \in Above(i) : k < i /\ UU(k, i) = U(k, i)
         /\ Below(i) \in SUBSET Index /\ \A k \in Below(i) : k > i /\ LL(k, i) = L(k, i)
         /\ \A k \in Index : k \notin LeftOf(i) /\ k # i => LL(i, k) = 0
         /\ \A k \in Index : k \notin RightOf(i) /\ k # i => UU(i, k) = 0
         /\ \A k \in Index : k \notin Above(i) /\ k # i => UU(k, i) = 0
         /\ \A k \in Index : k \notin Below(i) /\ k # i => LL(k, i) = 0
         /\ LL(i, i) = 1 /\ UU(i, i) = U(i, i)
<1>n. Index \subseteq Nat
  BY IndexFacts
<1>1. /\ \A k \in Index : <<i, k>> \in nzL => i > k /\ k \in block[i]
      /\ \A k \in Index : <<i, k>> \in nzU => i <= k /\ k \in block[i]
      /\ \A k \in Index : <<k, i>> \in nzL => k > i
      /\ \A k \in Index : <<k, i>> \in nzU => k <= i
      /\ <<i, i>> \in nzU /\ nzL \subseteq Pairs /\ nzU \subseteq Pairs
  BY DEF FactorEquations
<1>2. \A k \in Int : (k < i \/ k > i) => k # i
  BY <1>n
<1>3. LeftOf(i) \in SUBSET Index /\ \A k \in LeftOf(i) : k < i /\ LL(i, k) = L(i, k)
  BY <1>1, <1>n, <1>2 DEF LeftOf, LL, Pairs
<1>4. RightOf(i) \in SUBSET Index /\ \A k \in RightOf(i) : k > i /\ UU(i, k) = U(i, k)
  BY <1>1, <1>n, <1>2 DEF RightOf, UU, Pairs
<1>5. Above(i) \in SUBSET Index /\ \A k \in Above(i) : k < i /\ UU(k, i) = U(k, i)
  BY <1>1, <1>n, <1>2 DEF Above, UU
<1>6. Below(i) \in SUBSET Index /\ \A k \in Below(i) : k > i /\ LL(k, i) = L(k, i)
  BY <1>1, <1>n, <1>2 DEF Below, LL
<1>7. \A k \in Index : k \notin LeftOf(i) /\ k # i => LL(i, k) = 0
  BY <1>1, <1>n DEF LeftOf, LL
<1>8. \A k \in Index : k \notin RightOf(i) /\ k # i => UU(i, k) = 0
  BY <1>1, <1>n DEF RightOf, UU
<1>9. \A k \in Index : k \notin Above(i) /\ k # i => UU(k, i) = 0
  BY <1>1, <1>n DEF Above, UU
<1>10. \A k \in Index : k \notin Below(i) /\ k # i => LL(k, i) = 0
  BY <1>1, <1>n DEF Below, LL
<1>11. LL(i, i) = 1 /\ UU(i, i) = U(i, i)
  BY <1>1 DEF LL, UU
<1> QED
  BY <1>3, <1>4, <1>5, <1>6, <1>7, <1>8, <1>9, <1>10, <1>11

\* The four pairs of steps are substitutions.
LEMMA FactorSubstitutions ==
  ASSUME FactorEquations, NEW b, \A i \in Index : b[i] \in Int
  PROVE  /\ IsSubstitution([i \in Index |-> LeftOf(i)], Upward, b, Ones, LowerRows)
         /\ IsSubstitution([i \in Index |-> RightOf(i)], Downward, b, OverPivots, UpperRows)
         /\ IsSubstitution([i \in Index |-> Above(i)], Upward, b, OverPivots, UpperColumns)
         /\ IsSubstitution([i \in Index |-> Below(i)], Downward, b, Ones, LowerColumns)
<1>1. \A i \in Index : Ones[i] \in Int /\ OverPivots[i] \in Int
  <2> TAKE i \in Index
  <2>1. U(i, i) \in Field /\ U(i, i) # 0
    BY DEF FactorEquations
  <2>2. Over(U(i, i)) \in Int
    BY <2>1, OverInverts DEF Field
  <2> QED
    BY <2>2 DEF Ones, OverPivots
<1>2. /\ [i \in Index |-> LeftOf(i)] \in [Index -> SUBSET Index]
      /\ [i \in Index |-> RightOf(i)] \in [Index -> SUBSET Index]
      /\ [i \in Index |-> Above(i)] \in [Index -> SUBSET Index]
      /\ [i \in Index |-> Below(i)] \in [Index -> SUBSET Index]
  BY FactorRows
<1>3. \A i \in Index : /\ \A k \in LeftOf(i) : Upward[k] < Upward[i]
                       /\ \A k \in RightOf(i) : Downward[k] < Downward[i]
                       /\ \A k \in Above(i) : Upward[k] < Upward[i]
                       /\ \A k \in Below(i) : Downward[k] < Downward[i]
  <2> TAKE i \in Index
  <2>1. \A k \in LeftOf(i) : k \in Index /\ k < i
    BY FactorRows
  <2>2. \A k \in RightOf(i) : k \in Index /\ k > i
    BY FactorRows
  <2>3. \A k \in Above(i) : k \in Index /\ k < i
    BY FactorRows
  <2>4. \A k \in Below(i) : k \in Index /\ k > i
    BY FactorRows
  <2> QED
    BY <2>1, <2>2, <2>3, <2>4, Measures
<1> QED
  BY <1>1, <1>2, <1>3, Measures, FactorMatrices DEF IsSubstitution

\* Nothing off the diagonal but the terms before, and c inverts the diagonal.
IsTriangular(before, c, M) ==
  \A i \in Index :
    /\ i \notin before[i]
    /\ \A k \in Index : k \notin before[i] /\ k # i => M[i][k] = 0
    /\ Same(M[i][i] * c[i], 1)

\* A substitution in a triangular matrix solves the rows it computes and gives 0
\* to the others.
LEMMA SubstitutedSolves ==
  ASSUME NEW A, NEW before, NEW m, NEW b, NEW c, NEW M,
         IsSubstitution(before, m, b, c, M), IsTriangular(before, c, M),
         NEW y \in [Index -> Field], \A i \in Index : y[i] = Substituted(A, before, b, c, M, y, i)
  PROVE  \A i \in Index : IF i \in A THEN Same(Total([k \in Index |-> M[i][k] * y[k]], Index), b[i]) ELSE y[i] = 0
<1> TAKE i \in Index
<1>1. CASE i \in A
  <2> DEFINE r == M[i]
             S == before[i]
             v == b[i]
             d == c[i]
  <2>1. y[i] = ((v - Total([k \in S |-> r[k] * y[k]], S)) * d) % P
    BY <1>1 DEF Substituted
  <2>2. /\ \A k \in Index : r[k] \in Int
        /\ S \in SUBSET Index /\ v \in Int /\ d \in Int
    BY DEF IsSubstitution
  <2>3. /\ i \notin S
        /\ \A k \in Index : k \notin S /\ k # i => r[k] = 0
        /\ Same(r[i] * d, 1)
    BY DEF IsTriangular
  <2>4. Same(Total([k \in Index |-> r[k] * y[k]], Index), v)
    <3> HIDE DEF r, S, v, d
    <3> QED
      BY <2>1, <2>2, <2>3, RowSolved
  <2> QED
    BY <2>4, <1>1
<1>2. CASE i \notin A
  BY <1>2 DEF Substituted
<1> QED
  BY <1>1, <1>2

\* The factors, their rows and their columns, are triangular and have the
\* diagonal that the steps divide by.
LEMMA FactorsTriangular ==
  ASSUME FactorEquations
  PROVE  /\ IsTriangular([i \in Index |-> LeftOf(i)], Ones, LowerRows)
         /\ IsTriangular([i \in Index |-> RightOf(i)], OverPivots, UpperRows)
         /\ IsTriangular([i \in Index |-> Above(i)], OverPivots, UpperColumns)
         /\ IsTriangular([i \in Index |-> Below(i)], Ones, LowerColumns)
<1>1. \A i \in Index : Same(LL(i, i) * Ones[i], 1) /\ Same(UU(i, i) * OverPivots[i], 1)
  <2> TAKE i \in Index
  <2>1. LL(i, i) = 1 /\ UU(i, i) = U(i, i) /\ U(i, i) \in Field /\ U(i, i) # 0
    BY FactorRows DEF FactorEquations
  <2>2. LL(i, i) * Ones[i] = 1
    BY <2>1 DEF Ones
  <2>3. (U(i, i) * Over(U(i, i))) % P = 1
    BY <2>1, OverInverts
  <2>4. 1 % P = 1
    BY FieldIsReduced, SizesAssumption DEF Field
  <2> QED
    BY <2>1, <2>2, <2>3, <2>4 DEF Same, OverPivots
<1>2. \A i \in Index : i \notin LeftOf(i) /\ i \notin RightOf(i) /\ i \notin Above(i) /\ i \notin Below(i)
  <2> TAKE i \in Index
  <2>1. ~(i < i) /\ ~(i > i)
    BY IndexFacts
  <2> QED
    BY <2>1 DEF LeftOf, RightOf, Above, Below
<1>3. \A i, k \in Index : /\ LowerRows[i][k] = LL(i, k) /\ UpperRows[i][k] = UU(i, k)
                          /\ LowerColumns[i][k] = LL(k, i) /\ UpperColumns[i][k] = UU(k, i)
  BY FactorMatrices
<1>4. ASSUME NEW i \in Index
      PROVE  /\ \A k \in Index : k \notin LeftOf(i) /\ k # i => LL(i, k) = 0
             /\ \A k \in Index : k \notin RightOf(i) /\ k # i => UU(i, k) = 0
             /\ \A k \in Index : k \notin Above(i) /\ k # i => UU(k, i) = 0
             /\ \A k \in Index : k \notin Below(i) /\ k # i => LL(k, i) = 0
  BY FactorRows
<1>5. IsTriangular([i \in Index |-> LeftOf(i)], Ones, LowerRows)
  BY <1>1, <1>2, <1>3, <1>4 DEF IsTriangular
<1>6. IsTriangular([i \in Index |-> RightOf(i)], OverPivots, UpperRows)
  BY <1>1, <1>2, <1>3, <1>4 DEF IsTriangular
<1>7. IsTriangular([i \in Index |-> Above(i)], OverPivots, UpperColumns)
  BY <1>1, <1>2, <1>3, <1>4 DEF IsTriangular
<1>8. IsTriangular([i \in Index |-> Below(i)], Ones, LowerColumns)
  BY <1>1, <1>2, <1>3, <1>4 DEF IsTriangular
<1> QED
  BY <1>5, <1>6, <1>7, <1>8

\* The forward steps, as a function of their own result.
Forward(b, y) ==
  [i \in Index |->
     (b[i] - Total([k \in LeftOf(i) |-> L(i, k) * y[k]], LeftOf(i))) % P]

\* The values y of the forward steps exist and lie in the field.
LEMMA ForwardIsDefined ==
  ASSUME FactorEquations, NEW b, \A i \in Index : b[i] \in Int, NEW y, y = CHOOSE h : h = Forward(b, h)
  PROVE  /\ y \in [Index -> Field]
         /\ \A i \in Index : y[i] = Substituted(Index, [j \in Index |-> LeftOf(j)], b, Ones, LowerRows, y, i)
         /\ y = Forward(b, y)
<1> DEFINE before == [i \in Index |-> LeftOf(i)]
<1>1. IsSubstitution(before, Upward, b, Ones, LowerRows)
  BY FactorSubstitutions
<1>b. \A i \in Index : before[i] = LeftOf(i)
  OBVIOUS
<1> HIDE DEF before
<1>h. HasSubstitution(Index, before, b, Ones, LowerRows)
  BY <1>1, SubstitutionExists
<1>2. PICK g \in [Index -> Field] :
        \A i \in Index : g[i] = Substituted(Index, before, b, Ones, LowerRows, g, i)
  BY <1>h DEF HasSubstitution
<1>3. ASSUME NEW i \in Index PROVE g[i] = Forward(b, g)[i]
  <2> DEFINE r == LowerRows[i]
             S == LeftOf(i)
             t == Total([k \in S |-> r[k] * g[k]], S)
  <2>1. S \in SUBSET Index /\ \A k \in S : r[k] = L(i, k)
    BY FactorRows, FactorMatrices
  <2>2. \A k \in Index : r[k] \in Int
    BY FactorMatrices
  <2>3. t \in Int
    <3> HIDE DEF r, S
    <3>1. t \in Field
      BY <2>1, <2>2, TermsAreTotalled
    <3> QED
      BY <3>1 DEF Field
  <2>4. [k \in S |-> r[k] * g[k]] = [k \in S |-> L(i, k) * g[k]]
    BY <2>1
  <2>5. g[i] = IF i \in Index THEN ((b[i] - t) * Ones[i]) % P ELSE 0
    BY <1>2, <1>b DEF Substituted
  <2>6. Forward(b, g)[i] = (b[i] - t) % P
    BY <2>4 DEF Forward
  <2> HIDE DEF t
  <2>7. (b[i] - t) * Ones[i] = b[i] - t
    BY <2>3 DEF Ones
  <2> QED
    BY <2>5, <2>6, <2>7
<1>4. g = Forward(b, g)
  BY <1>3 DEF Forward
<1>5. y = Forward(b, y)
  BY <1>4
<1>6. ASSUME NEW i \in Index, \A k \in Index : Upward[k] < Upward[i] => y[k] = g[k]
      PROVE  y[i] = g[i]
  <2>1. \A k \in LeftOf(i) : k \in Index /\ k < i
    BY FactorRows
  <2>2. \A k \in LeftOf(i) : y[k] = g[k]
    BY <2>1, <1>6, Measures
  <2>3. [k \in LeftOf(i) |-> L(i, k) * y[k]] = [k \in LeftOf(i) |-> L(i, k) * g[k]]
    BY <2>2
  <2>4. Forward(b, y)[i] = Forward(b, g)[i]
    BY <2>3 DEF Forward
  <2> QED
    BY <2>4, <1>4, <1>5
<1>7. \A i \in Index : y[i] = g[i]
  <2>1. Agree(Upward, y, g)
    BY <1>6, Measures DEF Agree
  <2> QED
    BY <2>1, Agreement
<1>8. y = g
  <2>1. y = [i \in Index |-> y[i]]
    BY <1>5 DEF Forward
  <2> QED
    BY <2>1, <1>7
<1> QED
  BY <1>2, <1>5, <1>8 DEF before

\* The backward steps.
Backward(b, y) ==
  [i \in Index |->
     ((b[i] - Total([k \in RightOf(i) |-> U(i, k) * y[k]], RightOf(i))) * Over(U(i, i))) % P]

\* The values x of the backward steps exist and lie in the field.
LEMMA BackwardIsDefined ==
  ASSUME FactorEquations, NEW b, \A i \in Index : b[i] \in Int, NEW y, y = CHOOSE h : h = Backward(b, h)
  PROVE  /\ y \in [Index -> Field]
         /\ \A i \in Index : y[i] = Substituted(Index, [j \in Index |-> RightOf(j)], b, OverPivots, UpperRows, y, i)
         /\ y = Backward(b, y)
<1> DEFINE before == [i \in Index |-> RightOf(i)]
<1>1. IsSubstitution(before, Downward, b, OverPivots, UpperRows)
  BY FactorSubstitutions
<1>b. \A i \in Index : before[i] = RightOf(i)
  OBVIOUS
<1> HIDE DEF before
<1>h. HasSubstitution(Index, before, b, OverPivots, UpperRows)
  BY <1>1, SubstitutionExists
<1>2. PICK g \in [Index -> Field] :
        \A i \in Index : g[i] = Substituted(Index, before, b, OverPivots, UpperRows, g, i)
  BY <1>h DEF HasSubstitution
<1>3. ASSUME NEW i \in Index PROVE g[i] = Backward(b, g)[i]
  <2> DEFINE r == UpperRows[i]
             S == RightOf(i)
             t == Total([k \in S |-> r[k] * g[k]], S)
  <2>1. S \in SUBSET Index /\ \A k \in S : r[k] = U(i, k)
    BY FactorRows, FactorMatrices
  <2>2. \A k \in Index : r[k] \in Int
    BY FactorMatrices
  <2>3. t \in Int
    <3> HIDE DEF r, S
    <3>1. t \in Field
      BY <2>1, <2>2, TermsAreTotalled
    <3> QED
      BY <3>1 DEF Field
  <2>4. [k \in S |-> r[k] * g[k]] = [k \in S |-> U(i, k) * g[k]]
    BY <2>1
  <2>5. g[i] = IF i \in Index THEN ((b[i] - t) * OverPivots[i]) % P ELSE 0
    BY <1>2, <1>b DEF Substituted
  <2>6. Backward(b, g)[i] = ((b[i] - t) * Over(U(i, i))) % P
    BY <2>4 DEF Backward
  <2> HIDE DEF t
  <2>7. (b[i] - t) * OverPivots[i] = (b[i] - t) * Over(U(i, i))
    BY <2>3 DEF OverPivots
  <2> QED
    BY <2>5, <2>6, <2>7
<1>4. g = Backward(b, g)
  BY <1>3 DEF Backward
<1>5. y = Backward(b, y)
  BY <1>4
<1>6. ASSUME NEW i \in Index, \A k \in Index : Downward[k] < Downward[i] => y[k] = g[k]
      PROVE  y[i] = g[i]
  <2>1. \A k \in RightOf(i) : k \in Index /\ k > i
    BY FactorRows
  <2>2. \A k \in RightOf(i) : y[k] = g[k]
    BY <2>1, <1>6, Measures
  <2>3. [k \in RightOf(i) |-> U(i, k) * y[k]] = [k \in RightOf(i) |-> U(i, k) * g[k]]
    BY <2>2
  <2>4. Backward(b, y)[i] = Backward(b, g)[i]
    BY <2>3 DEF Backward
  <2> QED
    BY <2>4, <1>4, <1>5
<1>7. \A i \in Index : y[i] = g[i]
  <2>1. Agree(Downward, y, g)
    BY <1>6, Measures DEF Agree
  <2> QED
    BY <2>1, Agreement
<1>8. y = g
  <2>1. y = [i \in Index |-> y[i]]
    BY <1>5 DEF Backward
  <2> QED
    BY <2>1, <1>7
<1> QED
  BY <1>2, <1>5, <1>8 DEF before

\* The forward steps of the reduced kernel.
ReducedForward(b, y) ==
  [i \in Index |->
     IF i \in active
       THEN (b[i] - Total([k \in LeftOf(i) |-> L(i, k) * y[k]], LeftOf(i))) % P
       ELSE 0]

\* The same of the forward steps that skip the frozen species.
LEMMA ReducedForwardIsDefined ==
  ASSUME FactorEquations, NEW b, \A i \in Index : b[i] \in Int, NEW y, y = CHOOSE h : h = ReducedForward(b, h)
  PROVE  /\ y \in [Index -> Field]
         /\ \A i \in Index : y[i] = Substituted(active, [j \in Index |-> LeftOf(j)], b, Ones, LowerRows, y, i)
<1> DEFINE before == [i \in Index |-> LeftOf(i)]
<1>1. IsSubstitution(before, Upward, b, Ones, LowerRows)
  BY FactorSubstitutions
<1>b. \A i \in Index : before[i] = LeftOf(i)
  OBVIOUS
<1> HIDE DEF before
<1>h. HasSubstitution(active, before, b, Ones, LowerRows)
  BY <1>1, SubstitutionExists
<1>2. PICK g \in [Index -> Field] :
        \A i \in Index : g[i] = Substituted(active, before, b, Ones, LowerRows, g, i)
  BY <1>h DEF HasSubstitution
<1>3. ASSUME NEW i \in Index PROVE g[i] = ReducedForward(b, g)[i]
  <2> DEFINE r == LowerRows[i]
             S == LeftOf(i)
             t == Total([k \in S |-> r[k] * g[k]], S)
  <2>1. S \in SUBSET Index /\ \A k \in S : r[k] = L(i, k)
    BY FactorRows, FactorMatrices
  <2>2. \A k \in Index : r[k] \in Int
    BY FactorMatrices
  <2>3. t \in Int
    <3> HIDE DEF r, S
    <3>1. t \in Field
      BY <2>1, <2>2, TermsAreTotalled
    <3> QED
      BY <3>1 DEF Field
  <2>4. [k \in S |-> r[k] * g[k]] = [k \in S |-> L(i, k) * g[k]]
    BY <2>1
  <2>5. g[i] = IF i \in active THEN ((b[i] - t) * Ones[i]) % P ELSE 0
    BY <1>2, <1>b DEF Substituted
  <2>6. ReducedForward(b, g)[i] = IF i \in active THEN (b[i] - t) % P ELSE 0
    BY <2>4 DEF ReducedForward
  <2> HIDE DEF t
  <2>7. (b[i] - t) * Ones[i] = b[i] - t
    BY <2>3 DEF Ones
  <2> QED
    BY <2>5, <2>6, <2>7
<1>4. g = ReducedForward(b, g)
  BY <1>3 DEF ReducedForward
<1>5. y = ReducedForward(b, y)
  BY <1>4
<1>6. ASSUME NEW i \in Index, \A k \in Index : Upward[k] < Upward[i] => y[k] = g[k]
      PROVE  y[i] = g[i]
  <2>1. \A k \in LeftOf(i) : k \in Index /\ k < i
    BY FactorRows
  <2>2. \A k \in LeftOf(i) : y[k] = g[k]
    BY <2>1, <1>6, Measures
  <2>3. [k \in LeftOf(i) |-> L(i, k) * y[k]] = [k \in LeftOf(i) |-> L(i, k) * g[k]]
    BY <2>2
  <2>4. ReducedForward(b, y)[i] = ReducedForward(b, g)[i]
    BY <2>3 DEF ReducedForward
  <2> QED
    BY <2>4, <1>4, <1>5
<1>7. \A i \in Index : y[i] = g[i]
  <2>1. Agree(Upward, y, g)
    BY <1>6, Measures DEF Agree
  <2> QED
    BY <2>1, Agreement
<1>8. y = g
  <2>1. y = [i \in Index |-> y[i]]
    BY <1>5 DEF ReducedForward
  <2> QED
    BY <2>1, <1>7
<1> QED
  BY <1>2, <1>8 DEF before

\* The backward steps of the reduced kernel.
ReducedBackward(b, y) ==
  [i \in Index |->
     IF i \in active
       THEN ((b[i] - Total([k \in RightOf(i) |-> U(i, k) * y[k]], RightOf(i))) * Over(U(i, i))) % P
       ELSE 0]

\* The same of the backward steps that skip them.
LEMMA ReducedBackwardIsDefined ==
  ASSUME FactorEquations, NEW b, \A i \in Index : b[i] \in Int, NEW y, y = CHOOSE h : h = ReducedBackward(b, h)
  PROVE  /\ y \in [Index -> Field]
         /\ \A i \in Index : y[i] = Substituted(active, [j \in Index |-> RightOf(j)], b, OverPivots, UpperRows, y, i)
<1> DEFINE before == [i \in Index |-> RightOf(i)]
<1>1. IsSubstitution(before, Downward, b, OverPivots, UpperRows)
  BY FactorSubstitutions
<1>b. \A i \in Index : before[i] = RightOf(i)
  OBVIOUS
<1> HIDE DEF before
<1>h. HasSubstitution(active, before, b, OverPivots, UpperRows)
  BY <1>1, SubstitutionExists
<1>2. PICK g \in [Index -> Field] :
        \A i \in Index : g[i] = Substituted(active, before, b, OverPivots, UpperRows, g, i)
  BY <1>h DEF HasSubstitution
<1>3. ASSUME NEW i \in Index PROVE g[i] = ReducedBackward(b, g)[i]
  <2> DEFINE r == UpperRows[i]
             S == RightOf(i)
             t == Total([k \in S |-> r[k] * g[k]], S)
  <2>1. S \in SUBSET Index /\ \A k \in S : r[k] = U(i, k)
    BY FactorRows, FactorMatrices
  <2>2. \A k \in Index : r[k] \in Int
    BY FactorMatrices
  <2>3. t \in Int
    <3> HIDE DEF r, S
    <3>1. t \in Field
      BY <2>1, <2>2, TermsAreTotalled
    <3> QED
      BY <3>1 DEF Field
  <2>4. [k \in S |-> r[k] * g[k]] = [k \in S |-> U(i, k) * g[k]]
    BY <2>1
  <2>5. g[i] = IF i \in active THEN ((b[i] - t) * OverPivots[i]) % P ELSE 0
    BY <1>2, <1>b DEF Substituted
  <2>6. ReducedBackward(b, g)[i] = IF i \in active THEN ((b[i] - t) * Over(U(i, i))) % P ELSE 0
    BY <2>4 DEF ReducedBackward
  <2> HIDE DEF t
  <2>7. (b[i] - t) * OverPivots[i] = (b[i] - t) * Over(U(i, i))
    BY <2>3 DEF OverPivots
  <2> QED
    BY <2>5, <2>6, <2>7
<1>4. g = ReducedBackward(b, g)
  BY <1>3 DEF ReducedBackward
<1>5. y = ReducedBackward(b, y)
  BY <1>4
<1>6. ASSUME NEW i \in Index, \A k \in Index : Downward[k] < Downward[i] => y[k] = g[k]
      PROVE  y[i] = g[i]
  <2>1. \A k \in RightOf(i) : k \in Index /\ k > i
    BY FactorRows
  <2>2. \A k \in RightOf(i) : y[k] = g[k]
    BY <2>1, <1>6, Measures
  <2>3. [k \in RightOf(i) |-> U(i, k) * y[k]] = [k \in RightOf(i) |-> U(i, k) * g[k]]
    BY <2>2
  <2>4. ReducedBackward(b, y)[i] = ReducedBackward(b, g)[i]
    BY <2>3 DEF ReducedBackward
  <2> QED
    BY <2>4, <1>4, <1>5
<1>7. \A i \in Index : y[i] = g[i]
  <2>1. Agree(Downward, y, g)
    BY <1>6, Measures DEF Agree
  <2> QED
    BY <2>1, Agreement
<1>8. y = g
  <2>1. y = [i \in Index |-> y[i]]
    BY <1>5 DEF ReducedBackward
  <2> QED
    BY <2>1, <1>7
<1> QED
  BY <1>2, <1>8 DEF before

\* The forward steps of the transposed plan.
TransposedForward(b, y) ==
  [i \in Index |->
     ((b[i] - Total([k \in Above(i) |-> U(k, i) * y[k]], Above(i))) * Over(U(i, i))) % P]

\* The same of the forward steps of the transposed plan.
LEMMA TransposedForwardIsDefined ==
  ASSUME FactorEquations, NEW b, \A i \in Index : b[i] \in Int, NEW y, y = CHOOSE h : h = TransposedForward(b, h)
  PROVE  /\ y \in [Index -> Field]
         /\ \A i \in Index : y[i] = Substituted(Index, [j \in Index |-> Above(j)], b, OverPivots, UpperColumns, y, i)
<1> DEFINE before == [i \in Index |-> Above(i)]
<1>1. IsSubstitution(before, Upward, b, OverPivots, UpperColumns)
  BY FactorSubstitutions
<1>b. \A i \in Index : before[i] = Above(i)
  OBVIOUS
<1> HIDE DEF before
<1>h. HasSubstitution(Index, before, b, OverPivots, UpperColumns)
  BY <1>1, SubstitutionExists
<1>2. PICK g \in [Index -> Field] :
        \A i \in Index : g[i] = Substituted(Index, before, b, OverPivots, UpperColumns, g, i)
  BY <1>h DEF HasSubstitution
<1>3. ASSUME NEW i \in Index PROVE g[i] = TransposedForward(b, g)[i]
  <2> DEFINE r == UpperColumns[i]
             S == Above(i)
             t == Total([k \in S |-> r[k] * g[k]], S)
  <2>1. S \in SUBSET Index /\ \A k \in S : r[k] = U(k, i)
    BY FactorRows, FactorMatrices
  <2>2. \A k \in Index : r[k] \in Int
    BY FactorMatrices
  <2>3. t \in Int
    <3> HIDE DEF r, S
    <3>1. t \in Field
      BY <2>1, <2>2, TermsAreTotalled
    <3> QED
      BY <3>1 DEF Field
  <2>4. [k \in S |-> r[k] * g[k]] = [k \in S |-> U(k, i) * g[k]]
    BY <2>1
  <2>5. g[i] = IF i \in Index THEN ((b[i] - t) * OverPivots[i]) % P ELSE 0
    BY <1>2, <1>b DEF Substituted
  <2>6. TransposedForward(b, g)[i] = ((b[i] - t) * Over(U(i, i))) % P
    BY <2>4 DEF TransposedForward
  <2> HIDE DEF t
  <2>7. (b[i] - t) * OverPivots[i] = (b[i] - t) * Over(U(i, i))
    BY <2>3 DEF OverPivots
  <2> QED
    BY <2>5, <2>6, <2>7
<1>4. g = TransposedForward(b, g)
  BY <1>3 DEF TransposedForward
<1>5. y = TransposedForward(b, y)
  BY <1>4
<1>6. ASSUME NEW i \in Index, \A k \in Index : Upward[k] < Upward[i] => y[k] = g[k]
      PROVE  y[i] = g[i]
  <2>1. \A k \in Above(i) : k \in Index /\ k < i
    BY FactorRows
  <2>2. \A k \in Above(i) : y[k] = g[k]
    BY <2>1, <1>6, Measures
  <2>3. [k \in Above(i) |-> U(k, i) * y[k]] = [k \in Above(i) |-> U(k, i) * g[k]]
    BY <2>2
  <2>4. TransposedForward(b, y)[i] = TransposedForward(b, g)[i]
    BY <2>3 DEF TransposedForward
  <2> QED
    BY <2>4, <1>4, <1>5
<1>7. \A i \in Index : y[i] = g[i]
  <2>1. Agree(Upward, y, g)
    BY <1>6, Measures DEF Agree
  <2> QED
    BY <2>1, Agreement
<1>8. y = g
  <2>1. y = [i \in Index |-> y[i]]
    BY <1>5 DEF TransposedForward
  <2> QED
    BY <2>1, <1>7
<1> QED
  BY <1>2, <1>8 DEF before

\* The backward steps of the transposed plan.
TransposedBackward(b, y) ==
  [i \in Index |->
     (b[i] - Total([k \in Below(i) |-> L(k, i) * y[k]], Below(i))) % P]

\* The same of the backward steps of the transposed plan.
LEMMA TransposedBackwardIsDefined ==
  ASSUME FactorEquations, NEW b, \A i \in Index : b[i] \in Int, NEW y, y = CHOOSE h : h = TransposedBackward(b, h)
  PROVE  /\ y \in [Index -> Field]
         /\ \A i \in Index : y[i] = Substituted(Index, [j \in Index |-> Below(j)], b, Ones, LowerColumns, y, i)
<1> DEFINE before == [i \in Index |-> Below(i)]
<1>1. IsSubstitution(before, Downward, b, Ones, LowerColumns)
  BY FactorSubstitutions
<1>b. \A i \in Index : before[i] = Below(i)
  OBVIOUS
<1> HIDE DEF before
<1>h. HasSubstitution(Index, before, b, Ones, LowerColumns)
  BY <1>1, SubstitutionExists
<1>2. PICK g \in [Index -> Field] :
        \A i \in Index : g[i] = Substituted(Index, before, b, Ones, LowerColumns, g, i)
  BY <1>h DEF HasSubstitution
<1>3. ASSUME NEW i \in Index PROVE g[i] = TransposedBackward(b, g)[i]
  <2> DEFINE r == LowerColumns[i]
             S == Below(i)
             t == Total([k \in S |-> r[k] * g[k]], S)
  <2>1. S \in SUBSET Index /\ \A k \in S : r[k] = L(k, i)
    BY FactorRows, FactorMatrices
  <2>2. \A k \in Index : r[k] \in Int
    BY FactorMatrices
  <2>3. t \in Int
    <3> HIDE DEF r, S
    <3>1. t \in Field
      BY <2>1, <2>2, TermsAreTotalled
    <3> QED
      BY <3>1 DEF Field
  <2>4. [k \in S |-> r[k] * g[k]] = [k \in S |-> L(k, i) * g[k]]
    BY <2>1
  <2>5. g[i] = IF i \in Index THEN ((b[i] - t) * Ones[i]) % P ELSE 0
    BY <1>2, <1>b DEF Substituted
  <2>6. TransposedBackward(b, g)[i] = (b[i] - t) % P
    BY <2>4 DEF TransposedBackward
  <2> HIDE DEF t
  <2>7. (b[i] - t) * Ones[i] = b[i] - t
    BY <2>3 DEF Ones
  <2> QED
    BY <2>5, <2>6, <2>7
<1>4. g = TransposedBackward(b, g)
  BY <1>3 DEF TransposedBackward
<1>5. y = TransposedBackward(b, y)
  BY <1>4
<1>6. ASSUME NEW i \in Index, \A k \in Index : Downward[k] < Downward[i] => y[k] = g[k]
      PROVE  y[i] = g[i]
  <2>1. \A k \in Below(i) : k \in Index /\ k > i
    BY FactorRows
  <2>2. \A k \in Below(i) : y[k] = g[k]
    BY <2>1, <1>6, Measures
  <2>3. [k \in Below(i) |-> L(k, i) * y[k]] = [k \in Below(i) |-> L(k, i) * g[k]]
    BY <2>2
  <2>4. TransposedBackward(b, y)[i] = TransposedBackward(b, g)[i]
    BY <2>3 DEF TransposedBackward
  <2> QED
    BY <2>4, <1>4, <1>5
<1>7. \A i \in Index : y[i] = g[i]
  <2>1. Agree(Downward, y, g)
    BY <1>6, Measures DEF Agree
  <2> QED
    BY <2>1, Agreement
<1>8. y = g
  <2>1. y = [i \in Index |-> y[i]]
    BY <1>5 DEF TransposedBackward
  <2> QED
    BY <2>1, <1>7
<1> QED
  BY <1>2, <1>8 DEF before

------------------------------------------------------------------------------
\* The solutions.

\* Forward and backward substitution solve W * x = b, whatever b is.
LEMMA SubstitutionSolves ==
  ASSUME FactorEquations, NEW b \in [Index -> Field]
  PROVE  \A i \in Index : Total([j \in Index |-> w[<<i, j>>] * Solution(b)[j]], Index) = b[i]
<1> DEFINE y == CHOOSE h : h = Forward(b, h)
           x == CHOOSE h : h = Backward(y, h)
<1>1. Solution(b) = x
  BY DEF Solution, Forward, Backward, LeftOf, RightOf
<1> HIDE DEF x, y
<1>b. \A i \in Index : b[i] \in Int
  BY DEF Field
<1>2. /\ y \in [Index -> Field]
      /\ \A i \in Index : y[i] = Substituted(Index, [j \in Index |-> LeftOf(j)], b, Ones, LowerRows, y, i)
  BY <1>b, ForwardIsDefined DEF y
<1>y. \A i \in Index : y[i] \in Int
  BY <1>2 DEF Field
<1>3. /\ x \in [Index -> Field]
      /\ \A i \in Index : x[i] = Substituted(Index, [j \in Index |-> RightOf(j)], y, OverPivots, UpperRows, x, i)
  BY <1>y, BackwardIsDefined DEF x
<1>4. Solves(LowerRows, y, b)
  <2>1. /\ IsSubstitution([j \in Index |-> LeftOf(j)], Upward, b, Ones, LowerRows)
        /\ IsTriangular([j \in Index |-> LeftOf(j)], Ones, LowerRows)
    BY <1>b, FactorSubstitutions, FactorsTriangular
  <2> QED
    BY <2>1, <1>2, SubstitutedSolves DEF Solves
<1>5. Solves(UpperRows, x, y)
  <2>1. /\ IsSubstitution([j \in Index |-> RightOf(j)], Downward, y, OverPivots, UpperRows)
        /\ IsTriangular([j \in Index |-> RightOf(j)], OverPivots, UpperRows)
    BY <1>y, FactorSubstitutions, FactorsTriangular
  <2> QED
    BY <2>1, <1>3, SubstitutedSolves DEF Solves
<1>6. SolvesExactly(WRows, x, b)
  BY <1>2, <1>3, <1>4, <1>5, FactorMatrices, SolveChain
<1>7. \A i, j \in Index : WRows[i][j] = w[<<i, j>>]
  BY DEF WRows
<1> QED
  BY <1>1, <1>6, <1>7 DEF SolvesExactly

\* The transposed steps solve the transposed system.
LEMMA TransposedSubstitutionSolves ==
  ASSUME FactorEquations, NEW b \in [Index -> Field]
  PROVE  \A i \in Index : Total([j \in Index |-> w[<<j, i>>] * TransposedSolution(b)[j]], Index) = b[i]
<1> DEFINE y == CHOOSE h : h = TransposedForward(b, h)
           x == CHOOSE h : h = TransposedBackward(y, h)
<1>1. TransposedSolution(b) = x
  BY DEF TransposedSolution, TransposedForward, TransposedBackward, Above, Below
<1> HIDE DEF x, y
<1>b. \A i \in Index : b[i] \in Int
  BY DEF Field
<1>2. /\ y \in [Index -> Field]
      /\ \A i \in Index : y[i] = Substituted(Index, [j \in Index |-> Above(j)], b, OverPivots, UpperColumns, y, i)
  BY <1>b, TransposedForwardIsDefined DEF y
<1>y. \A i \in Index : y[i] \in Int
  BY <1>2 DEF Field
<1>3. /\ x \in [Index -> Field]
      /\ \A i \in Index : x[i] = Substituted(Index, [j \in Index |-> Below(j)], y, Ones, LowerColumns, x, i)
  BY <1>y, TransposedBackwardIsDefined DEF x
<1>4. Solves(UpperColumns, y, b)
  <2>1. /\ IsSubstitution([j \in Index |-> Above(j)], Upward, b, OverPivots, UpperColumns)
        /\ IsTriangular([j \in Index |-> Above(j)], OverPivots, UpperColumns)
    BY <1>b, FactorSubstitutions, FactorsTriangular
  <2> QED
    BY <2>1, <1>2, SubstitutedSolves DEF Solves
<1>5. Solves(LowerColumns, x, y)
  <2>1. /\ IsSubstitution([j \in Index |-> Below(j)], Downward, y, Ones, LowerColumns)
        /\ IsTriangular([j \in Index |-> Below(j)], Ones, LowerColumns)
    BY <1>y, FactorSubstitutions, FactorsTriangular
  <2> QED
    BY <2>1, <1>3, SubstitutedSolves DEF Solves
<1>6. SolvesExactly(WColumns, x, b)
  BY <1>2, <1>3, <1>4, <1>5, FactorMatrices, SolveChain
<1>7. \A i, j \in Index : WColumns[i][j] = w[<<j, i>>]
  BY DEF WColumns
<1> QED
  BY <1>1, <1>6, <1>7 DEF SolvesExactly

\* For every structure, the planned substitutions and the transposed ones solve
\* the system, respectively the transposed system, exactly.
THEOREM SolvesAreExactHolds == Spec => []SolvesAreExact
<1>1. IInv => SolvesAreExact
  <2> SUFFICES ASSUME IInv, phase = "factorized", NEW c \in Index
               PROVE  LET b  == [i \in Index |-> IF i = c THEN 1 ELSE 0]
                          x  == Solution(b)
                          xt == TransposedSolution(b)
                      IN  \A i \in Index :
                            /\ Total([j \in Index |-> w[<<i, j>>] * x[j]], Index) = b[i]
                            /\ Total([j \in Index |-> w[<<j, i>>] * xt[j]], Index) = b[i]
    BY DEF SolvesAreExact
  <2> DEFINE b == [i \in Index |-> IF i = c THEN 1 ELSE 0]
  <2>1. FactorEquations
    BY FactorsSatisfyEquations
  <2>2. b \in [Index -> Field]
    BY SizesAssumption DEF Field
  <2> HIDE DEF b
  <2>3. \A i \in Index : Total([j \in Index |-> w[<<i, j>>] * Solution(b)[j]], Index) = b[i]
    BY <2>1, <2>2, SubstitutionSolves
  <2>4. \A i \in Index : Total([j \in Index |-> w[<<j, i>>] * TransposedSolution(b)[j]], Index) = b[i]
    BY <2>1, <2>2, TransposedSubstitutionSolves
  <2> QED
    BY <2>3, <2>4 DEF b
<1> QED
  BY <1>1, IInvHolds, PTL

------------------------------------------------------------------------------
\* Frozen species.

\* W has the rows of the identity where species are frozen.
FrozenRows ==
  /\ active \subseteq Index
  /\ \A i, j \in Index : i \notin active => w[<<i, j>>] = IF i = j THEN 1 ELSE 0

\* The factors have the rows of the identity where species are frozen, whatever
\* the plan fills in there.
LEMMA FrozenFactors ==
  ASSUME FactorEquations, FrozenRows, NEW i \in Index, i \notin active
  PROVE  \A k \in Index : k # i => LL(i, k) = 0 /\ UU(i, k) = 0
<1>n. Index \subseteq Nat /\ 0 \in Field
  BY IndexFacts, SizesAssumption DEF Field
<1>1. \A k \in Index : k # i => w[<<i, k>>] = 0
  BY DEF FrozenRows
<1>2. ASSUME NEW p \in Index, NEW j \in Index, \A k \in Index : k < p /\ <<i, k>> \in nzL => L(i, k) = 0
      PROVE  Total(Product(i, j), InnerBelow(i, j, p)) = 0
  <2> DEFINE f == Product(i, j)
             S == InnerBelow(i, j, p)
  <2>1. S \subseteq Index /\ IsFiniteSet(S)
    <3>1. S \subseteq Index
      BY DEF InnerBelow
    <3> QED
      BY <3>1, IndexFacts, FS_Subset
  <2>2. \A k \in S : f[k] = 0
    <3> TAKE k \in S
    <3>1. k \in Index /\ L(i, k) = 0 /\ <<k, j>> \in nzU
      BY <1>2 DEF InnerBelow
    <3>2. U(k, j) \in Field
      BY <3>1 DEF FactorEquations
    <3>3. U(k, j) \in Int
      BY <3>2 DEF Field
    <3>4. f[k] = 0 * U(k, j)
      BY <3>1 DEF Product
    <3> QED
      BY <3>3, <3>4
  <2>3. \A k \in S : f[k] \in Int /\ Same(f[k], 0)
    BY <2>2 DEF Same
  <2> HIDE DEF f, S
  <2>4. Total(f, S) = 0
    BY <2>1, <2>3, TotalZero
  <2> QED
    BY <2>4 DEF f, S
<1> DEFINE T == {m \in Nat : \A k \in Index : k < m /\ <<i, k>> \in nzL => L(i, k) = 0}
<1>3. 0 \in T
  BY <1>n
<1>4. ASSUME NEW m \in Nat, m \in T PROVE m + 1 \in T
  <2> SUFFICES ASSUME NEW k \in Index, k < m + 1, <<i, k>> \in nzL PROVE L(i, k) = 0
    OBVIOUS
  <2>1. \A j \in Index : j < k => j < m
    BY <1>n
  <2>2. Total(Product(i, k), InnerBelow(i, k, k)) = 0
    BY <2>1, <1>2, <1>4
  <2>3. k # i /\ w[<<i, k>>] = 0
    <3>1. i > k
      BY DEF FactorEquations
    <3>2. i \in Int /\ k \in Int
      BY <1>n
    <3>3. k # i
      BY <3>1, <3>2
    <3> QED
      BY <3>3, <1>1
  <2>4. L(i, k) = ((0 - 0) % P) * Over(U(k, k)) % P
    BY <2>2, <2>3 DEF FactorEquations
  <2>5. 0 % P = 0
    BY <1>n, FieldIsReduced
  <2>6. Over(U(k, k)) \in Int
    <3>1. U(k, k) \in Field /\ U(k, k) # 0
      BY DEF FactorEquations
    <3> QED
      BY <3>1, OverInverts DEF Field
  <2>7. ((0 - 0) % P) * Over(U(k, k)) = 0
    BY <2>5, <2>6
  <2> QED
    BY <2>4, <2>5, <2>7
<1> HIDE DEF T
<1>5. \A k \in Index : <<i, k>> \in nzL => L(i, k) = 0
  <2>1. N \in T
    BY <1>3, <1>4, NatInduct, SizesAssumption
  <2> QED
    BY <2>1, IndexFacts DEF T
<1> TAKE k \in Index
<1> HAVE k # i
<1>6. LL(i, k) = 0
  BY <1>5 DEF LL
<1>7. <<i, k>> \in nzU => U(i, k) = 0
  <2> HAVE <<i, k>> \in nzU
  <2>1. Total(Product(i, k), InnerBelow(i, k, i)) = 0
    BY <1>2, <1>5
  <2>2. U(i, k) = (0 - 0) % P
    BY <2>1, <1>1 DEF FactorEquations
  <2> QED
    BY <2>2, <1>n, FieldIsReduced
<1>8. UU(i, k) = 0
  BY <1>7 DEF UU
<1> QED
  BY <1>6, <1>8

\* A row of the identity, multiplied with a vector that vanishes there.
LEMMA VanishingRow ==
  ASSUME NEW i \in Index, NEW r, \A k \in Index : r[k] \in Int, \A k \in Index : k # i => r[k] = 0,
         NEW y \in [Index -> Field], y[i] = 0
  PROVE  Total([k \in Index |-> r[k] * y[k]], Index) = 0
<1> DEFINE f == [k \in Index |-> r[k] * y[k]]
<1>1. \A k \in Index : r[k] \in Int /\ y[k] \in Int /\ (r[k] = 0 \/ y[k] = 0)
  BY DEF Field
<1>2. \A k \in Index : r[k] * y[k] = 0
  BY <1>1
<1>3. \A k \in Index : f[k] \in Int /\ Same(f[k], 0)
  BY <1>2 DEF Same
<1> HIDE DEF f
<1>4. Total(f, Index) = 0
  BY <1>3, TotalZero, IndexFacts
<1> QED
  BY <1>4 DEF f

\* With frozen species skipped, the steps solve the system of the active ones.
LEMMA ReducedSubstitutionSolves ==
  ASSUME FactorEquations, FrozenRows, NEW b \in [Index -> Field]
  PROVE  \A i \in Index :
           IF i \in active
             THEN Total([j \in active |-> w[<<i, j>>] * ReducedSolution(b)[j]], active) = b[i]
             ELSE ReducedSolution(b)[i] = 0
<1> DEFINE y == CHOOSE h : h = ReducedForward(b, h)
           x == CHOOSE h : h = ReducedBackward(y, h)
           c == [i \in Index |-> IF i \in active THEN b[i] ELSE 0]
<1>1. ReducedSolution(b) = x
  BY DEF ReducedSolution, ReducedForward, ReducedBackward, LeftOf, RightOf
<1>c. c \in [Index -> Field] /\ \A i \in Index : c[i] = IF i \in active THEN b[i] ELSE 0
  BY SizesAssumption DEF Field
<1> HIDE DEF x, y, c
<1>b. \A i \in Index : b[i] \in Int
  BY DEF Field
<1>2. /\ y \in [Index -> Field]
      /\ \A i \in Index : y[i] = Substituted(active, [j \in Index |-> LeftOf(j)], b, Ones, LowerRows, y, i)
  BY <1>b, ReducedForwardIsDefined DEF y
<1>y. \A i \in Index : y[i] \in Int
  BY <1>2 DEF Field
<1>3. /\ x \in [Index -> Field]
      /\ \A i \in Index : x[i] = Substituted(active, [j \in Index |-> RightOf(j)], y, OverPivots, UpperRows, x, i)
  BY <1>y, ReducedBackwardIsDefined DEF x
<1>z. \A i \in Index : i \notin active => y[i] = 0 /\ x[i] = 0
  BY <1>2, <1>3 DEF Substituted
<1>i. \A i, k \in Index : LowerRows[i][k] \in Int /\ UpperRows[i][k] \in Int
  BY FactorMatrices
<1>f. \A i, k \in Index : i \notin active /\ k # i => LowerRows[i][k] = 0 /\ UpperRows[i][k] = 0
  BY FrozenFactors, FactorMatrices
<1>4. Solves(LowerRows, y, c)
  <2>1. /\ IsSubstitution([j \in Index |-> LeftOf(j)], Upward, b, Ones, LowerRows)
        /\ IsTriangular([j \in Index |-> LeftOf(j)], Ones, LowerRows)
    BY <1>b, FactorSubstitutions, FactorsTriangular
  <2>2. \A i \in Index : i \in active => Same(Total([k \in Index |-> LowerRows[i][k] * y[k]], Index), b[i])
    BY <2>1, <1>2, SubstitutedSolves
  <2>3. \A i \in Index : i \notin active => Total([k \in Index |-> LowerRows[i][k] * y[k]], Index) = 0
    BY <1>2, <1>z, <1>i, <1>f, VanishingRow
  <2> QED
    BY <2>2, <2>3, <1>c DEF Solves, Same
<1>5. Solves(UpperRows, x, y)
  <2>1. /\ IsSubstitution([j \in Index |-> RightOf(j)], Downward, y, OverPivots, UpperRows)
        /\ IsTriangular([j \in Index |-> RightOf(j)], OverPivots, UpperRows)
    BY <1>y, FactorSubstitutions, FactorsTriangular
  <2>2. \A i \in Index : i \in active => Same(Total([k \in Index |-> UpperRows[i][k] * x[k]], Index), y[i])
    BY <2>1, <1>3, SubstitutedSolves
  <2>3. \A i \in Index : i \notin active => Total([k \in Index |-> UpperRows[i][k] * x[k]], Index) = 0
    BY <1>3, <1>z, <1>i, <1>f, VanishingRow
  <2> QED
    BY <2>2, <2>3, <1>z DEF Solves, Same
<1>6. SolvesExactly(WRows, x, c)
  BY <1>2, <1>3, <1>4, <1>5, <1>c, FactorMatrices, SolveChain
<1>7. \A i, j \in Index : WRows[i][j] = w[<<i, j>>]
  BY DEF WRows
<1>8. ASSUME NEW i \in Index, i \in active
      PROVE  Total([j \in active |-> w[<<i, j>>] * x[j]], active) = b[i]
  <2> DEFINE f == [j \in Index |-> w[<<i, j>>] * x[j]]
             g == [j \in active |-> w[<<i, j>>] * x[j]]
  <2>1. Total(f, Index) = b[i]
    BY <1>6, <1>7, <1>8, <1>c DEF SolvesExactly
  <2>2. active \in SUBSET Index /\ IsFiniteSet(Index) /\ IsFiniteSet(active)
    BY IndexFacts, FS_Subset DEF FrozenRows
  <2>3. \A j \in Index : w[<<i, j>>] \in Field /\ x[j] \in Field
    BY <1>3 DEF FactorEquations
  <2>4. \A j \in Index : w[<<i, j>>] \in Int /\ x[j] \in Int
    <3>1. \A v \in Field : v \in Int
      BY DEF Field
    <3> QED
      BY <2>3, <3>1
  <2>5. \A j \in Index : f[j] \in Int /\ (j \notin active => f[j] = 0)
    BY <2>4, <1>z
  <2>6. \A j \in active : g[j] = f[j]
    BY <2>2
  <2> HIDE DEF f, g
  <2>7. Total(f, Index) = Total(f, active)
    BY <2>2, <2>5, TotalOver DEF Same
  <2>8. Total(f, active) = Total(g, active)
    BY <2>2, <2>5, <2>6, SumsReadTheirTerms
  <2> QED
    BY <2>1, <2>7, <2>8 DEF g
<1> QED
  BY <1>1, <1>8, <1>z

\* For every structure and every set of frozen species, the reduced steps leave the
\* exact solution of the system of the active species, and 0 in the others.
THEOREM ReducedSolveIsActiveSubsystemHolds == Spec => []ReducedSolveIsActiveSubsystem
<1>1. IInv => ReducedSolveIsActiveSubsystem
  <2> SUFFICES ASSUME IInv, phase = "factorized", NEW c \in Index
               PROVE  LET b == [i \in Index |-> IF i = c THEN 1 ELSE 0]
                          x == ReducedSolution(b)
                      IN  \A i \in Index :
                            IF i \in active
                              THEN Total([j \in active |-> w[<<i, j>>] * x[j]], active) = b[i]
                              ELSE x[i] = 0
    BY DEF ReducedSolveIsActiveSubsystem
  <2> DEFINE b == [i \in Index |-> IF i = c THEN 1 ELSE 0]
  <2>1. FactorEquations
    BY FactorsSatisfyEquations
  <2>2. FrozenRows
    BY DEF IInv, RunInv, FrozenRows
  <2>3. b \in [Index -> Field]
    BY SizesAssumption DEF Field
  <2> HIDE DEF b
  <2>4. \A i \in Index :
           IF i \in active
             THEN Total([j \in active |-> w[<<i, j>>] * ReducedSolution(b)[j]], active) = b[i]
             ELSE ReducedSolution(b)[i] = 0
    BY <2>1, <2>2, <2>3, ReducedSubstitutionSolves
  <2> QED
    BY <2>4 DEF b
<1> QED
  BY <1>1, IInvHolds, PTL

------------------------------------------------------------------------------
\* Slots.

\* A slot is a place in the order of sorted(), and tells its location.
IsNumbered(S) ==
  /\ IsFiniteSet(S) /\ Cardinality(S) \in Nat
  /\ \A a \in S : Slot(S, a) \in Slots(S) /\ Slot(S, a) \in Nat
  /\ \A a, b \in S : Before(a, b) => Slot(S, a) < Slot(S, b)
  /\ \A a, b \in S : Slot(S, a) = Slot(S, b) => a = b
  /\ \A s \in Slots(S) : Located(S, s) \in S /\ Slot(S, Located(S, s)) = s
  /\ \A a \in S : Located(S, Slot(S, a)) = a

\* sorted() orders the positions of a matrix by rows.
LEMMA BeforeIsOrder ==
  /\ \A a \in Pairs : ~Before(a, a)
  /\ \A a, b, c \in Pairs : Before(a, b) /\ Before(b, c) => Before(a, c)
  /\ \A a, b \in Pairs : a = b \/ Before(a, b) \/ Before(b, a)
<1>1. \A a \in Pairs : a[1] \in Int /\ a[2] \in Int /\ a = <<a[1], a[2]>>
  <2> TAKE a \in Pairs
  <2>1. a[1] \in Index /\ a[2] \in Index /\ a = <<a[1], a[2]>>
    BY DEF Pairs
  <2> QED
    BY <2>1, IndexFacts
<1> QED
  BY <1>1 DEF Before

\* The positions of a matrix are finitely many.
LEMMA PairsFinite == IsFiniteSet(Pairs) /\ \A S \in SUBSET Pairs : IsFiniteSet(S) /\ Cardinality(S) \in Nat
<1>1. IsFiniteSet(Pairs)
  BY IndexFacts, FS_Product DEF Pairs
<1> QED
  BY <1>1, FS_Subset, FS_CardinalityType

\* Enumerating the sorted locations numbers them.
LEMMA SlotsNumber == ASSUME NEW S \in SUBSET Pairs PROVE IsNumbered(S)
<1> DEFINE below(a) == {kl \in S : Before(kl, a)}
           c == Cardinality(S)
           slot == [a \in S |-> Slot(S, a)]
<1>1. IsFiniteSet(S) /\ c \in Nat
  BY PairsFinite
<1>2. \A a \in S : IsFiniteSet(below(a)) /\ Cardinality(below(a)) \in Nat /\ Slot(S, a) = Cardinality(below(a))
  <2> TAKE a \in S
  <2>1. below(a) \in SUBSET Pairs
    OBVIOUS
  <2> QED
    BY <2>1, PairsFinite DEF Slot
<1>3. ASSUME NEW a \in S PROVE Slot(S, a) \in Slots(S) /\ Slot(S, a) \in Nat
  <2>1. a \notin below(a) /\ below(a) \subseteq S \ {a}
    BY BeforeIsOrder
  <2>2. Cardinality(below(a)) <= Cardinality(S \ {a}) /\ Cardinality(S \ {a}) = c - 1
    BY <1>1, <2>1, FS_Subset, FS_RemoveElement
  <2> HIDE DEF below
  <2> QED
    BY <1>1, <1>2, <2>2 DEF Slots
<1>4. ASSUME NEW a \in S, NEW b \in S, Before(a, b) PROVE Slot(S, a) < Slot(S, b)
  <2>1. below(a) \union {a} \subseteq below(b) /\ a \notin below(a)
    BY <1>4, BeforeIsOrder
  <2>2. Cardinality(below(a) \union {a}) <= Cardinality(below(b))
    BY <1>2, <2>1, FS_Subset
  <2>3. Cardinality(below(a) \union {a}) = Cardinality(below(a)) + 1
    BY <1>2, <2>1, FS_AddElement
  <2> HIDE DEF below
  <2> QED
    BY <1>2, <2>2, <2>3
<1>5. ASSUME NEW a \in S, NEW b \in S, Slot(S, a) = Slot(S, b) PROVE a = b
  <2>1. a = b \/ Before(a, b) \/ Before(b, a)
    BY BeforeIsOrder
  <2>2. Slot(S, a) \in Nat /\ Slot(S, b) \in Nat
    BY <1>3
  <2> QED
    BY <1>4, <1>5, <2>1, <2>2
<1>6. \A s \in Slots(S) : \E a \in S : Slot(S, a) = s
  <2>1. slot \in Injection(S, Slots(S))
    <3>1. slot \in [S -> Slots(S)] /\ \A a, b \in S : slot[a] = slot[b] => a = b
      BY <1>3, <1>5
    <3> HIDE DEF slot
    <3> QED
      BY <3>1 DEF Injection, IsInjective
  <2>2. IsFiniteSet(Slots(S)) /\ Cardinality(Slots(S)) = c
    <3> HIDE DEF c
    <3>1. 0 \in Int /\ c - 1 \in Int
      BY <1>1
    <3>2. IsFiniteSet(0..(c - 1)) /\ Cardinality(0..(c - 1)) = IF 0 > c - 1 THEN 0 ELSE (c - 1) - 0 + 1
      BY <3>1, FS_Interval
    <3> QED
      BY <1>1, <3>2 DEF Slots, c
  <2>3. slot \in Surjection(S, Slots(S))
    <3> HIDE DEF slot
    <3> QED
      BY <1>1, <2>1, <2>2, FS_Injection
  <2>4. \A s \in Slots(S) : \E a \in S : slot[a] = s
    <3> HIDE DEF slot
    <3> QED
      BY <2>3 DEF Surjection
  <2> QED
    BY <2>4
<1>7. \A s \in Slots(S) : Located(S, s) \in S /\ Slot(S, Located(S, s)) = s
  BY <1>6 DEF Located
<1>8. \A a \in S : Located(S, Slot(S, a)) = a
  BY <1>3, <1>5, <1>7
<1> QED
  BY <1>1, <1>3, <1>4, <1>5, <1>7, <1>8 DEF IsNumbered

------------------------------------------------------------------------------
\* The values of W.

\* The reads of J undo the permutation it is stored under.
LEMMA WIsAssembled ==
  ASSUME structure \subseteq Pairs, \A i, j \in Index : w[<<i, j>>] \in Field,
         NEW order \in Bijection(Index, Index)
  PROVE  \A ij \in WLocations : WValues(order, 1)[Slot(WLocations, ij)] = w[ij]
<1> DEFINE physical == Physical(order, NonZeros(1))
           register == AntiFunction(order)
<1>1. /\ order \in [Index -> Index]
      /\ \A i, j \in Index : order[i] = order[j] => i = j
      /\ \A s \in Index : \E i \in Index : order[i] = s
  BY DEF Bijection, Injection, Surjection, IsInjective
<1>2. \A i \in Index : register[order[i]] = i
  <2> TAKE i \in Index
  <2>1. DOMAIN order = Index /\ order[i] \in Range(order)
    BY <1>1 DEF Range
  <2>2. register[order[i]] = CHOOSE s \in Index : order[i] \in Range(order) => order[s] = order[i]
    BY <2>1 DEF AntiFunction, Inverse
  <2> QED
    BY <1>1, <2>1, <2>2
<1>3. NonZeros(1) \subseteq Pairs /\ \A i, j \in Index : <<i, j>> \in NonZeros(1) => <<order[i], order[j]>> \in physical
  <2>1. NonZeros(1) \subseteq Pairs
    <3> DEFINE own == {k \in Index : w[<<k, k>>] # 1}
    <3>1. own \subseteq Index
      OBVIOUS
    <3>2. NonZeros(1) = structure \union {<<i, i>> : i \in own}
      BY DEF NonZeros
    <3> HIDE DEF own
    <3>3. {<<i, i>> : i \in own} \subseteq Pairs
      BY <3>1 DEF Pairs
    <3> QED
      BY <3>2, <3>3
  <2>2. ASSUME NEW i \in Index, NEW j \in Index, <<i, j>> \in NonZeros(1) PROVE <<order[i], order[j]>> \in physical
    <3>1. <<i, j>>[1] = i /\ <<i, j>>[2] = j
      OBVIOUS
    <3> QED
      BY <2>2, <3>1 DEF Physical
  <2> QED
    BY <2>1, <2>2
<1>4. physical \in SUBSET Pairs
  <2>1. \A ij \in NonZeros(1) : ij[1] \in Index /\ ij[2] \in Index
    BY <1>3 DEF Pairs
  <2> QED
    BY <1>1, <2>1 DEF Physical, Pairs
<1>5. IsNumbered(physical) /\ IsNumbered(WLocations) /\ WLocations \subseteq Pairs
  <2>1. WLocations \in SUBSET Pairs
    BY DEF WLocations, Diagonal, Pairs
  <2> HIDE DEF physical
  <2> QED
    BY <1>4, <2>1, SlotsNumber
<1>f. 1 \in Int /\ 1 \in Field /\ \A x \in Field : x \in Int
  BY SizesAssumption DEF Field
<1>6. ASSUME NEW i \in Index, NEW j \in Index, <<i, j>> \in NonZeros(1)
      PROVE  /\ <<i, j>> \in DOMAIN JSlots(order, NonZeros(1))
             /\ JValues(order, 1)[JSlots(order, NonZeros(1))[<<i, j>>]]
                  = ((IF i = j THEN 1 ELSE 0) - w[<<i, j>>]) % P
  <2> DEFINE p == <<order[i], order[j]>>
             s == Slot(physical, p)
  <2>1. p \in physical
    BY <1>3, <1>6
  <2>2. s \in Slots(physical) /\ Located(physical, s) = p
    <3> HIDE DEF physical, p
    <3> QED
      BY <1>5, <2>1 DEF IsNumbered
  <2>3. JSlots(order, NonZeros(1))[<<i, j>>] = s /\ <<i, j>> \in DOMAIN JSlots(order, NonZeros(1))
    BY <1>6 DEF JSlots
  <2>4. register[p[1]] = i /\ register[p[2]] = j
    BY <1>2
  <2> DEFINE value(ij) == ((IF register[ij[1]] = register[ij[2]] THEN 1 ELSE 0) - w[<<register[ij[1]], register[ij[2]]>>]) % P
  <2>5. JValues(order, 1) = [t \in Slots(physical) |-> value(Located(physical, t))]
    BY DEF JValues
  <2> HIDE DEF s, physical, register
  <2>6. JValues(order, 1)[s] = value(p)
    BY <2>2, <2>5
  <2> QED
    BY <2>3, <2>4, <2>6
<1>7. ASSUME NEW i \in Index, NEW j \in Index, <<i, j>> \in WLocations
      PROVE  WValues(order, 1)[Slot(WLocations, <<i, j>>)] = w[<<i, j>>]
  <2> DEFINE s == Slot(WLocations, <<i, j>>)
             d == IF i = j THEN 1 ELSE 0
             jSlots == JSlots(order, NonZeros(1))
             jValues == JValues(order, 1)
             value(ij) == ((IF ij[1] = ij[2] THEN 1 ELSE 0) - (IF ij \in DOMAIN jSlots THEN jValues[jSlots[ij]] ELSE 0)) % P
             x == w[<<i, j>>]
  <2>1. s \in Slots(WLocations) /\ Located(WLocations, s) = <<i, j>>
    BY <1>5, <1>7 DEF IsNumbered
  <2>2. WValues(order, 1) = [t \in Slots(WLocations) |-> value(Located(WLocations, t))]
    BY DEF WValues
  <2> HIDE DEF s
  <2>3. WValues(order, 1)[s] = value(<<i, j>>)
    BY <2>1, <2>2
  <2>4. x \in Field /\ x \in Int /\ d \in Int /\ x % P = x
    BY <1>f, FieldIsReduced
  <2>5. CASE <<i, j>> \in NonZeros(1)
    <3>1. <<i, j>> \in DOMAIN jSlots /\ jValues[jSlots[<<i, j>>]] = (d - x) % P
      BY <2>5, <1>6
    <3>2. value(<<i, j>>) = (d - ((d - x) % P)) % P
      BY <3>1
    <3> HIDE DEF value, d, x
    <3>3. d - x \in Int /\ (d - x) % P \in Int /\ Same((d - x) % P, d - x) /\ Same(d, d)
      <4>1. d - x \in Int
        BY <2>4
      <4> QED
        BY <4>1, SameRemainder DEF Same
    <3>4. Same(d - ((d - x) % P), d - (d - x))
      BY <2>4, <3>3, SamePlus
    <3>5. d - (d - x) = x
      BY <2>4
    <3>6. (d - ((d - x) % P)) % P = x
      BY <2>4, <3>4, <3>5 DEF Same
    <3> QED
      BY <2>3, <3>2, <3>6 DEF x, s
  <2>6. CASE <<i, j>> \notin NonZeros(1)
    <3>1. i = j /\ x = 1
      BY <2>6, <1>7 DEF NonZeros, WLocations, Diagonal
    <3>2. <<i, j>> \notin DOMAIN jSlots
      BY <2>6 DEF JSlots
    <3>3. value(<<i, j>>) = (1 - 0) % P
      BY <3>1, <3>2
    <3> HIDE DEF value
    <3> QED
      BY <2>3, <2>4, <3>1, <3>3 DEF s
  <2> QED
    BY <2>5, <2>6
<1>8. \A ij \in WLocations : ij[1] \in Index /\ ij[2] \in Index /\ ij = <<ij[1], ij[2]>>
  BY <1>5 DEF Pairs
<1> QED
  BY <1>7, <1>8

------------------------------------------------------------------------------
\* The traversal.

\* The order of the traversal: by pivots, and sorted() for the same pivot.
Sooner(a, b) == Pivot(a) < Pivot(b) \/ (Pivot(a) = Pivot(b) /\ Before(a, b))

\* A pivot is the lesser of a row and a column.
LEMMA PivotIsLesser ==
  ASSUME NEW i \in Index, NEW j \in Index
  PROVE  Pivot(<<i, j>>) \in Index /\ Pivot(<<i, j>>) = IF i <= j THEN i ELSE j
<1> DEFINE p == Pivot(<<i, j>>)
<1>1. i \in Nat /\ j \in Nat
  BY IndexFacts
<1>2. p = Min({i, j})
  BY DEF Pivot
<1>3. Min({i, j}) \in {i, j} /\ \A x \in {i, j} : Min({i, j}) <= x
  BY <1>1, LeastMember
<1> HIDE DEF p
<1>4. (p = i \/ p = j) /\ p <= i /\ p <= j
  BY <1>2, <1>3
<1>5. p \in Index /\ p = IF i <= j THEN i ELSE j
  BY <1>1, <1>4
<1> QED
  BY <1>5 DEF p

\* A pair is its row and its column.
LEMMA PairParts == \A ij \in Pairs : ij[1] \in Index /\ ij[2] \in Index /\ ij = <<ij[1], ij[2]>>
BY DEF Pairs

\* It is a total order.
LEMMA SoonerIsOrder ==
  /\ \A a \in Pairs : ~Sooner(a, a)
  /\ \A a, b, c \in Pairs : Sooner(a, b) /\ Sooner(b, c) => Sooner(a, c)
  /\ \A a, b \in Pairs : a = b \/ Sooner(a, b) \/ Sooner(b, a)
<1>1. \A a \in Pairs : Pivot(a) \in Int
  <2> TAKE a \in Pairs
  <2>1. Pivot(a) \in Index
    BY PairParts, PivotIsLesser
  <2>2. \A i \in Index : i \in Int
    BY IndexFacts
  <2> QED
    BY <2>1, <2>2
<1>2. \A a \in Pairs : ~Sooner(a, a)
  BY <1>1, BeforeIsOrder DEF Sooner
<1>3. \A a, b, c \in Pairs : Sooner(a, b) /\ Sooner(b, c) => Sooner(a, c)
  <2> TAKE a, b, c \in Pairs
  <2> HAVE Sooner(a, b) /\ Sooner(b, c)
  <2>1. Pivot(a) \in Int /\ Pivot(b) \in Int /\ Pivot(c) \in Int
    BY <1>1
  <2>2. Before(a, b) /\ Before(b, c) => Before(a, c)
    BY BeforeIsOrder
  <2> QED
    BY <2>1, <2>2 DEF Sooner
<1>4. \A a, b \in Pairs : a = b \/ Sooner(a, b) \/ Sooner(b, a)
  <2> TAKE a, b \in Pairs
  <2>1. Pivot(a) \in Int /\ Pivot(b) \in Int
    BY <1>1
  <2>2. a = b \/ Before(a, b) \/ Before(b, a)
    BY BeforeIsOrder
  <2> QED
    BY <2>1, <2>2 DEF Sooner
<1> QED
  BY <1>2, <1>3, <1>4

\* Every location is visited once, each after those that are sooner.
IsTraversed(t) ==
  /\ t \in [1..Cardinality(LULocations) -> LULocations]
  /\ \A ij \in LULocations : \E n \in 1..Cardinality(LULocations) : t[n] = ij
  /\ \A m, n \in 1..Cardinality(LULocations) : m < n => Sooner(t[m], t[n])

\* The two loops over rows visit all locations.
LEMMA TraversalVisits == ASSUME LULocations \subseteq Pairs PROVE IsTraversed(Traversal)
<1> DEFINE S == LULocations
           R == {ab \in S \X S : Sooner(ab[1], ab[2])}
<1>1. IsFiniteSet(S)
  BY PairsFinite
<1>2. \A a, b \in S : <<a, b>> \in R <=> Sooner(a, b)
  <2> HIDE DEF S
  <2> QED
    OBVIOUS
<1>3. IsOrder(R, S)
  <2> HIDE DEF R
  <2>1. \A a \in S : a \in Pairs
    OBVIOUS
  <2> HIDE DEF S
  <2> QED
    BY <1>2, <2>1, SoonerIsOrder DEF IsOrder
<1>4. IsListing(Sorted(S, R), R, S)
  <2> HIDE DEF R, S
  <2> QED
    BY <1>1, <1>3, SortedIsListing
<1>5. Traversal = Sorted(S, R)
  BY DEF Traversal, Sooner
<1>6. IsListing(Traversal, R, S)
  <2> HIDE DEF R, S
  <2> QED
    BY <1>4, <1>5
<1>7. Traversal \in [1..Cardinality(S) -> S]
  <2> HIDE DEF R, S
  <2> QED
    BY <1>6 DEF IsListing
<1>8. \A m, n \in 1..Cardinality(S) : m < n => Sooner(Traversal[m], Traversal[n])
  <2> TAKE m, n \in 1..Cardinality(S)
  <2> HAVE m < n
  <2>1. <<Traversal[m], Traversal[n]>> \in R
    <3> HIDE DEF R, S
    <3> QED
      BY <1>6 DEF IsListing
  <2>2. Traversal[m] \in S /\ Traversal[n] \in S
    <3> HIDE DEF R, S
    <3> QED
      BY <1>7
  <2> HIDE DEF R, S
  <2> QED
    BY <2>1, <2>2, <1>2
<1>9. \A ij \in S : \E n \in 1..Cardinality(S) : Traversal[n] = ij
  <2> HIDE DEF R, S
  <2> QED
    BY <1>6 DEF IsListing
<1> QED
  BY <1>7, <1>8, <1>9 DEF IsTraversed

\* What is sooner than a location has been visited when its turn comes, and a
\* location is visited once.
LEMMA SoonerIsVisited ==
  ASSUME LULocations \subseteq Pairs, NEW t, IsTraversed(t), NEW n \in 1..Cardinality(LULocations)
  PROVE  /\ \A ij \in LULocations : Sooner(ij, t[n]) => \E m \in 1..(n - 1) : t[m] = ij
         /\ \A m \in 1..(n - 1) : t[m] # t[n] /\ t[m] \in LULocations
<1> DEFINE c == Cardinality(LULocations)
<1>1. c \in Nat /\ n \in 1..c
  BY PairsFinite
<1>2. t \in [1..c -> LULocations] /\ (\A ij \in LULocations : \E m \in 1..c : t[m] = ij)
      /\ \A m, k \in 1..c : m < k => Sooner(t[m], t[k])
  BY DEF IsTraversed
<1> HIDE DEF c
<1>3. ASSUME NEW ij \in LULocations, Sooner(ij, t[n]) PROVE \E m \in 1..(n - 1) : t[m] = ij
  <2>1. PICK m \in 1..c : t[m] = ij
    BY <1>2
  <2>2. t[n] \in Pairs /\ ij \in Pairs
    BY <1>1, <1>2
  <2>3. ~Sooner(t[n], ij) /\ t[n] # ij
    BY <1>3, <2>2, SoonerIsOrder
  <2>4. ~(n < m) /\ n # m
    BY <1>1, <1>2, <2>1, <2>3
  <2>5. m \in 1..(n - 1)
    BY <1>1, <2>4
  <2> QED
    BY <2>1, <2>5
<1>4. ASSUME NEW m \in 1..(n - 1) PROVE t[m] # t[n] /\ t[m] \in LULocations
  <2>1. m \in 1..c /\ m < n
    BY <1>1
  <2>2. Sooner(t[m], t[n]) /\ t[m] \in LULocations
    BY <1>1, <1>2, <2>1
  <2> QED
    BY <2>2, SoonerIsOrder
<1> QED
  BY <1>3, <1>4

------------------------------------------------------------------------------
\* The tables.

\* What is stored are positions of the matrix.
Stored == LULocations \subseteq Pairs /\ WLocations \subseteq Pairs

Operation == [output : Int, w : Int, begin : Int, end : Int, diagonal : Int]
TablesType == [operations : Seq(Operation), products : Seq(Int \X Int)]

\* The products of an entry, as pairs of slots.
ProductPairs(ij) ==
  [n \in 1..Len(Ascending(Inner(ij))) |->
     <<Slot(LULocations, <<ij[1], Ascending(Inner(ij))[n]>>),
       Slot(LULocations, <<Ascending(Inner(ij))[n], ij[2]>>)>>]

\* An operation stands for the computation of an entry.
Describes(op, products, ij) ==
  /\ op.output = Slot(LULocations, ij)
  /\ op.w = IF ij \in WLocations THEN Slot(WLocations, ij) ELSE -1
  /\ op.diagonal = IF ij[1] > ij[2] THEN Slot(LULocations, <<ij[2], ij[2]>>) ELSE -1
  /\ op.begin \in Nat
  /\ op.end = op.begin + Len(ProductPairs(ij))
  /\ op.end <= Len(products)
  /\ \A n \in 1..Len(ProductPairs(ij)) : products[op.begin + n] = ProductPairs(ij)[n]

\* Tables that hold the operations of the first n entries of the traversal t.
TablesTo(tables, t, n) ==
  /\ tables \in TablesType
  /\ Len(tables.operations) = n
  /\ \A m \in 1..n : Describes(tables.operations[m], tables.products, t[m])

\* The inner indices of an entry are indices below its pivot.
LEMMA InnerIsFinite ==
  ASSUME NEW ij \in Pairs
  PROVE  Inner(ij) \subseteq Index /\ Inner(ij) \subseteq Nat /\ IsFiniteSet(Inner(ij))
<1>1. Pivot(ij) \in Index
  BY PairParts, PivotIsLesser
<1>2. \A k \in 0..(Pivot(ij) - 1) : k \in Index
  BY <1>1, SizesAssumption DEF Index
<1>3. Inner(ij) \subseteq Index
  BY <1>2 DEF Inner
<1> QED
  BY <1>3, IndexFacts, FS_Subset

\* A slot is a number.
LEMMA SlotIsNumber ==
  ASSUME NEW S \in SUBSET Pairs, NEW ij
  PROVE  Slot(S, ij) \in Nat
<1>1. {kl \in S : Before(kl, ij)} \in SUBSET Pairs
  OBVIOUS
<1> QED
  BY <1>1, PairsFinite DEF Slot

\* The products of an entry are a sequence of pairs of slots.
LEMMA PairsOfSlots ==
  ASSUME Stored, NEW ij \in Pairs
  PROVE  ProductPairs(ij) \in Seq(Int \X Int) /\ Len(ProductPairs(ij)) = Cardinality(Inner(ij))
         /\ Len(ProductPairs(ij)) \in Nat
<1> DEFINE a == Ascending(Inner(ij))
<1>1. Len(a) = Cardinality(Inner(ij)) /\ Len(a) \in Nat
  BY InnerIsFinite, AscendingLists
<1>2. \A x : Slot(LULocations, x) \in Int
  BY SlotIsNumber DEF Stored
<1>3. ProductPairs(ij) = [n \in 1..Len(a) |-> <<Slot(LULocations, <<ij[1], a[n]>>), Slot(LULocations, <<a[n], ij[2]>>)>>]
  BY DEF ProductPairs
<1> HIDE DEF a
<1>4. ProductPairs(ij) \in [1..Len(a) -> Int \X Int]
  BY <1>2, <1>3
<1> QED
  BY <1>1, <1>4

\* Products that are appended leave what the operations before refer to.
LEMMA DescribesLonger ==
  ASSUME NEW op, NEW p \in Seq(Int \X Int), NEW r \in Seq(Int \X Int), NEW ij, Describes(op, p, ij),
         Len(ProductPairs(ij)) \in Nat
  PROVE  Describes(op, p \o r, ij)
<1> DEFINE l == Len(ProductPairs(ij))
<1>1. l \in Nat /\ op.begin \in Nat /\ op.end = op.begin + l /\ op.end <= Len(p)
  BY DEF Describes
<1>2. Len(p \o r) = Len(p) + Len(r) /\ Len(p) \in Nat /\ Len(r) \in Nat
  OBVIOUS
<1>3. ASSUME NEW n \in 1..l PROVE (p \o r)[op.begin + n] = ProductPairs(ij)[n]
  <2>1. op.begin + n \in 1..Len(p)
    <3> HIDE DEF l
    <3> DEFINE b == op.begin
               e == op.end
               q == Len(p)
    <3>1. n \in Nat /\ 1 <= n /\ n <= l
      BY <1>1
    <3>2. b \in Nat /\ e = b + l /\ e <= q /\ l \in Nat /\ q \in Nat
      BY <1>1, <1>2
    <3> HIDE DEF b, e, q
    <3>3. b + n \in 1..q
      BY <3>1, <3>2
    <3> QED
      BY <3>3 DEF b, q
  <2>2. (p \o r)[op.begin + n] = p[op.begin + n]
    BY <2>1
  <2> QED
    BY <2>2 DEF Describes
<1>4. op.end <= Len(p \o r)
  BY <1>1, <1>2
<1> QED
  BY <1>3, <1>4 DEF Describes

\* An entry's operation is appended with its products.
LEMMA TablesGrow ==
  ASSUME Stored, NEW tables, NEW t, NEW n \in Nat, TablesTo(tables, t, n),
         \A m \in 1..(n + 1) : t[m] \in Pairs
  PROVE  TablesTo(Appended(tables, t[n + 1]), t, n + 1)
<1> DEFINE ij == t[n + 1]
           p == tables.products
           pairs == ProductPairs(ij)
           op == [output   |-> Slot(LULocations, ij),
                  w        |-> IF ij \in WLocations THEN Slot(WLocations, ij) ELSE -1,
                  begin    |-> Len(p),
                  end      |-> Len(p) + Len(pairs),
                  diagonal |-> IF ij[1] > ij[2] THEN Slot(LULocations, <<ij[2], ij[2]>>) ELSE -1]
           ops == tables.operations
<1>0. ij \in Pairs
  <2>1. n + 1 \in 1..(n + 1)
    OBVIOUS
  <2> QED
    BY <2>1
<1>1. /\ ops \in Seq(Operation) /\ Len(ops) = n /\ p \in Seq(Int \X Int)
      /\ \A m \in 1..n : Describes(ops[m], p, t[m])
  BY DEF TablesTo, TablesType
<1>2. pairs \in Seq(Int \X Int) /\ Len(pairs) \in Nat
  BY <1>0, PairsOfSlots
<1>3. Appended(tables, ij) = [operations |-> Append(ops, op), products |-> p \o pairs]
  BY DEF Appended, ProductPairs, Begin
<1>4. op \in Operation
  <2>1. \A x : Slot(LULocations, x) \in Int /\ Slot(WLocations, x) \in Int
    BY SlotIsNumber DEF Stored
  <2>2. Len(p) \in Int /\ Len(p) + Len(pairs) \in Int
    BY <1>1, <1>2
  <2> HIDE DEF p, pairs
  <2> QED
    BY <2>1, <2>2 DEF Operation
<1>5. Append(ops, op) \in Seq(Operation) /\ Len(Append(ops, op)) = n + 1
      /\ Append(ops, op)[n + 1] = op /\ \A m \in 1..n : Append(ops, op)[m] = ops[m]
  <2> HIDE DEF op, ops
  <2> QED
    BY <1>1, <1>4
<1>6. p \o pairs \in Seq(Int \X Int) /\ Len(p \o pairs) = Len(p) + Len(pairs) /\ Len(p) \in Nat
      /\ \A m \in 1..Len(pairs) : (p \o pairs)[Len(p) + m] = pairs[m]
  <2> HIDE DEF p, pairs
  <2>1. p \o pairs \in Seq(Int \X Int) /\ Len(p \o pairs) = Len(p) + Len(pairs) /\ Len(p) \in Nat
    BY <1>1, <1>2
  <2>2. ASSUME NEW m \in 1..Len(pairs) PROVE (p \o pairs)[Len(p) + m] = pairs[m]
    <3>1. Len(p) + m \in 1..(Len(p) + Len(pairs)) /\ ~(Len(p) + m <= Len(p)) /\ (Len(p) + m) - Len(p) = m
      BY <1>2, <2>1
    <3> QED
      BY <1>1, <1>2, <3>1
  <2> QED
    BY <2>1, <2>2
<1>7. Describes(op, p \o pairs, ij)
  <2>1. /\ op.output = Slot(LULocations, ij)
        /\ op.w = IF ij \in WLocations THEN Slot(WLocations, ij) ELSE -1
        /\ op.diagonal = IF ij[1] > ij[2] THEN Slot(LULocations, <<ij[2], ij[2]>>) ELSE -1
        /\ op.begin = Len(p) /\ op.end = Len(p) + Len(pairs)
    OBVIOUS
  <2> HIDE DEF op, p, ij
  <2> QED
    BY <2>1, <1>2, <1>6 DEF Describes
<1>8. \A m \in 1..n : Describes(ops[m], p \o pairs, t[m])
  <2> TAKE m \in 1..n
  <2>1. t[m] \in Pairs
    <3>1. m \in 1..(n + 1)
      OBVIOUS
    <3> QED
      BY <3>1
  <2>2. Len(ProductPairs(t[m])) \in Nat
    BY <2>1, PairsOfSlots
  <2> HIDE DEF p, pairs, ops
  <2> QED
    BY <1>1, <1>2, <2>2, DescribesLonger
<1> DEFINE more == Append(ops, op)
           longer == p \o pairs
<1>9. \A m \in 1..(n + 1) : Describes(more[m], longer, t[m])
  <2>1. \A m \in 1..(n + 1) : m \in 1..n \/ m = n + 1
    OBVIOUS
  <2>2. more[n + 1] = op /\ \A m \in 1..n : more[m] = ops[m]
    BY <1>5
  <2>3. Describes(op, longer, t[n + 1])
    BY <1>7
  <2>4. \A m \in 1..n : Describes(ops[m], longer, t[m])
    BY <1>8
  <2> HIDE DEF more, longer, op, ops
  <2> QED
    BY <2>1, <2>2, <2>3, <2>4
<1>10. Appended(tables, ij) = [operations |-> more, products |-> longer]
  BY <1>3
<1>11. more \in Seq(Operation) /\ Len(more) = n + 1 /\ longer \in Seq(Int \X Int)
  BY <1>5, <1>6
<1> HIDE DEF more, longer, ij
<1> QED
  BY <1>9, <1>10, <1>11 DEF TablesTo, TablesType, ij

\* What is appended is typed.
LEMMA AppendedIsTyped ==
  ASSUME Stored, NEW tables \in TablesType, NEW ij \in Pairs
  PROVE  Appended(tables, ij) \in TablesType
<1> DEFINE p == tables.products
           pairs == ProductPairs(ij)
           op == [output   |-> Slot(LULocations, ij),
                  w        |-> IF ij \in WLocations THEN Slot(WLocations, ij) ELSE -1,
                  begin    |-> Len(p),
                  end      |-> Len(p) + Len(pairs),
                  diagonal |-> IF ij[1] > ij[2] THEN Slot(LULocations, <<ij[2], ij[2]>>) ELSE -1]
<1>1. Appended(tables, ij) = [operations |-> Append(tables.operations, op), products |-> p \o pairs]
  BY DEF Appended, ProductPairs, Begin
<1>2. pairs \in Seq(Int \X Int) /\ Len(pairs) \in Nat
  BY PairsOfSlots
<1>3. tables.operations \in Seq(Operation) /\ p \in Seq(Int \X Int)
  BY DEF TablesType
<1>4. op \in Operation
  <2>1. \A x : Slot(LULocations, x) \in Int /\ Slot(WLocations, x) \in Int
    BY SlotIsNumber DEF Stored
  <2>2. Len(p) \in Int /\ Len(p) + Len(pairs) \in Int
    BY <1>2, <1>3
  <2> HIDE DEF p, pairs
  <2> QED
    BY <2>1, <2>2 DEF Operation
<1> HIDE DEF op, p, pairs
<1> QED
  BY <1>1, <1>2, <1>3, <1>4 DEF TablesType

\* The tables come about entry by entry.
LEMMA TablesRecursion ==
  ASSUME Stored, IsTraversed(Traversal)
  PROVE  \E f : /\ Tables = f[Cardinality(LULocations)]
               /\ f[0] = [operations |-> <<>>, products |-> <<>>]
               /\ \A n \in 1..Cardinality(LULocations) : f[n] = Appended(f[n - 1], Traversal[n])
<1> DEFINE c == Cardinality(LULocations)
           t == Traversal
           first == [operations |-> <<>>, products |-> <<>>]
           D == TablesType
           later == [n \in 1..c |-> [tables \in D |-> Appended(tables, t[n])]]
           Def(f) == [n \in 0..c |-> IF n = 0 THEN first ELSE Appended(f[n - 1], t[n])]
<1>1. c \in Nat /\ \A n \in 1..c : t[n] \in Pairs
  BY PairsFinite DEF Stored, IsTraversed
<1>2. IsStaged(c, D, first, later)
  <2>1. first \in D
    BY DEF TablesType
  <2>2. \A n \in 1..c : \A tables \in D : Appended(tables, t[n]) \in D
    BY <1>1, AppendedIsTyped
  <2> HIDE DEF c, t, first, D
  <2> QED
    BY <1>1, <2>1, <2>2 DEF IsStaged
<1>3. PICK g \in [0..c -> D] : g[0] = first /\ \A n \in 1..c : g[n] = later[n][g[n - 1]]
  <2> HIDE DEF c, D, first, later
  <2> QED
    BY <1>2, StagedFunction
<1>4. \A n \in 0..c : n # 0 => n \in 1..c /\ n - 1 \in 0..c
  <2> HIDE DEF c
  <2> QED
    BY <1>1
<1>5. \A n \in 1..c : g[n] = Appended(g[n - 1], t[n])
  <2> TAKE n \in 1..c
  <2>1. n - 1 \in 0..c
    <3> HIDE DEF c
    <3> QED
      BY <1>1
  <2> HIDE DEF c, D, t
  <2> QED
    BY <1>3, <2>1
<1>6. g = Def(g)
  <2> HIDE DEF c, D, t, first
  <2> QED
    BY <1>3, <1>4, <1>5
<1> DEFINE f == CHOOSE h : h = Def(h)
<1>7. f = Def(f)
  <2> HIDE DEF Def
  <2> QED
    BY <1>6
<1>8. Tables = f[c]
  BY DEF Tables
<1> HIDE DEF f
<1>9. f[0] = first /\ \A n \in 1..c : f[n] = Appended(f[n - 1], t[n])
  <2> HIDE DEF c, t, first
  <2>1. 0 \in 0..c /\ \A n \in 1..c : n \in 0..c /\ n # 0
    BY <1>1
  <2> QED
    BY <1>7, <2>1
<1> QED
  BY <1>8, <1>9

\* One operation for each location, in the order of the traversal.
LEMMA TablesDescribe ==
  ASSUME Stored
  PROVE  IsTraversed(Traversal) /\ TablesTo(Tables, Traversal, Cardinality(LULocations))
<1> DEFINE c == Cardinality(LULocations)
           t == Traversal
<1>1. IsTraversed(t)
  BY TraversalVisits DEF Stored
<1>2. c \in Nat /\ \A n \in 1..c : t[n] \in Pairs
  BY <1>1, PairsFinite DEF Stored, IsTraversed
<1>3. PICK f : /\ Tables = f[c]
               /\ f[0] = [operations |-> <<>>, products |-> <<>>]
               /\ \A n \in 1..c : f[n] = Appended(f[n - 1], t[n])
  BY <1>1, TablesRecursion
<1> HIDE DEF c, t
<1> DEFINE T == {n \in Nat : n <= c => TablesTo(f[n], t, n)}
<1>4. 0 \in T
  <2>1. f[0].operations = <<>> /\ f[0].products = <<>> /\ Len(<<>>) = 0 /\ 1..0 = {} /\ f[0] \in TablesType
    BY <1>3 DEF TablesType
  <2> QED
    BY <2>1 DEF TablesTo
<1>5. ASSUME NEW n \in Nat, n \in T PROVE n + 1 \in T
  <2> SUFFICES ASSUME n + 1 <= c PROVE TablesTo(f[n + 1], t, n + 1)
    OBVIOUS
  <2>1. n <= c /\ n + 1 \in 1..c /\ (n + 1) - 1 = n /\ \A m \in 1..(n + 1) : m \in 1..c
    BY <1>2
  <2>2. TablesTo(f[n], t, n)
    BY <2>1, <1>5
  <2>3. \A m \in 1..(n + 1) : t[m] \in Pairs
    BY <1>2, <2>1
  <2>4. f[n + 1] = Appended(f[n], t[n + 1])
    BY <1>3, <2>1
  <2> QED
    BY <2>2, <2>3, <2>4, TablesGrow
<1> HIDE DEF T
<1>6. c \in T
  BY <1>2, <1>4, <1>5, NatInduct
<1> QED
  BY <1>1, <1>2, <1>3, <1>6 DEF T, c, t

------------------------------------------------------------------------------
\* Sums over places.

\* Each member of S has one place in R.
IsPlacing(h, R, S) ==
  /\ IsFiniteSet(R) /\ IsFiniteSet(S)
  /\ h \in [R -> S]
  /\ \A x, y \in R : h[x] = h[y] => x = y
  /\ \A s \in S : \E x \in R : h[x] = s

\* A sum may be taken over the places of its terms.
LEMMA TotalByPlaces ==
  ASSUME NEW R, NEW S, NEW h, IsPlacing(h, R, S), NEW f, NEW g,
         \A s \in S : f[s] \in Int, \A x \in R : g[x] = f[h[x]]
  PROVE  Total(g, R) = Total(f, S)
<1> USE DEF IsPlacing
<1> DEFINE image(r) == {h[x] : x \in r}
           T == {r \in SUBSET R : Total(g, r) = Total(f, image(r))}
<1>0. (\A x \in R : h[x] \in S) /\ \A x \in R : g[x] \in Int
  OBVIOUS
<1>1. {} \in T
  <2>1. image({}) = {}
    OBVIOUS
  <2> HIDE DEF image
  <2> QED
    BY <2>1, TotalEmpty
<1>2. ASSUME NEW r \in SUBSET R, NEW x \in R \ r, r \in T PROVE r \union {x} \in T
  <2>1. Total(g, r \union {x}) = (g[x] + Total(g, r)) % P
    BY <1>0, TotalGrows
  <2>2. image(r) \in SUBSET S /\ h[x] \in S \ image(r)
    BY <1>0
  <2>3. image(r \union {x}) = image(r) \union {h[x]}
    OBVIOUS
  <2>4. Total(f, image(r) \union {h[x]}) = (f[h[x]] + Total(f, image(r))) % P
    <3> HIDE DEF image
    <3> QED
      BY <2>2, TotalGrows
  <2>5. Total(g, r) = Total(f, image(r))
    BY <1>2
  <2> HIDE DEF image
  <2>6. Total(g, r \union {x}) = Total(f, image(r \union {x}))
    BY <2>1, <2>3, <2>4, <2>5
  <2> QED
    BY <2>6
<1> HIDE DEF T
<1>3. R \in T
  BY <1>1, <1>2, FinitePart
<1>4. image(R) = S
  BY <1>0
<1> QED
  BY <1>3, <1>4 DEF T

------------------------------------------------------------------------------
\* The compact factorization.

\* W and its factors, stored compactly.
Compact ==
  /\ FactorEquations
  /\ Stored
  /\ \A i, j \in Index : <<i, j>> \notin WLocations => w[<<i, j>>] = 0

\* The entry of L or of U at a location.
Value(ij) == IF ij[1] > ij[2] THEN L(ij[1], ij[2]) ELSE U(ij[1], ij[2])

\* The slots of the first n entries of the traversal, written.
Written(n) ==
  [s \in {Slot(LULocations, Traversal[m]) : m \in 1..n} |-> Value(Located(LULocations, s))]

\* The factors are numbers of the field.
LEMMA ValueIsInField ==
  ASSUME FactorEquations, NEW i \in Index, NEW j \in Index
  PROVE  /\ <<i, j>> \in nzL => i > j /\ Value(<<i, j>>) = L(i, j) /\ L(i, j) \in Field
         /\ <<i, j>> \in nzU => ~(i > j) /\ Value(<<i, j>>) = U(i, j) /\ U(i, j) \in Field
<1>1. i \in Int /\ j \in Int
  BY IndexFacts
<1>2. <<i, j>> \in nzL => i > j /\ L(i, j) \in Field
  BY DEF FactorEquations
<1>3. <<i, j>> \in nzU => i <= j /\ U(i, j) \in Field
  BY DEF FactorEquations
<1> QED
  BY <1>1, <1>2, <1>3 DEF Value

\* Each entry before the turn of the n-th has its slot.
LEMMA WrittenHolds ==
  ASSUME Stored, NEW n \in 0..Cardinality(LULocations), NEW m \in 1..n
  PROVE  Written(n)[Slot(LULocations, Traversal[m])] = Value(Traversal[m])
<1> DEFINE S == LULocations
           c == Cardinality(S)
           ij == Traversal[m]
           s == Slot(S, ij)
<1>1. c \in Nat
  BY PairsFinite DEF Stored
<1>2. m \in 1..c
  <2>1. n \in 0..c
    OBVIOUS
  <2> HIDE DEF c
  <2> QED
    BY <1>1, <2>1
<1>3. ij \in S
  BY <1>2, TablesDescribe DEF IsTraversed
<1>4. Located(S, s) = ij
  <2>1. IsNumbered(S)
    BY SlotsNumber DEF Stored
  <2> HIDE DEF S, ij
  <2> QED
    BY <1>3, <2>1 DEF IsNumbered
<1> QED
  BY <1>4 DEF Written

\* The inner indices of the tables are those of the factorization's equations.
LEMMA InnerIsBelow ==
  ASSUME NEW i \in Index, NEW j \in Index
  PROVE  Inner(<<i, j>>) = InnerBelow(i, j, IF i <= j THEN i ELSE j)
<1> DEFINE p == Pivot(<<i, j>>)
<1>1. p \in Index /\ p = IF i <= j THEN i ELSE j
  BY PivotIsLesser
<1> HIDE DEF p
<1>2. \A k : k \in 0..(p - 1) <=> k \in Index /\ k < p
  BY <1>1, SizesAssumption DEF Index
<1>3. Inner(<<i, j>>) = {k \in 0..(p - 1) : <<i, k>> \in nzL /\ <<k, j>> \in nzU}
  BY DEF Inner, p
<1> QED
  BY <1>1, <1>2, <1>3 DEF InnerBelow

\* Whatever an operation reads has been written.
LEMMA OperandsWritten ==
  ASSUME Compact, NEW n \in 1..Cardinality(LULocations), NEW i \in Index, NEW j \in Index,
         Traversal[n] = <<i, j>>
  PROVE  /\ \A k \in Inner(<<i, j>>) :
              /\ Written(n - 1)[Slot(LULocations, <<i, k>>)] = L(i, k)
              /\ Written(n - 1)[Slot(LULocations, <<k, j>>)] = U(k, j)
              /\ L(i, k) \in Field /\ U(k, j) \in Field
         /\ i > j => Written(n - 1)[Slot(LULocations, <<j, j>>)] = U(j, j)
<1> DEFINE c == Cardinality(LULocations)
           t == Traversal
<1>1. IsTraversed(t) /\ Stored /\ FactorEquations
  BY TablesDescribe DEF Compact
<1>2. c \in Nat /\ n - 1 \in 0..c
  <2>1. c \in Nat /\ n \in 1..c
    BY <1>1, PairsFinite DEF Stored
  <2> HIDE DEF c
  <2> QED
    BY <2>1
<1>3. ASSUME NEW ij \in LULocations, Sooner(ij, <<i, j>>)
      PROVE  Written(n - 1)[Slot(LULocations, ij)] = Value(ij)
  <2>1. PICK m \in 1..(n - 1) : t[m] = ij
    BY <1>1, <1>3, SoonerIsVisited DEF Stored
  <2> QED
    BY <1>1, <1>2, <2>1, WrittenHolds
<1>4. ASSUME NEW k \in Inner(<<i, j>>)
      PROVE  /\ Written(n - 1)[Slot(LULocations, <<i, k>>)] = L(i, k)
             /\ Written(n - 1)[Slot(LULocations, <<k, j>>)] = U(k, j)
             /\ L(i, k) \in Field /\ U(k, j) \in Field
  <2>1. k \in Index /\ k < (IF i <= j THEN i ELSE j) /\ <<i, k>> \in nzL /\ <<k, j>> \in nzU
    BY InnerIsBelow DEF InnerBelow
  <2>2. i \in Int /\ j \in Int /\ k \in Int
    BY <2>1, IndexFacts
  <2>3. Pivot(<<i, j>>) = (IF i <= j THEN i ELSE j) /\ Pivot(<<i, k>>) = k /\ Pivot(<<k, j>>) = k
    BY <2>1, <2>2, PivotIsLesser
  <2>4. Sooner(<<i, k>>, <<i, j>>) /\ Sooner(<<k, j>>, <<i, j>>)
    BY <2>1, <2>3 DEF Sooner
  <2>5. <<i, k>> \in LULocations /\ <<k, j>> \in LULocations
    BY <2>1 DEF LULocations
  <2>6. Value(<<i, k>>) = L(i, k) /\ Value(<<k, j>>) = U(k, j) /\ L(i, k) \in Field /\ U(k, j) \in Field
    BY <1>1, <2>1, ValueIsInField
  <2> QED
    BY <1>3, <2>4, <2>5, <2>6
<1>5. ASSUME i > j PROVE Written(n - 1)[Slot(LULocations, <<j, j>>)] = U(j, j)
  <2>1. i \in Int /\ j \in Int
    BY IndexFacts
  <2>2. Pivot(<<i, j>>) = j /\ Pivot(<<j, j>>) = j
    BY <1>5, <2>1, PivotIsLesser
  <2>3. Sooner(<<j, j>>, <<i, j>>)
    BY <1>5, <2>1, <2>2 DEF Sooner, Before
  <2>4. <<j, j>> \in LULocations /\ Value(<<j, j>>) = U(j, j)
    BY <1>1, ValueIsInField DEF FactorEquations, LULocations
  <2> QED
    BY <1>3, <2>3, <2>4
<1> QED
  BY <1>4, <1>5

\* The products of an entry are those between b and e.
HoldsProducts(products, b, e, ij) ==
  /\ b \in Nat /\ e = b + Len(ProductPairs(ij))
  /\ \A q \in 1..Len(ProductPairs(ij)) : products[b + q] = ProductPairs(ij)[q]

\* The sum of the products between b and e.
RangeSum(lu, products, b, e) ==
  Total([x \in (b + 1)..e |-> lu[products[x][1]] * lu[products[x][2]]], (b + 1)..e)

\* The sum that an operation subtracts, over its range of products, is that of
\* the factorization's equation.
LEMMA RangeIsInner ==
  ASSUME Compact, NEW n \in 1..Cardinality(LULocations), NEW i \in Index, NEW j \in Index,
         Traversal[n] = <<i, j>>,
         NEW products, NEW b, NEW e, HoldsProducts(products, b, e, <<i, j>>)
  PROVE  RangeSum(Written(n - 1), products, b, e)
           = Total(Product(i, j), InnerBelow(i, j, IF i <= j THEN i ELSE j))
<1> USE DEF HoldsProducts
<1> DEFINE ij == <<i, j>>
           S == Inner(ij)
           a == Ascending(S)
           l == Len(a)
           lu == Written(n - 1)
           R == (b + 1)..e
           h == [x \in R |-> a[x - b]]
           f == Product(i, j)
           g == [x \in R |-> lu[products[x][1]] * lu[products[x][2]]]
<1>1. ij \in Pairs /\ S \subseteq Index /\ S \subseteq Nat /\ IsFiniteSet(S)
  <2>1. ij \in Pairs
    BY DEF Pairs
  <2> HIDE DEF ij
  <2> QED
    BY <2>1, InnerIsFinite
<1>2. /\ l \in Nat
      /\ \A s \in S : \E q \in 1..l : a[q] = s
      /\ \A q \in 1..l : a[q] \in S
      /\ \A p, q \in 1..l : p < q => a[p] < a[q]
  <2> HIDE DEF S
  <2> QED
    BY <1>1, AscendingLists
<1>3. Len(ProductPairs(ij)) = l /\ e = b + l
  <2>1. ProductPairs(ij) = [q \in 1..l |-> <<Slot(LULocations, <<ij[1], a[q]>>), Slot(LULocations, <<a[q], ij[2]>>)>>]
    BY DEF ProductPairs
  <2> HIDE DEF a, ij, S
  <2>2. Len(ProductPairs(ij)) = l
    BY <1>2, <2>1
  <2> QED
    BY <2>2 DEF ij
<1>4. \A q \in 1..l : products[b + q] = <<Slot(LULocations, <<i, a[q]>>), Slot(LULocations, <<a[q], j>>)>>
  <2> TAKE q \in 1..l
  <2>1. products[b + q] = ProductPairs(ij)[q]
    BY <1>3
  <2> QED
    BY <2>1 DEF ProductPairs
<1>5. \A k \in S : /\ lu[Slot(LULocations, <<i, k>>)] = L(i, k)
                   /\ lu[Slot(LULocations, <<k, j>>)] = U(k, j)
                   /\ L(i, k) \in Int /\ U(k, j) \in Int
  <2> TAKE k \in S
  <2>1. \A x \in Field : x \in Int
    BY DEF Field
  <2> QED
    BY <2>1, OperandsWritten
<1>6. \A x \in R : x - b \in 1..l /\ b + (x - b) = x
  <2> HIDE DEF l
  <2> QED
    BY <1>2, <1>3
<1>7. \A q \in 1..l : b + q \in R /\ (b + q) - b = q
  <2> HIDE DEF l
  <2> QED
    BY <1>2, <1>3
<1> HIDE DEF S, a, l, lu, R, ij
<1>8. IsPlacing(h, R, S)
  <2>1. IsFiniteSet(R)
    <3>1. b + 1 \in Int /\ e \in Int
      BY <1>2, <1>3
    <3> QED
      BY <3>1, FS_Interval DEF R
  <2>2. h \in [R -> S]
    BY <1>2, <1>6
  <2>3. ASSUME NEW x \in R, NEW y \in R, h[x] = h[y] PROVE x = y
    <3>1. x - b \in 1..l /\ y - b \in 1..l /\ a[x - b] = a[y - b]
      BY <1>6, <2>3
    <3>2. \A q \in 1..l : a[q] \in Int
      <4>1. \A k \in S : k \in Int
        BY <1>1
      <4> QED
        BY <4>1, <1>2
    <3>3. ~(x - b < y - b) /\ ~(y - b < x - b)
      BY <1>2, <3>1, <3>2
    <3>4. x - b = y - b
      BY <3>1, <3>3
    <3> QED
      BY <1>6, <3>4
  <2>4. \A s \in S : \E x \in R : h[x] = s
    <3> TAKE s \in S
    <3>1. PICK q \in 1..l : a[q] = s
      BY <1>2
    <3>2. b + q \in R /\ h[b + q] = s
      BY <1>7, <3>1
    <3> QED
      BY <3>2
  <2> HIDE DEF h
  <2> QED
    BY <1>1, <2>1, <2>2, <2>3, <2>4 DEF IsPlacing
<1>9. \A x \in R : g[x] = f[h[x]]
  <2> TAKE x \in R
  <2>1. x - b \in 1..l /\ b + (x - b) = x
    BY <1>6
  <2>2. products[x] = <<Slot(LULocations, <<i, a[x - b]>>), Slot(LULocations, <<a[x - b], j>>)>>
    BY <1>4, <2>1
  <2>3. a[x - b] \in S /\ a[x - b] \in Index
    BY <1>1, <1>2, <2>1
  <2>4. g[x] = L(i, a[x - b]) * U(a[x - b], j)
    BY <1>5, <2>2, <2>3
  <2>5. h[x] = a[x - b] /\ f[a[x - b]] = L(i, a[x - b]) * U(a[x - b], j)
    BY <2>3 DEF Product
  <2> QED
    BY <2>4, <2>5
<1>10. \A s \in S : f[s] \in Int
  <2> TAKE s \in S
  <2>1. L(i, s) \in Int /\ U(s, j) \in Int /\ s \in Index
    BY <1>1, <1>5
  <2>2. f[s] = L(i, s) * U(s, j)
    BY <2>1 DEF Product
  <2> HIDE DEF f
  <2> QED
    BY <2>1, <2>2
<1> HIDE DEF f, g, h
<1>11. Total(g, R) = Total(f, S)
  BY <1>8, <1>9, <1>10, TotalByPlaces
<1> QED
  BY <1>11, InnerIsBelow DEF f, g, S, R, lu, ij, RangeSum

\* An operation computes its entry.
LEMMA OperationComputes ==
  ASSUME Compact, NEW wValues, \A ij \in WLocations : wValues[Slot(WLocations, ij)] = w[ij],
         NEW n \in 1..Cardinality(LULocations)
  PROVE  Operated(Tables.operations[n], Tables.products, wValues, Written(n - 1)) = Written(n)
<1> DEFINE c == Cardinality(LULocations)
           t == Traversal
           op == Tables.operations[n]
           products == Tables.products
           lu == Written(n - 1)
<1>1. IsTraversed(t) /\ TablesTo(Tables, t, c) /\ Stored /\ FactorEquations
  BY TablesDescribe DEF Compact
<1>2. c \in Nat /\ n \in 1..c
  BY <1>1, PairsFinite DEF Stored
<1>3. t[n] \in LULocations /\ Describes(op, products, t[n])
  BY <1>1, <1>2 DEF IsTraversed, TablesTo
<1>4. PICK i, j \in Index : t[n] = <<i, j>>
  BY <1>1, <1>3 DEF Stored, Pairs
<1> DEFINE ij == <<i, j>>
           p == IF i <= j THEN i ELSE j
           s == Slot(LULocations, ij)
           range == (op.begin + 1)..op.end
           subtracted == Total([x \in range |-> lu[products[x][1]] * lu[products[x][2]]], range)
           numerator == ((IF op.w >= 0 THEN wValues[op.w] ELSE 0) - subtracted) % P
           value == IF op.diagonal >= 0 THEN (numerator * Over(lu[op.diagonal])) % P ELSE numerator
<1>5. Operated(op, products, wValues, lu) = [r \in DOMAIN lu \union {op.output} |-> IF r = op.output THEN value ELSE lu[r]]
  BY DEF Operated
<1>6. op.output = s /\ s \in Nat
  BY <1>1, <1>3, <1>4, SlotIsNumber DEF Describes, Stored
<1>7. subtracted = Total(Product(i, j), InnerBelow(i, j, p))
  <2> DEFINE b == op.begin
             e == op.end
  <2>1. HoldsProducts(products, b, e, <<i, j>>)
    BY <1>3, <1>4 DEF Describes, HoldsProducts
  <2>2. subtracted = RangeSum(Written(n - 1), products, b, e)
    BY DEF RangeSum
  <2> HIDE DEF b, e, products, subtracted
  <2> QED
    BY <1>4, <2>1, <2>2, RangeIsInner
<1>8. (IF op.w >= 0 THEN wValues[op.w] ELSE 0) = w[<<i, j>>]
  <2>1. op.w = IF ij \in WLocations THEN Slot(WLocations, ij) ELSE -1
    BY <1>3, <1>4 DEF Describes
  <2>2. Slot(WLocations, ij) \in Nat
    BY <1>1, SlotIsNumber DEF Stored
  <2>3. CASE ij \in WLocations
    <3>1. op.w = Slot(WLocations, ij) /\ op.w >= 0
      BY <2>1, <2>2, <2>3
    <3> QED
      BY <2>3, <3>1
  <2>4. CASE ij \notin WLocations
    <3>1. op.w = -1 /\ ~(op.w >= 0)
      BY <2>1, <2>4
    <3> QED
      BY <2>4, <3>1 DEF Compact
  <2> QED
    BY <2>3, <2>4
<1>9. numerator = (w[<<i, j>>] - Total(Product(i, j), InnerBelow(i, j, p))) % P
  BY <1>7, <1>8
<1>10. op.diagonal = IF i > j THEN Slot(LULocations, <<j, j>>) ELSE -1
  BY <1>3, <1>4 DEF Describes
<1>11. i \in Int /\ j \in Int
  BY IndexFacts
<1> HIDE DEF numerator
<1>12. value = Value(ij)
  <2>1. <<i, j>> \in nzL \/ <<i, j>> \in nzU
    BY <1>3, <1>4 DEF LULocations
  <2>2. CASE <<i, j>> \in nzL
    <3>1. i > j /\ Value(ij) = L(i, j) /\ p = j
      BY <1>1, <1>11, <2>2, ValueIsInField
    <3>2. lu[op.diagonal] = U(j, j) /\ op.diagonal >= 0
      <4>1. op.diagonal = Slot(LULocations, <<j, j>>) /\ Slot(LULocations, <<j, j>>) \in Nat
        BY <1>1, <1>10, <3>1, SlotIsNumber DEF Stored
      <4>2. lu[Slot(LULocations, <<j, j>>)] = U(j, j)
        BY <1>4, <3>1, OperandsWritten
      <4> QED
        BY <4>1, <4>2
    <3>3. value = (numerator * Over(U(j, j))) % P
      BY <3>2
    <3>4. L(i, j) = ((w[<<i, j>>] - Total(Product(i, j), InnerBelow(i, j, j))) % P) * Over(U(j, j)) % P
      BY <1>1, <2>2 DEF FactorEquations
    <3> QED
      BY <1>9, <3>1, <3>3, <3>4
  <2>3. CASE <<i, j>> \in nzU
    <3>1. ~(i > j) /\ Value(ij) = U(i, j) /\ p = i
      BY <1>1, <1>11, <2>3, ValueIsInField
    <3>2. op.diagonal = -1 /\ ~(op.diagonal >= 0)
      BY <1>10, <3>1
    <3>3. value = numerator
      BY <3>2
    <3>4. U(i, j) = (w[<<i, j>>] - Total(Product(i, j), InnerBelow(i, j, i))) % P
      BY <1>1, <2>3 DEF FactorEquations
    <3> QED
      BY <1>9, <3>1, <3>3, <3>4
  <2> QED
    BY <2>1, <2>2, <2>3
<1> HIDE DEF value
<1> DEFINE before == {Slot(LULocations, t[m]) : m \in 1..(n - 1)}
           after == {Slot(LULocations, t[m]) : m \in 1..n}
           held(r) == Value(Located(LULocations, r))
<1>13. after = before \union {s}
  <2>1. \A m : m \in 1..n <=> m \in 1..(n - 1) \/ m = n
    BY <1>2
  <2> QED
    BY <1>4, <2>1
<1>14. lu = [r \in before |-> held(r)] /\ Written(n) = [r \in after |-> held(r)]
  BY DEF Written
<1>15. held(s) = Value(ij)
  <2>1. IsNumbered(LULocations)
    BY <1>1, SlotsNumber DEF Stored
  <2>2. Located(LULocations, s) = ij
    BY <1>3, <1>4, <2>1 DEF IsNumbered
  <2> QED
    BY <2>2
<1> HIDE DEF before, after, held, lu, op, s, ij
<1>16. Operated(op, products, wValues, lu) = [r \in before \union {s} |-> IF r = s THEN Value(ij) ELSE lu[r]]
  BY <1>5, <1>6, <1>12, <1>14
<1>17. Operated(op, products, wValues, lu) = Written(n)
  BY <1>13, <1>14, <1>15, <1>16
<1> QED
  BY <1>17 DEF op, lu

\* factorize_plan fills every slot with its entry.
LEMMA FactorizePlanComputes ==
  ASSUME Compact, NEW wValues, \A ij \in WLocations : wValues[Slot(WLocations, ij)] = w[ij]
  PROVE  /\ DOMAIN FactorizePlan(wValues) = Slots(LULocations)
         /\ \A ij \in LULocations : FactorizePlan(wValues)[Slot(LULocations, ij)] = Value(ij)
<1> DEFINE c == Cardinality(LULocations)
           ops == Tables.operations
           Def(f) == [n \in 0..Len(ops) |->
                        IF n = 0 THEN [s \in {} |-> 0] ELSE Operated(ops[n], Tables.products, wValues, f[n - 1])]
           g == [n \in 0..c |-> Written(n)]
<1>1. IsTraversed(Traversal) /\ Len(ops) = c /\ Stored /\ c \in Nat
  BY TablesDescribe, PairsFinite DEF Compact, TablesTo, Stored
<1>2. Written(0) = [s \in {} |-> 0]
  <2>1. {Slot(LULocations, Traversal[m]) : m \in 1..0} = {}
    OBVIOUS
  <2> QED
    BY <2>1 DEF Written
<1>3. \A n \in 1..c : Operated(ops[n], Tables.products, wValues, Written(n - 1)) = Written(n)
  BY OperationComputes
<1>4. \A n \in 0..c : n # 0 => n \in 1..c /\ n - 1 \in 0..c
  <2> HIDE DEF c
  <2> QED
    BY <1>1
<1>5. g = Def(g)
  <2> HIDE DEF c, ops
  <2> QED
    BY <1>1, <1>2, <1>3, <1>4
<1> DEFINE f == CHOOSE h : h = Def(h)
<1>6. f = Def(f)
  <2> HIDE DEF Def, g
  <2> QED
    BY <1>5
<1>7. FactorizePlan(wValues) = f[c]
  <2>1. FactorizePlan(wValues) = f[Len(ops)]
    BY DEF FactorizePlan
  <2> QED
    BY <1>1, <2>1
<1> HIDE DEF f, c, ops
<1> DEFINE T == {n \in Nat : n <= c => f[n] = Written(n)}
<1>8. 0 \in T
  <2>1. 0 \in 0..c
    BY <1>1
  <2> QED
    BY <1>1, <1>2, <1>6, <2>1
<1>9. ASSUME NEW n \in Nat, n \in T PROVE n + 1 \in T
  <2> SUFFICES ASSUME n + 1 <= c PROVE f[n + 1] = Written(n + 1)
    OBVIOUS
  <2>1. n + 1 \in 1..c /\ n + 1 \in 0..c /\ n + 1 # 0 /\ (n + 1) - 1 = n /\ f[n] = Written(n)
    BY <1>1, <1>9
  <2>2. f[n + 1] = Operated(ops[n + 1], Tables.products, wValues, f[n])
    BY <1>1, <1>6, <2>1
  <2> QED
    BY <1>3, <2>1, <2>2
<1> HIDE DEF T
<1>10. c \in T
  BY <1>1, <1>8, <1>9, NatInduct
<1>11. FactorizePlan(wValues) = Written(c)
  BY <1>1, <1>7, <1>10 DEF T
<1>12. IsNumbered(LULocations)
  BY <1>1, SlotsNumber DEF Stored
<1>13. /\ Traversal \in [1..c -> LULocations]
       /\ \A ij \in LULocations : \E m \in 1..c : Traversal[m] = ij
  BY <1>1 DEF IsTraversed, c
<1>14. {Slot(LULocations, Traversal[m]) : m \in 1..c} = Slots(LULocations)
  <2>1. \A m \in 1..c : Slot(LULocations, Traversal[m]) \in Slots(LULocations)
    BY <1>12, <1>13 DEF IsNumbered
  <2>2. ASSUME NEW s \in Slots(LULocations) PROVE \E m \in 1..c : Slot(LULocations, Traversal[m]) = s
    <3>1. Located(LULocations, s) \in LULocations /\ Slot(LULocations, Located(LULocations, s)) = s
      BY <1>12 DEF IsNumbered
    <3> QED
      BY <1>13, <3>1
  <2> QED
    BY <2>1, <2>2
<1>15. \A ij \in LULocations : Written(c)[Slot(LULocations, ij)] = Value(ij)
  <2> TAKE ij \in LULocations
  <2>1. PICK m \in 1..c : Traversal[m] = ij
    BY <1>13
  <2>2. c \in 0..c
    BY <1>1
  <2> QED
    BY <1>1, <2>1, <2>2, WrittenHolds DEF c
<1>16. DOMAIN Written(c) = Slots(LULocations)
  BY <1>14 DEF Written
<1> QED
  BY <1>11, <1>15, <1>16

------------------------------------------------------------------------------
\* The compact substitutions.

\* The columns that a pattern has in a row.
RowColumns(pattern, i) == {k \in Index : <<i, k>> \in pattern}

\* A row's places hold its columns and their slots.
PlacesHold(pattern, i) ==
  /\ IsPlacing([x \in Places(pattern, i) |-> Entered(pattern)[x][1]], Places(pattern, i), RowColumns(pattern, i))
  /\ \A x \in Places(pattern, i) :
       Entered(pattern)[x] = <<Entered(pattern)[x][1], Slot(LULocations, <<i, Entered(pattern)[x][1]>>)>>

\* The offsets mark where each row begins and ends.
LEMMA RowsHavePlaces ==
  ASSUME NEW pattern \in SUBSET Pairs, NEW i \in Index
  PROVE  PlacesHold(pattern, i)
<1> DEFINE above(n) == {ij \in pattern : ij[1] < n}
           c == Cardinality(pattern)
           b == Cardinality(above(i))
           e == Cardinality(above(i + 1))
           R == Places(pattern, i)
           S == RowColumns(pattern, i)
           place(x) == Located(pattern, x - 1)
           h == [x \in R |-> Entered(pattern)[x][1]]
<1>1. i \in Nat /\ i < N /\ N \in Nat
  BY IndexFacts, SizesAssumption
<1>2. IsNumbered(pattern) /\ c \in Nat
  BY SlotsNumber, PairsFinite
<1>3. \A n \in Int : above(n) \in SUBSET Pairs /\ IsFiniteSet(above(n)) /\ Cardinality(above(n)) \in Nat
                     /\ Cardinality(above(n)) <= c
  <2> TAKE n \in Int
  <2>1. above(n) \in SUBSET Pairs /\ above(n) \subseteq pattern
    OBVIOUS
  <2> HIDE DEF above
  <2>2. IsFiniteSet(above(n)) /\ Cardinality(above(n)) \in Nat /\ IsFiniteSet(pattern)
    BY <2>1, PairsFinite
  <2> QED
    BY <2>1, <2>2, FS_Subset
<1>4. R = (b + 1)..e
  <2>1. i + 1 \in 1..(N + 1) /\ i + 2 \in 1..(N + 1) /\ (i + 1) - 1 = i /\ (i + 2) - 1 = i + 1
    BY <1>1
  <2>2. Offsets(pattern)[i + 1] = b /\ Offsets(pattern)[i + 2] = e
    BY <2>1 DEF Offsets
  <2> QED
    BY <2>2 DEF Places
<1>5. b \in Nat /\ e \in Nat /\ e <= c
  <2>1. i \in Int /\ i + 1 \in Int
    BY <1>1
  <2> HIDE DEF above, c
  <2> QED
    BY <1>3, <2>1
<1>6. ASSUME NEW a \in pattern, NEW n \in Int, a[1] < n PROVE Slot(pattern, a) < Cardinality(above(n))
  <2> DEFINE below == {kl \in pattern : Before(kl, a)}
  <2>1. a \in above(n) /\ below \subseteq above(n) \ {a}
    <3>1. \A kl \in Pairs : Before(kl, a) => kl[1] < n /\ kl # a
      <4> TAKE kl \in Pairs
      <4> HAVE Before(kl, a)
      <4>1. kl[1] \in Int /\ a[1] \in Int
        BY PairParts, IndexFacts
      <4>2. kl # a
        BY BeforeIsOrder
      <4>3. kl[1] <= a[1]
        BY <4>1 DEF Before
      <4> QED
        BY <4>1, <4>2, <4>3, <1>6
    <3> QED
      BY <3>1, <1>6
  <2>2. Cardinality(below) <= Cardinality(above(n) \ {a}) /\ Cardinality(above(n) \ {a}) = Cardinality(above(n)) - 1
    <3>1. IsFiniteSet(above(n)) /\ IsFiniteSet(above(n) \ {a})
      BY <1>3, FS_Subset
    <3> HIDE DEF above, below
    <3> QED
      BY <2>1, <3>1, FS_Subset, FS_RemoveElement
  <2>3. Slot(pattern, a) = Cardinality(below) /\ Slot(pattern, a) \in Nat
    BY SlotIsNumber DEF Slot
  <2> HIDE DEF above, below
  <2> QED
    BY <1>3, <2>2, <2>3
<1>7. ASSUME NEW a \in pattern, NEW n \in Int, n <= a[1] PROVE Cardinality(above(n)) <= Slot(pattern, a)
  <2> DEFINE below == {kl \in pattern : Before(kl, a)}
  <2>1. above(n) \subseteq below
    <3>1. \A kl \in Pairs : kl[1] < n => Before(kl, a)
      <4> TAKE kl \in Pairs
      <4> HAVE kl[1] < n
      <4>1. kl[1] \in Int /\ a[1] \in Int
        BY PairParts, IndexFacts
      <4> QED
        BY <4>1, <1>7 DEF Before
    <3> QED
      BY <3>1
  <2>2. IsFiniteSet(below)
    <3>1. below \in SUBSET Pairs
      OBVIOUS
    <3> QED
      BY <3>1, PairsFinite
  <2> HIDE DEF above
  <2>3. Cardinality(above(n)) <= Cardinality(below)
    <3> HIDE DEF below
    <3> QED
      BY <2>1, <2>2, FS_Subset
  <2> QED
    BY <2>3 DEF Slot
<1> HIDE DEF above
<1>8. ASSUME NEW x \in R
      PROVE  /\ place(x) \in pattern /\ place(x)[1] = i /\ Slot(pattern, place(x)) = x - 1
             /\ Entered(pattern)[x] = <<place(x)[2], Slot(LULocations, place(x))>>
  <2> HIDE DEF b, e, c
  <2>1. x - 1 \in 0..(c - 1) /\ x \in 1..c /\ x \in Int /\ b <= x - 1 /\ x - 1 < e
    BY <1>2, <1>4, <1>5
  <2>2. x - 1 \in Slots(pattern)
    BY <2>1 DEF Slots, c
  <2>3. place(x) \in pattern /\ Slot(pattern, place(x)) = x - 1
    BY <1>2, <2>2 DEF IsNumbered
  <2>4. place(x)[1] \in Int
    BY <2>3, PairParts, IndexFacts
  <2> DEFINE a == place(x)
             r == a[1]
  <2>5. a \in pattern /\ r \in Int /\ i \in Int /\ i + 1 \in Int /\ Slot(pattern, a) = x - 1
    BY <1>1, <2>3, <2>4
  <2> HIDE DEF a
  <2>6. r < i => Slot(pattern, a) < b
    BY <1>6, <2>5 DEF b
  <2>7. i + 1 <= r => e <= Slot(pattern, a)
    BY <1>7, <2>5 DEF e
  <2>8. r = i
    <3> HIDE DEF r
    <3> QED
      BY <1>5, <2>1, <2>5, <2>6, <2>7
  <2>9. Entered(pattern)[x] = <<place(x)[2], Slot(LULocations, place(x))>>
    BY <2>1 DEF Entered, c
  <2> QED
    BY <2>3, <2>8, <2>9 DEF a
<1> HIDE DEF R, b, e, c
<1>9. ASSUME NEW x \in R PROVE h[x] \in S /\ place(x) = <<i, h[x]>> /\ h[x] = Entered(pattern)[x][1]
  <2>1. place(x) \in Pairs /\ place(x)[1] = i
    BY <1>8
  <2>2. place(x)[2] \in Index /\ place(x) = <<i, place(x)[2]>>
    BY <2>1, PairParts
  <2>3. h[x] = place(x)[2] /\ h[x] = Entered(pattern)[x][1]
    BY <1>8
  <2> QED
    BY <1>8, <2>2, <2>3 DEF RowColumns
<1>10. ASSUME NEW k \in S PROVE \E x \in R : h[x] = k
  <2> DEFINE a == <<i, k>>
             s == Slot(pattern, a)
  <2>1. a \in pattern /\ a[1] = i /\ i \in Int /\ i + 1 \in Int /\ i < i + 1 /\ i <= i
    BY <1>1 DEF RowColumns
  <2> HIDE DEF a
  <2>2. s \in Nat /\ b <= s /\ s < e
    BY <1>2, <1>6, <1>7, <2>1 DEF b, e, IsNumbered
  <2>3. Located(pattern, s) = a
    BY <1>2, <2>1 DEF IsNumbered
  <2> HIDE DEF s
  <2>4. s + 1 \in R /\ (s + 1) - 1 = s
    BY <1>4, <1>5, <2>2
  <2>5. place(s + 1) = a
    BY <2>3, <2>4
  <2>6. <<i, h[s + 1]>> = <<i, k>>
    BY <1>9, <2>4, <2>5 DEF a
  <2> QED
    BY <2>4, <2>6
<1>11. ASSUME NEW x \in R, NEW y \in R, h[x] = h[y] PROVE x = y
  <2>1. place(x) = place(y)
    BY <1>9, <1>11
  <2>2. x - 1 = y - 1
    BY <1>8, <2>1
  <2>3. x \in Int /\ y \in Int
    BY <1>4, <1>5
  <2> QED
    BY <2>2, <2>3
<1>12. IsPlacing(h, R, S)
  <2>1. IsFiniteSet(R)
    <3>1. b + 1 \in Int /\ e \in Int
      BY <1>5
    <3> QED
      BY <1>4, <3>1, FS_Interval
  <2>2. IsFiniteSet(S)
    BY IndexFacts, FS_Subset DEF RowColumns
  <2>3. h \in [R -> S]
    BY <1>9
  <2> HIDE DEF h, S
  <2> QED
    BY <1>10, <1>11, <2>1, <2>2, <2>3 DEF IsPlacing
<1>13. \A x \in R : Entered(pattern)[x] = <<Entered(pattern)[x][1], Slot(LULocations, <<i, Entered(pattern)[x][1]>>)>>
  <2> TAKE x \in R
  <2>1. Entered(pattern)[x] = <<place(x)[2], Slot(LULocations, place(x))>> /\ place(x) = <<i, h[x]>>
    BY <1>8, <1>9
  <2>2. Entered(pattern)[x][1] = h[x]
    BY <1>9
  <2>3. Entered(pattern)[x][1] = place(x)[2]
    BY <2>1
  <2> QED
    BY <2>1, <2>2, <2>3
<1> QED
  BY <1>12, <1>13 DEF PlacesHold, R

\* The slots hold the entries of the factors.
Filled(lu) == \A ij \in LULocations : lu[Slot(LULocations, ij)] = Value(ij)

\* The sum over a row's places, and the steps of solve_plan, as functions of their
\* own results.
PlacesSum(lu, pattern, i, y) ==
  Total([e \in Places(pattern, i) |-> lu[Entered(pattern)[e][2]] * y[Entered(pattern)[e][1]]], Places(pattern, i))
CompactForward(lu, b, y) == [i \in Index |-> (b[i] - PlacesSum(lu, Lower, i, y)) % P]
CompactBackward(lu, b, y) ==
  [i \in Index |-> ((b[i] - PlacesSum(lu, Upper, i, y)) * Over(lu[Diagonals[i + 1]])) % P]

\* A row's sum reads the unknowns of its columns only.
LEMMA PlacesSumReads ==
  ASSUME NEW lu, NEW pattern, NEW i, PlacesHold(pattern, i), NEW y, NEW z,
         \A k \in RowColumns(pattern, i) : y[k] = z[k]
  PROVE  PlacesSum(lu, pattern, i, y) = PlacesSum(lu, pattern, i, z)
<1> DEFINE R == Places(pattern, i)
           column(e) == Entered(pattern)[e][1]
           h == [e \in R |-> column(e)]
<1>1. \A e \in R : column(e) \in RowColumns(pattern, i)
  <2> TAKE e \in R
  <2>1. h \in [R -> RowColumns(pattern, i)] /\ h[e] = column(e)
    BY DEF PlacesHold, IsPlacing
  <2> HIDE DEF h, R
  <2> QED
    BY <2>1
<1>2. \A e \in R : y[column(e)] = z[column(e)]
  BY <1>1
<1> HIDE DEF R
<1>3. [e \in R |-> lu[Entered(pattern)[e][2]] * y[column(e)]] = [e \in R |-> lu[Entered(pattern)[e][2]] * z[column(e)]]
  BY <1>2
<1> QED
  BY <1>3 DEF PlacesSum, R

\* The terms of a row.
AreTerms(f, lu, pattern, i, y) ==
  \A k \in RowColumns(pattern, i) : f[k] = lu[Slot(LULocations, <<i, k>>)] * y[k] /\ f[k] \in Int

\* It is the sum over its columns.
LEMMA PlacesSumIsRowSum ==
  ASSUME NEW lu, NEW pattern, NEW i, PlacesHold(pattern, i), NEW y, NEW f, AreTerms(f, lu, pattern, i, y)
  PROVE  PlacesSum(lu, pattern, i, y) = Total(f, RowColumns(pattern, i))
<1> USE DEF AreTerms
<1> DEFINE R == Places(pattern, i)
           S == RowColumns(pattern, i)
           entry(e) == Entered(pattern)[e]
           h == [e \in R |-> entry(e)[1]]
           g == [e \in R |-> lu[entry(e)[2]] * y[entry(e)[1]]]
<1>1. IsPlacing(h, R, S)
  BY DEF PlacesHold
<1>2. ASSUME NEW e \in R PROVE g[e] = f[h[e]]
  <2>1. entry(e) = <<entry(e)[1], Slot(LULocations, <<i, entry(e)[1]>>)>>
    BY DEF PlacesHold
  <2>2. h[e] = entry(e)[1]
    OBVIOUS
  <2>3. h[e] \in S
    <3> HIDE DEF h, R, S
    <3> QED
      BY <1>1 DEF IsPlacing
  <2>4. entry(e)[2] = Slot(LULocations, <<i, entry(e)[1]>>)
    <3> DEFINE p == entry(e)[1]
               q == Slot(LULocations, <<i, p>>)
    <3>1. entry(e) = <<p, q>>
      BY <2>1
    <3> HIDE DEF p, q
    <3>2. entry(e)[2] = q
      BY <3>1
    <3> QED
      BY <3>2 DEF p, q
  <2>5. g[e] = lu[Slot(LULocations, <<i, h[e]>>)] * y[h[e]]
    BY <2>2, <2>4
  <2> HIDE DEF g, h, S
  <2> QED
    BY <2>3, <2>5 DEF S
<1>3. \A s \in S : f[s] \in Int
  OBVIOUS
<1> HIDE DEF R, S, g, h
<1>4. Total(g, R) = Total(f, S)
  BY <1>1, <1>2, <1>3, TotalByPlaces
<1> QED
  BY <1>4 DEF PlacesSum, R, S, g

\* The columns of the two tables of entries.
LEMMA TableColumns ==
  ASSUME FactorEquations
  PROVE  /\ Lower \in SUBSET Pairs /\ Upper \in SUBSET Pairs
         /\ \A i \in Index : RowColumns(Lower, i) = LeftOf(i) /\ RowColumns(Upper, i) = RightOf(i)
         /\ \A i \in Index : PlacesHold(Lower, i) /\ PlacesHold(Upper, i)
<1>1. nzL \subseteq Pairs /\ nzU \subseteq Pairs
  BY DEF FactorEquations
<1>2. Lower \in SUBSET Pairs /\ Upper \in SUBSET Pairs
  BY <1>1 DEF Lower, Upper
<1>3. ASSUME NEW i \in Index PROVE RowColumns(Lower, i) = LeftOf(i) /\ RowColumns(Upper, i) = RightOf(i)
  <2>1. \A k \in Index : <<i, k>> \in nzL => k < i /\ k \in block[i]
    <3>1. \A k \in Index : <<i, k>> \in nzL => i > k /\ k \in block[i]
      BY DEF FactorEquations
    <3>2. \A k \in Index : k \in Int /\ i \in Int
      BY IndexFacts
    <3> QED
      BY <3>1, <3>2
  <2>2. \A k \in Index : <<i, k>> \in nzU => i <= k /\ k \in block[i]
    BY DEF FactorEquations
  <2>3. \A k \in Index : <<i, k>> \in Diagonal <=> k = i
    BY DEF Diagonal
  <2>4. \A k \in Index : <<i, k>> \in Upper <=> <<i, k>> \in nzU /\ k > i
    <3>1. \A k \in Index : k \in Int /\ i \in Int
      BY IndexFacts
    <3> QED
      BY <2>2, <2>3, <3>1 DEF Upper
  <2>5. LeftOf(i) \in SUBSET Index /\ RightOf(i) \in SUBSET Index
    BY FactorRows
  <2>6. RowColumns(Lower, i) = LeftOf(i)
    BY <2>1, <2>5 DEF RowColumns, Lower, LeftOf
  <2>7. RowColumns(Upper, i) = RightOf(i)
    BY <2>2, <2>4, <2>5 DEF RowColumns, RightOf
  <2> QED
    BY <2>6, <2>7
<1>4. \A i \in Index : PlacesHold(Lower, i) /\ PlacesHold(Upper, i)
  BY <1>2, RowsHavePlaces
<1> QED
  BY <1>2, <1>3, <1>4

\* The steps over the tables are the steps over the factors.
LEMMA CompactStepsAgree ==
  ASSUME Compact, NEW lu, Filled(lu), NEW b, NEW y \in [Index -> Field]
  PROVE  CompactForward(lu, b, y) = Forward(b, y) /\ CompactBackward(lu, b, y) = Backward(b, y)
<1>0. FactorEquations
  BY DEF Compact
<1>f. \A x \in Field : x \in Int
  BY DEF Field
<1>1. ASSUME NEW i \in Index
      PROVE  PlacesSum(lu, Lower, i, y) = Total([k \in LeftOf(i) |-> L(i, k) * y[k]], LeftOf(i))
  <2> DEFINE S == LeftOf(i)
             f == [k \in S |-> L(i, k) * y[k]]
  <2>1. RowColumns(Lower, i) = S /\ PlacesHold(Lower, i)
    BY <1>0, TableColumns
  <2>2. ASSUME NEW k \in S PROVE f[k] = lu[Slot(LULocations, <<i, k>>)] * y[k] /\ f[k] \in Int
    <3>1. k \in Index /\ <<i, k>> \in nzL
      BY <1>0, FactorRows DEF LeftOf
    <3>2. Value(<<i, k>>) = L(i, k) /\ L(i, k) \in Int
      BY <1>0, <1>f, <3>1, ValueIsInField
    <3>3. lu[Slot(LULocations, <<i, k>>)] = L(i, k)
      BY <3>1, <3>2 DEF Filled, LULocations
    <3>4. y[k] \in Int /\ L(i, k) * y[k] \in Int
      BY <1>f, <3>1, <3>2
    <3> QED
      BY <3>3, <3>4
  <2> HIDE DEF S, f
  <2>3. AreTerms(f, lu, Lower, i, y)
    BY <2>1, <2>2 DEF AreTerms
  <2>4. PlacesSum(lu, Lower, i, y) = Total(f, S)
    BY <2>1, <2>3, PlacesSumIsRowSum
  <2> QED
    BY <2>4 DEF S, f
<1>2. ASSUME NEW i \in Index
      PROVE  PlacesSum(lu, Upper, i, y) = Total([k \in RightOf(i) |-> U(i, k) * y[k]], RightOf(i))
  <2> DEFINE S == RightOf(i)
             f == [k \in S |-> U(i, k) * y[k]]
  <2>1. RowColumns(Upper, i) = S /\ PlacesHold(Upper, i)
    BY <1>0, TableColumns
  <2>2. ASSUME NEW k \in S PROVE f[k] = lu[Slot(LULocations, <<i, k>>)] * y[k] /\ f[k] \in Int
    <3>1. k \in Index /\ <<i, k>> \in nzU
      BY <1>0, FactorRows DEF RightOf
    <3>2. Value(<<i, k>>) = U(i, k) /\ U(i, k) \in Int
      BY <1>0, <1>f, <3>1, ValueIsInField
    <3>3. lu[Slot(LULocations, <<i, k>>)] = U(i, k)
      BY <3>1, <3>2 DEF Filled, LULocations
    <3>4. y[k] \in Int /\ U(i, k) * y[k] \in Int
      BY <1>f, <3>1, <3>2
    <3> QED
      BY <3>3, <3>4
  <2> HIDE DEF S, f
  <2>3. AreTerms(f, lu, Upper, i, y)
    BY <2>1, <2>2 DEF AreTerms
  <2>4. PlacesSum(lu, Upper, i, y) = Total(f, S)
    BY <2>1, <2>3, PlacesSumIsRowSum
  <2> QED
    BY <2>4 DEF S, f
<1>3. ASSUME NEW i \in Index PROVE lu[Diagonals[i + 1]] = U(i, i)
  <2>1. i + 1 \in 1..N /\ (i + 1) - 1 = i
    BY SizesAssumption DEF Index
  <2>2. Diagonals[i + 1] = Slot(LULocations, <<i, i>>)
    BY <2>1 DEF Diagonals
  <2>3. <<i, i>> \in nzU
    BY <1>0 DEF FactorEquations
  <2>4. Value(<<i, i>>) = U(i, i)
    BY <1>0, <2>3, ValueIsInField
  <2> QED
    BY <2>2, <2>3, <2>4 DEF Filled, LULocations
<1> QED
  BY <1>1, <1>2, <1>3 DEF CompactForward, CompactBackward, Forward, Backward

\* solve_plan and the unrolled steps give the same solution.
LEMMA SolvePlanAgrees ==
  ASSUME Compact, NEW lu, Filled(lu), NEW b \in [Index -> Field]
  PROVE  SolvePlan(lu, b) = Solution(b)
<1> DEFINE y == CHOOSE h : h = Forward(b, h)
           x == CHOOSE h : h = Backward(y, h)
           work == CHOOSE h : h = CompactForward(lu, b, h)
           solution == CHOOSE h : h = CompactBackward(lu, work, h)
<1>0. FactorEquations
  BY DEF Compact
<1>1. Solution(b) = x
  BY DEF Solution, Forward, Backward, LeftOf, RightOf
<1>2. SolvePlan(lu, b) = solution
  BY DEF SolvePlan, CompactForward, CompactBackward, PlacesSum
<1> HIDE DEF x, y, work, solution
<1>b. \A i \in Index : b[i] \in Int
  BY DEF Field
<1>3. y \in [Index -> Field] /\ y = Forward(b, y)
  BY <1>0, <1>b, ForwardIsDefined DEF y
<1>y. \A i \in Index : y[i] \in Int
  BY <1>3 DEF Field
<1>4. x \in [Index -> Field] /\ x = Backward(y, x)
  BY <1>0, <1>y, BackwardIsDefined DEF x
<1>5. y = CompactForward(lu, b, y) /\ x = CompactBackward(lu, y, x)
  BY <1>3, <1>4, CompactStepsAgree
<1>c. \A i \in Index : /\ PlacesHold(Lower, i) /\ PlacesHold(Upper, i)
                       /\ \A k \in RowColumns(Lower, i) : k \in Index /\ Upward[k] < Upward[i]
                       /\ \A k \in RowColumns(Upper, i) : k \in Index /\ Downward[k] < Downward[i]
  <2> TAKE i \in Index
  <2>1. RowColumns(Lower, i) = LeftOf(i) /\ RowColumns(Upper, i) = RightOf(i)
        /\ PlacesHold(Lower, i) /\ PlacesHold(Upper, i)
    BY <1>0, TableColumns
  <2>2. \A k \in LeftOf(i) : k \in Index /\ k < i
    BY <1>0, FactorRows
  <2>3. \A k \in RightOf(i) : k \in Index /\ k > i
    BY <1>0, FactorRows
  <2> QED
    BY <2>1, <2>2, <2>3, Measures
<1>6. work = y
  <2>1. work = CompactForward(lu, b, work)
    BY <1>5 DEF work
  <2>2. ASSUME NEW i \in Index, \A k \in Index : Upward[k] < Upward[i] => work[k] = y[k]
        PROVE  work[i] = y[i]
    <3>1. PlacesSum(lu, Lower, i, work) = PlacesSum(lu, Lower, i, y)
      BY <1>c, <2>2, PlacesSumReads
    <3>2. CompactForward(lu, b, work)[i] = CompactForward(lu, b, y)[i]
      BY <3>1 DEF CompactForward
    <3> QED
      BY <1>5, <2>1, <3>2
  <2>3. Agree(Upward, work, y)
    BY <2>2, Measures DEF Agree
  <2>4. \A i \in Index : work[i] = y[i]
    BY <2>3, Agreement
  <2>5. work = [i \in Index |-> work[i]]
    BY <2>1 DEF CompactForward
  <2> QED
    BY <1>3, <2>4, <2>5
<1>7. solution = x
  <2>1. solution = CompactBackward(lu, y, solution)
    BY <1>5, <1>6 DEF solution
  <2>2. ASSUME NEW i \in Index, \A k \in Index : Downward[k] < Downward[i] => solution[k] = x[k]
        PROVE  solution[i] = x[i]
    <3>1. PlacesSum(lu, Upper, i, solution) = PlacesSum(lu, Upper, i, x)
      BY <1>c, <2>2, PlacesSumReads
    <3>2. CompactBackward(lu, y, solution)[i] = CompactBackward(lu, y, x)[i]
      BY <3>1 DEF CompactBackward
    <3> QED
      BY <1>5, <2>1, <3>2
  <2>3. Agree(Downward, solution, x)
    BY <2>2, Measures DEF Agree
  <2>4. \A i \in Index : solution[i] = x[i]
    BY <2>3, Agreement
  <2>5. solution = [i \in Index |-> solution[i]]
    BY <2>1 DEF CompactBackward
  <2> QED
    BY <1>4, <2>4, <2>5
<1> QED
  BY <1>1, <1>2, <1>7

\* For every structure, every permutation and all values: the compact tables
\* reproduce W, fill every slot with the entry that the unrolled code computes, and
\* solve with the factors as it does.
THEOREM CompactKernelAgreesHolds == Spec => []CompactKernelAgrees
<1>1. IInv => CompactKernelAgrees
  <2> SUFFICES ASSUME IInv, phase = "factorized", active = Index, NEW order \in Orders
               PROVE  LET lu == FactorizePlan(WValues(order, 1))
                      IN  /\ \A ij \in WLocations : WValues(order, 1)[Slot(WLocations, ij)] = w[ij]
                          /\ DOMAIN lu = Slots(LULocations)
                          /\ \A r \in DOMAIN reg : lu[Slot(LULocations, <<r[2], r[3]>>)] = reg[r]
                          /\ \A c \in Index :
                               LET b == [i \in Index |-> IF i = c THEN 1 ELSE 0]
                               IN  SolvePlan(lu, b) = Solution(b)
    BY DEF CompactKernelAgrees
  <2> DEFINE lu == FactorizePlan(WValues(order, 1))
  <2>1. FactorEquations
    BY FactorsSatisfyEquations
  <2>2. PlanInv /\ RunInv /\ PlanTypeOK /\ CodeInv
    BY DEF IInv, PlanInv
  <2>3. structure \subseteq Pairs
    BY <2>2 DEF PlanTypeOK, Pairs
  <2>4. Compact
    <3>1. Stored
      <4>1. LULocations \subseteq Pairs
        BY <2>1 DEF FactorEquations, LULocations
      <4>2. WLocations \subseteq Pairs
        BY <2>3 DEF WLocations, Diagonal, Pairs
      <4> QED
        BY <4>1, <4>2 DEF Stored
    <3>2. \A i, j \in Index : InW(i, j) <=> <<i, j>> \in WLocations
      BY DEF InW, WLocations, Diagonal
    <3>3. \A i, j \in Index : ~InW(i, j) => w[<<i, j>>] = 0
      BY <2>2 DEF RunInv
    <3> QED
      BY <2>1, <3>1, <3>2, <3>3 DEF Compact
  <2>5. \A ij \in WLocations : WValues(order, 1)[Slot(WLocations, ij)] = w[ij]
    <3>1. order \in Bijection(Index, Index)
      BY OrdersAssumption
    <3>2. \A i, j \in Index : w[<<i, j>>] \in Field
      BY <2>1 DEF FactorEquations
    <3> QED
      BY <2>3, <3>1, <3>2, WIsAssembled
  <2>6. DOMAIN lu = Slots(LULocations) /\ Filled(lu)
    BY <2>4, <2>5, FactorizePlanComputes DEF Filled
  <2> HIDE DEF lu
  <2>7. ASSUME NEW r \in DOMAIN reg PROVE lu[Slot(LULocations, <<r[2], r[3]>>)] = reg[r]
    <3>1. PICK n \in 1..(at - 1) : r = Target(code[n])
      BY <2>2 DEF RunInv
    <3>2. n \in 1..Len(code)
      <4>1. at \in 1..(Len(code) + 1) /\ Len(code) \in Nat
        BY <2>2 DEF RunInv, PlanTypeOK
      <4> QED
        BY <4>1
    <3> DEFINE e == code[n]
    <3>3. e \in Entries
      BY <2>2, <3>2 DEF PlanTypeOK
    <3>4. /\ e.kind = "U" => <<e.row, e.col>> \in nzU
          /\ e.kind = "L" => <<e.row, e.col>> \in nzL
      BY <2>2, <3>2 DEF CodeInv
    <3> HIDE DEF e
    <3>5. r = <<e.kind, e.row, e.col>>
      BY <3>1 DEF Target, e
    <3>6. e.kind \in {"L", "U"} /\ e.row \in Index /\ e.col \in Index
      BY <3>3 DEF Entries
    <3> DEFINE i == e.row
               j == e.col
    <3>7. <<i, j>> \in LULocations /\ Value(<<i, j>>) = reg[r]
      <4>1. CASE e.kind = "U"
        BY <2>1, <3>4, <3>5, <3>6, <4>1, ValueIsInField DEF LULocations, U
      <4>2. CASE e.kind = "L"
        BY <2>1, <3>4, <3>5, <3>6, <4>2, ValueIsInField DEF LULocations, L
      <4> QED
        BY <3>6, <4>1, <4>2
    <3>8. <<r[2], r[3]>> = <<i, j>>
      BY <3>5
    <3> QED
      BY <2>6, <3>7, <3>8 DEF Filled
  <2>8. ASSUME NEW c \in Index
        PROVE  LET b == [i \in Index |-> IF i = c THEN 1 ELSE 0] IN SolvePlan(lu, b) = Solution(b)
    <3> DEFINE b == [i \in Index |-> IF i = c THEN 1 ELSE 0]
    <3>1. b \in [Index -> Field]
      BY SizesAssumption DEF Field
    <3> HIDE DEF b
    <3>2. SolvePlan(lu, b) = Solution(b)
      BY <2>4, <2>6, <3>1, SolvePlanAgrees
    <3> QED
      BY <3>2 DEF b
  <2> QED
    BY <2>5, <2>6, <2>7, <2>8 DEF lu
<1> QED
  BY <1>1, IInvHolds, PTL
=============================================================================
