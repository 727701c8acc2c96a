------------------------- MODULE PlannedSweepProofs -------------------------
(***************************************************************************)
(* What the two sweeps add in one step, for every number of species, every *)
(* structure, prime modulus, tableau, number of stages and step size the   *)
(* assumptions admit: the adjoint's increment, pulled back through the     *)
(* Jacobian, is the transpose of the tangent-linear one.                   *)
(*                                                                         *)
(* Multiplying the equation of stage i by the adjoint stage u[i], and      *)
(* moving J and W to the other side, gives the coupling of i with every    *)
(* earlier stage; summed over all stages either sweep yields the same      *)
(* couplings, by rows or by columns.                                       *)
(***************************************************************************)
EXTENDS PlannedSweep, SymbolicLUProofs

\* Vectors and matrices over the field.
Vec == [Index -> Field]
Mat == [Pairs -> Field]
Stage == 1..Stages

------------------------------------------------------------------------------
\* The arithmetic of the sweeps.

\* The sweeps add up modulo P as the planned kernels do.
LEMMA SweepTotals == \A f, S : Sweeps!Total(f, S) = Total(f, S)
BY DEF Sweeps!Total, Total, Sweeps!MapThenSumSet, Sweeps!MapThenFoldSet, MapThenSumSet, MapThenFoldSet

\* The operations on vectors, component by component.
LEMMA VectorOperations ==
  /\ \A u, v : Sweeps!Plus(u, v) = [k \in Index |-> (u[k] + v[k]) % P]
  /\ \A u, v : Sweeps!Minus(u, v) = [k \in Index |-> (u[k] - v[k]) % P]
  /\ \A c, v : Sweeps!Times(c, v) = [k \in Index |-> (c * v[k]) % P]
  /\ \A u, v : Sweeps!Dot(u, v) = Total([k \in Index |-> u[k] * v[k]], Index)
  /\ \A a, v : Sweeps!Apply(a, v) = [k \in Index |-> Total([l \in Index |-> a[<<k, l>>] * v[l]], Index)]
  /\ \A a : Sweeps!Transposed(a) = [kl \in Pairs |-> a[<<kl[2], kl[1]>>]]
  /\ \A t, S : Sweeps!Combine(t, S) = [k \in Index |-> Total([i \in S |-> t[i][k]], S)]
BY SweepTotals DEF Sweeps!Plus, Sweeps!Minus, Sweeps!Times, Sweeps!Dot, Sweeps!Apply, Sweeps!Transposed,
   Sweeps!Combine, Pairs

\* The members of the field are integers, and remainders are members.
LEMMA FieldMembers ==
  /\ Field \subseteq Int
  /\ 0 \in Field /\ 1 \in Field
  /\ \A x \in Int : x % P \in Field /\ x % P \in Int /\ Same(x % P, x)
  /\ \A x \in Field : x % P = x
BY SizesAssumption, SameRemainder, FieldIsReduced DEF Field

\* Sums and products of integers.
LEMMA IntegersClosed ==
  \A x, y \in Int : x + y \in Int /\ x - y \in Int /\ x * y \in Int /\ x * y = y * x
OBVIOUS

\* A sum of products of two vectors is in the field.
LEMMA DotInField ==
  ASSUME NEW u \in Vec, NEW v \in Vec
  PROVE  Sweeps!Dot(u, v) \in Field
<1> DEFINE f == [k \in Index |-> u[k] * v[k]]
<1>1. \A k \in Index : f[k] \in Int
  <2> TAKE k \in Index
  <2>1. u[k] \in Int /\ v[k] \in Int
    BY FieldMembers DEF Vec
  <2> QED
    BY <2>1
<1>2. Sweeps!Dot(u, v) = Total(f, Index)
  BY VectorOperations
<1> HIDE DEF f
<1> QED
  BY <1>1, <1>2, IndexFacts, TotalSplit

\* A product with a matrix is a vector.
LEMMA ApplyIsVector ==
  ASSUME NEW a \in Mat, NEW v \in Vec
  PROVE  Sweeps!Apply(a, v) \in Vec
<1> SUFFICES ASSUME NEW k \in Index
             PROVE  Total([l \in Index |-> a[<<k, l>>] * v[l]], Index) \in Field
  BY VectorOperations DEF Vec
<1> DEFINE f == [l \in Index |-> a[<<k, l>>] * v[l]]
<1>1. \A l \in Index : f[l] \in Int
  <2> TAKE l \in Index
  <2>1. a[<<k, l>>] \in Int /\ v[l] \in Int
    BY FieldMembers DEF Vec, Mat, Pairs
  <2> QED
    BY <2>1
<1> HIDE DEF f
<1>2. Total(f, Index) \in Field
  BY <1>1, IndexFacts, TotalSplit
<1> QED
  BY <1>2 DEF f

\* Sums, differences, multiples and combinations of vectors are vectors.
LEMMA VectorsClosed ==
  /\ \A u, v \in Vec : Sweeps!Plus(u, v) \in Vec /\ Sweeps!Minus(u, v) \in Vec
  /\ \A c \in Int : \A v \in Vec : Sweeps!Times(c, v) \in Vec
  /\ \A a \in Mat : Sweeps!Transposed(a) \in Mat
<1>1. ASSUME NEW u \in Vec, NEW v \in Vec, NEW c \in Int
      PROVE  Sweeps!Plus(u, v) \in Vec /\ Sweeps!Minus(u, v) \in Vec /\ Sweeps!Times(c, v) \in Vec
  <2>1. ASSUME NEW k \in Index
        PROVE  (u[k] + v[k]) % P \in Field /\ (u[k] - v[k]) % P \in Field /\ (c * v[k]) % P \in Field
    <3>1. u[k] \in Int /\ v[k] \in Int
      BY FieldMembers DEF Vec
    <3>2. u[k] + v[k] \in Int /\ u[k] - v[k] \in Int /\ c * v[k] \in Int
      BY <3>1
    <3> QED
      BY <3>2, FieldMembers
  <2> QED
    BY <2>1, VectorOperations DEF Vec
<1>2. ASSUME NEW a \in Mat PROVE Sweeps!Transposed(a) \in Mat
  BY VectorOperations DEF Mat, Pairs
<1>3. \A c \in Int : \A v \in Vec : Sweeps!Times(c, v) \in Vec
  BY <1>1
<1>4. 0 \in Int
  OBVIOUS
<1> QED
  BY <1>1, <1>2, <1>3, <1>4

\* A combination of vectors is a vector.
LEMMA CombineIsVector ==
  ASSUME NEW S, IsFiniteSet(S), NEW t, \A i \in S : t[i] \in Vec
  PROVE  Sweeps!Combine(t, S) \in Vec
<1> SUFFICES ASSUME NEW k \in Index PROVE Total([i \in S |-> t[i][k]], S) \in Field
  BY VectorOperations DEF Vec
<1> DEFINE f == [i \in S |-> t[i][k]]
<1>1. \A i \in S : f[i] \in Int
  BY FieldMembers DEF Vec
<1> HIDE DEF f
<1>2. Total(f, S) \in Field
  BY <1>1, TotalSplit
<1> QED
  BY <1>2 DEF f
------------------------------------------------------------------------------
\* Sums of products are linear in either vector.

\* The order of the two vectors makes no difference.
LEMMA DotCommutes ==
  ASSUME NEW u \in Vec, NEW v \in Vec
  PROVE  Sweeps!Dot(u, v) = Sweeps!Dot(v, u)
<1>1. \A k \in Index : u[k] * v[k] = v[k] * u[k]
  <2> TAKE k \in Index
  <2>1. u[k] \in Int /\ v[k] \in Int
    BY FieldMembers DEF Vec
  <2> QED
    BY <2>1
<1>2. [k \in Index |-> u[k] * v[k]] = [k \in Index |-> v[k] * u[k]]
  BY <1>1
<1> QED
  BY <1>2, VectorOperations

\* The product with a sum of vectors.
LEMMA DotPlus ==
  ASSUME NEW u \in Vec, NEW v \in Vec, NEW x \in Vec
  PROVE  Sweeps!Dot(u, Sweeps!Plus(v, x)) = (Sweeps!Dot(u, v) + Sweeps!Dot(u, x)) % P
<1> DEFINE f == [k \in Index |-> u[k] * v[k]]
           g == [k \in Index |-> u[k] * x[k]]
           h == [k \in Index |-> u[k] * ((v[k] + x[k]) % P)]
           s == [k \in Index |-> f[k] + g[k]]
<1>1. ASSUME NEW k \in Index
      PROVE  f[k] \in Int /\ g[k] \in Int /\ h[k] \in Int /\ s[k] \in Int /\ Same(h[k], s[k])
  <2>1. u[k] \in Int /\ v[k] \in Int /\ x[k] \in Int
    BY FieldMembers DEF Vec
  <2>2. v[k] + x[k] \in Int /\ (v[k] + x[k]) % P \in Int /\ Same((v[k] + x[k]) % P, v[k] + x[k])
    BY <2>1, IntegersClosed, FieldMembers
  <2>3. Same(u[k] * ((v[k] + x[k]) % P), u[k] * (v[k] + x[k]))
    BY <2>1, <2>2, SameMultiple
  <2>4. u[k] * (v[k] + x[k]) = u[k] * v[k] + u[k] * x[k]
    BY <2>1
  <2>5. u[k] * v[k] \in Int /\ u[k] * x[k] \in Int /\ u[k] * ((v[k] + x[k]) % P) \in Int
    BY <2>1, <2>2
  <2> QED
    BY <2>3, <2>4, <2>5
<1>2. /\ Sweeps!Dot(u, Sweeps!Plus(v, x)) = Total(h, Index)
      /\ Sweeps!Dot(u, v) = Total(f, Index)
      /\ Sweeps!Dot(u, x) = Total(g, Index)
  <2>1. [k \in Index |-> u[k] * Sweeps!Plus(v, x)[k]] = h
    BY VectorOperations
  <2> QED
    BY <2>1, VectorOperations
<1> HIDE DEF f, g, h
<1>3. Total(h, Index) = Total(s, Index)
  <2> HIDE DEF s
  <2> QED
    BY <1>1, IndexFacts, TotalSame
<1>4. Total(s, Index) = (Total(f, Index) + Total(g, Index)) % P
  BY <1>1, IndexFacts, TotalPlus
<1> QED
  BY <1>2, <1>3, <1>4

\* The product with a multiple of a vector.
LEMMA DotTimes ==
  ASSUME NEW u \in Vec, NEW v \in Vec, NEW c \in Int
  PROVE  Sweeps!Dot(u, Sweeps!Times(c, v)) = (c * Sweeps!Dot(u, v)) % P
<1> DEFINE f == [k \in Index |-> u[k] * v[k]]
           h == [k \in Index |-> u[k] * ((c * v[k]) % P)]
           s == [k \in Index |-> c * f[k]]
<1>1. ASSUME NEW k \in Index
      PROVE  f[k] \in Int /\ h[k] \in Int /\ s[k] \in Int /\ Same(h[k], s[k])
  <2>1. u[k] \in Int /\ v[k] \in Int
    BY FieldMembers DEF Vec
  <2>2. c * v[k] \in Int /\ (c * v[k]) % P \in Int /\ Same((c * v[k]) % P, c * v[k])
    BY <2>1, IntegersClosed, FieldMembers
  <2>3. Same(u[k] * ((c * v[k]) % P), u[k] * (c * v[k]))
    BY <2>1, <2>2, SameMultiple
  <2>4. u[k] * (c * v[k]) = c * (u[k] * v[k])
    BY <2>1
  <2>5. u[k] * v[k] \in Int /\ c * (u[k] * v[k]) \in Int /\ u[k] * ((c * v[k]) % P) \in Int
    BY <2>1, <2>2
  <2> QED
    BY <2>3, <2>4, <2>5
<1>2. /\ Sweeps!Dot(u, Sweeps!Times(c, v)) = Total(h, Index)
      /\ Sweeps!Dot(u, v) = Total(f, Index)
  <2>1. [k \in Index |-> u[k] * Sweeps!Times(c, v)[k]] = h
    BY VectorOperations
  <2> QED
    BY <2>1, VectorOperations
<1> HIDE DEF f, h
<1>3. Total(h, Index) = Total(s, Index)
  <2> HIDE DEF s
  <2> QED
    BY <1>1, IndexFacts, TotalSame
<1>4. Total(s, Index) = (c * Total(f, Index)) % P
  BY <1>1, IndexFacts, TotalTimes
<1> QED
  BY <1>2, <1>3, <1>4

\* The product with a combination of vectors is the sum of the products.
LEMMA DotCombine ==
  ASSUME NEW u \in Vec, NEW S, IsFiniteSet(S), NEW t, \A i \in S : t[i] \in Vec
  PROVE  Sweeps!Dot(u, Sweeps!Combine(t, S)) = Total([i \in S |-> Sweeps!Dot(u, t[i])], S)
<1> DEFINE a == [k \in Index |-> [i \in S |-> u[k] * t[i][k]]]
           c(k) == [i \in S |-> t[i][k]]
           h == [k \in Index |-> u[k] * Total(c(k), S)]
           r == [k \in Index |-> Total(a[k], S)]
<1>0. \A k \in Index : u[k] \in Int /\ \A i \in S : t[i][k] \in Int
  BY FieldMembers DEF Vec
<1>a. \A k \in Index, i \in S : a[k][i] = u[k] * t[i][k] /\ a[k][i] \in Int
  BY <1>0
<1>1. Sweeps!Dot(u, Sweeps!Combine(t, S)) = Total(h, Index)
  <2>1. [k \in Index |-> u[k] * Sweeps!Combine(t, S)[k]] = h
    BY VectorOperations
  <2> QED
    BY <2>1, VectorOperations
<1>2. ASSUME NEW k \in Index PROVE h[k] \in Int /\ r[k] \in Int /\ Same(h[k], r[k])
  <2>1. Total(c(k), S) \in Field
    <3>1. \A i \in S : c(k)[i] \in Int
      BY <1>0
    <3> HIDE DEF c
    <3> QED
      BY <3>1, TotalSplit
  <2>2. Total(a[k], S) = (u[k] * Total(c(k), S)) % P
    <3>1. a[k] = [i \in S |-> u[k] * c(k)[i]]
      OBVIOUS
    <3>2. \A i \in S : c(k)[i] \in Int
      BY <1>0
    <3> HIDE DEF a, c
    <3> QED
      BY <1>0, <3>1, <3>2, TotalTimes
  <2>3. u[k] * Total(c(k), S) \in Int
    <3> HIDE DEF c
    <3> QED
      BY <1>0, <2>1, FieldMembers, IntegersClosed
  <2>4. h[k] = u[k] * Total(c(k), S) /\ r[k] = Total(a[k], S)
    OBVIOUS
  <2> HIDE DEF h, r, c, a
  <2> QED
    BY <2>2, <2>3, <2>4, SameRemainder DEF Same
<1>3. Total(h, Index) = Total(r, Index)
  <2> HIDE DEF h, r
  <2> QED
    BY <1>2, IndexFacts, TotalSame
<1>4. Total(r, Index) = Total([i \in S |-> Total([k \in Index |-> a[k][i]], Index)], S)
  <2> HIDE DEF a
  <2> QED
    BY <1>a, IndexFacts, TotalExchange
<1>5. \A i \in S : Total([k \in Index |-> a[k][i]], Index) = Sweeps!Dot(u, t[i])
  <2> TAKE i \in S
  <2>1. [k \in Index |-> a[k][i]] = [k \in Index |-> u[k] * t[i][k]]
    OBVIOUS
  <2> HIDE DEF a
  <2> QED
    BY <2>1, VectorOperations
<1> HIDE DEF a, h, r
<1>6. [i \in S |-> Total([k \in Index |-> a[k][i]], Index)] = [i \in S |-> Sweeps!Dot(u, t[i])]
  BY <1>5
<1> QED
  BY <1>1, <1>3, <1>4, <1>6

\* A matrix may be taken to the other vector, transposed.
LEMMA DotApply ==
  ASSUME NEW a \in Mat, NEW u \in Vec, NEW v \in Vec
  PROVE  Sweeps!Dot(u, Sweeps!Apply(a, v)) = Sweeps!Dot(v, Sweeps!Apply(Sweeps!Transposed(a), u))
<1> DEFINE t == [l \in Index |-> [k \in Index |-> (v[l] * a[<<k, l>>]) % P]]
           b == [l \in Index |-> Sweeps!Dot(u, t[l])]
           f == [l \in Index |-> v[l] * Sweeps!Apply(Sweeps!Transposed(a), u)[l]]
<1>0. \A k, l \in Index : u[k] \in Int /\ v[k] \in Int /\ a[<<k, l>>] \in Int /\ a[<<k, l>>] \in Field
  BY FieldMembers DEF Vec, Mat, Pairs
<1>1. \A l \in Index : t[l] \in Vec
  <2> SUFFICES ASSUME NEW l \in Index, NEW k \in Index PROVE (v[l] * a[<<k, l>>]) % P \in Field
    BY DEF Vec
  <2>1. v[l] * a[<<k, l>>] \in Int
    BY <1>0, IntegersClosed
  <2> QED
    BY <2>1, FieldMembers
<1>2. Sweeps!Apply(a, v) = Sweeps!Combine(t, Index)
  <2> SUFFICES ASSUME NEW k \in Index
               PROVE  Total([l \in Index |-> a[<<k, l>>] * v[l]], Index) = Total([l \in Index |-> t[l][k]], Index)
    BY VectorOperations
  <2> DEFINE p == [l \in Index |-> a[<<k, l>>] * v[l]]
             q == [l \in Index |-> t[l][k]]
  <2>1. ASSUME NEW l \in Index PROVE p[l] \in Int /\ q[l] \in Int /\ Same(p[l], q[l])
    <3>1. a[<<k, l>>] * v[l] = v[l] * a[<<k, l>>] /\ v[l] * a[<<k, l>>] \in Int
      BY <1>0, IntegersClosed
    <3>2. p[l] = v[l] * a[<<k, l>>] /\ q[l] = (v[l] * a[<<k, l>>]) % P
      BY <3>1
    <3> HIDE DEF p, q
    <3> QED
      BY <3>1, <3>2, SameRemainder DEF Same
  <2> HIDE DEF p, q
  <2>2. Total(p, Index) = Total(q, Index)
    BY <2>1, IndexFacts, TotalSame
  <2> QED
    BY <2>2 DEF p, q
<1>3. Sweeps!Dot(u, Sweeps!Combine(t, Index)) = Total(b, Index)
  <2> HIDE DEF t
  <2> QED
    BY <1>1, IndexFacts, DotCombine
<1>4. ASSUME NEW l \in Index PROVE b[l] \in Int /\ f[l] \in Int /\ Same(b[l], f[l])
  <2> DEFINE c == [k \in Index |-> a[<<k, l>>]]
  <2>1. c \in Vec
    BY <1>0 DEF Vec
  <2>2. t[l] = Sweeps!Times(v[l], c)
    BY VectorOperations
  <2>3. Sweeps!Apply(Sweeps!Transposed(a), u)[l] = Sweeps!Dot(u, c)
    <3>1. \A k \in Index : Sweeps!Transposed(a)[<<l, k>>] * u[k] = u[k] * c[k]
      <4> TAKE k \in Index
      <4>1. Sweeps!Transposed(a)[<<l, k>>] = a[<<k, l>>]
        BY VectorOperations DEF Pairs
      <4>2. a[<<k, l>>] * u[k] = u[k] * a[<<k, l>>]
        BY <1>0
      <4> QED
        BY <4>1, <4>2
    <3>2. [k \in Index |-> Sweeps!Transposed(a)[<<l, k>>] * u[k]] = [k \in Index |-> u[k] * c[k]]
      BY <3>1
    <3> HIDE DEF c
    <3> QED
      BY <3>2, VectorOperations
  <2> HIDE DEF c, t
  <2>4. Sweeps!Dot(u, c) \in Int /\ v[l] \in Int
    BY <1>0, <2>1, DotInField, FieldMembers
  <2>5. v[l] * Sweeps!Dot(u, c) \in Int
    BY <2>4, IntegersClosed
  <2>6. b[l] = (v[l] * Sweeps!Dot(u, c)) % P
    BY <2>1, <2>2, <2>4, DotTimes
  <2>7. f[l] = v[l] * Sweeps!Dot(u, c)
    BY <2>3
  <2> HIDE DEF b, f
  <2> QED
    BY <2>5, <2>6, <2>7, SameRemainder
<1>5. Sweeps!Dot(v, Sweeps!Apply(Sweeps!Transposed(a), u)) = Total(f, Index)
  BY VectorOperations
<1> HIDE DEF b, f
<1>6. Total(b, Index) = Total(f, Index)
  BY <1>4, IndexFacts, TotalSame
<1> QED
  BY <1>2, <1>3, <1>5, <1>6
------------------------------------------------------------------------------
\* One step of both sweeps.

\* What stage i of the tangent-linear sweep applies the Jacobian to, and what the
\* earlier stages add besides.
TlmArgument(dK, dC, i) ==
  Sweeps!Plus(dC, Sweeps!Combine([j \in 1..(i - 1) |-> Sweeps!Times(A[<<i, j>>], dK[j])], 1..(i - 1)))
TlmCoupling(dK, h, i) ==
  Sweeps!Combine([j \in 1..(i - 1) |-> Sweeps!Times(C[<<i, j>>] * Sweeps!Over(h), dK[j])], 1..(i - 1))

\* What a later stage j of the adjoint sweep passes on to stage i.
Passed(jac, h, u, j, i) ==
  Sweeps!Plus(Sweeps!Times(A[<<j, i>>], Sweeps!Apply(Sweeps!Transposed(jac), u[j])),
              Sweeps!Times(C[<<j, i>>] * Sweeps!Over(h), u[j]))
AdjPulled(jac, h, u, i) ==
  Sweeps!Combine([j \in (i + 1)..Stages |-> Passed(jac, h, u, j, i)], (i + 1)..Stages)

\* The stages dK and u of a step with the Jacobian jac and the size h that has to
\* solve with a.
IsStep(a, jac, h) == a \in Mat /\ jac \in Mat /\ h \in Field \ {0}
AreTlmStages(a, jac, h, dC, dK) ==
  /\ dC \in Vec /\ dK \in [Stage -> Vec]
  /\ \A i \in Stage :
       Sweeps!Apply(a, dK[i]) = Sweeps!Plus(Sweeps!Apply(jac, TlmArgument(dK, dC, i)), TlmCoupling(dK, h, i))
AreAdjStages(a, jac, h, lam, u) ==
  /\ lam \in Vec /\ u \in [Stage -> Vec]
  /\ \A i \in Stage :
       Sweeps!Apply(Sweeps!Transposed(a), u[i])
         = Sweeps!Plus(Sweeps!Times(M[i], lam), AdjPulled(jac, h, u, i))

\* Stage i and the earlier stage j, as both sweeps couple them.
Coupled(jac, h, dK, u, i, j) ==
  (A[<<i, j>>] * Sweeps!Dot(Sweeps!Apply(Sweeps!Transposed(jac), u[i]), dK[j])
     + (C[<<i, j>>] * Sweeps!Over(h)) * Sweeps!Dot(u[i], dK[j])) % P

\* The coefficients are integers and the stages finitely many.
LEMMA TableauFacts ==
  /\ Stages \in Nat /\ IsFiniteSet(Stage) /\ Stage \subseteq Int
  /\ \A i \in Stage : M[i] \in Int
  /\ \A i \in Stage : 1..(i - 1) \subseteq Stage /\ IsFiniteSet(1..(i - 1))
  /\ \A i \in Stage : (i + 1)..Stages \subseteq Stage /\ IsFiniteSet((i + 1)..Stages)
  /\ \A i \in Stage : \A j \in 1..(i - 1) : A[<<i, j>>] \in Int /\ C[<<i, j>>] \in Int
  /\ \A i \in Stage : \A j \in (i + 1)..Stages : i \in 1..(j - 1)
<1>1. Stages \in Nat /\ M \in [Stage -> Field]
  BY TableauAssumption DEF Stage
<1>2. Stage \subseteq Int /\ IsFiniteSet(Stage)
  BY <1>1, FS_Interval DEF Stage
<1>3. \A i \in Stage : 1..(i - 1) \subseteq Stage /\ (i + 1)..Stages \subseteq Stage
  BY <1>1 DEF Stage
<1>4. \A i \in Stage : \A j \in (i + 1)..Stages : i \in 1..(j - 1)
  BY <1>1 DEF Stage
<1>5. ASSUME NEW i \in Stage, NEW j \in 1..(i - 1) PROVE A[<<i, j>>] \in Int /\ C[<<i, j>>] \in Int
  <2> DEFINE below == {ij \in (1..Stages) \X (1..Stages) : ij[2] < ij[1]}
  <2>1. A \in [below -> Field] /\ C \in [below -> Field]
    BY TableauAssumption
  <2>2. i \in 1..Stages /\ j \in 1..Stages /\ j < i
    BY <1>1 DEF Stage
  <2>3. <<i, j>> \in below
    BY <2>2
  <2> HIDE DEF below
  <2> QED
    BY <2>1, <2>3, FieldMembers
<1>6. \A S \in SUBSET Stage : IsFiniteSet(S)
  BY <1>2, FS_Subset
<1>7. \A i \in Stage : M[i] \in Int
  BY <1>1, FieldMembers
<1> QED
  BY <1>1, <1>2, <1>3, <1>4, <1>5, <1>6, <1>7

\* The reciprocal of a step size is an integer.
LEMMA OverIsInt == ASSUME NEW h \in Field \ {0} PROVE Sweeps!Over(h) \in Int /\ Sweeps!Over(h) = Over(h)
<1>1. Sweeps!Over(h) = Over(h)
  BY DEF Sweeps!Over, Over, Sweeps!Field, Field
<1> QED
  BY <1>1, OverInverts, FieldMembers

\* What the stages of the tangent-linear sweep put together from vectors are
\* vectors.
LEMMA TlmVectors ==
  ASSUME NEW a, NEW jac, NEW h, IsStep(a, jac, h), NEW i \in Stage,
         NEW dC \in Vec, NEW dK, \A j \in 1..(i - 1) : dK[j] \in Vec
  PROVE  /\ \A j \in 1..(i - 1) : Sweeps!Times(A[<<i, j>>], dK[j]) \in Vec
         /\ \A j \in 1..(i - 1) : Sweeps!Times(C[<<i, j>>] * Sweeps!Over(h), dK[j]) \in Vec
         /\ TlmArgument(dK, dC, i) \in Vec /\ TlmCoupling(dK, h, i) \in Vec
<1> DEFINE S == 1..(i - 1)
           s == [j \in S |-> Sweeps!Times(A[<<i, j>>], dK[j])]
           t == [j \in S |-> Sweeps!Times(C[<<i, j>>] * Sweeps!Over(h), dK[j])]
<1>1. ASSUME NEW j \in S
      PROVE  Sweeps!Times(A[<<i, j>>], dK[j]) \in Vec /\ Sweeps!Times(C[<<i, j>>] * Sweeps!Over(h), dK[j]) \in Vec
  <2>1. A[<<i, j>>] \in Int /\ C[<<i, j>>] \in Int /\ Sweeps!Over(h) \in Int
    BY TableauFacts, OverIsInt DEF IsStep
  <2>2. C[<<i, j>>] * Sweeps!Over(h) \in Int
    BY <2>1, IntegersClosed
  <2> QED
    BY <2>1, <2>2, VectorsClosed
<1>2. \A j \in S : s[j] \in Vec /\ t[j] \in Vec
  BY <1>1
<1>3. IsFiniteSet(S)
  BY TableauFacts
<1> HIDE DEF s, t, S
<1>4. Sweeps!Combine(s, S) \in Vec /\ Sweeps!Combine(t, S) \in Vec
  BY <1>2, <1>3, CombineIsVector
<1>5. Sweeps!Plus(dC, Sweeps!Combine(s, S)) \in Vec
  BY <1>4, VectorsClosed
<1> QED
  BY <1>1, <1>4, <1>5 DEF TlmArgument, TlmCoupling, S, s, t

\* The same of the adjoint sweep.
LEMMA AdjVectors ==
  ASSUME NEW a, NEW jac, NEW h, IsStep(a, jac, h), NEW i \in Stage,
         NEW lam \in Vec, NEW u, \A j \in (i + 1)..Stages : u[j] \in Vec
  PROVE  /\ \A j \in (i + 1)..Stages : Passed(jac, h, u, j, i) \in Vec
         /\ Sweeps!Times(M[i], lam) \in Vec /\ AdjPulled(jac, h, u, i) \in Vec
<1> DEFINE S == (i + 1)..Stages
           t == [j \in S |-> Passed(jac, h, u, j, i)]
<1>1. ASSUME NEW j \in S PROVE Passed(jac, h, u, j, i) \in Vec
  <2>1. A[<<j, i>>] \in Int /\ C[<<j, i>>] \in Int /\ Sweeps!Over(h) \in Int
    BY TableauFacts, OverIsInt DEF IsStep
  <2>2. C[<<j, i>>] * Sweeps!Over(h) \in Int
    BY <2>1, IntegersClosed
  <2>3. Sweeps!Apply(Sweeps!Transposed(jac), u[j]) \in Vec
    BY VectorsClosed, ApplyIsVector DEF IsStep
  <2>4. /\ Sweeps!Times(A[<<j, i>>], Sweeps!Apply(Sweeps!Transposed(jac), u[j])) \in Vec
        /\ Sweeps!Times(C[<<j, i>>] * Sweeps!Over(h), u[j]) \in Vec
    BY <2>1, <2>2, <2>3, VectorsClosed
  <2> QED
    BY <2>4, VectorsClosed DEF Passed
<1>2. \A j \in S : t[j] \in Vec
  BY <1>1
<1>3. IsFiniteSet(S) /\ M[i] \in Int
  BY TableauFacts
<1> HIDE DEF S, t
<1>4. Sweeps!Combine(t, S) \in Vec
  BY <1>2, <1>3, CombineIsVector
<1> QED
  BY <1>1, <1>3, <1>4, VectorsClosed DEF AdjPulled, S, t

------------------------------------------------------------------------------
\* The couplings of the two sweeps.

\* Sums modulo P may be reduced anywhere.
LEMMA ReducedSums ==
  /\ \A x, y, z \in Int : (((x + y) % P) + z) % P = (x + ((y + z) % P)) % P
  /\ \A x, y \in Int : ((x % P) + (y % P)) % P = (x + y) % P
<1>1. ASSUME NEW x \in Int, NEW y \in Int PROVE ((x % P) + (y % P)) % P = (x + y) % P
  BY FieldMembers, SamePlus DEF Same
<1>2. ASSUME NEW x \in Int, NEW y \in Int, NEW z \in Int
      PROVE  (((x + y) % P) + z) % P = (x + ((y + z) % P)) % P
  <2>1. x + y \in Int /\ y + z \in Int /\ (x + y) + z = x + (y + z)
    OBVIOUS
  <2>2. (x + y) % P \in Int /\ Same((x + y) % P, x + y) /\ (y + z) % P \in Int /\ Same((y + z) % P, y + z)
    BY <2>1, FieldMembers
  <2>3. Same(x, x) /\ Same(z, z)
    BY DEF Same
  <2>4. Same(((x + y) % P) + z, (x + y) + z) /\ Same(x + ((y + z) % P), x + (y + z))
    BY <2>1, <2>2, <2>3, SamePlus
  <2> QED
    BY <2>1, <2>4 DEF Same
<1> QED
  BY <1>1, <1>2

\* The sum of reduced pairs.
LEMMA TotalOfPairs ==
  ASSUME NEW S, IsFiniteSet(S), NEW f, NEW g, \A j \in S : f[j] \in Int /\ g[j] \in Int
  PROVE  /\ Total([j \in S |-> f[j] % P], S) \in Int
         /\ Total([j \in S |-> g[j] % P], S) \in Int
         /\ Total([j \in S |-> (f[j] + g[j]) % P], S)
              = (Total([j \in S |-> f[j] % P], S) + Total([j \in S |-> g[j] % P], S)) % P
<1> DEFINE p == [j \in S |-> f[j] % P]
           q == [j \in S |-> g[j] % P]
           r == [j \in S |-> (f[j] + g[j]) % P]
           s == [j \in S |-> p[j] + q[j]]
<1>1. ASSUME NEW j \in S
      PROVE  /\ p[j] \in Int /\ q[j] \in Int /\ r[j] \in Int /\ s[j] \in Int
             /\ Same(r[j], s[j])
  <2>1. f[j] \in Int /\ g[j] \in Int /\ f[j] + g[j] \in Int
    OBVIOUS
  <2>2. f[j] % P \in Int /\ g[j] % P \in Int /\ (f[j] + g[j]) % P \in Int
    BY <2>1, FieldMembers
  <2>3. ((f[j] % P) + (g[j] % P)) % P = (f[j] + g[j]) % P /\ (f[j] % P) + (g[j] % P) \in Int
    <3> DEFINE x == f[j]
               y == g[j]
    <3>1. x \in Int /\ y \in Int /\ x % P \in Int /\ y % P \in Int
      BY <2>1, <2>2
    <3> HIDE DEF x, y
    <3>2. ((x % P) + (y % P)) % P = (x + y) % P
      BY <3>1, ReducedSums
    <3>3. (x % P) + (y % P) \in Int
      BY <3>1, IntegersClosed
    <3> QED
      BY <3>2, <3>3 DEF x, y
  <2>4. ((f[j] + g[j]) % P) % P = (f[j] + g[j]) % P
    BY <2>1, FieldMembers
  <2> QED
    BY <2>2, <2>3, <2>4 DEF Same
<1> HIDE DEF p, q, r
<1>2. Total(r, S) = Total(s, S)
  <2> HIDE DEF s
  <2> QED
    BY <1>1, TotalSame
<1>3. Total(s, S) = (Total(p, S) + Total(q, S)) % P
  BY <1>1, TotalPlus
<1>4. Total(p, S) \in Int /\ Total(q, S) \in Int
  BY <1>1, TotalSplit, FieldMembers
<1> QED
  BY <1>2, <1>3, <1>4 DEF p, q, r

\* Stage i of the tangent-linear sweep, multiplied by stage i of the adjoint.
LEMMA TlmRow ==
  ASSUME NEW a, NEW jac, NEW h, IsStep(a, jac, h),
         NEW dC, NEW dK, AreTlmStages(a, jac, h, dC, dK), NEW u \in [Stage -> Vec], NEW i \in Stage
  PROVE  Sweeps!Dot(u[i], Sweeps!Apply(a, dK[i]))
           = (Sweeps!Dot(Sweeps!Apply(Sweeps!Transposed(jac), u[i]), dC)
                + Total([j \in 1..(i - 1) |-> Coupled(jac, h, dK, u, i, j)], 1..(i - 1))) % P
<1> DEFINE S == 1..(i - 1)
           G == Sweeps!Apply(Sweeps!Transposed(jac), u[i])
           s == [j \in S |-> Sweeps!Times(A[<<i, j>>], dK[j])]
           t == [j \in S |-> Sweeps!Times(C[<<i, j>>] * Sweeps!Over(h), dK[j])]
           f == [j \in S |-> A[<<i, j>>] * Sweeps!Dot(G, dK[j])]
           g == [j \in S |-> (C[<<i, j>>] * Sweeps!Over(h)) * Sweeps!Dot(u[i], dK[j])]
           arg == TlmArgument(dK, dC, i)
           coupling == TlmCoupling(dK, h, i)
<1>1. /\ u[i] \in Vec /\ dC \in Vec /\ jac \in Mat /\ a \in Mat /\ IsFiniteSet(S)
      /\ \A j \in S : dK[j] \in Vec
      /\ \A j \in S : A[<<i, j>>] \in Int /\ C[<<i, j>>] \in Int /\ Sweeps!Over(h) \in Int
  BY TableauFacts, OverIsInt DEF AreTlmStages, IsStep
<1>2. G \in Vec
  BY <1>1, VectorsClosed, ApplyIsVector
<1>3. arg \in Vec /\ coupling \in Vec /\ \A j \in S : s[j] \in Vec /\ t[j] \in Vec
  <2>1. \A j \in 1..(i - 1) : dK[j] \in Vec
    BY <1>1
  <2> QED
    BY <1>1, <2>1, TlmVectors
<1>4. Sweeps!Apply(a, dK[i]) = Sweeps!Plus(Sweeps!Apply(jac, arg), coupling) /\ Sweeps!Apply(jac, arg) \in Vec
  BY <1>1, <1>3, ApplyIsVector DEF AreTlmStages
<1>5. arg = Sweeps!Plus(dC, Sweeps!Combine(s, S)) /\ coupling = Sweeps!Combine(t, S)
  BY DEF TlmArgument, TlmCoupling
<1>6. ASSUME NEW j \in S
      PROVE  /\ f[j] \in Int /\ g[j] \in Int
             /\ Sweeps!Dot(G, s[j]) = f[j] % P /\ Sweeps!Dot(u[i], t[j]) = g[j] % P
             /\ Coupled(jac, h, dK, u, i, j) = (f[j] + g[j]) % P
  <2> HIDE DEF G
  <2>1. /\ A[<<i, j>>] \in Int /\ C[<<i, j>>] * Sweeps!Over(h) \in Int /\ dK[j] \in Vec
        /\ Sweeps!Dot(G, dK[j]) \in Int /\ Sweeps!Dot(u[i], dK[j]) \in Int
    BY <1>1, <1>2, IntegersClosed, DotInField, FieldMembers
  <2>2. f[j] \in Int /\ g[j] \in Int
    BY <2>1, IntegersClosed
  <2>3. Sweeps!Dot(G, s[j]) = f[j] % P /\ Sweeps!Dot(u[i], t[j]) = g[j] % P
    BY <1>1, <1>2, <2>1, DotTimes
  <2>4. Coupled(jac, h, dK, u, i, j) = (f[j] + g[j]) % P
    BY DEF Coupled, G
  <2> QED
    BY <2>2, <2>3, <2>4
<1> HIDE DEF S, G, s, t, f, g, arg, coupling
<1> DEFINE X == Sweeps!Dot(G, dC)
           Y == Total([j \in S |-> f[j] % P], S)
           Z == Total([j \in S |-> g[j] % P], S)
<1>7. Sweeps!Combine(s, S) \in Vec
  BY <1>1, <1>3, CombineIsVector
<1>8. Sweeps!Dot(G, Sweeps!Combine(s, S)) = Y /\ Sweeps!Dot(u[i], coupling) = Z
  <2>1. [j \in S |-> Sweeps!Dot(G, s[j])] = [j \in S |-> f[j] % P]
    BY <1>6
  <2>2. [j \in S |-> Sweeps!Dot(u[i], t[j])] = [j \in S |-> g[j] % P]
    BY <1>6
  <2> QED
    BY <1>1, <1>2, <1>3, <1>5, <2>1, <2>2, DotCombine
<1>9. Sweeps!Dot(u[i], Sweeps!Apply(jac, arg)) = (X + Y) % P
  <2>1. Sweeps!Dot(u[i], Sweeps!Apply(jac, arg)) = Sweeps!Dot(arg, G)
    BY <1>1, <1>3, DotApply DEF G
  <2>2. Sweeps!Dot(arg, G) = Sweeps!Dot(G, arg)
    BY <1>2, <1>3, DotCommutes
  <2>3. Sweeps!Dot(G, arg) = (Sweeps!Dot(G, dC) + Sweeps!Dot(G, Sweeps!Combine(s, S))) % P
    BY <1>1, <1>2, <1>5, <1>7, DotPlus
  <2> QED
    BY <1>8, <2>1, <2>2, <2>3
<1>10. Sweeps!Dot(u[i], Sweeps!Apply(a, dK[i])) = (((X + Y) % P) + Z) % P
  BY <1>1, <1>3, <1>4, <1>8, <1>9, DotPlus
<1>11. /\ Y \in Int /\ Z \in Int
       /\ Total([j \in S |-> (f[j] + g[j]) % P], S) = (Y + Z) % P
  BY <1>1, <1>6, TotalOfPairs
<1>12. X \in Int
  BY <1>1, <1>2, DotInField, FieldMembers
<1>13. [j \in S |-> (f[j] + g[j]) % P] = [j \in S |-> Coupled(jac, h, dK, u, i, j)]
  BY <1>6
<1> HIDE DEF X, Y, Z
<1>14. (((X + Y) % P) + Z) % P = (X + ((Y + Z) % P)) % P
  BY <1>11, <1>12, ReducedSums
<1>15. Sweeps!Dot(u[i], Sweeps!Apply(a, dK[i])) = (X + Total([j \in S |-> Coupled(jac, h, dK, u, i, j)], S)) % P
  BY <1>10, <1>11, <1>13, <1>14
<1> QED
  BY <1>15 DEF X, S, G

\* The same product, from the adjoint's side.
LEMMA AdjRow ==
  ASSUME NEW a, NEW jac, NEW h, IsStep(a, jac, h),
         NEW lam, NEW u, AreAdjStages(a, jac, h, lam, u), NEW dK \in [Stage -> Vec], NEW i \in Stage
  PROVE  Sweeps!Dot(u[i], Sweeps!Apply(a, dK[i]))
           = (((M[i] * Sweeps!Dot(dK[i], lam)) % P)
                + Total([j \in (i + 1)..Stages |-> Coupled(jac, h, dK, u, j, i)], (i + 1)..Stages)) % P
<1> DEFINE S == (i + 1)..Stages
           t == [j \in S |-> Passed(jac, h, u, j, i)]
<1>1. /\ u[i] \in Vec /\ dK[i] \in Vec /\ lam \in Vec /\ jac \in Mat /\ a \in Mat /\ IsFiniteSet(S)
      /\ M[i] \in Int
      /\ \A j \in S : u[j] \in Vec
      /\ \A j \in S : A[<<j, i>>] \in Int /\ C[<<j, i>>] \in Int /\ Sweeps!Over(h) \in Int
  BY TableauFacts, OverIsInt DEF AreAdjStages, IsStep
<1>2. Sweeps!Dot(u[i], Sweeps!Apply(a, dK[i])) = Sweeps!Dot(dK[i], Sweeps!Apply(Sweeps!Transposed(a), u[i]))
  BY <1>1, DotApply
<1>3. /\ \A j \in S : t[j] \in Vec
      /\ Sweeps!Times(M[i], lam) \in Vec /\ AdjPulled(jac, h, u, i) \in Vec
  <2>1. \A j \in (i + 1)..Stages : u[j] \in Vec
    BY <1>1
  <2> QED
    BY <1>1, <2>1, AdjVectors
<1>4. /\ Sweeps!Apply(Sweeps!Transposed(a), u[i]) = Sweeps!Plus(Sweeps!Times(M[i], lam), AdjPulled(jac, h, u, i))
      /\ AdjPulled(jac, h, u, i) = Sweeps!Combine(t, S)
  BY DEF AreAdjStages, AdjPulled
<1>5. ASSUME NEW j \in S PROVE Sweeps!Dot(dK[i], t[j]) = Coupled(jac, h, dK, u, j, i)
  <2> DEFINE G == Sweeps!Apply(Sweeps!Transposed(jac), u[j])
             x == A[<<j, i>>]
             y == C[<<j, i>>] * Sweeps!Over(h)
  <2>1. /\ x \in Int /\ y \in Int /\ u[j] \in Vec /\ G \in Vec
    BY <1>1, IntegersClosed, VectorsClosed, ApplyIsVector
  <2>2. t[j] = Sweeps!Plus(Sweeps!Times(x, G), Sweeps!Times(y, u[j]))
    BY DEF Passed
  <2>3. Coupled(jac, h, dK, u, j, i) = (x * Sweeps!Dot(G, dK[i]) + y * Sweeps!Dot(u[j], dK[i])) % P
    BY DEF Coupled
  <2> HIDE DEF G, x, y, t
  <2>4. Sweeps!Times(x, G) \in Vec /\ Sweeps!Times(y, u[j]) \in Vec
    BY <2>1, VectorsClosed
  <2>5. Sweeps!Dot(dK[i], t[j]) = (Sweeps!Dot(dK[i], Sweeps!Times(x, G)) + Sweeps!Dot(dK[i], Sweeps!Times(y, u[j]))) % P
    BY <1>1, <2>2, <2>4, DotPlus
  <2>6. /\ Sweeps!Dot(dK[i], Sweeps!Times(x, G)) = (x * Sweeps!Dot(dK[i], G)) % P
        /\ Sweeps!Dot(dK[i], Sweeps!Times(y, u[j])) = (y * Sweeps!Dot(dK[i], u[j])) % P
    BY <1>1, <2>1, DotTimes
  <2>7. /\ Sweeps!Dot(dK[i], G) = Sweeps!Dot(G, dK[i]) /\ Sweeps!Dot(dK[i], u[j]) = Sweeps!Dot(u[j], dK[i])
        /\ Sweeps!Dot(G, dK[i]) \in Int /\ Sweeps!Dot(u[j], dK[i]) \in Int
    BY <1>1, <2>1, DotCommutes, DotInField, FieldMembers
  <2>8. x * Sweeps!Dot(G, dK[i]) \in Int /\ y * Sweeps!Dot(u[j], dK[i]) \in Int
    BY <2>1, <2>7, IntegersClosed
  <2>9. (((x * Sweeps!Dot(G, dK[i])) % P) + ((y * Sweeps!Dot(u[j], dK[i])) % P)) % P
          = (x * Sweeps!Dot(G, dK[i]) + y * Sweeps!Dot(u[j], dK[i])) % P
    BY <2>8, ReducedSums
  <2> QED
    BY <2>3, <2>5, <2>6, <2>7, <2>9
<1> HIDE DEF S, t
<1>6. Sweeps!Dot(dK[i], AdjPulled(jac, h, u, i)) = Total([j \in S |-> Coupled(jac, h, dK, u, j, i)], S)
  <2>1. [j \in S |-> Sweeps!Dot(dK[i], t[j])] = [j \in S |-> Coupled(jac, h, dK, u, j, i)]
    BY <1>5
  <2> QED
    BY <1>1, <1>3, <1>4, <2>1, DotCombine
<1>7. Sweeps!Dot(dK[i], Sweeps!Times(M[i], lam)) = (M[i] * Sweeps!Dot(dK[i], lam)) % P
  BY <1>1, DotTimes
<1>8. Sweeps!Dot(dK[i], Sweeps!Apply(Sweeps!Transposed(a), u[i]))
        = (Sweeps!Dot(dK[i], Sweeps!Times(M[i], lam)) + Sweeps!Dot(dK[i], AdjPulled(jac, h, u, i))) % P
  BY <1>1, <1>3, <1>4, DotPlus
<1> QED
  BY <1>2, <1>6, <1>7, <1>8 DEF S

------------------------------------------------------------------------------
\* The duality of the increments.

\* The couplings below the diagonal, 0 elsewhere.
Couplings(jac, h, dK, u) ==
  [i \in Stage |-> [j \in Stage |-> IF j < i THEN Coupled(jac, h, dK, u, i, j) ELSE 0]]

\* The sums of its rows and of its columns.
RowSum(t, i)    == Total(t[i], Stage)
ColumnSum(t, i) == Total([j \in Stage |-> t[j][i]], Stage)

\* Couplings are members of the field.
LEMMA CoupledInField ==
  ASSUME NEW jac \in Mat, NEW h \in Field \ {0}, NEW dK \in [Stage -> Vec], NEW u \in [Stage -> Vec]
  PROVE  \A i, j \in Stage : j < i => Coupled(jac, h, dK, u, i, j) \in Field
<1> SUFFICES ASSUME NEW i \in Stage, NEW j \in Stage, j < i PROVE Coupled(jac, h, dK, u, i, j) \in Field
  OBVIOUS
<1>1. j \in 1..(i - 1)
  BY TableauFacts DEF Stage
<1>2. A[<<i, j>>] \in Int /\ C[<<i, j>>] \in Int /\ Sweeps!Over(h) \in Int
  BY <1>1, TableauFacts, OverIsInt
<1> DEFINE x == Sweeps!Dot(Sweeps!Apply(Sweeps!Transposed(jac), u[i]), dK[j])
           y == Sweeps!Dot(u[i], dK[j])
<1>3. Sweeps!Apply(Sweeps!Transposed(jac), u[i]) \in Vec
  BY VectorsClosed, ApplyIsVector
<1>4. x \in Int /\ y \in Int
  BY <1>3, DotInField, FieldMembers
<1>5. Coupled(jac, h, dK, u, i, j) = (A[<<i, j>>] * x + (C[<<i, j>>] * Sweeps!Over(h)) * y) % P
  BY DEF Coupled
<1> HIDE DEF x, y
<1>6. A[<<i, j>>] * x \in Int /\ (C[<<i, j>>] * Sweeps!Over(h)) * y \in Int
  BY <1>2, <1>4, IntegersClosed
<1>7. A[<<i, j>>] * x + (C[<<i, j>>] * Sweeps!Over(h)) * y \in Int
  BY <1>6, IntegersClosed
<1> QED
  BY <1>5, <1>7, FieldMembers

\* The sums of the rows and of the columns of the couplings.
LEMMA CouplingSums ==
  ASSUME NEW jac \in Mat, NEW h \in Field \ {0}, NEW dK \in [Stage -> Vec], NEW u \in [Stage -> Vec],
         NEW i \in Stage
  PROVE  /\ Total([j \in 1..(i - 1) |-> Coupled(jac, h, dK, u, i, j)], 1..(i - 1))
              = RowSum(Couplings(jac, h, dK, u), i)
         /\ Total([j \in (i + 1)..Stages |-> Coupled(jac, h, dK, u, j, i)], (i + 1)..Stages)
              = ColumnSum(Couplings(jac, h, dK, u), i)
<1> DEFINE t == Couplings(jac, h, dK, u)
<1>0. /\ \A k, j \in Stage : t[k][j] = IF j < k THEN Coupled(jac, h, dK, u, k, j) ELSE 0
      /\ \A k, j \in Stage : t[k][j] \in Int
  <2>1. \A k, j \in Stage : j < k => Coupled(jac, h, dK, u, k, j) \in Int
    BY CoupledInField, FieldMembers
  <2> QED
    BY <2>1 DEF Couplings
<1> HIDE DEF t
<1>z. Same(0, 0)
  BY DEF Same
<1>1. Total([j \in 1..(i - 1) |-> Coupled(jac, h, dK, u, i, j)], 1..(i - 1)) = Total(t[i], Stage)
  <2> DEFINE S == 1..(i - 1)
             f == [j \in S |-> Coupled(jac, h, dK, u, i, j)]
  <2>1. S \subseteq Stage /\ IsFiniteSet(S) /\ IsFiniteSet(Stage)
    BY TableauFacts
  <2>2. \A j \in S : j < i
    BY TableauFacts
  <2>3. \A j \in Stage \ S : ~(j < i)
    BY TableauFacts DEF Stage
  <2> HIDE DEF S
  <2>4. \A j \in S : f[j] = t[i][j] /\ f[j] \in Int /\ t[i][j] \in Int /\ Same(f[j], t[i][j])
    BY <1>0, <2>1, <2>2 DEF Same
  <2>5. \A j \in Stage \ S : Same(t[i][j], 0)
    BY <1>0, <1>z, <2>3
  <2> HIDE DEF f
  <2>6. Total(f, S) = Total(t[i], S)
    BY <2>1, <2>4, TotalSame
  <2>7. Total(t[i], Stage) = Total(t[i], S)
    BY <1>0, <2>1, <2>5, TotalOver
  <2> QED
    BY <2>6, <2>7 DEF f, S
<1>2. Total([j \in (i + 1)..Stages |-> Coupled(jac, h, dK, u, j, i)], (i + 1)..Stages)
        = Total([j \in Stage |-> t[j][i]], Stage)
  <2> DEFINE S == (i + 1)..Stages
             f == [j \in S |-> Coupled(jac, h, dK, u, j, i)]
             g == [j \in Stage |-> t[j][i]]
  <2>1. S \subseteq Stage /\ IsFiniteSet(S) /\ IsFiniteSet(Stage)
    BY TableauFacts
  <2>2. \A j \in S : i < j
    BY TableauFacts
  <2>3. \A j \in Stage \ S : ~(i < j)
    BY TableauFacts DEF Stage
  <2> HIDE DEF S
  <2>4. \A j \in S : f[j] = g[j] /\ f[j] \in Int /\ g[j] \in Int /\ Same(f[j], g[j])
    BY <1>0, <2>1, <2>2 DEF Same
  <2>5. \A j \in Stage \ S : Same(g[j], 0)
    BY <1>0, <1>z, <2>3
  <2>6. \A j \in Stage : g[j] \in Int
    BY <1>0
  <2> HIDE DEF f, g
  <2>7. Total(f, S) = Total(g, S)
    BY <2>1, <2>4, TotalSame
  <2>8. Total(g, Stage) = Total(g, S)
    BY <2>1, <2>5, <2>6, TotalOver
  <2> QED
    BY <2>7, <2>8 DEF f, g, S
<1> QED
  BY <1>1, <1>2 DEF RowSum, ColumnSum, t

\* The sum of reduced sums.
LEMMA TotalOfSums ==
  ASSUME NEW S, IsFiniteSet(S), NEW x, NEW f, NEW g,
         \A i \in S : f[i] \in Int /\ g[i] \in Int /\ x[i] = (f[i] + g[i]) % P
  PROVE  Total(x, S) = (Total(f, S) + Total(g, S)) % P
<1> DEFINE s == [i \in S |-> f[i] + g[i]]
<1>1. ASSUME NEW i \in S PROVE x[i] \in Int /\ s[i] \in Int /\ Same(x[i], s[i])
  <2>1. f[i] + g[i] \in Int
    OBVIOUS
  <2> QED
    BY <2>1, FieldMembers
<1>2. Total(x, S) = Total(s, S)
  <2> HIDE DEF s
  <2> QED
    BY <1>1, TotalSame
<1>3. Total(s, S) = (Total(f, S) + Total(g, S)) % P
  BY TotalPlus
<1> QED
  BY <1>2, <1>3

\* What is added to both sides modulo P may be taken away.
LEMMA CancelAdded ==
  ASSUME NEW x \in Field, NEW y \in Field, NEW z \in Int, (x + z) % P = (y + z) % P
  PROVE  x = y
<1>1. x \in Int /\ y \in Int /\ x + z \in Int /\ y + z \in Int /\ (x + z) - z = x /\ (y + z) - z = y
  BY FieldMembers
<1>2. Same(x + z, y + z) /\ Same(z, z)
  BY DEF Same
<1>3. Same((x + z) - z, (y + z) - z)
  BY <1>1, <1>2, SamePlus
<1> QED
  BY <1>1, <1>3, FieldMembers DEF Same

\* For all perturbations dC and all adjoint variables lam: what the tangent-linear
\* step adds, measured by lam, is what the adjoint step adds, pulled through the
\* Jacobian and applied to dC.
LEMMA IncrementsAreDual ==
  ASSUME NEW a, NEW jac, NEW h, IsStep(a, jac, h),
         NEW dC, NEW dK, AreTlmStages(a, jac, h, dC, dK),
         NEW lam, NEW u, AreAdjStages(a, jac, h, lam, u)
  PROVE  Sweeps!Dot(lam, Sweeps!Combine([i \in Stage |-> Sweeps!Times(M[i], dK[i])], Stage))
           = Sweeps!Dot(Sweeps!Combine(u, Stage), Sweeps!Apply(jac, dC))
<1> DEFINE t == Couplings(jac, h, dK, u)
           G(i) == Sweeps!Apply(Sweeps!Transposed(jac), u[i])
           x == [i \in Stage |-> Sweeps!Dot(u[i], Sweeps!Apply(a, dK[i]))]
           d == [i \in Stage |-> Sweeps!Dot(G(i), dC)]
           r == [i \in Stage |-> (M[i] * Sweeps!Dot(dK[i], lam)) % P]
           e == [i \in Stage |-> RowSum(t, i)]
           f == [i \in Stage |-> ColumnSum(t, i)]
           b == Sweeps!Combine(u, Stage)
           v == Sweeps!Apply(jac, dC)
           q == [i \in Stage |-> Sweeps!Times(M[i], dK[i])]
<1>1. /\ dC \in Vec /\ lam \in Vec /\ dK \in [Stage -> Vec] /\ u \in [Stage -> Vec]
      /\ jac \in Mat /\ a \in Mat /\ h \in Field \ {0} /\ IsFiniteSet(Stage)
      /\ \A i \in Stage : M[i] \in Int /\ u[i] \in Vec /\ dK[i] \in Vec
  BY TableauFacts DEF AreTlmStages, AreAdjStages, IsStep
<1>s. \A i \in Stage :
        /\ Total([j \in 1..(i - 1) |-> Coupled(jac, h, dK, u, i, j)], 1..(i - 1)) = RowSum(t, i)
        /\ Total([j \in (i + 1)..Stages |-> Coupled(jac, h, dK, u, j, i)], (i + 1)..Stages) = ColumnSum(t, i)
  <2>1. jac \in Mat /\ h \in Field \ {0} /\ dK \in [Stage -> Vec] /\ u \in [Stage -> Vec]
    BY <1>1
  <2> QED
    BY <2>1, CouplingSums
<1>2. \A i, j \in Stage : t[i][j] \in Int
  <2>1. \A i, j \in Stage : j < i => Coupled(jac, h, dK, u, i, j) \in Int
    BY <1>1, CoupledInField, FieldMembers
  <2> QED
    BY <2>1 DEF Couplings
<1>3. \A i \in Stage : G(i) \in Vec
  BY <1>1, VectorsClosed, ApplyIsVector
<1>4. \A i \in Stage : d[i] \in Field /\ d[i] \in Int
  <2> HIDE DEF G
  <2> QED
    BY <1>1, <1>3, DotInField, FieldMembers
<1>5. \A i \in Stage : r[i] \in Field /\ r[i] \in Int
  <2> TAKE i \in Stage
  <2>1. Sweeps!Dot(dK[i], lam) \in Int
    BY <1>1, DotInField, FieldMembers
  <2>2. M[i] * Sweeps!Dot(dK[i], lam) \in Int
    BY <1>1, <2>1, IntegersClosed
  <2> QED
    BY <2>2, FieldMembers
<1>6. \A i \in Stage : e[i] \in Int /\ f[i] \in Int
  <2> TAKE i \in Stage
  <2> DEFINE g == [j \in Stage |-> t[j][i]]
  <2>1. \A j \in Stage : g[j] \in Int /\ t[i][j] \in Int
    BY <1>2
  <2> HIDE DEF g, t
  <2>2. Total(g, Stage) \in Int /\ Total(t[i], Stage) \in Int
    BY <1>1, <2>1, TotalSplit, FieldMembers
  <2> QED
    BY <2>2 DEF g, RowSum, ColumnSum
<1>7. \A i \in Stage : x[i] = (d[i] + e[i]) % P
  <2> TAKE i \in Stage
  <2>1. Total([j \in 1..(i - 1) |-> Coupled(jac, h, dK, u, i, j)], 1..(i - 1)) = RowSum(t, i)
    BY <1>s
  <2>2. x[i] = (d[i] + Total([j \in 1..(i - 1) |-> Coupled(jac, h, dK, u, i, j)], 1..(i - 1))) % P
    BY <1>1, TlmRow
  <2>3. e[i] = RowSum(t, i)
    OBVIOUS
  <2> HIDE DEF x, d, e, t
  <2> QED
    BY <2>1, <2>2, <2>3
<1>8. \A i \in Stage : x[i] = (r[i] + f[i]) % P
  <2> TAKE i \in Stage
  <2>1. Total([j \in (i + 1)..Stages |-> Coupled(jac, h, dK, u, j, i)], (i + 1)..Stages)
          = ColumnSum(t, i)
    BY <1>s
  <2>2. x[i] = (r[i] + Total([j \in (i + 1)..Stages |-> Coupled(jac, h, dK, u, j, i)], (i + 1)..Stages)) % P
    BY <1>1, AdjRow
  <2>3. f[i] = ColumnSum(t, i)
    OBVIOUS
  <2> HIDE DEF x, r, f, t
  <2> QED
    BY <2>1, <2>2, <2>3
<1>9. Total(e, Stage) = Total(f, Stage)
  <2> HIDE DEF t
  <2>1. IsFiniteSet(Stage)
    BY TableauFacts
  <2>2. Total([i \in Stage |-> Total(t[i], Stage)], Stage)
          = Total([j \in Stage |-> Total([i \in Stage |-> t[i][j]], Stage)], Stage)
    BY <1>2, <2>1, TotalExchange
  <2> QED
    BY <2>2 DEF RowSum, ColumnSum
<1>10. Total(d, Stage) = Sweeps!Dot(b, v)
  <2>1. v \in Vec /\ b \in Vec
    BY <1>1, ApplyIsVector, CombineIsVector
  <2>2. \A i \in Stage : Sweeps!Dot(v, u[i]) = d[i]
    <3> TAKE i \in Stage
    <3>1. Sweeps!Dot(v, u[i]) = Sweeps!Dot(u[i], v)
      BY <1>1, <2>1, DotCommutes
    <3>2. Sweeps!Dot(u[i], v) = Sweeps!Dot(dC, G(i))
      BY <1>1, DotApply
    <3>3. Sweeps!Dot(dC, G(i)) = Sweeps!Dot(G(i), dC)
      <4> HIDE DEF G
      <4> QED
        BY <1>1, <1>3, DotCommutes
    <3> QED
      BY <3>1, <3>2, <3>3
  <2>3. [i \in Stage |-> Sweeps!Dot(v, u[i])] = d
    BY <2>2
  <2> HIDE DEF d, v
  <2>4. Sweeps!Dot(v, b) = Total(d, Stage)
    BY <1>1, <2>1, <2>3, DotCombine
  <2> QED
    BY <2>1, <2>4, DotCommutes
<1>11. Total(r, Stage) = Sweeps!Dot(lam, Sweeps!Combine(q, Stage))
  <2>1. \A i \in Stage : q[i] \in Vec
    BY <1>1, VectorsClosed
  <2>2. \A i \in Stage : Sweeps!Dot(lam, q[i]) = r[i]
    <3> TAKE i \in Stage
    <3>1. Sweeps!Dot(lam, q[i]) = (M[i] * Sweeps!Dot(lam, dK[i])) % P
      BY <1>1, DotTimes
    <3>2. Sweeps!Dot(lam, dK[i]) = Sweeps!Dot(dK[i], lam)
      BY <1>1, DotCommutes
    <3> QED
      BY <3>1, <3>2
  <2>3. [i \in Stage |-> Sweeps!Dot(lam, q[i])] = r
    BY <2>2
  <2> HIDE DEF r, q
  <2> QED
    BY <1>1, <2>1, <2>3, DotCombine
<1> HIDE DEF x, d, r, e, f, t, b, v, q
<1>12. Total(x, Stage) = (Total(d, Stage) + Total(e, Stage)) % P
  BY <1>1, <1>4, <1>6, <1>7, TotalOfSums
<1>13. Total(x, Stage) = (Total(r, Stage) + Total(f, Stage)) % P
  BY <1>1, <1>5, <1>6, <1>8, TotalOfSums
<1>14. Total(d, Stage) \in Field /\ Total(r, Stage) \in Field /\ Total(e, Stage) \in Int
  BY <1>1, <1>4, <1>5, <1>6, TotalSplit, FieldMembers
<1>15. Total(d, Stage) = Total(r, Stage)
  BY <1>9, <1>12, <1>13, <1>14, CancelAdded
<1> QED
  BY <1>10, <1>11, <1>15 DEF b, v, q

------------------------------------------------------------------------------
\* The stages, as they are unrolled.

\* Sequences of n vectors.
Lists == [n \in 0..Stages |-> [1..n -> Vec]]

\* The stage a sweep adds to the stages before it.
TlmNext(jac, h, dC, n, earlier) ==
  PlanSolve(Sweeps!W(jac, h),
            Sweeps!Plus(Sweeps!Apply(jac, TlmArgument(earlier, dC, n)), TlmCoupling(earlier, h, n)))
AdjNext(jac, h, lam, n, later) ==
  PlanSolveTransposed(Sweeps!W(jac, h),
    Sweeps!Plus(Sweeps!Times(M[Stages + 1 - n], lam), Sweeps!Pulled(jac, h, later, Stages + 1 - n)))

TlmUnrolled(jac, h, dC, f) ==
  [n \in 0..Stages |-> IF n = 0 THEN <<>> ELSE Append(f[n - 1], TlmNext(jac, h, dC, n, f[n - 1]))]
AdjUnrolled(jac, h, lam, f) ==
  [n \in 0..Stages |-> IF n = 0 THEN <<>> ELSE <<AdjNext(jac, h, lam, n, f[n - 1])>> \o f[n - 1]]

\* Induction up to a bound.
LEMMA CountUp ==
  ASSUME NEW n \in Nat, NEW Good, 0 \in Good, \A k \in 1..n : k - 1 \in Good => k \in Good
  PROVE  \A k \in 0..n : k \in Good
<1> DEFINE T == {k \in Nat : k <= n => k \in Good}
<1>1. 0 \in T
  OBVIOUS
<1>2. ASSUME NEW k \in Nat, k \in T PROVE k + 1 \in T
  <2> SUFFICES ASSUME k + 1 <= n PROVE k + 1 \in Good
    OBVIOUS
  <2>1. k + 1 \in 1..n /\ (k + 1) - 1 = k /\ k <= n
    OBVIOUS
  <2>2. k \in Good
    BY <1>2, <2>1
  <2> QED
    BY <2>1, <2>2
<1> HIDE DEF T
<1>3. \A k \in Nat : k \in T
  BY <1>1, <1>2, NatInduct
<1> QED
  BY <1>3 DEF T

Grows(m, T, start, grow) ==
  /\ m \in Nat /\ start \in T[0]
  /\ \A k \in 1..m : \A s \in T[k - 1] : grow[k][s] \in T[k]

\* A function of 0..n exists that goes from each set of a family to the next.
LEMMA Grown ==
  ASSUME NEW m, NEW T, NEW start, NEW grow, Grows(m, T, start, grow)
  PROVE  \E f : /\ f = [k \in 0..m |-> IF k = 0 THEN start ELSE grow[k][f[k - 1]]]
                /\ \A k \in 0..m : f[k] \in T[k]
<1> DEFINE D == UNION {T[k] : k \in 0..m}
           next == [k \in 1..m |-> [s \in D |-> IF s \in T[k - 1] THEN grow[k][s] ELSE s]]
<1> USE DEF Grows
<1>0. \A k \in 1..m : k \in 0..m /\ k - 1 \in 0..m /\ k # 0
  OBVIOUS
<1>z. 0 \in 0..m /\ \A k \in 0..m : k # 0 => k \in 1..m
  OBVIOUS
<1>1. start \in D /\ next \in [1..m -> [D -> D]]
  <2>1. start \in D
    BY <1>z
  <2>2. ASSUME NEW k \in 1..m, NEW s \in D PROVE (IF s \in T[k - 1] THEN grow[k][s] ELSE s) \in D
    BY <1>0
  <2> HIDE DEF D
  <2> QED
    BY <2>1, <2>2
<1>2. IsStaged(m, D, start, next)
  BY <1>1 DEF IsStaged
<1>e. \E f \in [0..m -> D] : f[0] = start /\ \A k \in 1..m : f[k] = next[k][f[k - 1]]
  <2>1. \A d, g : IsStaged(m, d, start, g) =>
          \E f \in [0..m -> d] : f[0] = start /\ \A k \in 1..m : f[k] = g[k][f[k - 1]]
    BY StagedFunction
  <2> HIDE DEF D, next
  <2> QED
    BY <1>2, <2>1
<1>3. PICK f \in [0..m -> D] : f[0] = start /\ \A k \in 1..m : f[k] = next[k][f[k - 1]]
  BY <1>e
<1> DEFINE Good == {k \in 0..m : f[k] \in T[k]}
<1>4. \A k \in 0..m : k \in Good
  <2>1. 0 \in Good
    BY <1>3, <1>z
  <2>2. ASSUME NEW k \in 1..m, k - 1 \in Good PROVE k \in Good
    <3>1. f[k - 1] \in T[k - 1] /\ f[k - 1] \in D
      BY <1>0, <2>2
    <3> HIDE DEF D
    <3>2. f[k] = grow[k][f[k - 1]]
      BY <1>3, <3>1
    <3> QED
      BY <1>0, <3>1, <3>2
  <2> HIDE DEF Good
  <2> QED
    BY <2>1, <2>2, CountUp
<1>5. ASSUME NEW k \in 0..m PROVE f[k] = IF k = 0 THEN start ELSE grow[k][f[k - 1]]
  <2>1. CASE k = 0
    BY <1>3, <2>1
  <2>2. CASE k # 0
    <3>1. k \in 1..m /\ k - 1 \in 0..m
      BY <1>z, <1>0, <2>2
    <3>2. f[k - 1] \in T[k - 1] /\ f[k - 1] \in D
      BY <1>4, <3>1
    <3> HIDE DEF D, Good
    <3> QED
      BY <1>3, <2>2, <3>1, <3>2
  <2> QED
    BY <2>1, <2>2
<1>6. f = [k \in 0..m |-> IF k = 0 THEN start ELSE grow[k][f[k - 1]]]
  BY <1>5
<1> QED
  BY <1>4, <1>6

\* A list becomes longer at its end or at its beginning.
IsList(m, s) == m \in Nat /\ s \in [1..m -> Vec]

LEMMA AppendedList ==
  ASSUME NEW m, NEW s, IsList(m, s), NEW x \in Vec
  PROVE  /\ IsList(m + 1, Append(s, x)) /\ Append(s, x)[m + 1] = x
         /\ \A j \in 1..m : Append(s, x)[j] = s[j]
<1>1. s \in Seq(Vec) /\ Len(s) = m /\ m \in Nat
  BY DEF IsList
<1>2. /\ Append(s, x) \in Seq(Vec) /\ Len(Append(s, x)) = m + 1 /\ Append(s, x)[m + 1] = x
      /\ \A j \in 1..m : Append(s, x)[j] = s[j]
  BY <1>1
<1>3. m + 1 \in Nat /\ \A q \in Seq(Vec) : Len(q) = m + 1 => q \in [1..(m + 1) -> Vec]
  BY <1>1
<1> QED
  BY <1>2, <1>3 DEF IsList

LEMMA PrependedList ==
  ASSUME NEW m, NEW s, IsList(m, s), NEW x \in Vec
  PROVE  /\ IsList(m + 1, <<x>> \o s) /\ (<<x>> \o s)[1] = x
         /\ \A j \in 1..m : (<<x>> \o s)[j + 1] = s[j]
<1>1. s \in Seq(Vec) /\ Len(s) = m /\ m \in Nat
  BY DEF IsList
<1>2. <<x>> \in Seq(Vec) /\ Len(<<x>>) = 1 /\ <<x>>[1] = x
  OBVIOUS
<1>3. <<x>> \o s \in Seq(Vec) /\ Len(<<x>> \o s) = m + 1
  BY <1>1, <1>2
<1>4. (<<x>> \o s)[1] = x /\ \A j \in 1..m : (<<x>> \o s)[j + 1] = s[j]
  BY <1>1, <1>2
<1>5. m + 1 \in Nat /\ \A q \in Seq(Vec) : Len(q) = m + 1 => q \in [1..(m + 1) -> Vec]
  BY <1>1
<1> QED
  BY <1>3, <1>4, <1>5 DEF IsList

\* What the two solvers give a step.
SolvesW(a, jac, h) ==
  \A b \in Vec : /\ PlanSolve(Sweeps!W(jac, h), b) \in Vec
                 /\ Sweeps!Apply(a, PlanSolve(Sweeps!W(jac, h), b)) = b
SolvesTransposedW(a, jac, h) ==
  \A b \in Vec : /\ PlanSolveTransposed(Sweeps!W(jac, h), b) \in Vec
                 /\ Sweeps!Apply(Sweeps!Transposed(a), PlanSolveTransposed(Sweeps!W(jac, h), b)) = b

\* Lists of stages of which each is the one before and one more vector, in front
\* (b = 1) or behind (b = 0), are parts of the last.
LEMMA PartsOfLast ==
  ASSUME NEW g, \A n \in 0..Stages : g[n] \in [1..n -> Vec], NEW b \in {0, 1},
         \A n \in 1..Stages : \A j \in 1..(n - 1) : g[n][j + b] = g[n - 1][j]
  PROVE  \A m \in 0..Stages : \A j \in 1..m : g[Stages][b * (Stages - m) + j] = g[m][j]
<1> SUFFICES ASSUME NEW m \in 0..Stages, NEW j \in 1..m PROVE g[Stages][b * (Stages - m) + j] = g[m][j]
  OBVIOUS
<1> DEFINE Good == {n \in 0..Stages : n >= m => g[n][b * (n - m) + j] = g[m][j]}
<1>1. Stages \in Nat
  BY TableauFacts
<1>2. 0 \in Good
  <2>1. 0 \in 0..Stages /\ ~(0 >= m)
    BY <1>1
  <2> QED
    BY <2>1
<1>3. ASSUME NEW n \in 1..Stages, n - 1 \in Good PROVE n \in Good
  <2>1. n \in 0..Stages /\ n - 1 \in 0..Stages /\ n \in Int /\ m \in Int /\ j \in Int
    BY <1>1
  <2>2. CASE n < m
    BY <2>1, <2>2
  <2>3. CASE n = m
    <3>1. b * (n - m) + j = j
      BY <2>1, <2>3
    <3> QED
      BY <2>1, <2>3, <3>1
  <2>4. CASE n > m
    <3>1. g[n - 1][b * ((n - 1) - m) + j] = g[m][j]
      BY <1>3, <2>1, <2>4
    <3>2. b * ((n - 1) - m) + j \in 1..(n - 1)
      BY <2>1, <2>4
    <3>3. (b * ((n - 1) - m) + j) + b = b * (n - m) + j
      BY <2>1
    <3>4. g[n][(b * ((n - 1) - m) + j) + b] = g[n - 1][b * ((n - 1) - m) + j]
      BY <3>2
    <3> QED
      BY <2>1, <3>1, <3>3, <3>4
  <2> QED
    BY <2>1, <2>2, <2>3, <2>4
<1> HIDE DEF Good
<1>4. \A n \in 0..Stages : n \in Good
  BY <1>1, <1>2, <1>3, CountUp
<1>5. Stages \in Good /\ Stages >= m
  BY <1>1, <1>4
<1> QED
  BY <1>5 DEF Good

\* The list of no vectors.
LEMMA NoVectors == <<>> \in [1..0 -> Vec]
<1>1. \A k : k \notin 1..0
  OBVIOUS
<1> QED
  BY <1>1

\* The stages of the tangent-linear sweep satisfy their equations.
LEMMA TlmStagesHold ==
  ASSUME NEW a, NEW jac, NEW h, IsStep(a, jac, h), SolvesW(a, jac, h), NEW dC \in Vec
  PROVE  AreTlmStages(a, jac, h, dC, Sweeps!TlmStages(jac, h, dC))
<1> DEFINE next(n, s) == TlmNext(jac, h, dC, n, s)
           rhs(n, s) == Sweeps!Plus(Sweeps!Apply(jac, TlmArgument(s, dC, n)), TlmCoupling(s, h, n))
           later == [n \in 1..Stages |-> [s \in Lists[n - 1] |-> Append(s, next(n, s))]]
           g == CHOOSE f : f = TlmUnrolled(jac, h, dC, f)
           dK == g[Stages]
<1>1. Stages \in Nat /\ jac \in Mat /\ Stage = 1..Stages
  BY TableauFacts DEF IsStep, Stage
<1>l. /\ \A n \in 0..Stages : Lists[n] = [1..n -> Vec]
      /\ \A n \in 1..Stages : n \in 0..Stages /\ n - 1 \in 0..Stages /\ n # 0 /\ n \in Nat \ {0}
      /\ 0 \in 0..Stages /\ Stages \in 0..Stages
  BY <1>1 DEF Lists
<1>2. ASSUME NEW n \in 1..Stages, NEW s \in [1..(n - 1) -> Vec]
      PROVE  /\ rhs(n, s) \in Vec /\ next(n, s) \in Vec /\ Sweeps!Apply(a, next(n, s)) = rhs(n, s)
             /\ Append(s, next(n, s)) \in [1..n -> Vec] /\ Append(s, next(n, s))[n] = next(n, s)
             /\ \A j \in 1..(n - 1) : Append(s, next(n, s))[j] = s[j]
  <2>1. TlmArgument(s, dC, n) \in Vec /\ TlmCoupling(s, h, n) \in Vec
    <3>1. n \in Stage /\ \A j \in 1..(n - 1) : s[j] \in Vec
      BY <1>1
    <3> QED
      BY <3>1, TlmVectors
  <2>2. rhs(n, s) \in Vec
    BY <1>1, <2>1, ApplyIsVector, VectorsClosed
  <2>3. next(n, s) = PlanSolve(Sweeps!W(jac, h), rhs(n, s))
    BY DEF TlmNext
  <2> HIDE DEF next, rhs
  <2>4. next(n, s) \in Vec /\ Sweeps!Apply(a, next(n, s)) = rhs(n, s)
    BY <2>2, <2>3 DEF SolvesW
  <2> DEFINE x == next(n, s)
  <2>5. IsList(n - 1, s) /\ (n - 1) + 1 = n /\ x \in Vec
    BY <2>4 DEF IsList
  <2> HIDE DEF x
  <2>6. /\ Append(s, x) \in [1..n -> Vec] /\ Append(s, x)[n] = x
        /\ \A j \in 1..(n - 1) : Append(s, x)[j] = s[j]
    <3>1. /\ IsList((n - 1) + 1, Append(s, x)) /\ Append(s, x)[(n - 1) + 1] = x
          /\ \A j \in 1..(n - 1) : Append(s, x)[j] = s[j]
      BY <2>5, AppendedList
    <3> QED
      BY <2>5, <3>1 DEF IsList
  <2> QED
    BY <2>2, <2>4, <2>6 DEF x
<1> HIDE DEF next, rhs
<1>3. g = TlmUnrolled(jac, h, dC, g)
  <2>1. <<>> \in Lists[0]
    BY <1>l, NoVectors
  <2>2. ASSUME NEW n \in 1..Stages, NEW s \in Lists[n - 1] PROVE later[n][s] \in Lists[n]
    <3>1. Lists[n - 1] = [1..(n - 1) -> Vec] /\ Lists[n] = [1..n -> Vec]
      BY <1>l
    <3>2. s \in [1..(n - 1) -> Vec]
      BY <3>1
    <3>3. Append(s, next(n, s)) \in [1..n -> Vec]
      BY <1>2, <3>2
    <3>4. later[n][s] = Append(s, next(n, s))
      OBVIOUS
    <3> QED
      BY <3>1, <3>3, <3>4
  <2>e. \E f : /\ f = [n \in 0..Stages |-> IF n = 0 THEN <<>> ELSE later[n][f[n - 1]]]
               /\ \A n \in 0..Stages : f[n] \in Lists[n]
    <3> HIDE DEF later
    <3>1. Grows(Stages, Lists, <<>>, later)
      BY <1>1, <2>1, <2>2 DEF Grows
    <3> QED
      BY <3>1, Grown
  <2>3. PICK f : /\ f = [n \in 0..Stages |-> IF n = 0 THEN <<>> ELSE later[n][f[n - 1]]]
                 /\ \A n \in 0..Stages : f[n] \in Lists[n]
    BY <2>e
  <2>4. \A n \in 0..Stages : n # 0 => later[n][f[n - 1]] = Append(f[n - 1], next(n, f[n - 1]))
    <3> TAKE n \in 0..Stages
    <3> HAVE n # 0
    <3>0. n \in 1..Stages /\ n - 1 \in 0..Stages
      BY <1>1
    <3>1. f[n - 1] \in Lists[n - 1]
      BY <3>0, <2>3
    <3> QED
      BY <3>0, <3>1
  <2> HIDE DEF later
  <2>5. f = [n \in 0..Stages |-> IF n = 0 THEN <<>> ELSE Append(f[n - 1], next(n, f[n - 1]))]
    BY <2>3, <2>4
  <2>6. f = TlmUnrolled(jac, h, dC, f)
    BY <2>5 DEF TlmUnrolled, next
  <2> QED
    BY <2>6
<1>4. Sweeps!TlmStages(jac, h, dC) = dK
  BY DEF Sweeps!TlmStages, TlmUnrolled, TlmNext, TlmArgument, TlmCoupling
<1> HIDE DEF g
<1>5. /\ g[0] = <<>>
      /\ \A n \in 1..Stages : g[n] = Append(g[n - 1], next(n, g[n - 1]))
  BY <1>3, <1>l DEF TlmUnrolled, next
<1>6. \A n \in 0..Stages : g[n] \in [1..n -> Vec]
  <2> DEFINE Good == {n \in 0..Stages : g[n] \in [1..n -> Vec]}
  <2>1. 0 \in Good
    BY <1>5, <1>l, NoVectors
  <2>2. ASSUME NEW n \in 1..Stages, n - 1 \in Good PROVE n \in Good
    <3>1. g[n - 1] \in [1..(n - 1) -> Vec]
      BY <2>2
    <3>2. g[n] = Append(g[n - 1], next(n, g[n - 1]))
      BY <1>5
    <3>3. g[n] \in [1..n -> Vec]
      BY <1>2, <3>1, <3>2
    <3> QED
      BY <1>l, <3>3
  <2> HIDE DEF Good
  <2>3. \A n \in 0..Stages : n \in Good
    BY <1>1, <2>1, <2>2, CountUp
  <2> QED
    BY <2>3 DEF Good
<1>7. \A n \in 1..Stages : \A j \in 1..(n - 1) : g[n][j + 0] = g[n - 1][j]
  <2> TAKE n \in 1..Stages
  <2> TAKE j \in 1..(n - 1)
  <2>1. g[n - 1] \in [1..(n - 1) -> Vec] /\ j + 0 = j
    BY <1>6, <1>l
  <2> QED
    BY <1>2, <1>5, <2>1
<1>8. \A m \in 0..Stages : \A j \in 1..m : dK[j] = g[m][j]
  <2>1. \A m \in 0..Stages : \A j \in 1..m : g[Stages][0 * (Stages - m) + j] = g[m][j]
    BY <1>6, <1>7, PartsOfLast
  <2>2. \A m \in 0..Stages : \A j \in 1..m : 0 * (Stages - m) + j = j
    BY <1>1
  <2> QED
    BY <2>1, <2>2
<1>9. dK \in [Stage -> Vec]
  BY <1>1, <1>6, <1>l
<1> HIDE DEF dK
<1>10. ASSUME NEW i \in Stage
       PROVE  Sweeps!Apply(a, dK[i])
                = Sweeps!Plus(Sweeps!Apply(jac, TlmArgument(dK, dC, i)), TlmCoupling(dK, h, i))
  <2> DEFINE s == g[i - 1]
  <2>1. i \in 1..Stages /\ i \in 0..Stages /\ i - 1 \in 0..Stages /\ i \in 1..i /\ s \in [1..(i - 1) -> Vec]
    BY <1>1, <1>6, <1>l
  <2>2. dK[i] = next(i, s)
    <3>1. dK[i] = g[i][i]
      BY <1>8, <2>1
    <3>2. g[i] = Append(s, next(i, s))
      BY <1>5, <2>1
    <3> HIDE DEF s
    <3> QED
      BY <1>2, <2>1, <3>1, <3>2
  <2>3. \A j \in 1..(i - 1) : s[j] = dK[j]
    BY <1>8, <2>1
  <2> HIDE DEF s
  <2>4. Sweeps!Apply(a, dK[i]) = rhs(i, s)
    BY <1>2, <2>1, <2>2
  <2>5. TlmArgument(s, dC, i) = TlmArgument(dK, dC, i)
    <3>1. [j \in 1..(i - 1) |-> Sweeps!Times(A[<<i, j>>], s[j])]
            = [j \in 1..(i - 1) |-> Sweeps!Times(A[<<i, j>>], dK[j])]
      BY <2>3
    <3> QED
      BY <3>1 DEF TlmArgument
  <2>6. TlmCoupling(s, h, i) = TlmCoupling(dK, h, i)
    <3>1. [j \in 1..(i - 1) |-> Sweeps!Times(C[<<i, j>>] * Sweeps!Over(h), s[j])]
            = [j \in 1..(i - 1) |-> Sweeps!Times(C[<<i, j>>] * Sweeps!Over(h), dK[j])]
      BY <2>3
    <3> QED
      BY <3>1 DEF TlmCoupling
  <2> QED
    BY <2>4, <2>5, <2>6 DEF rhs
<1> QED
  BY <1>4, <1>9, <1>10 DEF AreTlmStages

\* The stages of the adjoint sweep satisfy theirs.
LEMMA AdjStagesHold ==
  ASSUME NEW a, NEW jac, NEW h, IsStep(a, jac, h), SolvesTransposedW(a, jac, h), NEW lam \in Vec
  PROVE  AreAdjStages(a, jac, h, lam, Sweeps!AdjStages(jac, h, lam))
<1> DEFINE next(n, s) == AdjNext(jac, h, lam, n, s)
           rhs(n, s) == Sweeps!Plus(Sweeps!Times(M[Stages + 1 - n], lam),
                                    Sweeps!Pulled(jac, h, s, Stages + 1 - n))
           more == [n \in 1..Stages |-> [s \in Lists[n - 1] |-> <<next(n, s)>> \o s]]
           g == CHOOSE f : f = AdjUnrolled(jac, h, lam, f)
           u == g[Stages]
<1>1. Stages \in Nat /\ jac \in Mat /\ Stage = 1..Stages
  BY TableauFacts DEF IsStep, Stage
<1>l. /\ \A n \in 0..Stages : Lists[n] = [1..n -> Vec]
      /\ \A n \in 1..Stages : n \in 0..Stages /\ n - 1 \in 0..Stages /\ n # 0 /\ n \in Nat \ {0}
      /\ 0 \in 0..Stages /\ Stages \in 0..Stages
  BY <1>1 DEF Lists
<1>p. ASSUME NEW i \in Stage, NEW s, NEW v, \A j \in (i + 1)..Stages : s[j - i] = v[j]
      PROVE  Sweeps!Pulled(jac, h, s, i) = AdjPulled(jac, h, v, i)
  <2>1. [j \in (i + 1)..Stages |->
           Sweeps!Plus(Sweeps!Times(A[<<j, i>>], Sweeps!Apply(Sweeps!Transposed(jac), s[j - i])),
                       Sweeps!Times(C[<<j, i>>] * Sweeps!Over(h), s[j - i]))]
          = [j \in (i + 1)..Stages |-> Passed(jac, h, v, j, i)]
    BY <1>p DEF Passed
  <2> QED
    BY <2>1 DEF Sweeps!Pulled, AdjPulled
<1>2. ASSUME NEW n \in 1..Stages, NEW s \in [1..(n - 1) -> Vec]
      PROVE  /\ rhs(n, s) \in Vec /\ next(n, s) \in Vec
             /\ Sweeps!Apply(Sweeps!Transposed(a), next(n, s)) = rhs(n, s)
             /\ <<next(n, s)>> \o s \in [1..n -> Vec] /\ (<<next(n, s)>> \o s)[1] = next(n, s)
             /\ \A j \in 1..(n - 1) : (<<next(n, s)>> \o s)[j + 1] = s[j]
  <2> DEFINE i == Stages + 1 - n
             v == [j \in (i + 1)..Stages |-> s[j - i]]
  <2>1. i \in Stage /\ \A j \in (i + 1)..Stages : j - i \in 1..(n - 1)
    BY <1>1
  <2>2. \A j \in (i + 1)..Stages : v[j] = s[j - i] /\ v[j] \in Vec
    BY <2>1
  <2>3. Sweeps!Times(M[i], lam) \in Vec /\ Sweeps!Pulled(jac, h, s, i) \in Vec
    <3> HIDE DEF i, v
    <3>1. Sweeps!Pulled(jac, h, s, i) = AdjPulled(jac, h, v, i)
      BY <1>p, <2>1, <2>2
    <3>2. Sweeps!Times(M[i], lam) \in Vec /\ AdjPulled(jac, h, v, i) \in Vec
      BY <2>1, <2>2, AdjVectors
    <3> QED
      BY <3>1, <3>2
  <2>4. rhs(n, s) \in Vec
    BY <2>3, VectorsClosed
  <2>5. next(n, s) = PlanSolveTransposed(Sweeps!W(jac, h), rhs(n, s))
    BY DEF AdjNext
  <2> HIDE DEF next, rhs, i, v
  <2>6. next(n, s) \in Vec /\ Sweeps!Apply(Sweeps!Transposed(a), next(n, s)) = rhs(n, s)
    BY <2>4, <2>5 DEF SolvesTransposedW
  <2> DEFINE x == next(n, s)
  <2>7. IsList(n - 1, s) /\ (n - 1) + 1 = n /\ x \in Vec
    BY <2>6 DEF IsList
  <2> HIDE DEF x
  <2>8. /\ <<x>> \o s \in [1..n -> Vec] /\ (<<x>> \o s)[1] = x
        /\ \A j \in 1..(n - 1) : (<<x>> \o s)[j + 1] = s[j]
    <3>1. /\ IsList((n - 1) + 1, <<x>> \o s) /\ (<<x>> \o s)[1] = x
          /\ \A j \in 1..(n - 1) : (<<x>> \o s)[j + 1] = s[j]
      BY <2>7, PrependedList
    <3> QED
      BY <2>7, <3>1 DEF IsList
  <2> QED
    BY <2>4, <2>6, <2>8 DEF x
<1> HIDE DEF next, rhs
<1>3. g = AdjUnrolled(jac, h, lam, g)
  <2>1. <<>> \in Lists[0]
    BY <1>l, NoVectors
  <2>2. ASSUME NEW n \in 1..Stages, NEW s \in Lists[n - 1] PROVE more[n][s] \in Lists[n]
    <3>1. Lists[n - 1] = [1..(n - 1) -> Vec] /\ Lists[n] = [1..n -> Vec]
      BY <1>l
    <3>2. s \in [1..(n - 1) -> Vec]
      BY <3>1
    <3>3. <<next(n, s)>> \o s \in [1..n -> Vec]
      BY <1>2, <3>2
    <3>4. more[n][s] = <<next(n, s)>> \o s
      OBVIOUS
    <3> QED
      BY <3>1, <3>3, <3>4
  <2>e. \E f : /\ f = [n \in 0..Stages |-> IF n = 0 THEN <<>> ELSE more[n][f[n - 1]]]
               /\ \A n \in 0..Stages : f[n] \in Lists[n]
    <3> HIDE DEF more
    <3>1. Grows(Stages, Lists, <<>>, more)
      BY <1>1, <2>1, <2>2 DEF Grows
    <3> QED
      BY <3>1, Grown
  <2>3. PICK f : /\ f = [n \in 0..Stages |-> IF n = 0 THEN <<>> ELSE more[n][f[n - 1]]]
                 /\ \A n \in 0..Stages : f[n] \in Lists[n]
    BY <2>e
  <2>4. \A n \in 0..Stages : n # 0 => more[n][f[n - 1]] = <<next(n, f[n - 1])>> \o f[n - 1]
    <3> TAKE n \in 0..Stages
    <3> HAVE n # 0
    <3>0. n \in 1..Stages /\ n - 1 \in 0..Stages
      BY <1>1
    <3>1. f[n - 1] \in Lists[n - 1]
      BY <3>0, <2>3
    <3> QED
      BY <3>0, <3>1
  <2> HIDE DEF more
  <2>5. f = [n \in 0..Stages |-> IF n = 0 THEN <<>> ELSE <<next(n, f[n - 1])>> \o f[n - 1]]
    BY <2>3, <2>4
  <2>6. f = AdjUnrolled(jac, h, lam, f)
    BY <2>5 DEF AdjUnrolled, next
  <2> QED
    BY <2>6
<1>4. Sweeps!AdjStages(jac, h, lam) = u
  BY DEF Sweeps!AdjStages, AdjUnrolled, AdjNext
<1> HIDE DEF g
<1>5. /\ g[0] = <<>>
      /\ \A n \in 1..Stages : g[n] = <<next(n, g[n - 1])>> \o g[n - 1]
  BY <1>3, <1>l DEF AdjUnrolled, next
<1>6. \A n \in 0..Stages : g[n] \in [1..n -> Vec]
  <2> DEFINE Good == {n \in 0..Stages : g[n] \in [1..n -> Vec]}
  <2>1. 0 \in Good
    BY <1>5, <1>l, NoVectors
  <2>2. ASSUME NEW n \in 1..Stages, n - 1 \in Good PROVE n \in Good
    <3>1. g[n - 1] \in [1..(n - 1) -> Vec]
      BY <2>2
    <3>2. g[n] = <<next(n, g[n - 1])>> \o g[n - 1]
      BY <1>5
    <3>3. g[n] \in [1..n -> Vec]
      BY <1>2, <3>1, <3>2
    <3> QED
      BY <1>l, <3>3
  <2> HIDE DEF Good
  <2>3. \A n \in 0..Stages : n \in Good
    BY <1>1, <2>1, <2>2, CountUp
  <2> QED
    BY <2>3 DEF Good
<1>7. \A n \in 1..Stages : \A j \in 1..(n - 1) : g[n][j + 1] = g[n - 1][j]
  <2> TAKE n \in 1..Stages
  <2> TAKE j \in 1..(n - 1)
  <2>1. g[n - 1] \in [1..(n - 1) -> Vec]
    BY <1>6, <1>l
  <2> QED
    BY <1>2, <1>5, <2>1
<1>8. \A m \in 0..Stages : \A j \in 1..m : u[(Stages - m) + j] = g[m][j]
  <2>1. \A m \in 0..Stages : \A j \in 1..m : g[Stages][1 * (Stages - m) + j] = g[m][j]
    BY <1>6, <1>7, PartsOfLast
  <2>2. \A m \in 0..Stages : 1 * (Stages - m) = Stages - m
    BY <1>1
  <2> QED
    BY <2>1, <2>2
<1>9. u \in [Stage -> Vec]
  BY <1>1, <1>6, <1>l
<1> HIDE DEF u
<1>10. ASSUME NEW i \in Stage
       PROVE  Sweeps!Apply(Sweeps!Transposed(a), u[i])
                = Sweeps!Plus(Sweeps!Times(M[i], lam), AdjPulled(jac, h, u, i))
  <2> DEFINE n == Stages + 1 - i
             s == g[n - 1]
  <2>1. /\ n \in 1..Stages /\ n \in 0..Stages /\ n - 1 \in 0..Stages /\ 1 \in 1..n
        /\ (Stages - n) + 1 = i /\ Stages + 1 - n = i
        /\ \A j \in (i + 1)..Stages : j - i \in 1..(n - 1) /\ (Stages - (n - 1)) + (j - i) = j
    BY <1>1
  <2> HIDE DEF n
  <2>s. s \in [1..(n - 1) -> Vec]
    BY <1>6, <2>1
  <2>2. u[i] = next(n, s)
    <3>1. u[(Stages - n) + 1] = g[n][1]
      BY <1>8, <2>1
    <3>2. g[n] = <<next(n, s)>> \o s
      BY <1>5, <2>1
    <3> HIDE DEF s
    <3>3. (<<next(n, s)>> \o s)[1] = next(n, s)
      BY <1>2, <2>1, <2>s
    <3> QED
      BY <2>1, <3>1, <3>2, <3>3
  <2>3. \A j \in (i + 1)..Stages : s[j - i] = u[j]
    <3> TAKE j \in (i + 1)..Stages
    <3>1. u[(Stages - (n - 1)) + (j - i)] = g[n - 1][j - i]
      BY <1>8, <2>1
    <3> QED
      BY <2>1, <3>1
  <2> HIDE DEF s
  <2>4. Sweeps!Apply(Sweeps!Transposed(a), u[i]) = rhs(n, s)
    BY <1>2, <2>1, <2>2, <2>s
  <2>5. Sweeps!Pulled(jac, h, s, i) = AdjPulled(jac, h, u, i)
    BY <1>p, <2>3
  <2> QED
    BY <2>1, <2>4, <2>5 DEF rhs
<1> QED
  BY <1>4, <1>9, <1>10 DEF AreAdjStages

------------------------------------------------------------------------------
\* The step of a factorized W.

\* The reciprocal of a product exists.
LEMMA OverProduct ==
  ASSUME NEW x \in Field \ {0}, NEW y \in Field \ {0}
  PROVE  Over(x * y) \in Field
<1> DEFINE p == Over(x)
           q == Over(y)
           r == (p * q) % P
<1>1. x \in Int /\ y \in Int /\ p \in Int /\ q \in Int /\ (x * p) % P = 1 /\ (y * q) % P = 1
  BY OverInverts, FieldMembers
<1> HIDE DEF p, q
<1>2. 1 \in Int /\ 1 % P = 1 /\ 1 * 1 = 1
  BY FieldMembers
<1>3. x * p \in Int /\ y * q \in Int /\ x * y \in Int /\ p * q \in Int
  BY <1>1, IntegersClosed
<1>4. Same((x * p) * (y * q), 1 * 1)
  <2>1. Same(x * p, 1) /\ Same(y * q, 1)
    BY <1>1, <1>2 DEF Same
  <2> QED
    BY <1>2, <1>3, <2>1, SameTimes
<1>5. (x * p) * (y * q) = (x * y) * (p * q)
  BY <1>1
<1>6. r \in Field /\ r \in Int /\ Same(r, p * q)
  BY <1>3, FieldMembers
<1> HIDE DEF r
<1>7. Same((x * y) * r, (x * y) * (p * q))
  BY <1>3, <1>6, SameMultiple
<1>8. ((x * y) * r) % P = 1
  BY <1>2, <1>4, <1>5, <1>7 DEF Same
<1>9. \E s \in Field : ((x * y) * s) % P = 1
  BY <1>6, <1>8
<1> QED
  BY <1>9 DEF Over

\* The Jacobian of every step size is a matrix, and its W the factorized one.
LEMMA JacobianOfStep ==
  ASSUME \A i, j \in Index : w[<<i, j>>] \in Field, NEW h \in Field \ {0}
  PROVE  /\ Jacobian(h) \in Mat
         /\ Sweeps!W(Jacobian(h), h) = [ij \in Pairs |-> w[ij]]
<1> DEFINE o == Over(Gamma * h)
           D(ij) == IF ij[1] = ij[2] THEN o ELSE 0
<1>1. Gamma \in Field \ {0}
  BY TableauAssumption
<1>2. o \in Int /\ 0 \in Int
  BY <1>1, OverProduct, FieldMembers
<1>3. Sweeps!Over(Gamma * h) = o
  BY DEF Sweeps!Over, Over, Sweeps!Field, Field
<1>4. \A ij \in Pairs : w[ij] \in Field /\ w[ij] \in Int
  <2> TAKE ij \in Pairs
  <2>1. ij = <<ij[1], ij[2]>> /\ ij[1] \in Index /\ ij[2] \in Index
    BY PairParts
  <2>2. w[<<ij[1], ij[2]>>] \in Field
    BY <2>1
  <2> QED
    BY <2>1, <2>2, FieldMembers
<1>5. Jacobian(h) = [ij \in Pairs |-> (D(ij) - w[ij]) % P]
  BY DEF Jacobian, Pairs
<1>6. Sweeps!W(Jacobian(h), h) = [ij \in Pairs |-> (D(ij) - Jacobian(h)[ij]) % P]
  BY <1>3 DEF Sweeps!W, Pairs
<1> HIDE DEF o
<1>7. ASSUME NEW ij \in Pairs
      PROVE  (D(ij) - w[ij]) % P \in Field /\ (D(ij) - Jacobian(h)[ij]) % P = w[ij]
  <2> DEFINE d == D(ij)
             v == w[ij]
             e == (d - v) % P
  <2>1. d \in Int /\ v \in Int /\ v % P = v
    BY <1>2, <1>4, FieldMembers
  <2>2. Jacobian(h)[ij] = e
    BY <1>5
  <2> HIDE DEF d, v
  <2>3. d - v \in Int
    BY <2>1
  <2>4. e \in Field /\ e \in Int /\ Same(e, d - v)
    BY <2>3, FieldMembers
  <2>5. Same(d - e, d - (d - v))
    <3>1. Same(d, d)
      BY DEF Same
    <3> HIDE DEF e
    <3> QED
      BY <2>1, <2>3, <2>4, <3>1, SamePlus
  <2>6. d - (d - v) = v
    BY <2>1
  <2>7. (d - e) % P = v
    BY <2>1, <2>5, <2>6 DEF Same
  <2> QED
    BY <2>2, <2>4, <2>7 DEF d, v
<1> HIDE DEF D
<1> QED
  BY <1>5, <1>6, <1>7 DEF Mat

\* What the planned substitutions find.
LEMMA PlannedSolutions ==
  ASSUME FactorEquations, NEW jac, NEW h
  PROVE  SolvesW([ij \in Pairs |-> w[ij]], jac, h) /\ SolvesTransposedW([ij \in Pairs |-> w[ij]], jac, h)
<1> DEFINE a == [ij \in Pairs |-> w[ij]]
<1>1. ASSUME NEW b \in Vec
      PROVE  /\ PlanSolve(Sweeps!W(jac, h), b) \in Vec
             /\ Sweeps!Apply(a, PlanSolve(Sweeps!W(jac, h), b)) = b
  <2> DEFINE y == CHOOSE f : f = Forward(b, f)
             x == CHOOSE f : f = Backward(y, f)
  <2>1. Solution(b) = x
    BY DEF Solution, Forward, Backward, LeftOf, RightOf
  <2> HIDE DEF x, y
  <2>2. \A i \in Index : b[i] \in Int
    BY FieldMembers DEF Vec
  <2>3. y \in [Index -> Field]
    BY <2>2, ForwardIsDefined DEF y
  <2>4. \A i \in Index : y[i] \in Int
    BY <2>3, FieldMembers
  <2>5. x \in [Index -> Field]
    BY <2>4, BackwardIsDefined DEF x
  <2>6. PlanSolve(Sweeps!W(jac, h), b) = x
    BY <2>1, <2>5 DEF PlanSolve
  <2>7. \A i \in Index : Total([j \in Index |-> w[<<i, j>>] * x[j]], Index) = b[i]
    BY <2>1, SubstitutionSolves DEF Vec
  <2>8. \A i \in Index : [j \in Index |-> a[<<i, j>>] * x[j]] = [j \in Index |-> w[<<i, j>>] * x[j]]
    BY DEF Pairs
  <2>9. Sweeps!Apply(a, x) = [i \in Index |-> Total([j \in Index |-> a[<<i, j>>] * x[j]], Index)]
    BY VectorOperations
  <2> HIDE DEF a
  <2>10. Sweeps!Apply(a, x) = b
    BY <2>7, <2>8, <2>9 DEF Vec
  <2> QED
    BY <2>5, <2>6, <2>10 DEF Vec
<1>2. ASSUME NEW b \in Vec
      PROVE  /\ PlanSolveTransposed(Sweeps!W(jac, h), b) \in Vec
             /\ Sweeps!Apply(Sweeps!Transposed(a), PlanSolveTransposed(Sweeps!W(jac, h), b)) = b
  <2> DEFINE y == CHOOSE f : f = TransposedForward(b, f)
             x == CHOOSE f : f = TransposedBackward(y, f)
             c == Sweeps!Transposed(a)
  <2>1. TransposedSolution(b) = x
    BY DEF TransposedSolution, TransposedForward, TransposedBackward, Above, Below
  <2> HIDE DEF x, y
  <2>2. \A i \in Index : b[i] \in Int
    BY FieldMembers DEF Vec
  <2>3. y \in [Index -> Field]
    BY <2>2, TransposedForwardIsDefined DEF y
  <2>4. \A i \in Index : y[i] \in Int
    BY <2>3, FieldMembers
  <2>5. x \in [Index -> Field]
    BY <2>4, TransposedBackwardIsDefined DEF x
  <2>6. PlanSolveTransposed(Sweeps!W(jac, h), b) = x
    BY <2>1, <2>5 DEF PlanSolveTransposed
  <2>7. \A i \in Index : Total([j \in Index |-> w[<<j, i>>] * x[j]], Index) = b[i]
    BY <2>1, TransposedSubstitutionSolves DEF Vec
  <2>8. \A i, j \in Index : c[<<i, j>>] = w[<<j, i>>]
    BY VectorOperations DEF Pairs
  <2> HIDE DEF c
  <2>9. \A i \in Index : [j \in Index |-> c[<<i, j>>] * x[j]] = [j \in Index |-> w[<<j, i>>] * x[j]]
    BY <2>8
  <2>10. Sweeps!Apply(c, x) = [i \in Index |-> Total([j \in Index |-> c[<<i, j>>] * x[j]], Index)]
    BY VectorOperations
  <2>11. Sweeps!Apply(c, x) = b
    <3>1. \A i \in Index : Total([j \in Index |-> c[<<i, j>>] * x[j]], Index) = b[i]
      BY <2>7, <2>9
    <3> QED
      BY <2>10, <3>1 DEF Vec
  <2> QED
    BY <2>5, <2>6, <2>11 DEF Vec, c
<1> HIDE DEF a
<1> QED
  BY <1>1, <1>2 DEF SolvesW, SolvesTransposedW, a

------------------------------------------------------------------------------
\* Unit vectors.

\* A sum of which one term is not 0.
LEMMA OneTerm ==
  ASSUME NEW f, \A k \in Index : f[k] \in Int, NEW c \in Index, \A k \in Index : k # c => f[k] = 0
  PROVE  Total(f, Index) = f[c] % P
<1>1. Total(f, Index) = Total(f, {c})
  <2>1. {c} \in SUBSET Index /\ \A k \in Index \ {c} : Same(f[k], 0)
    BY DEF Same
  <2> QED
    BY <2>1, IndexFacts, TotalOver
<1>2. Total(f, {c}) = (f[c] + Total(f, {c} \ {c})) % P
  BY FS_Singleton, TotalSplit
<1>3. {c} \ {c} = {} /\ Total(f, {}) = 0 /\ f[c] + 0 = f[c]
  BY TotalEmpty
<1> QED
  BY <1>1, <1>2, <1>3

\* What a unit vector selects.
LEMMA UnitVectors ==
  ASSUME NEW c \in Index
  PROVE  /\ Unit(c) \in Vec
         /\ \A x \in Vec : Sweeps!Dot(Unit(c), x) = x[c]
         /\ \A a \in Mat : \A k \in Index : Sweeps!Apply(a, Unit(c))[k] = a[<<k, c>>]
<1>1. Unit(c) \in Vec
  BY FieldMembers DEF Unit, Vec
<1>2. ASSUME NEW x \in Vec PROVE Sweeps!Dot(Unit(c), x) = x[c]
  <2> DEFINE f == [k \in Index |-> Unit(c)[k] * x[k]]
  <2>1. \A k \in Index : x[k] \in Int /\ x[k] \in Field
    BY FieldMembers DEF Vec
  <2>2. /\ \A k \in Index : f[k] \in Int
        /\ \A k \in Index : k # c => f[k] = 0
        /\ f[c] = x[c]
    BY <2>1 DEF Unit
  <2>3. Sweeps!Dot(Unit(c), x) = Total(f, Index)
    BY VectorOperations
  <2> HIDE DEF f
  <2>4. Total(f, Index) = f[c] % P
    BY <2>2, OneTerm
  <2> QED
    BY <2>1, <2>2, <2>3, <2>4, FieldMembers
<1>3. ASSUME NEW a \in Mat, NEW k \in Index PROVE Sweeps!Apply(a, Unit(c))[k] = a[<<k, c>>]
  <2> DEFINE f == [l \in Index |-> a[<<k, l>>] * Unit(c)[l]]
  <2>1. \A l \in Index : a[<<k, l>>] \in Int /\ a[<<k, l>>] \in Field
    BY FieldMembers DEF Mat, Pairs
  <2>2. /\ \A l \in Index : f[l] \in Int
        /\ \A l \in Index : l # c => f[l] = 0
        /\ f[c] = a[<<k, c>>]
    BY <2>1 DEF Unit
  <2>3. Sweeps!Apply(a, Unit(c))[k] = Total(f, Index)
    BY VectorOperations
  <2> HIDE DEF f
  <2>4. Total(f, Index) = f[c] % P
    BY <2>2, OneTerm
  <2> QED
    BY <2>1, <2>2, <2>3, <2>4, FieldMembers
<1> QED
  BY <1>1, <1>2, <1>3

\* What was added to a vector.
LEMMA MinusPlus ==
  ASSUME NEW u \in Vec, NEW v \in Vec
  PROVE  Sweeps!Minus(Sweeps!Plus(u, v), u) = v
<1> DEFINE s == Sweeps!Plus(u, v)
<1>1. ASSUME NEW k \in Index PROVE (s[k] - u[k]) % P = v[k]
  <2>1. u[k] \in Int /\ v[k] \in Int /\ v[k] % P = v[k] /\ s[k] = (u[k] + v[k]) % P
    BY VectorOperations, FieldMembers DEF Vec
  <2>2. u[k] + v[k] \in Int /\ (u[k] + v[k]) - u[k] = v[k]
    BY <2>1
  <2>3. s[k] \in Int /\ Same(s[k], u[k] + v[k]) /\ Same(u[k], u[k])
    BY <2>1, <2>2, FieldMembers DEF Same
  <2> HIDE DEF s
  <2>4. Same(s[k] - u[k], (u[k] + v[k]) - u[k])
    BY <2>1, <2>2, <2>3, SamePlus
  <2> QED
    BY <2>1, <2>2, <2>4 DEF Same
<1>2. Sweeps!Minus(s, u) = [k \in Index |-> (s[k] - u[k]) % P]
  BY VectorOperations
<1> HIDE DEF s
<1>3. Sweeps!Minus(s, u) = v
  BY <1>1, <1>2 DEF Vec
<1> QED
  BY <1>3 DEF s

------------------------------------------------------------------------------
\* The increments of a step.

\* Both sweeps add combinations of their stages.
LEMMA Increments ==
  ASSUME NEW a, NEW jac, NEW h, IsStep(a, jac, h), SolvesW(a, jac, h), SolvesTransposedW(a, jac, h), NEW v \in Vec
  PROVE  /\ LET dK == Sweeps!TlmStages(jac, h, v)
                x  == Sweeps!Combine([i \in Stage |-> Sweeps!Times(M[i], dK[i])], Stage)
            IN  x \in Vec /\ Sweeps!Minus(Sweeps!TlmUpdate(jac, h, v), v) = x
         /\ LET u == Sweeps!AdjStages(jac, h, v)
                x == Sweeps!Combine(u, Stage)
            IN  x \in Vec /\ Sweeps!Minus(Sweeps!AdjUpdate(jac, h, v), v) = x
<1> DEFINE dK == Sweeps!TlmStages(jac, h, v)
           t == [i \in Stage |-> Sweeps!Times(M[i], dK[i])]
           u == Sweeps!AdjStages(jac, h, v)
<1>1. dK \in [Stage -> Vec]
  BY TlmStagesHold DEF AreTlmStages
<1>2. u \in [Stage -> Vec]
  BY AdjStagesHold DEF AreAdjStages
<1>3. Sweeps!TlmUpdate(jac, h, v) = Sweeps!Plus(v, Sweeps!Combine(t, Stage))
  BY DEF Sweeps!TlmUpdate, Sweeps!StageNumbers, Stage
<1>4. Sweeps!AdjUpdate(jac, h, v) = Sweeps!Plus(v, Sweeps!Combine(u, Stage))
  BY DEF Sweeps!AdjUpdate, Sweeps!StageNumbers, Stage
<1> HIDE DEF dK, u
<1>5. \A i \in Stage : t[i] \in Vec /\ u[i] \in Vec
  <2> TAKE i \in Stage
  <2>1. dK[i] \in Vec /\ M[i] \in Int
    BY <1>1, TableauFacts
  <2> QED
    BY <1>2, <2>1, VectorsClosed
<1> HIDE DEF t
<1>6. Sweeps!Combine(t, Stage) \in Vec /\ Sweeps!Combine(u, Stage) \in Vec
  BY <1>5, TableauFacts, CombineIsVector
<1>7. /\ Sweeps!Minus(Sweeps!TlmUpdate(jac, h, v), v) = Sweeps!Combine(t, Stage)
      /\ Sweeps!Minus(Sweeps!AdjUpdate(jac, h, v), v) = Sweeps!Combine(u, Stage)
  BY <1>3, <1>4, <1>6, MinusPlus
<1> QED
  BY <1>6, <1>7 DEF t, u, dK

\* For every structure, step and tableau, what the adjoint step adds is the
\* transpose of what the tangent-linear step adds.
THEOREM IncrementsAreTransposesHolds == Spec => []IncrementsAreTransposes
<1>1. IInv => IncrementsAreTransposes
  <2> SUFFICES ASSUME IInv, phase = "factorized", NEW h \in StepSizes
               PROVE  LET jac   == Jacobian(h)
                          added == [c \in Index |-> Sweeps!Minus(Sweeps!TlmUpdate(jac, h, Unit(c)), Unit(c))]
                          back  == [c \in Index |-> Sweeps!Minus(Sweeps!AdjUpdate(jac, h, Unit(c)), Unit(c))]
                      IN  /\ {added, back} \subseteq [Index -> [Index -> Field]]
                          /\ \A c, d \in Index :
                               added[c][d] = Total([k \in Index |-> jac[<<k, c>>] * back[d][k]], Index)
    BY DEF IncrementsAreTransposes
  <2> DEFINE jac == Jacobian(h)
             a == [ij \in Pairs |-> w[ij]]
             dK(c) == Sweeps!TlmStages(jac, h, Unit(c))
             u(c) == Sweeps!AdjStages(jac, h, Unit(c))
             x(c) == Sweeps!Combine([i \in Stage |-> Sweeps!Times(M[i], dK(c)[i])], Stage)
             z(c) == Sweeps!Combine(u(c), Stage)
             added == [c \in Index |-> Sweeps!Minus(Sweeps!TlmUpdate(jac, h, Unit(c)), Unit(c))]
             back  == [c \in Index |-> Sweeps!Minus(Sweeps!AdjUpdate(jac, h, Unit(c)), Unit(c))]
  <2>1. FactorEquations
    BY FactorsSatisfyEquations
  <2>2. h \in Field \ {0} /\ \A i, j \in Index : w[<<i, j>>] \in Field
    BY <2>1, StepSizesAssumption DEF FactorEquations
  <2>3. a \in Mat
    <3> SUFFICES ASSUME NEW ij \in Pairs PROVE w[ij] \in Field
      BY DEF Mat
    <3>1. ij = <<ij[1], ij[2]>> /\ ij[1] \in Index /\ ij[2] \in Index
      BY PairParts
    <3>2. w[<<ij[1], ij[2]>>] \in Field
      BY <2>2, <3>1
    <3> QED
      BY <3>1, <3>2
  <2>4. jac \in Mat
    BY <2>2, JacobianOfStep
  <2>5. SolvesW(a, jac, h) /\ SolvesTransposedW(a, jac, h)
    BY <2>1, PlannedSolutions
  <2> HIDE DEF a, jac
  <2>6. IsStep(a, jac, h)
    BY <2>2, <2>3, <2>4 DEF IsStep
  <2>7. ASSUME NEW c \in Index
        PROVE  /\ x(c) \in Vec /\ added[c] = x(c)
               /\ z(c) \in Vec /\ back[c] = z(c)
               /\ AreTlmStages(a, jac, h, Unit(c), dK(c))
               /\ AreAdjStages(a, jac, h, Unit(c), u(c))
    <3>1. Unit(c) \in Vec
      BY UnitVectors
    <3>2. AreTlmStages(a, jac, h, Unit(c), dK(c)) /\ AreAdjStages(a, jac, h, Unit(c), u(c))
      BY <2>5, <2>6, <3>1, TlmStagesHold, AdjStagesHold
    <3>3. /\ x(c) \in Vec /\ Sweeps!Minus(Sweeps!TlmUpdate(jac, h, Unit(c)), Unit(c)) = x(c)
          /\ z(c) \in Vec /\ Sweeps!Minus(Sweeps!AdjUpdate(jac, h, Unit(c)), Unit(c)) = z(c)
      BY <2>5, <2>6, <3>1, Increments
    <3> QED
      BY <3>2, <3>3
  <2>8. {added, back} \subseteq [Index -> [Index -> Field]]
    <3>1. added \in [Index -> Vec] /\ back \in [Index -> Vec]
      <4>1. DOMAIN added = Index /\ DOMAIN back = Index
        OBVIOUS
      <4>2. added = [c \in Index |-> added[c]] /\ back = [c \in Index |-> back[c]]
        OBVIOUS
      <4> HIDE DEF added, back, x, z
      <4> QED
        BY <2>7, <4>2
    <3> QED
      BY <3>1 DEF Vec
  <2>9. ASSUME NEW c \in Index, NEW d \in Index
        PROVE  added[c][d] = Total([k \in Index |-> jac[<<k, c>>] * back[d][k]], Index)
    <3>1. Sweeps!Dot(Unit(d), x(c)) = Sweeps!Dot(z(d), Sweeps!Apply(jac, Unit(c)))
      <4>1. AreTlmStages(a, jac, h, Unit(c), dK(c)) /\ AreAdjStages(a, jac, h, Unit(d), u(d))
        BY <2>7
      <4> HIDE DEF dK, u
      <4> QED
        BY <2>6, <4>1, IncrementsAreDual
    <3> HIDE DEF x, z, added, back
    <3>2. Sweeps!Dot(Unit(d), x(c)) = added[c][d]
      BY <2>7, UnitVectors
    <3>3. Sweeps!Dot(z(d), Sweeps!Apply(jac, Unit(c)))
            = Total([k \in Index |-> z(d)[k] * Sweeps!Apply(jac, Unit(c))[k]], Index)
      BY VectorOperations
    <3>4. \A k \in Index : z(d)[k] * Sweeps!Apply(jac, Unit(c))[k] = jac[<<k, c>>] * back[d][k]
      <4> TAKE k \in Index
      <4>1. Sweeps!Apply(jac, Unit(c))[k] = jac[<<k, c>>] /\ z(d) = back[d]
        BY <2>4, <2>7, UnitVectors
      <4>2. jac[<<k, c>>] \in Int /\ z(d)[k] \in Int
        BY <2>4, <2>7, FieldMembers DEF Mat, Vec, Pairs
      <4> QED
        BY <4>1, <4>2, IntegersClosed
    <3>5. [k \in Index |-> z(d)[k] * Sweeps!Apply(jac, Unit(c))[k]] = [k \in Index |-> jac[<<k, c>>] * back[d][k]]
      BY <3>4
    <3> QED
      BY <3>1, <3>2, <3>3, <3>5
  <2> HIDE DEF added, back
  <2> QED
    BY <2>8, <2>9 DEF added, back, jac
<1> QED
  BY <1>1, IInvHolds, PTL
==============================================================================
