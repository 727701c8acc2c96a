----------------------------- MODULE SymbolicLU -----------------------------
(***************************************************************************)
(* The sparse LU plan of lowering.py and the kernels that carry it out.    *)
(* At build time a structure of non-zeros becomes straight-line code: one  *)
(* assignment per entry of L and U, and substitution steps.  At run time   *)
(* the assignments are executed, without pivoting, on the values of        *)
(* W = (1 / (g * h)) * I - J, here integers modulo a prime.                *)
(*                                                                         *)
(* A symbolic expression is the set of products it subtracts.  A structure *)
(* that falls apart into uncoupled blocks is factorized block by block.    *)
(* integrate freezes no species; integrate_with_reduction freezes those    *)
(* whose rates are small and runs the same plan on a masked W.             *)
(***************************************************************************)
EXTENDS Integers, Sequences, FiniteSets, FiniteSetsExt, SequencesExt

CONSTANTS
  N,        \* number of species
  P,        \* the prime modulus
  Values,   \* what a structural non-zero of W may be at run time
  Executed  \* bound: the structures whose plan is carried out as well

ASSUME SizesAssumption == N \in Nat \ {0} /\ P \in Nat \ {0, 1}
ASSUME PrimeAssumption == \A x \in 1..(P - 1) : \E r \in 0..(P - 1) : (x * r) % P = 1
ASSUME ValuesAssumption == Values \subseteq 0..(P - 1)

Index == 0..(N - 1)
Field == 0..(P - 1)
Diagonal == {<<i, i>> : i \in Index}

VARIABLES
  structure, \* positions of the non-zeros of J off the diagonal, as planned:
             \* after the permutation, if there is one
  block,     \* the species factorized together with each
  todo,      \* pivots still to be planned
  nzL, nzU,  \* patterns, L without its unit diagonal
  fillIn,    \* fill_in_count
  code,      \* lu_expressions_ordered
  phase,
  active,    \* species not frozen
  w,         \* the values of W, masked
  reg,       \* the registers assigned so far
  at         \* the next assignment

plan == <<structure, block, todo, nzL, nzU, fillIn, code>>
vars == <<structure, block, todo, nzL, nzU, fillIn, code, phase, active, w, reg, at>>

------------------------------------------------------------------------------
\* SparsityOptimizer

\* predict_fill_in: symbolic Gaussian elimination, one pivot after the other.  It
\* works on the labels of the document, and the plan may be made under others: of
\* its result only the block check is used, whose outcome labels do not change
\* (BlocksIgnoreLabels in SymbolicLUProofs).
PredictedPattern(S) ==
  LET filled[k \in 0..N] ==
        IF k = 0 THEN S \union Diagonal
        ELSE LET before == filled[k - 1]
             IN  before \union {ij \in (k..(N - 1)) \X (k..(N - 1)) :
                                  <<ij[1], k - 1>> \in before /\ <<k - 1, ij[2]>> \in before}
  IN  filled[N]

\* Pairs joined by a path of couplings; paths[k] has those whose inner species
\* come before k.
Reach(S) ==
  LET paths[k \in 0..N] ==
        IF k = 0 THEN S \union Diagonal
        ELSE LET before == paths[k - 1]
             IN  before \union {ij \in Index \X Index :
                                  <<ij[1], k - 1>> \in before /\ <<k - 1, ij[2]>> \in before}
  IN  paths[N]

\* detect_blocks: the strongly connected component of each species.
Components(S) ==
  LET reach == Reach(S)
  IN  [i \in Index |-> {j \in Index : <<i, j>> \in reach /\ <<j, i>> \in reach}]

\* Fault: couplings between components are not looked for.
IndependentUnchecked(S, blocks) == TRUE

\* _check_block_independence, over the pattern with fill-in.
Independent(S, blocks) == \A ij \in PredictedPattern(S) : ij[2] \in blocks[ij[1]]

\* The species factorized together with each: its block, or all of them.
Blocks(S) ==
  LET blocks == Components(S)
  IN  IF Independent(S, blocks) THEN blocks ELSE [i \in Index |-> Index]

\* The members of S, each after those that the relation puts before it.
Sorted(S, order) ==
  [n \in 1..Cardinality(S) |->
     CHOOSE x \in S : Cardinality({y \in S : <<y, x>> \in order}) = n - 1]

\* Pivots in planning order: blocks by least member, ascending within each.
PivotOrder(blocks) ==
  LET least(i) == Min(blocks[i])
  IN  Sorted(Index, {ij \in Index \X Index :
                       \/ least(ij[1]) < least(ij[2])
                       \/ least(ij[1]) = least(ij[2]) /\ ij[1] < ij[2]})

------------------------------------------------------------------------------
\* _compute_lu_core

\* The diagonal of W is there whatever J has on its own.
InW(i, j) == i = j \/ <<i, j>> \in structure

\* Fault: the row of U starts at its first column.
ColumnsFromZero(i) == block[i]

\* j in range(i, N)
Columns(i) == {j \in block[i] : j >= i}
Rows(i)    == {j \in block[i] : j > i}

\* The k of the products L(i, k) * U(k, j) to subtract, for k before the pivot.
Products(i, j, pivot) ==
  {k \in block[i] : k < pivot /\ <<i, k>> \in nzL /\ <<k, j>> \in nzU}

\* Fault: fill-in is left out of the pattern.
EntersInWOnly(i, j, pivot) == InW(i, j)

\* has_w or sub_terms
Enters(i, j, pivot) == InW(i, j) \/ Products(i, j, pivot) # {}

Entry(kind, i, j, pivot) ==
  [kind |-> kind, row |-> i, col |-> j, inW |-> InW(i, j), products |-> Products(i, j, pivot)]
Ascending(S) == Sorted(S, {ab \in S \X S : ab[1] < ab[2]})

\* Fault: the column of L is emitted before the row of U.
EmittedLFirst(us, ls) == ls \o us

\* A pivot's row of U comes before its column of L.
Emitted(us, ls) == us \o ls

Init ==
  /\ structure \in SUBSET ((Index \X Index) \ Diagonal)
  /\ block = Blocks(structure)
  /\ todo = PivotOrder(block)
  /\ nzL = {}
  /\ nzU = {}
  /\ fillIn = 0
  /\ code = <<>>
  /\ phase = "planning"
  /\ active = Index
  /\ w = [ij \in Index \X Index |-> 0]
  /\ reg = [r \in {} |-> 0]
  /\ at = 1

PlanPivot ==
  LET i    == Head(todo)
      cols == {j \in Columns(i) : Enters(i, j, i)}
      rows == {j \in Rows(i) : Enters(j, i, i)}
      us   == Ascending(cols)
      ls   == Ascending(rows)
  IN  /\ phase = "planning"
      /\ todo # <<>>
      /\ nzU' = nzU \union {<<i, j>> : j \in cols}
      /\ nzL' = nzL \union {<<j, i>> : j \in rows}
      /\ fillIn' = fillIn + Cardinality({j \in cols : ~InW(i, j)})
                          + Cardinality({j \in rows : ~InW(j, i)})
      /\ code' = code \o Emitted([n \in 1..Len(us) |-> Entry("U", i, us[n], i)],
                                 [n \in 1..Len(ls) |-> Entry("L", ls[n], i, i)])
      /\ todo' = Tail(todo)
      /\ UNCHANGED <<structure, block, phase, active, w, reg, at>>

------------------------------------------------------------------------------
\* The generated kernel.

Total(f, S) == MapThenSumSet(LAMBDA k : f[k], S) % P
Over(x) == CHOOSE r \in Field : (x * r) % P = 1

\* Rows and columns of frozen species are those of the identity.
Masked(v, A) ==
  [ij \in Index \X Index |->
     IF {ij[1], ij[2]} \subseteq A
       THEN IF ij \in DOMAIN v THEN v[ij] ELSE 0
       ELSE IF ij[1] = ij[2] THEN 1 ELSE 0]

\* The solver calls the kernel with some step size at some state.
Enter ==
  /\ phase = "planning"
  /\ todo = <<>>
  /\ structure \in Executed
  /\ phase' = "running"
  /\ active' \in SUBSET Index
  /\ \E v \in [structure \union Diagonal -> Values] : w' = Masked(v, active')
  /\ UNCHANGED <<plan, reg, at>>

Subtracted(e) ==
  Total([k \in e.products |-> reg[<<"L", e.row, k>>] * reg[<<"U", k, e.col>>]], e.products)

\* Fault: annotate_lu_expressions is put to use: an entry is computed only when
\* every species it refers to is active.
NumeratorAnnotated(e) ==
  IF {e.row, e.col} \union e.products \subseteq active
    THEN ((IF e.inW THEN w[<<e.row, e.col>>] ELSE 0) - Subtracted(e)) % P
    ELSE IF e.row = e.col THEN 1 ELSE 0

\* W_i_j, or 0.0 at a fill-in, less the products.
Numerator(e) == ((IF e.inW THEN w[<<e.row, e.col>>] ELSE 0) - Subtracted(e)) % P

Assign(e, value) ==
  /\ reg' = [r \in DOMAIN reg \union {<<e.kind, e.row, e.col>>} |->
               IF r = <<e.kind, e.row, e.col>> THEN value ELSE reg[r]]
  /\ at' = at + 1
  /\ UNCHANGED <<plan, phase, active, w>>

AssignU ==
  /\ phase = "running"
  /\ at <= Len(code)
  /\ code[at].kind = "U"
  /\ Assign(code[at], Numerator(code[at]))

AssignL ==
  /\ phase = "running"
  /\ at <= Len(code)
  /\ code[at].kind = "L"
  /\ reg[<<"U", code[at].col, code[at].col>>] # 0
  /\ Assign(code[at], Numerator(code[at]) * Over(reg[<<"U", code[at].col, code[at].col>>]) % P)

\* A vanishing pivot makes infinities: nothing can be said from there on.
DivideByZero ==
  /\ phase = "running"
  /\ \/ /\ at <= Len(code)
        /\ code[at].kind = "L"
        /\ reg[<<"U", code[at].col, code[at].col>>] = 0
     \/ /\ at > Len(code)
        /\ \E i \in Index : reg[<<"U", i, i>>] = 0
  /\ phase' = "infinite"
  /\ UNCHANGED <<plan, active, w, reg, at>>

Factorized ==
  /\ phase = "running"
  /\ at > Len(code)
  /\ \A i \in Index : reg[<<"U", i, i>>] # 0
  /\ phase' = "factorized"
  /\ UNCHANGED <<plan, active, w, reg, at>>

Next == PlanPivot \/ Enter \/ AssignU \/ AssignL \/ DivideByZero \/ Factorized

Spec == Init /\ [][Next]_vars

------------------------------------------------------------------------------
\* The substitution steps, in the registers of a factorized W.

L(i, k) == reg[<<"L", i, k>>]
U(i, k) == reg[<<"U", i, k>>]

\* forward_sub_steps, then backward_sub_steps: L * y = b and U * x = y.
Solution(b) ==
  LET y[i \in Index] ==
        LET before == {k \in block[i] : k < i /\ <<i, k>> \in nzL}
        IN  (b[i] - Total([k \in before |-> L(i, k) * y[k]], before)) % P
      x[i \in Index] ==
        LET after == {k \in block[i] : k > i /\ <<i, k>> \in nzU}
        IN  ((y[i] - Total([k \in after |-> U(i, k) * x[k]], after)) * Over(U(i, i))) % P
  IN  x

\* The same steps in integrate_with_reduction: active[i] ? (...) : 0.0.
ReducedSolution(b) ==
  LET y[i \in Index] ==
        LET before == {k \in block[i] : k < i /\ <<i, k>> \in nzL}
        IN  IF i \in active
              THEN (b[i] - Total([k \in before |-> L(i, k) * y[k]], before)) % P
              ELSE 0
      x[i \in Index] ==
        LET after == {k \in block[i] : k > i /\ <<i, k>> \in nzU}
        IN  IF i \in active
              THEN ((y[i] - Total([k \in after |-> U(i, k) * x[k]], after)) * Over(U(i, i))) % P
              ELSE 0
  IN  x

\* Fault: the unit diagonal is given to the other factor.
TransposedSolutionUnitU(b) ==
  LET y[i \in Index] ==
        LET before == {k \in Index : k < i /\ <<k, i>> \in nzU}
        IN  (b[i] - Total([k \in before |-> U(k, i) * y[k]], before)) % P
      x[i \in Index] ==
        LET after == {k \in Index : k > i /\ <<k, i>> \in nzL}
        IN  ((y[i] - Total([k \in after |-> L(k, i) * x[k]], after)) * Over(U(i, i))) % P
  IN  x

\* compute_transposed_lu_plan: U^T * y = b and L^T * x = y.
TransposedSolution(b) ==
  LET y[i \in Index] ==
        LET before == {k \in Index : k < i /\ <<k, i>> \in nzU}
        IN  ((b[i] - Total([k \in before |-> U(k, i) * y[k]], before)) * Over(U(i, i))) % P
      x[i \in Index] ==
        LET after == {k \in Index : k > i /\ <<k, i>> \in nzL}
        IN  (y[i] - Total([k \in after |-> L(k, i) * x[k]], after)) % P
  IN  x

------------------------------------------------------------------------------
Entries == [kind : {"L", "U"}, row : Index, col : Index, inW : BOOLEAN, products : SUBSET Index]

TypeOK ==
  /\ structure \subseteq (Index \X Index) \ Diagonal
  /\ block \in [Index -> SUBSET Index]
  /\ todo \in Seq(Index)
  /\ nzL \subseteq {ij \in Index \X Index : ij[1] > ij[2]}
  /\ nzU \subseteq {ij \in Index \X Index : ij[1] <= ij[2]}
  /\ fillIn \in Nat
  /\ code \in Seq(Entries)
  /\ phase \in {"planning", "running", "infinite", "factorized"}
  /\ active \subseteq Index
  /\ w \in [Index \X Index -> Field]
  /\ DOMAIN reg \subseteq {"L", "U"} \X Index \X Index
  /\ \A r \in DOMAIN reg : reg[r] \in Field
  /\ at \in 1..(Len(code) + 1)

Operands(e) ==
  {<<"L", e.row, k>> : k \in e.products} \union {<<"U", k, e.col>> : k \in e.products}
    \union (IF e.kind = "L" THEN {<<"U", e.col, e.col>>} ELSE {})
Target(e) == <<e.kind, e.row, e.col>>

\* Every register is declared once, and before any assignment that reads it.
ReadsFollowWrites ==
  \A n \in 1..Len(code) :
    /\ \A r \in Operands(code[n]) : \E m \in 1..(n - 1) : Target(code[m]) = r
    /\ \A m \in 1..(n - 1) : Target(code[m]) # Target(code[n])

\* A path of couplings leads from i to j on which all species between the two come
\* before both: j is in every set that holds i and what such a path goes on to.
Joined(i, j) ==
  \A T \in SUBSET Index :
    i \in T /\ (\A ab \in structure :
                  ab[1] \in T /\ (ab[1] = i \/ (ab[1] < i /\ ab[1] < j)) => ab[2] \in T)
    => j \in T

\* The factorization, block by block or whole, keeps exactly the positions that
\* eliminating the species before them can make non-zero, and counts those among
\* them that W does not have.  An entry left out would be a wrong factor for some
\* values, one too many is arithmetic and memory in the innermost loop.
FillFollowsPaths ==
  phase = "planning" /\ todo = <<>> =>
    LET joined == {ij \in Index \X Index : Joined(ij[1], ij[2])}
    IN  /\ nzL \union nzU = joined
        /\ fillIn = Cardinality(joined \ (structure \union Diagonal))

\* L * U = W in every position, those left out of the pattern included.
FactorsReproduceW ==
  phase = "factorized" =>
    \A i, j \in Index :
      LET inner == {k \in Index : <<k, j>> \in nzU /\ (k = i \/ <<i, k>> \in nzL)}
      IN  Total([k \in inner |-> (IF k = i THEN 1 ELSE L(i, k)) * U(k, j)], inner) = w[<<i, j>>]

\* The two pairs of substitutions solve W * x = b and W^T * x = b.
SolvesAreExact ==
  phase = "factorized" =>
    \A c \in Index :
      LET b  == [i \in Index |-> IF i = c THEN 1 ELSE 0]
          x  == Solution(b)
          xt == TransposedSolution(b)
      IN  \A i \in Index :
            /\ Total([j \in Index |-> w[<<i, j>>] * x[j]], Index) = b[i]
            /\ Total([j \in Index |-> w[<<j, i>>] * xt[j]], Index) = b[i]

\* Freezing species leaves the exact solution of the system of the others,
\* whatever the plan, made for all of them, fills in between.
ReducedSolveIsActiveSubsystem ==
  phase = "factorized" =>
    \A c \in Index :
      LET b == [i \in Index |-> IF i = c THEN 1 ELSE 0]
          x == ReducedSolution(b)
      IN  \A i \in Index :
            IF i \in active
              THEN Total([j \in active |-> w[<<i, j>>] * x[j]], active) = b[i]
              ELSE x[i] = 0
==============================================================================
