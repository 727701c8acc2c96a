----------------------------- MODULE CompactPlan -----------------------------
(***************************************************************************)
(* The compact storage of a sparse LU plan (compact_plan.py), which is     *)
(* what the production integrate() runs: the Jacobian, W and the factors   *)
(* are kept in arrays without their structural zeros, and three tables of  *)
(* slots say what the kernels factorize_plan and solve_plan do with them.  *)
(* SymbolicLU plans the pattern and runs the unrolled code; here the same  *)
(* pattern is traversed row by row and the tables are run.                 *)
(***************************************************************************)
EXTENDS SymbolicLU, Functions

CONSTANT Orders  \* lu_plan.permutation: the species of each register

ASSUME OrdersAssumption == Orders \subseteq Bijection(Index, Index)

\* The order of sorted() on pairs.
Before(a, b) == a[1] < b[1] \/ (a[1] = b[1] /\ a[2] < b[2])

\* The slot of a location among those that are stored.
Slot(stored, ij) == Cardinality({kl \in stored : Before(kl, ij)})
Located(stored, slot) == CHOOSE ij \in stored : Slot(stored, ij) = slot
Slots(stored) == 0..(Cardinality(stored) - 1)

WLocations  == structure \union Diagonal
LULocations == nzL \union nzU

\* jacobian_entries: the species of the non-zeros of J, given by register.
Physical(order, nonZeros) == {<<order[ij[1]], order[ij[2]]>> : ij \in nonZeros}

\* Fault: the permutation is read as the register of each species.
JSlotsInverted(order, nonZeros) ==
  [ij \in nonZeros |->
     Slot(Physical(order, nonZeros), <<AntiFunction(order)[ij[1]], AntiFunction(order)[ij[2]]>>)]

\* j_slots: where a register entry finds its derivative.
JSlots(order, nonZeros) ==
  [ij \in nonZeros |-> Slot(Physical(order, nonZeros), <<order[ij[1]], order[ij[2]]>>)]

------------------------------------------------------------------------------
\* The operations of factorize_plan.

\* stop: the row of U, or the column of L, that an entry is computed with.
Pivot(ij) == Min({ij[1], ij[2]})

\* inner in range(stop)
Inner(ij) == {k \in 0..(Pivot(ij) - 1) : <<ij[1], k>> \in nzL /\ <<k, ij[2]>> \in nzU}

\* A pivot's row of U by columns, then its column of L by rows.
Traversal ==
  Sorted(LULocations, {ab \in LULocations \X LULocations :
                         \/ Pivot(ab[1]) < Pivot(ab[2])
                         \/ Pivot(ab[1]) = Pivot(ab[2]) /\ Before(ab[1], ab[2])})

\* Fault: the products of an entry of L are counted from the end of its own.
BeginAtEnd(products, pairs) == Len(products) + Len(pairs)

\* begin = len(products), before the entry's own are appended.
Begin(products, pairs) == Len(products)

\* operations and products, to which an entry appends its own.
Appended(tables, ij) ==
  LET inner == Ascending(Inner(ij))
      pairs == [n \in 1..Len(inner) |-> <<Slot(LULocations, <<ij[1], inner[n]>>),
                                         Slot(LULocations, <<inner[n], ij[2]>>)>>]
  IN  [operations |-> Append(tables.operations,
         [output   |-> Slot(LULocations, ij),
          w        |-> IF ij \in WLocations THEN Slot(WLocations, ij) ELSE -1,
          begin    |-> Begin(tables.products, pairs),
          end      |-> Len(tables.products) + Len(pairs),
          diagonal |-> IF ij[1] > ij[2] THEN Slot(LULocations, <<ij[2], ij[2]>>) ELSE -1]),
       products |-> tables.products \o pairs]

Tables ==
  LET traversal == Traversal
      tables[n \in 0..Cardinality(LULocations)] ==
        IF n = 0 THEN [operations |-> <<>>, products |-> <<>>]
        ELSE Appended(tables[n - 1], traversal[n])
  IN  tables[Cardinality(LULocations)]

\* lower and upper, row by row: the column and the slot of each entry left and
\* right of the diagonal.
Entered(pattern) ==
  [n \in 1..Cardinality(pattern) |->
     LET ij == Located(pattern, n - 1) IN <<ij[2], Slot(LULocations, ij)>>]

\* lower_offsets and upper_offsets: the entries before each row.
Offsets(pattern) ==
  [n \in 1..(N + 1) |-> Cardinality({ij \in pattern : ij[1] < n - 1})]
Lower == nzL
Upper == nzU \ Diagonal
Diagonals == [n \in 1..N |-> Slot(LULocations, <<n - 1, n - 1>>)]

------------------------------------------------------------------------------
\* The kernels.

\* The non-zeros of J = (1 / (g * h)) * I - W: a species need not have a term of
\* its own.
NonZeros(invGDt) == structure \union {<<i, i>> : i \in {k \in Index : w[<<k, k>>] # invGDt}}

\* compute_jacobian_chunk writes the derivatives by species, slot after slot.
JValues(order, invGDt) ==
  LET physical == Physical(order, NonZeros(invGDt))
      register == AntiFunction(order)
  IN  [s \in Slots(physical) |->
         LET p == Located(physical, s)
             i == register[p[1]]
             j == register[p[2]]
         IN  ((IF i = j THEN invGDt ELSE 0) - w[<<i, j>>]) % P]

\* W_values[slot]: inv_g_dt on the diagonal, less the entry of J if there is one.
WValues(order, invGDt) ==
  LET jValues == JValues(order, invGDt)
      jSlots  == JSlots(order, NonZeros(invGDt))
  IN  [s \in Slots(WLocations) |->
         LET ij == Located(WLocations, s)
         IN  ((IF ij[1] = ij[2] THEN invGDt ELSE 0)
                - (IF ij \in DOMAIN jSlots THEN jValues[jSlots[ij]] ELSE 0)) % P]

\* One operation of factorize_plan.
Operated(op, products, wValues, lu) ==
  LET range     == (op.begin + 1)..op.end
      numerator == ((IF op.w >= 0 THEN wValues[op.w] ELSE 0)
                      - Total([n \in range |-> lu[products[n][1]] * lu[products[n][2]]], range)) % P
      value     == IF op.diagonal >= 0 THEN (numerator * Over(lu[op.diagonal])) % P ELSE numerator
  IN  [s \in DOMAIN lu \union {op.output} |-> IF s = op.output THEN value ELSE lu[s]]

\* factorize_plan, over slots that hold nothing until they are written.
FactorizePlan(wValues) ==
  LET tables == Tables
      lu[n \in 0..Len(tables.operations)] ==
        IF n = 0 THEN [s \in {} |-> 0]
        ELSE Operated(tables.operations[n], tables.products, wValues, lu[n - 1])
  IN  lu[Len(tables.operations)]

\* The places of a row in lower or in upper.
Places(pattern, row) == (Offsets(pattern)[row + 1] + 1)..Offsets(pattern)[row + 2]

\* solve_plan: work downwards through lower, solution upwards through upper.
SolvePlan(lu, rhs) ==
  LET lower == Entered(Lower)
      upper == Entered(Upper)
      work[row \in Index] ==
        LET places == Places(Lower, row)
        IN  (rhs[row] - Total([e \in places |-> lu[lower[e][2]] * work[lower[e][1]]], places)) % P
      solution[row \in Index] ==
        LET places == Places(Upper, row)
            rest   == Total([e \in places |-> lu[upper[e][2]] * solution[upper[e][1]]], places)
        IN  ((work[row] - rest) * Over(lu[Diagonals[row + 1]])) % P
  IN  solution

------------------------------------------------------------------------------
\* Every use of the factors in integrate() goes through slots, whichever
\* permutation the derivatives are stored under.  The tables reproduce W; they
\* fill every slot, with the value of the register of the unrolled code; and they
\* give its solutions.
CompactKernelAgrees ==
  phase = "factorized" /\ active = Index =>
    \A order \in Orders :
      LET lu == FactorizePlan(WValues(order, 1))
      IN  /\ \A ij \in WLocations : WValues(order, 1)[Slot(WLocations, ij)] = w[ij]
          /\ DOMAIN lu = Slots(LULocations)
          /\ \A r \in DOMAIN reg : lu[Slot(LULocations, <<r[2], r[3]>>)] = reg[r]
          /\ \A c \in Index :
               LET b == [i \in Index |-> IF i = c THEN 1 ELSE 0]
               IN  SolvePlan(lu, b) = Solution(b)
==============================================================================
