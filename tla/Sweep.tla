-------------------------------- MODULE Sweep --------------------------------
(***************************************************************************)
(* The unrolled stages of one step of integrate_tlm and of integrate_adj   *)
(* (templates/solver_variants), in exact arithmetic: numbers are the       *)
(* integers modulo a prime P, where the identities of linear algebra hold  *)
(* as they do over the reals and every case can be enumerated.             *)
(*                                                                         *)
(* A step is given by its recorded size and the Jacobian recomputed at the *)
(* recorded state.  How a system with W is solved is left open: Sensitivity *)
(* takes the exact solution, PlannedSweep the substitutions of the plan.   *)
(***************************************************************************)
EXTENDS Integers, Sequences, FiniteSetsExt

CONSTANTS
  P,       \* the prime modulus
  Species, \* indices of the registers
  Stages,  \* tableau.stages
  Gamma,   \* tableau.Gamma[0]
  A, C,    \* tableau.A_matrix and C_matrix, indexed by <<i, j>> with j < i
  M,       \* tableau.M
  Solve(_, _),          \* the solution x of mat * x = b
  SolveTransposed(_, _) \* and that of mat^T * x = b

Field == 0..(P - 1)
StageNumbers == 1..Stages
Below == {ij \in StageNumbers \X StageNumbers : ij[2] < ij[1]}
Vectors  == [Species -> Field]
Matrices == [Species \X Species -> Field]

Total(f, S) == MapThenSumSet(LAMBDA k : f[k], S) % P
Over(x) == CHOOSE r \in Field : (x * r) % P = 1
Plus(u, v)  == [k \in Species |-> (u[k] + v[k]) % P]
Minus(u, v) == [k \in Species |-> (u[k] - v[k]) % P]
Times(c, v) == [k \in Species |-> (c * v[k]) % P]
Dot(u, v)   == Total([k \in Species |-> u[k] * v[k]], Species)
Apply(mat, v) == [k \in Species |-> Total([l \in Species |-> mat[<<k, l>>] * v[l]], Species)]
Transposed(mat) == [kl \in Species \X Species |-> mat[<<kl[2], kl[1]>>]]
\* The sum of the vectors term[i] over the stages i in S.
Combine(term, S) == [k \in Species |-> Total([i \in S |-> term[i][k]], S)]

\* W = (1 / (g * h)) * I - J
W(jac, size) ==
  [kl \in Species \X Species |->
     ((IF kl[1] = kl[2] THEN Over(Gamma * size) ELSE 0) - jac[kl]) % P]

------------------------------------------------------------------------------
\* W * dK_n = J * (dC + sum_j A_nj * dK_j) + sum_j (C_nj / h) * dK_j, j < n,
\* unrolled from the first stage to the last: dK[n] holds n stages.
TlmStages(jac, size, dC) ==
  LET dK[n \in 0..Stages] ==
        IF n = 0 THEN <<>>
        ELSE LET earlier  == dK[n - 1]
                 before   == 1..(n - 1)
                 arg      == Plus(dC, Combine([j \in before |-> Times(A[<<n, j>>], earlier[j])], before))
                 coupling == Combine([j \in before |-> Times(C[<<n, j>>] * Over(size), earlier[j])], before)
             IN  Append(earlier, Solve(W(jac, size), Plus(Apply(jac, arg), coupling)))
  IN  dK[Stages]

\* dC += sum_i M_i * dK_i
TlmUpdate(jac, size, dC) ==
  LET dK == TlmStages(jac, size, dC)
  IN  Plus(dC, Combine([i \in StageNumbers |-> Times(M[i], dK[i])], StageNumbers))

\* Fault: what the later stages pass on is multiplied by J instead of J^T.
PulledUntransposed(jac, size, u, i) ==
  LET later == (i + 1)..Stages
  IN  Combine([j \in later |-> Plus(Times(A[<<j, i>>], Apply(jac, u[j - i])),
                                    Times(C[<<j, i>>] * Over(size), u[j - i]))], later)

\* sum_j (A_ji * J^T * u_j + (C_ji / h) * u_j), j > i, where u holds the stages
\* after i, the next one first.
Pulled(jac, size, u, i) ==
  LET later == (i + 1)..Stages
  IN  Combine([j \in later |-> Plus(Times(A[<<j, i>>], Apply(Transposed(jac), u[j - i])),
                                    Times(C[<<j, i>>] * Over(size), u[j - i]))], later)

\* W^T * u_i = M_i * lam + what is pulled, unrolled from the last stage to the
\* first: u[n] holds n stages.
AdjStages(jac, size, lam) ==
  LET u[n \in 0..Stages] ==
        IF n = 0 THEN <<>>
        ELSE LET i     == Stages + 1 - n
                 later == u[n - 1]
             IN  <<SolveTransposed(W(jac, size), Plus(Times(M[i], lam), Pulled(jac, size, later, i)))>>
                   \o later
  IN  u[Stages]

\* lambda = lam + sum_i u_i
AdjUpdate(jac, size, lam) ==
  Plus(lam, Combine(AdjStages(jac, size, lam), StageNumbers))
==============================================================================
