---------------------------- MODULE PlannedSweep ----------------------------
(***************************************************************************)
(* The sweeps on the factors of the plan: integrate_tlm solves with the    *)
(* substitution steps of compute_lu_plan, integrate_adj with those of      *)
(* compute_transposed_lu_plan, both in the registers that the generated    *)
(* factorization has just assigned.  W is (1 / (g * h)) * I - J, so each   *)
(* factorized W stands for the step of every size with its Jacobian.       *)
(***************************************************************************)
EXTENDS ChapmanPlan

CONSTANTS
  Stages, Gamma, A, C, M,  \* the tableau, as in Sweep
  StepSizes                \* recorded sizes considered

ASSUME TableauAssumption ==
  LET below == {ij \in (1..Stages) \X (1..Stages) : ij[2] < ij[1]}
  IN  /\ Stages \in Nat
      /\ Gamma \in Field \ {0}
      /\ A \in [below -> Field] /\ C \in [below -> Field]
      /\ M \in [1..Stages -> Field]
ASSUME StepSizesAssumption == StepSizes \subseteq Field \ {0}

\* The registers are those of W already: the system is not looked at again.
PlanSolve(mat, b) ==
  LET found == Solution(b) IN CHOOSE x \in [Index -> Field] : x = found
PlanSolveTransposed(mat, b) ==
  LET found == TransposedSolution(b) IN CHOOSE x \in [Index -> Field] : x = found

Sweeps ==
  INSTANCE Sweep WITH Species <- Index, Solve <- PlanSolve, SolveTransposed <- PlanSolveTransposed

\* The Jacobian of a step of size h, from W.
Jacobian(h) ==
  [ij \in Index \X Index |->
     ((IF ij[1] = ij[2] THEN Over(Gamma * h) ELSE 0) - w[ij]) % P]

Unit(c) == [i \in Index |-> IF i = c THEN 1 ELSE 0]

\* What the adjoint step adds to lambda, pulled back through the Jacobian, is
\* the transpose of what the tangent-linear step adds to delta: every stage,
\* weight and coupling of the one has its mirror image in the other, and so has
\* every substitution of the two plans.  Both sides are linear in delta and in
\* lambda, so the unit vectors decide them.
IncrementsAreTransposes ==
  phase = "factorized" /\ active = Index =>
    \A h \in StepSizes :
      LET jac   == Jacobian(h)
          added == [c \in Index |-> Sweeps!Minus(Sweeps!TlmUpdate(jac, h, Unit(c)), Unit(c))]
          back  == [c \in Index |-> Sweeps!Minus(Sweeps!AdjUpdate(jac, h, Unit(c)), Unit(c))]
      IN  /\ {added, back} \subseteq [Index -> [Index -> Field]]
          /\ \A c, d \in Index :
               added[c][d] = Total([k \in Index |-> jac[<<k, c>>] * back[d][k]], Index)
==============================================================================
