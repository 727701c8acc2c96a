---------------------------- MODULE Sensitivity ----------------------------
(***************************************************************************)
(* One step of the two sensitivity sweeps as a caller sees it: integrate_  *)
(* tlm takes a perturbation across the step, integrate_adj an adjoint      *)
(* variable back over it.  The registers of the kernels hold the species   *)
(* in the order the sparsity analysis chose; the linear solves with W are  *)
(* exact, as PlannedSweep shows of those of the plan.                      *)
(***************************************************************************)
EXTENDS Integers, FiniteSetsExt, Functions

CONSTANTS
  P, Species, Stages, Gamma, A, C, M,  \* as in Sweep
  Probes,  \* perturbations and adjoint variables considered
  Orders   \* lu_plan.permutation: the species of each register

VARIABLES
  J, h,   \* the checkpointed step, J by species
  order,  \* permutation
  delta,  \* perturbation before the step
  lambda, \* adjoint variable after the step
  tlm,    \* delta after integrate_tlm's step
  adj,    \* lambda after integrate_adj's step
  done

vars == <<J, h, order, delta, lambda, tlm, adj, done>>

\* The unique solution of a regular system.
Solve(mat, b) ==
  CHOOSE x \in [Species -> 0..(P - 1)] :
    \A k \in Species : MapThenSumSet(LAMBDA l : mat[k, l] * x[l], Species) % P = b[k]
SolveTransposed(mat, b) == Solve([kl \in Species \X Species |-> mat[kl[2], kl[1]]], b)

INSTANCE Sweep

Regular(mat) == \A x \in Vectors : Apply(mat, x) = [k \in Species |-> 0] => \A k \in Species : x[k] = 0

\* J_i_j in the registers, from the state the registers were saved in.
InRegisters(mat, ord) == [kl \in Species \X Species |-> mat[ord[kl[1]], ord[kl[2]]]]

------------------------------------------------------------------------------
Init ==
  /\ J \in Matrices
  /\ h \in Field \ {0}
  /\ Regular(W(J, h))
  /\ order \in Orders
  /\ delta \in Probes
  /\ lambda \in Probes
  /\ tlm = delta
  /\ adj = lambda
  /\ done = FALSE

\* dC_k = delta_C(k) and lam_k = lambda(k): register k takes component k.
SweepBothWays ==
  /\ ~done
  /\ tlm' = TlmUpdate(InRegisters(J, order), h, delta)
  /\ adj' = AdjUpdate(InRegisters(J, order), h, lambda)
  /\ done' = TRUE
  /\ UNCHANGED <<J, h, order, delta, lambda>>

Next == SweepBothWays

Spec == Init /\ [][Next]_vars

------------------------------------------------------------------------------
\* "dot(TLM(dC), lambda) == dot(dC, ADJ(lambda))", the duality that makes the
\* adjoint the gradient of the step (tests/python/test_adjoint_identity.py).
AdjointIdentity == done => Dot(tlm, lambda) = Dot(delta, adj)

\* A perturbation "to species k" is component k of delta_C, and lambda_k is its
\* sensitivity (how-to/compile-adjoint-and-tlm-solvers.md): the order in which
\* the registers hold the species makes no difference to a caller.
PerturbationsAreBySpecies == done => tlm = TlmUpdate(J, h, delta)
==============================================================================
