SPECIFICATION Spec
CONSTANTS
  Contexts = {c1, c2}
  Handles = {h1, h2}
  Null = Null
  Mechanisms <- MCMechanisms
SYMMETRY Symmetry
INVARIANTS
  TypeOK
  OneOwner
  ContextsAreApart
  KernelSeesCheckedState
  ForcingHasItsColumns
