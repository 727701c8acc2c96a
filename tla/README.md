# Verification of MKPP

MKPP is an ahead-of-time compiler for chemical mechanisms. A Python program
reads a mechanism document (YAML), lowers it with computer algebra to a
right-hand side, a Jacobian and a sparse LU plan, and renders C++ (Kokkos)
kernels from templates. A host model then calls the generated kernels, cell by
cell or in batches, through a C, C++ or Fortran interface. This directory models
the parts of that system whose correctness depends on order, history,
concurrency or unrolled algebra. TLC checks the modules on small instances, and
TLAPS proves part of the properties for every value of the constants.

The source is cited by its path in the repository, with
`templates/` for `src/mkpp/templates/`.

## 1. The system

### Two times, two halves

*Compile time* is one process per compile:

    document --parser/validation--> MechanismDefinition
             --cache lookup--> hit: stored lowering | miss: lowering.py, then store
             --template_context--> context --codegen/templates--> header, sources,
             host interface, manifest

Compiles interact through one thing only, the cache directory, which every
process on the machine shares without a lock.

*Run time* is a host model with several threads:

    host arrays --bind--> handle (C / C++ / Fortran)
                --integrate--> dispatcher (serial, range or teams)
                --per cell--> integrate() | integrate_fwd_checkpoint()
                              | integrate_with_reduction()
    CheckpointBuffer --replay--> integrate_adj(), integrate_tlm()

Kernels of different cells share nothing. Host threads share one zero-filled
forcing array. A handle borrows arrays that the host rewrites between calls.

### Inventory

| Component | State it keeps | Operations | What is hard | What makes it correct |
|---|---|---|---|---|
| Rosenbrock kernel `solver_variants/integrate.j2` | clock `t`, size `dt`, two rejection flags, state | attempt, accept, reject, return | rounding of `t + dt`, underflow of `dt`, NaN error norms, history of rejections | recovery discipline; time advances; returns at the end or, by rounding, one clock value past it |
| Checkpointed kernel and sweeps `integrate_fwd_checkpoint.j2`, `integrate_adj.j2`, `integrate_tlm.j2` | `CheckpointBuffer` (sizes, states, count), reused over calls | record, overflow, replay backward, replay forward | stale slots, a full buffer, a sweep after a failed call, transposition by hand | buffer = trajectory of the last call; sweeps in order; increments are transposes |
| Symbolic LU `lowering.py`, `macros/` | patterns of L and U, list of assignments | predict fill, split in blocks, plan pivots, run, substitute | fill-in cascades, pivot order, blocks that are not independent | reads follow writes; L U = W; both pairs of solves exact |
| Auto-reduction `integrate_with_reduction.j2` | clock, size, active set per attempt | choose set, mask W, solve, resize | NaN rates, register order against species order, a step of zero | the masked solve is the solve of the active subsystem; a NaN stays where it is; the call returns unless its step is empty |
| Cache and driver `cache_manager.py`, `cli.py` | one pickle per key | hash, lookup, unlink, store | races between `exists` and `open`, two writers, deaths, edits between two reads | a compile uses its own lowering; failures only from one known race |
| Host interface `host_api/` | handle, bound arrays, `last_error_msg` | create, destroy, move, bind, compute | moves and address reuse, arrays changed after the binding | one owner; bindings apart; validation at use |
| Dispatcher `mkpp_host/dispatcher.hpp` | status buffer, shared zero array | launch, summarize | two rounded divisions, asynchronous launch, concurrent callers | every cell once; complete report; forcing stays alive |
| Batched dense solver `batched_dense_solver.hpp` | none | assemble, solve | numerics of Kokkos Kernels | (external) |
| Mechanism registry `mechanism_manager.hpp`, `mechanisms.hpp` | none | lookups by name | nothing | (compile-time tables) |
| Compact and supernodal plans `compact_plan.py`, `factorization_plan.py` | storage slots, tables of operations, products and offsets | slot assignment, table construction, the kernels that run the tables | derivatives stored by species and read by register, products counted from the wrong place, a slot read before it is written | the tables compute every register and solution of the unrolled code |
| Reaction lowering `lowering.py` | none | differentiate, substitute | symbolic algebra | f and J belong to the document |
| Emission `codegen.py`, `template_engine.py` | output directory | write, remove stale, write manifest | interrupted compile | the manifest describes the files beside it |
| Template context `template_context.py`, `format_eqn.py` | none | format | text | formatting only |
| Parser, validation `parser.py`, `validation.py`, `model.py` | none | read, check | schema | rejects what later stages cannot handle |
| Equilibrium models `equilibrium/` | registry filled at import | lookups, closed forms | thermodynamics | formulas |
| Tableaux `rosenbrock.py` | none | constants | order conditions over reals | (constants) |
| Box model, reporting `box.py`, `reporting.py` | none | run, print | nothing | (driver) |
| Benchmark campaign `benchmark/` | transcript and output (files that are only appended to), status, evidence | pilot, settle a count, measure in balanced order, admit a pair | deaths inside an append, a second session on the files of the first, gates in order | no measurement lost; a ratio only within one session |

`PROJECT.json` lists the same components with their status, and under
`hazards` each hazard at the line where it bites.

## 2. Modules

| Module | Models | Kind |
|---|---|---|
| `OuterStep` | what a host relies on when it integrates a cell over an interval | abstract specification |
| `StepControl` | the controller of `integrate()` | component; implements `OuterStep` |
| `Reduction` | both kernels of a solver class: `integrate()` as `StepControl` has it, and `integrate_with_reduction()` | component; extends `StepControl`, implements `OuterStep` |
| `ReductionProofs` | the invariants of `integrate()`, those of both kernels, and the refinement by either | proofs |
| `Checkpoint` | forward kernel, buffer, both sweeps | component |
| `CheckpointProofs` | its invariants | proofs |
| `Sweep` | the unrolled stages of one step of both sweeps, whatever solves their systems | algorithm |
| `Sensitivity` | one step of both sweeps as a caller sees it, with exact solves | algorithm; instance of `Sweep` |
| `SymbolicLU` | planning, execution, substitution, masking | component, algorithm |
| `SymbolicLUProofs` | its invariant; the plan, the factors, the solutions and the compact kernels are right | proofs; extends `CompactPlan` |
| `CompactPlan` | the slots and tables of the compact plan and the kernels that run them | algorithm; extends `SymbolicLU` |
| `ChapmanPlan` | the tables of the Chapman mechanism as the repository holds them | data; extends `CompactPlan` |
| `PlannedSweep` | the sweeps with the substitutions of the plan | composition of `ChapmanPlan` and `Sweep` |
| `PlannedSweepProofs` | the two increments of a step are transposes | proofs; extends `SymbolicLUProofs` |
| `CompileCache` | concurrent compiles over the cache directory | component |
| `CompileCacheProofs` | its invariants | proofs |
| `BatchDispatch` | launches of several host threads | component |
| `BatchDispatchProofs` | partition of the cells, invariants | proofs |
| `HandleApi` | C functions and the C++ owner class | component |
| `HandleApiProofs` | its invariants | proofs |
| `Campaign` | the sessions of a diagnostic benchmark campaign over its two files | component |
| `CampaignProofs` | what the two files keep, and where an admitted pair of series comes from | proofs |

`MC<module>` gives the constants their values. Operators introduced by a
comment *Fault:* are defects put beside the definition they would replace; they
occur in no specification and serve to confirm that a property notices them.
Variables marked *history* record the past for the properties and guard
nothing.

### StepControl and OuterStep

One behaviour is one call of `integrate()` on one cell. `t`, `dt`,
`rejectLast`, `rejectMore` are the locals of the kernel; `Accept`, `AcceptNaN`
and `Reject` are the branches of the error test with everything the branch
does, the cut `dt = min(dt, dt_total - t)` at the top of the loop included;
`Return` is the loop's exit.

The stages are abstracted to their outcome: an error norm at most one, above
one, or NaN, together with the clamped factor that follows. `Outcomes` states
which are possible: a NaN concentration makes every later norm NaN, and a step
of zero divides by zero. `fmax(err_norm, 1e-10)` is the reason `AcceptNaN`
accepts at full growth. Sizes are whole ticks, a tick standing for the smallest
positive double, so products round down and may vanish. (Whether a size really
reaches zero depends on the processor; see `Reduction`.) The clock is confined
to `Times`, and a sum goes to a nearest member (`Nearest`; of two that are
equally near, either).

The difference `dt_total - t`, to which the step is cut, is a constant of its
own, `Rest`. From the middle of the interval on it is exact, as the difference
of doubles within a factor of two is; before, it rounds to a nearest double
(`RestAssumption`). That matters: with `max_growth` 6 the cut step may cover all
that is left from a seventh of the interval on, and when the difference has been
rounded up, the sum with it may be rounded up once more, to the first double
past `dt_total` (`JustPast`). The loop then ends with the clock one value past
the end.

`OuterStep` is the host's view, and allows for that: time only moves forward, to
at most the first clock value past the end, and the call returns once the end is
reached, there or one value later, and never before. What it forbids is a step
that carries the clock further, an end the clock approaches and misses, a clock
that falls back, and a return in the middle. `ImplementsOuterStep` is checked
with `t` and `returned` mapped to themselves. An accepted step that does not
move the clock is a stutter of the abstract specification; `FloorMovesClock`
says when that cannot happen.

### Reduction

`variant` says which of the two kernels the host called. `integrate` is
`StepControl` unchanged. The other, `integrate_with_reduction`, starts from one
second, has neither a floor under its size nor a memory of rejections, and
freezes species: at every attempt `Active` is computed from the magnitudes of
the rates and from the tolerances, which are read by register while the state
is by species (`RegisterOf`). `rate` is a choice for each species that may
change only when a species it reads has moved, so a frozen neighbourhood keeps
its rates. `lost` is the set of species whose concentration is a NaN. A
comparison with a NaN is false, so whatever reads a lost species is frozen
(`Readable`), and it is then outside the sum that makes the stages, although
its own NaN still enters the error norm, which runs over all species
(`NormIsNaN`). `ReducedAccept`, `ReducedAcceptNaN` and `ReducedReject` are the
branches of the error test; an empty step divides by zero and makes every
active species NaN (`Damaged`), and `Overflow` is an attempt in which infinite
numbers do the same to some of them.

The factors and outcomes are those of `StepControl`. The masked solve itself is
in `SymbolicLU`.

A size of zero is one of a processor that flushes small numbers to zero. With
gradual underflow, `1.0 / (g * dt)` is infinite before `dt` is zero; the stages
then hold a NaN, the attempt is accepted, and the size grows again.
`EmptyStepNeverReturns` is about the first kind of machine; no other property
rests on the difference.

### Checkpoint

`phase` says which kernel runs. `AcceptAndRecord`, `AcceptAndOverflow`,
`Reject` and `ReturnForward` are the branches of the forward kernel: the state
is updated first, then capacity is tested, then the slot is filled. A
concentration vector is the place it has on its trajectory, `<<run, y>>`, so a
slot left over from an earlier call is told apart from a new one. The sweeps
read `num_steps` and nothing else of the forward call, and the host may start
them after any forward call. The clock is exact here, as rounding is the
subject of `StepControl`; this kernel has no floor under `dt`, and zero-size
steps are in the model.

### Sweep, PlannedSweep and Sensitivity

`Sweep` has the stage equations of `integrate_tlm` and `integrate_adj` over the
integers modulo a prime. An identity of rational functions that holds over the
reals holds there, and one that fails over the field of three elements at a
regular `W` fails as a formula. The tableau is a constant, with values that
make each coefficient matter. The stages are a list that grows, stage after stage,
at its end (`TlmStages`) or, from the last stage back, at its beginning
(`AdjStages`). How a system with `W` is solved is a parameter.

`PlannedSweep` gives it the substitutions of the plan: the tangent-linear sweep
solves with the steps of `compute_lu_plan`, the adjoint sweep with those of
`compute_transposed_lu_plan`, both in the registers the modelled factorization
has just assigned. Each factorized matrix stands for a step and its Jacobian.

`Sensitivity` gives it exact solutions and looks at the step from outside, in
the order of species a caller uses; `order` is the fill-reducing permutation
that decides which register holds which species.

### SymbolicLU

Build time: `PredictedPattern` (`predict_fill_in`), `Components`
(`detect_blocks`), `Independent` (`_check_block_independence`), `PlanPivot` (one
pivot of `_compute_lu_core`). `structure` is what `_compute_lu_core` is given:
the couplings as the document numbers the species, or those after the
permutation, when reverse Cuthill-McKee lowers the bandwidth. Run time: `Enter`
takes values for the structural non-zeros and an active set, `AssignU` and
`AssignL` execute one assignment each; a vanishing pivot ends the execution
(`DivideByZero`), as the plan never pivots and infinities follow. An expression
is the set of products it subtracts. Every structure is taken, so every
relabelled one is planned and run too. The docstring at `lowering.py:1148`
states the direction of the permutation opposite to its use.

The sparsity analysis runs before the relabelling: `predict_fill_in` eliminates
in the order of the document's labels, and how much it fills in depends on that
order. The prediction and the plan are therefore not compared (section 6 says
how far apart they are). All the program makes of the prediction is the block
check, and its outcome is the same under every labelling, which is the theorem
`BlocksIgnoreLabels`. What the plan fills in is stated of the plan's own labels:
`Joined(i, j)` says that a path of couplings leads from `i` to `j` over species
before both, with no reference to elimination or to blocks, and
`FillFollowsPaths` that L and U keep these positions and no others.

`active` is everything for `integrate()`; `Masked` and `ReducedSolution` are
what `integrate_with_reduction.j2` does to `W` and the substitutions.

### CompactPlan and ChapmanPlan

The production kernels run no unrolled code: they walk tables of slots. `Slot`
numbers the stored locations of a matrix; `Tables` appends the operation and the
products of one entry after the other (`Appended`) in the traversal of
`compact_plan.py`, `Offsets` and `Entered` are the two triangular halves; `JSlots` tells where a register entry
finds its derivative, which is stored by species. `FactorizePlan` and
`SolvePlan` are the kernels; `Operated` is one round of the first's loop, and
`Places` the range of entries that a row of the second reads. They are rendered from templates into every
header; the map cites them in the emitted `src/mkpp-generated/chapman.hpp`, the
form in which they are C++. A slot that is read before it is written is outside
the domain of the function that models the array, and TLC stops there.

`ChapmanPlan` copies the tables of the headers under
`src/mkpp-generated/chapman/` and asks whether the modelled planner, given the
structure of that mechanism's Jacobian and its permutation, arrives at the same
tables (`EmittedChapmanIsPlanned`).

### CompileCache

A compiler is a process with a program counter; each file-system call is an
action of its own. The cache is a map of names to inodes, so an unlinked file
stays readable through an open descriptor and two writers keep separate offsets.
A pickle is two blocks: enough for a truncated, an interleaved and a hole-filled
file to differ from a whole one. Two dumps of one lowering are taken to be the
same bytes, so that blocks of two writers fit together. `Die` takes a process
away at any point. `EditDocument` and `EditCompiler` change what is on disk;
`KeyOf` hashes what it finds there, not what was parsed. `--no-cache` skips the
lookup only.

### BatchDispatch

Callers are host threads. `Call` chooses a batch, which cells hold non-finite
values, and whether the status buffer is new or the previous one. `BeginStatic`
and `EndStatic` are the initializer of the function-local static in
`zero_jvals`, which the language serializes. `Launch` is the asynchronous
kernel launch; `left` holds the pairs of team and cell still to be executed, in
any order. `Summarize` waits for all of them (the deep copy fences) and counts.

### HandleApi

Contexts are C++ variables; handles are addresses that `operator new` may
return again. Constructor, destructor, move construction and move assignment
are the class's, and each function of the C interface that changes state or
runs a kernel is an action with its checks in their order. The arrays of a
state binding are one array, told apart by whether its meteorology is positive
and finite, and `HostUpdates` flips that between any two calls. The kernel is
its view of what was checked (`seen`). `last_error_msg` and the stateless
lookups by name are left out. The Fortran module adds shape checks and no state
and is not modelled.

### Campaign

A session is one process of `python -m mkpp.benchmark.cli --campaign`. It runs
pilots, in which every subject is observed the same number of times and the
count of repetitions doubles until each is long enough (`NextPilot`,
`NextRound`, `GiveUpPilot`, `SettleCount`), writes the policy it settled on, and
measures block after block in an order balanced over the permutations of the
solvers (`Balanced`: the same seed gives the same orders in every session). An
invocation is `Invoke`, then `Transcribe` (the transcript takes the answer,
whatever it is), then the judgement: `Refuse`, or what follows in its phase.
Transcript and output are files that every session appends to. A piece that was
being written when the process died is `torn`, or `open` when only its newline
is missing, so that the next append continues its line. `Comparable` is
`require_comparable_pairs` on the output read back. A record carries the count
the session asked for; the code takes the count from the runner's answer and
does not compare the two, so runners are taken to report truly.

## 3. What each run shows

| Run | Properties | What it shows | Distinct states |
|---|---|---|---|
| `step_control` (`KernelSpec` of `Reduction`) | `TypeOK`, `ReductionTypeOK`, `FlagsCountRejections`, `FailedSizeIsNotRetried`, `IntegrateKeepsFloor`, `FloorMovesClock`, `ImplementsOuterStep`, `NaNStaysPut`, `UnjudgedCellReturns`, `EmptyStepNeverReturns`, `KernelTermination` | both kernels: recovery after rejections, progress and return, with coarse rounding, underflow, frozen species and NaN | 16,243 |
| `checkpoint` | `TypeOK`, `BufferIsTrajectory`, `SweepsReplayTrajectory`, `OverflowLeavesOneStepUnrecorded`, `ForwardReturns` | the buffer is the last trajectory, reused or overflowing, and is replayed in order by both sweeps | 275,623 |
| `symbolic_lu` (`PlannedSweep`) | `TypeOK`, `ReadsFollowWrites`, `FillFollowsPaths`, `FactorsReproduceW`, `SolvesAreExact`, `ReducedSolveIsActiveSubsystem`, `CompactKernelAgrees`, `EmittedChapmanIsPlanned`, `IncrementsAreTransposes` | the unrolled factorization stores what it needs and no more, it and its four substitutions are right, with and without frozen species; the compact tables compute the same; the headers of Chapman are what the planner plans; the two sweeps are mirror images, through the Jacobian | 251,648 |
| `batch_dispatch` | `TypeOK`, `EachCellOnce`, `ReportIsComplete`, `ForcingStaysAlive` | no cell lost or run twice, no fault missed, no array taken away | 128,257 |
| `handle_api` | `TypeOK`, `OneOwner`, `ContextsAreApart`, `KernelSeesCheckedState`, `ForcingHasItsColumns` | handles under moves and reuse, kernels only on checked state | 70,240 |
| `compile_cache` | `TypeOK`, `ServedOwnLowering`, `FailsOnlyWhenRaced`, `QuietCacheIsWhole` | concurrent compiles, deaths and edits | 141,063 |
| `campaign` | `EvidenceIsRetained`, `ComparableIsOneSession` | no measurement lost or made up, and no ratio between sessions, wherever they die | 945,364 |
| `checkpoint_entry`, `adjoint_duality`, `register_order`, `cache_upgrade`, `cache_hit` | one each | five statements of the documentation or the tests that the code does not meet (section 6) | counterexamples |

### Bounds

* `step_control`: an interval of 30 ticks and a clock of numbers with four
  binary digits: all ticks up to 16, the even ones up to 32, multiples of four
  above. So 30 is 15 units of the last digit there, an odd number, `JustPast` is
  32, and odd differences above 16 round, ties to even. The spacing at the end is
  `h_min`. Seeds below the floor, equal to the interval and above it, three
  accepting and three rejecting factors. Sizes below the spacing, at the floor,
  cut by the end, carried past it by rounding (`t = 32` is reached) and
  underflowing to zero all occur. The reduced kernel starts with 7 (`OneSecond`)
  on two species: species 0 reads both, species 1 only itself, so one can
  freeze, or be lost, alone or because of the other. Registers are the swapped
  species and the tolerances 1 and 2, so that reading them by register makes a
  difference; rates of 0 and 2 at threshold 1 put a species on either side. The
  theorems remove the bounds for everything but the liveness.
* `checkpoint`: four slots, an interval of 12 entered with steps of at most 4,
  two forward calls. Four slots separate "one step too many" from "twice the
  buffer", and a second call with fewer steps than the first leaves stale slots.
* `adjoint_duality` and `register_order` (`Sensitivity`): two species give a
  Jacobian that does not commute with its transpose, and a permutation that is
  not the identity.
* `symbolic_lu`: fill-in that causes further fill-in, and two blocks of two
  species, need four species, and all 4,096 structures over four are planned.
  Plans of those coupling three species are executed on all values in {1, 2}
  modulo 3 and every active set. The compact tables are run for the identity and
  for Chapman's permutation, which is not its own inverse. For the sweeps, three
  stages give each kind of coupling (adjacent and skipping a stage); both sides
  of the identity are linear in the perturbation and in the adjoint variable, so
  unit vectors decide it. The theorems remove the bounds, those on permutations
  included, for the six properties of `SymbolicLU` and for
  `CompactKernelAgrees`, and those on the tableau, the stages and the step sizes
  for `IncrementsAreTransposes`; Chapman's tables are compared as they are.
* `batch_dispatch`: 5 and 3 cells in teams of 2 (neither divides), an empty
  batch, a single cell in a team of 64; array sizes below and above the
  capacity; faults in the first, a middle and the last cell.
* `handle_api`: two contexts are the least that can be moved over each other;
  two addresses make reuse happen while another handle lives; the three
  mechanisms are those the checks tell apart.
* `campaign`: two solvers make two orders, so three blocks leave one over after
  a full cycle; a minimum of two blocks makes a partial file admissible; counts
  1 and 2 let a pilot be repeated once or fail; a campaign and its rerun on the
  same files, each dying anywhere. The theorems remove all of these bounds but
  the number of solvers, of which `balanced_order` admits three at most.
* `compile_cache`: two compilers, one edit of the document or of the compiler,
  and four inodes for two names and two open files. Compilers and inodes are
  interchangeable; symmetry is used with invariants only. Two writers with a
  third process reading need three compilers: with `Compilers = {c1, c2, c3}`
  and `MaxEdits = 0` the same invariants hold (67,267 states, some 20 s); with
  an edit besides, that instance takes longer than a run should.

Deadlock is checked in `batch_dispatch`, `handle_api` and `compile_cache`. In
the others the modelled activity ends: a call returns, the bounded number of
forward calls is used up, a plan has been executed, the last session has ended.

### Fairness

* `Reduction`: `WF_kernelVars(KernelNext)`. Each loop is straight code in one
  kernel; there is nothing to wait for. `KernelTermination` is conditional: the
  code has no step limit, and a cell whose error test refuses every tiny step
  loops for ever, as does a reduced one that accepts such steps for ever without
  the clock moving or the size growing. The property excludes exactly these
  (`RefusesTinyStep` or `LingersAtTinyStep` occurring for ever) and says that
  nothing else can keep a call from returning, not rounding, not underflow of a
  size that later recovers, not the memory of rejections. `UnjudgedCellReturns`
  has no such condition: a cell the error test cannot judge is accepted with
  full growth every time. `EmptyStepNeverReturns` states the other side, the
  step that has become zero and stays zero. An attempt that changes no variable
  of the kernel would be a stutter; the history variable `parity` makes it a
  step.
* `Checkpoint`: weak fairness of the running kernel's steps; the host need not
  start another kernel. `ForwardReturns` is unconditional, since here
  acceptances use up the buffer and rejections shrink an integral size to zero.
* The remaining specifications state no fairness and no liveness.

## 4. What is proved

All proofs are checked by TLAPS from the modules' definitions and the named
assumptions of their constants; nothing is assumed besides.

**ReductionProofs.** First `integrate()` on its own, from `DtTotalAssumption`,
`HMinAssumption`, `TimesAssumption`, `SpacingAssumption`, `DensityAssumption`,
`RestAssumption`, `FirstStepsAssumption` and `FactorsAssumption`. The inductive
invariant `IInv` is

* `TypeOK`;
* `FlagsCountRejections`, needed because the choice between the two rules of
  shrinking and the ban on growth read the flags;
* `FailedSizeIsNotRetried`, with `RejectionIsRemembered`: while the last attempt
  was refused there is a remembered size. A rejection shrinks below the size it
  remembers, the acceptance after it is barred from growing, and the next one
  forgets it; without the flag tied to the memory the middle step would not
  follow;
* `BelowFloorOnlyInRecovery`, which `IntegrateKeepsFloor` states of the runs of
  `integrate`.

`FloorMovesClock` follows per step: two clock values closer than `2 * HMin`
(`SpacingAssumption`) cannot both be missed by a sum that adds at least `HMin`.
`Refinement` proves the safety part of `ImplementsOuterStep`; `OuterStep` has no
fairness, so that is all of it. Its core is `RoundedSum`: a cut step added to
the clock lands at most on `JustPast`. In the second half of the interval the
difference is exact and the sum at most `DtTotal`. In the first half the
difference lies well inside the interval, where doubles are no further apart
than `DtTotal` and `JustPast` are (`DensityAssumption`), so rounding adds at
most half of that distance (`RestBounds`); the sum is then no further than
halfway past the end, and the value nearest to it is at most `JustPast`. A
difference that rounds is at least `HMin` (as `4 * HMin <= DtTotal`), so such a
step moves the clock like any other that is not cut.

Then both kernels, from the same assumptions and `OneSecondAssumption`,
`OrdersAssumption`, `RatesAssumption`. The invariant `KInv` is the two type
invariants, `IInv` in a run of `integrate`, and `NoMemory` in a reduced run,
whose flags are never touched. `NaNConfined` needs in addition that only active
species are damaged and that an active one is readable, so everything it reads
is a number. `EmptyStepIsForever` takes `dt = 0` with `~returned` as an
invariant of its own from the moment it occurs: products of zero are zero, and a
clock before the end stays there.

**CheckpointProofs.** The invariant `IInv` is `TypeOK`, `BufferIsTrajectory`,
`OverflowLeavesOneStepUnrecorded`, and two parts that say what the counters
stand for: `ForwardInv` (while the forward kernel runs, and after it unless the
buffer was too small, `num_steps` is the number of accepted steps) and
`SweepInv` (the slots a sweep has visited are those on its side of the cursor,
in its order). Without the first, the slot filled next need not be that of the
step just accepted; without the second, a cursor at its end would say nothing
of the slots before it.

**BatchDispatchProofs.** `Division` and `TeamsSuffice` give the arithmetic of
the two rounded-up divisions, `Partition` the result: for every number of cells
and every team size the teams' cells are disjoint and cover the batch. The
invariant is `TypeOK`, `shared \in {0, Capacity}` and, per caller, `OnTrack`:
a cell is either pending in exactly one pair of `left` and untouched, or done,
and then visited or marked. `OnTrack` is what turns "each pair is executed once"
into "each cell is", and makes the count of `Summarize` complete.

**HandleApiProofs.** The invariant is `TypeOK`, `Exclusive` (different contexts
never hold the same handle, and each allocated address is held), and the three
remaining properties, which are inductive only together: a binding reaches
the right handle because nobody else holds it. `Exclusive` is `OneOwner` without
sets of owners; the lemma `Ownership` leads from the one to the other.

**CompileCacheProofs.** The invariant is `TypeOK`; `KeysApart` (an open file
belongs to one key); `InHand` (what a process is about to store is what it
parsed); `GoneWhenRaced`; `Tied` and `FilesBelong` (what a process holds, and
every file, named or only open, is made of blocks of its key's lowering), under
the condition `KeysIdentify`, which an edit between the two reads of a document
breaks; and `BeingStored`, which holds as long as no process has been killed:
what a named file lacks, somebody is about to write. `ServedOwnLowering` and
`FailsOnlyWhenRaced` follow from the conditional parts, `QuietCacheIsWhole` from
the last. The theorems are for any number of compilers, edits and inodes.

**SymbolicLUProofs.** From `SizesAssumption`, `PrimeAssumption`,
`ValuesAssumption` and, for the compact kernels, `OrdersAssumption`: for every number of species, every structure, with blocks
or without, and residues of any prime modulus. The invariant `IInv` is

* `PlanInv`, of the planner: `PivotInv` (species and pivots are divided among
  the blocks, the pivots of a block done in ascending order and each once),
  `PatternInv` (the rows of U and columns of L of planned pivots are complete,
  the others empty: an entry is structural or has a product of lesser pivots),
  `CodeInv` (every entry has its assignment, every assignment its entry, and
  subtracts the products of that entry), `ReadsFollowWrites` and the count of
  the fill (`CountInv`);
* `RunInv`, of the kernel: W is masked as the inactive species ask for, and
  each assignment carried out so far has written its register, whose equation
  holds of the values as they stand.

`EliminationRule` brings a symbolic elimination, pivot after pivot over all
species, to the rule by which the planner fills in its blocks; by induction on
the lesser of row and column the two agree on one structure, in whatever order
the blocks are taken (`PlanHasPattern`). `FillFollowsPathsHolds` goes on from
there to paths. A position of the pattern is joined, since the path over an
eliminated species is put together of two shorter ones (`PatternIsJoined`). For
the converse, take the closure of the couplings that lets only species below `m`
lie between: for `m` the lesser of `i` and `j` it holds whatever such a path
reaches from `i` (`JoinedIsPattern`), and among species from `m` on it is within
the pattern (`StageIsPattern`). `BlocksIgnoreLabels` needs no plan: blocks are
independent exactly if each coupling has a path back (`IndependentMeansMutual`),
and a relabelling carries paths to paths (`ReachOfPermuted`, from `Reach` being
the least transitive relation that holds the couplings).

Once the code has run, the equations of the registers (`FactorEquations`) add up
to `L * U = W`, inside the pattern and outside it, where all products vanish
(`FactorsMultiply`). A substitution is any solution of a triangular recursion
(`IsSubstitution`), which solves its system row by row; two of them solve the
product (`SolveChain`), and the same chain serves the transposed and the reduced
solve, the last with the factors of frozen rows (`FrozenFactors`). The model's
sums and recursive functions are not unfolded: lemmas by least counterexample
over sets of numbers (`Least`, `NatInduct`, `Recursion`, `Agreement`) say that a
function with such an equation exists, is unique and has the values claimed.
Division is by the inverse that a prime modulus gives every residue but zero,
and where a pivot vanishes the kernel does not reach `factorized`, as in the
properties.

`CompactKernelAgreesHolds` rests on the same invariant and on five facts about
tables. `Slot` numbers any finite set of locations from 0 without gaps, so
`Located` inverts it. What `JSlots` looks up under a permutation is the
derivative of that register, so `WValues` holds W. By induction along the
traversal, `operations[n]` describes the entry visited at `n`: its output, its
entry of W or -1, the diagonal it is divided by or -1, and a range of `products`
that later entries leave alone. Every operand of a product, and the diagonal,
was visited sooner, so by a second induction the slots written hold the
registers of the unrolled code: the sum over the range is the sum over the
pivots in `Inner`, which is what the register's equation subtracts. For the
substitutions, the places of a row, between its two offsets, are one-to-one with
the columns it stores, and both kernels are the same recursion over rows.

**PlannedSweepProofs.** From the assumptions of `SymbolicLUProofs`,
`TableauAssumption` and `StepSizesAssumption`: for every number of stages, every
`A`, `C`, `M` and `Gamma` a tableau may hold, and every step. The invariant is
that of `SymbolicLU`; from it the planned substitutions solve with W and with
its transpose (`PlannedSolutions`), and W is that of the step's Jacobian
(`JacobianOfStep`). By induction over the unrolled lists, the stages of either
sweep satisfy their equations (`TlmStagesHold`, `AdjStagesHold`). Sums of
products are linear in both vectors, and a matrix moves to the other one
transposed (`DotApply`); so `u[i] . (W * dK[i])` can be read off both stage
equations (`TlmRow`, `AdjRow`). Summed over the stages, both readings hold the
coupling of each pair of stages once, one by rows and the other by columns
(`CouplingSums`, `TotalExchange`); they cancel, and what is left is
`lam . (sum of M_i * dK[i]) = (sum of u[i]) . (J * dC)` (`IncrementsAreDual`),
for any `dC` and `lam`. The unit vectors select the entries the property
compares.

**CampaignProofs.** The invariant is a type invariant, `RunningInv` (what a
session in progress holds in memory agrees with what it has transcribed) and
`OutputInv`: every record of the output has a place in its session's plan, and
the output holds the records of all earlier places of that session too. For
the evidence there are besides `FilesInv` (what the output holds of a session is
in the transcript, what the transcript calls a measurement was preceded in the
output by all earlier turns, and both follow the turns) and `ProgressInv` (how
far each file may be at each step of a session).

`EvidenceIsKept` follows: a line of the transcript that is not the session's
last was preceded into the output by the next one. For
`ComparableIsOneSessionHolds`, a session that has measured a block has measured
every earlier one with all solvers, so a series that mixed two sessions would
hold block 0 twice, which `Frozen` refuses. The bound on `Led` is counted: a
block that ran `a` first has a partner in its cycle with `a` and `b` exchanged;
only blocks of the last cycle can lack it in the output (`PartnerOfLeftCycle`,
since a whole cycle takes every order, `WholeCycle`), those have different
orders, and at most half of all orders run `a` first (`HalfOfTheOrders`).

**Only model-checked.** Liveness, which is outside the prover:
`KernelTermination`, `UnjudgedCellReturns`, `ForwardReturns`.
And `EmittedChapmanIsPlanned`, which compares the data of one mechanism. Every
other property of a passing run has its theorem.

## 5. What is not modelled

* Real arithmetic, tableau order conditions, the chemistry itself, SymPy's
  algebra.
* Generated code. Nearly all lines of the implementation are emitted headers
  under `src/mkpp-generated/` (`ts1.hpp` and `ts1/supernodal_factorize.hpp`
  alone are half of it): straight-line assignments of one mechanism after
  another. `SymbolicLU` models the planner that produces them, for every
  structure; of the data only Chapman's tables are copied and compared. The
  share of lines the modules cite is small for that reason.
* `factorization_plan.py`: a report written beside the code, which no kernel
  reads. The headers called `supernodal_factorize` and `supernodal_solve` hold
  the tables and kernels of `CompactPlan`.
* Of the campaign: several targets, calibration, audit, admission by status, and
  a campaign without a `sampling` section (`cli.py:319`), which measures one
  block at count 1 without pilots and so has nothing to settle or to balance.
  The chain of statuses in `orchestrator.py` is called by tests only; nothing in
  the driver consults it.
* Of emission: the order of writes and what an interrupted compile leaves.
* Of the dispatcher: the checks of a cell's parameters before the launch.
* The Fortran module: it checks shapes and keeps no state. It takes the address
  of the first element of an array without a contiguity check in
  `mkpp_set_state_ptrs`, unlike the parameter binding; noted as a hazard.
* `last_error_msg`: a refused `dt` and a null argument do not set it, so a C++
  exception may carry the text of an older failure; noted as a hazard.
* Serial and range launches of the dispatcher, which keep no state.
* The parts listed `not_modelled` in section 1 that are formatting, constants,
  compile-time tables or numerics of a library.

## 6. Where code and documentation disagree

Each is the counterexample of a run, quoted in `PROJECT.json`.

* `register_order`: the sweeps read `delta_C(k)` and `lambda(k)` by register,
  so with a permutation other than the identity entry `k` is not species `k`.
* `adjoint_duality`: the emitted adjoint step adds the sum of the stage adjoints
  without the Jacobian factor; the identity the Python test states for its own
  re-implementation does not hold for it. `IncrementsAreTransposes` of
  `symbolic_lu` shows that the factor is all that is missing.
* `cache_hit`: a cache hit generates code without photolysis slots, flux
  expressions and equilibrium results that a miss has.
* `cache_upgrade`: the cache key covers two source files, its comment promises
  any change to the compiler.
* `checkpoint_entry`: slots hold the state at step exit, their comment says
  entry.

Read in passing, without a run: `tests/contract/test_cpp_api.cpp` expects
`getSpeciesIndex` of an unknown name to return -1 where `mkpp.hpp.j2` throws;
`aerosol_surface_area` can be bound and is never read. `integrate()` says that
tolerances are stored in physical species order; `integrate_with_reduction`
reads them by register. `predict_fill_in` and the plan may disagree: four
species coupled as a star around species 0 are predicted six positions of
fill-in, while the plan, made after reverse Cuthill-McKee, fills in none; so
`fill_in_positions` of the analysis and `fill_in_count` of the plan describe
different orders of elimination, and only the count is reported. A partial
output of at least `minimum_blocks` blocks is admitted by
`require_comparable_pairs` whether or not the campaign finished.

## 7. Plan

Done, in this order: `OuterStep` and `StepControl` with proofs; `Checkpoint`;
`Sensitivity`; `SymbolicLU`; `CompileCache`; `BatchDispatch` with proofs;
`HandleApi` with proofs; `Reduction` with proofs, and the refinement of
`OuterStep` by both kernels; proofs of `Checkpoint`; `CompactPlan` and
`ChapmanPlan` on top of `SymbolicLU`; the sweeps composed with the plan
(`Sweep`, `PlannedSweep`); `Campaign` with proofs; proofs of `CompileCache`,
`SymbolicLU`, `CompactPlan` and `PlannedSweep`.
Runs that ask related questions were merged along the way: both kernels in
`step_control`, the plans and the sweeps in `symbolic_lu`.

To do, most important first:

1. `EmitArtifacts`: order of writes and removals of `codegen.py`, interruption,
   two compiles into one directory; the manifest against the files.
2. The sequences of a host: `HandleApi` composed with `BatchDispatch`
   (validation, then launch), and the Fortran checks.
3. `Campaign` over several targets, with its calibration and audit.
