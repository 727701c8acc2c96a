--------------------------- MODULE BatchDispatch ---------------------------
(***************************************************************************)
(* Batched integration as mkpp_host/dispatcher.hpp launches it: a league   *)
(* of teams, each with a range of the cells, the zero-filled forcing array *)
(* that all callers share, and the status buffer that comes back.          *)
(*                                                                         *)
(* The callers are threads of the host model.  Each passes its own state   *)
(* and status views; what it finds in its state at a call (which cells are *)
(* not finite) is its own affair.  The cells of a launch run in any order, *)
(* the teams and their threads side by side.                               *)
(***************************************************************************)
EXTENDS Integers, FiniteSets

CONSTANTS
  Callers,
  NoCaller,
  Batches,   \* per caller, the pairs <<number of cells, team size>> it uses
  Faults,    \* bound: the sets of cells that may hold a non-finite value
  Extents,   \* forcing sizes asked of zero_jvals: 512 here, jvals_extent in
             \* ParamsTiledCellIntegrator, whose launches share the array
  Capacity,  \* kCapacity
  Slots      \* number of forcing slots the kernel reads

ASSUME BatchesAssumption ==
  \A c \in Callers : \A b \in Batches[c] : b \in Nat \X (Nat \ {0})
ASSUME NoCallerAssumption == NoCaller \notin Callers
ASSUME ExtentsAssumption == Extents \subseteq Nat /\ Capacity \in Nat \ {0}
\* "Sized above every mechanism's reaction-slot count", dispatcher.hpp:45
ASSUME SlotsAssumption == Slots \in Nat /\ Slots <= Capacity

VARIABLES
  pc,       \* what each caller is doing
  batch,    \* cells and team size of its last call
  extent,   \* the array size it asks for
  faulty,   \* cells that are not finite when the kernel looks at them
  view,     \* jvals_view
  left,     \* pairs <<team, cell>> of the launch still to run
  visits,   \* history: how often each cell was run in this launch
  status,   \* cells whose entry in the status buffer is not SUCCESS
  before,   \* history: status at the call
  reported, \* faulted_cells of the last launch
  shared,   \* size of the shared zero array, 0 before it is made
  builder   \* the caller running the static initializer

callVars == <<batch, extent, faulty, before>>
vars == <<pc, batch, extent, faulty, view, left, visits, status, before, reported,
          shared, builder>>

Cells(n) == 0..(n - 1)
NumCells(c) == batch[c][1]
NoView == [own |-> FALSE, length |-> 0]

------------------------------------------------------------------------------
\* The partition of the cells over the league.

NumTeams(n, size) == (n + size - 1) \div size

\* Fault: the division rounds down.
CellsPerTeamFloor(n, teams) == n \div teams

\* (num_cells + num_teams - 1) / num_teams
CellsPerTeam(n, teams) == (n + teams - 1) \div teams

\* Fault: the last range is not cut at the end of the batch.
TeamCellsUncut(rank, n, teams) ==
  LET begin == rank * CellsPerTeam(n, teams)
      end   == begin + CellsPerTeam(n, teams)
  IN  begin..(end - 1)

\* From begin_cell up to end_cell.
TeamCells(rank, n, teams) ==
  LET begin == rank * CellsPerTeam(n, teams)
      end   == begin + CellsPerTeam(n, teams)
  IN  begin..((IF end < n THEN end ELSE n) - 1)

\* All the work of a launch.
League(n, size) ==
  LET teams == NumTeams(n, size)
  IN  UNION {{rank} \X TeamCells(rank, n, teams) : rank \in 0..(teams - 1)}

------------------------------------------------------------------------------
Init ==
  /\ pc = [c \in Callers |-> "idle"]
  /\ batch = [c \in Callers |-> <<0, 1>>]
  /\ extent = [c \in Callers |-> 0]
  /\ faulty = [c \in Callers |-> {}]
  /\ view = [c \in Callers |-> NoView]
  /\ left = [c \in Callers |-> {}]
  /\ visits = [c \in Callers |-> [i \in {} |-> 0]]
  /\ status = [c \in Callers |-> {}]
  /\ before = [c \in Callers |-> {}]
  /\ reported = [c \in Callers |-> 0]
  /\ shared = 0
  /\ builder = NoCaller

\* A call of execute_mechanism_steps_batched without forcing.  The status
\* buffer is a new one, or that of the previous call when it has the size.
Call(c) ==
  /\ pc[c] = "idle"
  /\ pc' = [pc EXCEPT ![c] = "resolving"]
  /\ \E b \in Batches[c], e \in Extents, f \in Faults :
       /\ batch' = [batch EXCEPT ![c] = b]
       /\ extent' = [extent EXCEPT ![c] = e]
       /\ faulty' = [faulty EXCEPT ![c] = f \intersect Cells(b[1])]
       /\ visits' = [visits EXCEPT ![c] = [i \in Cells(b[1]) |-> 0]]
       /\ \E kept \in {{}} \union (IF b[1] = NumCells(c) THEN {status[c]} ELSE {}) :
            /\ status' = [status EXCEPT ![c] = kept]
            /\ before' = [before EXCEPT ![c] = kept]
  /\ UNCHANGED <<view, left, reported, shared, builder>>

\* The first caller runs the initializer of the function-local static, the
\* others wait for it.
BeginStatic(c) ==
  /\ pc[c] = "resolving"
  /\ shared = 0
  /\ builder = NoCaller
  /\ builder' = c
  /\ UNCHANGED <<pc, callVars, view, left, visits, status, reported, shared>>

EndStatic(c) ==
  /\ builder = c
  /\ shared' = Capacity
  /\ builder' = NoCaller
  /\ UNCHANGED <<pc, callVars, view, left, visits, status, reported>>

\* Fault: the shared array is reallocated when a caller asks for more.
SharedAfterGrown(e) == IF e > shared THEN e ELSE shared

\* The array is made once and never resized.
SharedAfter(e) == shared

\* zero_jvals: the shared array, or one of the caller's own.
ZeroView(e) ==
  IF e <= shared THEN [own |-> FALSE, length |-> shared] ELSE [own |-> TRUE, length |-> e]

\* resolve_jvals, then the launch: every team finds its range of cells.
Launch(c) ==
  /\ pc[c] = "resolving"
  /\ shared > 0
  /\ pc' = [pc EXCEPT ![c] = "running"]
  /\ shared' = SharedAfter(extent[c])
  /\ view' = [view EXCEPT ![c] = ZeroView(extent[c])]
  /\ left' = [left EXCEPT ![c] = League(NumCells(c), batch[c][2])]
  /\ UNCHANGED <<callVars, visits, status, reported, builder>>

\* A cell that is not finite is marked and left alone.
SkipCell(c, rc) ==
  /\ rc \in left[c]
  /\ rc[2] \in faulty[c]
  /\ status' = [status EXCEPT ![c] = @ \union {rc[2]}]
  /\ left' = [left EXCEPT ![c] = @ \ {rc}]
  /\ UNCHANGED <<pc, callVars, view, visits, reported, shared, builder>>

\* Any other is integrated, reading the forcing array.
RunCell(c, rc) ==
  /\ rc \in left[c]
  /\ rc[2] \notin faulty[c]
  /\ visits' = [visits EXCEPT ![c][rc[2]] = @ + 1]
  /\ left' = [left EXCEPT ![c] = @ \ {rc}]
  /\ UNCHANGED <<pc, callVars, view, status, reported, shared, builder>>

\* Fault: the status buffer is read while teams still run.
FinishedAtLaunch(c) == pc[c] = "running"

\* create_mirror_view_and_copy waits for the kernel.
Finished(c) == pc[c] = "running" /\ left[c] = {}

Summarize(c) ==
  /\ Finished(c)
  /\ pc' = [pc EXCEPT ![c] = "idle"]
  /\ reported' = [reported EXCEPT ![c] = Cardinality(status[c])]
  /\ view' = [view EXCEPT ![c] = NoView]
  /\ UNCHANGED <<callVars, left, visits, status, shared, builder>>

Next ==
  \E c \in Callers :
    \/ Call(c)
    \/ BeginStatic(c)
    \/ EndStatic(c)
    \/ Launch(c)
    \/ \E rc \in left[c] : SkipCell(c, rc) \/ RunCell(c, rc)
    \/ Summarize(c)

Spec == Init /\ [][Next]_vars

------------------------------------------------------------------------------
Views == [own : BOOLEAN, length : Nat]

TypeOK ==
  /\ pc \in [Callers -> {"idle", "resolving", "running"}]
  /\ batch \in [Callers -> Nat \X (Nat \ {0})]
  /\ extent \in [Callers -> Nat]
  /\ left \in [Callers -> SUBSET (Nat \X Nat)]
  /\ faulty \in [Callers -> SUBSET Nat]
  /\ status \in [Callers -> SUBSET Nat]
  /\ before \in [Callers -> SUBSET Nat]
  /\ visits = [c \in Callers |-> visits[c]]
  /\ view \in [Callers -> Views]
  /\ \A c \in Callers :
       /\ left[c] \subseteq Nat \X Cells(NumCells(c))
       /\ faulty[c] \subseteq Cells(NumCells(c))
       /\ status[c] \subseteq Cells(NumCells(c))
       /\ before[c] \subseteq Cells(NumCells(c))
       /\ visits[c] \in [Cells(NumCells(c)) -> Nat]
  /\ reported \in [Callers -> Nat]
  /\ shared \in Nat
  /\ builder \in Callers \union {NoCaller}

\* When a call returns, every cell that was finite was integrated by exactly
\* one thread of one team, and no other cell was touched.
EachCellOnce ==
  \A c \in Callers :
    pc[c] = "idle" =>
      \A i \in Cells(NumCells(c)) : visits[c][i] = (IF i \in faulty[c] THEN 0 ELSE 1)

\* The faults reported are those of this batch, and those the host left in
\* a buffer it used before; no team is still at work when they are counted.
ReportIsComplete ==
  \A c \in Callers :
    pc[c] = "idle" => reported[c] = Cardinality(before[c] \union faulty[c])

\* No call of another thread takes the forcing array away from a kernel, and
\* the kernel reads inside it even when the size asked for is smaller.
ForcingStaysAlive ==
  \A c \in Callers :
    pc[c] = "running" =>
      /\ view[c].length >= Slots
      /\ view[c].own \/ view[c].length = shared
==============================================================================
