------------------------ MODULE BatchDispatchProofs ------------------------
(***************************************************************************)
(* The batched launch is proved for any number of callers, cells and any   *)
(* team size: the ranges of the teams are a partition of the cells, and    *)
(* from it every cell is integrated or marked exactly once.                *)
(***************************************************************************)
EXTENDS BatchDispatch, FiniteSetTheorems, TLAPS

USE BatchesAssumption, NoCallerAssumption, ExtentsAssumption, SlotsAssumption

\* Division rounds down.
LEMMA Division ==
  ASSUME NEW a \in Nat, NEW b \in Nat \ {0}
  PROVE  a \div b \in Nat /\ b * (a \div b) <= a /\ a < b * (a \div b) + b
OBVIOUS

\* A batch that is not empty has a team, and its teams have room for it.
LEMMA TeamsSuffice ==
  ASSUME NEW n \in Nat \ {0}, NEW size \in Nat \ {0}
  PROVE  /\ NumTeams(n, size) \in Nat \ {0}
         /\ CellsPerTeam(n, NumTeams(n, size)) \in Nat \ {0}
         /\ n <= NumTeams(n, size) * CellsPerTeam(n, NumTeams(n, size))
<1> DEFINE teams == NumTeams(n, size)
           per   == CellsPerTeam(n, teams)
<1>1. teams \in Nat \ {0}
  <2>1. n + size - 1 \in Nat /\ n + size - 1 >= size
    OBVIOUS
  <2>2. teams \in Nat /\ n + size - 1 < size * teams + size
    BY <2>1, Division DEF NumTeams
  <2>3. teams # 0
    BY <2>1, <2>2
  <2> QED BY <2>2, <2>3
<1> HIDE DEF teams
<1>2. per \in Nat /\ n + teams - 1 < teams * per + teams
  BY <1>1, Division, n + teams - 1 \in Nat DEF CellsPerTeam
<1>3. n <= teams * per
  BY <1>1, <1>2
<1>4. per # 0
  BY <1>1, <1>3
<1> QED BY <1>1, <1>2, <1>3, <1>4 DEF teams

\* A cell belongs to the team whose number is the cell's quotient by the size
\* of a range, and to no other.
LEMMA Partition ==
  ASSUME NEW n \in Nat, NEW size \in Nat \ {0}
  PROVE  /\ League(n, size) \subseteq Nat \X Cells(n)
         /\ \A i \in Cells(n) : \E rank : <<rank, i>> \in League(n, size)
         /\ \A r, q, i : <<r, i>> \in League(n, size) /\ <<q, i>> \in League(n, size) => r = q
<1> DEFINE teams == NumTeams(n, size)
           per   == CellsPerTeam(n, teams)
<1>0. CASE n = 0
  <2>1. teams = 0
    <3>1. n + size - 1 \in Nat /\ n + size - 1 < size
      BY <1>0
    <3>2. teams \in Nat /\ size * teams <= n + size - 1
      BY <3>1, Division DEF NumTeams
    <3> QED BY <3>1, <3>2
  <2>2. League(n, size) = {}
    BY <2>1 DEF League
  <2> QED BY <1>0, <2>2 DEF Cells
<1>1. CASE n # 0
  <2>1. teams \in Nat \ {0} /\ per \in Nat \ {0} /\ n <= teams * per
    BY <1>1, TeamsSuffice
  <2>2. \A r, i : <<r, i>> \in League(n, size)
           <=> r \in 0..(teams - 1) /\ i \in TeamCells(r, n, teams)
    BY DEF League
  <2>3. \A r \in 0..(teams - 1) : \A i :
           i \in TeamCells(r, n, teams)
             <=> i \in Int /\ r * per <= i /\ i < r * per + per /\ i < n
    BY <2>1 DEF TeamCells
  <2> HIDE DEF teams, per
  <2>4. \A r \in 0..(teams - 1) : r * per \in Nat
    BY <2>1
  <2>5. League(n, size) \subseteq Nat \X Cells(n)
    <3>1. \A p \in League(n, size) : p = <<p[1], p[2]>>
      BY DEF League
    <3>2. ASSUME NEW p \in League(n, size)
          PROVE  p \in Nat \X Cells(n)
      <4>1. p[1] \in 0..(teams - 1) /\ p[2] \in TeamCells(p[1], n, teams)
        BY <3>1, <3>2, <2>2
      <4>2. p[2] \in Int /\ p[1] * per <= p[2] /\ p[2] < n
        BY <4>1, <2>3
      <4> QED BY <3>1, <4>1, <4>2, <2>4, <2>1 DEF Cells
    <3> QED BY <3>2
  <2>6. ASSUME NEW i \in Cells(n)
        PROVE  \E rank : <<rank, i>> \in League(n, size)
    <3> DEFINE rank == i \div per
    <3>1. i \in Nat /\ i < n
      BY DEF Cells
    <3>2. rank \in Nat /\ per * rank <= i /\ i < per * rank + per
      BY <2>1, <3>1, Division
    <3>3. rank < teams
      <4> HIDE DEF rank
      <4>1. per * rank < teams * per
        BY <2>1, <3>1, <3>2
      <4> QED BY <2>1, <3>2, <4>1
    <3> HIDE DEF rank
    <3>4. i \in TeamCells(rank, n, teams)
      BY <2>1, <2>3, <3>1, <3>2, <3>3
    <3>5. <<rank, i>> \in League(n, size)
      BY <2>1, <2>2, <3>2, <3>3, <3>4
    <3> QED BY <3>5
  <2>7. ASSUME NEW r, NEW q, NEW i,
               <<r, i>> \in League(n, size), <<q, i>> \in League(n, size)
        PROVE  r = q
    <3>1. r \in 0..(teams - 1) /\ q \in 0..(teams - 1)
      BY <2>2, <2>7
    <3>2. i \in Int /\ r * per <= i /\ i < r * per + per
      BY <2>2, <2>3, <2>7
    <3>3. i \in Int /\ q * per <= i /\ i < q * per + per
      BY <2>2, <2>3, <2>7
    <3>4. ~(r < q) /\ ~(q < r)
      BY <2>1, <3>1, <3>2, <3>3
    <3> QED BY <2>1, <3>1, <3>4
  <2> QED BY <2>5, <2>6, <2>7
<1> QED BY <1>0, <1>1
------------------------------------------------------------------------------
\* Cell i is in the launch of c and has not had its turn.
Pending(c, i) == \E rank : <<rank, i>> \in left[c]

\* What the launch of c has done so far is what it did to the cells that had
\* their turn, and the forcing it reads is in place.
OnTrack(c) ==
  /\ left[c] \subseteq League(NumCells(c), batch[c][2])
  /\ pc[c] # "running" => left[c] = {}
  /\ pc[c] = "resolving" =>
       /\ \A i \in Cells(NumCells(c)) : visits[c][i] = 0
       /\ status[c] = before[c]
  /\ pc[c] # "resolving" =>
       /\ \A i \in Cells(NumCells(c)) :
            visits[c][i] = (IF i \in faulty[c] \/ Pending(c, i) THEN 0 ELSE 1)
       /\ status[c] = before[c] \union {i \in faulty[c] : ~Pending(c, i)}
  /\ pc[c] = "idle" => reported[c] = Cardinality(status[c])
  /\ pc[c] = "running" =>
       /\ shared = Capacity
       /\ view[c].length >= Slots
       /\ view[c].own \/ view[c].length = Capacity

IInv ==
  /\ TypeOK
  /\ shared \in {0, Capacity}
  /\ \A c \in Callers : OnTrack(c)

\* A set of cells is finite.
LEMMA CellsFinite ==
  ASSUME NEW n \in Nat, NEW S \in SUBSET Cells(n)
  PROVE  IsFiniteSet(S) /\ Cardinality(S) \in Nat
BY FS_Interval, FS_Subset, FS_CardinalityType, 0 \in Int, n - 1 \in Int DEF Cells

LEMMA InitHolds == Init => IInv
<1> SUFFICES ASSUME Init PROVE IInv
  OBVIOUS
<1>1. Cells(0) = {}
  BY DEF Cells
<1>2. TypeOK
  BY <1>1 DEF Init, TypeOK, NumCells, NoView, Views
<1>3. \A c \in Callers : OnTrack(c)
  BY <1>1, FS_EmptySet DEF Init, OnTrack, NumCells, Pending
<1> QED BY <1>2, <1>3 DEF IInv, Init

\* A step that leaves alone what belongs to d leaves d on track.
LEMMA Bystander ==
  ASSUME IInv, NEW d \in Callers,
         pc'[d] = pc[d], batch'[d] = batch[d], faulty'[d] = faulty[d],
         left'[d] = left[d], visits'[d] = visits[d], status'[d] = status[d],
         before'[d] = before[d], reported'[d] = reported[d], view'[d] = view[d],
         shared' = shared \/ shared' = Capacity
  PROVE  OnTrack(d)'
<1>1. OnTrack(d)
  BY DEF IInv
<1>2. NumCells(d)' = NumCells(d)
  BY DEF NumCells
<1>3. \A i : Pending(d, i)' <=> Pending(d, i)
  BY DEF Pending
<1>4. batch'[d][2] = batch[d][2]
  OBVIOUS
<1>5. (shared = Capacity => shared' = Capacity)
  OBVIOUS
<1>6. {i \in faulty'[d] : ~Pending(d, i)'} = {i \in faulty[d] : ~Pending(d, i)}
  BY <1>3
<1> QED BY <1>1, <1>2, <1>3, <1>4, <1>5, <1>6 DEF OnTrack

LEMMA CallHolds == ASSUME IInv, NEW c \in Callers, Call(c) PROVE IInv'
<1> USE DEF IInv
<1>1. PICK b \in Batches[c], e \in Extents, f \in Faults :
        /\ batch' = [batch EXCEPT ![c] = b]
        /\ extent' = [extent EXCEPT ![c] = e]
        /\ faulty' = [faulty EXCEPT ![c] = f \intersect Cells(b[1])]
        /\ visits' = [visits EXCEPT ![c] = [i \in Cells(b[1]) |-> 0]]
        /\ \E kept \in {{}} \union (IF b[1] = NumCells(c) THEN {status[c]} ELSE {}) :
             /\ status' = [status EXCEPT ![c] = kept]
             /\ before' = [before EXCEPT ![c] = kept]
  BY DEF Call
<1>2. PICK kept \in {{}} \union (IF b[1] = NumCells(c) THEN {status[c]} ELSE {}) :
        /\ status' = [status EXCEPT ![c] = kept]
        /\ before' = [before EXCEPT ![c] = kept]
  BY <1>1
<1>3. b \in Nat \X (Nat \ {0}) /\ kept \subseteq Cells(b[1]) /\ e \in Nat
  BY <1>1, <1>2 DEF TypeOK
<1>4. NumCells(c)' = b[1] /\ \A d \in Callers \ {c} : NumCells(d)' = NumCells(d)
  BY <1>1 DEF TypeOK, NumCells
<1>5. left[c] = {}
  BY DEF OnTrack, Call
<1>6. /\ pc' \in [Callers -> {"idle", "resolving", "running"}]
      /\ batch' \in [Callers -> Nat \X (Nat \ {0})]
      /\ extent' \in [Callers -> Nat]
      /\ faulty' \in [Callers -> SUBSET Nat]
      /\ status' \in [Callers -> SUBSET Nat]
      /\ before' \in [Callers -> SUBSET Nat]
      /\ visits' = [d \in Callers |-> visits'[d]]
  <2>1. f \intersect Cells(b[1]) \in SUBSET Nat /\ kept \in SUBSET Nat
    BY <1>3 DEF Cells
  <2> QED BY <2>1, <1>1, <1>2, <1>3 DEF TypeOK, Call
<1>7. ASSUME NEW d \in Callers
      PROVE  /\ left'[d] \subseteq Nat \X Cells(NumCells(d)')
             /\ faulty'[d] \subseteq Cells(NumCells(d)')
             /\ status'[d] \subseteq Cells(NumCells(d)')
             /\ before'[d] \subseteq Cells(NumCells(d)')
             /\ visits'[d] \in [Cells(NumCells(d)') -> Nat]
  <2>1. faulty'[c] = f \intersect Cells(b[1]) /\ status'[c] = kept /\ before'[c] = kept
          /\ visits'[c] = [i \in Cells(b[1]) |-> 0] /\ left'[c] = {}
    BY <1>1, <1>2, <1>5 DEF TypeOK, Call
  <2>2. CASE d = c
    BY <2>1, <2>2, <1>3, <1>4
  <2>3. CASE d # c
    BY <2>3, <1>1, <1>2, <1>4 DEF TypeOK, Call
  <2> QED BY <2>2, <2>3
<1>8. TypeOK'
  BY <1>6, <1>7 DEF TypeOK, Call
<1>9. OnTrack(c)'
  BY <1>1, <1>2, <1>3, <1>4, <1>5 DEF TypeOK, Call, OnTrack
<1>10. \A d \in Callers : d # c => OnTrack(d)'
  BY <1>1, <1>2, Bystander DEF Call, TypeOK
<1> QED BY <1>8, <1>9, <1>10 DEF Call

LEMMA StaticHolds ==
  ASSUME IInv, NEW c \in Callers, BeginStatic(c) \/ EndStatic(c) PROVE IInv'
<1> USE DEF BeginStatic, EndStatic, callVars
<1>1. TypeOK'
  BY DEF IInv, TypeOK, NumCells
<1>2. \A d \in Callers : OnTrack(d)'
  BY Bystander
<1> QED BY <1>1, <1>2 DEF IInv

LEMMA LaunchHolds == ASSUME IInv, NEW c \in Callers, Launch(c) PROVE IInv'
<1> USE DEF IInv
<1> DEFINE n == NumCells(c)
           size == batch[c][2]
<1>1. n \in Nat /\ size \in Nat \ {0}
  BY DEF TypeOK, NumCells
<1>2. shared = Capacity /\ shared' = shared
  BY DEF Launch, SharedAfter
<1>3. ZeroView(extent[c]) \in Views /\ ZeroView(extent[c]).length >= Slots
        /\ (ZeroView(extent[c]).own \/ ZeroView(extent[c]).length = Capacity)
  <2>1. CASE extent[c] <= shared
    BY <2>1, <1>2 DEF ZeroView, Views
  <2>2. CASE ~(extent[c] <= shared)
    BY <2>2, <1>2 DEF ZeroView, Views, TypeOK
  <2> QED BY <2>1, <2>2
<1>4. left'[c] = League(n, size) /\ \A d \in Callers \ {c} : left'[d] = left[d]
  BY DEF Launch, TypeOK
<1>5. League(n, size) \subseteq Nat \X Cells(n)
  BY <1>1, Partition
<1>6. ASSUME NEW i \in Cells(n) PROVE \E rank : <<rank, i>> \in left'[c]
  <2>1. PICK rank : <<rank, i>> \in League(n, size)
    BY <1>1, Partition
  <2>2. <<rank, i>> \in left'[c]
    BY <1>4, <2>1
  <2> QED BY <2>2
<1>7. \A i \in Cells(n) : Pending(c, i)'
  BY <1>6 DEF Pending
<1>8. \A d \in Callers : NumCells(d)' = NumCells(d)
  BY DEF Launch, callVars, NumCells
<1>9. TypeOK'
  <2>1. Nat \X Cells(n) \in SUBSET (Nat \X Nat)
    BY <1>1 DEF Cells
  <2>2. left' \in [Callers -> SUBSET (Nat \X Nat)]
    BY <1>5, <2>1 DEF TypeOK, Launch
  <2>3. \A d \in Callers : left'[d] \subseteq Nat \X Cells(NumCells(d))
    <3>1. left'[c] \subseteq Nat \X Cells(NumCells(c))
      BY <1>4, <1>5
    <3>2. \A d \in Callers \ {c} : left'[d] \subseteq Nat \X Cells(NumCells(d))
      BY <1>4 DEF TypeOK
    <3> QED BY <3>1, <3>2
  <2>4. view' \in [Callers -> Views] /\ shared' \in Nat
          /\ pc' \in [Callers -> {"idle", "resolving", "running"}]
    BY <1>2, <1>3 DEF TypeOK, Launch
  <2> QED BY <1>8, <2>2, <2>3, <2>4 DEF TypeOK, Launch, callVars
<1>10. OnTrack(c)'
  <2>1. pc[c] = "resolving" /\ pc'[c] = "running" /\ view'[c] = ZeroView(extent[c])
    BY DEF Launch, TypeOK
  <2>2. {i \in faulty'[c] : ~Pending(c, i)'} = {}
    BY <1>7 DEF TypeOK, Launch, callVars
  <2>3. UNCHANGED <<visits, status, before, batch>>
    BY DEF Launch, callVars
  <2> QED BY <1>2, <1>3, <1>4, <1>7, <1>8, <2>1, <2>2, <2>3 DEF OnTrack
<1>11. \A d \in Callers : d # c => OnTrack(d)'
  BY <1>2, <1>4, Bystander DEF Launch, callVars, TypeOK
<1> QED BY <1>2, <1>9, <1>10, <1>11

\* A pair is taken from the launch: its cell is not pending any more, for no
\* other team has it, and the others are as they were.
LEMMA TakenOnce ==
  ASSUME IInv, NEW c \in Callers, NEW rc \in left[c],
         left' = [left EXCEPT ![c] = @ \ {rc}]
  PROVE  /\ rc[2] \in Cells(NumCells(c)) /\ Pending(c, rc[2])
         /\ ~Pending(c, rc[2])'
         /\ \A i : i # rc[2] => (Pending(c, i)' <=> Pending(c, i))
<1>1. NumCells(c) \in Nat /\ batch[c][2] \in Nat \ {0}
  BY DEF IInv, TypeOK, NumCells
<1>2. left[c] \subseteq League(NumCells(c), batch[c][2])
  BY DEF IInv, OnTrack
<1>3. rc \in Nat \X Cells(NumCells(c))
  BY <1>1, <1>2, Partition
<1>4. rc = <<rc[1], rc[2]>>
  BY <1>3
<1>5. left'[c] = left[c] \ {rc}
  BY DEF IInv, TypeOK
<1>6. \A rank : <<rank, rc[2]>> \in left[c] => rank = rc[1]
  BY <1>1, <1>2, <1>4, Partition
<1>7. ~Pending(c, rc[2])'
  BY <1>4, <1>5, <1>6 DEF Pending
<1>8. ASSUME NEW i, i # rc[2]
      PROVE  Pending(c, i)' <=> Pending(c, i)
  <2>1. \A rank : <<rank, i>> # rc
    BY <1>4, <1>8
  <2> QED BY <1>5, <2>1 DEF Pending
<1>9. Pending(c, rc[2])
  BY <1>4 DEF Pending
<1> QED BY <1>3, <1>7, <1>8, <1>9

LEMMA SkipCellHolds ==
  ASSUME IInv, NEW c \in Callers, NEW rc \in left[c], SkipCell(c, rc) PROVE IInv'
<1> USE DEF SkipCell, callVars
<1>1. /\ rc[2] \in Cells(NumCells(c)) /\ Pending(c, rc[2]) /\ ~Pending(c, rc[2])'
      /\ \A i : i # rc[2] => (Pending(c, i)' <=> Pending(c, i))
  BY TakenOnce
<1>2. /\ left'[c] = left[c] \ {rc} /\ status'[c] = status[c] \union {rc[2]}
      /\ \A d \in Callers \ {c} : left'[d] = left[d] /\ status'[d] = status[d]
  BY DEF IInv, TypeOK
<1>3. pc[c] = "running" /\ OnTrack(c)
  BY DEF IInv, OnTrack
<1>4. \A d \in Callers : NumCells(d)' = NumCells(d)
  BY DEF NumCells
<1>5. TypeOK'
  <2>1. left' \in [Callers -> SUBSET (Nat \X Nat)]
    BY DEF IInv, TypeOK
  <2>2. rc[2] \in Nat
    BY <1>1 DEF Cells, IInv, TypeOK, NumCells
  <2>3. status' \in [Callers -> SUBSET Nat]
    BY <2>2 DEF IInv, TypeOK
  <2>4. \A d \in Callers : left'[d] \subseteq left[d]
    BY <1>2
  <2>5. \A d \in Callers : status'[d] \subseteq Cells(NumCells(d))
    BY <1>1, <1>2 DEF IInv, TypeOK
  <2> QED BY <1>4, <2>1, <2>3, <2>4, <2>5 DEF IInv, TypeOK
<1>6. OnTrack(c)'
  <2>1. status'[c] = before[c] \union {i \in faulty[c] : ~Pending(c, i)'}
    BY <1>1, <1>2, <1>3 DEF OnTrack
  <2>2. \A i \in Cells(NumCells(c)) :
          visits[c][i] = (IF i \in faulty[c] \/ Pending(c, i)' THEN 0 ELSE 1)
    BY <1>1, <1>3 DEF OnTrack
  <2> QED BY <1>2, <1>3, <1>4, <2>1, <2>2 DEF OnTrack
<1>7. \A d \in Callers : d # c => OnTrack(d)'
  BY <1>2, Bystander
<1> QED BY <1>5, <1>6, <1>7 DEF IInv

LEMMA RunCellHolds ==
  ASSUME IInv, NEW c \in Callers, NEW rc \in left[c], RunCell(c, rc) PROVE IInv'
<1> USE DEF RunCell, callVars
<1>1. /\ rc[2] \in Cells(NumCells(c)) /\ Pending(c, rc[2]) /\ ~Pending(c, rc[2])'
      /\ \A i : i # rc[2] => (Pending(c, i)' <=> Pending(c, i))
  BY TakenOnce
<1>2. /\ left'[c] = left[c] \ {rc}
      /\ visits'[c] = [visits[c] EXCEPT ![rc[2]] = @ + 1]
      /\ \A d \in Callers \ {c} : left'[d] = left[d] /\ visits'[d] = visits[d]
  BY DEF IInv, TypeOK
<1>3. pc[c] = "running" /\ OnTrack(c) /\ visits[c] \in [Cells(NumCells(c)) -> Nat]
  BY DEF IInv, OnTrack, TypeOK
<1>4. \A d \in Callers : NumCells(d)' = NumCells(d)
  BY DEF NumCells
<1>5. TypeOK'
  <2>1. left' \in [Callers -> SUBSET (Nat \X Nat)]
    BY DEF IInv, TypeOK
  <2>2. visits' = [d \in Callers |-> visits'[d]]
    BY DEF IInv, TypeOK
  <2>3. \A d \in Callers : left'[d] \subseteq left[d]
    BY <1>2
  <2>4. \A d \in Callers : visits'[d] \in [Cells(NumCells(d)) -> Nat]
    BY <1>2, <1>3 DEF IInv, TypeOK
  <2> QED BY <1>4, <2>1, <2>2, <2>3, <2>4 DEF IInv, TypeOK
<1>6. OnTrack(c)'
  <2>1. {i \in faulty[c] : ~Pending(c, i)'} = {i \in faulty[c] : ~Pending(c, i)}
    BY <1>1
  <2>2. visits[c][rc[2]] = 0
    BY <1>1, <1>3 DEF OnTrack
  <2>3. \A i \in Cells(NumCells(c)) :
          visits'[c][i] = (IF i \in faulty[c] \/ Pending(c, i)' THEN 0 ELSE 1)
    BY <1>1, <1>2, <1>3, <2>2 DEF OnTrack
  <2> QED BY <1>2, <1>3, <1>4, <2>1, <2>3 DEF OnTrack
<1>7. \A d \in Callers : d # c => OnTrack(d)'
  BY <1>2, Bystander
<1> QED BY <1>5, <1>6, <1>7 DEF IInv

LEMMA SummarizeHolds == ASSUME IInv, NEW c \in Callers, Summarize(c) PROVE IInv'
<1> USE DEF Summarize, Finished, callVars
<1>1. NumCells(c) \in Nat /\ status[c] \in SUBSET Cells(NumCells(c))
  BY DEF IInv, TypeOK, NumCells
<1>2. Cardinality(status[c]) \in Nat
  BY <1>1, CellsFinite
<1>3. \A d \in Callers : NumCells(d)' = NumCells(d)
  BY DEF NumCells
<1>4. /\ pc'[c] = "idle" /\ reported'[c] = Cardinality(status[c])
      /\ \A d \in Callers \ {c} :
           pc'[d] = pc[d] /\ reported'[d] = reported[d] /\ view'[d] = view[d]
  BY DEF IInv, TypeOK
<1>5. TypeOK'
  BY <1>2, <1>3 DEF IInv, TypeOK, NoView, Views
<1>6. OnTrack(c)'
  <2>1. \A i : Pending(c, i)' <=> Pending(c, i)
    BY DEF Pending
  <2>2. {i \in faulty[c] : ~Pending(c, i)'} = {i \in faulty[c] : ~Pending(c, i)}
    BY <2>1
  <2> QED BY <1>3, <1>4, <2>1, <2>2 DEF IInv, OnTrack
<1>7. \A d \in Callers : d # c => OnTrack(d)'
  BY <1>4, Bystander
<1> QED BY <1>5, <1>6, <1>7 DEF IInv

THEOREM Invariance == Spec => []IInv
<1>1. IInv /\ [Next]_vars => IInv'
  <2> SUFFICES ASSUME IInv, [Next]_vars PROVE IInv'
    OBVIOUS
  <2>1. CASE UNCHANGED vars
    <3>1. TypeOK'
      BY <2>1 DEF vars, callVars, IInv, TypeOK, NumCells
    <3>2. \A d \in Callers : OnTrack(d)'
      BY <2>1, Bystander DEF vars, callVars
    <3> QED BY <2>1, <3>1, <3>2 DEF vars, IInv
  <2>2. CASE Next
    <3>1. PICK c \in Callers :
            \/ Call(c) \/ BeginStatic(c) \/ EndStatic(c) \/ Launch(c) \/ Summarize(c)
            \/ \E rc \in left[c] : SkipCell(c, rc) \/ RunCell(c, rc)
      BY <2>2 DEF Next
    <3> QED BY <3>1, CallHolds, StaticHolds, LaunchHolds, SkipCellHolds, RunCellHolds,
               SummarizeHolds
  <2> QED BY <2>1, <2>2
<1> QED BY InitHolds, <1>1, PTL DEF Spec

------------------------------------------------------------------------------
\* The type invariant of the batched launch, for all callers and batches.
THEOREM TypeCorrect == Spec => []TypeOK
BY Invariance, PTL DEF IInv

\* When a call returns, every finite cell of the batch was integrated exactly
\* once and the others not at all, whatever the team size.
THEOREM EveryCellOnce == Spec => []EachCellOnce
<1>1. IInv => EachCellOnce
  <2> SUFFICES ASSUME IInv, NEW c \in Callers, pc[c] = "idle", NEW i \in Cells(NumCells(c))
               PROVE  visits[c][i] = (IF i \in faulty[c] THEN 0 ELSE 1)
    BY DEF EachCellOnce
  <2>1. OnTrack(c) /\ left[c] = {}
    BY DEF IInv, OnTrack
  <2>2. ~Pending(c, i)
    BY <2>1 DEF Pending
  <2> QED BY <2>1, <2>2 DEF OnTrack
<1> QED BY <1>1, Invariance, PTL

\* The faults reported are all those of the batch, with those that a buffer
\* used before already had.
THEOREM CompleteReport == Spec => []ReportIsComplete
<1>1. IInv => ReportIsComplete
  <2> SUFFICES ASSUME IInv, NEW c \in Callers, pc[c] = "idle"
               PROVE  reported[c] = Cardinality(before[c] \union faulty[c])
    BY DEF ReportIsComplete
  <2>1. OnTrack(c) /\ left[c] = {}
    BY DEF IInv, OnTrack
  <2>2. {i \in faulty[c] : ~Pending(c, i)} = faulty[c]
    BY <2>1 DEF Pending
  <2> QED BY <2>1, <2>2 DEF OnTrack
<1> QED BY <1>1, Invariance, PTL

\* The forcing array a kernel reads is long enough and stays where it is, for
\* any number of callers and sizes asked for.
THEOREM ForcingInPlace == Spec => []ForcingStaysAlive
<1>1. IInv => ForcingStaysAlive
  BY DEF IInv, OnTrack, ForcingStaysAlive
<1> QED BY <1>1, Invariance, PTL
==============================================================================
