-------------------------- MODULE HandleApiProofs --------------------------
(***************************************************************************)
(* The ownership of handles and what kernels find in them, for any number  *)
(* of contexts, addresses and mechanisms.                                  *)
(***************************************************************************)
EXTENDS HandleApi, TLAPS

\* OneOwner without sets: contexts hold allocated handles, no two the same,
\* and no handle is left without a context.
Exclusive ==
  /\ \A c \in Contexts : handle[c] # Null => c \in objects /\ handle[c] \in allocated
  /\ \A c, d \in Contexts : handle[c] = handle[d] /\ handle[c] # Null => c = d
  /\ \A h \in allocated : \E c \in Contexts : handle[c] = h

IInv ==
  /\ TypeOK
  /\ Exclusive
  /\ ContextsAreApart
  /\ KernelSeesCheckedState
  /\ ForcingHasItsColumns

LEMMA Ownership == TypeOK /\ Exclusive => OneOwner
<1> SUFFICES ASSUME TypeOK, Exclusive PROVE OneOwner
  OBVIOUS
<1>1. ASSUME NEW h \in allocated PROVE \E c \in Contexts : Owners(h) = {c}
  <2>1. PICK c \in Contexts : handle[c] = h
    BY DEF Exclusive
  <2>2. h # Null
    BY NullAssumption DEF TypeOK
  <2>3. Owners(h) = {c}
    BY <2>1, <2>2 DEF Owners, Exclusive, TypeOK
  <2> QED
    BY <2>3
<1> QED
  BY <1>1 DEF OneOwner, Exclusive

LEMMA FreshIsImpl == TypeOK => Fresh \in Impls
BY MechanismsAssumption DEF TypeOK, Fresh, Impls, NumRateParameters

LEMMA InitHolds == Init => IInv
<1> SUFFICES ASSUME Init PROVE IInv
  OBVIOUS
<1>1. TypeOK
  BY MechanismsAssumption
     DEF Init, TypeOK, Fresh, Impls, NumRateParameters, NotRun, Statuses
<1>2. Exclusive /\ ContextsAreApart /\ KernelSeesCheckedState /\ ForcingHasItsColumns
  BY DEF Init, Exclusive, ContextsAreApart, KernelSeesCheckedState,
         ForcingHasItsColumns, NotRun
<1> QED
  BY <1>1, <1>2 DEF IInv

\* A call that changes one handle, and what was asked of its context, alike.
LEMMA CallHolds ==
  ASSUME IInv, NEW c \in Contexts, NEW h \in Handles, Calls(c, h),
         NEW r \in Impls,
         r.columns \in {0, NumRateParameters},
         UNCHANGED <<host, owners>>,
         impl' = [impl EXCEPT ![h] = r],
         asked' = [asked EXCEPT ![c] = r],
         result' \in Statuses,
         UNCHANGED seen
  PROVE  IInv'
<1> USE DEF IInv, Calls, host, owners
<1>1. TypeOK'
  BY DEF TypeOK, Impls, NumRateParameters
<1>2. Exclusive'
  BY DEF Exclusive
<1>3. ContextsAreApart'
  <2> SUFFICES ASSUME NEW d \in objects, handle[d] # Null
               PROVE  impl'[handle[d]] = asked'[d]
    BY DEF ContextsAreApart
  <2>1. d \in Contexts /\ handle[d] \in Handles
    BY DEF TypeOK
  <2>2. CASE d = c
    BY <2>1, <2>2 DEF TypeOK
  <2>3. CASE d # c
    <3>1. handle[d] # h
      BY <2>1, <2>3 DEF Exclusive
    <3> QED
      BY <2>1, <2>3, <3>1 DEF TypeOK, ContextsAreApart
  <2> QED
    BY <2>2, <2>3
<1>4. KernelSeesCheckedState'
  BY DEF KernelSeesCheckedState
<1>5. ForcingHasItsColumns'
  <2> SUFFICES ASSUME NEW d \in objects, handle[d] # Null
               PROVE  impl'[handle[d]].columns \in {0, NumRateParameters}
    BY DEF ForcingHasItsColumns, NumRateParameters
  <2>1. d \in Contexts /\ handle[d] \in Handles
    BY DEF TypeOK
  <2> QED
    BY <2>1 DEF TypeOK, ForcingHasItsColumns
<1> QED
  BY <1>1, <1>2, <1>3, <1>4, <1>5

\* Calls that bind, initialize or refuse.
LEMMA BindHolds ==
  ASSUME IInv, NEW c \in Contexts, NEW h \in Handles, Calls(c, h),
         NEW what \in SUBSET {"state", "humidity", "cloud"},
         NEW status \in Statuses, Bind(c, h, what, status)
  PROVE  IInv'
<1> DEFINE r == [impl[h] EXCEPT !.arrays = @ \union what]
<1>1. impl[h] \in Impls /\ asked[c] = impl[h] /\ impl[h].columns \in {0, NumRateParameters}
  BY DEF IInv, TypeOK, Calls, ContextsAreApart, ForcingHasItsColumns
<1>2. r \in Impls /\ r.columns \in {0, NumRateParameters}
  BY <1>1 DEF Impls
<1>3. impl' = [impl EXCEPT ![h] = r] /\ asked' = [asked EXCEPT ![c] = r]
  BY <1>1 DEF Bind
<1>4. /\ UNCHANGED <<host, owners>>
      /\ UNCHANGED seen
      /\ result' \in Statuses
  BY DEF Bind, host, owners
<1> HIDE DEF r
<1> QED
  BY <1>2, <1>3, <1>4, CallHolds

LEMMA InitializeHolds ==
  ASSUME IInv, NEW c \in Contexts, NEW h \in Handles, Initialize(c, h) PROVE IInv'
<1> DEFINE r == [impl[h] EXCEPT !.initialized = TRUE]
<1>1. impl[h] \in Impls /\ asked[c] = impl[h] /\ impl[h].columns \in {0, NumRateParameters}
  BY DEF IInv, TypeOK, Initialize, Calls, ContextsAreApart, ForcingHasItsColumns
<1>2. r \in Impls /\ r.columns \in {0, NumRateParameters}
  BY <1>1 DEF Impls
<1>3. impl' = [impl EXCEPT ![h] = r] /\ asked' = [asked EXCEPT ![c] = r]
  BY <1>1 DEF Initialize
<1>4. /\ UNCHANGED <<host, owners>>
      /\ UNCHANGED seen
      /\ result' \in Statuses
      /\ Calls(c, h)
  BY DEF Initialize, host, owners, Statuses
<1> HIDE DEF r
<1> QED
  BY <1>2, <1>3, <1>4, CallHolds

LEMMA RefuseHolds == ASSUME IInv, NEW status \in Statuses, Refuse(status) PROVE IInv'
BY DEF IInv, Refuse, host, owners, TypeOK, Impls, NumRateParameters, Exclusive,
       ContextsAreApart, KernelSeesCheckedState, ForcingHasItsColumns

LEMMA ColumnsHolds ==
  ASSUME IInv, NEW c \in Contexts, NEW h \in Handles, Calls(c, h),
         NEW count \in Nat, BindColumns(c, h, count)
  PROVE  IInv'
<1>1. CASE ExactColumns(count)
  <2> DEFINE r == [impl[h] EXCEPT !.columns = count]
  <2>1. impl[h] \in Impls /\ asked[c] = impl[h]
    BY DEF IInv, TypeOK, Calls, ContextsAreApart
  <2>2. r \in Impls /\ r.columns \in {0, NumRateParameters}
    BY <1>1, <2>1 DEF Impls, ExactColumns
  <2>3. impl' = [impl EXCEPT ![h] = r] /\ asked' = [asked EXCEPT ![c] = r]
    BY <1>1, <2>1 DEF BindColumns
  <2>4. /\ UNCHANGED <<host, owners>>
        /\ UNCHANGED seen
        /\ result' \in Statuses
    BY <1>1 DEF BindColumns, host, owners, Statuses
  <2> HIDE DEF r
  <2> QED
    BY <2>2, <2>3, <2>4, CallHolds
<1>2. CASE ~ExactColumns(count)
  BY <1>2, RefuseHolds DEF BindColumns, Statuses
<1> QED
  BY <1>1, <1>2

LEMMA ComputeHolds ==
  ASSUME IInv, NEW c \in Contexts, NEW h \in Handles, Compute(c, h) PROVE IInv'
<1>1. Validated(h) \in Statuses
  BY DEF Validated, StateView, Statuses
<1>2. CASE Validated(h) # "SUCCESS"
  BY <1>1, <1>2, RefuseHolds DEF Compute
<1>3. CASE Validated(h) = "SUCCESS"
  <2>1. impl[h].initialized /\ "state" \in impl[h].arrays /\ usable
    BY <1>3 DEF Validated, StateView
  <2>2. seen' = [initialized |-> TRUE, bound |-> TRUE, usable |-> TRUE]
    BY <1>3, <2>1 DEF Compute, IInv, TypeOK, Impls
  <2>3. result' \in Statuses /\ UNCHANGED <<host, owners, impl, asked>>
    BY <1>3 DEF Compute, Statuses
  <2> QED
    BY <2>2, <2>3
       DEF IInv, host, owners, TypeOK, Impls, NumRateParameters, Exclusive,
           ContextsAreApart, KernelSeesCheckedState, ForcingHasItsColumns
<1> QED
  BY <1>2, <1>3

LEMMA ConstructHolds == ASSUME IInv, NEW c \in Contexts, Construct(c) PROVE IInv'
<1> USE DEF IInv, host
<1>1. CASE UNCHANGED <<owners, impl, asked>> /\ result' = "INVALID_ARGUMENT"
  BY <1>1 DEF Construct, owners, TypeOK, Impls, NumRateParameters, Statuses, Exclusive,
       ContextsAreApart, KernelSeesCheckedState, ForcingHasItsColumns
<1>2. ASSUME NEW h \in Handles \ allocated,
             allocated' = allocated \union {h},
             impl' = [impl EXCEPT ![h] = Made(h)],
             handle' = [handle EXCEPT ![c] = h],
             objects' = objects \union {c},
             asked' = [asked EXCEPT ![c] = Fresh],
             result' = "SUCCESS",
             UNCHANGED <<host, seen>>
      PROVE  IInv'
  <2>1. Fresh \in Impls
    BY FreshIsImpl
  <2>2. TypeOK'
    BY <1>2, <2>1 DEF TypeOK, Impls, Made, NumRateParameters, Statuses
  <2>3. \A d \in Contexts : handle[d] # h
    BY <1>2, NullAssumption DEF Exclusive
  <2>4. Exclusive'
    <3>1. \A d \in Contexts : handle'[d] = IF d = c THEN h ELSE handle[d]
      BY <1>2 DEF TypeOK
    <3>2. h # Null
      BY NullAssumption
    <3>3. handle[c] = Null \/ c \in objects
      BY DEF Exclusive
    <3>4. c \notin objects => handle[c] = Null
      BY <3>3
    <3>5. \A d \in Contexts : handle'[d] # Null => d \in objects' /\ handle'[d] \in allocated'
      BY <1>2, <3>1 DEF Exclusive
    <3>6. \A d, e \in Contexts : handle'[d] = handle'[e] /\ handle'[d] # Null => d = e
      BY <2>3, <3>1 DEF Exclusive
    <3>7. \A g \in allocated' : \E d \in Contexts : handle'[d] = g
      <4> SUFFICES ASSUME NEW g \in allocated' PROVE \E d \in Contexts : handle'[d] = g
        OBVIOUS
      <4>1. CASE g = h
        BY <3>1, <4>1
      <4>2. CASE g # h
        <5>1. PICK d \in Contexts : handle[d] = g
          BY <1>2, <4>2 DEF Exclusive
        <5>2. d # c
          BY <5>1, <4>2, <1>2, <3>4, NullAssumption DEF TypeOK, Construct
        <5> QED
          BY <5>1, <5>2, <3>1
      <4> QED
        BY <4>1, <4>2
    <3> QED
      BY <3>5, <3>6, <3>7 DEF Exclusive
  <2>5. ContextsAreApart' /\ ForcingHasItsColumns'
    <3> SUFFICES ASSUME NEW d \in objects', handle'[d] # Null
                 PROVE  /\ impl'[handle'[d]] = asked'[d]
                        /\ impl'[handle'[d]].columns \in {0, NumRateParameters}
      BY <1>2 DEF ContextsAreApart, ForcingHasItsColumns, NumRateParameters
    <3>1. d \in Contexts
      BY <1>2 DEF TypeOK
    <3>2. CASE d = c
      BY <1>2, <3>2 DEF TypeOK, Made, Fresh
    <3>3. CASE d # c
      <4>1. d \in objects /\ handle'[d] = handle[d] /\ handle[d] # h /\ handle[d] \in Handles
        BY <1>2, <2>3, <3>1, <3>3 DEF TypeOK
      <4> QED
        BY <1>2, <3>1, <3>3, <4>1 DEF TypeOK, ContextsAreApart, ForcingHasItsColumns
    <3> QED
      BY <3>2, <3>3
  <2>6. KernelSeesCheckedState'
    BY <1>2 DEF KernelSeesCheckedState
  <2> QED
    BY <2>2, <2>4, <2>5, <2>6
<1> QED
  BY <1>1, <1>2 DEF Construct

\* Destructors and moves: a handle passes to another context, or goes.
LEMMA OwnersHolds ==
  ASSUME IInv, NEW d \in Contexts, NEW c \in Contexts,
         Destruct(c) \/ MoveConstruct(d, c) \/ MoveAssign(d, c)
  PROVE  IInv'
<1> USE DEF IInv, host
<1>0. Fresh \in Impls
  BY FreshIsImpl
<1>1. CASE Destruct(c)
  <2>1. TypeOK' /\ KernelSeesCheckedState'
    BY <1>0, <1>1 DEF Destruct, TypeOK, Impls, NumRateParameters, KernelSeesCheckedState
  <2>2. \A e \in Contexts : handle'[e] = IF e = c THEN Null ELSE handle[e]
    BY <1>1 DEF Destruct, TypeOK
  <2>3. Exclusive'
    BY <1>1, <2>2, NullAssumption DEF Destruct, Exclusive, TypeOK
  <2>4. ContextsAreApart' /\ ForcingHasItsColumns'
    BY <1>1, <2>2
       DEF Destruct, TypeOK, ContextsAreApart, ForcingHasItsColumns, NumRateParameters
  <2> QED
    BY <2>1, <2>3, <2>4
<1>2. CASE MoveConstruct(d, c) \/ MoveAssign(d, c)
  <2>1. /\ d \in objects
        /\ c # d
        /\ handle' = Moved(d, c)
        /\ asked' = [asked EXCEPT ![c] = asked[d], ![d] = Fresh]
        /\ objects' = objects \union {c}
        /\ allocated' = allocated \ {handle[c]}
        /\ UNCHANGED <<host, impl, result, seen>>
    BY <1>2, NullAssumption DEF MoveConstruct, MoveAssign, Exclusive, TypeOK
  <2>2. \A e \in Contexts :
          handle'[e] = IF e = d THEN Null ELSE IF e = c THEN handle[d] ELSE handle[e]
    BY <2>1 DEF Moved, TypeOK
  <2>3. \A e \in Contexts :
          asked'[e] = IF e = d THEN Fresh ELSE IF e = c THEN asked[d] ELSE asked[e]
    BY <2>1 DEF TypeOK
  <2>4. TypeOK' /\ KernelSeesCheckedState'
    BY <1>0, <2>1 DEF Moved, TypeOK, Impls, NumRateParameters, KernelSeesCheckedState
  <2>5. Exclusive'
    BY <2>1, <2>2, NullAssumption DEF Exclusive, TypeOK
  <2>6. ContextsAreApart' /\ ForcingHasItsColumns'
    BY <2>1, <2>2, <2>3
       DEF TypeOK, ContextsAreApart, ForcingHasItsColumns, NumRateParameters
  <2> QED
    BY <2>4, <2>5, <2>6
<1> QED
  BY <1>1, <1>2

LEMMA NextHolds == IInv /\ [Next]_vars => IInv'
<1> SUFFICES ASSUME IInv, [Next]_vars PROVE IInv'
  OBVIOUS
<1>1. CASE HostUpdates
  BY <1>1 DEF HostUpdates, IInv, owners, TypeOK, Impls, NumRateParameters, Exclusive,
       ContextsAreApart, KernelSeesCheckedState, ForcingHasItsColumns
<1>2. ASSUME NEW c \in Contexts, NEW d \in Contexts,
             MoveConstruct(c, d) \/ MoveAssign(c, d)
      PROVE  IInv'
  BY <1>2, OwnersHolds
<1>3. ASSUME NEW c \in Contexts, Construct(c) \/ Destruct(c) \/ NullPointer(c) PROVE IInv'
  BY <1>3, ConstructHolds, OwnersHolds, RefuseHolds DEF NullPointer, Statuses
<1>4. ASSUME NEW c \in Contexts, NEW h \in Handles,
             SetState(c, h) \/ SetCloudWater(c, h) \/ SetAerosol(c, h)
      PROVE  IInv'
  BY <1>4, BindHolds DEF SetState, SetCloudWater, SetAerosol, Statuses
<1>5. ASSUME NEW c \in Contexts, NEW h \in Handles,
             SetRateParameters(c, h) \/ SetPhotolysis(c, h)
      PROVE  IInv'
  <2>1. NumRateParameters \in Nat /\ NumPhotolysis \in Nat
    BY MechanismsAssumption DEF IInv, TypeOK, NumRateParameters, NumPhotolysis
  <2> QED
    BY <1>5, <2>1, ColumnsHolds, RefuseHolds DEF SetRateParameters, SetPhotolysis, Statuses
<1>6. ASSUME NEW c \in Contexts, NEW h \in Handles,
             Initialize(c, h) \/ Compute(c, h) \/ RefuseStep(c, h)
      PROVE  IInv'
  BY <1>6, InitializeHolds, ComputeHolds, RefuseHolds DEF RefuseStep, Statuses
<1>7. CASE UNCHANGED vars
  BY <1>7 DEF vars, IInv, TypeOK, Impls, NumRateParameters, Exclusive,
       ContextsAreApart, KernelSeesCheckedState, ForcingHasItsColumns
<1> QED
  BY <1>1, <1>2, <1>3, <1>4, <1>5, <1>6, <1>7 DEF Next

LEMMA Invariance == Spec => []IInv
BY InitHolds, NextHolds, PTL DEF Spec

\* The type invariant, for any contexts, addresses and mechanisms.
THEOREM TypeCorrect == Spec => []TypeOK
<1>1. IInv => TypeOK
  BY DEF IInv
<1> QED
  BY <1>1, Invariance, PTL

\* No handle of mkpp_create_handle is leaked, destroyed twice or used after
\* its destruction by the moves and destructors of MechanismContext.
THEOREM SingleOwner == Spec => []OneOwner
<1>1. IInv => OneOwner
  BY Ownership DEF IInv
<1> QED
  BY <1>1, Invariance, PTL

\* Bindings stay with the context they were made on, through every move and
\* every reuse of an address.
THEOREM Apart == Spec => []ContextsAreApart
<1>1. IInv => ContextsAreApart
  BY DEF IInv
<1> QED
  BY <1>1, Invariance, PTL

\* Every computation ran on an initialized handle and a state that was
\* usable at that moment.
THEOREM CheckedAtUse == Spec => []KernelSeesCheckedState
<1>1. IInv => KernelSeesCheckedState
  BY DEF IInv
<1> QED
  BY <1>1, Invariance, PTL

\* A bound forcing array has the columns of the mechanism.
THEOREM ColumnsFit == Spec => []ForcingHasItsColumns
<1>1. IInv => ForcingHasItsColumns
  BY DEF IInv
<1> QED
  BY <1>1, Invariance, PTL
==============================================================================
