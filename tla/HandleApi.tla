----------------------------- MODULE HandleApi -----------------------------
(***************************************************************************)
(* The generated host interface: the C functions over an opaque handle     *)
(* (mkpp_c_api.cpp.j2) and the C++ class that owns one (mkpp.hpp.j2).      *)
(*                                                                         *)
(* A handle borrows arrays of the host model.  The host rewrites them      *)
(* between any two calls, and C++ code moves contexts about.  The arrays   *)
(* of one state binding are one array here, told apart by whether its      *)
(* meteorology is positive and finite; last_error_msg is left out.         *)
(***************************************************************************)
EXTENDS Integers, FiniteSets

CONSTANTS
  Contexts,   \* C++ variables of type MechanismContext
  Handles,    \* addresses operator new may return
  Null,       \* nullptr
  Mechanisms  \* pairs <<num_rate_parameters, num_photolysis>>

ASSUME NullAssumption == Null \notin Handles
\* The photolysis rates are the first parameters.
ASSUME MechanismsAssumption ==
  Mechanisms \subseteq {m \in Nat \X Nat : m[2] <= m[1]}

VARIABLES
  mechanism, \* the one the library was generated for
  objects,   \* contexts constructed and not yet destroyed
  handle,    \* handle_ of each
  allocated, \* addresses that hold an mkpp_handle_impl
  impl,      \* what is, or was last, at each address
  usable,    \* are the host's temperature, pressure and density?
  result,    \* of the last call that returns a status
  asked,     \* history: what the calls on a context have asked for
  seen       \* history: what the last kernel found

host == <<mechanism, usable>>
owners == <<objects, handle, allocated>>
vars == <<mechanism, objects, handle, allocated, impl, usable, result, asked, seen>>

NumRateParameters == mechanism[1]
NumPhotolysis == mechanism[2]

\* Default member initializers: no arrays, no columns of forcing.
Fresh == [initialized |-> FALSE, arrays |-> {}, columns |-> 0]
Impls == [initialized : BOOLEAN,
          arrays : SUBSET {"state", "humidity", "cloud"},
          columns : 0..NumRateParameters]

NotRun == [initialized |-> TRUE, bound |-> TRUE, usable |-> TRUE]
Statuses == {"SUCCESS", "NULL_POINTER", "INVALID_ARGUMENT", "INVALID_STATE"}

Init ==
  /\ mechanism \in Mechanisms
  /\ objects = {}
  /\ handle = [c \in Contexts |-> Null]
  /\ allocated = {}
  /\ impl = [h \in Handles |-> Fresh]
  /\ usable \in BOOLEAN
  /\ result = "SUCCESS"
  /\ asked = [c \in Contexts |-> Fresh]
  /\ seen = NotRun

------------------------------------------------------------------------------
\* The life of a handle and of the context that owns it.

\* Fault: the members have no initializers.
MadeInMemory(h) == impl[h]

Made(h) == Fresh

\* mkpp_create_handle makes a new object; with no cells it makes none, and
\* the constructor throws.
Construct(c) ==
  /\ c \notin objects
  /\ \/ \E h \in Handles \ allocated :
          /\ allocated' = allocated \union {h}
          /\ impl' = [impl EXCEPT ![h] = Made(h)]
          /\ handle' = [handle EXCEPT ![c] = h]
          /\ objects' = objects \union {c}
          /\ asked' = [asked EXCEPT ![c] = Fresh]
          /\ result' = "SUCCESS"
     \/ /\ result' = "INVALID_ARGUMENT"
        /\ UNCHANGED <<owners, impl, asked>>
  /\ UNCHANGED <<host, seen>>

\* The destructor, and mkpp_destroy_handle when there is a handle.
Destruct(c) ==
  /\ c \in objects
  /\ objects' = objects \ {c}
  /\ handle' = [handle EXCEPT ![c] = Null]
  /\ allocated' = allocated \ {handle[c]}
  /\ asked' = [asked EXCEPT ![c] = Fresh]
  /\ UNCHANGED <<host, impl, result, seen>>

\* Fault: the source of a move keeps its handle.
MovedKeeping(from, to) == [handle EXCEPT ![to] = handle[from]]

\* The handle goes over and the source is left with none.
Moved(from, to) == [handle EXCEPT ![to] = handle[from], ![from] = Null]

MoveConstruct(from, to) ==
  /\ from \in objects
  /\ to \notin objects
  /\ objects' = objects \union {to}
  /\ handle' = Moved(from, to)
  /\ asked' = [asked EXCEPT ![to] = asked[from], ![from] = Fresh]
  /\ UNCHANGED <<host, allocated, impl, result, seen>>

\* The handle of the target is destroyed first.  A context assigned to
\* itself is left alone.
MoveAssign(from, to) ==
  /\ {from, to} \subseteq objects
  /\ from # to
  /\ allocated' = allocated \ {handle[to]}
  /\ handle' = Moved(from, to)
  /\ asked' = [asked EXCEPT ![to] = asked[from], ![from] = Fresh]
  /\ UNCHANGED <<host, objects, impl, result, seen>>

------------------------------------------------------------------------------
\* The calls on a context c with handle h.

Calls(c, h) == c \in objects /\ h = handle[c] /\ h # Null

Refuse(status) ==
  /\ result' = status
  /\ UNCHANGED <<host, owners, impl, asked, seen>>

\* Every call refuses the null handle of a context that was moved from, and
\* a null argument where it needs one.
NullPointer(c) == c \in objects /\ Refuse("NULL_POINTER")

Initialize(c, h) ==
  /\ Calls(c, h)
  /\ impl' = [impl EXCEPT ![h].initialized = TRUE]
  /\ asked' = [asked EXCEPT ![c].initialized = TRUE]
  /\ result' = "SUCCESS"
  /\ UNCHANGED <<host, owners, seen>>

Bind(c, h, what, status) ==
  /\ impl' = [impl EXCEPT ![h].arrays = @ \union what]
  /\ asked' = [asked EXCEPT ![c].arrays = @ \union what]
  /\ result' = status
  /\ UNCHANGED <<host, owners, seen>>

\* The pointers are stored first and validated afterwards: a refused binding
\* stays bound.
SetState(c, h) ==
  /\ Calls(c, h)
  /\ Bind(c, h, {"state"}, IF usable THEN "SUCCESS" ELSE "INVALID_ARGUMENT")

SetCloudWater(c, h) == Calls(c, h) /\ Bind(c, h, {"cloud"}, "SUCCESS")

\* Either array may be null; the surface area is stored and never read.
SetAerosol(c, h) ==
  Calls(c, h) /\ \E what \in {{}, {"humidity"}} : Bind(c, h, what, "SUCCESS")

\* Fault: any number of columns is taken.
EnoughColumns(count) == TRUE

\* All the parameters of the mechanism or nothing.
ExactColumns(count) == count = NumRateParameters

BindColumns(c, h, count) ==
  IF ExactColumns(count)
    THEN /\ impl' = [impl EXCEPT ![h].columns = count]
         /\ asked' = [asked EXCEPT ![c].columns = count]
         /\ result' = "SUCCESS"
         /\ UNCHANGED <<host, owners, seen>>
    ELSE Refuse("INVALID_ARGUMENT")

SetRateParameters(c, h) ==
  /\ Calls(c, h)
  /\ \E count \in 0..(NumRateParameters + 1) : BindColumns(c, h, count)

\* Refused when the mechanism has parameters that are no photolysis rates.
SetPhotolysis(c, h) ==
  /\ Calls(c, h)
  /\ IF NumRateParameters > NumPhotolysis
       THEN Refuse("INVALID_ARGUMENT")
       ELSE BindColumns(c, h, NumPhotolysis)

------------------------------------------------------------------------------
\* The computations.

\* Fault: the arrays are trusted to be as they were when they were bound.
StateViewAsBound(h) == IF "state" \in impl[h].arrays THEN "SUCCESS" ELSE "NULL_POINTER"

\* validate_state_view
StateView(h) ==
  IF "state" \notin impl[h].arrays THEN "NULL_POINTER"
  ELSE IF usable THEN "SUCCESS" ELSE "INVALID_ARGUMENT"

Validated(h) == IF impl[h].initialized THEN StateView(h) ELSE "INVALID_STATE"

\* mkpp_integrate, mkpp_evaluate_rates and mkpp_evaluate_jacobian
Compute(c, h) ==
  /\ Calls(c, h)
  /\ IF Validated(h) = "SUCCESS"
       THEN /\ result' = "SUCCESS"
            /\ seen' = [initialized |-> impl[h].initialized,
                        bound |-> "state" \in impl[h].arrays,
                        usable |-> usable]
            /\ UNCHANGED <<host, owners, impl, asked>>
       ELSE Refuse(Validated(h))

\* A step that is not positive and finite.
RefuseStep(c, h) ==
  /\ Calls(c, h)
  /\ Validated(h) = "SUCCESS"
  /\ Refuse("INVALID_ARGUMENT")

\* The host model advances its meteorology.
HostUpdates ==
  /\ usable' = ~usable
  /\ UNCHANGED <<mechanism, owners, impl, result, asked, seen>>

Next ==
  \/ HostUpdates
  \/ \E c, d \in Contexts : MoveConstruct(c, d) \/ MoveAssign(c, d)
  \/ \E c \in Contexts : Construct(c) \/ Destruct(c) \/ NullPointer(c)
  \/ \E c \in Contexts, h \in Handles :
       \/ Initialize(c, h)
       \/ SetState(c, h)
       \/ SetCloudWater(c, h)
       \/ SetAerosol(c, h)
       \/ SetRateParameters(c, h)
       \/ SetPhotolysis(c, h)
       \/ Compute(c, h)
       \/ RefuseStep(c, h)

Spec == Init /\ [][Next]_vars

------------------------------------------------------------------------------
TypeOK ==
  /\ mechanism \in Mechanisms
  /\ objects \subseteq Contexts
  /\ handle \in [Contexts -> Handles \union {Null}]
  /\ allocated \subseteq Handles
  /\ impl \in [Handles -> Impls]
  /\ usable \in BOOLEAN
  /\ result \in Statuses
  /\ asked \in [Contexts -> Impls]
  /\ seen \in [initialized : BOOLEAN, bound : BOOLEAN, usable : BOOLEAN]

Owners(h) == {c \in objects : handle[c] = h}

\* However contexts are moved, assigned and destroyed, a handle in use has
\* exactly one owner that will destroy it, and no context holds one that was
\* destroyed.
OneOwner ==
  /\ \A h \in allocated : \E c \in Contexts : Owners(h) = {c}
  /\ \A c \in Contexts : handle[c] # Null => c \in objects /\ handle[c] \in allocated

\* The handle of a context holds what calls on it, and on the contexts it
\* was moved from, have set, and nothing of another context or of a handle
\* that lived at its address before.
ContextsAreApart ==
  \A c \in objects : handle[c] # Null => impl[handle[c]] = asked[c]

\* No kernel runs on a handle that is not initialized, has no state, or
\* whose meteorology the host has made unusable since it was bound, also
\* when the binding itself was refused.
KernelSeesCheckedState == seen.initialized /\ seen.bound /\ seen.usable

\* A forcing array the host has bound has the columns the kernel reads,
\* whichever of the two calls bound it.
ForcingHasItsColumns ==
  \A c \in objects :
    handle[c] # Null => impl[handle[c]].columns \in {0, NumRateParameters}
==============================================================================
