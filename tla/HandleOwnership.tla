-------------------------- MODULE HandleOwnership --------------------------
(***************************************************************************)
(* What the reference-counted classes promise (api_architecture.adoc,      *)
(* "Wrapping OpenCL handles"): shared ownership.  An OpenCL object is      *)
(* usable from its creation until its last owner lets go of it, whether    *)
(* that owner is a C++ wrapper or code holding a raw handle, and it is     *)
(* destroyed at that very step.  No count appears here.                    *)
(***************************************************************************)
EXTENDS Integers

CONSTANTS Wrappers,     \* C++ variables of a wrapper class
          Objects,      \* OpenCL identifiers
          Counted,      \* those the runtime counts references to
          None,         \* no object
          MaxRaw        \* bound on the raw references to one object

VARIABLES owner,        \* the object each wrapper owns a reference to, or None
          raw,          \* references owned by code outside the wrappers
          alive         \* the objects that exist

vars == <<owner, raw, alive>>

\* The objects of live that still have an owner, or that nobody counts.
Surviving(live, own, out) ==
  {o \in live : o \in Counted => (out[o] > 0 \/ \E w \in Wrappers : own[w] = o)}

Init ==
  /\ owner = [w \in Wrappers |-> None]
  /\ raw = [o \in Objects |-> 0]
  /\ alive = Objects \ Counted

Create(o) ==
  /\ o \notin alive
  /\ alive' = alive \cup {o}
  /\ raw' = [raw EXCEPT ![o] = 1]
  /\ UNCHANGED owner

RawRetain(o) ==
  /\ o \in alive
  /\ raw' = [raw EXCEPT ![o] = @ + 1]
  /\ UNCHANGED <<owner, alive>>

RawRelease(o) ==
  /\ raw[o] > 0
  /\ raw' = [raw EXCEPT ![o] = @ - 1]
  /\ alive' = Surviving(alive, owner, raw')
  /\ UNCHANGED owner

\* A wrapper takes over a raw reference.
Transfer(w, o) ==
  /\ owner[w] = None
  /\ raw[o] > 0
  /\ owner' = [owner EXCEPT ![w] = o]
  /\ raw' = [raw EXCEPT ![o] = @ - 1]
  /\ UNCHANGED alive

\* A wrapper becomes one more owner: only of an object that exists.
Acquire(w, o) ==
  /\ owner[w] = None
  /\ o \in alive
  /\ owner' = [owner EXCEPT ![w] = o]
  /\ UNCHANGED <<raw, alive>>

Drop(w) ==
  /\ owner[w] # None
  /\ owner' = [owner EXCEPT ![w] = None]
  /\ alive' = Surviving(alive, owner', raw)
  /\ UNCHANGED raw

Next ==
  \/ \E o \in Objects : Create(o) \/ RawRetain(o) \/ RawRelease(o)
  \/ \E w \in Wrappers : Drop(w)
  \/ \E w \in Wrappers, o \in Objects : Transfer(w, o) \/ Acquire(w, o)

Spec == Init /\ [][Next]_vars
=============================================================================
