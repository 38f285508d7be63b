------------------------------ MODULE Handles ------------------------------
(***************************************************************************)
(* The life cycle every reference-counted class of the library repeats     *)
(* (Context, CommandQueue, MemoryObject, Program, Kernel, Event and, with  *)
(* OpenCL 1.2, Device): constructor from a raw handle, copy constructor,   *)
(* copy assignment, destructor.  The assignment operator is two steps, the *)
(* release of the old object and the copy and retain of the new one,       *)
(* because other threads' wrappers of the same objects move in between.    *)
(*                                                                         *)
(* One wrapper is only used by one thread at a time, and is not modified   *)
(* while it is the source of an assignment: that is C++'s own rule.        *)
(***************************************************************************)
EXTENDS Integers, FiniteSets

CONSTANTS Wrappers,          \* C++ variables of a wrapper class
          Objects,           \* OpenCL identifiers (the runtime may reuse one)
          Counted,           \* those with a reference count: all but the
                             \* devices of an OpenCL 1.1 platform
          None,              \* no object, no wrapper
          MaxRaw,            \* bound on the raw references to one object
          MaxThrows          \* how often clRetainX may fail within operator=

ASSUME HandlesAssumption ==
  /\ IsFiniteSet(Wrappers)
  /\ Counted \subseteq Objects
  /\ None \notin Objects \cup Wrappers
  /\ MaxRaw \in Nat \ {0}
  /\ MaxThrows \in Nat

VARIABLES refs,    \* the runtime's reference count of each object
          raw,     \* references owned by code outside the wrappers
          id,      \* internal_id of each wrapper; None: not constructed
          source,  \* what a wrapper half way through operator= copies, or None
          throws   \* how often a retain() within operator= has thrown

vars == <<refs, raw, id, source, throws>>

Alive(o) == o \in Counted => refs[o] > 0

\* clRetainX and clReleaseX, through the guards of Device::retain and release.
RetainForgotten(o) == refs                                      \* mutant
Retained(o) == IF o \in Counted THEN [refs EXCEPT ![o] = @ + 1] ELSE refs

Released(o) == IF o \in Counted THEN [refs EXCEPT ![o] = @ - 1] ELSE refs

\* w may be modified: no operator= is under way on it or is reading it.
Free(w) == source[w] = None /\ \A v \in Wrappers : source[v] # w

\* s may be read.
Readable(s) == id[s] # None /\ source[s] = None

Init ==
  /\ refs = [o \in Objects |-> 0]
  /\ raw = [o \in Objects |-> 0]
  /\ id = [w \in Wrappers |-> None]
  /\ source = [w \in Wrappers |-> None]
  /\ throws = 0

-----------------------------------------------------------------------------
(* Raw OpenCL code: clCreateX, and the users of raw_identifier(). *)

Create(o) ==
  /\ o \in Counted /\ ~Alive(o)
  /\ refs' = [refs EXCEPT ![o] = 1]
  /\ raw' = [raw EXCEPT ![o] = 1]
  /\ UNCHANGED <<id, source, throws>>

RawRetain(o) ==
  /\ o \in Counted /\ Alive(o)
  /\ raw[o] < MaxRaw
  /\ refs' = Retained(o)
  /\ raw' = [raw EXCEPT ![o] = @ + 1]
  /\ UNCHANGED <<id, source, throws>>

RawRelease(o) ==
  /\ raw[o] > 0
  /\ refs' = Released(o)
  /\ raw' = [raw EXCEPT ![o] = @ - 1]
  /\ UNCHANGED <<id, source, throws>>

-----------------------------------------------------------------------------
(* The members of a wrapper class. *)

\* X{identifier, false}: the caller's reference becomes the wrapper's.
ConstructTransfer(w, o) ==
  /\ id[w] = None
  /\ IF o \in Counted
       THEN raw[o] > 0 /\ raw' = [raw EXCEPT ![o] = @ - 1]
       ELSE raw' = raw
  /\ id' = [id EXCEPT ![w] = o]
  /\ UNCHANGED <<refs, source, throws>>

\* X{identifier, true}: the caller only lends a handle it knows to be valid.
ConstructShared(w, o) ==
  /\ id[w] = None
  /\ Alive(o)
  /\ id' = [id EXCEPT ![w] = o]
  /\ refs' = Retained(o)
  /\ UNCHANGED <<raw, source, throws>>

CopyConstruct(w, s) ==
  /\ id[w] = None
  /\ Readable(s)
  /\ id' = [id EXCEPT ![w] = id[s]]
  /\ refs' = Retained(id[s])
  /\ UNCHANGED <<raw, source, throws>>

\* Assigning an object to a wrapper of the same object returns at once.
NeverReturnsEarly(w, s) == FALSE                                \* mutant
ReturnsEarly(w, s) == id[s] = id[w]

\* Mutant: copy_internal_data() before release().
AssignReleaseLate(w, s) ==
  /\ id[w] # None
  /\ Free(w)
  /\ Readable(s)
  /\ ~ReturnsEarly(w, s)
  /\ refs' = Released(id[s])
  /\ source' = [source EXCEPT ![w] = s]
  /\ UNCHANGED <<raw, id, throws>>

\* operator=, up to and including release().
AssignRelease(w, s) ==
  /\ id[w] # None
  /\ Free(w)
  /\ Readable(s)
  /\ ~ReturnsEarly(w, s)
  /\ refs' = Released(id[w])
  /\ source' = [source EXCEPT ![w] = s]
  /\ UNCHANGED <<raw, id, throws>>

\* copy_internal_data(source), then retain().
AssignRetain(w) ==
  /\ source[w] # None
  /\ id' = [id EXCEPT ![w] = id[source[w]]]
  /\ refs' = Retained(id[source[w]])
  /\ source' = [source EXCEPT ![w] = None]
  /\ UNCHANGED <<raw, throws>>

\* copy_internal_data(source), then retain() throws.
AssignRetainThrows(w) ==
  /\ throws < MaxThrows
  /\ source[w] # None
  /\ id' = [id EXCEPT ![w] = id[source[w]]]
  /\ source' = [source EXCEPT ![w] = None]
  /\ throws' = throws + 1
  /\ UNCHANGED <<refs, raw>>

Destroy(w) ==
  /\ id[w] # None
  /\ Free(w)
  /\ id' = [id EXCEPT ![w] = None]
  /\ refs' = Released(id[w])
  /\ UNCHANGED <<raw, source, throws>>

Next ==
  \/ \E o \in Objects : Create(o) \/ RawRetain(o) \/ RawRelease(o)
  \/ \E w \in Wrappers, o \in Objects :
       ConstructTransfer(w, o) \/ ConstructShared(w, o)
  \/ \E w, s \in Wrappers : CopyConstruct(w, s) \/ AssignRelease(w, s)
  \/ \E w \in Wrappers : AssignRetain(w) \/ AssignRetainThrows(w) \/ Destroy(w)

Spec == Init /\ [][Next]_vars

-----------------------------------------------------------------------------
(* Properties. *)

\* The object each wrapper owns a reference to: between the two steps of
\* operator= it owns none.
owner == [w \in Wrappers |-> IF source[w] = None THEN id[w] ELSE None]

Owners(o) == {w \in Wrappers : owner[w] = o}

\* Every variable stays in its type, and no wrapper is ever its own source.  A
\* count below zero marks a reference that was released twice; ExceptionCost
\* says when that may be.
TypeOK ==
  /\ refs \in [Objects -> Int]
  /\ raw \in [Objects -> Nat]
  /\ id \in [Wrappers -> Objects \cup {None}]
  /\ source \in [Wrappers -> Wrappers \cup {None}]
  /\ throws \in 0 .. MaxThrows
  /\ \A w \in Wrappers : source[w] # w

\* The references the owners of o account for.
Due(o) == Cardinality(Owners(o)) + raw[o]

\* The runtime's count of an object is the number of its owners: no reference
\* leaks and none is released twice, whatever the order of the copies,
\* assignments and destructions (retain() and release() in every class), as long
\* as no retain() within operator= has thrown.
CountsAgree == throws = 0 => \A o \in Counted : refs[o] = Due(o)

\* Exception safety of operator=: a retain() that throws there costs one
\* reference at most, and never leaks one.
ExceptionCost == \A o \in Counted : refs[o] \in Due(o) - throws .. Due(o)

\* No wrapper that owns a reference names a destroyed object, and what operator=
\* is about to copy and retain still exists: the early return on equal
\* identifiers is what protects an assignment of a wrapper to itself.  (Until a
\* retain() within operator= throws.)
NoDangling ==
  throws = 0 => \A w \in Wrappers :
    /\ owner[w] # None => Alive(id[w])
    /\ source[w] # None => Readable(source[w]) /\ Alive(id[source[w]])

Ownership == INSTANCE HandleOwnership WITH
  alive <- {o \in Objects : Alive(o)}

\* The counts implement shared ownership: until a retain() within operator=
\* throws, every step of the wrappers is a step of HandleOwnership or a stutter.
ImplementsOwnership ==
  Ownership!Init /\ [][throws' = 0 => Ownership!Next]_(Ownership!vars)
=============================================================================
