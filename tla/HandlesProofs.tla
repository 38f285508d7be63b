--------------------------- MODULE HandlesProofs ---------------------------
(***************************************************************************)
(* Proofs about Handles, for every finite set of wrappers and any objects. *)
(* The inductive invariant IInv adds to the count equation only that the   *)
(* source of an assignment is a constructed wrapper which is not being     *)
(* assigned itself; that nothing dangles then follows by counting.         *)
(***************************************************************************)
EXTENDS Handles, FiniteSetTheorems, TLAPS

\* Only a constructed wrapper is assigned to, from one that may be read.
SourcesReadable ==
  \A w \in Wrappers : source[w] # None => id[w] # None /\ Readable(source[w])

IInv == TypeOK /\ SourcesReadable /\ ExceptionCost

USE HandlesAssumption

-----------------------------------------------------------------------------
(* Counting owners. *)

\* What a wrapper may own.
Targets == Objects \cup {None}

\* The wrappers that f gives to o.
OwnersIn(f, o) == {v \in Wrappers : f[v] = o}

LEMMA OwnersFinite ==
  ASSUME NEW f, NEW o
  PROVE  IsFiniteSet(OwnersIn(f, o)) /\ Cardinality(OwnersIn(f, o)) \in Nat
<1>1. OwnersIn(f, o) \subseteq Wrappers
  BY DEF OwnersIn
<1>2. QED
  BY <1>1, FS_Subset, FS_CardinalityType

\* One wrapper changing owner moves one unit from the old object to the new.
LEMMA CountChange ==
  ASSUME NEW f, NEW g, NEW w \in Wrappers, NEW b, NEW o,
         g[w] = b, \A v \in Wrappers : v # w => g[v] = f[v]
  PROVE  LET before == Cardinality(OwnersIn(f, o))
             after == Cardinality(OwnersIn(g, o))
         IN  /\ before \in Nat
             /\ b = o /\ f[w] # o => after = before + 1
             /\ b # o /\ f[w] = o => after = before - 1
             /\ (b = o <=> f[w] = o) => after = before
<1> DEFINE S == OwnersIn(f, o)
           T == OwnersIn(g, o)
<1>1. IsFiniteSet(S) /\ Cardinality(S) \in Nat
  BY OwnersFinite
<1>2. /\ b = o /\ f[w] # o => T = S \cup {w} /\ w \notin S
      /\ b # o /\ f[w] = o => T = S \ {w} /\ w \in S
      /\ (b = o <=> f[w] = o) => T = S
  BY DEF OwnersIn
<1> HIDE DEF S, T
<1>3. /\ w \notin S => Cardinality(S \cup {w}) = Cardinality(S) + 1
      /\ w \in S => Cardinality(S \ {w}) = Cardinality(S) - 1
  BY <1>1, FS_AddElement, FS_RemoveElement
<1>4. QED
  BY <1>1, <1>2, <1>3 DEF S, T

\* CountChange, for the owners of a state and of the next one.
LEMMA OwnersChange ==
  ASSUME TypeOK, NEW w \in Wrappers, NEW b \in Targets,
         owner' = [owner EXCEPT ![w] = b], NEW o
  PROVE  LET before == Cardinality(Owners(o))
             after == Cardinality(Owners(o))'
         IN  /\ before \in Nat
             /\ b = o /\ owner[w] # o => after = before + 1
             /\ b # o /\ owner[w] = o => after = before - 1
             /\ (b = o <=> owner[w] = o) => after = before
<1>1. owner \in [Wrappers -> Targets]
  BY DEF owner, TypeOK, Targets
<1>2. Owners(o) = OwnersIn(owner, o) /\ Owners(o)' = OwnersIn(owner', o)
  BY DEF Owners, OwnersIn
<1> DEFINE f == owner
           g == owner'
<1>3. g[w] = b /\ \A v \in Wrappers : v # w => g[v] = f[v]
  BY <1>1
<1> HIDE DEF f, g
<1>4. /\ Cardinality(OwnersIn(f, o)) \in Nat
      /\ b = o /\ f[w] # o =>
           Cardinality(OwnersIn(g, o)) = Cardinality(OwnersIn(f, o)) + 1
      /\ b # o /\ f[w] = o =>
           Cardinality(OwnersIn(g, o)) = Cardinality(OwnersIn(f, o)) - 1
      /\ (b = o <=> f[w] = o) =>
           Cardinality(OwnersIn(g, o)) = Cardinality(OwnersIn(f, o))
  BY <1>3, CountChange
<1>5. QED
  BY <1>2, <1>4 DEF f, g

\* The two ways a step moves ownership.
LEMMA OwnersGain ==
  ASSUME TypeOK, NEW w \in Wrappers, NEW b \in Objects,
         owner[w] = None, owner' = [owner EXCEPT ![w] = b], NEW o \in Objects
  PROVE  Cardinality(Owners(o))' =
           IF b = o THEN Cardinality(Owners(o)) + 1 ELSE Cardinality(Owners(o))
<1>1. b \in Targets /\ o # None
  BY DEF Targets
<1>2. CASE b = o
  BY <1>1, <1>2, OwnersChange
<1>3. CASE b # o
  BY <1>1, <1>3, OwnersChange
<1>4. QED
  BY <1>2, <1>3

LEMMA OwnersLoss ==
  ASSUME TypeOK, NEW w \in Wrappers, NEW b \in Objects,
         owner[w] = b, owner' = [owner EXCEPT ![w] = None], NEW o \in Objects
  PROVE  Cardinality(Owners(o))' =
           IF b = o THEN Cardinality(Owners(o)) - 1 ELSE Cardinality(Owners(o))
<1>1. None \in Targets /\ o # None
  BY DEF Targets
<1>2. CASE b = o
  BY <1>1, <1>2, OwnersChange
<1>3. CASE b # o
  BY <1>1, <1>3, OwnersChange
<1>4. QED
  BY <1>2, <1>3

LEMMA OwnersSame ==
  ASSUME owner' = owner, NEW o
  PROVE  Cardinality(Owners(o))' = Cardinality(Owners(o))
<1>1. Owners(o)' = Owners(o)
  BY DEF Owners
<1>2. QED
  BY <1>1

LEMMA OwnersNat ==
  ASSUME NEW o
  PROVE  /\ Cardinality(Owners(o)) \in Nat
         /\ Cardinality(Owners(o))' \in Nat
<1>1. Owners(o) = OwnersIn(owner, o) /\ Owners(o)' = OwnersIn(owner', o)
  BY DEF Owners, OwnersIn
<1>2. QED
  BY <1>1, OwnersFinite

-----------------------------------------------------------------------------
(* The inductive invariant. *)

LEMMA InitIInv == Init => IInv
<1> SUFFICES ASSUME Init PROVE IInv
  OBVIOUS
<1>1. TypeOK
  BY DEF Init, TypeOK
<1>2. SourcesReadable
  BY DEF Init, SourcesReadable
<1>3. ASSUME NEW o \in Counted PROVE refs[o] \in Due(o) - throws .. Due(o)
  <2>1. Owners(o) = {}
    BY DEF Init, Owners, owner
  <2>2. Cardinality(Owners(o)) = 0
    BY <2>1, FS_EmptySet
  <2>3. QED
    BY <2>2 DEF Init, Due
<1>4. QED
  BY <1>1, <1>2, <1>3 DEF IInv, ExceptionCost

\* Types and sources: no count is needed.
LEMMA NextShape ==
  TypeOK /\ SourcesReadable /\ [Next]_vars => TypeOK' /\ SourcesReadable'
<1> SUFFICES ASSUME TypeOK, SourcesReadable, [Next]_vars
             PROVE  TypeOK' /\ SourcesReadable'
  OBVIOUS
<1> USE DEF TypeOK, SourcesReadable, Readable, Retained, Released
<1>1. ASSUME NEW o \in Objects, Create(o) \/ RawRetain(o) \/ RawRelease(o)
      PROVE  TypeOK' /\ SourcesReadable'
  BY <1>1 DEF Create, RawRetain, RawRelease
<1>2. ASSUME NEW w \in Wrappers, NEW o \in Objects, ConstructTransfer(w, o)
      PROVE  TypeOK' /\ SourcesReadable'
  BY <1>2 DEF ConstructTransfer
<1>3. ASSUME NEW w \in Wrappers, NEW o \in Objects, ConstructShared(w, o)
      PROVE  TypeOK' /\ SourcesReadable'
  BY <1>3 DEF ConstructShared
<1>4. ASSUME NEW w \in Wrappers, NEW s \in Wrappers, CopyConstruct(w, s)
      PROVE  TypeOK' /\ SourcesReadable'
  BY <1>4 DEF CopyConstruct
<1>5. ASSUME NEW w \in Wrappers, NEW s \in Wrappers, AssignRelease(w, s)
      PROVE  TypeOK' /\ SourcesReadable'
  BY <1>5 DEF AssignRelease, ReturnsEarly, Free
<1>6. ASSUME NEW w \in Wrappers, AssignRetain(w)
      PROVE  TypeOK' /\ SourcesReadable'
  BY <1>6 DEF AssignRetain
<1>7. ASSUME NEW w \in Wrappers, AssignRetainThrows(w)
      PROVE  TypeOK' /\ SourcesReadable'
  BY <1>7 DEF AssignRetainThrows
<1>8. ASSUME NEW w \in Wrappers, Destroy(w)
      PROVE  TypeOK' /\ SourcesReadable'
  BY <1>8 DEF Destroy, Free
<1>9. CASE UNCHANGED vars
  BY <1>9 DEF vars
<1>10. QED
  BY <1>1, <1>2, <1>3, <1>4, <1>5, <1>6, <1>7, <1>8, <1>9 DEF Next

\* How each step moves ownership, which is all the count equation depends on.
LEMMA OwnerSteps ==
  ASSUME TypeOK, SourcesReadable, NEW w \in Wrappers
  PROVE  /\ \A o \in Objects :
              ConstructTransfer(w, o) \/ ConstructShared(w, o) =>
                owner[w] = None /\ owner' = [owner EXCEPT ![w] = o]
         /\ \A s \in Wrappers :
              /\ CopyConstruct(w, s) =>
                   owner[w] = None /\ owner' = [owner EXCEPT ![w] = id[s]]
              /\ AssignRelease(w, s) =>
                   owner[w] = id[w] /\ owner' = [owner EXCEPT ![w] = None]
         /\ AssignRetain(w) \/ AssignRetainThrows(w) =>
              /\ owner[w] = None
              /\ owner' = [owner EXCEPT ![w] = id[source[w]]]
         /\ Destroy(w) =>
              owner[w] = id[w] /\ owner' = [owner EXCEPT ![w] = None]
<1> USE DEF owner, TypeOK, SourcesReadable, Readable
<1>1. ASSUME NEW o \in Objects, ConstructTransfer(w, o) \/ ConstructShared(w, o)
      PROVE  owner[w] = None /\ owner' = [owner EXCEPT ![w] = o]
  <2>1. /\ source[w] = None /\ id[w] = None
        /\ id' = [id EXCEPT ![w] = o] /\ source' = source
    BY <1>1 DEF ConstructTransfer, ConstructShared
  <2>2. QED
    BY <2>1
<1>2. ASSUME NEW s \in Wrappers, CopyConstruct(w, s)
      PROVE  owner[w] = None /\ owner' = [owner EXCEPT ![w] = id[s]]
  BY <1>2 DEF CopyConstruct
<1>3. ASSUME NEW s \in Wrappers, AssignRelease(w, s)
      PROVE  owner[w] = id[w] /\ owner' = [owner EXCEPT ![w] = None]
  BY <1>3 DEF AssignRelease, Free
<1>4. ASSUME AssignRetain(w) \/ AssignRetainThrows(w)
      PROVE  owner[w] = None /\ owner' = [owner EXCEPT ![w] = id[source[w]]]
  BY <1>4 DEF AssignRetain, AssignRetainThrows
<1>5. ASSUME Destroy(w)
      PROVE  owner[w] = id[w] /\ owner' = [owner EXCEPT ![w] = None]
  BY <1>5 DEF Destroy, Free
<1>6. QED
  BY <1>1, <1>2, <1>3, <1>4, <1>5

\* The count equation survives every step.
LEMMA NextCounts == IInv /\ [Next]_vars => ExceptionCost'
<1> SUFFICES ASSUME IInv, [Next]_vars, NEW o \in Counted
             PROVE  (refs[o] \in Due(o) - throws .. Due(o))'
  BY DEF ExceptionCost
<1> DEFINE C == Cardinality(Owners(o))
           Goal == /\ refs'[o] <= C' + raw'[o]
                   /\ C' + raw'[o] <= refs'[o] + throws'
                   /\ C' \in Nat /\ refs'[o] \in Int
                   /\ raw'[o] \in Nat /\ throws' \in Nat
<1>1. /\ TypeOK /\ SourcesReadable /\ o \in Objects /\ o # None
      /\ refs[o] \in Int /\ raw[o] \in Nat /\ throws \in Nat
      /\ refs[o] <= C + raw[o] /\ C + raw[o] <= refs[o] + throws
      /\ C \in Nat
  <2>1. C \in Nat
    BY OwnersNat
  <2>2. refs[o] \in Due(o) - throws .. Due(o)
    BY DEF IInv, ExceptionCost
  <2>3. Due(o) = C + raw[o]
    BY DEF Due
  <2>4. /\ o \in Objects /\ o # None
        /\ refs[o] \in Int /\ raw[o] \in Nat /\ throws \in Nat
    BY DEF IInv, TypeOK
  <2> HIDE DEF C
  <2>5. QED
    BY <2>1, <2>2, <2>3, <2>4 DEF IInv
<1>2. SUFFICES Goal
  BY DEF Due
<1> HIDE DEF C
<1> USE DEF Retained, Released
<1>3. ASSUME NEW p \in Objects, Create(p) \/ RawRetain(p) \/ RawRelease(p)
      PROVE  Goal
  <2>1. C' = C
    <3>1. owner' = owner
      BY <1>3 DEF Create, RawRetain, RawRelease, owner
    <3>2. QED
      BY <3>1, OwnersSame DEF C
  <2>2. QED
    BY <1>1, <1>3, <2>1 DEF Create, RawRetain, RawRelease, Alive, TypeOK
<1>4. ASSUME NEW w \in Wrappers, NEW p \in Objects,
             ConstructTransfer(w, p) \/ ConstructShared(w, p)
      PROVE  Goal
  <2>1. owner[w] = None /\ owner' = [owner EXCEPT ![w] = p]
    BY <1>1, <1>4, OwnerSteps
  <2>2. /\ p = o => C' = C + 1
        /\ p # o => C' = C
    BY <1>1, <2>1, OwnersGain DEF C
  <2>3. QED
    BY <1>1, <1>4, <2>2 DEF ConstructTransfer, ConstructShared, TypeOK
<1>5. ASSUME NEW w \in Wrappers, NEW s \in Wrappers, CopyConstruct(w, s)
      PROVE  Goal
  <2>0. id[s] \in Objects
    BY <1>1, <1>5 DEF CopyConstruct, Readable, TypeOK
  <2>1. owner[w] = None /\ owner' = [owner EXCEPT ![w] = id[s]]
    BY <1>1, <1>5, OwnerSteps
  <2>2. /\ id[s] = o => C' = C + 1
        /\ id[s] # o => C' = C
    BY <1>1, <2>0, <2>1, OwnersGain DEF C
  <2>3. QED
    BY <1>1, <1>5, <2>0, <2>2 DEF CopyConstruct, TypeOK
<1>6. ASSUME NEW w \in Wrappers, NEW s \in Wrappers, AssignRelease(w, s)
      PROVE  Goal
  <2>0. id[w] \in Objects
    BY <1>1, <1>6 DEF AssignRelease, TypeOK
  <2>1. owner[w] = id[w] /\ owner' = [owner EXCEPT ![w] = None]
    BY <1>1, <1>6, OwnerSteps
  <2>2. /\ id[w] = o => C' = C - 1
        /\ id[w] # o => C' = C
    BY <1>1, <2>0, <2>1, OwnersLoss DEF C
  <2>3. C' \in Nat
    BY OwnersNat DEF C
  <2>4. QED
    BY <1>1, <1>6, <2>0, <2>2, <2>3 DEF AssignRelease, TypeOK
<1>7. ASSUME NEW w \in Wrappers, AssignRetain(w) \/ AssignRetainThrows(w)
      PROVE  Goal
  <2>0. id[source[w]] \in Objects
    BY <1>1, <1>7 DEF AssignRetain, AssignRetainThrows, SourcesReadable, Readable, TypeOK
  <2>1. owner[w] = None /\ owner' = [owner EXCEPT ![w] = id[source[w]]]
    BY <1>1, <1>7, OwnerSteps
  <2>2. /\ id[source[w]] = o => C' = C + 1
        /\ id[source[w]] # o => C' = C
    BY <1>1, <2>0, <2>1, OwnersGain DEF C
  <2>3. CASE AssignRetain(w)
    BY <1>1, <2>0, <2>2, <2>3 DEF AssignRetain, TypeOK
  <2>4. CASE AssignRetainThrows(w)
    BY <1>1, <2>0, <2>2, <2>4 DEF AssignRetainThrows, TypeOK
  <2>5. QED
    BY <1>7, <2>3, <2>4
<1>8. ASSUME NEW w \in Wrappers, Destroy(w)
      PROVE  Goal
  <2>0. id[w] \in Objects
    BY <1>1, <1>8 DEF Destroy, TypeOK
  <2>1. owner[w] = id[w] /\ owner' = [owner EXCEPT ![w] = None]
    BY <1>1, <1>8, OwnerSteps
  <2>2. /\ id[w] = o => C' = C - 1
        /\ id[w] # o => C' = C
    BY <1>1, <2>0, <2>1, OwnersLoss DEF C
  <2>3. C' \in Nat
    BY OwnersNat DEF C
  <2>4. QED
    BY <1>1, <1>8, <2>0, <2>2, <2>3 DEF Destroy, TypeOK
<1>9. CASE UNCHANGED vars
  <2>1. owner' = owner
    BY <1>9 DEF vars, owner
  <2>2. C' = C
    BY <2>1, OwnersSame DEF C
  <2>3. QED
    BY <1>1, <1>9, <2>2 DEF vars
<1>10. QED
  BY <1>3, <1>4, <1>5, <1>6, <1>7, <1>8, <1>9 DEF Next

-----------------------------------------------------------------------------
(* Theorems. *)

\* IInv is an invariant, however often operator= throws.
LEMMA Invariance == Spec => []IInv
<1>1. IInv /\ [Next]_vars => IInv'
  BY NextShape, NextCounts DEF IInv
<1>2. QED
  BY <1>1, InitIInv, PTL DEF Spec

\* Type correctness: whatever the program does with its wrappers, every variable
\* keeps its type and no wrapper is assigned from itself beyond the early return
\* of operator=.
THEOREM TypeCorrectness == Spec => []TypeOK
<1>1. IInv => TypeOK
  BY DEF IInv
<1>2. QED
  BY <1>1, Invariance, PTL

\* A retain() that throws within operator= costs one reference at most: no
\* reference ever leaks, and without exceptions none is released twice.
THEOREM ExceptionSafety == Spec => []ExceptionCost
<1>1. IInv => ExceptionCost
  BY DEF IInv
<1>2. QED
  BY <1>1, Invariance, PTL

\* What ExceptionCost says while no retain() has thrown.
LEMMA CountsFollow == IInv => CountsAgree
<1> SUFFICES ASSUME IInv, throws = 0, NEW o \in Counted
             PROVE  refs[o] = Due(o)
  BY DEF CountsAgree
<1>1. /\ refs[o] \in Int /\ raw[o] \in Nat
      /\ Cardinality(Owners(o)) \in Nat
  BY OwnersNat DEF IInv, TypeOK
<1>2. refs[o] \in Due(o) - throws .. Due(o)
  BY DEF IInv, ExceptionCost
<1>3. QED
  BY <1>1, <1>2 DEF Due

\* The reference count of an object is the number of its owners, until a retain()
\* within operator= throws.
THEOREM CountTheorem == Spec => []CountsAgree
BY CountsFollow, Invariance, PTL

\* An object exists as long as it has an owner, and no longer.
LEMMA AliveOwned ==
  ASSUME TypeOK, CountsAgree, throws = 0, NEW o \in Counted
  PROVE  Alive(o) <=> raw[o] > 0 \/ \E w \in Wrappers : owner[w] = o
<1>1. refs[o] = Cardinality(Owners(o)) + raw[o] /\ raw[o] \in Nat
  BY DEF CountsAgree, Due, TypeOK
<1>2. Cardinality(Owners(o)) \in Nat
  BY OwnersNat
<1>3. Cardinality(Owners(o)) = 0 <=> Owners(o) = {}
  <2>1. Owners(o) = OwnersIn(owner, o)
    BY DEF Owners, OwnersIn
  <2>2. QED
    BY <2>1, OwnersFinite, FS_EmptySet
<1>4. Owners(o) = {} <=> ~\E w \in Wrappers : owner[w] = o
  BY DEF Owners
<1>5. QED
  BY <1>1, <1>2, <1>3, <1>4 DEF Alive

\* No wrapper that owns a reference names a destroyed object, and operator= never
\* retains one, until a retain() there throws.
THEOREM DanglingTheorem == Spec => []NoDangling
<1>1. IInv => NoDangling
  <2> SUFFICES ASSUME IInv, throws = 0, NEW w \in Wrappers
               PROVE  /\ owner[w] # None => Alive(id[w])
                      /\ source[w] # None =>
                           Readable(source[w]) /\ Alive(id[source[w]])
    BY DEF NoDangling
  <2>1. TypeOK /\ SourcesReadable /\ CountsAgree
    BY CountsFollow DEF IInv
  <2>2. ASSUME NEW v \in Wrappers, owner[v] # None PROVE Alive(id[v])
    <3>1. owner[v] = id[v] /\ id[v] \in Objects
      BY <2>1, <2>2 DEF owner, TypeOK
    <3>2. QED
      BY <2>1, <3>1, AliveOwned DEF Alive
  <2>3. ASSUME source[w] # None
        PROVE  Readable(source[w]) /\ Alive(id[source[w]])
    <3>1. Readable(source[w]) /\ source[w] \in Wrappers
      BY <2>1, <2>3 DEF SourcesReadable, TypeOK
    <3>2. owner[source[w]] # None
      BY <3>1 DEF owner, Readable
    <3>3. QED
      BY <2>2, <3>1, <3>2
  <2>4. QED
    BY <2>2, <2>3
<1>2. QED
  BY <1>1, Invariance, PTL

-----------------------------------------------------------------------------
(* Handles implements HandleOwnership. *)

\* The objects that exist, as the refinement mapping sees them.
Live == {o \in Objects : Alive(o)}

LEMMA InitOwnership == Init => Ownership!Init
BY DEF Init, Ownership!Init, owner, Alive

\* A step that takes ownership away from one object destroys exactly the objects
\* left without an owner.
LEMMA LossSurvives ==
  ASSUME TypeOK, TypeOK', CountsAgree', throws' = 0, NEW p \in Objects,
         refs' = Released(p)
  PROVE  Live' = Ownership!Surviving(Live, owner', raw')
<1>1. ASSUME NEW o \in Objects
      PROVE  Alive(o)' <=>
               /\ Alive(o)
               /\ o \in Counted =>
                    raw'[o] > 0 \/ \E w \in Wrappers : owner'[w] = o
  <2>1. CASE o \in Counted
    <3>1. Alive(o)' <=> raw'[o] > 0 \/ \E w \in Wrappers : owner'[w] = o
      <4>1. refs'[o] = Due(o)' /\ raw'[o] \in Nat
        BY <2>1 DEF CountsAgree, TypeOK
      <4>2. Cardinality(Owners(o))' \in Nat
        BY OwnersNat
      <4>3. Cardinality(Owners(o))' = 0 <=> Owners(o)' = {}
        <5>1. Owners(o)' = OwnersIn(owner', o)
          BY DEF Owners, OwnersIn
        <5>2. QED
          BY <5>1, OwnersFinite, FS_EmptySet
      <4>4. Owners(o)' = {} <=> ~\E w \in Wrappers : owner'[w] = o
        BY DEF Owners
      <4>5. QED
        BY <2>1, <4>1, <4>2, <4>3, <4>4 DEF Alive, Due
    <3>2. Alive(o)' => Alive(o)
      BY <2>1 DEF Alive, Released, TypeOK
    <3>3. QED
      BY <2>1, <3>1, <3>2
  <2>2. CASE o \notin Counted
    BY <2>2 DEF Alive
  <2>3. QED
    BY <2>1, <2>2
<1>2. QED
  BY <1>1 DEF Live, Ownership!Surviving

\* A step that gives ownership of an existing object destroys and creates none.
LEMMA GainKeeps ==
  ASSUME TypeOK, NEW p \in Objects, Alive(p), refs' = Retained(p)
  PROVE  Live' = Live
BY DEF Live, Alive, Retained, TypeOK

LEMMA StepOwnership ==
  ASSUME TypeOK, SourcesReadable, CountsAgree, NoDangling,
         TypeOK', CountsAgree', [Next]_vars, throws' = 0
  PROVE  [Ownership!Next]_(Ownership!vars)
<1> USE DEF Live
<1>0. throws = 0
  <2>1. throws \in Nat
    BY DEF TypeOK
  <2>2. throws' = throws \/ throws' = throws + 1
    BY DEF Next, vars, Create, RawRetain, RawRelease, ConstructTransfer,
       ConstructShared, CopyConstruct, AssignRelease, AssignRetain,
       AssignRetainThrows, Destroy
  <2>3. QED
    BY <2>1, <2>2
<1>1. ASSUME NEW o \in Objects, Create(o) PROVE Ownership!Create(o)
  <2>1. owner' = owner
    BY <1>1 DEF Create, owner
  <2>2. Live' = Live \cup {o}
    BY <1>1 DEF Create, Alive, TypeOK
  <2>3. QED
    BY <1>1, <2>1, <2>2 DEF Create, Ownership!Create
<1>2. ASSUME NEW o \in Objects, RawRetain(o) PROVE Ownership!RawRetain(o)
  <2>1. owner' = owner
    BY <1>2 DEF RawRetain, owner
  <2>2. Live' = Live
    BY <1>2, GainKeeps DEF RawRetain
  <2>3. QED
    BY <1>2, <2>1, <2>2 DEF RawRetain, Ownership!RawRetain
<1>3. ASSUME NEW o \in Objects, RawRelease(o) PROVE Ownership!RawRelease(o)
  <2>1. owner' = owner
    BY <1>3 DEF RawRelease, owner
  <2>2. Live' = Ownership!Surviving(Live, owner', raw')
    BY <1>3, LossSurvives DEF RawRelease
  <2>3. QED
    BY <1>3, <2>1, <2>2 DEF RawRelease, Ownership!RawRelease

<1>4. ASSUME NEW w \in Wrappers, NEW o \in Objects, ConstructTransfer(w, o)
      PROVE  Ownership!Transfer(w, o) \/ Ownership!Acquire(w, o)
  <2>1. owner[w] = None /\ owner' = [owner EXCEPT ![w] = o]
    BY <1>4, OwnerSteps
  <2>2. Live' = Live
    BY <1>4 DEF ConstructTransfer, Alive
  <2>3. CASE o \in Counted
    BY <1>4, <2>1, <2>2, <2>3 DEF ConstructTransfer, Ownership!Transfer
  <2>4. CASE o \notin Counted
    BY <1>4, <2>1, <2>2, <2>4 DEF ConstructTransfer, Alive, Ownership!Acquire
  <2>5. QED
    BY <2>3, <2>4
<1>5. ASSUME NEW w \in Wrappers, NEW o \in Objects, ConstructShared(w, o)
      PROVE  Ownership!Acquire(w, o)
  <2>1. owner[w] = None /\ owner' = [owner EXCEPT ![w] = o]
    BY <1>5, OwnerSteps
  <2>2. Live' = Live
    BY <1>5, GainKeeps DEF ConstructShared
  <2>3. QED
    BY <1>5, <2>1, <2>2 DEF ConstructShared, Ownership!Acquire
<1>6. ASSUME NEW w \in Wrappers, NEW s \in Wrappers, CopyConstruct(w, s)
      PROVE  id[s] \in Objects /\ Ownership!Acquire(w, id[s])
  <2>1. owner[w] = None /\ owner' = [owner EXCEPT ![w] = id[s]]
    BY <1>6, OwnerSteps
  <2>2. id[s] \in Objects /\ Alive(id[s])
    BY <1>0, <1>6 DEF CopyConstruct, Readable, NoDangling, owner, TypeOK
  <2>3. Live' = Live
    BY <1>6, <2>2, GainKeeps DEF CopyConstruct
  <2>4. QED
    BY <1>6, <2>1, <2>2, <2>3 DEF CopyConstruct, Ownership!Acquire
<1>7. ASSUME NEW w \in Wrappers,
             Destroy(w) \/ \E s \in Wrappers : AssignRelease(w, s)
      PROVE  Ownership!Drop(w)
  <2>1. owner[w] = id[w] /\ owner' = [owner EXCEPT ![w] = None]
    BY <1>7, OwnerSteps
  <2>2. id[w] \in Objects /\ refs' = Released(id[w]) /\ raw' = raw
    BY <1>7 DEF Destroy, AssignRelease, TypeOK
  <2>3. Live' = Ownership!Surviving(Live, owner', raw')
    BY <2>2, LossSurvives
  <2>4. QED
    BY <2>1, <2>2, <2>3 DEF Ownership!Drop
<1>8. ASSUME NEW w \in Wrappers, AssignRetain(w)
      PROVE  id[source[w]] \in Objects /\ Ownership!Acquire(w, id[source[w]])
  <2>1. owner[w] = None /\ owner' = [owner EXCEPT ![w] = id[source[w]]]
    BY <1>8, OwnerSteps
  <2>2. id[source[w]] \in Objects /\ Alive(id[source[w]])
    BY <1>0, <1>8 DEF AssignRetain, Readable, NoDangling, TypeOK
  <2>3. Live' = Live
    BY <1>8, <2>2, GainKeeps DEF AssignRetain
  <2>4. QED
    BY <1>8, <2>1, <2>2, <2>3 DEF AssignRetain, Ownership!Acquire
<1>9. ASSUME NEW w \in Wrappers, AssignRetainThrows(w) PROVE FALSE
  BY <1>0, <1>9 DEF AssignRetainThrows
<1>10. CASE UNCHANGED vars
  <2>1. owner' = owner /\ Live' = Live /\ raw' = raw
    BY <1>10 DEF vars, owner, Alive
  <2>2. QED
    BY <2>1 DEF Ownership!vars
<1>11. CASE Next
  BY <1>1, <1>2, <1>3, <1>4, <1>5, <1>6, <1>7, <1>8, <1>9, <1>11
  DEF Next, Ownership!Next
<1>12. QED
  BY <1>10, <1>11

\* The wrappers share ownership of their objects: until a retain() throws within
\* operator=, an object is destroyed at the very step in which its last owner
\* lets go of it, and no earlier.
THEOREM OwnershipRefinement == Spec => ImplementsOwnership
<1>1. IInv /\ NoDangling /\ IInv' /\ [Next]_vars =>
        [throws' = 0 => Ownership!Next]_(Ownership!vars)
  <2> SUFFICES ASSUME IInv, NoDangling, IInv', [Next]_vars, throws' = 0
               PROVE  [Ownership!Next]_(Ownership!vars)
    OBVIOUS
  <2>1. TypeOK /\ SourcesReadable /\ TypeOK' /\ CountsAgree
    BY CountsFollow DEF IInv
  <2>2. CountsAgree'
    <3> SUFFICES ASSUME NEW o \in Counted PROVE refs'[o] = Due(o)'
      BY DEF CountsAgree
    <3>1. /\ refs'[o] \in Int /\ raw'[o] \in Nat
          /\ Cardinality(Owners(o))' \in Nat
      BY OwnersNat DEF IInv, TypeOK
    <3>2. refs'[o] \in Due(o)' - throws' .. Due(o)'
      BY DEF IInv, ExceptionCost
    <3>3. QED
      BY <3>1, <3>2 DEF Due
  <2>3. QED
    BY <2>1, <2>2, StepOwnership
<1>2. QED
  BY <1>1, InitOwnership, Invariance, DanglingTheorem, PTL
  DEF Spec, ImplementsOwnership
=============================================================================
