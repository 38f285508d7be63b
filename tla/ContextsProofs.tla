--------------------------- MODULE ContextsProofs ---------------------------
(***************************************************************************)
(* Proofs about Contexts, for any sets of wrappers, contexts, devices and  *)
(* objects.  What a wrapper knows is true because every wrapper got its    *)
(* members from the constructor that made its context, be it through a     *)
(* chain of copies, and because the context it names is never made anew;   *)
(* the inductive invariant says both.                                      *)
(***************************************************************************)
EXTENDS Contexts, TLAPS

\* A context, a wrapper and an object of one, as the constructors make them.
Records == [devices : SUBSET Devices, oneDevice : BOOLEAN, callback : BOOLEAN]

Members == [ctx : Contexts, single : Devices \cup {NULL, Garbage},
            block : Contexts \cup {NULL}, raw : BOOLEAN]

Objects == [ctx : Contexts, devices : SUBSET Devices, implied : BOOLEAN,
            raw : BOOLEAN]

TypeOK ==
  /\ wrapper \in [Wrappers -> Members \cup {None}]
  /\ made \in [Contexts -> Records \cup {None}]
  /\ child \in [Children -> Objects \cup {None}]
  /\ missed \subseteq Contexts

\* Nothing names a context that has not been made, so that no context is made
\* under the feet of what names it.
NamesMade ==
  /\ \A w \in Live : made[wrapper[w].ctx] # None
  /\ \A k \in Children : child[k] # None => made[child[k].ctx] # None

\* A wrapper that stems from a constructor shares the block of its context's
\* callback.
SharesBlock ==
  \A w \in Live : ~wrapper[w].raw /\ made[wrapper[w].ctx].callback
    => wrapper[w].block = wrapper[w].ctx

IInv == TypeOK /\ NamesMade /\ SharesBlock /\ SingleDeviceKnown

USE ContextsAssumption

-----------------------------------------------------------------------------
(* The invariant, action by action. *)

LEMMA InitIInv == Init => IInv
<1> SUFFICES ASSUME Init PROVE IInv
  OBVIOUS
<1> USE DEF Init
<1>1. TypeOK
  BY DEF TypeOK
<1>2. Live = {} /\ \A k \in Children : child[k] = None
  BY DEF Live
<1>3. NamesMade /\ SharesBlock /\ SingleDeviceKnown
  BY <1>2 DEF NamesMade, SharesBlock, SingleDeviceKnown
<1>4. QED
  BY <1>1, <1>3 DEF IInv

\* A wrapper of a new context knows what the constructor was given: the device d it
\* was given alone, or none.
LEMMA CreateContextIInv ==
  ASSUME IInv, NEW w \in Wrappers, NEW ds \in SUBSET Devices,
         NEW single \in Devices \cup {NULL}, NEW callback \in BOOLEAN,
         single # NULL => ds = {single},
         CreateContext(w, ds, single, callback)
  PROVE  IInv'
<1>1. PICK c \in Contexts :
        /\ made[c] = None
        /\ made' = [made EXCEPT ![c] = [devices |-> ds, oneDevice |-> single # NULL,
                                        callback |-> callback]]
        /\ wrapper' = [wrapper EXCEPT ![w] =
             [ctx |-> c, single |-> single,
              block |-> IF callback THEN c ELSE NULL, raw |-> FALSE]]
  BY DEF CreateContext
<1>2. child' = child /\ missed' = missed
  BY DEF CreateContext
<1> DEFINE rec == [devices |-> ds, oneDevice |-> single # NULL, callback |-> callback]
           new == [ctx |-> c, single |-> single,
                   block |-> IF callback THEN c ELSE NULL, raw |-> FALSE]
<1>3. rec \in Records /\ rec # None /\ new \in Members
  <2>1. rec \in Records
    BY DEF Records
  <2>2. new \in Members
    BY DEF Members
  <2>3. None \notin Records
    BY ContextsAssumption DEF Records, ContextsAssumption
  <2>4. QED
    BY <2>1, <2>2, <2>3
<1>4. /\ made'[c] = rec /\ wrapper'[w] = new
      /\ \A e \in Contexts : e # c => made'[e] = made[e]
      /\ \A v \in Wrappers : v # w => wrapper'[v] = wrapper[v]
  BY <1>1 DEF IInv, TypeOK
<1>5. TypeOK'
  BY <1>1, <1>2, <1>3 DEF IInv, TypeOK
<1>6. \A v \in Live' : v # w => /\ v \in Live /\ wrapper'[v] = wrapper[v]
                                /\ made[wrapper[v].ctx] # None
                                /\ made'[wrapper[v].ctx] = made[wrapper[v].ctx]
  BY <1>1, <1>4 DEF IInv, TypeOK, NamesMade, Live, Members
<1>7. \A k \in Children : child[k] # None => /\ made[child[k].ctx] # None
                                             /\ child[k].ctx \in Contexts
                                             /\ child[k].ctx # c
  BY <1>1 DEF IInv, TypeOK, NamesMade, Objects
<1>8. NamesMade'
  BY <1>2, <1>3, <1>4, <1>6, <1>7 DEF NamesMade, Live
<1>9. SharesBlock'
  <2>1. \A v \in Live' : v # w => (~wrapper'[v].raw /\ made'[wrapper'[v].ctx].callback
                                     => wrapper'[v].block = wrapper'[v].ctx)
    BY <1>4, <1>6 DEF IInv, SharesBlock
  <2>2. ~new.raw /\ rec.callback => new.block = c /\ new.ctx = c
    OBVIOUS
  <2>3. QED
    BY <1>4, <2>1, <2>2 DEF SharesBlock
<1>10. \A v \in Live' : ~wrapper'[v].raw => KnowsDevice(v)'
  <2>1. \A v \in Live' : v # w => (~wrapper'[v].raw => KnowsDevice(v)')
    BY <1>6 DEF IInv, SingleDeviceKnown, KnowsDevice
  <2>2. /\ rec.oneDevice => rec.devices = {new.single}
        /\ ~rec.oneDevice => new.single = NULL
    OBVIOUS
  <2>3. new.ctx = c
    OBVIOUS
  <2> HIDE DEF rec, new
  <2>4. KnowsDevice(w)'
    BY <1>4, <2>2, <2>3 DEF KnowsDevice
  <2>5. QED
    BY <2>1, <2>4
<1>11. \A k \in Children : child'[k] # None /\ child'[k].implied /\ ~child'[k].raw
         => child'[k].devices = made'[child'[k].ctx].devices
  BY <1>2, <1>4, <1>7 DEF IInv, SingleDeviceKnown
<1>12. QED
  BY <1>5, <1>8, <1>9, <1>10, <1>11 DEF IInv, SingleDeviceKnown

\* Copies, wrappers of an identifier and destruction: w changes, and becomes a copy
\* of a wrapper, one that stems from an identifier, or none.
LEMMA RewrapIInv ==
  ASSUME IInv, NEW w \in Wrappers, NEW m,
         \/ \E s \in Live : m = wrapper[s]
         \/ m \in Members /\ m.raw /\ made[m.ctx] # None
         \/ m = None,
         wrapper' = [wrapper EXCEPT ![w] = m],
         UNCHANGED <<made, child, missed>>
  PROVE  IInv'
<1>1. m \in Members \cup {None}
  BY DEF IInv, TypeOK, Live
<1>2. TypeOK'
  BY <1>1 DEF IInv, TypeOK
<1>3. /\ wrapper'[w] = m
      /\ \A v \in Wrappers : v # w => wrapper'[v] = wrapper[v]
  BY DEF IInv, TypeOK
<1>4. \A v \in Live' : \/ \E s \in Live : wrapper'[v] = wrapper[s]
                       \/ wrapper'[v].raw /\ made[wrapper'[v].ctx] # None
  BY <1>3 DEF Live
<1>5. NamesMade'
  BY <1>4 DEF IInv, NamesMade
<1>6. SharesBlock'
  BY <1>4 DEF IInv, SharesBlock
<1>7. SingleDeviceKnown'
  BY <1>4 DEF IInv, SingleDeviceKnown, KnowsDevice
<1>8. QED
  BY <1>2, <1>5, <1>6, <1>7 DEF IInv

\* A context that is alive has been made.
LEMMA AliveMade ==
  ASSUME IInv, NEW c \in Contexts, Alive(c)
  PROVE  made[c] # None
BY DEF IInv, NamesMade, Alive, ChildrenOf

\* An object is created for devices of the context; where the call left the device
\* out, for the one that the wrapper knows, which must then be the only one.
LEMMA CreateChildIInv ==
  ASSUME IInv, NEW w \in Wrappers, NEW ds \in SUBSET (Devices \cup {Garbage}),
         NEW implied \in BOOLEAN,
         implied => wrapper[w].single # NULL /\ ds = {wrapper[w].single},
         CreateChild(w, ds, implied)
  PROVE  IInv'
<1> DEFINE new == [ctx |-> wrapper[w].ctx, devices |-> ds, implied |-> implied,
                   raw |-> wrapper[w].raw]
<1>1. PICK k \in Children : child' = [child EXCEPT ![k] = new]
  BY DEF CreateChild
<1>2. /\ wrapper' = wrapper /\ made' = made /\ missed' = missed
      /\ w \in Live /\ ds \subseteq made[wrapper[w].ctx].devices
  BY DEF CreateChild
<1>3. made[wrapper[w].ctx] # None /\ wrapper[w] \in Members
  BY <1>2 DEF IInv, TypeOK, NamesMade, Live
<1>4. made[wrapper[w].ctx] \in Records
  BY <1>3 DEF IInv, TypeOK, Members
<1>5. new \in Objects
  BY <1>2, <1>3, <1>4 DEF Members, Records, Objects
<1>6. TypeOK'
  BY <1>1, <1>2, <1>5 DEF IInv, TypeOK
<1>7. /\ child'[k] = new
      /\ \A j \in Children : j # k => child'[j] = child[j]
  BY <1>1 DEF IInv, TypeOK
<1>8. NamesMade'
  BY <1>2, <1>3, <1>7 DEF IInv, NamesMade, Live
<1>9. SharesBlock'
  BY <1>2 DEF IInv, SharesBlock, Live
<1>10. new.implied /\ ~new.raw => new.devices = made[new.ctx].devices
  BY <1>2 DEF IInv, SingleDeviceKnown, KnowsDevice
<1>11. SingleDeviceKnown'
  BY <1>2, <1>7, <1>10 DEF IInv, SingleDeviceKnown, KnowsDevice, Live
<1>12. QED
  BY <1>6, <1>8, <1>9, <1>11 DEF IInv

LEMMA CreateInIInv ==
  ASSUME IInv, NEW w \in Wrappers, CreateIn(w)
  PROVE  IInv'
<1>1. w \in Live
  BY DEF CreateIn, CreateCommandQueue, CreateProgramWithBinary, ImpliedDevice,
         CreateProgramWithBuiltInKernels, CreateProgramWithSource,
         CreateMemoryObject, CreateUserEvent, CreateChild
<1>2. wrapper[w] \in Members /\ made[wrapper[w].ctx] \in Records
  BY <1>1 DEF IInv, TypeOK, NamesMade, Live, Members
<1>3. ASSUME NEW ds \in SUBSET Devices, CreateChild(w, ds, FALSE)
      PROVE  IInv'
  BY <1>3, CreateChildIInv
<1>4. ASSUME ImpliedDevice(w)
      PROVE  IInv'
  <2>1. {wrapper[w].single} \in SUBSET (Devices \cup {Garbage})
    BY <1>2, <1>4 DEF ImpliedDevice, Members
  <2>2. QED
    BY <1>4, <2>1, CreateChildIInv DEF ImpliedDevice
<1>5. CASE CreateCommandQueue(w) \/ CreateMemoryObject(w) \/ CreateUserEvent(w)
  <2>1. \A d \in Devices : {d} \in SUBSET Devices
    OBVIOUS
  <2>2. QED
    BY <1>3, <1>4, <1>5, <2>1
    DEF CreateCommandQueue, CreateMemoryObject, CreateUserEvent
<1>6. CASE CreateProgramWithBinary(w) \/ CreateProgramWithBuiltInKernels(w)
  BY <1>3, <1>4, <1>6 DEF CreateProgramWithBinary, CreateProgramWithBuiltInKernels
<1>7. CASE CreateProgramWithSource(w)
  <2>1. made[wrapper[w].ctx].devices \in SUBSET Devices
    BY <1>2 DEF Records
  <2>2. QED
    BY <1>3, <1>7, <2>1 DEF CreateProgramWithSource
<1>8. QED
  BY <1>5, <1>6, <1>7 DEF CreateIn

LEMMA NextIInv == IInv /\ [Next]_vars => IInv'
<1> SUFFICES ASSUME IInv, [Next]_vars PROVE IInv'
  OBVIOUS
<1>1. CASE UNCHANGED vars
  BY <1>1 DEF vars, IInv, TypeOK, NamesMade, SharesBlock, SingleDeviceKnown,
              KnowsDevice, Live
<1>2. ASSUME NEW w \in Wrappers, NEW callback \in BOOLEAN, FromDevice(w, callback)
      PROVE  IInv'
  <2>1. PICK d \in Devices : CreateContext(w, {d}, d, callback)
    BY <1>2 DEF FromDevice
  <2>2. QED
    BY <2>1, CreateContextIInv
<1>3. ASSUME NEW w \in Wrappers, NEW callback \in BOOLEAN,
             FromDevices(w, callback) \/ FromType(w, callback)
      PROVE  IInv'
  <2>1. PICK ds \in SUBSET Devices : CreateContext(w, ds, NULL, callback)
    BY <1>3 DEF FromDevices, FromType
  <2>2. QED
    BY <2>1, CreateContextIInv
<1>4. ASSUME NEW w \in Wrappers, WrapIdentifier(w)
      PROVE  IInv'
  <2>1. PICK c \in Contexts, d \in Devices \cup {NULL, Garbage} :
          /\ Alive(c)
          /\ wrapper' = [wrapper EXCEPT ![w] =
               [ctx |-> c, single |-> d, block |-> NULL, raw |-> TRUE]]
    BY <1>4 DEF WrapIdentifier
  <2> DEFINE m == [ctx |-> c, single |-> d, block |-> NULL, raw |-> TRUE]
  <2>2. m \in Members /\ m.raw /\ made[m.ctx] # None
    BY <2>1, AliveMade DEF Members
  <2>3. UNCHANGED <<made, child, missed>>
    BY <1>4 DEF WrapIdentifier
  <2>4. QED
    BY <2>1, <2>2, <2>3, RewrapIInv
<1>5. ASSUME NEW w \in Wrappers, NEW s \in Wrappers, CopyConstruct(w, s) \/ Assign(w, s)
      PROVE  IInv'
  BY <1>5, RewrapIInv DEF CopyConstruct, Assign, CopyInternalData
<1>6. ASSUME NEW w \in Wrappers, DestroyContext(w)
      PROVE  IInv'
  BY <1>6, RewrapIInv DEF DestroyContext
<1>7. ASSUME NEW k \in Children, DropChild(k)
      PROVE  IInv'
  BY <1>7 DEF DropChild, IInv, TypeOK, NamesMade, SharesBlock, SingleDeviceKnown,
              KnowsDevice, Live
<1>8. ASSUME NEW c \in Contexts, Notify(c)
      PROVE  IInv'
  BY <1>8 DEF Notify, IInv, TypeOK, NamesMade, SharesBlock, SingleDeviceKnown,
              KnowsDevice, Live
<1>9. QED
  BY <1>1, <1>2, <1>3, <1>4, <1>5, <1>6, <1>7, <1>8, CreateInIInv DEF Next

-----------------------------------------------------------------------------
(* The theorems. *)

\* The inductive invariant holds in every state that the program reaches.
THEOREM Invariance == Spec => []IInv
<1>1. QED
  BY InitIInv, NextIInv, PTL DEF Spec

\* Wrappers from the constructors that create contexts know their device through any
\* chain of copies and assignments, and so do the overloads without a device.
THEOREM DevicesKnown == Spec => []SingleDeviceKnown
<1>1. IInv => SingleDeviceKnown
  BY DEF IInv
<1>2. QED
  BY <1>1, Invariance, PTL

\* While a wrapper shares the callback of its context, raw_callback finds the block.
THEOREM BlockFound == Spec => MissedOnlyIfLetGo
<1> DEFINE LetGo(c) == /\ \A w \in Live : wrapper[w].ctx = c => wrapper[w].raw
                       /\ ChildrenOf(c) # {} \/ \E w \in Live : wrapper[w].ctx = c
           A == \A c \in missed' \ missed : LetGo(c)
<1>1. ASSUME IInv, [Next]_vars PROVE A
  <2>1. CASE missed' = missed
    BY <2>1
  <2>2. ASSUME NEW c \in Contexts, Notify(c), missed' # missed PROVE A
    <3>1. Alive(c) /\ made[c].callback /\ ~BlockAlive(c) /\ missed' = missed \cup {c}
      BY <2>2 DEF Notify
    <3>2. \A w \in Live : wrapper[w].ctx = c => wrapper[w].raw
      BY <1>1, <3>1 DEF IInv, TypeOK, SharesBlock, BlockAlive, Members, Live
    <3>3. LetGo(c)
      BY <3>1, <3>2 DEF Alive
    <3>4. QED
      BY <3>1, <3>3
  <2>3. missed' # missed => \E c \in Contexts : Notify(c)
    BY <1>1 DEF Next, vars, FromDevice, FromDevices, FromType, CreateContext,
         WrapIdentifier, CopyConstruct, Assign, DestroyContext, DropChild, CreateIn,
         CreateCommandQueue, CreateProgramWithBinary, ImpliedDevice,
         CreateProgramWithBuiltInKernels, CreateProgramWithSource,
         CreateMemoryObject, CreateUserEvent, CreateChild
  <2>4. QED
    BY <2>1, <2>2, <2>3
<1>2. IInv /\ [Next]_vars => [A]_vars
  BY <1>1
<1>3. QED
  BY <1>2, Invariance, PTL DEF Spec, MissedOnlyIfLetGo
=============================================================================
