------------------------------- MODULE Contexts -------------------------------
(***************************************************************************)
(* Context wrappers: what a wrapper remembers besides the identifier that  *)
(* it shares with the other wrappers of one OpenCL context.  Each keeps    *)
(* the device of a context that was created from one, so that calls may    *)
(* leave the device out, and a share of the block in which the callback of *)
(* the context lies, for the runtime to find.                              *)
(*                                                                         *)
(* An OpenCL context lives while a wrapper or one of the objects created   *)
(* in it does; Handles is the model of the counting that this takes.  Its  *)
(* block lives while a wrapper shares it (std::shared_ptr).  A call that   *)
(* OpenCL refuses throws and changes nothing, a constructor's included:    *)
(* the members already initialised are destroyed.                          *)
(***************************************************************************)
EXTENDS Naturals, FiniteSets

CONSTANTS
  Wrappers,     \* variables of type Context
  Contexts,     \* OpenCL contexts
  Devices,      \* OpenCL devices
  Children,     \* objects created in contexts
  None,         \* no such object yet, or no longer
  NULL,         \* a null pointer
  Garbage       \* an indeterminate pointer, neither null nor a device

ASSUME ContextsAssumption ==
  /\ NULL # Garbage /\ {NULL, Garbage} \cap Devices = {}
  /\ NULL \notin Contexts
  /\ None \notin [devices : SUBSET Devices, oneDevice : BOOLEAN, callback : BOOLEAN]

VARIABLES
  wrapper,    \* the C++ objects, their members
  made,       \* the OpenCL contexts created so far
  child,      \* the objects created in contexts that still exist
  missed      \* contexts a notification of which found its block freed

vars == <<wrapper, made, child, missed>>

\* Variables that hold a Context; wrapper[w].raw tells that it stems from an
\* identifier, not from a constructor that creates a context.
Live == {w \in Wrappers : wrapper[w] # None}

ChildrenOf(c) == {k \in Children : child[k] # None /\ child[k].ctx = c}

Alive(c) == ChildrenOf(c) # {} \/ \E w \in Live : wrapper[w].ctx = c

\* The block of the callback of c still exists.
BlockAlive(c) == \E w \in Live : wrapper[w].block = c

Init ==
  /\ wrapper = [w \in Wrappers |-> None]
  /\ made = [c \in Contexts |-> None]
  /\ child = [k \in Children |-> None]
  /\ missed = {}

-----------------------------------------------------------------------------
(* Constructors, assignment, destruction. *)

\* create_context and create_context_from_type: the callback, if any, is registered
\* with the address of its block.
CreateContext(w, ds, single, callback) ==
  /\ w \notin Live
  /\ \E c \in Contexts :
       /\ made[c] = None
       /\ made' = [made EXCEPT ![c] = [devices |-> ds, oneDevice |-> single # NULL,
                                       callback |-> callback]]
       /\ wrapper' = [wrapper EXCEPT ![w] =
            [ctx |-> c, single |-> single, 
             block |-> IF callback THEN c ELSE NULL, raw |-> FALSE]]
  /\ UNCHANGED <<child, missed>>

\* The constructor from a Device.
FromDevice(w, callback) == \E d \in Devices : CreateContext(w, {d}, d, callback)

\* The constructor from a vector of them, which may have but one.
FromDevices(w, callback) ==
  \E ds \in SUBSET Devices \ {{}} : CreateContext(w, ds, NULL, callback)

\* The constructor from a device type, of which there may be but one.
FromType(w, callback) ==
  \E ds \in SUBSET Devices \ {{}} : CreateContext(w, ds, NULL, callback)

\* The constructor from an identifier, as raw_context_id() gives it.  It does not
\* initialise single_device_id.
WrapIdentifier(w) ==
  /\ w \notin Live
  /\ \E c \in {c \in Contexts : Alive(c)}, d \in Devices \cup {NULL, Garbage} :
       wrapper' = [wrapper EXCEPT ![w] =
         [ctx |-> c, single |-> d, block |-> NULL, raw |-> TRUE]]
  /\ UNCHANGED <<made, child, missed>>

\* copy_internal_data, from s into w.
CopyForgetsDevice(w, s) ==                                       \* mutant
  IF w \in Live THEN [wrapper[s] EXCEPT !.single = wrapper[w].single] ELSE wrapper[s]
CopyForgetsCallback(w, s) ==                                     \* mutant
  [wrapper[s] EXCEPT !.block = IF w \in Live THEN wrapper[w].block ELSE NULL]
CopyInternalData(w, s) == wrapper[s]

CopyConstruct(w, s) ==
  /\ w \notin Live /\ s \in Live
  /\ wrapper' = [wrapper EXCEPT ![w] = CopyInternalData(w, s)]
  /\ UNCHANGED <<made, child, missed>>

\* operator= does nothing between wrappers of one context, else it releases and
\* copies.  The block of the old context may go with it.
Assign(w, s) ==
  /\ {w, s} \subseteq Live
  /\ wrapper[w].ctx # wrapper[s].ctx
  /\ wrapper' = [wrapper EXCEPT ![w] = CopyInternalData(w, s)]
  /\ UNCHANGED <<made, child, missed>>

DestroyContext(w) ==
  /\ w \in Live
  /\ wrapper' = [wrapper EXCEPT ![w] = None]
  /\ UNCHANGED <<made, child, missed>>

-----------------------------------------------------------------------------
(* Objects created in a context. *)

CreateChild(w, ds, implied) ==
  /\ w \in Live
  /\ ds \subseteq made[wrapper[w].ctx].devices       \* else OpenCL refuses
  /\ \E k \in Children :
       /\ child[k] = None
       /\ child' = [child EXCEPT ![k] =
            [ctx |-> wrapper[w].ctx, devices |-> ds, implied |-> implied,
             raw |-> wrapper[w].raw]]
  /\ UNCHANGED <<wrapper, made, missed>>

\* The overloads without devices take the one the wrapper knows; they throw
\* AmbiguousDevice if it knows none.
ImpliedDevice(w) ==
  /\ w \in Live /\ wrapper[w].single # NULL
  /\ CreateChild(w, {wrapper[w].single}, TRUE)

CreateCommandQueue(w) ==
  \/ \E d \in Devices : CreateChild(w, {d}, FALSE)
  \/ ImpliedDevice(w)

CreateProgramWithBinary(w) ==
  \/ \E ds \in SUBSET Devices \ {{}} : CreateChild(w, ds, FALSE)
  \/ ImpliedDevice(w)

CreateProgramWithBuiltInKernels(w) ==
  \/ \E ds \in SUBSET Devices \ {{}} : CreateChild(w, ds, FALSE)
  \/ ImpliedDevice(w)

\* Programs from source are for every device of the context.
CreateProgramWithSource(w) ==
  w \in Live /\ CreateChild(w, made[wrapper[w].ctx].devices, FALSE)

\* Memory objects and user events are for no device in particular.
CreateMemoryObject(w) == CreateChild(w, {}, FALSE)
CreateUserEvent(w) == CreateChild(w, {}, FALSE)

CreateIn(w) ==
  \/ CreateCommandQueue(w)
  \/ CreateProgramWithBinary(w) \/ CreateProgramWithBuiltInKernels(w)
  \/ CreateProgramWithSource(w)
  \/ CreateMemoryObject(w) \/ CreateUserEvent(w)

\* The last reference to a child goes.
DropChild(k) ==
  /\ child[k] # None
  /\ child' = [child EXCEPT ![k] = None]
  /\ UNCHANGED <<wrapper, made, missed>>

\* The runtime notifies of an error in the context: raw_callback reads the block.
Notify(c) ==
  /\ Alive(c) /\ made[c].callback
  /\ missed' = IF BlockAlive(c) THEN missed ELSE missed \cup {c}
  /\ UNCHANGED <<wrapper, made, child>>

-----------------------------------------------------------------------------

Next ==
  \/ \E w \in Wrappers :
       \/ \E callback \in BOOLEAN :
            FromDevice(w, callback) \/ FromDevices(w, callback) \/ FromType(w, callback)
       \/ WrapIdentifier(w)
       \/ \E s \in Wrappers : CopyConstruct(w, s) \/ Assign(w, s)
       \/ CreateIn(w)
       \/ DestroyContext(w)
  \/ \E k \in Children : DropChild(k)
  \/ \E c \in Contexts : Notify(c)

Spec == Init /\ [][Next]_vars

-----------------------------------------------------------------------------
(* Properties. *)

\* What w holds in single_device_id is the only device of a context made from one
\* Device, NULL for another context.
KnowsDevice(w) ==
  LET m == made[wrapper[w].ctx] IN
  IF m.oneDevice THEN m.devices = {wrapper[w].single} ELSE wrapper[w].single = NULL

\* A wrapper that stems from a constructor that creates contexts knows its device,
\* however often it was copied from or assigned from contexts of either sort: the
\* overloads that leave the device out throw AmbiguousDevice if and only if the
\* context was not created from a single Device (context.hpp:61), and what they create
\* is for the only device of its context.
SingleDeviceKnown ==
  /\ \A w \in Live : ~wrapper[w].raw => KnowsDevice(w)
  /\ \A k \in Children : child[k] # None /\ child[k].implied /\ ~child[k].raw =>
       child[k].devices = made[child[k].ctx].devices

\* Every wrapper does, as context.hpp:146 has it: "If our context was created with
\* only one device, this will contain its OpenCL identifier, otherwise it will
\* contain NULL".
SingleDeviceTruth == \A w \in Live : KnowsDevice(w)

\* raw_callback finds the block of its context freed only if the program let the
\* wrappers that were created with it, and their copies, go, and kept the context by
\* an object created in it or by a wrapper made from its identifier.
MissedOnlyIfLetGo ==
  [][\A c \in missed' \ missed :
       /\ \A w \in Live : wrapper[w].ctx = c => wrapper[w].raw
       /\ ChildrenOf(c) # {} \/ \E w \in Live : wrapper[w].ctx = c]_vars
=============================================================================
