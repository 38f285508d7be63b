--------------------------- MODULE MemoryCallbacks ---------------------------
(***************************************************************************)
(* The destructor callbacks of a MemoryObject, for one cl_mem.  Each       *)
(* constructor from a raw handle allocates a list of callbacks and         *)
(* registers liberate_callback_list with OpenCL; copies share the list by  *)
(* raw pointer; the first callback set in a list registers raw_callback.   *)
(* When the last reference is gone, the runtime calls what was registered, *)
(* last registered first, in a thread of its own.                          *)
(*                                                                         *)
(* The library itself wraps one cl_mem several times:                      *)
(* associated_memobject() makes a new MemoryObject, and a new list, from   *)
(* the handle each time it is called.                                      *)
(***************************************************************************)
EXTENDS Naturals, Sequences, FiniteSets

CONSTANTS
  Wrappers,   \* MemoryObject variables of the host
  Lists,      \* heap addresses of the vectors of callbacks
  Callbacks,  \* std::functions to be set, each of them once
  MaxWraps,   \* bound on the constructions from the raw handle
  MayFail,    \* may clSetMemObjectDestructorCallback fail?
  MaxEmpty,   \* how often set_destructor_callback may be given an empty function
  None

ASSUME MemoryCallbacksAssumption ==
  /\ MaxWraps \in Nat \ {0}
  /\ MayFail \in BOOLEAN
  /\ MaxEmpty \in Nat
  /\ None \notin Lists

VARIABLES
  held,       \* internal_callbacks_ptr of each wrapper; None: not constructed
  list,       \* the vector at each address
  heap,       \* state of each address: "free", "used", then "deleted";
              \* "orphan" if the constructor that allocated it threw
  raw,        \* is the reference clCreateX returned still the caller's?
  stack,      \* what is registered with OpenCL, in order of registration
  phase,      \* the cl_mem: "alive", "dying" (its callbacks run), then "gone"
  current,    \* what is left of the raw_callback at work
  log,        \* the user callbacks called, in order
  set,        \* what became of each callback's set_destructor_callback
  wraps, empties

vars == <<held, list, heap, raw, stack, phase, current, log, set, wraps, empties>>

Init ==
  /\ held = [w \in Wrappers |-> None]
  /\ list = [l \in Lists |-> <<>>]
  /\ heap = [l \in Lists |-> "free"]
  /\ raw = TRUE
  /\ stack = <<>>
  /\ phase = "alive"
  /\ current = <<>>
  /\ log = <<>>
  /\ set = [c \in Callbacks |-> "none"]
  /\ wraps = 0 /\ empties = 0

-----------------------------------------------------------------------------
(* The host. *)

\* MemoryObject{id, increment_reference_count}: with FALSE the caller's reference
\* becomes the wrapper's, with TRUE another wrapper lends the handle.
Construct(w, l, increment) ==
  /\ phase = "alive"
  /\ held[w] = None
  /\ heap[l] = "free"
  /\ wraps < MaxWraps
  /\ IF increment THEN \E v \in Wrappers : held[v] # None ELSE raw
  /\ wraps' = wraps + 1
  /\ \/ /\ held' = [held EXCEPT ![w] = l]
        /\ heap' = [heap EXCEPT ![l] = "used"]
        /\ stack' = Append(stack, [call |-> "liberate", list |-> l])
     \/ /\ MayFail    \* the constructor throws: neither list nor reference go
        /\ heap' = [heap EXCEPT ![l] = "orphan"]
        /\ UNCHANGED <<held, stack>>
  /\ raw' = (raw /\ increment)
  /\ UNCHANGED <<list, phase, current, log, set, empties>>

\* Copy constructor, and operator= between wrappers of this cl_mem (which keeps
\* the target's list).
Copy(w, s) ==
  /\ held[s] # None
  /\ held[w] = None
  /\ held' = [held EXCEPT ![w] = held[s]]
  /\ UNCHANGED <<list, heap, raw, stack, phase, current, log, set, wraps, empties>>

\* raw_callback is registered for the first callback of a list only.
MustRegisterLate(callbacks) == Len(callbacks) = 2                \* mutant
MustRegister(callbacks) == Len(callbacks) = 1

\* add_destructor_callback.
AddDestructorCallback(w, c) ==
  LET l == held[w]
      after == Append(list[l], c)
  IN  /\ l # None
      /\ set[c] = "none"
      /\ list' = [list EXCEPT ![l] = after]
      /\ \/ /\ MustRegister(after)
            /\ stack' = Append(stack, [call |-> "raw", list |-> l])
            /\ set' = [set EXCEPT ![c] = "set"]
         \/ /\ MustRegister(after) /\ MayFail
            /\ set' = [set EXCEPT ![c] = "threw"]
            /\ UNCHANGED stack
         \/ /\ ~MustRegister(after)
            /\ set' = [set EXCEPT ![c] = "set"]
            /\ UNCHANGED stack
      /\ UNCHANGED <<held, heap, raw, phase, current, log, wraps, empties>>

\* The same function, given an empty callback; should its registration be refused,
\* nothing changes.
AddEmptyCallback(w) ==
  LET l == held[w] IN
  /\ l # None
  /\ empties < MaxEmpty
  /\ empties' = empties + 1
  /\ stack' = IF MustRegister(list[l])
                THEN Append(stack, [call |-> "raw", list |-> l]) ELSE stack
  /\ UNCHANGED <<held, list, heap, raw, phase, current, log, set, wraps>>

\* Mutant: a destructor that deletes the list itself.
DestroyAndDelete(w) ==
  /\ held[w] # None
  /\ held' = [held EXCEPT ![w] = None]
  /\ heap' = [heap EXCEPT ![held[w]] = "deleted"]
  /\ phase' = IF ~raw /\ \A v \in Wrappers : held'[v] = None
                THEN "dying" ELSE phase
  /\ UNCHANGED <<list, raw, stack, current, log, set, wraps, empties>>

\* ~MemoryObject: release(); the last one starts the destruction of the cl_mem.
\* "We cannot liberate the callback list in release()".
Destroy(w) ==
  /\ held[w] # None
  /\ held' = [held EXCEPT ![w] = None]
  /\ phase' = IF ~raw /\ \A v \in Wrappers : held'[v] = None
                THEN "dying" ELSE phase
  /\ UNCHANGED <<list, heap, raw, stack, current, log, set, wraps, empties>>

-----------------------------------------------------------------------------
(* The runtime. *)

Top == stack[Len(stack)]
Popped == SubSeq(stack, 1, Len(stack) - 1)

\* raw_callback copies the list.
RawCallback ==
  /\ phase = "dying" /\ current = <<>>
  /\ stack # <<>> /\ Top.call = "raw"
  /\ heap[Top.list] = "used"
  /\ current' = list[Top.list]
  /\ stack' = Popped
  /\ UNCHANGED <<held, list, heap, raw, phase, log, set, wraps, empties>>

\* "Call the destructor callbacks in reverse order (per OpenCL specification)".
CallsFromFirst(todo) == [next |-> Head(todo), rest |-> Tail(todo)]   \* mutant
Calls(todo) == [next |-> todo[Len(todo)], rest |-> SubSeq(todo, 1, Len(todo) - 1)]

CallNext ==
  /\ current # <<>>
  /\ log' = Append(log, Calls(current).next)
  /\ current' = Calls(current).rest
  /\ UNCHANGED <<held, list, heap, raw, stack, phase, set, wraps, empties>>

\* Mutant: liberate_callback_list does nothing.
LiberateNothing ==
  /\ phase = "dying" /\ current = <<>>
  /\ stack # <<>> /\ Top.call = "liberate"
  /\ stack' = Popped
  /\ UNCHANGED <<held, list, heap, raw, phase, current, log, set, wraps, empties>>

\* liberate_callback_list.
Liberate ==
  /\ phase = "dying" /\ current = <<>>
  /\ stack # <<>> /\ Top.call = "liberate"
  /\ heap[Top.list] = "used"
  /\ heap' = [heap EXCEPT ![Top.list] = "deleted"]
  /\ stack' = Popped
  /\ UNCHANGED <<held, list, raw, phase, current, log, set, wraps, empties>>

Gone ==
  /\ phase = "dying" /\ current = <<>> /\ stack = <<>>
  /\ phase' = "gone"
  /\ UNCHANGED <<held, list, heap, raw, stack, current, log, set, wraps, empties>>

Runtime == RawCallback \/ CallNext \/ Liberate \/ Gone

Next ==
  \/ \E w \in Wrappers, l \in Lists, i \in BOOLEAN : Construct(w, l, i)
  \/ \E w, s \in Wrappers : Copy(w, s)
  \/ \E w \in Wrappers, c \in Callbacks : AddDestructorCallback(w, c)
  \/ \E w \in Wrappers : AddEmptyCallback(w) \/ Destroy(w)
  \/ Runtime

Spec == Init /\ [][Next]_vars

-----------------------------------------------------------------------------
(* Properties. *)

\* What is registered with OpenCL points to a list that still exists, and each
\* list is to be deleted once: no use after free, no double free.
RegistrationsValid ==
  \A i, j \in DOMAIN stack :
    /\ heap[stack[i].list] = "used"
    /\ stack[i].call = "liberate" /\ stack[i].list = stack[j].list =>
         i <= j /\ (stack[j].call = "liberate" => i = j)

\* The list of every wrapper that was constructed is gone with the cl_mem.
ListsReclaimed == phase = "gone" => \A l \in Lists : heap[l] # "used"

Runs(c) == Cardinality({k \in DOMAIN log : log[k] = c})

\* Once the cl_mem is gone, all that set_destructor_callback accepted have run, if
\* raw_callback was registered for their list; and none ever runs twice but for
\* empty ones, each of which may repeat it once.
RunAsSet ==
  /\ \A c \in Callbacks : Runs(c) <= 1 + empties
  /\ phase = "gone" =>
       \A l \in Lists :
         list[l] # <<>> /\ set[list[l][1]] = "set" =>
           \A i \in DOMAIN list[l] : Runs(list[l][i]) > 0

\* Callbacks set through one list run last set, first called: d's first call comes
\* before c's.
StackPerList ==
  \A l \in Lists : \A i, j \in DOMAIN list[l] :
    LET c == list[l][i]
        d == list[l][j]
    IN  i < j /\ (\E m \in DOMAIN log : log[m] = c) =>
          \E n \in DOMAIN log : log[n] = d /\ \A m \in DOMAIN log : log[m] = c => n < m
=============================================================================
