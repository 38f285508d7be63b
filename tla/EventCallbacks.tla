--------------------------- MODULE EventCallbacks ---------------------------
(***************************************************************************)
(* Event::set_callback and Event::raw_callback, for one OpenCL event.  The *)
(* Event objects that name it are copies of each other and share three     *)
(* vectors of callbacks, one per execution status.  Only the first         *)
(* callback of a vector is registered with OpenCL, as raw_callback with a  *)
(* pointer to the vector; the runtime calls raw_callback in a thread of    *)
(* its own, which copies the vector and calls the callbacks of its copy.   *)
(***************************************************************************)
EXTENDS Integers, Sequences, FiniteSets

CONSTANTS
  Events,    \* Event objects of the host
  Callbacks,   \* std::functions to be set, each of them once
  MayFail,     \* may clSetEventCallback fail?
  MaxEmpty     \* how often set_callback may be given an empty std::function

ASSUME EventCallbacksAssumption ==
  /\ MayFail \in BOOLEAN
  /\ MaxEmpty \in Nat

\* Execution status of a command: an error is negative.
CL_QUEUED == 3
CL_SUBMITTED == 2
CL_RUNNING == 1
CL_COMPLETE == 0
Failed == -1

Types == {CL_SUBMITTED, CL_RUNNING, CL_COMPLETE}
Stores == 0 .. 2

VARIABLES
  holders,      \* the Event objects that exist
  user,         \* is it a user event?
  status,       \* execution status of the event
  store,        \* the vectors of *internal_callbacks_ptr
  set,          \* what became of each callback's set_callback
  empties,      \* number of empty callbacks set
  registered,   \* per type, how often raw_callback was registered
  fired,        \* per type, how often the runtime has called it
  running,      \* the raw_callbacks at work
  log           \* the calls of user callbacks, in order

eventVars == <<holders, user, status, store, set, empties, registered, fired, running,
          log>>

Called(c) == \E i \in DOMAIN log : log[i].callback = c

EventInit ==
  /\ \E w \in Events : holders = {w}
  /\ user \in BOOLEAN
  /\ status = IF user THEN CL_SUBMITTED ELSE CL_QUEUED
  /\ store = [i \in Stores |-> <<>>]
  /\ set = [c \in Callbacks |-> [type |-> CL_QUEUED, outcome |-> "none"]]
  /\ empties = 0
  /\ registered = [t \in Types |-> 0]
  /\ fired = [t \in Types |-> 0]
  /\ running = {}
  /\ log = <<>>

-----------------------------------------------------------------------------
(* The host. *)

CopyEvent(w) ==
  /\ holders # {}
  /\ holders' = holders \cup {w}
  /\ UNCHANGED <<user, status, store, set, empties, registered, fired, running, log>>

\* "An Event with a callback has been either full processed or copied before
\* leaving its scope" (event.hpp:71): all its callbacks have been called.
Processed == \A c \in Callbacks : set[c].outcome = "set" => Called(c)

DropEvent(w) ==
  /\ w \in holders
  /\ holders = {w} => Processed
  /\ holders' = holders \ {w}
  /\ UNCHANGED <<user, status, store, set, empties, registered, fired, running, log>>

\* The switch of add_event_callback; other types are refused with an exception.
StoreIndex(t) == CASE t = CL_SUBMITTED -> 0
                   [] t = CL_RUNNING -> 1
                   [] t = CL_COMPLETE -> 2

\* raw_callback is registered for the first callback of a store only.
MustRegisterAlways(callbacks) == TRUE                            \* mutant
MustRegister(callbacks) == Len(callbacks) = 1

\* add_event_callback: store the callback, then register.  A refusal of
\* clSetEventCallback is thrown, and the callback stays stored.
AddEventCallback(c, t) ==
  LET i == StoreIndex(t)
      after == Append(store[i], c)
  IN  /\ holders # {}
      /\ set[c].outcome = "none"
      /\ store' = [store EXCEPT ![i] = after]
      /\ \/ /\ MustRegister(after)
            /\ registered' = [registered EXCEPT ![t] = @ + 1]
            /\ set' = [set EXCEPT ![c] = [type |-> t, outcome |-> "set"]]
         \/ /\ MustRegister(after)
            /\ MayFail
            /\ set' = [set EXCEPT ![c] = [type |-> t, outcome |-> "threw"]]
            /\ UNCHANGED registered
         \/ /\ ~MustRegister(after)
            /\ set' = [set EXCEPT ![c] = [type |-> t, outcome |-> "set"]]
            /\ UNCHANGED registered
      /\ UNCHANGED <<holders, user, status, empties, fired, running, log>>

\* The same function, given an empty callback: nothing is stored, but a store with
\* one callback is registered again.
AddEmptyCallback(t) ==
  /\ holders # {}
  /\ empties < MaxEmpty
  /\ empties' = empties + 1
  /\ registered' = [registered EXCEPT ![t] =
                      IF MustRegister(store[StoreIndex(t)]) THEN @ + 1 ELSE @]
  /\ UNCHANGED <<holders, user, status, store, set, fired, running, log>>

\* set_status: accepted once, the runtime refuses it afterwards.
SetStatus(s) ==
  /\ holders # {}
  /\ user /\ status = CL_SUBMITTED
  /\ s \in {CL_COMPLETE, Failed}
  /\ status' = s
  /\ UNCHANGED <<holders, user, store, set, empties, registered, fired, running, log>>

-----------------------------------------------------------------------------
(* The runtime. *)

\* A command is submitted, runs and completes; it may fail at any point.
CommandProgress(s) ==
  /\ ~user
  /\ status > CL_COMPLETE
  /\ s \in {status - 1, Failed}
  /\ status' = s
  /\ UNCHANGED <<holders, user, store, set, empties, registered, fired, running, log>>

\* Mutant: the runtime is given the first callback instead of the vector.
RawCallbackTakesOne(t) ==
  /\ fired[t] < registered[t]
  /\ status <= t
  /\ holders # {}
  /\ fired' = [fired EXCEPT ![t] = @ + 1]
  /\ running' = running \cup
       {[type |-> t, turn |-> fired[t], status |-> status,
         todo |-> SubSeq(store[StoreIndex(t)], 1, 1)]}
  /\ UNCHANGED <<holders, user, status, store, set, empties, registered, log>>

\* raw_callback begins: it copies the vector it was given a pointer to.
RawCallback(t) ==
  /\ fired[t] < registered[t]
  /\ status <= t
  /\ holders # {}
  /\ fired' = [fired EXCEPT ![t] = @ + 1]
  /\ running' = running \cup
       {[type |-> t, turn |-> fired[t], status |-> status,
         todo |-> store[StoreIndex(t)]]}
  /\ UNCHANGED <<holders, user, status, store, set, empties, registered, log>>

\* Mutant: from the last callback to the first, which it does not reach.
CallsButFirst(todo) == [next |-> todo[Len(todo)],
                        rest |-> SubSeq(todo, 2, Len(todo) - 1)]
\* "for(const auto & callback : actual_callbacks)"
Calls(todo) == [next |-> Head(todo), rest |-> Tail(todo)]

CallNext(r) ==
  /\ r \in running
  /\ r.todo # <<>>
  /\ log' = Append(log, [callback |-> Calls(r.todo).next, status |-> r.status])
  /\ running' = (running \ {r}) \cup {[r EXCEPT !.todo = Calls(r.todo).rest]}
  /\ UNCHANGED <<holders, user, status, store, set, empties, registered, fired>>

RawReturn(r) ==
  /\ r \in running
  /\ r.todo = <<>>
  /\ running' = running \ {r}
  /\ UNCHANGED <<holders, user, status, store, set, empties, registered, fired, log>>

-----------------------------------------------------------------------------

RunCallbacks ==
  \/ \E t \in Types : RawCallback(t)
  \/ \E r \in running : CallNext(r) \/ RawReturn(r)

Progress == \E s \in {CL_QUEUED, CL_SUBMITTED, CL_RUNNING, CL_COMPLETE, Failed} :
            CommandProgress(s) \/ SetStatus(s)

EventNext ==
  \/ \E w \in Events : CopyEvent(w) \/ DropEvent(w)
  \/ \E c \in Callbacks, t \in Types : AddEventCallback(c, t)
  \/ \E t \in Types : AddEmptyCallback(t)
  \/ Progress
  \/ RunCallbacks

\* The runtime runs its commands and the callbacks registered with it, and the
\* owner of a user event sets its status, without which nothing that waits for
\* the event could go on.
EventFairness == WF_eventVars(Progress) /\ WF_eventVars(RunCallbacks)

EventSpec == EventInit /\ [][EventNext]_eventVars /\ EventFairness

-----------------------------------------------------------------------------
(* Properties. *)

\* The runtime never holds a pointer to a store that no Event keeps alive: what
\* is registered and has not run yet has a holder (event.cpp:116 and 122), if no
\* callback was empty.
StoreOutlivesRegistration ==
  empties = 0 => \A t \in Types : fired[t] < registered[t] => holders # {}

\* Position of c in its store.
Position(c) ==
  CHOOSE k \in DOMAIN store[StoreIndex(set[c].type)] :
    store[StoreIndex(set[c].type)][k] = c

\* Whatever the order in which raw_callback goes through its copy of a vector, the vector
\* has no holes: when a callback was called, those set before it for the same status were
\* called too, or the raw_callback that is at work still has them to call (event.cpp:122
\* and 125); even if registrations fail, threads interleave and callbacks come late.  And
\* if none was empty, none is called twice (event.cpp:116).
CalledTogether ==
  /\ \A t \in Types :
       LET stored == store[StoreIndex(t)] IN
       \A k, l \in DOMAIN stored :
         k < l /\ Called(stored[l]) =>
           \/ Called(stored[k])
           \/ \E r \in running : r.type = t /\ \E n \in DOMAIN r.todo : r.todo[n] = stored[k]
  /\ empties = 0 =>
       \A i, j \in DOMAIN log : log[i].callback = log[j].callback => i = j

\* "Call the destructor callbacks in reverse order (per OpenCL specification)"
\* (event.cpp:124): those of one status, the last set first.
ReverseOrder ==
  \A i, j \in DOMAIN log :
    LET c == log[i].callback
        d == log[j].callback
    IN  i < j /\ c # d /\ set[c].type = set[d].type => Position(d) < Position(c)

\* A callback set before the event reaches its status is eventually called, if its
\* store was registered.
TimelyCallbackRuns ==
  \A c \in Callbacks :
    (set[c].outcome = "set" /\ status > set[c].type /\ registered[set[c].type] > 0)
      ~> Called(c)

\* "It is possible to have a callback be invoked when the command associated to
\* an event will be submitted (CL_SUBMIT), running (CL_RUNNING) or terminated
\* (CL_COMPLETE)" (event.hpp:69): every callback that set_callback accepted is.
EveryCallbackRuns ==
  \A c \in Callbacks : (set[c].outcome = "set") ~> Called(c)
=============================================================================
