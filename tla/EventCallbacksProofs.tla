------------------------ MODULE EventCallbacksProofs ------------------------
(***************************************************************************)
(* Proofs about EventCallbacks, for any Event objects and callbacks, any   *)
(* number of empty callbacks and of failing registrations: a registered    *)
(* vector has a holder, callbacks are called once and without a hole.  The *)
(* inductive invariant follows a callback from its place in a vector to    *)
(* the copy that a raw_callback works on, to the log.                      *)
(***************************************************************************)
EXTENDS EventCallbacks, FiniteSetTheorems, SequenceTheorems, TLAPS

Works == [type : Types, turn : Nat, status : Int, todo : Seq(Callbacks)]

TypeOK ==
  /\ holders \subseteq Events
  /\ user \in BOOLEAN
  /\ status \in Failed .. CL_QUEUED
  /\ store \in [Stores -> Seq(Callbacks)]
  /\ set \in [Callbacks -> [type : Types \cup {CL_QUEUED},
                            outcome : {"none", "set", "threw"}]]
  /\ empties \in Nat
  /\ registered \in [Types -> Nat]
  /\ fired \in [Types -> Nat]
  /\ running \subseteq Works /\ IsFiniteSet(running)
  /\ log \in Seq([callback : Callbacks, status : Int])

Known(c) == set[c].outcome # "none"

\* What is in a vector was set for its status.
StoredKnown ==
  \A t \in Types : \A k \in DOMAIN store[StoreIndex(t)] :
    LET c == store[StoreIndex(t)][k] IN Known(c) /\ set[c].type = t

NoTwice ==
  \A t \in Types : \A k, l \in DOMAIN store[StoreIndex(t)] :
    store[StoreIndex(t)][k] = store[StoreIndex(t)][l] => k = l

\* What was set, even if its registration failed, is in its vector.
Placed ==
  \A c \in Callbacks : Known(c) =>
    /\ set[c].type \in Types
    /\ \E k \in DOMAIN store[StoreIndex(set[c].type)] :
         store[StoreIndex(set[c].type)][k] = c

\* A vector is registered once but for empty callbacks, by its first callback.
RegisteredOnce ==
  \A t \in Types :
    /\ registered[t] <= 1 + empties
    /\ fired[t] <= registered[t]
    /\ registered[t] > 0 => store[StoreIndex(t)] # <<>>
    /\ registered[t] > 0 /\ empties = 0 =>
         set[store[StoreIndex(t)][1]].outcome = "set"

\* The raw_callbacks at work are told apart by type and turn.
Turns ==
  /\ \A r \in running : r.turn < fired[r.type]
  /\ \A r, s \in running : r.type = s.type /\ r.turn = s.turn => r = s

\* What a raw_callback still has to call is a stretch of its vector; what comes before the
\* stretch was called.
Stretch ==
  \A r \in running : \E m \in 0 .. Len(store[StoreIndex(r.type)]) :
    /\ \A j \in 1 .. m : Called(store[StoreIndex(r.type)][j])
    /\ \A k \in DOMAIN r.todo :
         /\ m + k \in DOMAIN store[StoreIndex(r.type)]
         /\ r.todo[k] = store[StoreIndex(r.type)][m + k]

\* Only what was set is called, by a raw_callback of its status.
CalledKnown ==
  \A n \in DOMAIN log :
    /\ Known(log[n].callback)
    /\ fired[set[log[n].callback].type] > 0

Calling(s, c) == Cardinality({n \in DOMAIN s : s[n].callback = c})
Waits(r, c) == \E k \in DOMAIN r.todo : r.todo[k] = c
Pending(c) == {r \in running : Waits(r, c)}

\* Each raw_callback of its status calls a callback once at most.
OncePerTurn ==
  \A c \in Callbacks : Known(c) =>
    Calling(log, c) + Cardinality(Pending(c)) <= fired[set[c].type]

\* What was called is the beginning of its vector.
Reached ==
  \A t \in Types : \A k, l \in DOMAIN store[StoreIndex(t)] :
    k < l /\ Called(store[StoreIndex(t)][l]) => Called(store[StoreIndex(t)][k])

IInv ==
  /\ TypeOK /\ StoredKnown /\ NoTwice /\ Placed /\ RegisteredOnce /\ Turns
  /\ Stretch /\ CalledKnown /\ OncePerTurn /\ Reached /\ StoreOutlivesRegistration

USE EventCallbacksAssumption
-----------------------------------------------------------------------------
(* Statuses and vectors, sequences that grow, counting in them. *)

LEMMA Indexes ==
  /\ \A t \in Types : StoreIndex(t) \in Stores
  /\ \A t, u \in Types : StoreIndex(t) = StoreIndex(u) => t = u
<1>1. /\ CL_SUBMITTED = 2 /\ CL_RUNNING = 1 /\ CL_COMPLETE = 0
  BY DEF CL_SUBMITTED, CL_RUNNING, CL_COMPLETE
<1>2. /\ StoreIndex(CL_SUBMITTED) = 0 /\ StoreIndex(CL_RUNNING) = 1
      /\ StoreIndex(CL_COMPLETE) = 2
  BY <1>1 DEF StoreIndex
<1>3. QED
  BY <1>1, <1>2 DEF Types, Stores

LEMMA StoreTyped ==
  ASSUME TypeOK, NEW t \in Types
  PROVE  /\ store[StoreIndex(t)] \in Seq(Callbacks)
         /\ Len(store[StoreIndex(t)]) \in Nat
         /\ DOMAIN store[StoreIndex(t)] = 1 .. Len(store[StoreIndex(t)])
         /\ \A k \in DOMAIN store[StoreIndex(t)] : store[StoreIndex(t)][k] \in Callbacks
<1>1. store[StoreIndex(t)] \in Seq(Callbacks)
  BY Indexes DEF TypeOK
<1>2. QED
  BY <1>1, LenProperties, ElementOfSeq

LEMMA SetTyped ==
  ASSUME TypeOK, NEW c \in Callbacks
  PROVE  /\ set[c].type \in Types \cup {CL_QUEUED}
         /\ set[c].outcome \in {"none", "set", "threw"}
BY DEF TypeOK

LEMMA RunningTyped ==
  ASSUME TypeOK, NEW r \in running
  PROVE  /\ r.type \in Types /\ r.turn \in Nat /\ r.status \in Int
         /\ r.todo \in Seq(Callbacks)
         /\ Len(r.todo) \in Nat /\ DOMAIN r.todo = 1 .. Len(r.todo)
         /\ \A k \in DOMAIN r.todo : r.todo[k] \in Callbacks
<1>1. r \in Works
  BY DEF TypeOK
<1>2. /\ r.type \in Types /\ r.turn \in Nat /\ r.status \in Int
      /\ r.todo \in Seq(Callbacks)
  BY <1>1 DEF Works
<1>3. QED
  BY <1>2, LenProperties, ElementOfSeq

LEMMA LogTyped ==
  ASSUME TypeOK
  PROVE  /\ Len(log) \in Nat /\ DOMAIN log = 1 .. Len(log)
         /\ \A n \in DOMAIN log : log[n].callback \in Callbacks
<1>1. log \in Seq([callback : Callbacks, status : Int])
  BY DEF TypeOK
<1>2. /\ Len(log) \in Nat /\ DOMAIN log = 1 .. Len(log)
      /\ \A n \in DOMAIN log : log[n] \in [callback : Callbacks, status : Int]
  BY <1>1, LenProperties, ElementOfSeq
<1>3. QED
  BY <1>2

LEMMA Appended ==
  ASSUME NEW S, NEW s \in Seq(S), NEW e \in S, NEW t, t = Append(s, e)
  PROVE  /\ t \in Seq(S) /\ t # <<>> /\ Len(t) = Len(s) + 1 /\ t[Len(t)] = e
         /\ DOMAIN t = DOMAIN s \cup {Len(t)} /\ Len(t) \notin DOMAIN s
         /\ Len(t) \in Nat /\ \A i \in DOMAIN s : i < Len(t)
         /\ \A i \in DOMAIN s : t[i] = s[i]
<1>1. /\ t \in Seq(S) /\ t # <<>> /\ Len(t) = Len(s) + 1
      /\ \A i \in 1 .. Len(s) : t[i] = s[i]
      /\ t[Len(s) + 1] = e
  BY AppendProperties
<1>2. /\ DOMAIN s = 1 .. Len(s) /\ Len(s) \in Nat /\ DOMAIN t = 1 .. Len(t)
  BY <1>1, LenProperties
<1>3. QED
  BY <1>1, <1>2

LEMMA CallingNat ==
  ASSUME NEW s \in Seq([callback : Callbacks, status : Int]), NEW c
  PROVE  /\ IsFiniteSet({n \in DOMAIN s : s[n].callback = c}) /\ Calling(s, c) \in Nat
         /\ (\A n \in DOMAIN s : s[n].callback # c) => Calling(s, c) = 0
<1> DEFINE K == {n \in DOMAIN s : s[n].callback = c}
<1>1. IsFiniteSet(DOMAIN s)
  BY LenProperties, FS_Interval
<1>2. IsFiniteSet(K)
  BY <1>1, FS_Subset
<1>3. (\A n \in DOMAIN s : s[n].callback # c) => K = {}
  OBVIOUS
<1>4. Calling(s, c) = Cardinality(K)
  BY DEF Calling
<1> HIDE DEF K
<1>5. Cardinality(K) \in Nat /\ (K = {} => Cardinality(K) = 0)
  BY <1>2, FS_CardinalityType, FS_EmptySet
<1>6. QED
  BY <1>2, <1>3, <1>4, <1>5 DEF K

LEMMA CallingAppended ==
  ASSUME NEW s \in Seq([callback : Callbacks, status : Int]),
         NEW e \in [callback : Callbacks, status : Int], NEW c
  PROVE  Calling(Append(s, e), c) =
           IF e.callback = c THEN Calling(s, c) + 1 ELSE Calling(s, c)
<1> DEFINE t == Append(s, e)
           K == {n \in DOMAIN s : s[n].callback = c}
           L == {n \in DOMAIN t : t[n].callback = c}
<1>1. /\ DOMAIN t = DOMAIN s \cup {Len(t)} /\ Len(t) \notin DOMAIN s
      /\ t[Len(t)] = e /\ \A i \in DOMAIN s : t[i] = s[i]
  BY Appended
<1>2. L = IF e.callback = c THEN K \cup {Len(t)} ELSE K
  BY <1>1
<1>3. Len(t) \notin K
  BY <1>1
<1>4. IsFiniteSet(K)
  BY CallingNat
<1>5. QED
  BY <1>2, <1>3, <1>4, FS_AddElement DEF Calling

\* The position of a callback is where it is found: there is one such place.
LEMMA PlaceFound ==
  ASSUME NEW s, NEW c, NEW k \in DOMAIN s, s[k] = c, \A l \in DOMAIN s : s[l] = c => l = k
  PROVE  (CHOOSE l \in DOMAIN s : s[l] = c) = k
OBVIOUS

LEMMA PositionAt ==
  ASSUME NoTwice, StoredKnown, NEW t \in Types, NEW k \in DOMAIN store[StoreIndex(t)]
  PROVE  Position(store[StoreIndex(t)][k]) = k
<1> DEFINE s == store[StoreIndex(t)]
<1>1. set[s[k]].type = t
  BY DEF StoredKnown
<1>2. \A l \in DOMAIN s : s[l] = s[k] => l = k
  BY DEF NoTwice
<1>3. (CHOOSE l \in DOMAIN s : s[l] = s[k]) = k
  BY <1>2, PlaceFound
<1>4. QED
  BY <1>1, <1>3 DEF Position

-----------------------------------------------------------------------------
(* The invariant, action by action. *)

LEMMA InitIInv == EventInit => IInv
<1> SUFFICES ASSUME EventInit PROVE IInv
  OBVIOUS
<1>1. /\ store = [i \in Stores |-> <<>>] /\ running = {} /\ log = <<>> /\ empties = 0
      /\ set = [c \in Callbacks |-> [type |-> CL_QUEUED, outcome |-> "none"]]
      /\ registered = [t \in Types |-> 0] /\ fired = [t \in Types |-> 0]
  BY DEF EventInit
<1>2. TypeOK
  <2>1. /\ holders \subseteq Events /\ user \in BOOLEAN /\ status \in Failed .. CL_QUEUED
    BY DEF EventInit, Failed, CL_QUEUED, CL_SUBMITTED
  <2>2. IsFiniteSet(running)
    BY <1>1, FS_EmptySet
  <2>3. QED
    BY <1>1, <2>1, <2>2 DEF TypeOK
<1>3. \A t \in Types : store[StoreIndex(t)] = <<>>
  BY <1>1, Indexes
<1>4. StoredKnown /\ NoTwice
  BY <1>3 DEF StoredKnown, NoTwice
<1>5. \A c \in Callbacks : ~Known(c)
  BY <1>1 DEF Known
<1>6. /\ Placed /\ RegisteredOnce /\ Turns /\ Stretch /\ CalledKnown /\ OncePerTurn
      /\ Reached /\ StoreOutlivesRegistration
  BY <1>1, <1>3, <1>5 DEF Placed, RegisteredOnce, Turns, Stretch, CalledKnown, OncePerTurn,
     Reached, StoreOutlivesRegistration
<1>7. QED
  BY <1>2, <1>4, <1>6 DEF IInv

\* As long as the vector of a status was registered by its first callback and
\* raw_callback has not begun, that callback has not been called.
LEMMA FirstWaits ==
  ASSUME IInv, empties = 0, NEW t \in Types, fired[t] < registered[t]
  PROVE  \E c \in Callbacks : set[c].outcome = "set" /\ ~Called(c)
<1>1. registered[t] = 1 /\ fired[t] = 0
  BY DEF IInv, TypeOK, RegisteredOnce
<1>2. /\ store[StoreIndex(t)] # <<>>
      /\ set[store[StoreIndex(t)][1]].outcome = "set"
  BY <1>1 DEF IInv, RegisteredOnce
<1>3. 1 \in DOMAIN store[StoreIndex(t)] /\ store[StoreIndex(t)][1] \in Callbacks
  <2>1. store[StoreIndex(t)] \in Seq(Callbacks)
    BY StoreTyped DEF IInv
  <2>2. Len(store[StoreIndex(t)]) # 0
    BY <1>2, <2>1, EmptySeq
  <2>3. QED
    BY <2>2, StoreTyped DEF IInv
<1>4. set[store[StoreIndex(t)][1]].type = t
  BY <1>3 DEF IInv, StoredKnown
<1>5. ~Called(store[StoreIndex(t)][1])
  BY <1>1, <1>4 DEF IInv, CalledKnown, Called
<1>6. QED
  BY <1>2, <1>3, <1>5

\* The host copies and drops Events, the status moves: an Event is not the last to be
\* dropped while a registration waits, for then one of its callbacks does.
LEMMA RestIInv ==
  ASSUME IInv,
         \/ \E w \in Events : CopyEvent(w) \/ DropEvent(w)
         \/ Progress
         \/ UNCHANGED eventVars
  PROVE  IInv'
<1>1. UNCHANGED <<store, set, empties, registered, fired, running, log>>
  BY DEF CopyEvent, DropEvent, Progress, CommandProgress, SetStatus, eventVars
<1>2. TypeOK'
  <2>1. holders' \subseteq Events /\ user' \in BOOLEAN
    BY DEF IInv, TypeOK, CopyEvent, DropEvent, Progress, CommandProgress, SetStatus, eventVars
  <2>2. status' \in Failed .. CL_QUEUED
    BY DEF IInv, TypeOK, CopyEvent, DropEvent, Progress, CommandProgress, SetStatus, eventVars,
       Failed, CL_QUEUED, CL_COMPLETE
  <2>3. QED
    BY <1>1, <2>1, <2>2 DEF IInv, TypeOK
<1>3. /\ StoredKnown' /\ NoTwice' /\ Placed' /\ RegisteredOnce' /\ Turns' /\ Stretch'
      /\ CalledKnown' /\ OncePerTurn'
  <2>1. StoredKnown' /\ NoTwice' /\ Placed' /\ CalledKnown'
    BY <1>1 DEF IInv, StoredKnown, NoTwice, Placed, CalledKnown, Known
  <2>2. RegisteredOnce' /\ Turns' /\ Stretch'
    BY <1>1 DEF IInv, RegisteredOnce, Turns, Stretch, Called
  <2>3. OncePerTurn'
    <3>1. \A c : Pending(c)' = Pending(c)
      BY <1>1 DEF Pending, Waits
    <3>2. QED
      BY <1>1, <3>1 DEF IInv, OncePerTurn, Known
  <2>4. QED
    BY <2>1, <2>2, <2>3
<1>4. Reached'
  BY <1>1 DEF IInv, Reached, Called
<1>5. StoreOutlivesRegistration'
  <2> SUFFICES ASSUME empties = 0, NEW t \in Types, fired[t] < registered[t]
               PROVE  holders' # {}
    BY <1>1 DEF StoreOutlivesRegistration
  <2>1. holders # {}
    BY DEF IInv, StoreOutlivesRegistration
  <2>2. ~Processed
    BY FirstWaits DEF Processed
  <2>3. QED
    BY <2>1, <2>2 DEF CopyEvent, DropEvent, Progress, CommandProgress, SetStatus, eventVars
<1>6. QED
  BY <1>2, <1>3, <1>4, <1>5 DEF IInv

\* What a raw_callback has to call was set for its status.
LEMMA TodoKnown ==
  ASSUME IInv, NEW r \in running, NEW k \in DOMAIN r.todo
  PROVE  /\ r.todo[k] \in Callbacks /\ Known(r.todo[k]) /\ set[r.todo[k]].type = r.type
         /\ \E m \in Nat : \A l \in DOMAIN r.todo :
              m + l = Position(r.todo[l]) /\ Known(r.todo[l])
<1>1. PICK m \in 0 .. Len(store[StoreIndex(r.type)]) : \A l \in DOMAIN r.todo :
        /\ m + l \in DOMAIN store[StoreIndex(r.type)]
        /\ r.todo[l] = store[StoreIndex(r.type)][m + l]
  BY DEF IInv, Stretch
<1>2. r.type \in Types /\ m \in Nat
  BY <1>1, RunningTyped, StoreTyped DEF IInv
<1>3. \A l \in DOMAIN r.todo : m + l = Position(r.todo[l])
  BY <1>1, <1>2, PositionAt DEF IInv
<1>4. \A l \in DOMAIN r.todo : Known(r.todo[l]) /\ set[r.todo[l]].type = r.type
  BY <1>1, <1>2 DEF IInv, StoredKnown
<1>5. r.todo[k] \in Callbacks
  BY RunningTyped DEF IInv
<1>6. QED
  BY <1>2, <1>3, <1>4, <1>5

LEMMA PendingFinite ==
  ASSUME TypeOK, NEW c
  PROVE  IsFiniteSet(Pending(c)) /\ Cardinality(Pending(c)) \in Nat
<1>1. IsFiniteSet(Pending(c))
  BY FS_Subset DEF TypeOK, Pending
<1>2. QED
  BY <1>1, FS_CardinalityType

\* A vector grows at its end, where nothing that was called or waits is.
LEMMA AddEventCallbackIInv ==
  ASSUME IInv, NEW c \in Callbacks, NEW t \in Types, AddEventCallback(c, t)
  PROVE  IInv'
<1> DEFINE s == store[StoreIndex(t)]
           n == Len(s) + 1
<1>1. /\ holders # {} /\ set[c].outcome = "none" /\ ~Known(c)
      /\ store' = [store EXCEPT ![StoreIndex(t)] = Append(s, c)]
      /\ UNCHANGED <<holders, user, status, empties, fired, running, log>>
  BY DEF AddEventCallback, Known
<1>2. PICK o \in {"set", "threw"} :
        /\ set' = [set EXCEPT ![c] = [type |-> t, outcome |-> o]]
        /\ \/ /\ Len(Append(s, c)) = 1 /\ o = "set"
              /\ registered' = [registered EXCEPT ![t] = @ + 1]
           \/ /\ Len(Append(s, c)) = 1 /\ o = "threw" /\ registered' = registered
           \/ /\ Len(Append(s, c)) # 1 /\ o = "set" /\ registered' = registered
  BY DEF AddEventCallback, MustRegister
<1>3. /\ s \in Seq(Callbacks) /\ Len(s) \in Nat /\ DOMAIN s = 1 .. Len(s)
      /\ s = <<>> <=> n = 1
  <2>1. s \in Seq(Callbacks)
    BY StoreTyped DEF IInv
  <2>2. QED
    BY <2>1, LenProperties, EmptySeq
<1>4. \A k \in DOMAIN s : s[k] # c
  BY <1>1 DEF IInv, StoredKnown
<1>5. /\ store'[StoreIndex(t)] \in Seq(Callbacks)
      /\ store'[StoreIndex(t)][n] = c /\ store'[StoreIndex(t)] # <<>>
      /\ DOMAIN store'[StoreIndex(t)] = DOMAIN s \cup {n} /\ n \notin DOMAIN s
      /\ n \in Nat /\ Len(store'[StoreIndex(t)]) = n
      /\ \A k \in DOMAIN s : store'[StoreIndex(t)][k] = s[k]
  <2>1. store'[StoreIndex(t)] = Append(s, c)
    BY <1>1, Indexes DEF IInv, TypeOK
  <2>2. Len(Append(s, c)) = n
    BY <1>3, Appended
  <2>3. QED
    BY <1>3, <2>1, <2>2, Appended
<1>6. \A u \in Types : u # t => store'[StoreIndex(u)] = store[StoreIndex(u)]
  BY <1>1, Indexes DEF IInv, TypeOK
<1>7. /\ set'[c].type = t /\ set'[c].outcome = o /\ Known(c)'
      /\ \A d \in Callbacks : d # c => set'[d] = set[d] /\ (Known(d)' <=> Known(d))
  BY <1>2 DEF IInv, TypeOK, Known
<1>8. /\ \A u \in Types : u # t => registered'[u] = registered[u]
      /\ \/ n = 1 /\ o = "set" /\ registered'[t] = registered[t] + 1
         \/ n = 1 /\ o = "threw" /\ registered'[t] = registered[t]
         \/ n # 1 /\ o = "set" /\ registered'[t] = registered[t]
  <2>1. Len(Append(s, c)) = n
    BY <1>3, Appended
  <2>2. QED
    BY <1>2, <2>1 DEF IInv, TypeOK
<1>9. TypeOK'
  <2>1. store' \in [Stores -> Seq(Callbacks)]
    BY <1>1, <1>3, AppendProperties DEF IInv, TypeOK
  <2>2. set' \in [Callbacks -> [type : Types \cup {CL_QUEUED},
                               outcome : {"none", "set", "threw"}]]
    BY <1>2 DEF IInv, TypeOK
  <2>3. registered' \in [Types -> Nat]
    BY <1>2 DEF IInv, TypeOK
  <2>4. QED
    BY <1>1, <2>1, <2>2, <2>3 DEF IInv, TypeOK
<1> DEFINE S(u) == store[StoreIndex(u)]
           T(u) == store'[StoreIndex(u)]
<1>10. \A u \in Types : /\ S(u) \in Seq(Callbacks) /\ DOMAIN S(u) = 1 .. Len(S(u))
                        /\ \A k \in DOMAIN S(u) : /\ S(u)[k] \in Callbacks /\ S(u)[k] # c
                                                  /\ Known(S(u)[k])
                                                  /\ set[S(u)[k]].type = u
  BY <1>1, StoreTyped DEF IInv, StoredKnown
<1>11. \A u \in Types : \A k \in DOMAIN S(u) : k \in DOMAIN T(u) /\ T(u)[k] = S(u)[k]
  BY <1>5, <1>6
<1>12. \A u \in Types : \A k \in DOMAIN T(u) :
         \/ k \in DOMAIN S(u) /\ T(u)[k] = S(u)[k]
         \/ u = t /\ k = n /\ T(u)[k] = c
  BY <1>5, <1>6
<1>13. StoredKnown' /\ NoTwice'
  <2>1. StoredKnown'
    BY <1>7, <1>10, <1>12 DEF StoredKnown
  <2>2. \A u \in Types : \A k, l \in DOMAIN S(u) : S(u)[k] = S(u)[l] => k = l
    BY DEF IInv, NoTwice
  <2>3. \A u \in Types : \A k, l \in DOMAIN T(u) : T(u)[k] = T(u)[l] => k = l
    BY <1>10, <1>12, <2>2
  <2>4. QED
    BY <2>1, <2>3 DEF NoTwice
<1>14. Placed'
  <2> SUFFICES ASSUME NEW d \in Callbacks, Known(d)'
               PROVE  /\ set'[d].type \in Types
                      /\ \E k \in DOMAIN T(set'[d].type) : T(set'[d].type)[k] = d
    BY DEF Placed
  <2>1. CASE d = c
    BY <1>5, <1>7, <2>1
  <2>2. CASE d # c
    <3>1. /\ set[d].type \in Types /\ set'[d] = set[d]
          /\ \E k \in DOMAIN S(set[d].type) : S(set[d].type)[k] = d
      BY <1>7, <2>2 DEF IInv, Placed
    <3>2. QED
      BY <1>11, <3>1
  <2>3. QED
    BY <2>1, <2>2
<1>15. RegisteredOnce'
  <2> SUFFICES ASSUME NEW u \in Types
               PROVE  /\ registered'[u] <= 1 + empties
                      /\ fired[u] <= registered'[u]
                      /\ registered'[u] > 0 => T(u) # <<>>
                      /\ registered'[u] > 0 /\ empties = 0 => set'[T(u)[1]].outcome = "set"
    BY <1>1 DEF RegisteredOnce
  <2>1. /\ registered[u] <= 1 + empties /\ fired[u] <= registered[u]
        /\ registered[u] > 0 => S(u) # <<>>
        /\ registered[u] > 0 /\ empties = 0 => set[S(u)[1]].outcome = "set"
        /\ registered[u] \in Nat /\ fired[u] \in Nat /\ empties \in Nat
    BY DEF IInv, TypeOK, RegisteredOnce
  <2>2. registered[u] > 0 =>
          /\ 1 \in DOMAIN S(u) /\ S(u)[1] # c /\ S(u)[1] \in Callbacks /\ T(u)[1] = S(u)[1]
          /\ T(u) # <<>>
    <3> SUFFICES ASSUME S(u) # <<>> PROVE 1 \in DOMAIN S(u) /\ T(u) # <<>>
      BY <1>10, <1>11, <2>1
    <3>1. Len(S(u)) \in Nat /\ Len(S(u)) # 0
      BY <1>10, LenProperties, EmptySeq
    <3>2. QED
      BY <1>5, <1>6, <1>10, <3>1
  <2>3. CASE registered'[u] = registered[u]
    BY <1>7, <2>1, <2>2, <2>3
  <2>4. CASE u = t /\ n = 1 /\ o = "set" /\ registered'[t] = registered[t] + 1
    <3>1. registered[u] = 0
      BY <1>3, <2>1, <2>4
    <3>2. QED
      BY <1>5, <1>7, <2>1, <2>4, <3>1
  <2>5. QED
    BY <1>8, <2>3, <2>4
<1>16. Turns' /\ StoreOutlivesRegistration'
  BY <1>1 DEF IInv, Turns, StoreOutlivesRegistration
<1>17. Stretch'
  <2> SUFFICES ASSUME NEW r \in running
               PROVE  \E m \in 0 .. Len(T(r.type)) :
                        /\ \A j \in 1 .. m : Called(T(r.type)[j])
                        /\ \A k \in DOMAIN r.todo :
                             m + k \in DOMAIN T(r.type) /\ r.todo[k] = T(r.type)[m + k]
    BY <1>1 DEF Stretch, Called
  <2>1. PICK m \in 0 .. Len(S(r.type)) :
          /\ \A j \in 1 .. m : Called(S(r.type)[j])
          /\ \A k \in DOMAIN r.todo :
               m + k \in DOMAIN S(r.type) /\ r.todo[k] = S(r.type)[m + k]
    BY DEF IInv, Stretch
  <2>2. r.type \in Types
    BY RunningTyped DEF IInv
  <2>3. m \in 0 .. Len(T(r.type))
    BY <1>3, <1>5, <1>6, <2>1, <2>2
  <2>4. \A j \in 1 .. m : j \in DOMAIN S(r.type)
    BY <1>10, <2>1, <2>2, StoreTyped DEF IInv
  <2>5. \A j \in 1 .. m : Called(T(r.type)[j])
    BY <1>11, <2>1, <2>2, <2>4
  <2>6. QED
    BY <1>11, <2>1, <2>2, <2>3, <2>5
<1>18. \A k \in DOMAIN log : log[k].callback \in Callbacks /\ log[k].callback # c
  BY <1>1, LogTyped DEF IInv, CalledKnown
<1>19. CalledKnown'
  BY <1>1, <1>7, <1>18 DEF IInv, CalledKnown
<1>20. OncePerTurn'
  <2> SUFFICES ASSUME NEW d \in Callbacks, Known(d)'
               PROVE  Calling(log, d) + Cardinality(Pending(d)) <= fired[set'[d].type]
    <3>1. \A d : Pending(d)' = Pending(d)
      BY <1>1 DEF Pending, Waits
    <3>2. QED
      BY <1>1, <3>1 DEF OncePerTurn
  <2>1. CASE d # c
    BY <1>7, <2>1 DEF IInv, OncePerTurn
  <2>2. CASE d = c
    <3>1. Calling(log, d) = 0
      BY <1>18, <2>2, CallingNat DEF IInv, TypeOK
    <3>2. Pending(d) = {}
      BY <1>1, <2>2, TodoKnown DEF Pending, Waits
    <3>3. fired[set'[d].type] \in Nat
      BY <1>7, <2>2 DEF IInv, TypeOK
    <3>4. QED
      BY <3>1, <3>2, <3>3, FS_EmptySet
  <2>3. QED
    BY <2>1, <2>2
<1>21. Reached'
  <2> SUFFICES ASSUME NEW u \in Types, NEW k \in DOMAIN T(u), NEW l \in DOMAIN T(u),
                      k < l, Called(T(u)[l])
               PROVE  Called(T(u)[k])
    BY <1>1 DEF Reached, Called
  <2>1. T(u)[l] # c
    BY <1>18 DEF Called
  <2>2. l \in DOMAIN S(u) /\ T(u)[l] = S(u)[l]
    BY <1>12, <2>1
  <2>3. k \in DOMAIN S(u) /\ T(u)[k] = S(u)[k]
    <3>1. CASE u = t
      BY <1>3, <1>5, <1>11, <2>2, <3>1
    <3>2. CASE u # t
      BY <1>6, <3>2
    <3>3. QED
      BY <3>1, <3>2
  <2>4. QED
    BY <2>2, <2>3 DEF IInv, Reached
<1>22. QED
  BY <1>9, <1>13, <1>14, <1>15, <1>16, <1>17, <1>19, <1>20, <1>21 DEF IInv

LEMMA AddEmptyCallbackIInv ==
  ASSUME IInv, NEW t \in Types, AddEmptyCallback(t)
  PROVE  IInv'
<1>1. /\ holders # {} /\ empties' = empties + 1
      /\ registered' = [registered EXCEPT ![t] =
                          IF Len(store[StoreIndex(t)]) = 1 THEN @ + 1 ELSE @]
      /\ UNCHANGED <<holders, user, status, store, set, fired, running, log>>
  BY DEF AddEmptyCallback, MustRegister
<1>2. TypeOK'
  BY <1>1 DEF IInv, TypeOK
<1>3. empties' # 0 /\ empties \in Nat
  BY <1>1 DEF IInv, TypeOK
<1>4. StoredKnown' /\ NoTwice' /\ Placed' /\ CalledKnown' /\ Turns' /\ Stretch'
  BY <1>1 DEF IInv, StoredKnown, NoTwice, Placed, CalledKnown, Known, Turns, Stretch,
     Called
<1>5. RegisteredOnce'
  <2> SUFFICES ASSUME NEW u \in Types
               PROVE  /\ registered'[u] <= 1 + empties' /\ fired[u] <= registered'[u]
                      /\ registered'[u] > 0 => store[StoreIndex(u)] # <<>>
    BY <1>1, <1>3 DEF RegisteredOnce
  <2>1. /\ registered[u] <= 1 + empties /\ fired[u] <= registered[u]
        /\ registered[u] > 0 => store[StoreIndex(u)] # <<>>
        /\ registered[u] \in Nat /\ fired[u] \in Nat
    BY DEF IInv, TypeOK, RegisteredOnce
  <2>2. \/ registered'[u] = registered[u]
        \/ registered'[u] = registered[u] + 1 /\ Len(store[StoreIndex(u)]) = 1
    BY <1>1 DEF IInv, TypeOK
  <2>3. Len(store[StoreIndex(u)]) = 1 => store[StoreIndex(u)] # <<>>
    <3>1. store[StoreIndex(u)] \in Seq(Callbacks)
      BY StoreTyped DEF IInv
    <3>2. QED
      BY <3>1, EmptySeq
  <2>4. QED
    BY <1>1, <1>3, <2>1, <2>2, <2>3
<1>6. OncePerTurn'
  <2>1. \A c : Pending(c)' = Pending(c)
    BY <1>1 DEF Pending, Waits
  <2>2. QED
    BY <1>1, <2>1 DEF IInv, OncePerTurn, Known
<1>7. Reached' /\ StoreOutlivesRegistration'
  BY <1>1, <1>3 DEF IInv, Reached, Called, StoreOutlivesRegistration
<1>8. QED
  BY <1>2, <1>4, <1>5, <1>6, <1>7 DEF IInv


\* A raw_callback begins with all its vector to call, which nothing comes before.
LEMMA RawCallbackIInv ==
  ASSUME IInv, NEW t \in Types, RawCallback(t)
  PROVE  IInv'
<1> DEFINE r0 == [type |-> t, turn |-> fired[t], status |-> status,
                  todo |-> store[StoreIndex(t)]]
<1>1. /\ fired[t] < registered[t] /\ holders # {}
      /\ fired' = [fired EXCEPT ![t] = @ + 1] /\ running' = running \cup {r0}
      /\ UNCHANGED <<holders, user, status, store, set, empties, registered, log>>
  BY DEF RawCallback
<1>2. /\ fired'[t] = fired[t] + 1 /\ fired[t] \in Nat
      /\ \A u \in Types : u # t => fired'[u] = fired[u]
      /\ \A u \in Types : fired[u] \in Nat /\ fired'[u] \in Nat /\ fired[u] <= fired'[u]
  BY <1>1 DEF IInv, TypeOK
<1>3. /\ r0.type = t /\ r0.turn = fired[t] /\ r0.todo = store[StoreIndex(t)]
      /\ r0.todo \in Seq(Callbacks)
  BY StoreTyped DEF IInv
<1>4. r0 \notin running
  BY <1>2, <1>3 DEF IInv, Turns
<1>5. TypeOK'
  <2>1. r0 \in Works
    BY <1>2, <1>3 DEF Works, IInv, TypeOK, Failed, CL_QUEUED
  <2>2. running' \subseteq Works /\ IsFiniteSet(running')
    BY <1>1, <2>1, FS_AddElement DEF IInv, TypeOK
  <2>3. fired' \in [Types -> Nat]
    BY <1>1 DEF IInv, TypeOK
  <2>4. QED
    BY <1>1, <2>2, <2>3 DEF IInv, TypeOK
<1> HIDE DEF r0
<1>6. StoredKnown' /\ NoTwice' /\ Placed'
  BY <1>1 DEF IInv, StoredKnown, NoTwice, Placed, Known
<1>7. RegisteredOnce'
  <2>1. \A u \in Types : fired'[u] <= registered[u]
    BY <1>1, <1>2 DEF IInv, TypeOK, RegisteredOnce
  <2>2. QED
    BY <1>1, <2>1 DEF IInv, RegisteredOnce
<1>8. Turns'
  <2>1. \A r \in running : r.type \in Types /\ r.turn \in Nat /\ r.turn < fired[r.type]
    BY RunningTyped DEF IInv, Turns
  <2>2. \A r \in running' : r.turn < fired'[r.type]
    BY <1>1, <1>2, <1>3, <2>1
  <2>3. \A r, s \in running' : r.type = s.type /\ r.turn = s.turn => r = s
    BY <1>1, <1>2, <1>3, <2>1 DEF IInv, Turns
  <2>4. QED
    BY <2>2, <2>3 DEF Turns
<1>9. Stretch'
  <2>1. \A k \in DOMAIN r0.todo : 0 + k \in DOMAIN store[StoreIndex(t)]
                                  /\ r0.todo[k] = store[StoreIndex(t)][0 + k]
    BY <1>3, StoreTyped DEF IInv
  <2>2. 0 \in 0 .. Len(store[StoreIndex(t)])
    BY StoreTyped DEF IInv
  <2>3. \A j \in 1 .. 0 : Called(store[StoreIndex(t)][j])
    OBVIOUS
  <2> SUFFICES ASSUME NEW r \in running'
               PROVE  \E m \in 0 .. Len(store[StoreIndex(r.type)]) :
                        /\ \A j \in 1 .. m : Called(store[StoreIndex(r.type)][j])
                        /\ \A k \in DOMAIN r.todo :
                             /\ m + k \in DOMAIN store[StoreIndex(r.type)]
                             /\ r.todo[k] = store[StoreIndex(r.type)][m + k]
    BY <1>1 DEF Stretch, Called
  <2>4. CASE r = r0
    BY <1>3, <2>1, <2>2, <2>3, <2>4
  <2>5. CASE r \in running
    BY <2>5 DEF IInv, Stretch
  <2>6. QED
    BY <1>1, <2>4, <2>5
<1>10. \A n \in DOMAIN log :
         set[log[n].callback].type \in Types /\ fired[set[log[n].callback].type] > 0
  BY LogTyped DEF IInv, CalledKnown, Placed
<1>11. CalledKnown'
  BY <1>1, <1>2, <1>10 DEF IInv, CalledKnown, Known
<1>12. OncePerTurn'
  <2> SUFFICES ASSUME NEW c \in Callbacks, Known(c)
               PROVE  Calling(log, c) + Cardinality(Pending(c)') <= fired'[set[c].type]
    BY <1>1 DEF OncePerTurn, Known
  <2>1. /\ Calling(log, c) + Cardinality(Pending(c)) <= fired[set[c].type]
        /\ set[c].type \in Types
    BY DEF IInv, OncePerTurn, Placed
  <2>2. Calling(log, c) \in Nat /\ Cardinality(Pending(c)) \in Nat /\ IsFiniteSet(Pending(c))
    BY CallingNat, PendingFinite DEF IInv, TypeOK
  <2>3. r0 \notin Pending(c)
    BY <1>4 DEF Pending
  <2>4. CASE Waits(r0, c)
    <3>1. Pending(c)' = Pending(c) \cup {r0}
      BY <1>1, <2>4 DEF Pending, Waits
    <3>2. Cardinality(Pending(c)') = Cardinality(Pending(c)) + 1
      BY <2>2, <2>3, <3>1, FS_AddElement
    <3>3. set[c].type = t
      BY <1>3, <2>4 DEF Waits, IInv, StoredKnown
    <3>4. QED
      BY <1>2, <2>1, <2>2, <3>2, <3>3
  <2>5. CASE ~Waits(r0, c)
    <3>1. Pending(c)' = Pending(c)
      BY <1>1, <2>5 DEF Pending, Waits
    <3>2. QED
      BY <1>2, <2>1, <2>2, <3>1
  <2>6. QED
    BY <2>4, <2>5
<1>13. Reached'
  BY <1>1 DEF IInv, Reached, Called
<1>14. StoreOutlivesRegistration'
  BY <1>1 DEF StoreOutlivesRegistration
<1>15. QED
  BY <1>5, <1>6, <1>7, <1>8, <1>9, <1>11, <1>12, <1>13, <1>14 DEF IInv

LEMMA RawReturnIInv ==
  ASSUME IInv, NEW r \in running, RawReturn(r)
  PROVE  IInv'
<1>1. /\ r.todo = <<>> /\ running' = running \ {r}
      /\ UNCHANGED <<holders, user, status, store, set, empties, registered, fired, log>>
  BY DEF RawReturn
<1>2. TypeOK'
  BY <1>1, FS_Subset DEF IInv, TypeOK
<1>3. StoredKnown' /\ NoTwice' /\ Placed' /\ CalledKnown'
  BY <1>1 DEF IInv, StoredKnown, NoTwice, Placed, CalledKnown, Known
<1>4. RegisteredOnce' /\ Turns' /\ Stretch' /\ StoreOutlivesRegistration'
  BY <1>1 DEF IInv, RegisteredOnce, Turns, Stretch, Called, StoreOutlivesRegistration
<1>5. OncePerTurn'
  <2>1. \A c : Pending(c)' = Pending(c)
    BY <1>1 DEF Pending, Waits
  <2>2. QED
    BY <1>1, <2>1 DEF IInv, OncePerTurn, Known
<1>6. Reached'
  BY <1>1 DEF IInv, Reached, Called
<1>7. QED
  BY <1>2, <1>3, <1>4, <1>5, <1>6 DEF IInv

\* A raw_callback calls the first of what it has to call, which then does not wait in its
\* copy and joins what was called of its vector.
LEMMA CallNextIInv ==
  ASSUME IInv, NEW r \in running, CallNext(r)
  PROVE  IInv'
<1> DEFINE x == r.todo[1]
           q == [r EXCEPT !.todo = Tail(r.todo)]
           e == [callback |-> x, status |-> r.status]
<1>1. /\ r.todo # <<>>
      /\ log' = Append(log, e) /\ running' = (running \ {r}) \cup {q}
      /\ UNCHANGED <<holders, user, status, store, set, empties, registered, fired>>
  BY DEF CallNext, Calls
<1>2. /\ r \in Works /\ r.type \in Types /\ r.turn \in Nat /\ r.status \in Int
      /\ r.todo \in Seq(Callbacks) /\ Len(r.todo) \in Nat /\ DOMAIN r.todo = 1 .. Len(r.todo)
  BY RunningTyped DEF IInv, TypeOK
<1>3. Len(r.todo) # 0
  BY <1>1, <1>2, EmptySeq
<1>4. /\ q.type = r.type /\ q.turn = r.turn /\ q.status = r.status
      /\ q.todo = Tail(r.todo) /\ q \in Works
  <2>1. Tail(r.todo) \in Seq(Callbacks)
    BY <1>1, <1>2, HeadTailProperties
  <2>2. QED
    BY <1>2, <2>1 DEF Works
<1>5. \A k \in DOMAIN q.todo : k + 1 \in DOMAIN r.todo /\ q.todo[k] = r.todo[k + 1]
                               /\ k \in Nat /\ k > 0
  <2>1. /\ Tail(r.todo) \in Seq(Callbacks) /\ Len(Tail(r.todo)) = Len(r.todo) - 1
        /\ \A k \in 1 .. Len(r.todo) - 1 : Tail(r.todo)[k] = r.todo[k + 1]
    BY <1>1, <1>2, HeadTailProperties
  <2>2. DOMAIN Tail(r.todo) = 1 .. Len(r.todo) - 1
    BY <2>1, LenProperties
  <2>3. QED
    BY <1>2, <1>3, <1>4, <2>1, <2>2
<1>6. 1 \in DOMAIN r.todo /\ x \in Callbacks /\ Known(x) /\ set[x].type = r.type
  <2>1. 1 \in DOMAIN r.todo
    BY <1>2, <1>3
  <2>2. QED
    BY <2>1, TodoKnown
<1>7. PICK m \in Nat : \A k \in DOMAIN r.todo : m + k = Position(r.todo[k]) /\ Known(r.todo[k])
  BY <1>6, TodoKnown
<1>8. e \in [callback : Callbacks, status : Int] /\ e.callback = x
  BY <1>2, <1>6
<1> HIDE DEF q, e, x
<1> DEFINE n == Len(log')
<1>9. /\ log \in Seq([callback : Callbacks, status : Int])
      /\ log' \in Seq([callback : Callbacks, status : Int])
      /\ log'[n] = e /\ n \in Nat
      /\ DOMAIN log' = DOMAIN log \cup {n} /\ n \notin DOMAIN log
      /\ \A i \in DOMAIN log : i < n /\ log'[i] = log[i]
  <2>1. log \in Seq([callback : Callbacks, status : Int])
    BY DEF IInv, TypeOK
  <2>2. QED
    BY <1>1, <1>8, <2>1, Appended
<1> HIDE DEF n
<1>10. DOMAIN log \subseteq Nat
  BY LogTyped DEF IInv
<1>11. TypeOK'
  <2>1. running' \subseteq Works /\ IsFiniteSet(running')
    <3>1. IsFiniteSet(running \ {r})
      BY FS_Subset DEF IInv, TypeOK
    <3>2. QED
      BY <1>1, <1>4, <3>1, FS_AddElement DEF IInv, TypeOK
  <2>2. QED
    BY <1>1, <1>9, <2>1 DEF IInv, TypeOK
<1>12. /\ StoredKnown' /\ NoTwice' /\ Placed' /\ RegisteredOnce'
       /\ StoreOutlivesRegistration'
  <2>1. StoredKnown' /\ NoTwice' /\ Placed'
    BY <1>1 DEF IInv, StoredKnown, NoTwice, Placed, Known
  <2>2. RegisteredOnce' /\ StoreOutlivesRegistration'
    BY <1>1 DEF IInv, RegisteredOnce, StoreOutlivesRegistration
  <2>3. QED
    BY <2>1, <2>2
<1>13. Turns'
  <2>1. \A s \in running' : s.turn < fired[s.type]
    BY <1>1, <1>4 DEF IInv, Turns
  <2>2. \A s \in running \ {r} : ~(s.type = r.type /\ s.turn = r.turn)
    BY DEF IInv, Turns
  <2>3. \A s, v \in running' : s.type = v.type /\ s.turn = v.turn => s = v
    BY <1>1, <1>4, <2>2 DEF IInv, Turns
  <2>4. QED
    BY <1>1, <2>1, <2>3 DEF Turns
<1> DEFINE s == store[StoreIndex(r.type)]
<1>14. PICK l \in 0 .. Len(s) :
         /\ \A j \in 1 .. l : Called(s[j])
         /\ \A k \in DOMAIN r.todo : l + k \in DOMAIN s /\ r.todo[k] = s[l + k]
  BY DEF IInv, Stretch
<1>15. /\ Len(s) \in Nat /\ DOMAIN s = 1 .. Len(s)
       /\ l + 1 \in 0 .. Len(s) /\ l + 1 \in DOMAIN s /\ s[l + 1] = x
  <2>1. Len(s) \in Nat /\ DOMAIN s = 1 .. Len(s)
    BY <1>2, StoreTyped DEF IInv
  <2>2. QED
    BY <1>6, <1>14, <2>1 DEF x
<1>16. \A c : Called(c)' <=> Called(c) \/ c = x
  BY <1>8, <1>9 DEF Called
<1>17. \A j \in 1 .. l + 1 : Called(s[j])'
  <2> SUFFICES ASSUME NEW j \in 1 .. l + 1 PROVE Called(s[j])'
    OBVIOUS
  <2>1. j \in 1 .. l \/ j = l + 1
    BY <1>14, <1>15
  <2>2. Called(s[j]) \/ s[j] = x
    BY <1>14, <1>15, <2>1
  <2>3. QED
    BY <1>1, <1>16, <2>2
<1>18. Stretch'
  <2>1. \A k \in DOMAIN q.todo : (l + 1) + k \in DOMAIN s /\ q.todo[k] = s[(l + 1) + k]
    <3> SUFFICES ASSUME NEW k \in DOMAIN q.todo
                 PROVE  (l + 1) + k \in DOMAIN s /\ q.todo[k] = s[(l + 1) + k]
      OBVIOUS
    <3>1. l \in Nat /\ k \in Nat
      BY <1>5, <1>14, <1>15
    <3>2. (l + 1) + k = l + (k + 1)
      BY <3>1
    <3>3. QED
      BY <1>5, <1>14, <3>2
  <2> SUFFICES ASSUME NEW u \in running'
               PROVE  \E o \in 0 .. Len(store[StoreIndex(u.type)]) :
                        /\ \A j \in 1 .. o : Called(store[StoreIndex(u.type)][j])'
                        /\ \A k \in DOMAIN u.todo :
                             /\ o + k \in DOMAIN store[StoreIndex(u.type)]
                             /\ u.todo[k] = store[StoreIndex(u.type)][o + k]
    BY <1>1 DEF Stretch
  <2>2. CASE u = q
    <3>1. u.type = r.type
      BY <1>4, <2>2
    <3>2. \A j \in 1 .. l + 1 : Called(store[StoreIndex(u.type)][j])'
      BY <1>17, <3>1
    <3>3. \A k \in DOMAIN u.todo :
            /\ (l + 1) + k \in DOMAIN store[StoreIndex(u.type)]
            /\ u.todo[k] = store[StoreIndex(u.type)][(l + 1) + k]
      BY <2>1, <2>2, <3>1
    <3>4. l + 1 \in 0 .. Len(store[StoreIndex(u.type)])
      BY <1>15, <3>1
    <3>5. QED
      BY <3>2, <3>3, <3>4
  <2>3. CASE u \in running
    <3>1. PICK o \in 0 .. Len(store[StoreIndex(u.type)]) :
            /\ \A j \in 1 .. o : Called(store[StoreIndex(u.type)][j])
            /\ \A k \in DOMAIN u.todo :
                 /\ o + k \in DOMAIN store[StoreIndex(u.type)]
                 /\ u.todo[k] = store[StoreIndex(u.type)][o + k]
      BY <2>3 DEF IInv, Stretch
    <3>2. \A j \in 1 .. o : Called(store[StoreIndex(u.type)][j])'
      BY <1>1, <1>16, <3>1
    <3>3. QED
      BY <3>1, <3>2
  <2>4. QED
    BY <1>1, <2>2, <2>3
<1>19. CalledKnown'
  <2>1. fired[r.type] > 0
    BY <1>2 DEF IInv, TypeOK, Turns
  <2>2. \A k \in DOMAIN log' : Known(log'[k].callback) /\ fired[set[log'[k].callback].type] > 0
    BY <1>6, <1>8, <1>9, <2>1 DEF IInv, CalledKnown
  <2>3. QED
    BY <1>1, <2>2 DEF CalledKnown, Known
<1>20. ~Waits(q, x)
  <2> SUFFICES ASSUME NEW k \in DOMAIN q.todo, q.todo[k] = x PROVE FALSE
    BY DEF Waits
  <2>1. m + (k + 1) = Position(x) /\ m + 1 = Position(x)
    BY <1>5, <1>6, <1>7 DEF x
  <2>2. QED
    BY <1>5, <2>1
<1>21. \A c : c # x => (Waits(q, c) => Waits(r, c))
  BY <1>5 DEF Waits
<1>22. OncePerTurn'
  <2> SUFFICES ASSUME NEW c \in Callbacks, Known(c)
               PROVE  Calling(log', c) + Cardinality(Pending(c)') <= fired[set[c].type]
    BY <1>1 DEF OncePerTurn, Known
  <2> DEFINE P == Pending(c)
  <2>1. /\ Calling(log, c) + Cardinality(P) <= fired[set[c].type]
        /\ fired[set[c].type] \in Nat
    BY DEF IInv, TypeOK, OncePerTurn, Placed
  <2>2. Calling(log, c) \in Nat /\ Cardinality(P) \in Nat /\ IsFiniteSet(P)
    BY CallingNat, PendingFinite DEF IInv, TypeOK
  <2>3. Calling(log', c) = IF x = c THEN Calling(log, c) + 1 ELSE Calling(log, c)
    BY <1>1, <1>8, <1>9, CallingAppended
  <2>4. /\ Waits(r, c) => r \in P
        /\ \A v : v \in Pending(c)' <=> /\ v \in running \ {r} \/ v = q
                                        /\ Waits(v, c)
        /\ \A v : v \in P <=> v \in running /\ Waits(v, c)
    BY <1>1 DEF Pending, Waits
  <2> HIDE DEF P
  <2>5. CASE x = c
    <3>1. Waits(r, c)
      BY <1>6, <2>5 DEF Waits, x
    <3>2. Pending(c)' = P \ {r} /\ r \in P
      BY <1>20, <2>4, <2>5, <3>1
    <3>3. Cardinality(Pending(c)') = Cardinality(P) - 1
      BY <2>2, <3>2, FS_RemoveElement
    <3>4. QED
      BY <2>1, <2>2, <2>3, <2>5, <3>3
  <2>6. CASE x # c /\ Waits(r, c)
    <3>1. Pending(c)' \subseteq (P \ {r}) \cup {q} /\ r \in P
      BY <2>4, <2>6
    <3> DEFINE D == P \ {r}
    <3>2. IsFiniteSet(D) /\ Cardinality(D) = Cardinality(P) - 1 /\ Cardinality(D) \in Nat
      BY <2>2, <3>1, FS_RemoveElement, FS_CardinalityType
    <3> HIDE DEF D
    <3>3. /\ IsFiniteSet(D \cup {q})
          /\ Cardinality(D \cup {q}) <= Cardinality(P)
          /\ Cardinality(D \cup {q}) \in Nat
      <4>1. /\ IsFiniteSet(D \cup {q})
            /\ Cardinality(D \cup {q}) = IF q \in D THEN Cardinality(D) ELSE Cardinality(D) + 1
        BY <3>2, FS_AddElement
      <4>2. QED
        BY <2>2, <3>2, <4>1
    <3>4. /\ Cardinality(Pending(c)') <= Cardinality(D \cup {q})
          /\ Cardinality(Pending(c)') \in Nat
      BY <3>1, <3>3, FS_Subset, FS_CardinalityType DEF D
    <3>5. QED
      BY <2>1, <2>2, <2>3, <2>6, <3>3, <3>4
  <2>7. CASE x # c /\ ~Waits(r, c)
    <3>1. Pending(c)' = P
      BY <1>21, <2>4, <2>7
    <3>2. QED
      BY <2>1, <2>3, <2>7, <3>1
  <2>8. QED
    BY <2>5, <2>6, <2>7
<1>23. Reached'
  <2> SUFFICES ASSUME NEW t \in Types,
                      NEW k \in DOMAIN store[StoreIndex(t)], NEW o \in DOMAIN store[StoreIndex(t)],
                      k < o, Called(store[StoreIndex(t)][o])'
               PROVE  Called(store[StoreIndex(t)][k])'
    BY <1>1 DEF Reached
  <2>1. CASE Called(store[StoreIndex(t)][o])
    <3>1. Called(store[StoreIndex(t)][k])
      BY <2>1 DEF IInv, Reached
    <3>2. QED
      BY <1>1, <1>16, <3>1
  <2>2. CASE store[StoreIndex(t)][o] = x
    <3>1. t = r.type
      BY <1>6, <2>2 DEF IInv, StoredKnown
    <3>2. o = l + 1
      BY <1>2, <1>15, <2>2, <3>1 DEF IInv, NoTwice
    <3>3. k \in 1 .. l + 1
      BY <1>14, <1>15, <3>1, <3>2
    <3>4. QED
      BY <1>17, <3>1, <3>3
  <2>3. QED
    BY <1>1, <1>16, <2>1, <2>2
<1>24. QED
  BY <1>11, <1>12, <1>13, <1>18, <1>19, <1>22, <1>23 DEF IInv

LEMMA NextIInv == IInv /\ [EventNext]_eventVars => IInv'
<1> SUFFICES ASSUME IInv, [EventNext]_eventVars PROVE IInv'
  OBVIOUS
<1>1. CASE RunCallbacks
  BY <1>1, RawCallbackIInv, CallNextIInv, RawReturnIInv DEF RunCallbacks
<1>2. CASE UNCHANGED eventVars
  BY <1>2, RestIInv
<1>3. QED
  BY <1>1, <1>2, AddEventCallbackIInv, AddEmptyCallbackIInv, RestIInv DEF EventNext

-----------------------------------------------------------------------------
(* The theorems. *)

\* IInv is an invariant, for any number of Events, callbacks, empty callbacks and
\* failing registrations.
THEOREM Invariance == EventSpec => []IInv
<1>1. QED
  BY InitIInv, NextIInv, PTL DEF EventSpec

\* The shared vector that OpenCL was given a pointer to has a holder until
\* raw_callback has begun, though the pointer itself keeps nothing alive.
THEOREM StoreOutlives == EventSpec => []StoreOutlivesRegistration
<1>1. IInv => StoreOutlivesRegistration
  BY DEF IInv
<1>2. QED
  BY <1>1, Invariance, PTL

\* The calls of a status leave no hole in its vector and, up to what empty callbacks do,
\* repeat none, however threads, late callbacks and failing registrations interleave.
THEOREM CallsTogether == EventSpec => []CalledTogether
<1>1. IInv => CalledTogether
  <2> SUFFICES ASSUME IInv PROVE CalledTogether
    OBVIOUS
  <2>1. ASSUME empties = 0, NEW i \in DOMAIN log, NEW j \in DOMAIN log,
               log[i].callback = log[j].callback, i # j
        PROVE  FALSE
    <3> DEFINE c == log[i].callback
               K == {n \in DOMAIN log : log[n].callback = c}
    <3>1. c \in Callbacks /\ Known(c)
      BY LogTyped DEF IInv, CalledKnown
    <3>2. /\ Calling(log, c) + Cardinality(Pending(c)) <= fired[set[c].type]
          /\ set[c].type \in Types
      BY <3>1 DEF IInv, OncePerTurn, Placed
    <3>3. Calling(log, c) \in Nat /\ Cardinality(Pending(c)) \in Nat /\ IsFiniteSet(K)
      BY CallingNat, PendingFinite DEF IInv, TypeOK
    <3>4. fired[set[c].type] <= 1 /\ fired[set[c].type] \in Nat
      BY <2>1, <3>2 DEF IInv, TypeOK, RegisteredOnce
    <3>5. Cardinality(K) <= 1 /\ Cardinality(K) \in Nat
      BY <3>2, <3>3, <3>4 DEF Calling
    <3>6. {i, j} \subseteq K
      BY <2>1
    <3> HIDE DEF K
    <3>7. IsFiniteSet({i}) /\ Cardinality({i}) = 1
      BY FS_Singleton
    <3>8. Cardinality({i} \cup {j}) = 2
      <4>1. j \notin {i}
        BY <2>1
      <4>2. Cardinality({i} \cup {j}) = Cardinality({i}) + 1
        BY <3>7, <4>1, FS_AddElement
      <4>3. QED
        BY <3>7, <4>2
    <3>9. {i} \cup {j} = {i, j}
      OBVIOUS
    <3>10. Cardinality({i, j}) <= Cardinality(K)
      BY <3>3, <3>6, FS_Subset
    <3>11. QED
      BY <3>5, <3>8, <3>9, <3>10
  <2>2. QED
    BY <2>1 DEF IInv, Reached, CalledTogether
<1>2. QED
  BY <1>1, Invariance, PTL
=============================================================================
