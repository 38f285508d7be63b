----------------------- MODULE MemoryCallbacksProofs -----------------------
(***************************************************************************)
(* Proofs about MemoryCallbacks, for any wrappers, lists and callbacks:    *)
(* OpenCL never calls with the address of a deleted list, every list is    *)
(* deleted in the end, callbacks run once, those of one list in reverse.   *)
(* The inductive invariant follows a callback from its place in a list to  *)
(* the registration of the list, to the raw_callback at work, to the log.  *)
(***************************************************************************)
EXTENDS MemoryCallbacks, FiniteSetTheorems, SequenceTheorems, TLAPS

Registrations == [call : {"raw", "liberate"}, list : Lists]

TypeOK ==
  /\ held \in [Wrappers -> Lists \cup {None}]
  /\ list \in [Lists -> Seq(Callbacks)]
  /\ heap \in [Lists -> {"free", "used", "deleted", "orphan"}]
  /\ raw \in BOOLEAN
  /\ stack \in Seq(Registrations)
  /\ phase \in {"alive", "dying", "gone"}
  /\ current \in Seq(Callbacks)
  /\ log \in Seq(Callbacks)
  /\ set \in [Callbacks -> {"none", "set", "threw"}]
  /\ wraps \in Nat /\ empties \in Nat

\* While the cl_mem lives no callback runs; when it dies no wrapper is left.
Lifetimes ==
  /\ phase = "alive" => log = <<>> /\ current = <<>>
  /\ phase # "alive" => \A w \in Wrappers : held[w] = None
  /\ phase = "gone" => stack = <<>> /\ current = <<>>
  /\ \A w \in Wrappers : held[w] # None => heap[held[w]] = "used"

\* liberate_callback_list is still to be called for every list.
Reclaimable ==
  \A l \in Lists : heap[l] = "used" =>
    \E k \in DOMAIN stack : stack[k].call = "liberate" /\ stack[k].list = l

\* raw_callback is registered for lists with a callback in them.
RegisteredFull ==
  \A k \in DOMAIN stack : stack[k].call = "raw" => list[stack[k].list] # <<>>

\* A callback that was set, or whose registration failed, has one place in one list.
OnePlace ==
  \A l \in Lists : \A i \in DOMAIN list[l] :
    /\ set[list[l][i]] # "none"
    /\ \A m \in Lists : \A j \in DOMAIN list[m] : list[l][i] = list[m][j] => l = m /\ i = j

Logged(c) == \E n \in DOMAIN log : log[n] = c
Waiting(c) == \E n \in DOMAIN current : current[n] = c

\* The raw_callback at work is that of a list from the end of which on its callbacks
\* have been called.
Backwards ==
  current # <<>> =>
    \E l \in Lists :
      /\ Len(current) <= Len(list[l])
      /\ \A i \in DOMAIN current : current[i] = list[l][i]
      /\ \A i \in DOMAIN list[l] : Len(current) < i => Logged(list[l][i])

\* Only callbacks from the lists are called.
LoggedListed ==
  \A n \in DOMAIN log : \E l \in Lists : \E i \in DOMAIN list[l] : log[n] = list[l][i]

\* No callback of a registered list is forgotten.
Kept ==
  \A l \in Lists :
    list[l] # <<>> /\ set[list[l][1]] = "set" =>
      \A i \in DOMAIN list[l] :
        \/ \E k \in DOMAIN stack : stack[k].call = "raw" /\ stack[k].list = l
        \/ Logged(list[l][i]) \/ Waiting(list[l][i])

Count(s, e) == Cardinality({k \in DOMAIN s : s[k] = e})

RawEntry(l) == [call |-> "raw", list |-> l]

\* A callback is called once for every registration of its list, and a list is
\* registered once but for empty callbacks.
Bounded ==
  \A l \in Lists :
    /\ Count(stack, RawEntry(l)) <= 1 + empties
    /\ \A i \in DOMAIN list[l] :
         LET c == list[l][i] IN
         Count(log, c) + Count(stack, RawEntry(l)) + (IF Waiting(c) THEN 1 ELSE 0)
           <= 1 + empties

IInv ==
  /\ TypeOK /\ Lifetimes /\ RegistrationsValid /\ Reclaimable /\ RegisteredFull
  /\ OnePlace /\ Backwards /\ LoggedListed /\ Kept /\ Bounded /\ StackPerList

USE MemoryCallbacksAssumption

-----------------------------------------------------------------------------
(* Sequences that grow or shrink at the end, and counting in them. *)

LEMMA Typed ==
  ASSUME NEW S, NEW s \in Seq(S)
  PROVE  /\ Len(s) \in Nat /\ DOMAIN s = 1 .. Len(s) /\ \A i \in DOMAIN s : s[i] \in S
         /\ s = <<>> <=> Len(s) = 0
BY LenProperties, ElementOfSeq, EmptySeq

LEMMA Appended ==
  ASSUME NEW S, NEW s \in Seq(S), NEW e \in S, NEW t, t = Append(s, e)
  PROVE  /\ t \in Seq(S) /\ t # <<>> /\ Len(t) = Len(s) + 1 /\ t[Len(t)] = e
         /\ DOMAIN t = DOMAIN s \cup {Len(t)} /\ Len(t) \notin DOMAIN s
         /\ Len(t) \in Nat /\ \A i \in DOMAIN s : i < Len(t)
         /\ \A i \in DOMAIN s : t[i] = s[i]
<1>1. /\ t \in Seq(S) /\ t # <<>> /\ Len(t) = Len(s) + 1
      /\ \A i \in 1 .. Len(s) : t[i] = s[i]
      /\ t[Len(s) + 1] = e
  BY AppendProperties
<1>2. /\ DOMAIN s = 1 .. Len(s) /\ Len(s) \in Nat /\ DOMAIN t = 1 .. Len(t)
  BY <1>1, Typed
<1>3. QED
  BY <1>1, <1>2

LEMMA PoppedOff ==
  ASSUME NEW S, NEW s \in Seq(S), s # <<>>, NEW t, t = SubSeq(s, 1, Len(s) - 1)
  PROVE  /\ t \in Seq(S) /\ Len(t) = Len(s) - 1
         /\ Len(s) \in DOMAIN s /\ DOMAIN t = DOMAIN s \ {Len(s)}
         /\ Len(s) \in Nat /\ \A i \in DOMAIN t : i < Len(s)
         /\ \A i \in DOMAIN t : t[i] = s[i]
<1>1. /\ DOMAIN s = 1 .. Len(s) /\ Len(s) \in Nat /\ Len(s) # 0
      /\ \A i \in 1 .. Len(s) - 1 : s[i] \in S
  BY Typed
<1>2. /\ t \in Seq(S) /\ Len(t) = Len(s) - 1
      /\ \A i \in 1 .. Len(s) - 1 : t[i] = s[i]
  BY <1>1, SubSeqProperties
<1>3. DOMAIN t = 1 .. Len(t)
  BY <1>2, Typed
<1>4. QED
  BY <1>1, <1>2, <1>3

LEMMA StackTyped ==
  ASSUME TypeOK, NEW k \in DOMAIN stack
  PROVE  /\ k \in 1 .. Len(stack) /\ Len(stack) \in Nat /\ stack[k] \in Registrations
         /\ stack[k].call \in {"raw", "liberate"} /\ stack[k].list \in Lists
<1>1. stack \in Seq(Registrations)
  BY DEF TypeOK
<1>2. k \in 1 .. Len(stack) /\ Len(stack) \in Nat /\ stack[k] \in Registrations
  BY <1>1, Typed
<1>3. QED
  BY <1>2 DEF Registrations

LEMMA CountNat ==
  ASSUME NEW S, NEW s \in Seq(S), NEW x
  PROVE  /\ IsFiniteSet({k \in DOMAIN s : s[k] = x}) /\ Count(s, x) \in Nat
         /\ Count(s, x) = 0 <=> \A k \in DOMAIN s : s[k] # x
<1> DEFINE K == {k \in DOMAIN s : s[k] = x}
<1>1. IsFiniteSet(DOMAIN s)
  BY Typed, FS_Interval
<1>2. IsFiniteSet(K)
  BY <1>1, FS_Subset
<1>3. QED
  <2>1. K = {} <=> \A k \in DOMAIN s : s[k] # x
    OBVIOUS
  <2>2. Count(s, x) = Cardinality(K)
    BY DEF Count
  <2> HIDE DEF K
  <2>3. Cardinality(K) \in Nat /\ (Cardinality(K) = 0 <=> K = {})
    BY <1>2, FS_CardinalityType, FS_EmptySet
  <2>4. QED
    BY <1>2, <2>1, <2>2, <2>3 DEF K

LEMMA CountAppended ==
  ASSUME NEW S, NEW s \in Seq(S), NEW e \in S, NEW x
  PROVE  Count(Append(s, e), x) = IF e = x THEN Count(s, x) + 1 ELSE Count(s, x)
<1> DEFINE t == Append(s, e)
           K == {k \in DOMAIN s : s[k] = x}
           L == {k \in DOMAIN t : t[k] = x}
<1>1. L = IF e = x THEN K \cup {Len(t)} ELSE K
  BY Appended
<1>2. Len(t) \notin K
  BY Appended
<1>3. IsFiniteSet(K)
  BY CountNat
<1>4. QED
  BY <1>1, <1>2, <1>3, FS_AddElement DEF Count

LEMMA CountPopped ==
  ASSUME NEW S, NEW s \in Seq(S), s # <<>>, NEW x
  PROVE  Count(SubSeq(s, 1, Len(s) - 1), x) =
           IF s[Len(s)] = x THEN Count(s, x) - 1 ELSE Count(s, x)
<1> DEFINE t == SubSeq(s, 1, Len(s) - 1)
           K == {k \in DOMAIN s : s[k] = x}
           L == {k \in DOMAIN t : t[k] = x}
<1>1. L = IF s[Len(s)] = x THEN K \ {Len(s)} ELSE K
  BY PoppedOff
<1>2. s[Len(s)] = x => Len(s) \in K
  BY PoppedOff
<1>3. IsFiniteSet(K)
  BY CountNat
<1>4. QED
  BY <1>1, <1>2, <1>3, FS_RemoveElement DEF Count

-----------------------------------------------------------------------------
(* The invariant, action by action. *)

LEMMA InitIInv == Init => IInv
<1> SUFFICES ASSUME Init PROVE IInv
  OBVIOUS
<1>1. /\ stack = <<>> /\ log = <<>> /\ current = <<>>
      /\ \A l \in Lists : list[l] = <<>> /\ heap[l] = "free"
  BY DEF Init
<1>2. /\ DOMAIN stack = {} /\ DOMAIN log = {} /\ DOMAIN current = {}
      /\ \A l \in Lists : DOMAIN list[l] = {}
  BY <1>1
<1>3. /\ \A S : <<>> \in Seq(S)
  BY EmptySeq
<1>4. TypeOK
  BY <1>3 DEF Init, TypeOK
<1>5. Lifetimes /\ RegistrationsValid /\ Reclaimable /\ RegisteredFull
  BY <1>1, <1>2 DEF Init, Lifetimes, RegistrationsValid, Reclaimable, RegisteredFull
<1>6. OnePlace /\ Backwards /\ LoggedListed /\ Kept /\ StackPerList
  BY <1>1, <1>2 DEF OnePlace, Backwards, LoggedListed, Kept, StackPerList
<1>7. Bounded
  <2>1. \A x : Count(stack, x) = 0
    BY <1>2, <1>4, CountNat DEF TypeOK
  <2>2. QED
    BY <1>2, <1>4, <2>1 DEF Bounded, TypeOK
<1>8. QED
  BY <1>4, <1>5, <1>6, <1>7 DEF IInv

\* A step of the host, while the cl_mem lives: no callback has been called, and how
\* often any can be is what is registered.
LEMMA NothingCalled ==
  ASSUME TypeOK', log' = <<>>, current' = <<>>,
         \A l \in Lists : Count(stack', RawEntry(l)) <= 1 + empties'
  PROVE  Backwards' /\ LoggedListed' /\ StackPerList' /\ Bounded'
<1>1. DOMAIN log' = {} /\ DOMAIN current' = {}
  OBVIOUS
<1>2. Backwards' /\ LoggedListed' /\ StackPerList'
  BY <1>1 DEF Backwards, LoggedListed, StackPerList
<1>3. \A x : Count(log', x) = 0
  BY <1>1, CountNat DEF TypeOK
<1>4. \A l \in Lists : Count(stack', RawEntry(l)) \in Nat
  BY CountNat DEF TypeOK
<1>5. Bounded'
  BY <1>1, <1>3, <1>4 DEF Bounded, Waiting, TypeOK
<1>6. QED
  BY <1>2, <1>5

\* A registration of raw_callback for a list that exists, or of the deletion of a new
\* one.
LEMMA Registered ==
  ASSUME IInv, NEW l \in Lists, NEW call \in {"raw", "liberate"},
         stack' = Append(stack, [call |-> call, list |-> l]),
         heap[l] = IF call = "raw" THEN "used" ELSE "free",
         heap' = [heap EXCEPT ![l] = "used"]
  PROVE  /\ stack' \in Seq(Registrations) /\ RegistrationsValid' /\ Reclaimable'
         /\ \A k \in DOMAIN stack : k \in DOMAIN stack' /\ stack'[k] = stack[k]
         /\ \A k \in DOMAIN stack' :
              k \in DOMAIN stack \/ stack'[k] = [call |-> call, list |-> l]
         /\ call = "raw" => \E k \in DOMAIN stack' : stack'[k] = RawEntry(l)
<1> DEFINE e == [call |-> call, list |-> l]
           n == Len(stack')
<1>1. /\ stack' \in Seq(Registrations) /\ stack'[n] = e
      /\ DOMAIN stack' = DOMAIN stack \cup {n}
      /\ n \in Nat /\ \A k \in DOMAIN stack : k < n
      /\ \A k \in DOMAIN stack : stack'[k] = stack[k]
  <2>1. e \in Registrations
    BY DEF Registrations
  <2>2. stack \in Seq(Registrations)
    BY DEF IInv, TypeOK
  <2>3. QED
    BY <2>1, <2>2, Appended
<1>2. e.call = call /\ e.list = l
  OBVIOUS
<1>3. \A k \in DOMAIN stack : k \in Nat /\ stack[k].list \in Lists
  BY StackTyped DEF IInv
<1>4. \A m \in Lists : heap'[m] = IF m = l THEN "used" ELSE heap[m]
  BY DEF IInv, TypeOK
<1> HIDE DEF n, e
<1>5. \A k \in DOMAIN stack' : heap'[stack'[k].list] = "used"
  BY <1>1, <1>2, <1>3, <1>4 DEF IInv, RegistrationsValid
<1>6. ASSUME NEW i \in DOMAIN stack', NEW j \in DOMAIN stack',
             stack'[i].call = "liberate", stack'[i].list = stack'[j].list
      PROVE  i <= j /\ (stack'[j].call = "liberate" => i = j)
  <2>1. CASE i \in DOMAIN stack /\ j \in DOMAIN stack
    BY <1>1, <1>6, <2>1 DEF IInv, RegistrationsValid
  <2>2. CASE i \in DOMAIN stack /\ j = n
    <3>1. heap[l] = "used"
      BY <1>1, <1>2, <1>6, <2>2 DEF IInv, RegistrationsValid
    <3>2. QED
      BY <1>1, <1>2, <1>3, <2>2, <3>1
  <2>3. CASE i = n /\ j \in DOMAIN stack
    <3>1. heap[l] = "used"
      BY <1>1, <1>2, <1>6, <2>3 DEF IInv, RegistrationsValid
    <3>2. QED
      BY <1>1, <1>2, <1>6, <2>3, <3>1
  <2>4. CASE i = n /\ j = n
    BY <1>1, <2>4
  <2>5. QED
    BY <1>1, <2>1, <2>2, <2>3, <2>4
<1>7. RegistrationsValid'
  BY <1>5, <1>6 DEF RegistrationsValid
<1>8. Reclaimable'
  <2> SUFFICES ASSUME NEW m \in Lists, heap'[m] = "used"
               PROVE  \E k \in DOMAIN stack' : stack'[k].call = "liberate"
                                               /\ stack'[k].list = m
    BY DEF Reclaimable
  <2>1. CASE m = l /\ call = "liberate"
    BY <1>1, <1>2, <2>1
  <2>2. CASE ~(m = l /\ call = "liberate")
    <3>1. heap[m] = "used"
      BY <1>4, <2>2
    <3>2. QED
      BY <1>1, <3>1 DEF IInv, Reclaimable
  <2>3. QED
    BY <2>1, <2>2
<1>9. QED
  BY <1>1, <1>2, <1>7, <1>8 DEF e, RawEntry

LEMMA ConstructIInv ==
  ASSUME IInv, NEW w \in Wrappers, NEW l \in Lists, NEW i \in BOOLEAN, Construct(w, l, i)
  PROVE  IInv'
<1>1. /\ phase = "alive" /\ heap[l] = "free" /\ log = <<>> /\ current = <<>>
      /\ wraps' = wraps + 1 /\ raw' = (raw /\ i)
      /\ UNCHANGED <<list, phase, current, log, set, empties>>
  BY DEF Construct, IInv, Lifetimes
<1>2. CASE /\ held' = [held EXCEPT ![w] = l]
           /\ heap' = [heap EXCEPT ![l] = "used"]
           /\ stack' = Append(stack, [call |-> "liberate", list |-> l])
  <2>1. /\ stack' \in Seq(Registrations) /\ RegistrationsValid' /\ Reclaimable'
        /\ \A k \in DOMAIN stack : k \in DOMAIN stack' /\ stack'[k] = stack[k]
        /\ \A k \in DOMAIN stack' :
             k \in DOMAIN stack \/ stack'[k] = [call |-> "liberate", list |-> l]
    BY <1>1, <1>2, Registered
  <2>2. TypeOK'
    BY <1>1, <1>2, <2>1 DEF IInv, TypeOK
  <2>3. Lifetimes'
    BY <1>1, <1>2 DEF IInv, TypeOK, Lifetimes
  <2>4. RegisteredFull'
    BY <1>1, <2>1 DEF IInv, RegisteredFull
  <2>5. OnePlace'
    BY <1>1 DEF IInv, OnePlace
  <2>6. Kept'
    BY <1>1, <2>1 DEF IInv, Kept, Logged, Waiting
  <2>7. ASSUME NEW m \in Lists PROVE Count(stack', RawEntry(m)) <= 1 + empties'
    <3>1. [call |-> "liberate", list |-> l] # RawEntry(m)
      BY DEF RawEntry
    <3>2. [call |-> "liberate", list |-> l] \in Registrations
      BY DEF Registrations
    <3>3. Count(stack', RawEntry(m)) = Count(stack, RawEntry(m))
      BY <1>2, <3>1, <3>2, CountAppended DEF IInv, TypeOK
    <3>4. QED
      BY <1>1, <3>3 DEF IInv, Bounded
  <2>8. QED
    BY <1>1, <2>1, <2>2, <2>3, <2>4, <2>5, <2>6, <2>7, NothingCalled DEF IInv
<1>3. CASE heap' = [heap EXCEPT ![l] = "orphan"] /\ UNCHANGED <<held, stack>>
  <2>1. TypeOK'
    BY <1>1, <1>3 DEF IInv, TypeOK
  <2>2. \A m \in Lists : heap'[m] = IF m = l THEN "orphan" ELSE heap[m]
    BY <1>3 DEF IInv, TypeOK
  <2>3. \A k \in DOMAIN stack : stack[k].list \in Lists /\ stack[k].list # l
    BY <1>1, StackTyped DEF IInv, RegistrationsValid
  <2>4. Lifetimes'
    BY <1>1, <1>3, <2>2 DEF IInv, TypeOK, Lifetimes
  <2>5. RegistrationsValid' /\ Reclaimable' /\ RegisteredFull'
    BY <1>1, <1>3, <2>2, <2>3 DEF IInv, RegistrationsValid, Reclaimable, RegisteredFull
  <2>6. OnePlace' /\ Kept'
    BY <1>1, <1>3 DEF IInv, OnePlace, Kept, Logged, Waiting
  <2>7. QED
    BY <1>1, <1>3, <2>1, <2>4, <2>5, <2>6, NothingCalled DEF IInv, Bounded
<1>4. QED
  BY <1>2, <1>3 DEF Construct

\* What the host finds at a list it holds.
LEMMA HeldList ==
  ASSUME IInv, NEW w \in Wrappers, held[w] # None
  PROVE  /\ held[w] \in Lists /\ heap[held[w]] = "used" /\ phase = "alive"
         /\ log = <<>> /\ current = <<>>
         /\ heap = [heap EXCEPT ![held[w]] = "used"]
<1>1. held[w] \in Lists /\ heap[held[w]] = "used" /\ phase = "alive"
  BY DEF IInv, TypeOK, Lifetimes
<1>2. QED
  BY <1>1 DEF IInv, TypeOK, Lifetimes

\* A registration of raw_callback, or none, leaves no list overdrawn.
LEMMA RegistrationCounted ==
  ASSUME IInv, NEW l \in Lists,
         \/ stack' = stack /\ empties' = empties
         \/ stack' = Append(stack, RawEntry(l)) /\ list[l] = <<>> /\ empties' = empties
         \/ (stack' = Append(stack, RawEntry(l)) \/ stack' = stack) /\ empties' = empties + 1
  PROVE  \A m \in Lists : Count(stack', RawEntry(m)) <= 1 + empties'
<1> SUFFICES ASSUME NEW m \in Lists PROVE Count(stack', RawEntry(m)) <= 1 + empties'
  OBVIOUS
<1>1. /\ stack \in Seq(Registrations) /\ empties \in Nat
      /\ Count(stack, RawEntry(m)) \in Nat /\ Count(stack, RawEntry(m)) <= 1 + empties
  BY CountNat DEF IInv, TypeOK, Bounded
<1>2. RawEntry(l) \in Registrations /\ (RawEntry(l) = RawEntry(m) => l = m)
  BY DEF RawEntry, Registrations
<1>3. Count(Append(stack, RawEntry(l)), RawEntry(m)) =
        IF RawEntry(l) = RawEntry(m) THEN Count(stack, RawEntry(m)) + 1
        ELSE Count(stack, RawEntry(m))
  BY <1>1, <1>2, CountAppended
<1>4. list[m] = <<>> => Count(stack, RawEntry(m)) = 0
  <2> SUFFICES ASSUME list[m] = <<>>, NEW k \in DOMAIN stack, stack[k] = RawEntry(m)
               PROVE  FALSE
    BY <1>1, CountNat
  <2>1. stack[k].call = "raw" /\ stack[k].list = m
    BY DEF RawEntry
  <2>2. QED
    BY <2>1 DEF IInv, RegisteredFull
<1>5. CASE stack' = stack
  BY <1>1, <1>5
<1>6. CASE stack' = Append(stack, RawEntry(l)) /\ list[l] = <<>>
  <2>1. Count(stack', RawEntry(m)) = IF l = m THEN Count(stack, RawEntry(m)) + 1
                                     ELSE Count(stack, RawEntry(m))
    BY <1>2, <1>3, <1>6
  <2>2. QED
    BY <1>1, <1>4, <1>6, <2>1
<1>7. CASE stack' = Append(stack, RawEntry(l)) /\ empties' = empties + 1
  BY <1>1, <1>3, <1>7
<1>8. QED
  BY <1>5, <1>6, <1>7

\* A callback that is set takes the last place of its list.
LEMMA AddDestructorCallbackIInv ==
  ASSUME IInv, NEW w \in Wrappers, NEW c \in Callbacks, AddDestructorCallback(w, c)
  PROVE  IInv'
<1>0. PICK l \in Lists : l = held[w]
  BY HeldList DEF AddDestructorCallback
<1> DEFINE after == Append(list[l], c)
<1>1. /\ held[w] # None /\ set[c] = "none" /\ list' = [list EXCEPT ![l] = after]
      /\ \/ /\ Len(after) = 1
            /\ stack' = Append(stack, [call |-> "raw", list |-> l])
            /\ set' = [set EXCEPT ![c] = "set"]
         \/ /\ Len(after) = 1
            /\ set' = [set EXCEPT ![c] = "threw"] /\ stack' = stack
         \/ /\ Len(after) # 1
            /\ set' = [set EXCEPT ![c] = "set"] /\ stack' = stack
      /\ UNCHANGED <<held, heap, raw, phase, current, log, wraps, empties>>
  BY <1>0 DEF AddDestructorCallback, MustRegister
<1>2. /\ heap[l] = "used" /\ phase = "alive" /\ log = <<>> /\ current = <<>>
      /\ heap' = [heap EXCEPT ![l] = "used"]
  BY <1>0, <1>1, HeldList
<1>3. /\ after \in Seq(Callbacks) /\ after # <<>> /\ Len(after) = Len(list[l]) + 1
      /\ after[Len(after)] = c /\ DOMAIN after = DOMAIN list[l] \cup {Len(after)}
      /\ Len(after) \notin DOMAIN list[l] /\ Len(after) \in Nat
      /\ \A i \in DOMAIN list[l] : after[i] = list[l][i]
      /\ Len(list[l]) \in Nat /\ (Len(list[l]) = 0 <=> list[l] = <<>>)
      /\ list[l] # <<>> => 1 \in DOMAIN list[l]
  <2>1. list[l] \in Seq(Callbacks)
    BY DEF IInv, TypeOK
  <2>2. QED
    BY <2>1, Appended, Typed
<1> DEFINE n == Len(after)
<1>4. /\ \A m \in Lists : list'[m] = IF m = l THEN after ELSE list[m]
      /\ \A d \in Callbacks : d # c => set'[d] = set[d]
      /\ set'[c] = IF n = 1 /\ stack' = stack THEN "threw" ELSE "set"
  <2>1. stack # Append(stack, [call |-> "raw", list |-> l])
    <3>1. [call |-> "raw", list |-> l] \in Registrations
      BY DEF Registrations
    <3>2. QED
      BY <3>1, Appended, Typed DEF IInv, TypeOK
  <2>2. QED
    BY <1>1, <2>1 DEF IInv, TypeOK
<1> HIDE DEF after
<1>5. \A m \in Lists : \A i \in DOMAIN list'[m] :
        \/ i \in DOMAIN list[m] /\ list'[m][i] = list[m][i]
        \/ m = l /\ i = n /\ i \notin DOMAIN list[m] /\ list'[m][i] = c
  BY <1>3, <1>4
<1>6. \A m \in Lists : \A i \in DOMAIN list[m] :
        list[m][i] # c /\ list[m][i] \in Callbacks
  <2>1. \A m \in Lists : list[m] \in Seq(Callbacks)
    BY DEF IInv, TypeOK
  <2>2. \A m \in Lists : \A i \in DOMAIN list[m] : list[m][i] \in Callbacks
    BY <2>1, Typed
  <2>3. QED
    BY <1>1, <2>2 DEF IInv, OnePlace
<1>7. /\ stack' \in Seq(Registrations) /\ RegistrationsValid' /\ Reclaimable'
      /\ \A k \in DOMAIN stack : k \in DOMAIN stack' /\ stack'[k] = stack[k]
      /\ \A k \in DOMAIN stack' : k \in DOMAIN stack \/ stack'[k] = RawEntry(l)
      /\ stack' = stack \/ \E k \in DOMAIN stack' : stack'[k] = RawEntry(l)
  <2>1. CASE stack' = Append(stack, [call |-> "raw", list |-> l])
    BY <1>2, <2>1, Registered DEF RawEntry
  <2>2. CASE stack' = stack
    BY <1>1, <2>2 DEF IInv, TypeOK, RegistrationsValid, Reclaimable
  <2>3. QED
    BY <1>1, <2>1, <2>2
<1>8. TypeOK'
  <2>1. list' \in [Lists -> Seq(Callbacks)]
    BY <1>1, <1>3 DEF IInv, TypeOK
  <2>2. set' \in [Callbacks -> {"none", "set", "threw"}]
    BY <1>1 DEF IInv, TypeOK
  <2>3. QED
    BY <1>1, <1>7, <2>1, <2>2 DEF IInv, TypeOK
<1>9. Lifetimes'
  BY <1>1, <1>2 DEF IInv, Lifetimes
<1>10. RegisteredFull'
  BY <1>3, <1>4, <1>7, StackTyped DEF IInv, RegisteredFull, RawEntry
<1>11. OnePlace'
  <2>1. ASSUME NEW m \in Lists, NEW i \in DOMAIN list'[m] PROVE set'[list'[m][i]] # "none"
    BY <1>4, <1>5, <1>6, <2>1 DEF IInv, OnePlace
  <2>2. ASSUME NEW m \in Lists, NEW i \in DOMAIN list'[m],
               NEW o \in Lists, NEW j \in DOMAIN list'[o], list'[m][i] = list'[o][j]
        PROVE  m = o /\ i = j
    BY <1>5, <1>6, <2>2 DEF IInv, OnePlace
  <2>3. QED
    BY <2>1, <2>2 DEF OnePlace
<1>12. Kept'
  <2> SUFFICES ASSUME NEW m \in Lists, list'[m] # <<>>, set'[list'[m][1]] = "set"
               PROVE  \E k \in DOMAIN stack' : stack'[k].call = "raw" /\ stack'[k].list = m
    BY DEF Kept
  <2>1. CASE m = l /\ n = 1
    <3>1. stack' # stack
      BY <1>3, <1>4, <2>1
    <3>2. QED
      BY <1>7, <2>1, <3>1 DEF RawEntry
  <2>2. CASE ~(m = l /\ n = 1)
    <3>1. list[m] # <<>> /\ 1 \in DOMAIN list[m]
      <4>1. m # l => list[m] \in Seq(Callbacks)
        BY DEF IInv, TypeOK
      <4>2. QED
        BY <1>3, <1>4, <2>2, <4>1, Typed
    <3>2. list'[m][1] = list[m][1] /\ set[list[m][1]] = "set"
      BY <1>3, <1>4, <1>6, <3>1
    <3>3. ~Logged(list[m][1]) /\ ~Waiting(list[m][1])
      BY <1>2 DEF Logged, Waiting
    <3>4. \E k \in DOMAIN stack : stack[k].call = "raw" /\ stack[k].list = m
      BY <3>1, <3>2, <3>3 DEF IInv, Kept
    <3>5. QED
      BY <1>7, <3>4
  <2>3. QED
    BY <2>1, <2>2
<1>13. \A m \in Lists : Count(stack', RawEntry(m)) <= 1 + empties'
  BY <1>1, <1>3, RegistrationCounted DEF RawEntry
<1>14. QED
  BY <1>1, <1>2, <1>7, <1>8, <1>9, <1>10, <1>11, <1>12, <1>13, NothingCalled DEF IInv

LEMMA AddEmptyCallbackIInv ==
  ASSUME IInv, NEW w \in Wrappers, AddEmptyCallback(w)
  PROVE  IInv'
<1>0. PICK l \in Lists : l = held[w]
  BY HeldList DEF AddEmptyCallback
<1>1. /\ held[w] # None /\ empties' = empties + 1
      /\ stack' = IF Len(list[l]) = 1
                    THEN Append(stack, [call |-> "raw", list |-> l]) ELSE stack
      /\ UNCHANGED <<held, list, heap, raw, phase, current, log, set, wraps>>
  BY <1>0 DEF AddEmptyCallback, MustRegister
<1>2. /\ heap[l] = "used" /\ phase = "alive" /\ log = <<>> /\ current = <<>>
      /\ heap' = [heap EXCEPT ![l] = "used"]
  BY <1>0, <1>1, HeldList
<1>3. /\ stack' \in Seq(Registrations) /\ RegistrationsValid' /\ Reclaimable'
      /\ \A k \in DOMAIN stack : k \in DOMAIN stack' /\ stack'[k] = stack[k]
      /\ \A k \in DOMAIN stack' :
           k \in DOMAIN stack \/ (stack'[k].list = l /\ list[l] # <<>>)
  <2>1. CASE Len(list[l]) = 1
    <3>1. list[l] # <<>>
      BY <2>1
    <3>2. stack' = Append(stack, [call |-> "raw", list |-> l])
      BY <1>1, <2>1
    <3>3. /\ stack' \in Seq(Registrations) /\ RegistrationsValid' /\ Reclaimable'
          /\ \A k \in DOMAIN stack : k \in DOMAIN stack' /\ stack'[k] = stack[k]
          /\ \A k \in DOMAIN stack' :
               k \in DOMAIN stack \/ stack'[k] = [call |-> "raw", list |-> l]
      BY <1>2, <3>2, Registered
    <3>4. QED
      BY <3>1, <3>3
  <2>2. CASE Len(list[l]) # 1
    BY <1>1, <2>2 DEF IInv, TypeOK, RegistrationsValid, Reclaimable
  <2>3. QED
    BY <2>1, <2>2
<1>4. TypeOK' /\ Lifetimes' /\ OnePlace'
  BY <1>1, <1>2, <1>3 DEF IInv, TypeOK, Lifetimes, OnePlace
<1>5. RegisteredFull'
  BY <1>1, <1>3 DEF IInv, RegisteredFull
<1>6. Kept'
  BY <1>1, <1>3 DEF IInv, Kept, Logged, Waiting
<1>7. \A m \in Lists : Count(stack', RawEntry(m)) <= 1 + empties'
  BY <1>1, RegistrationCounted DEF RawEntry
<1>8. QED
  BY <1>1, <1>2, <1>3, <1>4, <1>5, <1>6, <1>7, NothingCalled DEF IInv

\* Wrappers come and go; with the last one no list is held any more.
LEMMA WrappersIInv ==
  ASSUME IInv, NEW w \in Wrappers, Destroy(w) \/ \E s \in Wrappers : Copy(w, s)
  PROVE  IInv'
<1>1. /\ phase = "alive" /\ log = <<>> /\ current = <<>>
      /\ UNCHANGED <<list, heap, raw, stack, current, log, set, wraps, empties>>
  BY HeldList DEF Destroy, Copy
<1>2. TypeOK' /\ Lifetimes'
  <2>1. CASE Destroy(w)
    BY <1>1, <2>1 DEF Destroy, IInv, TypeOK, Lifetimes
  <2>2. ASSUME NEW s \in Wrappers, Copy(w, s) PROVE TypeOK' /\ Lifetimes'
    BY <1>1, <2>2 DEF Copy, IInv, TypeOK, Lifetimes
  <2>3. QED
    BY <2>1, <2>2
<1>3. RegistrationsValid' /\ Reclaimable' /\ RegisteredFull' /\ OnePlace' /\ Kept'
  BY <1>1 DEF IInv, RegistrationsValid, Reclaimable, RegisteredFull, OnePlace, Kept,
     Logged, Waiting
<1>4. QED
  BY <1>1, <1>2, <1>3, NothingCalled DEF IInv, Bounded

\* The last registration is taken off.
LEMMA TakenOff ==
  ASSUME IInv, stack # <<>>, stack' = Popped
  PROVE  /\ stack' \in Seq(Registrations) /\ Len(stack) \in DOMAIN stack
         /\ Top \in Registrations /\ Top.list \in Lists
         /\ DOMAIN stack' = DOMAIN stack \ {Len(stack)}
         /\ \A k \in DOMAIN stack' : k < Len(stack) /\ stack'[k] = stack[k]
         /\ \A x : Count(stack', x) = IF Top = x THEN Count(stack, x) - 1 ELSE Count(stack, x)
<1>1. stack \in Seq(Registrations)
  BY DEF IInv, TypeOK
<1>2. /\ stack' \in Seq(Registrations) /\ Len(stack) \in DOMAIN stack
      /\ DOMAIN stack' = DOMAIN stack \ {Len(stack)}
      /\ \A k \in DOMAIN stack' : k < Len(stack) /\ stack'[k] = stack[k]
  BY <1>1, PoppedOff DEF Popped
<1>3. Top \in Registrations /\ Top.list \in Lists
  BY <1>2, StackTyped DEF IInv, Top
<1>4. \A x : Count(stack', x) = IF Top = x THEN Count(stack, x) - 1 ELSE Count(stack, x)
  BY <1>1, CountPopped DEF Top, Popped
<1>5. QED
  BY <1>2, <1>3, <1>4

\* raw_callback copies a list: all its callbacks wait to be called, once more than it
\* is still registered for.
LEMMA RawCallbackIInv == IInv /\ RawCallback => IInv'
<1> SUFFICES ASSUME IInv, RawCallback PROVE IInv'
  OBVIOUS
<1> DEFINE n == Len(stack)
<1>0. PICK t \in Lists : t = Top.list
  BY TakenOff DEF RawCallback
<1>1. /\ phase = "dying" /\ current = <<>> /\ stack # <<>> /\ Top.call = "raw"
      /\ current' = list[t] /\ stack' = Popped
      /\ UNCHANGED <<held, list, heap, raw, phase, log, set, wraps, empties>>
  BY <1>0 DEF RawCallback
<1>2. /\ stack' \in Seq(Registrations) /\ n \in DOMAIN stack
      /\ DOMAIN stack' = DOMAIN stack \ {n}
      /\ \A k \in DOMAIN stack' : stack'[k] = stack[k]
      /\ stack[n].call = "raw" /\ stack[n].list = t
      /\ \A x : Count(stack', x) = IF Top = x THEN Count(stack, x) - 1 ELSE Count(stack, x)
  BY <1>0, <1>1, TakenOff DEF Top
<1>3. \A l \in Lists : Top = RawEntry(l) <=> l = t
  BY <1>0, <1>1, TakenOff DEF RawEntry, Registrations
<1> HIDE DEF n
<1>4. TypeOK' /\ Lifetimes'
  BY <1>1, <1>2 DEF IInv, TypeOK, Lifetimes
<1>5. RegistrationsValid' /\ RegisteredFull'
  BY <1>1, <1>2 DEF IInv, RegistrationsValid, RegisteredFull
<1>6. Reclaimable'
  BY <1>1, <1>2 DEF IInv, Reclaimable
<1>7. OnePlace' /\ LoggedListed' /\ StackPerList'
  BY <1>1 DEF IInv, OnePlace, LoggedListed, StackPerList
<1>8. Backwards'
  <2>1. list[t] \in Seq(Callbacks)
    BY DEF IInv, TypeOK
  <2>2. Len(list[t]) \in Nat /\ DOMAIN list[t] = 1 .. Len(list[t])
    BY <2>1, Typed
  <2>3. QED
    BY <1>1, <2>2 DEF Backwards
<1>9. \A c : ~Waiting(c)
  BY <1>1 DEF Waiting
<1>10. \A l \in Lists : \A i \in DOMAIN list[l] : Waiting(list[l][i])' <=> l = t
  BY <1>1 DEF IInv, OnePlace, Waiting
<1>11. Kept'
  BY <1>1, <1>2, <1>9, <1>10 DEF IInv, Kept, Logged
<1>12. Bounded'
  <2> SUFFICES ASSUME NEW l \in Lists
               PROVE  /\ Count(stack', RawEntry(l)) <= 1 + empties
                      /\ \A i \in DOMAIN list[l] :
                           Count(log, list[l][i]) + Count(stack', RawEntry(l))
                             + (IF l = t THEN 1 ELSE 0) <= 1 + empties
    BY <1>1, <1>10 DEF Bounded
  <2>1. Count(stack', RawEntry(l)) =
          IF l = t THEN Count(stack, RawEntry(l)) - 1 ELSE Count(stack, RawEntry(l))
    BY <1>2, <1>3
  <2>2. /\ Count(stack, RawEntry(l)) \in Nat /\ empties \in Nat
        /\ \A c : Count(log, c) \in Nat
    BY CountNat DEF IInv, TypeOK
  <2>3. /\ Count(stack, RawEntry(l)) <= 1 + empties
        /\ \A i \in DOMAIN list[l] :
             Count(log, list[l][i]) + Count(stack, RawEntry(l)) + 0 <= 1 + empties
    BY <1>9 DEF IInv, Bounded
  <2>4. QED
    BY <2>1, <2>2, <2>3
<1>13. QED
  BY <1>4, <1>5, <1>6, <1>7, <1>8, <1>11, <1>12 DEF IInv

\* The last callback that waits is called; those after it in its list have been.
LEMMA CallNextIInv == IInv /\ CallNext => IInv'
<1> SUFFICES ASSUME IInv, CallNext PROVE IInv'
  OBVIOUS
<1>1. PICK l \in Lists :
        /\ Len(current) <= Len(list[l])
        /\ \A i \in DOMAIN current : current[i] = list[l][i]
        /\ \A i \in DOMAIN list[l] : Len(current) < i => Logged(list[l][i])
  BY DEF CallNext, IInv, Backwards
<1>2. PICK m \in Nat : m = Len(current)
  BY Typed DEF IInv, TypeOK
<1>3. PICK x : x = current[m]
  OBVIOUS
<1>4. /\ current # <<>> /\ phase = "dying"
      /\ log' = Append(log, x) /\ current' = SubSeq(current, 1, m - 1)
      /\ UNCHANGED <<held, list, heap, raw, stack, phase, set, wraps, empties>>
  BY <1>2, <1>3 DEF CallNext, Calls, IInv, TypeOK, Lifetimes
<1>5. /\ current' \in Seq(Callbacks) /\ Len(current') = m - 1
      /\ m \in DOMAIN current /\ DOMAIN current' = DOMAIN current \ {m}
      /\ \A i \in DOMAIN current' : i < m /\ current'[i] = current[i]
  BY <1>2, <1>4, PoppedOff DEF IInv, TypeOK
<1>6. /\ list[l] \in Seq(Callbacks) /\ DOMAIN list[l] = 1 .. Len(list[l])
      /\ DOMAIN current = 1 .. m /\ m \in DOMAIN list[l] /\ x = list[l][m]
      /\ x \in Callbacks
  <2>1. list[l] \in Seq(Callbacks) /\ current \in Seq(Callbacks)
    BY DEF IInv, TypeOK
  <2>2. /\ DOMAIN list[l] = 1 .. Len(list[l]) /\ Len(list[l]) \in Nat
        /\ DOMAIN current = 1 .. m /\ x \in Callbacks
    BY <1>2, <1>3, <1>5, <2>1, Typed
  <2>3. QED
    BY <1>1, <1>2, <1>3, <1>5, <2>1, <2>2
<1> DEFINE n == Len(log')
<1>7. /\ log' \in Seq(Callbacks) /\ log'[n] = x /\ n \in Nat
      /\ DOMAIN log' = DOMAIN log \cup {n} /\ n \notin DOMAIN log
      /\ \A i \in DOMAIN log : i < n /\ log'[i] = log[i]
  BY <1>4, <1>6, Appended DEF IInv, TypeOK
<1> HIDE DEF n
<1>8. TypeOK' /\ Lifetimes'
  BY <1>4, <1>5, <1>7 DEF IInv, TypeOK, Lifetimes
<1>9. RegistrationsValid' /\ Reclaimable' /\ RegisteredFull' /\ OnePlace'
  BY <1>4 DEF IInv, RegistrationsValid, Reclaimable, RegisteredFull, OnePlace
<1>10. /\ \A c : Logged(c)' <=> Logged(c) \/ c = x
       /\ \A c : Waiting(c) <=> Waiting(c)' \/ c = x
       /\ ~Waiting(x)'
  <2>1. \A c : Logged(c)' <=> Logged(c) \/ c = x
    BY <1>7 DEF Logged
  <2>2. \A c : Waiting(c) <=> Waiting(c)' \/ c = x
    BY <1>3, <1>5 DEF Waiting
  <2>3. ~Waiting(x)'
    <3> SUFFICES ASSUME NEW i \in DOMAIN current', current'[i] = x PROVE FALSE
      BY DEF Waiting
    <3>1. i \in DOMAIN list[l] /\ list[l][i] = list[l][m] /\ i # m
      BY <1>1, <1>2, <1>5, <1>6
    <3>2. QED
      BY <1>6, <3>1 DEF IInv, OnePlace
  <2>4. QED
    BY <2>1, <2>2, <2>3
<1>11. Backwards'
  <2>1. \A i \in DOMAIN list[l] : m - 1 < i => Logged(list[l][i])'
    BY <1>1, <1>2, <1>4, <1>6, <1>10
  <2>2. Len(current') <= Len(list[l]) /\ \A i \in DOMAIN current' : current'[i] = list[l][i]
    BY <1>1, <1>2, <1>5, <1>6
  <2>3. QED
    BY <1>4, <1>5, <2>1, <2>2 DEF Backwards
<1>12. LoggedListed'
  <2>1. \A k \in DOMAIN log : \E o \in Lists : \E i \in DOMAIN list[o] : log'[k] = list[o][i]
    BY <1>7 DEF IInv, LoggedListed
  <2>2. \E o \in Lists : \E i \in DOMAIN list[o] : log'[n] = list[o][i]
    BY <1>6, <1>7
  <2>3. QED
    BY <1>4, <1>7, <2>1, <2>2 DEF LoggedListed
<1>13. Kept'
  BY <1>4, <1>10 DEF IInv, Kept
<1>14. Bounded'
  <2> SUFFICES ASSUME NEW o \in Lists, NEW i \in DOMAIN list[o]
               PROVE  Count(log', list[o][i]) + Count(stack, RawEntry(o))
                        + (IF Waiting(list[o][i])' THEN 1 ELSE 0) <= 1 + empties
    BY <1>4 DEF IInv, Bounded
  <2> DEFINE c == list[o][i]
  <2>1. Count(log', c) = IF x = c THEN Count(log, c) + 1 ELSE Count(log, c)
    BY <1>4, <1>6, CountAppended DEF IInv, TypeOK
  <2>2. /\ Count(stack, RawEntry(o)) \in Nat /\ Count(log, c) \in Nat /\ empties \in Nat
    BY CountNat DEF IInv, TypeOK
  <2>3. Count(log, c) + Count(stack, RawEntry(o)) + (IF Waiting(c) THEN 1 ELSE 0)
          <= 1 + empties
    BY DEF IInv, Bounded
  <2>4. IF x = c THEN Waiting(c) /\ ~Waiting(list[o][i])'
        ELSE Waiting(c) <=> Waiting(list[o][i])'
    BY <1>4, <1>10
  <2> HIDE DEF c
  <2>5. QED
    BY <2>1, <2>2, <2>3, <2>4 DEF c
<1>15. StackPerList'
  <2> SUFFICES ASSUME NEW o \in Lists, NEW i \in DOMAIN list[o], NEW j \in DOMAIN list[o],
                      i < j, NEW p \in DOMAIN log', log'[p] = list[o][i]
               PROVE  \E q \in DOMAIN log' :
                        /\ log'[q] = list[o][j]
                        /\ \A r \in DOMAIN log' : log'[r] = list[o][i] => q < r
    BY <1>4 DEF StackPerList
  <2>1. CASE Logged(list[o][i])
    <3>1. PICK q \in DOMAIN log : /\ log[q] = list[o][j]
                                 /\ \A r \in DOMAIN log : log[r] = list[o][i] => q < r
      BY <2>1 DEF IInv, StackPerList, Logged
    <3>2. QED
      BY <1>7, <3>1
  <2>2. CASE ~Logged(list[o][i])
    <3>1. list[o][i] = x /\ \A r \in DOMAIN log' : log'[r] = list[o][i] => r = n
      BY <1>7, <2>2 DEF Logged
    <3>2. o = l /\ i = m
      BY <1>6, <3>1 DEF IInv, OnePlace
    <3>3. PICK q \in DOMAIN log : log[q] = list[o][j]
      BY <1>1, <1>2, <3>2 DEF Logged
    <3>4. QED
      BY <1>7, <3>1, <3>3
  <2>3. QED
    BY <2>1, <2>2
<1>16. QED
  BY <1>8, <1>9, <1>11, <1>12, <1>13, <1>14, <1>15 DEF IInv

\* The deletion of a list is the last that was to be called with its address.
LEMMA LiberateIInv == IInv /\ Liberate => IInv'
<1> SUFFICES ASSUME IInv, Liberate PROVE IInv'
  OBVIOUS
<1> DEFINE n == Len(stack)
<1>0. PICK t \in Lists : t = Top.list
  BY TakenOff DEF Liberate
<1>1. /\ phase = "dying" /\ stack # <<>> /\ Top.call = "liberate"
      /\ heap' = [heap EXCEPT ![t] = "deleted"] /\ stack' = Popped
      /\ UNCHANGED <<held, list, raw, phase, current, log, set, wraps, empties>>
  BY <1>0 DEF Liberate
<1>2. /\ stack' \in Seq(Registrations) /\ n \in DOMAIN stack
      /\ DOMAIN stack' = DOMAIN stack \ {n}
      /\ \A k \in DOMAIN stack' : k < n /\ stack'[k] = stack[k]
      /\ stack[n].call = "liberate" /\ stack[n].list = t
      /\ \A x : Count(stack', x) = IF Top = x THEN Count(stack, x) - 1 ELSE Count(stack, x)
  BY <1>0, <1>1, TakenOff DEF Top
<1>3. \A l \in Lists : Count(stack', RawEntry(l)) = Count(stack, RawEntry(l))
  <2>1. \A l \in Lists : Top # RawEntry(l)
    BY <1>1 DEF RawEntry
  <2>2. QED
    BY <1>2, <2>1
<1>4. \A k \in DOMAIN stack : k \in Nat /\ stack[k].list \in Lists
  BY StackTyped DEF IInv
<1> HIDE DEF n
<1>5. \A l \in Lists : heap'[l] = IF l = t THEN "deleted" ELSE heap[l]
  BY <1>1 DEF IInv, TypeOK
<1>6. TypeOK' /\ Lifetimes'
  BY <1>1, <1>2 DEF IInv, TypeOK, Lifetimes
<1>7. \A k \in DOMAIN stack' : stack[k].list # t
  BY <1>2, <1>4 DEF IInv, RegistrationsValid
<1>8. RegistrationsValid'
  BY <1>2, <1>4, <1>5, <1>7 DEF IInv, RegistrationsValid
<1>9. Reclaimable'
  BY <1>2, <1>5 DEF IInv, Reclaimable
<1>10. RegisteredFull' /\ OnePlace' /\ Backwards' /\ LoggedListed' /\ StackPerList'
  BY <1>1, <1>2 DEF IInv, RegisteredFull, OnePlace, Backwards, LoggedListed, StackPerList,
     Logged
<1>11. Kept'
  BY <1>1, <1>2 DEF IInv, Kept, Logged, Waiting
<1>12. Bounded'
  BY <1>1, <1>3 DEF IInv, Bounded, Waiting
<1>13. QED
  BY <1>6, <1>8, <1>9, <1>10, <1>11, <1>12 DEF IInv

LEMMA RestIInv ==
  ASSUME IInv, Gone \/ UNCHANGED vars
  PROVE  IInv'
<1>1. /\ UNCHANGED <<held, list, heap, raw, stack, current, log, set, wraps, empties>>
      /\ \/ phase' = phase
         \/ /\ phase = "dying" /\ phase' = "gone"
            /\ current = <<>> /\ stack = <<>>
  BY DEF Gone, vars
<1>2. TypeOK' /\ Lifetimes'
  BY <1>1 DEF IInv, TypeOK, Lifetimes
<1>3. /\ RegistrationsValid' /\ Reclaimable' /\ RegisteredFull' /\ OnePlace'
      /\ Backwards' /\ LoggedListed' /\ StackPerList' /\ Kept' /\ Bounded'
  BY <1>1 DEF IInv, RegistrationsValid, Reclaimable, RegisteredFull, OnePlace, Backwards,
     LoggedListed, StackPerList, Kept, Bounded, Logged, Waiting
<1>4. QED
  BY <1>2, <1>3 DEF IInv

LEMMA NextIInv == IInv /\ [Next]_vars => IInv'
<1> SUFFICES ASSUME IInv, [Next]_vars PROVE IInv'
  OBVIOUS
<1>1. CASE Runtime
  BY <1>1, RawCallbackIInv, CallNextIInv, LiberateIInv, RestIInv DEF Runtime
<1>2. CASE UNCHANGED vars
  BY <1>2, RestIInv
<1>3. QED
  BY <1>1, <1>2, ConstructIInv, AddDestructorCallbackIInv, AddEmptyCallbackIInv,
     WrappersIInv DEF Next

-----------------------------------------------------------------------------
(* The theorems. *)

\* IInv is an invariant, however often the cl_mem is wrapped and whichever
\* registrations fail.
THEOREM Invariance == Spec => []IInv
<1>1. QED
  BY InitIInv, NextIInv, PTL DEF Spec

\* No use after free and no double free: OpenCL holds addresses of lists that exist,
\* and calls for the deletion of each once, after all else.
THEOREM AddressesValid == Spec => []RegistrationsValid
<1>1. IInv => RegistrationsValid
  BY DEF IInv
<1>2. QED
  BY <1>1, Invariance, PTL

\* No list outlives the cl_mem.
THEOREM ListsDeleted == Spec => []ListsReclaimed
<1>1. IInv => ListsReclaimed
  BY DEF IInv, Lifetimes, Reclaimable, ListsReclaimed
<1>2. QED
  BY <1>1, Invariance, PTL

\* What set_destructor_callback accepted runs once: all of it, if raw_callback was
\* registered; none of it twice but for empty callbacks.
THEOREM RunOnce == Spec => []RunAsSet
<1>1. IInv => RunAsSet
  <2> SUFFICES ASSUME IInv PROVE RunAsSet
    OBVIOUS
  <2>1. \A c : Runs(c) = Count(log, c) /\ Count(log, c) \in Nat
    <3>1. \A c : Runs(c) = Count(log, c)
      BY DEF Runs, Count
    <3>2. QED
      BY <3>1, CountNat DEF IInv, TypeOK
  <2>2. \A c : Count(log, c) = 0 <=> ~Logged(c)
    BY CountNat DEF IInv, TypeOK, Logged
  <2>3. ASSUME NEW c \in Callbacks PROVE Count(log, c) <= 1 + empties
    <3>1. CASE ~Logged(c)
      BY <2>2, <3>1 DEF IInv, TypeOK
    <3>2. ASSUME NEW l \in Lists, NEW i \in DOMAIN list[l], c = list[l][i]
          PROVE  Count(log, c) <= 1 + empties
      <4>1. Count(log, c) + Count(stack, RawEntry(l)) + (IF Waiting(c) THEN 1 ELSE 0)
              <= 1 + empties
        BY <3>2 DEF IInv, Bounded
      <4>2. /\ Count(stack, RawEntry(l)) \in Nat /\ Count(log, c) \in Nat
            /\ empties \in Nat
        BY CountNat DEF IInv, TypeOK
      <4>3. QED
        BY <4>1, <4>2
    <3>3. QED
      BY <3>1, <3>2 DEF Logged, IInv, LoggedListed
  <2>4. ASSUME phase = "gone", NEW l \in Lists, list[l] # <<>>,
               set[list[l][1]] = "set", NEW i \in DOMAIN list[l]
        PROVE  Runs(list[l][i]) > 0
    <3>1. Logged(list[l][i])
      BY <2>4 DEF IInv, Lifetimes, Kept, Waiting
    <3>2. QED
      BY <2>1, <2>2, <3>1
  <2>5. QED
    BY <2>1, <2>3, <2>4 DEF RunAsSet
<1>2. QED
  BY <1>1, Invariance, PTL

\* Callbacks set through one list run last set, first called.
THEOREM ReverseOrder == Spec => []StackPerList
<1>1. IInv => StackPerList
  BY DEF IInv
<1>2. QED
  BY <1>1, Invariance, PTL
=============================================================================
