---------------------------- MODULE EncodingsProofs ----------------------------
(***************************************************************************)
(* What is written in another form says the same: the numbers that stand   *)
(* for the properties of a list, the OpenCL form of such a list, a list of *)
(* names in one string, the rectangle of three dimensions sent to OpenCL   *)
(* in the place of one of two, and the numbers of a version string.        *)
(*                                                                         *)
(* Lists and texts are walked by functions that call themselves            *)
(* for what follows.  Induction is that a set of numbers that is not empty *)
(* has a least element, from which also follows that such functions exist. *)
(***************************************************************************)
EXTENDS PropertyLists, Versions, SequenceTheorems, FiniteSetTheorems,
        WellFoundedInduction, TLAPS

-----------------------------------------------------------------------------
(* Induction and recursion, on sets of numbers. *)

\* A set of numbers that is not empty has a least element.
LEMMA Least ==
  ASSUME NEW T \in SUBSET Nat, T # {}
  PROVE  \E n \in T : \A m \in T : n <= m
<1>1. IsWellFoundedOn(OpToRel(<, Nat), Nat)
  BY NatLessThanWellFounded
<1> DEFINE R == OpToRel(<, Nat)
<1>2. \E n \in T : \A m \in T : ~ (<<m, n>> \in R)
  <2> HIDE DEF R
  <2>1. IsWellFoundedOn(R, Nat) 
    BY <1>1 DEF R
  <2> QED
    BY <2>1, WFMin
<1>3. PICK n \in T : \A m \in T : ~ (<<m, n>> \in R)
  BY <1>2
<1>4. \A m \in T : ~ (m < n)
  BY <1>3 DEF OpToRel
<1> QED
  BY <1>4

\* From above downwards.
LEMMA Downwards ==
  ASSUME NEW top \in Nat, NEW T \in SUBSET Nat, top \in T,
         \A n \in Nat : n < top /\ n + 1 \in T => n \in T
  PROVE  \A n \in 0 .. top : n \in T
<1> SUFFICES ASSUME NEW k \in 0 .. top, k \notin T
             PROVE  FALSE
  OBVIOUS
<1> DEFINE S == {n \in T : k <= n}
<1>1. S \in SUBSET Nat /\ S # {}
  <2>1. top \in S
    OBVIOUS
  <2> QED
    BY <2>1
<1>2. PICK n \in S : \A m \in S : n <= m
  BY <1>1, Least
<1>3. n \in Nat /\ n \in T /\ k <= n /\ n # k
  BY <1>2
<1>4. n - 1 \in Nat /\ k <= n - 1
  BY <1>3
<1>5. n <= top
  BY <1>2
<1>6. n - 1 \in T
  BY <1>3, <1>4, <1>5
<1> QED
  BY <1>2, <1>3, <1>4, <1>6

\* One step of a definition that calls itself: at an end it has a value, elsewhere it is
\* what it is further on, here with something before it.
Unfolded(f, i, Ends, Base, Skips, Begin, Onward) ==
  IF i \in Ends THEN Base[i]
  ELSE IF i \in Skips THEN f[Onward[i]] ELSE Begin[i] \o f[Onward[i]]

Recurses(f, Ends, Base, Skips, Begin, Onward) ==
  f = [i \in Nat |-> Unfolded(f, i, Ends, Base, Skips, Begin, Onward)]

\* A function that calls itself for greater numbers only, up to a bound, exists.
LEMMA Recursion ==
  ASSUME NEW top \in Nat, NEW Ends, NEW Base, NEW Skips, NEW Begin, NEW Onward,
         \A i \in Nat : i \notin Ends => i < top /\ Onward[i] \in Nat /\ i < Onward[i]
  PROVE  \E f : Recurses(f, Ends, Base, Skips, Begin, Onward)
<1> DEFINE Body(f, i) == Unfolded(f, i, Ends, Base, Skips, Begin, Onward)
           Solves(f, n) == \A i \in Nat : n <= i => f[i] = Body(f, i)
           T == {n \in Nat : \E f : f = [i \in Nat |-> f[i]] /\ Solves(f, n)}
<1>1. top \in T
  <2> DEFINE f == [i \in Nat |-> Base[i]]
  <2>1. Solves(f, top)
    BY DEF Unfolded
  <2>2. f = [i \in Nat |-> f[i]]
    OBVIOUS
  <2> HIDE DEF f
  <2> QED
    BY <2>1, <2>2
<1>2. ASSUME NEW n \in Nat, n < top, n + 1 \in T
      PROVE  n \in T
  <2>1. PICK f : f = [i \in Nat |-> f[i]] /\ Solves(f, n + 1)
    BY <1>2
  <2> DEFINE g == [i \in Nat |-> IF i = n THEN Body(f, n) ELSE f[i]]
  <2>2. g = [i \in Nat |-> g[i]]
    OBVIOUS
  <2>3. ASSUME NEW i \in Nat, n <= i
        PROVE  g[i] = Body(g, i)
    <3>1. i \notin Ends => g[Onward[i]] = f[Onward[i]]
      BY <2>3
    <3>2. Body(g, i) = Body(f, i)
      <4> HIDE DEF g
      <4> QED
        BY <3>1 DEF Unfolded
    <3>3. CASE i = n
      <4> HIDE DEF Body
      <4> QED
        BY <3>2, <3>3
    <3>4. CASE i # n
      <4>1. g[i] = f[i] /\ n + 1 <= i
        BY <2>3, <3>4
      <4>2. f[i] = Body(f, i)
        BY <2>1, <4>1
      <4> HIDE DEF g, Body
      <4> QED
        BY <3>2, <4>1, <4>2
    <3> QED
      BY <3>3, <3>4
  <2> HIDE DEF g, Body
  <2> QED
    BY <2>2, <2>3
<1> HIDE DEF T
<1>3. T \in SUBSET Nat
  BY DEF T
<1>4. 0 \in T
  BY <1>1, <1>2, <1>3, Downwards
<1>5. PICK f : f = [i \in Nat |-> f[i]] /\ Solves(f, 0)
  BY <1>4 DEF T
<1>6. f = [i \in Nat |-> Body(f, i)]
  BY <1>5
<1> QED
  BY <1>6 DEF Recurses
-----------------------------------------------------------------------------
(* The recursive definitions. *)

\* The iterator moves past the name and the tag, and further (operator++).
LEMMA Advances ==
  ASSUME NEW s \in Seq(Nat), NEW i \in Nat
  PROVE  Advance(s, i) \in Nat /\ i < Advance(s, i) /\ i + 2 < Advance(s, i)
<1>1. At(s, i + 2) \in Nat
  BY LenProperties, ElementOfSeq DEF At
<1> QED
  BY <1>1 DEF Advance

\* Each recursive definition is a function of an index, at 1: the lemmas give the function.
LEMMA IterateFrom ==
  ASSUME NEW s \in Seq(Nat)
  PROVE  \E f : /\ f = [i \in Nat |-> IF i > Len(s) THEN <<>>
                                      ELSE <<View(s, i)>> \o f[Advance(s, i)]]
                /\ Iterate(s) = f[1]
<1> DEFINE Body(f) == [i \in Nat |-> IF i > Len(s) THEN <<>>
                                     ELSE <<View(s, i)>> \o f[Advance(s, i)]]
           Ends == {i \in Nat : i > Len(s)}
           Base == [i \in Nat |-> <<>>]
           Begin == [i \in Nat |-> <<View(s, i)>>]
           Onward == [i \in Nat |-> Advance(s, i)]
           top == Len(s) + 1
<1>1. Len(s) \in Nat /\ top \in Nat
  BY LenProperties
<1>2. ASSUME NEW i \in Nat, i \notin Ends
      PROVE  i < top /\ Onward[i] \in Nat /\ i < Onward[i]
  <2>1. Advance(s, i) \in Nat /\ i < Advance(s, i)
    BY Advances
  <2> QED
    BY <1>1, <1>2, <2>1
<1>3. PICK f : Recurses(f, Ends, Base, {}, Begin, Onward)
  <2> HIDE DEF Ends, Base, Begin, Onward, top
  <2> QED
    BY <1>1, <1>2, Recursion
<1>4. f = Body(f)
  BY <1>3 DEF Recurses, Unfolded
<1> DEFINE from[i \in Nat] ==
             IF i > Len(s) THEN <<>> ELSE <<View(s, i)>> \o from[Advance(s, i)]
<1>5. from = Body(from)
  BY <1>4
<1>6. Iterate(s) = from[1]
  BY DEF Iterate
<1> HIDE DEF from
<1> QED
  BY <1>5, <1>6

\* The loop of operator[].
LEMMA FindFrom ==
  ASSUME NEW s \in Seq(Nat), NEW name
  PROVE  \E f : /\ f = [i \in Nat |->
                          IF i > Len(s) THEN <<>>
                          ELSE IF View(s, i).name = name THEN <<View(s, i)>>
                          ELSE f[Advance(s, i)]]
                /\ Find(s, name) = f[1]
<1> DEFINE Body(f) == [i \in Nat |-> IF i > Len(s) THEN <<>>
                                     ELSE IF View(s, i).name = name THEN <<View(s, i)>>
                                     ELSE f[Advance(s, i)]]
           Ends == {i \in Nat : i > Len(s) \/ View(s, i).name = name}
           Base == [i \in Nat |-> IF i > Len(s) THEN <<>> ELSE <<View(s, i)>>]
           Onward == [i \in Nat |-> Advance(s, i)]
           top == Len(s) + 1
<1>1. Len(s) \in Nat /\ top \in Nat
  BY LenProperties
<1>2. ASSUME NEW i \in Nat, i \notin Ends
      PROVE  i < top /\ Onward[i] \in Nat /\ i < Onward[i]
  <2>1. Advance(s, i) \in Nat /\ i < Advance(s, i)
    BY Advances
  <2> QED
    BY <1>1, <1>2, <2>1
<1>3. PICK f : Recurses(f, Ends, Base, Nat, <<>>, Onward)
  <2> HIDE DEF Ends, Base, Onward, top
  <2> QED
    BY <1>1, <1>2, Recursion
<1>4. f = Body(f)
  BY <1>3 DEF Recurses, Unfolded
<1> DEFINE from[i \in Nat] ==
             IF i > Len(s) THEN <<>>
             ELSE IF View(s, i).name = name THEN <<View(s, i)>> ELSE from[Advance(s, i)]
<1>5. from = Body(from)
  BY <1>4
<1>6. Find(s, name) = from[1]
  BY DEF Find
<1> HIDE DEF from
<1> QED
  BY <1>5, <1>6

\* The loop of opencl_view().
LEMMA OpenclViewFrom ==
  ASSUME NEW s \in Seq(Nat)
  PROVE  \E f : /\ f = [i \in Nat |->
                          IF i > Len(s) THEN <<0>>
                          ELSE <<At(s, i)>> \o OpenclValue(View(s, i)) \o f[Advance(s, i)]]
                /\ OpenclView(s) = f[1]
<1> DEFINE Body(f) == [i \in Nat |->
                         IF i > Len(s) THEN <<0>>
                         ELSE <<At(s, i)>> \o OpenclValue(View(s, i)) \o f[Advance(s, i)]]
           Ends == {i \in Nat : i > Len(s)}
           Base == [i \in Nat |-> <<0>>]
           Begin == [i \in Nat |-> <<At(s, i)>> \o OpenclValue(View(s, i))]
           Onward == [i \in Nat |-> Advance(s, i)]
           top == Len(s) + 1
<1>1. Len(s) \in Nat /\ top \in Nat
  BY LenProperties
<1>2. ASSUME NEW i \in Nat, i \notin Ends
      PROVE  i < top /\ Onward[i] \in Nat /\ i < Onward[i]
  <2>1. Advance(s, i) \in Nat /\ i < Advance(s, i)
    BY Advances
  <2> QED
    BY <1>1, <1>2, <2>1
<1>3. PICK f : Recurses(f, Ends, Base, {}, Begin, Onward)
  <2> HIDE DEF Ends, Base, Begin, Onward, top
  <2> QED
    BY <1>1, <1>2, Recursion
<1>4. f = Body(f)
  BY <1>3 DEF Recurses, Unfolded
<1> DEFINE from[i \in Nat] ==
             IF i > Len(s) THEN <<0>>
             ELSE <<At(s, i)>> \o OpenclValue(View(s, i)) \o from[Advance(s, i)]
<1>5. from = Body(from)
  BY <1>4
<1>6. OpenclView(s) = from[1]
  BY DEF OpenclView
<1> HIDE DEF from
<1> QED
  BY <1>5, <1>6

\* The least zero from index i on.
LEMMA ZeroFound ==
  ASSUME NEW p \in Seq(Nat), NEW i \in 1 .. Len(p), NEW z \in i .. Len(p),
         p[z] = 0, \A j \in i .. z - 1 : p[j] # 0
  PROVE  OpenclVectorSize(p, i) = z - i
<1> DEFINE I == {j \in i .. Len(p) : p[j] = 0}
<1>1. Len(p) \in Nat /\ z \in I /\ z \in Nat /\ i \in Nat
  BY LenProperties
<1>2. \A j \in I : j \in Nat /\ z <= j
  BY <1>1
<1>3. Min(I) = z
  <2> HIDE DEF I
  <2>1. Min(I) \in I /\ \A y \in I : Min(I) <= y
    BY <1>1, <1>2 DEF Min
  <2>2. Min(I) \in Nat /\ z <= Min(I) /\ Min(I) <= z
    BY <1>1, <1>2, <2>1
  <2> QED
    BY <1>1, <2>2
<1>4. SelectInSubSeq(p, i, Len(p), LAMBDA e : e = 0) = IF I # {} THEN Min(I) ELSE 0
  BY DEF SelectInSubSeq
<1> HIDE DEF I
<1>5. OpenclVectorSize(p, i) = (IF I # {} THEN Min(I) ELSE 0) - i
  BY <1>4 DEF OpenclVectorSize
<1> QED
  BY <1>1, <1>3, <1>5

\* In a list that a zero ends, one is found before the end.
LEMMA ZeroAhead ==
  ASSUME NEW p \in Seq(Nat), NEW i \in 1 .. Len(p), p[Len(p)] = 0
  PROVE  \E z \in i .. Len(p) : p[z] = 0 /\ \A j \in i .. z - 1 : p[j] # 0
<1> DEFINE I == {j \in i .. Len(p) : p[j] = 0}
<1>1. Len(p) \in I /\ I \in SUBSET Nat
  BY LenProperties
<1>2. PICK z \in I : \A j \in I : z <= j
  BY <1>1, Least
<1>3. z \in Nat /\ \A j \in i .. z - 1 : j \notin I
  BY <1>1, <1>2
<1> QED
  BY <1>1, <1>3

\* What Parse finds at index i, when f tells what follows.
ParseAt(p, f, i) ==
  LET name == At(p, i)
      size == OpenclVectorSize(p, i + 1)
  IN  IF name = 0 THEN <<>>
      ELSE IF name \in ScalarNames THEN EncodeScalar(name, At(p, i + 1)) \o f[i + 2]
      ELSE IF name \in VectorNames THEN
        EncodeVector(name, SubSeq(p, i + 1, i + size)) \o f[i + 2 + size]
      ELSE <<0>>

\* f tells what the constructor makes of p from every index on.
Parses(p, f) == f = [i \in Nat |-> ParseAt(p, f, i)]

\* The loop of the constructor from an OpenCL list, which a zero ends.
LEMMA ParseFrom ==
  ASSUME NEW p \in Seq(Nat), p # <<>>, p[Len(p)] = 0
  PROVE  \E f : Parses(p, f) /\ Parse(p) = f[1]
<1> DEFINE name(i) == At(p, i)
           size(i) == OpenclVectorSize(p, i + 1)
           Body(f) == [i \in Nat |-> ParseAt(p, f, i)]
           Ends == {i \in Nat : name(i) = 0 \/ name(i) \notin ScalarNames \cup VectorNames}
           Base == [i \in Nat |-> IF name(i) = 0 THEN <<>> ELSE <<0>>]
           Begin == [i \in Nat |->
                       IF name(i) \in ScalarNames THEN EncodeScalar(name(i), At(p, i + 1))
                       ELSE EncodeVector(name(i), SubSeq(p, i + 1, i + size(i)))]
           Onward == [i \in Nat |-> IF name(i) \in ScalarNames THEN i + 2 ELSE i + 2 + size(i)]
           top == Len(p)
<1>1. top \in Nat /\ DOMAIN p = 1 .. top
  BY LenProperties
<1>2. ASSUME NEW i \in Nat, i \notin Ends
      PROVE  i < top /\ Onward[i] \in Nat /\ i < Onward[i]
  <2>1. name(i) # 0
    BY <1>2
  <2>2. i \in 1 .. Len(p) /\ i # Len(p)
    BY <1>1, <2>1 DEF At
  <2>3. i < top /\ i + 1 \in 1 .. Len(p)
    <3>1. top \in Nat /\ i \in 1 .. top /\ i # top
      BY <1>1, <2>2
    <3>2. i < top /\ i + 1 \in 1 .. top
      <4> HIDE DEF top, Ends
      <4> QED
        BY <3>1
    <3> QED
      BY <3>2
  <2>4. size(i) \in Nat
    <3>1. PICK z \in i + 1 .. Len(p) : p[z] = 0 /\ \A j \in i + 1 .. z - 1 : p[j] # 0
      BY <2>3, ZeroAhead
    <3>2. size(i) = z - (i + 1)
      BY <2>3, <3>1, ZeroFound
    <3> QED
      BY <1>1, <3>2
  <2> HIDE DEF name, size
  <2> QED
    BY <2>3, <2>4
<1>3. PICK f : Recurses(f, Ends, Base, {}, Begin, Onward)
  <2> HIDE DEF Ends, Base, Begin, Onward, top
  <2> QED
    BY <1>1, <1>2, Recursion
<1>4. f = Body(f)
  <2>1. ASSUME NEW i \in Nat
        PROVE  Unfolded(f, i, Ends, Base, {}, Begin, Onward) = ParseAt(p, f, i)
    <3>1. ParseAt(p, f, i) =
            IF name(i) = 0 THEN <<>>
            ELSE IF name(i) \in ScalarNames THEN EncodeScalar(name(i), At(p, i + 1)) \o f[i + 2]
            ELSE IF name(i) \in VectorNames THEN
              EncodeVector(name(i), SubSeq(p, i + 1, i + size(i))) \o f[i + 2 + size(i)]
            ELSE <<0>>
      BY DEF ParseAt
    <3> HIDE DEF name, size
    <3> QED
      BY <3>1 DEF Unfolded
  <2> HIDE DEF Ends, Base, Begin, Onward
  <2> QED
    BY <1>3, <2>1 DEF Recurses
<1> DEFINE from[i \in Nat] ==
             LET n == At(p, i)
                 k == OpenclVectorSize(p, i + 1)
             IN  CASE n = 0 -> <<>>
                   [] n \in ScalarNames -> EncodeScalar(n, At(p, i + 1)) \o from[i + 2]
                   [] n \in VectorNames ->
                        EncodeVector(n, SubSeq(p, i + 1, i + k)) \o from[i + 2 + k]
                   [] OTHER -> <<0>>
           Cases(g) ==
             [i \in Nat |->
                LET n == At(p, i)
                    k == OpenclVectorSize(p, i + 1)
                IN  CASE n = 0 -> <<>>
                      [] n \in ScalarNames -> EncodeScalar(n, At(p, i + 1)) \o g[i + 2]
                      [] n \in VectorNames ->
                           EncodeVector(n, SubSeq(p, i + 1, i + k)) \o g[i + 2 + k]
                      [] OTHER -> <<0>>]
<1>5. ASSUME NEW g
      PROVE  Cases(g) = Body(g)
  BY PropertyListsAssumption DEF ParseAt
<1>6. f = Cases(f)
  BY <1>4, <1>5
<1>7. from = Cases(from)
  BY <1>6
<1>8. from = Body(from)
  <2> HIDE DEF Cases, Body, from
  <2> QED
    BY <1>5, <1>7
<1>9. Parse(p) = from[1]
  BY DEF Parse
<1> HIDE DEF from
<1> QED
  BY <1>8, <1>9 DEF Parses
-----------------------------------------------------------------------------
(* What a vector of numbers stands for. *)

\* What a list may hold: a name is not zero, and a scalar is one number.
Properties ==
  {p \in [name : Nat \ {0}, tag : {Scalar, Vector}, value : Seq(Nat)] :
     p.tag = Scalar => Len(p.value) = 1}

\* s encodes the properties l, which lie at pos.
Encodes(s, l, pos) ==
  /\ pos \in [1 .. Len(l) + 1 -> Nat \ {0}]
  /\ pos[1] = 1 /\ pos[Len(l) + 1] = Len(s) + 1
  /\ \A k \in 1 .. Len(l) :
       /\ View(s, pos[k]) = l[k]
       /\ Advance(s, pos[k]) = pos[k + 1] /\ pos[k + 1] <= Len(s) + 1

\* Appending changes none of the numbers that were there.
LEMMA AtKept ==
  ASSUME NEW s \in Seq(Nat), NEW e \in Seq(Nat), NEW i \in 1 .. Len(s)
  PROVE  At(s \o e, i) = At(s, i) /\ At(s, i) = s[i]
<1>1. s \o e \in Seq(Nat) /\ Len(s \o e) = Len(s) + Len(e) /\ (s \o e)[i] = s[i]
  BY ConcatProperties, LenProperties
<1>2. Len(s) \in Nat /\ Len(e) \in Nat /\ DOMAIN s = 1 .. Len(s)
      /\ DOMAIN (s \o e) = 1 .. Len(s \o e)
  BY <1>1, LenProperties
<1>3. i \in DOMAIN s /\ i \in DOMAIN (s \o e)
  BY <1>1, <1>2
<1> QED
  BY <1>1, <1>3 DEF At

\* Nor any property that was complete, nor where it ends.
LEMMA ViewKept ==
  ASSUME NEW s \in Seq(Nat), NEW e \in Seq(Nat), NEW i \in Nat \ {0},
         Advance(s, i) <= Len(s) + 1
  PROVE  View(s \o e, i) = View(s, i) /\ Advance(s \o e, i) = Advance(s, i)
<1> DEFINE t == s \o e
<1>1. Len(s) \in Nat /\ Advance(s, i) \in Nat /\ i + 2 < Advance(s, i)
  BY LenProperties, Advances
<1>2. i \in 1 .. Len(s) /\ i + 1 \in 1 .. Len(s) /\ i + 2 \in 1 .. Len(s)
  BY <1>1
<1>3. At(t, i) = At(s, i) /\ At(t, i + 1) = At(s, i + 1) /\ At(t, i + 2) = At(s, i + 2)
  BY <1>2, AtKept
<1>4. At(s, i + 2) \in Nat
  BY LenProperties, ElementOfSeq DEF At
<1>5. At(s, i + 1) # Scalar => \A j \in 1 .. At(s, i + 2) : At(t, i + 2 + j) = At(s, i + 2 + j)
  <2> SUFFICES ASSUME At(s, i + 1) # Scalar, NEW j \in 1 .. At(s, i + 2)
               PROVE  At(t, i + 2 + j) = At(s, i + 2 + j)
    OBVIOUS
  <2>1. Advance(s, i) = i + 3 + At(s, i + 2)
    BY <1>4 DEF Advance
  <2>2. i + 2 + j \in 1 .. Len(s)
    BY <1>1, <1>4, <2>1
  <2> QED
    BY <2>2, AtKept
<1> HIDE DEF t
<1>6. Advance(t, i) = Advance(s, i)
  BY <1>3 DEF Advance
<1>7. View(t, i) = View(s, i)
  <2>1. At(s, i + 1) # Scalar =>
          [j \in 1 .. At(t, i + 2) |-> At(t, i + 2 + j)]
            = [j \in 1 .. At(s, i + 2) |-> At(s, i + 2 + j)]
    BY <1>3, <1>5
  <2> QED
    BY <1>3, <2>1 DEF View
<1> QED
  BY <1>6, <1>7 DEF t

\* Appending a property.
LEMMA Extended ==
  ASSUME NEW s \in Seq(Nat), NEW l \in Seq(Properties), NEW pos, Encodes(s, l, pos),
         NEW e \in Seq(Nat), NEW p \in Properties,
         View(s \o e, Len(s) + 1) = p,
         Advance(s \o e, Len(s) + 1) = Len(s) + Len(e) + 1
  PROVE  \E new : Encodes(s \o e, Append(l, p), new)
<1> DEFINE n == Len(l)
           t == s \o e
           m == Append(l, p)
           new == [k \in 1 .. n + 2 |-> IF k = n + 2 THEN Len(s) + Len(e) + 1 ELSE pos[k]]
<1>1. /\ n \in Nat /\ Len(s) \in Nat /\ Len(e) \in Nat
      /\ t \in Seq(Nat) /\ Len(t) = Len(s) + Len(e)
      /\ Len(m) = n + 1 /\ m[n + 1] = p /\ \A k \in 1 .. n : m[k] = l[k]
  BY LenProperties, ConcatProperties
<1>2. /\ pos \in [1 .. n + 1 -> Nat \ {0}] /\ pos[1] = 1 /\ pos[n + 1] = Len(s) + 1
      /\ \A k \in 1 .. n : /\ View(s, pos[k]) = l[k] /\ Advance(s, pos[k]) = pos[k + 1]
                           /\ pos[k + 1] <= Len(s) + 1
  BY DEF Encodes
<1>3. \A k \in 1 .. n : View(t, pos[k]) = l[k] /\ Advance(t, pos[k]) = pos[k + 1]
  <2> TAKE k \in 1 .. n
  <2> HIDE DEF n, t, m, new
  <2>0. k \in 1 .. n + 1
    BY <1>1
  <2>1. pos[k] \in Nat \ {0}
    BY <1>2, <2>0
  <2>2. Advance(s, pos[k]) <= Len(s) + 1
    BY <1>2
  <2> QED
    BY <1>2, <2>1, <2>2, ViewKept DEF t
<1>4. View(t, Len(s) + 1) = p /\ Advance(t, Len(s) + 1) = Len(s) + Len(e) + 1
  OBVIOUS
<1> HIDE DEF n, t, m
<1>5. new \in [1 .. n + 2 -> Nat \ {0}] /\ new[1] = 1 /\ new[n + 2] = Len(t) + 1
  BY <1>1, <1>2
<1>6. ASSUME NEW k \in 1 .. n + 1
      PROVE  /\ View(t, new[k]) = m[k] /\ Advance(t, new[k]) = new[k + 1]
             /\ new[k + 1] <= Len(t) + 1
  <2>1. CASE k = n + 1
    BY <1>1, <1>2, <1>4, <2>1
  <2>2. CASE k \in 1 .. n
    <3>1. new[k] = pos[k] /\ new[k + 1] = pos[k + 1] /\ pos[k + 1] \in Nat
      BY <1>1, <1>2, <2>2
    <3> HIDE DEF new
    <3> QED
      BY <1>1, <1>2, <1>3, <2>2, <3>1
  <2> QED
    BY <1>1, <2>1, <2>2
<1> HIDE DEF new
<1>7. Encodes(t, m, new)
  BY <1>1, <1>5, <1>6 DEF Encodes
<1> QED
  BY <1>7 DEF t, m

\* What was appended lies behind what was there.
LEMMA AtNew ==
  ASSUME NEW s \in Seq(Nat), NEW e \in Seq(Nat), NEW j \in 1 .. Len(e)
  PROVE  At(s \o e, Len(s) + j) = e[j]
<1> DEFINE t == s \o e
           n == Len(s) + j
<1>1. Len(s) \in Nat /\ Len(e) \in Nat /\ t \in Seq(Nat) /\ Len(t) = Len(s) + Len(e)
  BY LenProperties, ConcatProperties
<1>2. n \in 1 .. Len(s) + Len(e) /\ n > Len(s) /\ n - Len(s) = j
  BY <1>1
<1>3. t[n] = e[n - Len(s)]
  <2> HIDE DEF n
  <2>1. t[n] = IF n <= Len(s) THEN s[n] ELSE e[n - Len(s)]
    BY <1>2, ConcatProperties
  <2> QED
    BY <1>1, <1>2, <2>1
<1>4. n \in DOMAIN t
  <2> HIDE DEF n, t
  <2> QED
    BY <1>1, <1>2, LenProperties
<1>5. At(t, n) = t[n]
  <2> HIDE DEF n, t
  <2> QED
    BY <1>4 DEF At
<1> QED
  BY <1>2, <1>3, <1>5

\* append() of a scalar: its property lies behind the others and ends with the vector.
LEMMA ScalarAppended ==
  ASSUME NEW s \in Seq(Nat), NEW name \in Nat, NEW v \in Nat
  PROVE  LET e == EncodeScalar(name, v)
         IN  /\ e \in Seq(Nat) /\ Len(e) = 3
             /\ View(s \o e, Len(s) + 1) = Property(name, Scalar, <<v>>)
             /\ Advance(s \o e, Len(s) + 1) = Len(s) + Len(e) + 1
<1> DEFINE e == EncodeScalar(name, v)
           i == Len(s) + 1
           t == s \o e
<1>1. e \in Seq(Nat) /\ Len(e) = 3 /\ e[1] = name /\ e[2] = Scalar /\ e[3] = v
  BY DEF EncodeScalar, Scalar
<1>2. Len(s) \in Nat
  BY LenProperties
<1> HIDE DEF e
<1>3. At(t, Len(s) + 1) = e[1] /\ At(t, Len(s) + 2) = e[2] /\ At(t, Len(s) + 3) = e[3]
  <2>1. 1 \in 1 .. Len(e) /\ 2 \in 1 .. Len(e) /\ 3 \in 1 .. Len(e)
    BY <1>1
  <2> QED
    BY <1>1, <2>1, AtNew
<1> HIDE DEF t
<1>4. i + 1 = Len(s) + 2 /\ i + 2 = Len(s) + 3
  BY <1>2
<1>5. At(t, i) = name /\ At(t, i + 1) = Scalar /\ At(t, i + 2) = v
  BY <1>1, <1>3, <1>4
<1>6. View(t, i) = Property(name, Scalar, <<v>>)
  BY <1>5 DEF View
<1>7. Advance(t, i) = i + 3
  BY <1>2, <1>5 DEF Advance
<1>8. Advance(t, i) = Len(s) + Len(e) + 1
  BY <1>1, <1>2, <1>7
<1> QED
  BY <1>1, <1>6, <1>8 DEF e, t

\* append() of a vector does the same, whatever numbers it holds.
LEMMA VectorAppended ==
  ASSUME NEW s \in Seq(Nat), NEW name \in Nat, NEW vs \in Seq(Nat)
  PROVE  LET e == EncodeVector(name, vs)
         IN  /\ e \in Seq(Nat) /\ Len(e) = 3 + Len(vs)
             /\ View(s \o e, Len(s) + 1) = Property(name, Vector, vs)
             /\ Advance(s \o e, Len(s) + 1) = Len(s) + Len(e) + 1
<1> DEFINE head == <<name, Vector, Len(vs)>>
           e == EncodeVector(name, vs)
           i == Len(s) + 1
           t == s \o e
           n == Len(vs)
<1>1. n \in Nat /\ Len(s) \in Nat /\ vs = [j \in 1 .. n |-> vs[j]]
  BY LenProperties
<1>2. head \in Seq(Nat) /\ Len(head) = 3
      /\ head[1] = name /\ head[2] = Vector /\ head[3] = n
  BY <1>1 DEF Vector
<1>3. e = head \o vs
  BY DEF EncodeVector
<1> HIDE DEF head, e
<1>4. e \in Seq(Nat) /\ Len(e) = 3 + n
      /\ \A j \in 1 .. 3 + n : e[j] = IF j <= 3 THEN head[j] ELSE vs[j - 3]
  <2>1. /\ e \in Seq(Nat) /\ Len(e) = Len(head) + Len(vs)
        /\ \A j \in 1 .. Len(head) + Len(vs) :
             e[j] = IF j <= Len(head) THEN head[j] ELSE vs[j - Len(head)]
    BY <1>2, <1>3, ConcatProperties
  <2> QED
    BY <1>2, <2>1
<1>5. \A j \in 1 .. 3 + n : At(t, Len(s) + j) = e[j]
  BY <1>4, AtNew
<1> HIDE DEF t, n
<1>6. At(t, i) = name /\ At(t, i + 1) = Vector /\ At(t, i + 2) = n
  <2>1. /\ 1 \in 1 .. 3 + n /\ 2 \in 1 .. 3 + n /\ 3 \in 1 .. 3 + n
        /\ i + 1 = Len(s) + 2 /\ i + 2 = Len(s) + 3
    BY <1>1
  <2> QED
    BY <1>2, <1>4, <1>5, <2>1
<1>7. \A j \in 1 .. n : At(t, i + 2 + j) = vs[j]
  <2> TAKE j \in 1 .. n
  <2>0. j \in Nat \ {0} /\ n \in Nat /\ Len(s) \in Nat
    BY <1>1
  <2>1. 3 + j \in 1 .. 3 + n /\ ~ (3 + j <= 3) /\ (3 + j) - 3 = j
        /\ i + 2 + j = Len(s) + (3 + j)
    BY <2>0
  <2> DEFINE k == 3 + j
  <2> HIDE DEF k
  <2>2. k \in 1 .. 3 + n /\ ~ (k <= 3) /\ k - 3 = j /\ i + 2 + j = Len(s) + k
    BY <2>1 DEF k
  <2> QED
    BY <1>4, <1>5, <2>2
<1>8. Scalar # Vector
  BY DEF Scalar, Vector
<1>9. View(t, i) = Property(name, Vector, vs)
  <2>1. [j \in 1 .. At(t, i + 2) |-> At(t, i + 2 + j)] = vs
    BY <1>1, <1>6, <1>7
  <2> QED
    BY <1>6, <1>8, <2>1 DEF View
<1>10. Advance(t, i) = i + 2 + (1 + n)
  BY <1>6, <1>8 DEF Advance
<1>11. Advance(t, i) = Len(s) + Len(e) + 1
  BY <1>1, <1>4, <1>10
<1> QED
  BY <1>4, <1>9, <1>11 DEF e, t, n

\* Two sequences that agree agree on what they begin with.
LEMMA SameBeginning ==
  ASSUME NEW S, NEW s \in Seq(S), NEW t \in Seq(S), NEW n \in Nat,
         n <= Len(s), n <= Len(t), \A i \in 1 .. n : s[i] = t[i]
  PROVE  SubSeq(s, 1, n) \in Seq(S) /\ SubSeq(s, 1, n) = SubSeq(t, 1, n)
<1>1. Len(s) \in Nat /\ Len(t) \in Nat
  BY LenProperties
<1>2. \A i \in 1 .. n : s[i] \in S /\ t[i] \in S
  <2> TAKE i \in 1 .. n
  <2>1. i \in 1 .. Len(s) /\ i \in 1 .. Len(t)
    BY <1>1
  <2> QED
    BY <2>1, ElementOfSeq
<1>3. /\ SubSeq(s, 1, n) \in Seq(S) /\ Len(SubSeq(s, 1, n)) = n
      /\ \A i \in 1 .. n : SubSeq(s, 1, n)[i] = s[i]
  <2>1. /\ SubSeq(s, 1, n) \in Seq(S) /\ Len(SubSeq(s, 1, n)) = IF 1 <= n THEN n - 1 + 1 ELSE 0
        /\ \A i \in 1 .. n - 1 + 1 : SubSeq(s, 1, n)[i] = s[1 + i - 1]
    BY <1>2, SubSeqProperties
  <2> QED
    BY <2>1
<1>4. /\ SubSeq(t, 1, n) \in Seq(S) /\ Len(SubSeq(t, 1, n)) = n
      /\ \A i \in 1 .. n : SubSeq(t, 1, n)[i] = t[i]
  <2>1. /\ SubSeq(t, 1, n) \in Seq(S) /\ Len(SubSeq(t, 1, n)) = IF 1 <= n THEN n - 1 + 1 ELSE 0
        /\ \A i \in 1 .. n - 1 + 1 : SubSeq(t, 1, n)[i] = t[1 + i - 1]
    BY <1>2, SubSeqProperties
  <2> QED
    BY <2>1
<1> QED
  BY <1>3, <1>4, SeqEqual

\* What is appended from memory ends before the first zero.
LEMMA ReadFromMemory ==
  ASSUME NEW vs \in Seq(Nat)
  PROVE  LET memory == Append(vs, 0)
             value == SubSeq(memory, 1, OpenclVectorSize(memory, 1))
         IN  /\ value \in Seq(Nat)
             /\ value = IF Contains(vs, 0)
                        THEN SubSeq(vs, 1, SelectInSeq(vs, LAMBDA e : e = 0) - 1)
                        ELSE vs
<1> DEFINE memory == Append(vs, 0)
           value == SubSeq(memory, 1, OpenclVectorSize(memory, 1))
           n == Len(vs)
           I == {j \in 1 .. n : vs[j] = 0}
<1>1. /\ memory \in Seq(Nat) /\ n \in Nat /\ Len(memory) = n + 1
      /\ memory[n + 1] = 0 /\ \A j \in 1 .. n : memory[j] = vs[j]
  BY LenProperties
<1> HIDE DEF memory
<1>2. PICK z \in 1 .. n + 1 : memory[z] = 0 /\ \A j \in 1 .. z - 1 : memory[j] # 0
  BY <1>1, ZeroAhead
<1>3. OpenclVectorSize(memory, 1) = z - 1
  <2>1. 1 \in 1 .. Len(memory) /\ z \in 1 .. Len(memory)
    BY <1>1, <1>2
  <2> HIDE DEF n
  <2> QED
    BY <1>1, <1>2, <2>1, ZeroFound
<1>4. value = SubSeq(vs, 1, z - 1) /\ value \in Seq(Nat)
  <2>1. z - 1 \in Nat /\ z - 1 <= n /\ z - 1 <= n + 1 /\ \A j \in 1 .. z - 1 : j \in 1 .. n
    BY <1>1, <1>2
  <2> QED
    BY <1>1, <1>3, <2>1, SameBeginning
<1>5. CASE Contains(vs, 0)
  <2>1. PICK j \in 1 .. n : vs[j] = 0
    BY <1>5 DEF Contains
  <2>2. z <= j
    BY <1>1, <1>2, <2>1
  <2>3. z \in I
    BY <1>1, <1>2, <2>1, <2>2
  <2>4. \A i \in I : i \in Nat /\ z <= i
    BY <1>1, <1>2
  <2>5. Min(I) = z
    <3> HIDE DEF I
    <3>1. Min(I) \in I /\ \A i \in I : Min(I) <= i
      BY <2>3, <2>4 DEF Min
    <3>2. Min(I) \in Nat /\ z \in Nat /\ z <= Min(I) /\ Min(I) <= z
      BY <1>2, <2>3, <2>4, <3>1
    <3> QED
      BY <3>2
  <2>6. SelectInSeq(vs, LAMBDA e : e = 0) = IF I # {} THEN Min(I) ELSE 0
    BY DEF SelectInSeq
  <2> HIDE DEF I
  <2>7. SelectInSeq(vs, LAMBDA e : e = 0) = z
    BY <2>3, <2>5, <2>6
  <2> QED
    BY <1>4, <1>5, <2>7 DEF memory
<1>6. CASE ~Contains(vs, 0)
  <2>1. z = n + 1
    BY <1>1, <1>2, <1>6 DEF Contains
  <2>2. SubSeq(vs, 1, n) = vs
    BY SubSeqFull
  <2>3. z - 1 = n
    BY <1>1, <2>1
  <2> QED
    BY <1>4, <1>6, <2>2, <2>3 DEF memory
<1> QED
  BY <1>5, <1>6
-----------------------------------------------------------------------------
(* Reading what was written. *)

\* A property begins before the end, and ends no later than the end.
LEMMA Inside ==
  ASSUME NEW s \in Seq(Nat), NEW l \in Seq(Properties), NEW pos, Encodes(s, l, pos),
         NEW k \in 1 .. Len(l)
  PROVE  pos[k] \in Nat /\ pos[k] > 0 /\ ~ (pos[k] > Len(s))
<1> DEFINE next == Advance(s, pos[k])
<1>1. Len(l) \in Nat /\ Len(s) \in Nat
  BY LenProperties
<1>2. k \in 1 .. Len(l) + 1
  BY <1>1
<1>3. pos[k] \in Nat \ {0}
  BY <1>2 DEF Encodes
<1>4. next \in Nat /\ pos[k] < next
  BY <1>3, Advances
<1>5. next <= Len(s) + 1
  BY DEF Encodes
<1> HIDE DEF next
<1> QED
  BY <1>1, <1>3, <1>4, <1>5

\* A loop from begin() to end() sees the properties.
LEMMA IteratesOver ==
  ASSUME NEW s \in Seq(Nat), NEW l \in Seq(Properties), NEW pos, Encodes(s, l, pos)
  PROVE  Iterate(s) = l
<1> DEFINE n == Len(l)
<1>1. n \in Nat /\ Len(s) \in Nat
  BY LenProperties
<1>2. /\ pos \in [1 .. n + 1 -> Nat \ {0}] /\ pos[1] = 1 /\ pos[n + 1] = Len(s) + 1
      /\ \A k \in 1 .. n : /\ View(s, pos[k]) = l[k] /\ Advance(s, pos[k]) = pos[k + 1]
                           /\ pos[k + 1] <= Len(s) + 1
  BY DEF Encodes
<1>3. \A k \in 1 .. n : pos[k] \in Nat /\ ~ (pos[k] > Len(s))
  BY Inside
<1>4. PICK f : /\ f = [i \in Nat |-> IF i > Len(s) THEN <<>>
                                     ELSE <<View(s, i)>> \o f[Advance(s, i)]]
               /\ Iterate(s) = f[1]
  BY IterateFrom
<1> DEFINE T == {k \in Nat : k = 0 \/ f[pos[k]] = SubSeq(l, k, n)}
<1>5. n + 1 \in T
  <2>1. pos[n + 1] \in Nat /\ pos[n + 1] > Len(s)
    BY <1>1, <1>2
  <2>2. f[pos[n + 1]] = <<>>
    BY <1>4, <2>1
  <2>3. n + 1 \in Int /\ n \in Int /\ n < n + 1 /\ n + 1 \in Nat
    BY <1>1
  <2>4. SubSeq(l, n + 1, n) = <<>>
    BY <2>3, SubSeqEmpty
  <2> HIDE DEF n
  <2> QED
    BY <2>2, <2>3, <2>4
<1>6. ASSUME NEW k \in Nat, k < n + 1, k + 1 \in T
      PROVE  k \in T
  <2> SUFFICES ASSUME k # 0
               PROVE  f[pos[k]] = SubSeq(l, k, n)
    OBVIOUS
  <2>1. k \in 1 .. n /\ n \in k .. n /\ k + 1 # 0
    BY <1>1, <1>6
  <2>2. f[pos[k]] = <<View(s, pos[k])>> \o f[Advance(s, pos[k])]
    BY <1>3, <1>4, <2>1
  <2>3. f[pos[k + 1]] = SubSeq(l, k + 1, n)
    BY <1>6, <2>1
  <2>4. SubSeq(l, k, n) = <<l[k]>> \o SubSeq(l, k + 1, n)
    BY <2>1, SubSeqRecursiveFirst
  <2> QED
    BY <1>2, <2>1, <2>2, <2>3, <2>4
<1>7. 1 \in T
  <2>1. n + 1 \in Nat /\ 1 \in 0 .. n + 1 /\ T \in SUBSET Nat
    BY <1>1
  <2> HIDE DEF T, n
  <2> QED
    BY <1>5, <1>6, <2>1, Downwards
<1>8. f[1] = SubSeq(l, 1, n)
  BY <1>2, <1>7
<1> QED
  BY <1>4, <1>8, SubSeqFull

\* operator[] finds the first property of a name.
LEMMA FindsFirst ==
  ASSUME NEW s \in Seq(Nat), NEW l \in Seq(Properties), NEW pos, Encodes(s, l, pos),
         NEW name
  PROVE  LET is(property) == property.name = name
             i == SelectInSeq(l, is)
         IN  Find(s, name) = IF i = 0 THEN <<>> ELSE <<l[i]>>
<1> DEFINE n == Len(l)
           I == {j \in 1 .. n : l[j].name = name}
           Answer(k, r) ==
             \/ r = <<>> /\ \A j \in k .. n : l[j].name # name
             \/ \E j \in k .. n : /\ r = <<l[j]>> /\ l[j].name = name
                                  /\ \A m \in k .. j - 1 : l[m].name # name
<1>1. n \in Nat /\ Len(s) \in Nat
  BY LenProperties
<1>2. /\ pos \in [1 .. n + 1 -> Nat \ {0}] /\ pos[1] = 1 /\ pos[n + 1] = Len(s) + 1
      /\ \A k \in 1 .. n : /\ View(s, pos[k]) = l[k] /\ Advance(s, pos[k]) = pos[k + 1]
                           /\ pos[k + 1] <= Len(s) + 1
  BY DEF Encodes
<1>3. \A k \in 1 .. n : pos[k] \in Nat /\ ~ (pos[k] > Len(s))
  BY Inside
<1>4. PICK f : /\ f = [i \in Nat |->
                         IF i > Len(s) THEN <<>>
                         ELSE IF View(s, i).name = name THEN <<View(s, i)>>
                         ELSE f[Advance(s, i)]]
               /\ Find(s, name) = f[1]
  BY FindFrom
<1> DEFINE T == {k \in Nat : k = 0 \/ Answer(k, f[pos[k]])}
<1>5. n + 1 \in T
  <2>1. pos[n + 1] \in Nat /\ pos[n + 1] > Len(s)
    BY <1>1, <1>2
  <2>2. f[pos[n + 1]] = <<>>
    BY <1>4, <2>1
  <2>3. n + 1 .. n = {}
    BY <1>1
  <2> QED
    BY <1>1, <2>2, <2>3
<1>6. ASSUME NEW k \in Nat, k < n + 1, k + 1 \in T
      PROVE  k \in T
  <2> SUFFICES ASSUME k # 0
               PROVE  Answer(k, f[pos[k]])
    OBVIOUS
  <2>1. k \in 1 .. n /\ k + 1 # 0
    BY <1>1, <1>6
  <2>2. f[pos[k]] = IF l[k].name = name THEN <<l[k]>> ELSE f[pos[k + 1]]
    <3>1. /\ pos[k] \in Nat /\ ~ (pos[k] > Len(s))
          /\ View(s, pos[k]) = l[k] /\ Advance(s, pos[k]) = pos[k + 1]
      BY <1>2, <1>3, <2>1
    <3>2. f[pos[k]] = IF View(s, pos[k]).name = name THEN <<View(s, pos[k])>>
                      ELSE f[Advance(s, pos[k])]
      BY <1>4, <3>1
    <3> QED
      BY <3>1, <3>2
  <2>3. CASE l[k].name = name
    <3>1. k \in k .. n /\ k .. k - 1 = {}
      BY <2>1
    <3> QED
      BY <2>2, <2>3, <3>1
  <2>4. CASE l[k].name # name
    <3>1. Answer(k + 1, f[pos[k + 1]])
      BY <1>6, <2>1
    <3>2. \A j \in k .. n : j = k \/ j \in k + 1 .. n
      BY <2>1
    <3>3. \A j \in k + 1 .. n : j \in k .. n /\ \A m \in k .. j - 1 : m = k \/ m \in k + 1 .. j - 1
      BY <2>1
    <3> QED
      BY <2>2, <2>4, <3>1, <3>2, <3>3
  <2> QED
    BY <2>3, <2>4
<1>7. 1 \in T
  <2>1. n + 1 \in Nat /\ 1 \in 0 .. n + 1 /\ T \in SUBSET Nat
    BY <1>1
  <2> HIDE DEF T, n
  <2> QED
    BY <1>5, <1>6, <2>1, Downwards
<1>8. Answer(1, f[1])
  BY <1>2, <1>7
<1> DEFINE is(property) == property.name = name
<1>9. SelectInSeq(l, is) = IF I # {} THEN Min(I) ELSE 0
  BY DEF SelectInSeq
<1>10. CASE f[1] = <<>> /\ \A j \in 1 .. n : l[j].name # name
  <2>1. I = {}
    BY <1>10
  <2> HIDE DEF I, is
  <2> QED
    BY <1>4, <1>9, <1>10, <2>1 DEF is
<1>11. CASE \E j \in 1 .. n : /\ f[1] = <<l[j]>> /\ l[j].name = name
                              /\ \A m \in 1 .. j - 1 : l[m].name # name
  <2>1. PICK j \in 1 .. n : /\ f[1] = <<l[j]>> /\ l[j].name = name
                            /\ \A m \in 1 .. j - 1 : l[m].name # name
    BY <1>11
  <2>2. j \in I /\ \A m \in I : m \in Nat /\ j <= m
    BY <1>1, <2>1
  <2>3. Min(I) = j
    <3> HIDE DEF I
    <3>1. Min(I) \in I /\ \A m \in I : Min(I) <= m
      BY <2>2 DEF Min
    <3>2. Min(I) \in Nat /\ j \in Nat /\ j <= Min(I) /\ Min(I) <= j
      BY <2>2, <3>1
    <3> QED
      BY <3>2
  <2>4. j # 0
    BY <1>1
  <2> HIDE DEF I, is
  <2>5. SelectInSeq(l, is) = j
    BY <1>9, <2>2, <2>3
  <2> QED
    BY <1>4, <2>1, <2>4, <2>5 DEF is
<1> QED
  BY <1>8, <1>10, <1>11

\* What append() writes for a property.
Written(p) ==
  IF p.tag = Scalar THEN EncodeScalar(p.name, p.value[1]) ELSE EncodeVector(p.name, p.value)

\* The values of enum class PropertyTag.
LEMMA TagsApart == Scalar # Vector /\ Scalar = 0 /\ Vector = 1
BY DEF Scalar, Vector

\* The n numbers behind index i.
LEMMA Piece ==
  ASSUME NEW s \in Seq(Nat), NEW i \in Nat, NEW n \in Nat, i + n <= Len(s)
  PROVE  LET w == SubSeq(s, i + 1, i + n)
         IN  w \in Seq(Nat) /\ Len(w) = n /\ \A j \in 1 .. n : w[j] = s[i + j]
<1> DEFINE lo == i + 1
           hi == i + n
<1>1. lo \in Int /\ hi \in Int
  OBVIOUS
<1>2. \A j \in lo .. hi : s[j] \in Nat
  <2> TAKE j \in lo .. hi
  <2>1. Len(s) \in Nat
    BY LenProperties
  <2>2. j \in 1 .. Len(s)
    BY <2>1
  <2> QED
    BY <2>2, ElementOfSeq
<1>3. hi - lo + 1 = n /\ (lo <= hi \/ n = 0) /\ \A j \in 1 .. n : lo + j - 1 = i + j
  OBVIOUS
<1> HIDE DEF lo, hi
<1>4. /\ SubSeq(s, lo, hi) \in Seq(Nat)
      /\ Len(SubSeq(s, lo, hi)) = IF lo <= hi THEN hi - lo + 1 ELSE 0
      /\ \A j \in 1 .. hi - lo + 1 : SubSeq(s, lo, hi)[j] = s[lo + j - 1]
  BY <1>1, <1>2, SubSeqProperties
<1>5. Len(SubSeq(s, lo, hi)) = n
  BY <1>3, <1>4
<1> QED
  BY <1>3, <1>4, <1>5 DEF lo, hi

\* The part of a vector that begins with a property begins with what append() wrote.
LEMMA Slice ==
  ASSUME NEW s \in Seq(Nat), NEW i \in Nat, i > 0, Advance(s, i) <= Len(s) + 1,
         NEW p \in Properties, View(s, i) = p
  PROVE  /\ Written(p) \in Seq(Nat)
         /\ SubSeq(s, i, Len(s)) = Written(p) \o SubSeq(s, Advance(s, i), Len(s))
<1> DEFINE next == Advance(s, i)
           w == SubSeq(s, i, next - 1)
           n == Len(p.value)
<1>1. /\ Len(s) \in Nat /\ DOMAIN s = 1 .. Len(s) /\ \A j \in 1 .. Len(s) : s[j] \in Nat
      /\ next \in Nat /\ i + 2 < next
  BY LenProperties, ElementOfSeq, Advances
<1>2. i \in 1 .. Len(s) /\ i + 1 \in 1 .. Len(s) /\ i + 2 \in 1 .. Len(s)
  BY <1>1
<1>3. At(s, i) = s[i] /\ At(s, i + 1) = s[i + 1] /\ At(s, i + 2) = s[i + 2]
      /\ s[i + 2] \in Nat
  BY <1>1, <1>2 DEF At
<1>4. /\ p.name \in Nat /\ p.tag \in {Scalar, Vector} /\ p.value \in Seq(Nat) /\ n \in Nat
  BY LenProperties DEF Properties
<1>5. /\ p.name = s[i] /\ p.tag = s[i + 1]
      /\ p.value = IF s[i + 1] = Scalar THEN <<s[i + 2]>>
                   ELSE [j \in 1 .. s[i + 2] |-> At(s, i + 2 + j)]
  BY <1>3 DEF View, Property
<1>6. SubSeq(s, i, Len(s)) = w \o SubSeq(s, next, Len(s))
  <2>1. i \in 1 .. Len(s) + 1 /\ next - 1 \in i - 1 .. Len(s) /\ Len(s) \in next - 1 .. Len(s)
        /\ next - 1 + 1 = next
    BY <1>1, <1>2
  <2> DEFINE m == next - 1
  <2> HIDE DEF m
  <2>2. SubSeq(s, i, m) \o SubSeq(s, m + 1, Len(s)) = SubSeq(s, i, Len(s))
    BY <2>1, ConcatAdjacentSubSeq DEF m
  <2> QED
    BY <2>1, <2>2 DEF m
<1>7. w \in Seq(Nat) /\ Len(w) = next - i /\ \A j \in 1 .. next - i : w[j] = s[i + j - 1]
  <2>1. \A j \in i .. next - 1 : s[j] \in Nat
    BY <1>1
  <2>2. next - 1 \in Int /\ i \in Int /\ i <= next - 1 /\ next - 1 - i + 1 = next - i
    BY <1>1
  <2> DEFINE m == next - 1
  <2>3. m \in Int /\ \A j \in i .. m : s[j] \in Nat
    BY <2>1, <2>2
  <2> HIDE DEF m
  <2>4. /\ SubSeq(s, i, m) \in Seq(Nat)
        /\ Len(SubSeq(s, i, m)) = IF i <= m THEN m - i + 1 ELSE 0
        /\ \A j \in 1 .. m - i + 1 : SubSeq(s, i, m)[j] = s[i + j - 1]
    BY <2>3, SubSeqProperties
  <2> QED
    BY <2>2, <2>4 DEF m
<1> HIDE DEF w
<1>8. CASE p.tag = Scalar
  <2> DEFINE e == Written(p)
  <2>1. next = i + 3
    BY <1>3, <1>5, <1>8 DEF Advance
  <2>2. p.value[1] = s[i + 2]
    BY <1>5, <1>8
  <2>3. e = <<s[i], Scalar, s[i + 2]>>
    BY <1>5, <1>8, <2>2 DEF Written, EncodeScalar
  <2>4. e \in Seq(Nat) /\ Len(e) = 3 /\ e[1] = s[i] /\ e[2] = s[i + 1] /\ e[3] = s[i + 2]
    <3>1. s[i] \in Nat /\ s[i + 2] \in Nat /\ Scalar \in Nat /\ Scalar = s[i + 1]
      BY <1>1, <1>2, <1>5, <1>8, TagsApart
    <3> QED
      BY <2>3, <3>1
  <2> HIDE DEF e
  <2>5. Len(w) = 3 /\ w[1] = s[i] /\ w[2] = s[i + 1] /\ w[3] = s[i + 2]
    <3>1. next - i = 3 /\ i + 1 - 1 = i /\ i + 2 - 1 = i + 1 /\ i + 3 - 1 = i + 2
      BY <1>1, <2>1
    <3> HIDE DEF next
    <3>2. Len(w) = 3 /\ \A j \in 1 .. 3 : w[j] = s[i + j - 1]
      BY <1>7, <3>1
    <3> QED
      BY <3>1, <3>2
  <2>6. \A j \in 1 .. 3 : w[j] = e[j]
    BY <2>4, <2>5
  <2>7. w = e
    BY <1>7, <2>4, <2>5, <2>6, SeqEqual
  <2> QED
    BY <1>6, <2>4, <2>7 DEF e
<1>9. CASE p.tag = Vector
  <2> DEFINE e == Written(p)
             head == <<p.name, Vector, n>>
  <2>1. s[i + 1] = Vector /\ s[i + 1] # Scalar
    BY <1>5, <1>9, TagsApart
  <2>2. p.value = [j \in 1 .. s[i + 2] |-> At(s, i + 2 + j)]
    BY <1>5, <2>1
  <2>3. n = s[i + 2]
    BY <1>3, <2>2
  <2>4. next = i + 3 + n
    <3>1. next = i + 2 + (1 + At(s, i + 2))
      BY <1>3, <2>1 DEF Advance
    <3>2. At(s, i + 2) = n
      BY <1>3, <2>3
    <3> HIDE DEF n
    <3> QED
      BY <1>4, <3>1, <3>2
  <2>5. \A j \in 1 .. n : p.value[j] = s[i + 2 + j]
    <3> TAKE j \in 1 .. n
    <3>1. i + 2 + j \in 1 .. Len(s)
      <4>1. next <= Len(s) + 1
        OBVIOUS
      <4> HIDE DEF n, next
      <4> QED
        BY <1>1, <1>4, <2>4, <4>1
    <3> QED
      BY <1>1, <2>2, <2>3, <3>1 DEF At
  <2>6. e = head \o p.value
    BY <1>9, TagsApart DEF Written, EncodeVector
  <2>7. head \in Seq(Nat) /\ Len(head) = 3
        /\ head[1] = s[i] /\ head[2] = s[i + 1] /\ head[3] = s[i + 2]
    <3>1. s[i] \in Nat /\ Vector \in Nat /\ Vector = s[i + 1]
      BY <1>1, <1>2, <2>1, TagsApart
    <3> HIDE DEF n
    <3> QED
      BY <1>4, <1>5, <2>3, <3>1
  <2> HIDE DEF e, head, next, n
  <2>8. e \in Seq(Nat) /\ Len(e) = 3 + n
        /\ \A j \in 1 .. 3 + n : e[j] = IF j <= 3 THEN head[j] ELSE p.value[j - 3]
    <3>1. /\ e \in Seq(Nat) /\ Len(e) = Len(head) + Len(p.value)
          /\ \A j \in 1 .. Len(head) + Len(p.value) :
               e[j] = IF j <= Len(head) THEN head[j] ELSE p.value[j - Len(head)]
      BY <1>4, <2>6, <2>7, ConcatProperties
    <3> QED
      BY <2>7, <3>1 DEF n
  <2>9. Len(w) = 3 + n /\ \A j \in 1 .. 3 + n : w[j] = s[i + j - 1]
    <3>1. next - i = 3 + n
      BY <1>4, <2>4
    <3> QED
      BY <1>7, <3>1
  <2>10. \A j \in 1 .. 3 + n : w[j] = e[j]
    <3> TAKE j \in 1 .. 3 + n
    <3>1. CASE j <= 3
      <4>1. j = 1 \/ j = 2 \/ j = 3
        BY <1>4, <3>1
      <4>2. i + 1 - 1 = i /\ i + 2 - 1 = i + 1 /\ i + 3 - 1 = i + 2
        OBVIOUS
      <4>3. head[j] = s[i + j - 1]
        BY <2>7, <4>1, <4>2
      <4> QED
        BY <2>8, <2>9, <3>1, <4>3
    <3>2. CASE ~ (j <= 3)
      <4>1. j - 3 \in 1 .. n /\ i + 2 + (j - 3) = i + j - 1
        BY <1>4, <3>2
      <4>2. p.value[j - 3] = s[i + j - 1]
        BY <2>5, <4>1
      <4> QED
        BY <2>8, <2>9, <3>2, <4>2
    <3> QED
      BY <3>1, <3>2
  <2>11. w = e
    BY <1>7, <2>8, <2>9, <2>10, SeqEqual
  <2> QED
    BY <1>6, <2>8, <2>11 DEF e, next
<1> QED
  BY <1>4, <1>8, <1>9
-----------------------------------------------------------------------------
(* There and back. *)

\* The same for an element of a sequence in the middle of another.
LEMMA AtMiddle ==
  ASSUME NEW pre \in Seq(Nat), NEW c \in Seq(Nat), NEW rest \in Seq(Nat),
         NEW j \in 1 .. Len(c)
  PROVE  /\ pre \o (c \o rest) \in Seq(Nat)
         /\ Len(pre) + j \in 1 .. Len(pre \o (c \o rest))
         /\ At(pre \o (c \o rest), Len(pre) + j) = c[j]
         /\ (pre \o (c \o rest))[Len(pre) + j] = c[j]
<1> DEFINE m == c \o rest
           v == pre \o m
           n == Len(pre) + j
<1>1. /\ Len(pre) \in Nat /\ Len(c) \in Nat /\ Len(rest) \in Nat
      /\ m \in Seq(Nat) /\ Len(m) = Len(c) + Len(rest)
  BY LenProperties, ConcatProperties
<1>2. j \in 1 .. Len(m) /\ j \in 1 .. Len(c) + Len(rest) /\ j <= Len(c)
  BY <1>1
<1>3. m[j] = c[j]
  BY <1>2, ConcatProperties
<1> HIDE DEF m
<1>4. v \in Seq(Nat) /\ Len(v) = Len(pre) + Len(m)
  BY <1>1, ConcatProperties
<1>5. At(v, n) = m[j]
  BY <1>1, <1>2, AtNew
<1> HIDE DEF v
<1>6. n \in 1 .. Len(v)
  BY <1>1, <1>2, <1>4
<1>7. n \in DOMAIN v
  BY <1>4, <1>6, LenProperties
<1>8. At(v, n) = v[n]
  <2> HIDE DEF n
  <2> QED
    BY <1>7 DEF At
<1> QED
  BY <1>3, <1>4, <1>5, <1>6, <1>8 DEF v, m

\* Parse understands a scalar.
LEMMA ParsesScalar ==
  ASSUME NEW pre \in Seq(Nat), NEW rest \in Seq(Nat),
         NEW name \in ScalarNames, NEW x \in Nat, NEW h,
         Parses(pre \o (<<name, x>> \o rest), h)
  PROVE  h[Len(pre) + 1] = EncodeScalar(name, x) \o h[Len(pre) + 3]
<1> DEFINE c == <<name, x>>
           v == pre \o (c \o rest)
           i == Len(pre) + 1
<1>1. name \in Nat /\ name # 0
  BY PropertyListsAssumption
<1>2. c \in Seq(Nat) /\ Len(c) = 2 /\ c[1] = name /\ c[2] = x
  BY <1>1
<1>3. Parses(v, h) /\ v = pre \o (c \o rest)
  OBVIOUS
<1> HIDE DEF c, v
<1>4. At(v, Len(pre) + 1) = c[1] /\ At(v, Len(pre) + 2) = c[2]
  <2>1. c \in Seq(Nat) /\ 1 \in 1 .. Len(c) /\ 2 \in 1 .. Len(c)
    BY <1>2
  <2>2. At(pre \o (c \o rest), Len(pre) + 1) = c[1]
    BY <2>1, AtMiddle
  <2>3. At(pre \o (c \o rest), Len(pre) + 2) = c[2]
    BY <2>1, AtMiddle
  <2> QED
    BY <1>3, <2>2, <2>3
<1>5. Len(pre) \in Nat
  BY LenProperties
<1>6. i \in Nat /\ i + 1 = Len(pre) + 2 /\ i + 2 = Len(pre) + 3
  BY <1>5
<1>7. At(v, i) = name /\ At(v, i + 1) = x
  BY <1>2, <1>4, <1>6
<1> HIDE DEF i
<1>8. h[i] = ParseAt(v, h, i)
  BY <1>3, <1>6 DEF Parses
<1>9. ParseAt(v, h, i) = EncodeScalar(name, x) \o h[i + 2]
  BY <1>1, <1>7 DEF ParseAt
<1> QED
  BY <1>6, <1>8, <1>9 DEF i

\* The OpenCL form of a property that is a vector.
VectorCode(name, vs) == <<name>> \o Append(vs, 0)

\* Parse understands a vector without a zero in it.
LEMMA ParsesVector ==
  ASSUME NEW pre \in Seq(Nat), NEW rest \in Seq(Nat),
         NEW name \in VectorNames, NEW vs \in Seq(Nat), ~Contains(vs, 0), NEW h,
         Parses(pre \o (VectorCode(name, vs) \o rest), h)
  PROVE  h[Len(pre) + 1] = EncodeVector(name, vs) \o h[Len(pre) + Len(vs) + 3]
<1> DEFINE a == Append(vs, 0)
           c == <<name>> \o a
           v == pre \o (c \o rest)
           i == Len(pre) + 1
           n == Len(vs)
           z == i + 1 + n
<1>0. Parses(v, h) /\ v = pre \o (c \o rest)
  BY DEF VectorCode
<1> HIDE DEF v
<1>1. name \in Nat /\ name # 0 /\ name \notin ScalarNames
  BY PropertyListsAssumption
<1>2. n \in Nat /\ Len(pre) \in Nat /\ Len(rest) \in Nat
  BY LenProperties
<1>3. /\ a \in Seq(Nat) /\ Len(a) = n + 1 /\ a[n + 1] = 0
      /\ \A j \in 1 .. n : a[j] = vs[j]
  BY <1>2
<1> HIDE DEF a
<1>4. c \in Seq(Nat) /\ Len(c) = n + 2 /\ c[1] = name
      /\ \A j \in 1 .. n + 1 : c[j + 1] = a[j]
  <2> DEFINE b == <<name>>
  <2>1. b \in Seq(Nat) /\ Len(b) = 1 /\ b[1] = name
    BY <1>1
  <2>2. c = b \o a
    OBVIOUS
  <2> HIDE DEF b, c, n
  <2>3. /\ c \in Seq(Nat) /\ Len(c) = Len(b) + Len(a)
        /\ \A j \in 1 .. Len(b) + Len(a) : c[j] = IF j <= Len(b) THEN b[j] ELSE a[j - Len(b)]
    <3>1. a \in Seq(Nat) /\ b \in Seq(Nat)
      BY <1>3, <2>1
    <3> QED
      BY <2>2, <3>1, ConcatProperties
  <2>4. \A j \in 1 .. n + 2 : c[j] = IF j <= 1 THEN b[j] ELSE a[j - 1]
    BY <1>2, <1>3, <2>1, <2>3
  <2>5. \A j \in 1 .. n + 1 : j + 1 \in 1 .. n + 2 /\ ~ (j + 1 <= 1) /\ j + 1 - 1 = j
    BY <1>2
  <2>6. Len(c) = n + 2 /\ 1 \in 1 .. n + 2
    BY <1>2, <1>3, <2>1, <2>3
  <2> QED
    BY <2>1, <2>3, <2>4, <2>5, <2>6
<1> HIDE DEF c, n
<1>6. /\ v \in Seq(Nat)
      /\ \A j \in 1 .. Len(c) : /\ Len(pre) + j \in 1 .. Len(v)
                                /\ At(v, Len(pre) + j) = c[j] /\ v[Len(pre) + j] = c[j]
  <2>1. 1 \in 1 .. Len(c)
    BY <1>2, <1>4
  <2>2. c \in Seq(Nat)
    BY <1>4
  <2> DEFINE u == pre \o (c \o rest)
  <2>3. u \in Seq(Nat)
    BY <2>1, <2>2, AtMiddle
  <2>4. ASSUME NEW j \in 1 .. Len(c)
        PROVE  Len(pre) + j \in 1 .. Len(u) /\ At(u, Len(pre) + j) = c[j]
               /\ u[Len(pre) + j] = c[j]
    BY <2>2, AtMiddle
  <2>5. v = u
    BY <1>0
  <2> HIDE DEF u
  <2> QED
    BY <2>3, <2>4, <2>5
<1>7. At(v, i) = name
  <2>1. 1 \in 1 .. Len(c)
    BY <1>2, <1>4
  <2> QED
    BY <1>4, <1>6, <2>1
<1>8. \A j \in 1 .. n + 1 : i + j \in 1 .. Len(v) /\ v[i + j] = a[j]
  <2> TAKE j \in 1 .. n + 1
  <2> DEFINE k == j + 1
  <2>1. k \in 1 .. Len(c) /\ i + j = Len(pre) + k /\ c[k] = a[j]
    <3>1. i + j = Len(pre) + k
      BY <1>2
    <3>2. k \in 1 .. Len(c)
      BY <1>2, <1>4
    <3>3. k - 1 = j /\ k # 1
      BY <1>2
    <3> HIDE DEF k
    <3>4. c[k] = a[j]
      BY <1>4, <3>2, <3>3
    <3> QED
      BY <3>1, <3>2, <3>4
  <2> HIDE DEF k
  <2> QED
    BY <1>6, <2>1
<1>9. OpenclVectorSize(v, i + 1) = n
  <2>1. Len(v) \in Nat /\ i \in Nat
    BY <1>2, <1>6, LenProperties
  <2>2. n + 1 \in 1 .. n + 1 /\ z = i + (n + 1)
    BY <1>2
  <2>3. v[z] = 0 /\ z \in 1 .. Len(v)
    BY <1>3, <1>8, <2>2
  <2>4. i + 1 \in 1 .. Len(v) /\ z \in i + 1 .. Len(v) /\ z \in Nat
    BY <1>2, <2>1, <2>2, <2>3
  <2>5. \A j \in i + 1 .. z - 1 : v[j] # 0
    <3> TAKE j \in i + 1 .. z - 1
    <3> DEFINE k == j - i
    <3>1. k \in 1 .. n /\ k \in 1 .. n + 1 /\ i + k = j
      BY <1>2, <2>1
    <3> HIDE DEF k
    <3>2. vs[k] # 0
      BY <3>1 DEF Contains, n
    <3> QED
      BY <1>3, <1>8, <3>1, <3>2
  <2> HIDE DEF z, i
  <2>6. OpenclVectorSize(v, i + 1) = z - (i + 1)
    BY <1>6, <2>3, <2>4, <2>5, ZeroFound
  <2> QED
    BY <1>2, <2>1, <2>6 DEF z
<1>10. SubSeq(v, i + 1, i + n) = vs
  <2> DEFINE w == SubSeq(v, i + 1, i + n)
  <2>1. i \in Nat /\ i + n <= Len(v)
    <3>1. n + 1 \in 1 .. n + 1
      BY <1>2
    <3>2. i + (n + 1) \in 1 .. Len(v)
      BY <1>8, <3>1
    <3>3. Len(v) \in Nat
      BY <1>6, LenProperties
    <3> QED
      BY <1>2, <3>2, <3>3
  <2> HIDE DEF i
  <2>7. w \in Seq(Nat) /\ Len(w) = n /\ \A j \in 1 .. n : w[j] = v[i + j]
    BY <1>2, <1>6, <2>1, Piece
  <2> HIDE DEF w
  <2>8. \A j \in 1 .. n : w[j] = vs[j]
    <3> TAKE j \in 1 .. n
    <3>1. j \in 1 .. n + 1
      BY <1>2
    <3> QED
      BY <1>3, <1>8, <2>7, <3>1
  <2>9. w = vs
    BY <2>7, <2>8, SeqEqual DEF n
  <2> QED
    BY <2>9 DEF w
<1>11. i \in Nat /\ i + 2 + n = Len(pre) + n + 3
  BY <1>2
<1> HIDE DEF i
<1>12. h[i] = ParseAt(v, h, i)
  BY <1>0, <1>11 DEF Parses
<1>13. ParseAt(v, h, i) = EncodeVector(name, vs) \o h[i + 2 + n]
  BY <1>1, <1>7, <1>9, <1>10 DEF ParseAt
<1> QED
  BY <1>11, <1>12, <1>13 DEF i, n

\* What opencl_view() writes for a property.
Code(p) == <<p.name>> \o OpenclValue(p)

\* OpenCL can make sense of the property: one of those of Meaningful.
MeaningfulProperty(p) ==
  IF p.tag = Scalar THEN p.name \in ScalarNames
  ELSE p.name \in VectorNames /\ ~Contains(p.value, 0)

\* It is numbers.
LEMMA CodeTyped ==
  ASSUME NEW p \in Properties
  PROVE  Code(p) \in Seq(Nat)
<1> DEFINE a == <<p.name>>
           b == OpenclValue(p)
<1>1. p.name \in Nat /\ p.value \in Seq(Nat)
  BY DEF Properties
<1>2. a \in Seq(Nat) /\ b \in Seq(Nat)
  BY <1>1 DEF OpenclValue
<1>3. Code(p) = a \o b
  BY DEF Code
<1> HIDE DEF a, b
<1> QED
  BY <1>2, <1>3, ConcatProperties

\* Parse makes of it what append() writes, and goes on behind it.
LEMMA ParsesProperty ==
  ASSUME NEW p \in Properties, MeaningfulProperty(p),
         NEW pre \in Seq(Nat), NEW rest \in Seq(Nat), NEW h,
         Parses(pre \o (Code(p) \o rest), h)
  PROVE  h[Len(pre) + 1] = Written(p) \o h[Len(pre \o Code(p)) + 1]
<1>1. p.name \in Nat /\ p.value \in Seq(Nat) /\ p.tag \in {Scalar, Vector}
      /\ (p.tag = Scalar => Len(p.value) = 1)
  BY DEF Properties
<1>2. Len(pre) \in Nat /\ Len(p.value) \in Nat /\ Len(Code(p)) \in Nat
      /\ Len(pre \o Code(p)) = Len(pre) + Len(Code(p))
  BY <1>1, CodeTyped, LenProperties, ConcatProperties
<1>3. CASE p.tag = Scalar
  <2> DEFINE x == p.value[1]
  <2>1. Len(p.value) = 1
    BY <1>1, <1>3
  <2>2. x \in Nat
    <3>1. 1 \in 1 .. Len(p.value)
      BY <2>1
    <3> QED
      BY <1>1, <3>1, ElementOfSeq
  <2>3. p.value = <<x>>
    <3>1. <<x>> \in Seq(Nat) /\ Len(<<x>>) = 1 /\ <<x>>[1] = x
      BY <2>2
    <3>2. \A j \in 1 .. Len(p.value) : p.value[j] = <<x>>[j]
      BY <2>1, <3>1
    <3> QED
      BY <1>1, <2>1, <3>1, <3>2, SeqEqual
  <2> HIDE DEF x
  <2>4. Code(p) = <<p.name, x>>
    <3> DEFINE a == <<p.name>>
               b == <<x>>
               c == <<p.name, x>>
    <3>1. a \in Seq(Nat) /\ b \in Seq(Nat) /\ Len(a) = 1 /\ Len(b) = 1
          /\ a[1] = p.name /\ b[1] = x
      BY <1>1, <2>2
    <3>2. c \in Seq(Nat) /\ Len(c) = 2 /\ c[1] = p.name /\ c[2] = x
      BY <1>1, <2>2
    <3>3. Code(p) = a \o b
      BY <1>3, <2>3 DEF Code, OpenclValue
    <3> HIDE DEF a, b, c
    <3>4. /\ a \o b \in Seq(Nat) /\ Len(a \o b) = Len(a) + Len(b)
          /\ \A i \in 1 .. Len(a) + Len(b) : (a \o b)[i] = IF i <= Len(a) THEN a[i]
                                                           ELSE b[i - Len(a)]
      BY <3>1, ConcatProperties
    <3>5. /\ Len(a \o b) = Len(c)
          /\ \A i \in 1 .. Len(a \o b) : (a \o b)[i] = c[i]
      BY <3>1, <3>2, <3>4
    <3>6. a \o b = c
      BY <3>2, <3>4, <3>5, SeqEqual
    <3> QED
      BY <3>3, <3>6 DEF c
  <2>5. Len(Code(p)) = 2
    BY <2>4
  <2>6. p.name \in ScalarNames
    BY <1>3 DEF MeaningfulProperty
  <2>7. Parses(pre \o (<<p.name, x>> \o rest), h)
    BY <2>4
  <2>8. h[Len(pre) + 1] = EncodeScalar(p.name, x) \o h[Len(pre) + 3]
    BY <2>2, <2>6, <2>7, ParsesScalar
  <2>9. Len(pre \o Code(p)) + 1 = Len(pre) + 3
    BY <1>2, <2>5
  <2> QED
    BY <1>3, <2>8, <2>9 DEF Written, x
<1>4. CASE p.tag = Vector
  <2>1. p.tag # Scalar
    BY <1>4, TagsApart
  <2>2. p.name \in VectorNames /\ ~Contains(p.value, 0)
    BY <2>1 DEF MeaningfulProperty
  <2>3. Code(p) = <<p.name>> \o Append(p.value, 0)
    BY <2>1 DEF Code, OpenclValue
  <2>4. Len(Code(p)) = Len(p.value) + 2
    <3> DEFINE a == <<p.name>>
               b == Append(p.value, 0)
    <3>1. a \in Seq(Nat) /\ b \in Seq(Nat) /\ Len(a) = 1 /\ Len(b) = Len(p.value) + 1
      BY <1>1
    <3>2. Code(p) = a \o b
      BY <2>3
    <3> HIDE DEF a, b
    <3>3. a \in Seq(Nat) /\ b \in Seq(Nat)
      BY <3>1
    <3>4. Len(a \o b) = Len(a) + Len(b)
      BY <3>3, ConcatProperties
    <3> QED
      BY <1>2, <3>1, <3>2, <3>4
  <2>5. Parses(pre \o ((<<p.name>> \o Append(p.value, 0)) \o rest), h)
    BY <2>3
  <2>6. h[Len(pre) + 1] = EncodeVector(p.name, p.value) \o h[Len(pre) + Len(p.value) + 3]
    <3> DEFINE name == p.name
               vs == p.value
    <3>1. name \in VectorNames /\ vs \in Seq(Nat) /\ ~Contains(vs, 0)
          /\ Parses(pre \o (VectorCode(name, vs) \o rest), h)
      BY <1>1, <2>2, <2>5 DEF VectorCode
    <3> HIDE DEF name, vs
    <3>2. h[Len(pre) + 1] = EncodeVector(name, vs) \o h[Len(pre) + Len(vs) + 3]
      BY <3>1, ParsesVector
    <3> QED
      BY <3>2 DEF name, vs
  <2>7. Len(pre \o Code(p)) + 1 = Len(pre) + Len(p.value) + 3
    BY <1>2, <2>4
  <2> QED
    BY <2>1, <2>6, <2>7 DEF Written
<1> QED
  BY <1>1, <1>3, <1>4

\* An OpenCL list that is over.
Closed(x) == x \in Seq(Nat) /\ x # <<>> /\ x[Len(x)] = 0

\* It is still over with something before it.
LEMMA ClosedBehind ==
  ASSUME NEW c \in Seq(Nat), NEW x, Closed(x)
  PROVE  Closed(c \o x)
<1> DEFINE n == Len(c) + Len(x)
<1>1. x \in Seq(Nat) /\ Len(x) \in Nat \ {0} /\ Len(c) \in Nat /\ x[Len(x)] = 0
  BY EmptySeq, LenProperties DEF Closed
<1>2. /\ c \o x \in Seq(Nat) /\ Len(c \o x) = n
      /\ \A i \in 1 .. n : (c \o x)[i] = IF i <= Len(c) THEN c[i] ELSE x[i - Len(c)]
  BY <1>1, ConcatProperties
<1>3. n \in 1 .. n /\ ~ (n <= Len(c)) /\ n - Len(c) = Len(x) /\ n # 0
  BY <1>1
<1> HIDE DEF n
<1>4. (c \o x)[n] = 0
  BY <1>1, <1>2, <1>3
<1>5. c \o x # <<>>
  BY <1>2, <1>3
<1> QED
  BY <1>2, <1>4, <1>5 DEF Closed

\* What comes first may be put together with what comes next.
LEMMA Regrouped ==
  ASSUME NEW a \in Seq(Nat), NEW b \in Seq(Nat), NEW c \in Seq(Nat)
  PROVE  (a \o b) \o c = a \o (b \o c) /\ a \o b \in Seq(Nat)
<1>1. (a \o b) \o c = a \o (b \o c)
  BY ConcatAssociative
<1>2. a \o b \in Seq(Nat)
  BY ConcatProperties
<1> QED
  BY <1>1, <1>2

\* A list of properties that OpenCL can make sense of comes back as it was, number by
\* number.
LEMMA ThereAndBack ==
  ASSUME NEW s \in Seq(Nat), NEW l \in Seq(Properties), NEW pos, Encodes(s, l, pos),
         Meaningful(l)
  PROVE  Parse(OpenclView(s)) = s
<1> DEFINE n == Len(l)
<1>1. n \in Nat /\ Len(s) \in Nat
  BY LenProperties
<1>2. /\ pos \in [1 .. n + 1 -> Nat \ {0}] /\ pos[1] = 1 /\ pos[n + 1] = Len(s) + 1
      /\ \A k \in 1 .. n : /\ View(s, pos[k]) = l[k] /\ Advance(s, pos[k]) = pos[k + 1]
                           /\ pos[k + 1] <= Len(s) + 1
  BY DEF Encodes
<1>3. \A k \in 1 .. n : pos[k] \in Nat /\ pos[k] > 0 /\ ~ (pos[k] > Len(s))
  BY Inside
<1>4. \A k \in 1 .. n : l[k] \in Properties /\ MeaningfulProperty(l[k])
  <2> TAKE k \in 1 .. n
  <2>1. l[k] \in Properties
    BY ElementOfSeq
  <2>2. k \in DOMAIN l
    BY LenProperties
  <2> QED
    BY <2>1, <2>2 DEF Meaningful, MeaningfulProperty
<1>5. PICK g : /\ g = [i \in Nat |->
                         IF i > Len(s) THEN <<0>>
                         ELSE <<At(s, i)>> \o OpenclValue(View(s, i)) \o g[Advance(s, i)]]
               /\ OpenclView(s) = g[1]
  BY OpenclViewFrom
<1>6. g[pos[n + 1]] = <<0>>
  <2>1. pos[n + 1] \in Nat /\ pos[n + 1] > Len(s)
    BY <1>1, <1>2
  <2> QED
    BY <1>5, <2>1
<1>7. \A k \in 1 .. n : g[pos[k]] = Code(l[k]) \o g[pos[k + 1]]
  <2> TAKE k \in 1 .. n
  <2>1. /\ pos[k] \in Nat /\ ~ (pos[k] > Len(s))
        /\ View(s, pos[k]) = l[k] /\ Advance(s, pos[k]) = pos[k + 1]
    BY <1>2, <1>3
  <2>2. g[pos[k]] = <<At(s, pos[k])>> \o OpenclValue(View(s, pos[k])) \o g[Advance(s, pos[k])]
    BY <1>5, <2>1
  <2>3. At(s, pos[k]) = l[k].name
    BY <2>1 DEF View, Property
  <2> QED
    BY <2>1, <2>2, <2>3 DEF Code
<1> DEFINE T == {k \in Nat : k = 0 \/ Closed(g[pos[k]])}
<1>8. \A k \in 0 .. n + 1 : k \in T
  <2>1. n + 1 \in Nat /\ n + 1 \in T
    <3>1. Closed(<<0>>)
      BY DEF Closed
    <3>2. Closed(g[pos[n + 1]])
      BY <1>6, <3>1
    <3> HIDE DEF n
    <3> QED
      BY <1>1, <3>2
  <2>2. ASSUME NEW k \in Nat, k < n + 1, k + 1 \in T
        PROVE  k \in T
    <3> SUFFICES ASSUME k # 0
                 PROVE  Closed(g[pos[k]])
      OBVIOUS
    <3>1. k \in 1 .. n /\ k + 1 # 0
      BY <1>1, <2>2
    <3>2. Closed(g[pos[k + 1]])
      BY <2>2, <3>1
    <3>3. Code(l[k]) \in Seq(Nat)
      BY <1>4, <3>1, CodeTyped
    <3> QED
      BY <1>7, <3>1, <3>2, <3>3, ClosedBehind
  <2>3. T \in SUBSET Nat
    OBVIOUS
  <2> HIDE DEF T, n
  <2> QED
    BY <2>1, <2>2, <2>3, Downwards
<1>9. \A k \in 1 .. n + 1 : Closed(g[pos[k]])
  BY <1>1, <1>8
<1> DEFINE v == OpenclView(s)
<1>10. Closed(v) /\ v = g[1]
  <2>1. 1 \in 1 .. n + 1
    BY <1>1
  <2> QED
    BY <1>2, <1>5, <1>9, <2>1
<1> HIDE DEF v
<1>11. PICK h : Parses(v, h) /\ Parse(v) = h[1]
  BY <1>10, ParseFrom DEF Closed
<1> DEFINE Back(k) == \A pre \in Seq(Nat) :
             v = pre \o g[pos[k]] => h[Len(pre) + 1] = SubSeq(s, pos[k], Len(s))
           B == {k \in Nat : k = 0 \/ Back(k)}
<1>12. n + 1 \in B
  <2> SUFFICES ASSUME NEW pre \in Seq(Nat), v = pre \o g[pos[n + 1]]
               PROVE  h[Len(pre) + 1] = SubSeq(s, pos[n + 1], Len(s))
    <3> HIDE DEF n
    <3>1. Back(n + 1)
      OBVIOUS
    <3> HIDE DEF Back
    <3> QED
      BY <1>1, <3>1
  <2> DEFINE z == <<0>>
             i == Len(pre) + 1
  <2>1. z \in Seq(Nat) /\ 1 \in 1 .. Len(z) /\ z[1] = 0
    OBVIOUS
  <2>2. v = pre \o z
    BY <1>6
  <2> HIDE DEF z
  <2>3. At(pre \o z, Len(pre) + 1) = z[1]
    BY <2>1, AtNew
  <2>4. i \in Nat /\ At(v, i) = 0
    BY <2>1, <2>2, <2>3, LenProperties
  <2> HIDE DEF i
  <2>5. h[i] = ParseAt(v, h, i)
    BY <1>11, <2>4 DEF Parses
  <2>6. h[i] = <<>>
    BY <2>4, <2>5 DEF ParseAt
  <2>7. SubSeq(s, pos[n + 1], Len(s)) = <<>>
    <3> DEFINE m == Len(s) + 1
    <3>1. m \in Int /\ Len(s) \in Int /\ Len(s) < m /\ pos[n + 1] = m
      BY <1>1, <1>2
    <3> HIDE DEF m
    <3>2. SubSeq(s, m, Len(s)) = <<>>
      BY <3>1, SubSeqEmpty
    <3> QED
      BY <3>1, <3>2
  <2> QED
    BY <2>6, <2>7 DEF i
<1>13. ASSUME NEW k \in Nat, k < n + 1, k + 1 \in B
       PROVE  k \in B
  <2> SUFFICES ASSUME k # 0, NEW pre \in Seq(Nat), v = pre \o g[pos[k]]
               PROVE  h[Len(pre) + 1] = SubSeq(s, pos[k], Len(s))
    OBVIOUS
  <2> DEFINE c == Code(l[k])
             rest == g[pos[k + 1]]
             before == pre \o c
  <2>1. k \in 1 .. n /\ k + 1 \in 1 .. n + 1 /\ k + 1 # 0
    BY <1>1, <1>13
  <2>2. c \in Seq(Nat) /\ rest \in Seq(Nat)
    BY <1>4, <1>9, <2>1, CodeTyped DEF Closed
  <2>3. v = pre \o (c \o rest)
    BY <1>7, <2>1
  <2>4. v = before \o rest /\ before \in Seq(Nat)
    <3> HIDE DEF c, rest, v
    <3>1. (pre \o c) \o rest = pre \o (c \o rest) /\ pre \o c \in Seq(Nat)
      BY ONLY <2>2, pre \in Seq(Nat), Regrouped
    <3> QED
      BY <2>3, <3>1
  <2>5. h[Len(before) + 1] = SubSeq(s, pos[k + 1], Len(s))
    <3>1. Back(k + 1)
      BY <1>13, <2>1
    <3> HIDE DEF before
    <3> QED
      BY <2>4, <3>1
  <2>6. h[Len(pre) + 1] = Written(l[k]) \o h[Len(before) + 1]
    <3>1. l[k] \in Properties /\ MeaningfulProperty(l[k])
      BY <1>4, <2>1
    <3>2. Parses(pre \o (Code(l[k]) \o rest), h)
      BY <1>11, <2>3
    <3> HIDE DEF rest
    <3> QED
      BY <2>2, <3>1, <3>2, ParsesProperty
  <2>7. SubSeq(s, pos[k], Len(s)) = Written(l[k]) \o SubSeq(s, pos[k + 1], Len(s))
    <3> DEFINE i == pos[k]
    <3>1. i \in Nat /\ i > 0 /\ View(s, i) = l[k] /\ Advance(s, i) = pos[k + 1]
          /\ l[k] \in Properties
      BY <1>2, <1>3, <1>4, <2>1
    <3>2. Advance(s, i) <= Len(s) + 1
      BY <1>2, <2>1
    <3> HIDE DEF i
    <3>3. SubSeq(s, i, Len(s)) = Written(l[k]) \o SubSeq(s, Advance(s, i), Len(s))
      BY <3>1, <3>2, Slice
    <3> QED
      BY <3>1, <3>3 DEF i
  <2> QED
    BY <2>5, <2>6, <2>7
<1>14. 1 \in B
  <2>1. n + 1 \in Nat /\ 1 \in 0 .. n + 1 /\ B \in SUBSET Nat
    BY <1>1
  <2> HIDE DEF B, n
  <2> QED
    BY <1>12, <1>13, <2>1, Downwards
<1>15. h[1] = SubSeq(s, 1, Len(s))
  <2> DEFINE e == <<>>
  <2>1. e \in Seq(Nat) /\ Len(e) = 0 /\ v = e \o g[pos[1]]
    BY <1>2, <1>10, ConcatEmptySeq DEF Closed
  <2>2. Back(1)
    <3> HIDE DEF Back
    <3> QED
      BY <1>14
  <2> HIDE DEF e
  <2>3. h[Len(e) + 1] = SubSeq(s, pos[1], Len(s))
    BY <2>1, <2>2
  <2> QED
    BY <1>2, <2>1, <2>3
<1> QED
  BY <1>11, <1>15, SubSeqFull DEF v
-----------------------------------------------------------------------------
(* The invariant. *)

\* internal_storage encodes the properties appended, which lie one behind the other.
ListInv ==
  /\ storage \in Seq(Nat) /\ list \in Seq(Properties)
  /\ \E pos : Encodes(storage, list, pos)

\* An empty list encodes no property.
LEMMA ListInvInit == ListInit => ListInv
<1> SUFFICES ASSUME ListInit
             PROVE  ListInv
  OBVIOUS
<1> DEFINE pos == [k \in 1 .. 1 |-> 1]
<1>1. storage = <<>> /\ list = <<>> /\ Len(<<>>) = 0
  BY EmptySeq DEF ListInit
<1>2. Encodes(storage, list, pos)
  BY <1>1 DEF Encodes
<1> QED
  BY <1>1, <1>2, EmptySeq DEF ListInv

\* The names are numbers but zero, and the values numbers.
LEMMA ValuesTyped ==
  /\ Names \subseteq Nat \ {0} /\ Values \subseteq Nat /\ Vectors \subseteq Seq(Nat)
<1>1. Names \subseteq Nat \ {0} /\ Values \subseteq Nat
  BY PropertyListsAssumption DEF Names
<1>2. ASSUME NEW vs \in Vectors
      PROVE  vs \in Seq(Nat)
  <2>1. PICK n \in 0 .. MaxVector : vs \in [1 .. n -> Values]
    BY DEF Vectors
  <2>2. n \in Nat
    BY PropertyListsAssumption
  <2>3. vs \in [1 .. n -> Nat]
    BY <1>1, <2>1
  <2> QED
    BY <2>2, <2>3, SeqDef
<1> QED
  BY <1>1, <1>2

\* Appending what is written for a property appends the property.
LEMMA AppendInv ==
  ASSUME ListInv, NEW e \in Seq(Nat), NEW p \in Properties,
         View(storage \o e, Len(storage) + 1) = p,
         Advance(storage \o e, Len(storage) + 1) = Len(storage) + Len(e) + 1,
         storage' = storage \o e, list' = Append(list, p)
  PROVE  ListInv'
<1>1. storage \in Seq(Nat) /\ list \in Seq(Properties)
  BY DEF ListInv
<1>2. PICK pos : Encodes(storage, list, pos)
  BY DEF ListInv
<1>3. \E new : Encodes(storage \o e, Append(list, p), new)
  BY <1>1, <1>2, Extended
<1>4. storage \o e \in Seq(Nat) /\ Append(list, p) \in Seq(Properties)
  BY <1>1, ConcatProperties
<1> QED
  BY <1>3, <1>4 DEF ListInv

\* Each append adds one property, and the way through OpenCL changes no number.
LEMMA ListInvNext == ListInv /\ [ListNext]_listVars => ListInv'
<1> SUFFICES ASSUME ListInv, [ListNext]_listVars
             PROVE  ListInv'
  OBVIOUS
<1>1. storage \in Seq(Nat) /\ list \in Seq(Properties)
  BY DEF ListInv
<1>2. ASSUME NEW name \in Names, NEW v \in Values, AppendScalar(name, v)
      PROVE  ListInv'
  <2>1. name \in Nat /\ name # 0 /\ v \in Nat
    BY ValuesTyped
  <2>2. Property(name, Scalar, <<v>>) \in Properties
    BY <2>1 DEF Property, Properties
  <2> QED
    BY <1>1, <1>2, <2>1, <2>2, ScalarAppended, AppendInv DEF AppendScalar
<1>3. ASSUME NEW name \in Names, NEW vs \in Seq(Nat),
             storage' = storage \o EncodeVector(name, vs),
             list' = Append(list, Property(name, Vector, vs))
      PROVE  ListInv'
  <2>1. name \in Nat /\ name # 0
    BY ValuesTyped
  <2>2. Property(name, Vector, vs) \in Properties
    BY <2>1, TagsApart DEF Property, Properties
  <2> QED
    BY <1>1, <1>3, <2>1, <2>2, VectorAppended, AppendInv
<1>4. ASSUME NEW name \in Names, NEW vs \in Vectors, AppendVector(name, vs)
      PROVE  ListInv'
  <2>1. vs \in Seq(Nat)
    BY ValuesTyped
  <2> QED
    BY <1>3, <1>4, <2>1 DEF AppendVector
<1>5. ASSUME NEW name \in Names, NEW vs \in Vectors, AppendOpencl(name, vs)
      PROVE  ListInv'
  <2> DEFINE memory == Append(vs, 0)
             value == SubSeq(memory, 1, OpenclVectorSize(memory, 1))
  <2>1. vs \in Seq(Nat)
    BY ValuesTyped
  <2>2. /\ value \in Seq(Nat)
        /\ value = IF Contains(vs, 0)
                   THEN SubSeq(vs, 1, SelectInSeq(vs, LAMBDA e : e = 0) - 1)
                   ELSE vs
    BY <2>1, ReadFromMemory
  <2>3. storage' = storage \o EncodeVector(name, value)
    BY <1>5 DEF AppendOpencl
  <2>4. list' = Append(list, Property(name, Vector,
                  IF Contains(vs, 0)
                  THEN SubSeq(vs, 1, SelectInSeq(vs, LAMBDA e : e = 0) - 1) ELSE vs))
    BY <1>5 DEF AppendOpencl
  <2>5. list' = Append(list, Property(name, Vector, value))
    BY <2>2, <2>4
  <2> HIDE DEF value
  <2> QED
    BY <1>3, <2>2, <2>3, <2>5
<1>6. CASE GiveBack
  <2>1. storage' = storage /\ list' = list
    BY <1>1, <1>6, ThereAndBack DEF ListInv, GiveBack
  <2> QED
    BY <2>1 DEF ListInv
<1>7. CASE UNCHANGED listVars
  BY <1>7 DEF ListInv, listVars
<1> QED
  BY <1>2, <1>4, <1>5, <1>6, <1>7 DEF ListNext

\* internal_storage holds the properties appended and nothing else, however many there
\* are and whatever their numbers.
THEOREM ListInvariance == ListSpec => []ListInv
<1> QED
  BY ListInvInit, ListInvNext, PTL DEF ListSpec

\* A loop over a PropertyList sees the properties appended, in their order, and operator[]
\* finds the first of a name, for lists and vectors of any length, even if values equal
\* names, tags or sizes.
THEOREM ReadsBackTheorem == ListSpec => []ReadsBack
<1>1. ListInv => ReadsBack
  <2> SUFFICES ASSUME ListInv
               PROVE  ReadsBack
    OBVIOUS
  <2>1. PICK pos : Encodes(storage, list, pos)
    BY DEF ListInv
  <2>2. storage \in Seq(Nat) /\ list \in Seq(Properties)
    BY DEF ListInv
  <2>3. Iterate(storage) = list
    BY <2>1, <2>2, IteratesOver
  <2>4. ASSUME NEW name \in Names
        PROVE  LET is(property) == property.name = name
                   i == SelectInSeq(list, is)
               IN  Find(storage, name) = IF i = 0 THEN <<>> ELSE <<list[i]>>
    BY <2>1, <2>2, FindsFirst DEF SelectInSeq
  <2> QED
    BY <2>3, <2>4 DEF ReadsBack
<1> QED
  BY <1>1, ListInvariance, PTL

\* A list that means something to OpenCL comes back from its OpenCL form with the same
\* properties (property_list.cpp:58).
THEOREM LosslessTheorem == ListSpec => []Lossless
<1>1. ListInv => Lossless
  BY ThereAndBack, IteratesOver DEF ListInv, Lossless
<1> QED
  BY <1>1, ListInvariance, PTL
-----------------------------------------------------------------------------
(* Lists of names. *)

TextCharacters == Letters \cup {Sep}

\* The parts of Runs: the letters of a text, where its runs start and end.
LetterAt(text, i) == i \in DOMAIN text /\ text[i] # Sep
Starts(text) == {i \in DOMAIN text : LetterAt(text, i) /\ ~LetterAt(text, i - 1)}
EndOf(text, i) == Min({j \in i .. Len(text) : ~LetterAt(text, j + 1)})
RunAt(text, i) == SubSeq(text, i, EndOf(text, i))
Nth(S, k) == CHOOSE i \in S : Cardinality({j \in S : j <= i}) = k

LEMMA RunsInParts ==
  ASSUME NEW text
  PROVE  Runs(text) = [k \in 1 .. Cardinality(Starts(text)) |->
                         RunAt(text, Nth(Starts(text), k))]
BY DEF Runs, Starts, LetterAt, EndOf, RunAt, Nth

\* w lists the numbers of S in their order.
InOrder(w, S) ==
  /\ w \in Seq(Nat)
  /\ \A i, j \in 1 .. Len(w) : i < j => w[i] < w[j]
  /\ \A i \in 1 .. Len(w) : w[i] \in S
  /\ \A x \in S : \E i \in 1 .. Len(w) : w[i] = x

\* Number k of the list is the one that k numbers of S do not exceed.
LEMMA NthInOrder ==
  ASSUME NEW S \in SUBSET Nat, NEW w, InOrder(w, S)
  PROVE  Cardinality(S) = Len(w) /\ \A k \in 1 .. Len(w) : Nth(S, k) = w[k]
<1> DEFINE n == Len(w)
           upTo(k) == {j \in S : j <= w[k]}
<1>1. n \in Nat /\ \A i \in 1 .. n : w[i] \in Nat
  BY LenProperties, ElementOfSeq DEF InOrder
<1>2. \A i, j \in 1 .. n : (i < j => w[i] < w[j]) /\ (w[i] = w[j] => i = j)
  BY <1>1 DEF InOrder
<1>3. ASSUME NEW k \in 0 .. n, NEW U, U \subseteq S,
             \A x \in S : x \in U <=> \E i \in 1 .. k : w[i] = x
      PROVE  Cardinality(U) = k
  <2> DEFINE f == [i \in 1 .. k |-> w[i]]
  <2>1. \A i \in 1 .. k : w[i] \in U
    BY <1>1, <1>3 DEF InOrder
  <2>2. f \in Bijection(1 .. k, U)
    <3>1. f \in [1 .. k -> U]
      BY <2>1
    <3>2. \A i, j \in 1 .. k : f[i] = f[j] => i = j
      BY <1>1, <1>2
    <3>3. \A x \in U : \E i \in 1 .. k : f[i] = x
      BY <1>3
    <3> QED
      BY <3>1, <3>2, <3>3 DEF Bijection, Injection, Surjection, IsInjective
  <2>3. ExistsBijection(1 .. k, U) /\ k \in Nat
    <3> HIDE DEF f
    <3> QED
      BY <1>1, <2>2 DEF ExistsBijection
  <2> QED
    BY <2>3, FS_CountingElements
<1>4. Cardinality(S) = n
  BY <1>1, <1>3 DEF InOrder
<1>5. \A k \in 1 .. n : Cardinality(upTo(k)) = k
  <2> TAKE k \in 1 .. n
  <2>1. k \in 0 .. n /\ upTo(k) \subseteq S
    BY <1>1
  <2>2. \A x \in S : x \in upTo(k) <=> \E i \in 1 .. k : w[i] = x
    <3> TAKE x \in S
    <3>1. PICK m \in 1 .. n : w[m] = x
      BY DEF InOrder
    <3>2. w[m] <= w[k] <=> m <= k
      BY <1>1, <1>2
    <3>3. \A i \in 1 .. k : w[i] = x => i = m
      BY <1>1, <1>2, <3>1
    <3> QED
      BY <1>1, <3>1, <3>2, <3>3
  <2> HIDE DEF upTo
  <2> QED
    BY <1>3, <2>1, <2>2
<1>6. ASSUME NEW k \in 1 .. n
      PROVE  Nth(S, k) = w[k]
  <2>1. w[k] \in S /\ Cardinality({j \in S : j <= w[k]}) = k
    BY <1>5 DEF InOrder
  <2>2. ASSUME NEW i \in S, Cardinality({j \in S : j <= i}) = k
        PROVE  i = w[k]
    <3>1. PICK m \in 1 .. n : w[m] = i
      BY DEF InOrder
    <3>2. Cardinality(upTo(m)) = m
      BY <1>5
    <3> QED
      BY <2>2, <3>1, <3>2
  <2> QED
    BY <2>1, <2>2 DEF Nth
<1> QED
  BY <1>4, <1>6

\* items are the runs of text that start at index b or later.
Shows(text, items, b) ==
  /\ items \in Seq(Seq(TextCharacters))
  /\ \E w : /\ InOrder(w, {i \in Starts(text) : b <= i})
            /\ Len(items) = Len(w)
            /\ \A k \in 1 .. Len(w) : items[k] = RunAt(text, w[k])

LEMMA ShowsRuns ==
  ASSUME NEW text \in Seq(TextCharacters), NEW items, Shows(text, items, 1)
  PROVE  items = Runs(text)
<1> DEFINE S == Starts(text)
<1>1. Len(text) \in Nat /\ DOMAIN text = 1 .. Len(text)
  BY LenProperties
<1>2. S \in SUBSET Nat /\ {i \in S : 1 <= i} = S
  BY <1>1 DEF Starts
<1>3. PICK w : /\ InOrder(w, S)
               /\ Len(items) = Len(w)
               /\ \A k \in 1 .. Len(w) : items[k] = RunAt(text, w[k])
  BY <1>2 DEF Shows
<1>4. Cardinality(S) = Len(w) /\ \A k \in 1 .. Len(w) : Nth(S, k) = w[k]
  BY <1>2, <1>3, NthInOrder
<1>5. Runs(text) = [k \in 1 .. Len(w) |-> RunAt(text, Nth(S, k))]
  BY <1>4, RunsInParts
<1>6. items = [k \in 1 .. Len(items) |-> items[k]]
  BY LenProperties DEF Shows
<1> HIDE DEF S
<1> QED
  BY <1>3, <1>4, <1>5, <1>6

LEMMA RunTyped ==
  ASSUME NEW text \in Seq(TextCharacters), NEW b \in Nat, NEW e \in Nat, 1 <= b, e <= Len(text)
  PROVE  SubSeq(text, b, e) \in Seq(TextCharacters)
<1>1. Len(text) \in Nat /\ \A i \in b .. e : i \in 1 .. Len(text)
  BY LenProperties
<1>2. \A i \in b .. e : text[i] \in TextCharacters
  BY <1>1, ElementOfSeq
<1> QED
  BY <1>2, SubSeqProperties

\* A run that starts at b and goes on to e, if there is one, comes before those behind
\* the separator that ends it.
LEMMA Segment ==
  ASSUME NEW text \in Seq(TextCharacters), NEW b \in Nat, NEW e \in Nat,
         1 <= b, b <= e + 1, e <= Len(text),
         b = 1 \/ text[b - 1] = Sep, e = Len(text) \/ text[e + 1] = Sep,
         \A i \in b .. e : text[i] # Sep,
         NEW items, Shows(text, items, e + 2)
  PROVE  Shows(text, (IF b <= e THEN <<SubSeq(text, b, e)>> ELSE <<>>) \o items, b)
<1> DEFINE n == Len(text)
           S == {i \in Starts(text) : b <= i}
           behind == {i \in Starts(text) : e + 2 <= i}
<1>1. n \in Nat /\ DOMAIN text = 1 .. n /\ e <= n /\ (e = n \/ text[e + 1] = Sep)
  BY LenProperties
<1>2. PICK w : /\ InOrder(w, behind)
               /\ Len(items) = Len(w)
               /\ \A k \in 1 .. Len(w) : items[k] = RunAt(text, w[k])
  BY DEF Shows
<1>3. items \in Seq(Seq(TextCharacters)) /\ Len(items) \in Nat
  BY LenProperties DEF Shows
<1> HIDE DEF n
<1>4. ~LetterAt(text, b - 1) /\ ~LetterAt(text, e + 1)
  <2>1. ~ (0 \in 1 .. n) /\ ~ (n + 1 \in 1 .. n)
    BY <1>1
  <2>2. b = 1 => b - 1 = 0
    OBVIOUS
  <2> QED
    BY <1>1, <2>1, <2>2 DEF LetterAt
<1>5. \A i \in b .. e : LetterAt(text, i)
  BY <1>1 DEF LetterAt
<1>6. \A i \in Starts(text) : i \in Nat /\ LetterAt(text, i) /\ ~LetterAt(text, i - 1)
  BY <1>1 DEF Starts
<1>7. CASE e < b
  <2>1. e + 1 = b /\ ~ (b <= e)
    BY <1>7
  <2>2. S = behind
    BY <1>4, <1>6, <2>1
  <2>3. <<>> \o items = items
    BY <1>3, ConcatSimplifications
  <2> QED
    BY <1>2, <1>3, <2>1, <2>2, <2>3 DEF Shows
<1>8. CASE b <= e
  <2> DEFINE item == SubSeq(text, b, e)
             new == <<b>> \o w
  <2>1. b \in Starts(text)
    BY <1>1, <1>4, <1>5, <1>8 DEF Starts
  <2>2. \A i \in Starts(text) : b <= i <=> (i = b \/ e + 2 <= i)
    <3> TAKE i \in Starts(text)
    <3>1. i \in Nat /\ LetterAt(text, i) /\ ~LetterAt(text, i - 1)
      BY <1>6
    <3>2. i # e + 1
      BY <1>4, <3>1
    <3>3. ~ (b < i /\ i <= e)
      <4> SUFFICES ASSUME b < i, i <= e
                   PROVE  FALSE
        OBVIOUS
      <4>1. i - 1 \in b .. e
        BY <3>1
      <4> QED
        BY <1>5, <3>1, <4>1
    <3> QED
      BY <1>8, <3>1, <3>2, <3>3
  <2>3. S = {b} \cup behind
    BY <2>1, <2>2
  <2>4. EndOf(text, b) = e
    <3> DEFINE ends == {j \in b .. n : ~LetterAt(text, j + 1)}
    <3>1. e \in ends
      BY <1>1, <1>4, <1>8
    <3>2. \A j \in ends : j \in Nat /\ e <= j
      <4> TAKE j \in ends
      <4>1. j \in Nat /\ b <= j /\ ~LetterAt(text, j + 1)
        OBVIOUS
      <4>2. ~ (j + 1 \in b .. e)
        BY <1>5, <4>1
      <4> QED
        BY <4>1, <4>2
    <3>3. Min(ends) \in ends /\ \A j \in ends : Min(ends) <= j
      <4> HIDE DEF ends
      <4> QED
        BY <3>1, <3>2 DEF Min
    <3>4. Min(ends) = e
      <4> HIDE DEF ends
      <4>1. Min(ends) \in Nat /\ e <= Min(ends) /\ Min(ends) <= e
        BY <3>1, <3>2, <3>3
      <4> QED
        BY <4>1
    <3> QED
      BY <3>4 DEF EndOf, n
  <2>5. item = RunAt(text, b) /\ item \in Seq(TextCharacters)
    BY <2>4, RunTyped DEF RunAt
  <2> HIDE DEF item
  <2>6. /\ <<item>> \o items \in Seq(Seq(TextCharacters))
        /\ Len(<<item>> \o items) = Len(items) + 1
        /\ (<<item>> \o items)[1] = item
        /\ \A k \in 1 .. Len(items) : (<<item>> \o items)[k + 1] = items[k]
    BY <1>3, <2>5
  <2>7. w \in Seq(Nat) /\ Len(w) \in Nat
    BY <1>2, LenProperties DEF InOrder
  <2>8. /\ new \in Seq(Nat) /\ Len(new) = Len(w) + 1 /\ new[1] = b
        /\ \A k \in 1 .. Len(w) : new[k + 1] = w[k]
    BY <2>7
  <2> HIDE DEF new
  <2>9. \A k \in 1 .. Len(new) : k = 1 \/ (k - 1 \in 1 .. Len(w) /\ new[k] = w[k - 1])
    <3> TAKE k \in 1 .. Len(new)
    <3> SUFFICES ASSUME k # 1
                 PROVE  k - 1 \in 1 .. Len(w) /\ new[k] = w[k - 1]
      OBVIOUS
    <3>1. k - 1 \in 1 .. Len(w) /\ (k - 1) + 1 = k
      BY <2>7, <2>8
    <3>2. new[(k - 1) + 1] = w[k - 1]
      BY <2>8, <3>1
    <3> QED
      BY <3>1, <3>2
  <2>10. InOrder(new, S)
    <3>1. ASSUME NEW i \in 1 .. Len(new), NEW j \in 1 .. Len(new), i < j
          PROVE  new[i] < new[j]
      <4>1. j - 1 \in 1 .. Len(w) /\ new[j] = w[j - 1]
        BY <2>9, <3>1
      <4>2. w[j - 1] \in behind
        BY <1>2, <4>1 DEF InOrder
      <4>3. w[j - 1] \in Nat /\ e + 2 <= w[j - 1]
        BY <1>6, <4>2
      <4>4. CASE i = 1
        BY <1>8, <2>8, <4>1, <4>3, <4>4
      <4>5. CASE i # 1
        <5>1. i - 1 \in 1 .. Len(w) /\ new[i] = w[i - 1] /\ i - 1 < j - 1
          BY <2>9, <3>1, <4>5
        <5> QED
          BY <1>2, <4>1, <5>1 DEF InOrder
      <4> QED
        BY <4>4, <4>5
    <3>2. \A i \in 1 .. Len(new) : new[i] \in S
      <4> HIDE DEF behind, S
      <4> QED
        BY <1>2, <2>3, <2>8, <2>9 DEF InOrder
    <3>3. ASSUME NEW x \in S
          PROVE  \E i \in 1 .. Len(new) : new[i] = x
      <4>1. CASE x = b
        BY <2>7, <2>8, <4>1
      <4>2. CASE x \in behind
        <5>1. PICK i \in 1 .. Len(w) : w[i] = x
          BY <1>2, <4>2 DEF InOrder
        <5>2. i + 1 \in 1 .. Len(new) /\ new[i + 1] = x
          BY <2>7, <2>8, <5>1
        <5> QED
          BY <5>2
      <4> QED
        BY <2>3, <4>1, <4>2
    <3> QED
      BY <2>8, <3>1, <3>2, <3>3 DEF InOrder
  <2>11. \A k \in 1 .. Len(new) : (<<item>> \o items)[k] = RunAt(text, new[k])
    <3> TAKE k \in 1 .. Len(new)
    <3>1. CASE k = 1
      BY <2>5, <2>6, <2>8, <3>1
    <3>2. CASE k # 1
      <4>1. k - 1 \in 1 .. Len(w) /\ new[k] = w[k - 1] /\ (k - 1) + 1 = k
        BY <2>9, <3>2
      <4>2. (<<item>> \o items)[(k - 1) + 1] = items[k - 1]
        BY <1>2, <2>6, <4>1
      <4> QED
        BY <1>2, <4>1, <4>2
    <3> QED
      BY <3>1, <3>2
  <2>12. Shows(text, <<item>> \o items, b)
    BY <1>2, <2>6, <2>8, <2>10, <2>11 DEF Shows
  <2> QED
    BY <1>8, <2>12 DEF item
<1> QED
  BY <1>7, <1>8

\* find(): the first separator from an index on, counted from 0.
LEMMA SepFound ==
  ASSUME NEW text \in Seq(TextCharacters), NEW from \in Nat
  PROVE  LET next == FindSep(text, from)
             n == Len(text)
         IN  \/ next = Npos /\ \A i \in from + 1 .. n : text[i] # Sep
             \/ /\ next \in from .. n - 1 /\ text[next + 1] = Sep
                /\ \A i \in from + 1 .. next : text[i] # Sep
<1> DEFINE n == Len(text)
           hits == {i \in from .. n - 1 : text[i + 1] = Sep}
           next == FindSep(text, from)
<1>1. n \in Nat
  BY LenProperties
<1>2. next = IF hits = {} THEN Npos ELSE Min(hits)
  BY DEF FindSep, FindCharacter
<1> HIDE DEF next, n
<1>3. \A i \in from + 1 .. n : i - 1 \in from .. n - 1 /\ (i - 1) + 1 = i
  BY <1>1
<1>4. CASE hits = {}
  <2>1. \A i \in from .. n - 1 : text[i + 1] # Sep
    BY <1>4
  <2>2. \A i \in from + 1 .. n : text[i] # Sep
    <3> TAKE i \in from + 1 .. n
    <3>1. text[(i - 1) + 1] # Sep
      BY <1>3, <2>1
    <3> QED
      BY <1>3, <3>1
  <2> QED
    BY <1>2, <1>4, <2>2 DEF next, n
<1>5. CASE hits # {}
  <2>1. hits \in SUBSET Nat
    BY <1>1
  <2>2. next \in hits /\ \A j \in hits : next <= j
    <3>1. PICK m \in hits : \A j \in hits : m <= j
      BY <1>5, <2>1, Least
    <3> HIDE DEF hits
    <3> QED
      BY <1>2, <1>5, <3>1 DEF Min
  <2>3. next \in from .. n - 1 /\ text[next + 1] = Sep
    BY <2>2
  <2>4. ASSUME NEW i \in from + 1 .. next
        PROVE  text[i] # Sep
    <3>1. i \in from + 1 .. n /\ i - 1 < next /\ next \in Nat /\ i - 1 \in Nat
      BY <1>1, <2>3
    <3>2. ~ (i - 1 \in hits)
      <4> HIDE DEF hits
      <4> QED
        BY <2>2, <3>1
    <3>3. text[(i - 1) + 1] # Sep
      BY <1>3, <3>1, <3>2
    <3> QED
      BY <1>3, <3>1, <3>3
  <2> QED
    BY <2>3, <2>4 DEF next, n
<1> QED
  BY <1>4, <1>5

\* The loop over the items behind the first separator.
LEMMA MiddleFrom ==
  ASSUME NEW text \in Seq(TextCharacters), NEW first \in 0 .. Len(text)
  PROVE  \E f : /\ f = [last \in 0 .. Len(text) |->
                          LET next == FindSep(text, last + 1)
                          IN  IF next = Npos THEN LastItem(text, last)
                              ELSE Item(text, last + 1, next - last - 1) \o f[next]]
                /\ Middle(text, first) = f[first]
<1> DEFINE n == Len(text)
           next(i) == FindSep(text, i + 1)
           Step(f, i) == IF next(i) = Npos THEN LastItem(text, i)
                         ELSE Item(text, i + 1, next(i) - i - 1) \o f[next(i)]
           Ends == {i \in Nat : next(i) = Npos}
           Base == [i \in Nat |-> LastItem(text, i)]
           Begin == [i \in Nat |-> Item(text, i + 1, next(i) - i - 1)]
           Onward == [i \in Nat |-> next(i)]
<1>1. n \in Nat
  BY LenProperties
<1>2. ASSUME NEW i \in Nat, next(i) # Npos
      PROVE  next(i) \in i + 1 .. n - 1
  BY <1>2, SepFound
<1>3. ASSUME NEW i \in Nat, i \notin Ends
      PROVE  i < n /\ Onward[i] \in Nat /\ i < Onward[i]
  <2>1. next(i) \in i + 1 .. n - 1
    BY <1>2, <1>3
  <2> HIDE DEF n, next
  <2> QED
    BY <1>1, <2>1
<1>4. PICK g : Recurses(g, Ends, Base, {}, Begin, Onward)
  <2> HIDE DEF Ends, Base, Begin, Onward, n
  <2> QED
    BY <1>1, <1>3, Recursion
<1>5. \A i \in Nat : g[i] = Step(g, i)
  <2> HIDE DEF next
  <2> QED
    BY <1>4 DEF Recurses, Unfolded
<1> DEFINE f == [i \in 0 .. n |-> g[i]]
<1>6. f = [i \in 0 .. n |-> Step(f, i)]
  <2>1. ASSUME NEW i \in 0 .. n
        PROVE  Step(g, i) = Step(f, i)
    <3>1. next(i) # Npos => next(i) \in 0 .. n
      <4>1. i \in Nat
        BY <1>1
      <4> HIDE DEF n, next
      <4> QED
        BY <1>1, <1>2, <4>1
    <3>2. next(i) # Npos => f[next(i)] = g[next(i)]
      BY <3>1
    <3> HIDE DEF f, next
    <3> QED
      BY <3>2
  <2>2. \A i \in 0 .. n : f[i] = Step(f, i)
    <3> HIDE DEF next
    <3> QED
      BY <1>1, <1>5, <2>1
  <2> HIDE DEF Step
  <2>3. f = [i \in 0 .. n |-> f[i]]
    OBVIOUS
  <2> HIDE DEF f
  <2> QED
    BY <2>2, <2>3
<1> HIDE DEF f
<1> DEFINE from[last \in 0 .. Len(text)] ==
             LET after == FindSep(text, last + 1)
             IN  IF after = Npos THEN LastItem(text, last)
                 ELSE Item(text, last + 1, after - last - 1) \o from[after]
<1>7. from = [i \in 0 .. n |-> Step(from, i)]
  BY <1>6
<1>8. Middle(text, first) = from[first]
  BY DEF Middle
<1> HIDE DEF from
<1> QED
  BY <1>7, <1>8

\* Nothing starts past the end.
LEMMA PastTheEnd ==
  ASSUME NEW text \in Seq(TextCharacters), NEW b \in Nat, Len(text) < b
  PROVE  Shows(text, <<>>, b)
<1>1. Len(text) \in Nat /\ DOMAIN text = 1 .. Len(text)
  BY LenProperties
<1>2. {i \in Starts(text) : b <= i} = {}
  BY <1>1 DEF Starts
<1>3. InOrder(<<>>, {})
  BY EmptySeq DEF InOrder
<1>4. <<>> \in Seq(Seq(TextCharacters)) /\ Len(<<>>) = 0
  BY EmptySeq
<1> DEFINE S == {i \in Starts(text) : b <= i}
<1>5. /\ InOrder(<<>>, S) /\ Len(<<>>) = Len(<<>>)
      /\ \A k \in 1 .. Len(<<>>) : <<>>[k] = RunAt(text, <<>>[k])
  <2> HIDE DEF S
  <2>1. S = {}
    BY <1>2 DEF S
  <2>2. \A k \in 1 .. Len(<<>>) : <<>>[k] = RunAt(text, <<>>[k])
    BY <1>4
  <2> QED
    BY <1>3, <2>1, <2>2
<1> QED
  BY <1>4, <1>5 DEF Shows

\* A stretch of the text that holds something is an item.
LEMMA ItemOf ==
  ASSUME NEW text, NEW b \in Nat, NEW e \in Nat, 1 <= b
  PROVE  Item(text, b - 1, e - b + 1) = IF b <= e THEN <<SubSeq(text, b, e)>> ELSE <<>>
<1>1. b - 1 + 1 = b /\ b - 1 + (e - b + 1) = e /\ (e - b + 1 > 0 <=> b <= e)
  OBVIOUS
<1> QED
  BY <1>1 DEF Item

\* Behind a separator, the loop finds the runs that start there or later.
LEMMA MiddleShows ==
  ASSUME NEW text \in Seq(TextCharacters), NEW first \in 0 .. Len(text) - 1,
         text[first + 1] = Sep
  PROVE  Shows(text, Middle(text, first), first + 2)
<1> DEFINE n == Len(text)
<1>1. n \in Nat /\ first \in Nat /\ first \in 0 .. n /\ first < n
  BY LenProperties
<1>2. PICK f : /\ f = [last \in 0 .. n |->
                         LET next == FindSep(text, last + 1)
                         IN  IF next = Npos THEN LastItem(text, last)
                             ELSE Item(text, last + 1, next - last - 1) \o f[next]]
               /\ Middle(text, first) = f[first]
  BY <1>1, MiddleFrom
<1> DEFINE Right(last) == text[last + 1] = Sep => Shows(text, f[last], last + 2)
           T == {d \in Nat : \A last \in d .. n - 1 : Right(last)}
<1>3. n \in T
  BY <1>1
<1>4. ASSUME NEW d \in Nat, d < n, d + 1 \in T
      PROVE  d \in T
  <2> SUFFICES ASSUME text[d + 1] = Sep
               PROVE  Shows(text, f[d], d + 2)
    <3>1. \A last \in d .. n - 1 : last = d \/ last \in d + 1 .. n - 1
      BY <1>1
    <3> HIDE DEF Right, n
    <3> QED
      BY <1>4, <3>1 DEF Right
  <2> DEFINE next == FindSep(text, d + 1)
             b == d + 2
  <2>1. f[d] = IF next = Npos THEN LastItem(text, d)
               ELSE Item(text, d + 1, next - d - 1) \o f[next]
    <3>1. d \in 0 .. n
      BY <1>1, <1>4
    <3> HIDE DEF n
    <3> QED
      BY <1>2, <3>1
  <2>2. \/ next = Npos /\ \A i \in b .. n : text[i] # Sep
        \/ /\ next \in d + 1 .. n - 1 /\ text[next + 1] = Sep
           /\ \A i \in b .. next : text[i] # Sep
    <3>1. d + 1 \in Nat /\ (d + 1) + 1 = b
      OBVIOUS
    <3> HIDE DEF b
    <3> QED
      BY <3>1, SepFound
  <2>3. b \in Nat /\ 1 <= b /\ b - 1 = d + 1
    OBVIOUS
  <2> HIDE DEF next, b
  <2>4. CASE next = Npos
    <3>1. \A i \in b .. n : text[i] # Sep
      <4>1. Npos \notin d + 1 .. n - 1
        BY <1>1 DEF Npos
      <4> QED
        BY <2>2, <2>4, <4>1
    <3>2. b <= n + 1 /\ n + 2 \in Nat /\ n < n + 2
      BY <1>1, <1>4 DEF b
    <3>3. Shows(text, <<>>, n + 2)
      BY <3>2, PastTheEnd
    <3>4. Shows(text, (IF b <= n THEN <<SubSeq(text, b, n)>> ELSE <<>>) \o <<>>, b)
      <4>1. b = 1 \/ text[b - 1] = Sep
        BY <2>3
      <4>2. n <= Len(text) /\ n = Len(text)
        BY <1>1
      <4> HIDE DEF n
      <4> QED
        BY <1>1, <2>3, <3>1, <3>2, <3>3, <4>1, <4>2, Segment
    <3>5. LastItem(text, d) = IF b <= n THEN <<SubSeq(text, b, n)>> ELSE <<>>
      <4>1. d # n - 1 <=> b <= n
        BY <1>1, <1>4 DEF b
      <4> QED
        BY <4>1 DEF LastItem, b
    <3>6. (IF b <= n THEN <<SubSeq(text, b, n)>> ELSE <<>>) \o <<>>
            = IF b <= n THEN <<SubSeq(text, b, n)>> ELSE <<>>
      <4>1. b <= n => SubSeq(text, b, n) \in Seq(TextCharacters)
        BY <1>1, <2>3, RunTyped
      <4>2. (IF b <= n THEN <<SubSeq(text, b, n)>> ELSE <<>>) \in Seq(Seq(TextCharacters))
        BY <4>1
      <4> QED
        BY <4>2, ConcatSimplifications
    <3> QED
      BY <2>1, <2>4, <3>4, <3>5, <3>6 DEF b
  <2>5. CASE next # Npos
    <3>1. /\ next \in d + 1 .. n - 1 /\ text[next + 1] = Sep
          /\ \A i \in b .. next : text[i] # Sep
      BY <2>2, <2>5
    <3>2. next \in Nat /\ b <= next + 1 /\ next <= n
      BY <1>1, <3>1 DEF b
    <3>3. Right(next)
      BY <1>4, <3>1
    <3>4. Shows(text, f[next], next + 2)
      BY <3>1, <3>3
    <3>5. Shows(text, (IF b <= next THEN <<SubSeq(text, b, next)>> ELSE <<>>) \o f[next], b)
      BY <1>4, <2>3, <3>1, <3>2, <3>4, Segment
    <3>6. next - d - 1 = next - b + 1
      BY <3>2 DEF b
    <3>7. Item(text, d + 1, next - d - 1)
            = IF b <= next THEN <<SubSeq(text, b, next)>> ELSE <<>>
      <4>1. Item(text, b - 1, next - b + 1)
              = IF b <= next THEN <<SubSeq(text, b, next)>> ELSE <<>>
        BY <2>3, <3>2, ItemOf
      <4> HIDE DEF Right, T
      <4> QED
        BY <2>3, <3>6, <4>1
    <3> QED
      BY <2>1, <2>5, <3>5, <3>7 DEF b
  <2> QED
    BY <2>4, <2>5
<1>5. first \in T
  <2>1. T \in SUBSET Nat /\ first \in 0 .. n
    BY <1>1
  <2> HIDE DEF T, n
  <2> QED
    BY <1>1, <1>3, <1>4, <2>1, Downwards
<1>6. Right(first)
  BY <1>1, <1>5
<1> QED
  BY <1>2, <1>6

\* decode_opencl_list() finds the runs of any text.
LEMMA DecodesRuns ==
  ASSUME NEW text \in Seq(TextCharacters)
  PROVE  DecodeOpenclList(text) = Runs(text)
<1> DEFINE n == Len(text)
           first == FindSep(text, 0)
           Begins(e, items) == (IF 1 <= e THEN <<SubSeq(text, 1, e)>> ELSE <<>>) \o items
<1>1. n \in Nat
  BY LenProperties
<1>2. \/ first = Npos /\ \A i \in 1 .. n : text[i] # Sep
      \/ /\ first \in 0 .. n - 1 /\ text[first + 1] = Sep
         /\ \A i \in 1 .. first : text[i] # Sep
  BY SepFound
<1>3. DecodeOpenclList(text) =
        IF n = 0 THEN <<>>
        ELSE IF first = Npos THEN <<text>> ELSE Item(text, 0, first) \o Middle(text, first)
  BY DEF DecodeOpenclList
<1> SUFFICES Shows(text, DecodeOpenclList(text), 1)
  BY ShowsRuns
<1> HIDE DEF n, first
<1>4. CASE n = 0
  <2>1. Shows(text, <<>>, 1)
    <3>1. 1 \in Nat /\ Len(text) < 1
      BY <1>4 DEF n
    <3> QED
      BY <3>1, PastTheEnd
  <2> QED
    BY <1>3, <1>4, <2>1
<1>5. CASE n # 0 /\ first = Npos
  <2>1. \A i \in 1 .. n : text[i] # Sep
    <3>1. Npos \notin 0 .. n - 1
      BY <1>1 DEF Npos
    <3> QED
      BY <1>2, <1>5, <3>1
  <2>2. Shows(text, <<>>, n + 2)
    BY <1>1, PastTheEnd DEF n
  <2>3. Shows(text, Begins(n, <<>>), 1)
    <3>1. 1 \in Nat /\ 1 <= 1 /\ 1 <= n + 1 /\ n <= n
      BY <1>1
    <3> QED
      BY <1>1, <2>1, <2>2, <3>1, Segment DEF n
  <2>4. Begins(n, <<>>) = <<text>>
    <3>1. SubSeq(text, 1, n) = text
      BY SubSeqFull DEF n
    <3>2. 1 <= n
      BY <1>1, <1>5
    <3>3. <<text>> \in Seq(Seq(TextCharacters))
      OBVIOUS
    <3>4. <<text>> \o <<>> = <<text>>
      BY <3>3, ConcatSimplifications
    <3> QED
      BY <3>1, <3>2, <3>4
  <2> HIDE DEF Begins
  <2> QED
    BY <1>3, <1>5, <2>3, <2>4
<1>6. CASE n # 0 /\ first # Npos
  <2>1. /\ first \in 0 .. n - 1 /\ text[first + 1] = Sep
        /\ \A i \in 1 .. first : text[i] # Sep
    BY <1>2, <1>6
  <2>2. first \in Nat /\ 1 <= first + 1 /\ first <= n
    BY <1>1, <2>1
  <2>3. Shows(text, Middle(text, first), first + 2)
    BY <2>1, MiddleShows DEF n
  <2>4. Shows(text, Begins(first, Middle(text, first)), 1)
    <3>1. 1 \in Nat /\ 1 <= 1
      OBVIOUS
    <3> QED
      BY <2>1, <2>2, <2>3, <3>1, Segment DEF n
  <2>5. Item(text, 0, first) = IF 1 <= first THEN <<SubSeq(text, 1, first)>> ELSE <<>>
    <3>1. first - 1 + 1 = first /\ 1 - 1 = 0 /\ 1 \in Nat /\ 1 <= 1
      BY <2>2
    <3> QED
      BY <2>2, <3>1, ItemOf
  <2> QED
    BY <1>3, <1>6, <2>4, <2>5
<1> QED
  BY <1>4, <1>5, <1>6

\* The last list decoded was one of characters, and its items are the result.
ListsDecoded ==
  call.op = "decode" =>
    call.text \in Seq(TextCharacters) /\ call.result = DecodeOpenclList(call.text)

LEMMA DecodeInvariant == CallSpec => []ListsDecoded
<1>1. CallInit => ListsDecoded
  BY DEF CallInit, NoCall, ListsDecoded
<1>2. ListsDecoded /\ [CallNext]_call => ListsDecoded'
  <2> SUFFICES ASSUME ListsDecoded, [CallNext]_call PROVE ListsDecoded'
    OBVIOUS
  <2>1. ASSUME NEW text \in Texts, DecodeList(text) PROVE ListsDecoded'
    <3>1. PICK n \in 0 .. MaxText : text \in [1 .. n -> TextCharacters]
      BY DEF Texts, TextCharacters
    <3>2. n \in Nat
      BY ConversionsAssumption
    <3>3. text \in Seq(TextCharacters)
      BY <3>1, <3>2, SeqDef
    <3> QED
      BY <2>1, <3>3 DEF DecodeList, ListsDecoded
  <2>2. ASSUME NEW names, NEW devices, RequestBuiltInKernels(names, devices)
        PROVE  ListsDecoded'
    BY <2>2 DEF RequestBuiltInKernels, ListsDecoded
  <2>3. ASSUME NEW how, NEW source, NEW dest, NEW size, NEW moves,
               Rectangle(how, source, dest, size, moves)
        PROVE  ListsDecoded'
    BY <2>3 DEF Rectangle, ListsDecoded
  <2>4. ASSUME NEW origin, NEW row, NEW size,
               ReadImage1D(origin, size) \/ ReadImage2D(origin, row, size)
        PROVE  ListsDecoded'
    BY <2>4 DEF ReadImage1D, ReadImage2D, ListsDecoded
  <2>5. CASE UNCHANGED call
    BY <2>5 DEF ListsDecoded
  <2> QED
    BY <2>1, <2>2, <2>3, <2>4, <2>5
    DEF CallNext, ReadBufferRect, WriteBufferRect, CopyBufferRect
<1> QED
  BY <1>1, <1>2, PTL DEF CallSpec

\* decode_opencl_list() returns the names in any string that OpenCL gives, in their order,
\* whatever spurious separators there are (common.cpp:174 and 182).
THEOREM ItemsTheorem == CallSpec => []DecodesItems
<1>1. ListsDecoded => DecodesItems
  BY DecodesRuns DEF ListsDecoded, DecodesItems
<1> QED
  BY <1>1, DecodeInvariant, PTL
-----------------------------------------------------------------------------
(* Versions. *)

\* A function of the numbers up to a bound that is defined by what it is for the number
\* before exists.
Accumulates(f, top, base, Step) ==
  f = [i \in 0 .. top |-> IF i = 0 THEN base ELSE Step[<<f[i - 1], i>>]]

LEMMA Accumulation ==
  ASSUME NEW top \in Nat, NEW V, NEW base \in V, NEW Step \in [V \X (1 .. top) -> V]
  PROVE  \E f \in [0 .. top -> V] : Accumulates(f, top, base, Step)
<1> DEFINE Exists(n) == \E f \in [0 .. n -> V] : Accumulates(f, n, base, Step)
           T == {n \in 0 .. top : ~Exists(n)}
<1> SUFFICES ASSUME ~Exists(top)
             PROVE  FALSE
  OBVIOUS
<1>1. T \in SUBSET Nat /\ top \in T
  OBVIOUS
<1> HIDE DEF Exists
<1>2. PICK n \in T : \A m \in T : n <= m
  <2> HIDE DEF T
  <2> QED
    BY <1>1, Least
<1>3. n \in 0 .. top /\ ~Exists(n)
  BY <1>2
<1>4. Exists(0)
  <2> DEFINE f == [i \in 0 .. 0 |-> base]
  <2>1. f \in [0 .. 0 -> V] /\ Accumulates(f, 0, base, Step)
    BY DEF Accumulates
  <2> HIDE DEF f
  <2> QED
    BY <2>1 DEF Exists
<1>5. n - 1 \in 0 .. top /\ n - 1 < n /\ n \in 1 .. top /\ n \in Nat
  <2>1. n # 0
    BY <1>3, <1>4
  <2> QED
    BY <1>3, <2>1
<1>6. Exists(n - 1)
  BY <1>2, <1>5
<1>7. PICK f \in [0 .. n - 1 -> V] : Accumulates(f, n - 1, base, Step)
  BY <1>6 DEF Exists
<1> DEFINE g == [i \in 0 .. n |-> IF i = n THEN Step[<<f[n - 1], n>>] ELSE f[i]]
<1>8. f[n - 1] \in V /\ Step[<<f[n - 1], n>>] \in V
  BY <1>5, <1>7
<1>9. g \in [0 .. n -> V]
  BY <1>5, <1>7, <1>8
<1>10. ASSUME NEW i \in 0 .. n
       PROVE  g[i] = IF i = 0 THEN base ELSE Step[<<g[i - 1], i>>]
  <2>1. CASE i = n
    <3>1. i # 0 /\ i - 1 \in 0 .. n - 1 /\ i - 1 # n
      BY <1>5, <2>1
    <3>2. g[i] = Step[<<f[n - 1], n>>] /\ g[i - 1] = f[n - 1]
      BY <2>1, <3>1
    <3> HIDE DEF g
    <3> QED
      BY <2>1, <3>1, <3>2
  <2>2. CASE i # n
    <3>1. i \in 0 .. n - 1 /\ g[i] = f[i] /\ (i # 0 => g[i - 1] = f[i - 1])
      BY <2>2
    <3>2. f[i] = IF i = 0 THEN base ELSE Step[<<f[i - 1], i>>]
      BY <1>7, <3>1 DEF Accumulates
    <3> HIDE DEF g
    <3> QED
      BY <3>1, <3>2
  <2> QED
    BY <2>1, <2>2
<1>11. g = [i \in 0 .. n |-> g[i]]
  OBVIOUS
<1> HIDE DEF g
<1>12. Accumulates(g, n, base, Step)
  BY <1>10, <1>11 DEF Accumulates
<1> QED
  BY <1>3, <1>9, <1>12 DEF Exists

LEMMA DigitTyped ==
  ASSUME NEW c \in Digits
  PROVE  DigitValue[c] \in 0 .. 9 /\ c \notin {".", " ", "-", "+"}
<1>1. DOMAIN DigitOf = 1 .. 10
  BY DEF DigitOf
<1>2. PICK i \in 1 .. 10 : DigitOf[i] = c
  BY <1>1 DEF Digits, Range
<1>3. i - 1 \in 0 .. 9 /\ DigitOf[(i - 1) + 1] = c
  BY <1>2
<1>4. DigitValue[c] = CHOOSE n \in 0 .. 9 : DigitOf[n + 1] = c
  BY DEF DigitValue
<1>5. DigitValue[c] \in 0 .. 9
  BY <1>3, <1>4
<1>6. DigitOf[i] \notin {".", " ", "-", "+"}
  <2>1. \/ i = 1 \/ i = 2 \/ i = 3 \/ i = 4 \/ i = 5
        \/ i = 6 \/ i = 7 \/ i = 8 \/ i = 9 \/ i = 10
    OBVIOUS
  <2>2. /\ DigitOf[1] = "0" /\ DigitOf[2] = "1" /\ DigitOf[3] = "2" /\ DigitOf[4] = "3"
        /\ DigitOf[5] = "4" /\ DigitOf[6] = "5" /\ DigitOf[7] = "6" /\ DigitOf[8] = "7"
        /\ DigitOf[9] = "8" /\ DigitOf[10] = "9"
    BY DEF DigitOf
  <2> QED
    BY <2>1, <2>2
<1> QED
  BY <1>2, <1>5, <1>6

LEMMA NumberTyped ==
  ASSUME NEW digits \in Seq(Digits)
  PROVE  Number(digits) \in Nat
<1> DEFINE k == Len(digits)
           Step == [p \in Nat \X (1 .. k) |-> 10 * p[1] + DigitValue[digits[p[2]]]]
<1>1. k \in Nat
  BY LenProperties
<1>2. ASSUME NEW i \in 1 .. k
      PROVE  DigitValue[digits[i]] \in Nat
  <2>1. digits[i] \in Digits
    BY ElementOfSeq
  <2>2. DigitValue[digits[i]] \in 0 .. 9
    BY <2>1, DigitTyped
  <2> QED
    BY <2>2
<1>3. Step \in [Nat \X (1 .. k) -> Nat]
  BY <1>2
<1>4. \A n \in Nat, i \in 1 .. k : Step[<<n, i>>] = 10 * n + DigitValue[digits[i]]
  OBVIOUS
<1>5. PICK f \in [0 .. k -> Nat] : Accumulates(f, k, 0, Step)
  <2> HIDE DEF Step, k
  <2> QED
    BY <1>1, <1>3, Accumulation
<1>6. \A i \in 0 .. k : f[i] = IF i = 0 THEN 0 ELSE 10 * f[i - 1] + DigitValue[digits[i]]
  <2> TAKE i \in 0 .. k
  <2>1. f[i] = IF i = 0 THEN 0 ELSE Step[<<f[i - 1], i>>]
    BY <1>5 DEF Accumulates
  <2>2. i # 0 => i \in 1 .. k /\ i - 1 \in 0 .. k
    BY <1>1
  <2>3. i # 0 => f[i - 1] \in Nat
    BY <1>5, <2>2
  <2> HIDE DEF Step
  <2> QED
    BY <1>4, <2>1, <2>2, <2>3
<1>7. f = [i \in 0 .. k |-> f[i]]
  BY <1>5
<1> DEFINE upTo[i \in 0 .. Len(digits)] ==
             IF i = 0 THEN 0 ELSE 10 * upTo[i - 1] + DigitValue[digits[i]]
<1>8. f = [i \in 0 .. Len(digits) |->
             IF i = 0 THEN 0 ELSE 10 * f[i - 1] + DigitValue[digits[i]]]
  BY <1>6, <1>7
<1>9. upTo = [i \in 0 .. Len(digits) |->
                IF i = 0 THEN 0 ELSE 10 * upTo[i - 1] + DigitValue[digits[i]]]
  BY <1>8
<1>10. Number(digits) = upTo[Len(digits)]
  BY DEF Number
<1> HIDE DEF upTo, Step
<1> DEFINE N == {i \in 0 .. k : upTo[i] \in Nat}
           T == {i \in 0 .. k : upTo[i] \notin Nat}
<1>11. T = {}
  <2> SUFFICES ASSUME T # {}
               PROVE  FALSE
    OBVIOUS
  <2>1. T \in SUBSET Nat
    OBVIOUS
  <2>2. PICK n \in T : \A m \in T : n <= m
    <3> HIDE DEF T
    <3> QED
      BY <2>1, Least
  <2>3. upTo[0] = 0 /\ n \in 0 .. k /\ n # 0 /\ n - 1 \in 0 .. k
    BY <1>1, <1>9, <2>2
  <2>4. upTo[n - 1] \in Nat
    BY <2>2, <2>3
  <2>5. upTo[n] = 10 * upTo[n - 1] + DigitValue[digits[n]]
    BY <1>9, <2>3
  <2>6. DigitValue[digits[n]] \in Nat
    BY <1>1, <1>2, <2>3
  <2>7. upTo[n] \in Nat
    BY <2>4, <2>5, <2>6
  <2> QED
    BY <2>2, <2>7
<1> QED
  BY <1>1, <1>10, <1>11

\* find(): the first place of a character from an index on, counted from 0.
LEMMA CharacterFound ==
  ASSUME NEW text, Len(text) \in Nat, NEW character, NEW from \in Nat,
         NEW k \in from .. Len(text) - 1, text[k + 1] = character,
         \A j \in from .. k - 1 : text[j + 1] # character
  PROVE  FindCharacter(text, character, from) = k
<1> DEFINE hits == {i \in from .. Len(text) - 1 : text[i + 1] = character}
<1>1. k \in hits /\ k \in Nat
  OBVIOUS
<1>2. ASSUME NEW i \in hits
      PROVE  i \in Nat /\ k <= i
  <2>1. i \in from .. Len(text) - 1 /\ text[i + 1] = character
    OBVIOUS
  <2>2. ~(i \in from .. k - 1)
    BY <2>1
  <2> QED
    BY <2>1, <2>2
<1>3. FindCharacter(text, character, from) = IF hits = {} THEN Npos ELSE Min(hits)
  BY DEF FindCharacter
<1> HIDE DEF hits
<1>4. Min(hits) \in hits /\ \A y \in hits : Min(hits) <= y
  BY <1>1, <1>2 DEF Min
<1>5. Min(hits) = k
  <2>1. Min(hits) \in Nat /\ k <= Min(hits) /\ Min(hits) <= k
    BY <1>1, <1>2, <1>4
  <2> QED
    BY <1>1, <2>1
<1> QED
  BY <1>1, <1>3, <1>5

\* A part of what follows something.
LEMMA PartOfRest ==
  ASSUME NEW A, NEW before \in Seq(A), NEW rest \in Seq(A),
         NEW i \in Nat \ {0}, NEW j \in 0 .. Len(rest)
  PROVE  SubSeq(before \o rest, Len(before) + i, Len(before) + j) = SubSeq(rest, i, j)
<1> DEFINE m == Len(before)
           n == Len(rest)
           text == before \o rest
<1>1. /\ m \in Nat /\ n \in Nat /\ text \in Seq(A) /\ Len(text) = m + n
      /\ \A k \in 1 .. m + n : text[k] = IF k <= m THEN before[k] ELSE rest[k - m]
  BY LenProperties, ConcatProperties
<1> HIDE DEF text, m, n
<1>2. ASSUME NEW k \in 1 .. n
      PROVE  m + k \in 1 .. m + n /\ text[m + k] = rest[k]
  <2>1. m + k \in 1 .. m + n /\ ~(m + k <= m) /\ (m + k) - m = k
    BY <1>1
  <2> QED
    BY <1>1, <2>1
<1>3. i \in Nat /\ i # 0 /\ j \in 0 .. n
  BY DEF n
<1>4. CASE j < i
  <2>1. m + j < m + i /\ m + j \in Int /\ m + i \in Int /\ i \in Int /\ j \in Int
    BY <1>1, <1>3, <1>4
  <2> QED
    BY <1>4, <2>1, SubSeqEmpty DEF text, m
<1>5. CASE i <= j
  <2> DEFINE long == j - i + 1
             s == SubSeq(text, m + i, m + j)
             t == SubSeq(rest, i, j)
  <2>1. /\ m + i \in Int /\ m + j \in Int /\ i \in Int /\ j \in Int /\ m + i <= m + j
        /\ long \in Nat /\ (m + j) - (m + i) + 1 = long
    BY <1>1, <1>3, <1>5
  <2>2. \A k \in m + i .. m + j : text[k] \in A
    <3> TAKE k \in m + i .. m + j
    <3>1. k \in 1 .. Len(text)
      BY <1>1, <1>3
    <3> QED
      BY <1>1, <3>1, ElementOfSeq
  <2>3. \A k \in i .. j : rest[k] \in A
    <3> TAKE k \in i .. j
    <3>1. k \in 1 .. n
      BY <1>1, <1>3
    <3> QED
      BY <3>1, ElementOfSeq DEF n
  <2>4. s \in Seq(A) /\ Len(s) = long /\ \A k \in 1 .. long : s[k] = text[m + i + k - 1]
    BY <2>1, <2>2, SubSeqProperties
  <2>5. t \in Seq(A) /\ Len(t) = long /\ \A k \in 1 .. long : t[k] = rest[i + k - 1]
    BY <1>5, <2>1, <2>3, SubSeqProperties
  <2>6. \A k \in 1 .. long : s[k] = t[k]
    <3> TAKE k \in 1 .. long
    <3>1. i + k - 1 \in 1 .. n /\ m + (i + k - 1) = m + i + k - 1
      BY <1>1, <1>3, <1>5
    <3> HIDE DEF s, t
    <3> QED
      BY <1>2, <2>4, <2>5, <3>1
  <2>7. s = t
    <3> HIDE DEF s, t, long
    <3> QED
      BY <2>4, <2>5, <2>6, SeqEqual
  <2> QED
    BY <2>7 DEF text, m
<1>6. j < i \/ i <= j
  BY <1>1, <1>3
<1> QED
  BY <1>4, <1>5, <1>6

\* A part of a text that is a number.
LEMMA NumberPart ==
  ASSUME NEW A, NEW text \in Seq(A), NEW i \in 1 .. Len(text) + 1, NEW j \in 0 .. Len(text),
         IsNumber(SubSeq(text, i, j))
  PROVE  /\ i <= j /\ SubSeq(text, i, j) \in Seq(Digits) /\ SubSeq(text, i, j) # <<>>
         /\ \A k \in i .. j : text[k] \notin {".", " "}
<1> DEFINE part == SubSeq(text, i, j)
           long == j - i + 1
<1>1. part # <<>> /\ Range(part) \subseteq Digits
  BY DEF IsNumber
<1>2. Len(text) \in Nat /\ i \in Int /\ j \in Int
  BY LenProperties
<1>3. i <= j
  <2> SUFFICES ASSUME j < i PROVE FALSE
    BY <1>2
  <2> QED
    BY <1>1, <1>2, SubSeqEmpty
<1>4. part \in Seq(A) /\ Len(part) = long /\ \A k \in 1 .. long : part[k] = text[i + k - 1]
  <2>1. \A k \in i .. j : text[k] \in A
    <3> TAKE k \in i .. j
    <3>1. k \in 1 .. Len(text)
      BY <1>2
    <3> QED
      BY <3>1, ElementOfSeq
  <2> QED
    BY <1>2, <1>3, <2>1, SubSeqProperties
<1> HIDE DEF part
<1>5. long \in Nat /\ DOMAIN part = 1 .. long
  BY <1>2, <1>3, <1>4, LenProperties
<1>6. \A k \in 1 .. long : part[k] \in Digits
  BY <1>1, <1>5 DEF Range
<1>7. part \in Seq(Digits)
  <2>1. part \in [1 .. long -> Digits]
    <3>1. part = [k \in 1 .. long |-> part[k]]
      BY <1>4, <1>5, LenProperties
    <3> QED
      BY <1>6, <3>1
  <2> HIDE DEF long
  <2> QED
    BY <1>5, <2>1, SeqDef
<1>8. ASSUME NEW k \in i .. j
      PROVE  text[k] \notin {".", " "}
  <2>1. k - i + 1 \in 1 .. long /\ i + (k - i + 1) - 1 = k
    BY <1>2
  <2>2. text[k] \in Digits
    BY <1>4, <1>6, <2>1
  <2> QED
    BY <2>2, DigitTyped
<1> QED
  BY <1>1, <1>3, <1>7, <1>8 DEF part

\* std::stoul and what is made of its answer, when there is nothing but digits.
LEMMA NumberDecoded ==
  ASSUME NEW digits \in Seq(Digits), digits # <<>>, Number(digits) < UIntMod
  PROVE  DecodeNumber(digits) = [is |-> "number", value |-> Number(digits)]
<1> DEFINE n == Number(digits)
           k == Len(digits)
<1>1. n \in Nat /\ n < UIntMod /\ n < ULongMod /\ UIntMod \in Nat \ {0} /\ ULongMod \in Nat
  BY NumberTyped, VersionsAssumption
<1>2. /\ k \in Nat \ {0} /\ DOMAIN digits = 1 .. k
      /\ \A i \in 1 .. k : digits[i] \in Digits
  BY EmptySeq, LenProperties, ElementOfSeq
<1>3. digits[1] \notin {" ", "-", "+"} /\ Head(digits) = digits[1]
  <2>1. digits[1] \in Digits
    BY <1>2
  <2>2. digits[1] \notin {" ", "-", "+"}
    BY <2>1, DigitTyped
  <2>3. Head(digits) = digits[1]
    OBVIOUS
  <2> QED
    BY <2>2, <2>3
<1>4. Prefix(digits, {" "}) = <<>>
  <2> DEFINE ends == {i \in DOMAIN digits : digits[i] \notin {" "}}
  <2>1. 1 \in ends /\ \A i \in ends : i \in Nat /\ 1 <= i
    <3>1. 1 \in 1 .. k /\ \A i \in 1 .. k : i \in Nat /\ 1 <= i
      BY <1>2
    <3> HIDE DEF k
    <3> QED
      BY <1>2, <1>3, <3>1
  <2>2. Prefix(digits, {" "}) = SubSeq(digits, 1, Min(ends) - 1)
    BY <2>1 DEF Prefix
  <2> HIDE DEF ends
  <2>3. Min(ends) \in ends /\ \A y \in ends : Min(ends) <= y
    BY <2>1 DEF Min
  <2>4. Min(ends) = 1
    BY <2>1, <2>3
  <2>5. SubSeq(digits, 1, 1 - 1) = <<>>
    BY SubSeqEmpty
  <2> QED
    BY <2>2, <2>4, <2>5
<1>5. Drop(digits, 0) = digits
  BY SubSeqFull DEF Drop
<1>6. Prefix(digits, Digits) = digits
  BY <1>2 DEF Prefix
<1> HIDE DEF n, k
<1>7. Stoul(digits) = n
  <2>1. Drop(digits, Len(Prefix(digits, {" "}))) = digits
    BY <1>4, <1>5, EmptySeq
  <2>2. ~(n >= ULongMod)
    BY <1>1
  <2> QED
    BY <1>3, <1>6, <2>1, <2>2 DEF Stoul, n
<1>8. n # Invalid /\ n # OutOfRange
  BY <1>1 DEF Invalid, OutOfRange
<1>9. Narrowed(n) = n
  BY <1>1 DEF Narrowed
<1> QED
  BY <1>7, <1>8, <1>9 DEF DecodeNumber, n

\* A number, a dot, a number, and if so a space.
VersionParts(body, hasVendor, dot, space) ==
  LET major == SubSeq(body, 1, dot - 1)
      minor == SubSeq(body, dot + 1, space - 1)
  IN  /\ body[dot] = "."
      /\ IF hasVendor THEN space <= Len(body) /\ body[space] = " "
         ELSE space = Len(body) + 1
      /\ IsNumber(major) /\ IsNumber(minor)
      /\ Number(major) < UIntMod /\ Number(minor) < UIntMod

\* A preamble, a number, a dot, a number, and if so a space and the vendor's information.
LEMMA VersionDecoded ==
  ASSUME NEW A, NEW preamble \in Seq(A), NEW body \in Seq(A), NEW hasVendor \in BOOLEAN,
         NEW dot \in 1 .. Len(body), NEW space \in 1 .. Len(body) + 1,
         VersionParts(body, hasVendor, dot, space)
  PROVE  DecodeVersionString(preamble \o body, preamble, hasVendor)
           = Version(Number(SubSeq(body, 1, dot - 1)),
                     Number(SubSeq(body, dot + 1, space - 1)), Drop(body, space))
<1> DEFINE text == preamble \o body
           m == Len(preamble)
           n == Len(body)
           major == SubSeq(body, 1, dot - 1)
           minor == SubSeq(body, dot + 1, space - 1)
           dotAt == FindCharacter(text, ".", DotFrom(preamble))
           spaceAt == FindCharacter(text, " ", dotAt + 1)
<1>1. /\ body[dot] = "."
      /\ hasVendor => space <= n /\ body[space] = " "
      /\ ~hasVendor => space = n + 1
      /\ IsNumber(major) /\ IsNumber(minor)
      /\ Number(major) < UIntMod /\ Number(minor) < UIntMod
  BY DEF VersionParts
<1>2. /\ m \in Nat /\ n \in Nat /\ dot \in 1 .. n /\ text \in Seq(A) /\ Len(text) = m + n
      /\ \A k \in 1 .. m + n : text[k] = IF k <= m THEN preamble[k] ELSE body[k - m]
  BY LenProperties, ConcatProperties
<1>3. space \in 1 .. n + 1 /\ dot \in Nat /\ space \in Nat
  <2>1. space \in 1 .. n + 1
    OBVIOUS
  <2> HIDE DEF n, m, text
  <2> QED
    BY <1>2, <2>1
<1>4. /\ 1 <= dot - 1 /\ major \in Seq(Digits) /\ major # <<>>
      /\ \A k \in 1 .. dot - 1 : body[k] \notin {".", " "}
  <2>1. 1 \in 1 .. Len(body) + 1 /\ dot - 1 \in 0 .. Len(body)
    BY <1>2
  <2> QED
    BY <1>1, <2>1, NumberPart
<1>5. /\ dot + 1 <= space - 1 /\ minor \in Seq(Digits) /\ minor # <<>>
      /\ \A k \in dot + 1 .. space - 1 : body[k] \notin {".", " "}
  <2>1. dot + 1 \in 1 .. Len(body) + 1 /\ space - 1 \in 0 .. Len(body)
    BY <1>2, <1>3
  <2> QED
    BY <1>1, <2>1, NumberPart
<1>6. /\ DecodeNumber(major) = [is |-> "number", value |-> Number(major)]
      /\ DecodeNumber(minor) = [is |-> "number", value |-> Number(minor)]
  BY <1>1, <1>4, <1>5, NumberDecoded
<1> HIDE DEF text, m, n, major, minor
<1> DEFINE Ordered ==
             /\ m \in Nat /\ n \in Nat /\ dot \in Nat /\ space \in Nat /\ Len(text) = m + n
             /\ 2 <= dot /\ dot + 2 <= space /\ space <= n + 1
             /\ hasVendor => space <= n
             /\ ~hasVendor => space = n + 1
<1>7. Ordered
  <2>1. 1 <= dot - 1 /\ dot + 1 <= space - 1
    BY <1>4, <1>5
  <2>2. dot \in Nat /\ space \in 1 .. n + 1 /\ m \in Nat /\ n \in Nat /\ Len(text) = m + n
    BY <1>2, <1>3
  <2>3. (hasVendor => space <= n) /\ (~hasVendor => space = n + 1)
    BY <1>1
  <2> QED
    BY <2>1, <2>2, <2>3
<1>8. ASSUME NEW k \in 1 .. n
      PROVE  m + k \in 1 .. m + n /\ text[m + k] = body[k]
  <2>1. m + k \in 1 .. m + n /\ ~(m + k <= m) /\ (m + k) - m = k
    BY <1>2
  <2> QED
    BY <1>2, <2>1
<1>9. dotAt = m + dot - 1
  <2> DEFINE from == m + 1
             k == m + dot - 1
  <2>1. /\ from \in Nat /\ k \in from .. Len(text) - 1 /\ k + 1 = m + dot
        /\ dot \in 1 .. n
    BY <1>7
  <2>2. text[k + 1] = "."
    BY <1>1, <1>8, <2>1
  <2>3. \A j \in from .. k - 1 : text[j + 1] # "."
    <3> TAKE j \in from .. k - 1
    <3>1. j + 1 - m \in 1 .. dot - 1 /\ m + (j + 1 - m) = j + 1 /\ j + 1 - m \in 1 .. n
      BY <1>7
    <3>2. text[j + 1] = body[j + 1 - m]
      BY <1>8, <3>1
    <3> QED
      BY <1>4, <3>1, <3>2
  <2>4. DotFrom(preamble) = from
    BY DEF DotFrom, m
  <2> HIDE DEF from, k
  <2>5. Len(text) \in Nat
    BY <1>2
  <2>6. dotAt = k
    BY <2>1, <2>2, <2>3, <2>4, <2>5, CharacterFound
  <2> QED
    BY <2>6 DEF k
<1>10. hasVendor => spaceAt = m + space - 1
  <2> SUFFICES ASSUME hasVendor
               PROVE  spaceAt = m + space - 1
    OBVIOUS
  <2> DEFINE from == m + dot
             k == m + space - 1
  <2>1. space \in 1 .. n /\ body[space] = " "
    <3>1. body[space] = " "
      BY <1>1
    <3>2. space \in 1 .. n
      BY <1>7
    <3> QED
      BY <3>1, <3>2
  <2>2. from \in Nat /\ k \in from .. Len(text) - 1 /\ k + 1 = m + space
    BY <1>7
  <2>3. text[k + 1] = " "
    BY <1>8, <2>1, <2>2
  <2>4. \A j \in from .. k - 1 : text[j + 1] # " "
    <3> TAKE j \in from .. k - 1
    <3>1. /\ j + 1 - m \in dot + 1 .. space - 1 /\ m + (j + 1 - m) = j + 1
          /\ j + 1 - m \in 1 .. n
      BY <1>7
    <3>2. text[j + 1] = body[j + 1 - m]
      BY <1>8, <3>1
    <3> QED
      BY <1>5, <3>1, <3>2
  <2>5. dotAt + 1 = from
    BY <1>7, <1>9
  <2> HIDE DEF from, k, dotAt
  <2>6. Len(text) \in Nat
    BY <1>2
  <2>7. spaceAt = FindCharacter(text, " ", from)
    BY <2>5
  <2> HIDE DEF spaceAt
  <2>8. FindCharacter(text, " ", from) = k
    <3>1. from \in Nat /\ k \in from .. Len(text) - 1
      BY <2>2
    <3> DEFINE blank == " "
    <3>2. text[k + 1] = blank /\ \A j \in from .. k - 1 : text[j + 1] # blank
      BY <2>3, <2>4
    <3> HIDE DEF blank
    <3>3. FindCharacter(text, blank, from) = k
      BY <2>6, <3>1, <3>2, CharacterFound
    <3> QED
      BY <3>3 DEF blank
  <2> QED
    BY <2>7, <2>8 DEF k
<1> HIDE DEF dotAt, spaceAt
<1>11. SubSeq(text, m + 1, dotAt) = major
  <2>1. dot - 1 \in 0 .. Len(body) /\ m + (dot - 1) = dotAt
    BY <1>7, <1>9 DEF n
  <2>2. SubSeq(text, m + 1, m + (dot - 1)) = SubSeq(body, 1, dot - 1)
    BY <2>1, PartOfRest DEF text, m
  <2> QED
    BY <2>1, <2>2 DEF major
<1>12. SubSeq(text, dotAt + 2, IF hasVendor THEN spaceAt ELSE Len(text)) = minor
  <2>1. /\ space - 1 \in 0 .. Len(body) /\ m + (dot + 1) = dotAt + 2
        /\ dot + 1 \in Nat \ {0}
    BY <1>7, <1>9 DEF n
  <2>2. (IF hasVendor THEN spaceAt ELSE Len(text)) = m + (space - 1)
    BY <1>7, <1>10
  <2>3. SubSeq(text, m + (dot + 1), m + (space - 1)) = SubSeq(body, dot + 1, space - 1)
    BY <2>1, PartOfRest DEF text, m
  <2> QED
    BY <2>1, <2>2, <2>3 DEF minor
<1>13. (IF hasVendor THEN Drop(text, spaceAt + 1) ELSE <<>>) = Drop(body, space)
  <2>1. CASE hasVendor
    <3>1. /\ n \in 0 .. Len(body) /\ space + 1 \in Nat \ {0}
          /\ spaceAt + 1 + 1 = m + (space + 1) /\ Len(text) = m + n
      BY <1>7, <1>10, <2>1 DEF n
    <3>2. SubSeq(text, m + (space + 1), m + n) = SubSeq(body, space + 1, n)
      BY <3>1, PartOfRest DEF text, m
    <3> QED
      BY <2>1, <3>1, <3>2 DEF Drop, n
  <2>2. CASE ~hasVendor
    <3>1. Len(body) < space + 1 /\ space + 1 \in Int /\ Len(body) \in Int
      BY <1>7, <2>2 DEF n
    <3> QED
      BY <2>2, <3>1, SubSeqEmpty DEF Drop
  <2> QED
    BY <2>1, <2>2
<1>14. IsPrefix(preamble, text)
  <2>1. Len(preamble) <= Len(text)
    BY <1>2 DEF m
  <2>2. SubSeq(text, 1, m) = SubSeq(preamble, 1, m)
    <3>1. CASE m = 0
      BY <3>1, SubSeqEmpty
    <3>2. CASE m # 0
      BY <1>2, <3>2, SubSeqOfConcat1 DEF text, m
    <3> QED
      BY <3>1, <3>2
  <2> QED
    BY <2>1, <2>2 DEF IsPrefix, m
<1>15. ~(Len(text) < m + 3 + (IF hasVendor THEN 1 ELSE 0))
  BY <1>7
<1>16. dotAt # Npos /\ (hasVendor => spaceAt # Npos)
  BY <1>7, <1>9, <1>10 DEF Npos
<1> DEFINE decoded == DecodeVersionString(text, preamble, hasVendor)
<1>17. decoded = Version(DecodeNumber(major).value, DecodeNumber(minor).value, Drop(body, space))
  <2>1. DecodeNumber(major).is = "number" /\ DecodeNumber(minor).is = "number"
    BY <1>6
  <2> QED
    BY <1>11, <1>12, <1>13, <1>14, <1>15, <1>16, <2>1
    DEF DecodeVersionString, dotAt, spaceAt, m
<1> QED
  BY <1>6, <1>17 DEF text, major, minor

\* The last version string decoded began with its preamble, and was decoded.
VersionsDecoded ==
  call.op = "version" =>
    \E A : \E body \in Seq(A) :
      /\ call.preamble \in Seq(A) /\ call.hasVendor \in BOOLEAN
      /\ call.text = call.preamble \o body
      /\ call.result = DecodeVersionString(call.text, call.preamble, call.hasVendor)

LEMMA VersionInvariant == VersionSpec => []VersionsDecoded
<1>1. CallInit => VersionsDecoded
  BY DEF CallInit, NoCall, VersionsDecoded
<1>2. VersionsDecoded /\ [VersionNext]_call => VersionsDecoded'
  <2> SUFFICES ASSUME VersionsDecoded, [VersionNext]_call
               PROVE  VersionsDecoded'
    OBVIOUS
  <2>1. ASSUME NEW text \in VersionTexts, NEW preamble, NEW body, NEW hasVendor \in BOOLEAN,
               NEW A, preamble \in Seq(A), body \in Seq(A),
               DecodeVersion(preamble \o body, preamble, hasVendor)
        PROVE  VersionsDecoded'
    BY <2>1 DEF DecodeVersion, VersionsDecoded
  <2>2. ASSUME NEW text \in VersionTexts
        PROVE  /\ text \in Seq(Characters \cup {"C", " "})
               /\ <<"C", " ">> \in Seq(Characters \cup {"C", " "})
               /\ <<>> \in Seq(Characters \cup {"C", " "}) /\ text = <<>> \o text
    <3>1. PICK n \in 0 .. MaxVersionText : text \in [1 .. n -> Characters]
      BY DEF VersionTexts
    <3>2. n \in Nat
      BY VersionsAssumption
    <3>3. text \in Seq(Characters \cup {"C", " "})
      <4>1. text \in Seq(Characters)
        BY <3>1, <3>2, SeqDef
      <4> QED
        BY <4>1, SeqMonotonic
    <3>4. <<"C", " ">> \in Seq(Characters \cup {"C", " "})
      OBVIOUS
    <3> QED
      BY <3>3, <3>4, EmptySeq, ConcatEmptySeq
  <2>3. ASSUME NEW text \in VersionTexts, DecodeVersion(text, <<>>, FALSE)
        PROVE  VersionsDecoded'
    <3>1. text = <<>> \o text
      BY <2>2
    <3>2. DecodeVersion(<<>> \o text, <<>>, FALSE)
      BY <2>3, <3>1
    <3> QED
      BY <2>1, <2>2, <3>2
  <2>4. ASSUME NEW text \in VersionTexts,
               DecodeVersion(<<"C", " ">> \o text, <<"C", " ">>, TRUE)
        PROVE  VersionsDecoded'
    BY <2>1, <2>2, <2>4
  <2>5. CASE UNCHANGED call
    BY <2>5 DEF VersionsDecoded
  <2> QED
    BY <2>3, <2>4, <2>5 DEF VersionNext
<1> QED
  BY <1>1, <1>2, PTL DEF VersionSpec

\* decode_version_string() finds the two numbers and the vendor's information in any text
\* of the documented form, of any length, for any widths of unsigned int and unsigned
\* long (version.hpp:44).
THEOREM VersionsTheorem == VersionSpec => []DecodesVersions
<1>1. VersionsDecoded => DecodesVersions
  <2> SUFFICES ASSUME VersionsDecoded, call.op = "version"
               PROVE  LET body == Drop(call.text, Len(call.preamble)) IN
                      \A dot \in DOMAIN body, space \in 1 .. Len(body) + 1 :
                        LET major == SubSeq(body, 1, dot - 1)
                            minor == SubSeq(body, dot + 1, space - 1)
                        IN  /\ body[dot] = "."
                            /\ IF call.hasVendor THEN space <= Len(body) /\ body[space] = " "
                               ELSE space = Len(body) + 1
                            /\ IsNumber(major) /\ IsNumber(minor)
                            /\ Number(major) < UIntMod /\ Number(minor) < UIntMod
                            => call.result = Version(Number(major), Number(minor),
                                                     Drop(body, space))
    BY DEF DecodesVersions
  <2>1. PICK A : \E body \in Seq(A) :
          /\ call.preamble \in Seq(A) /\ call.hasVendor \in BOOLEAN
          /\ call.text = call.preamble \o body
          /\ call.result = DecodeVersionString(call.text, call.preamble, call.hasVendor)
    BY DEF VersionsDecoded
  <2>2. PICK body \in Seq(A) :
          /\ call.preamble \in Seq(A) /\ call.hasVendor \in BOOLEAN
          /\ call.text = call.preamble \o body
          /\ call.result = DecodeVersionString(call.text, call.preamble, call.hasVendor)
    BY <2>1
  <2>3. Drop(call.text, Len(call.preamble)) = body
    <3> DEFINE m == Len(call.preamble)
               n == Len(body)
    <3>1. /\ m \in Nat /\ n \in Nat /\ n \in 0 .. Len(body) /\ 1 \in Nat \ {0}
          /\ Len(call.text) = m + n
      BY <2>2, LenProperties, ConcatProperties
    <3>2. SubSeq(call.text, m + 1, m + n) = SubSeq(body, 1, n)
      BY <2>2, <3>1, PartOfRest
    <3> QED
      BY <3>1, <3>2, SubSeqFull DEF Drop
  <2> QED
    <3>1. DOMAIN body = 1 .. Len(body)
      BY LenProperties
    <3>2. \A dot \in DOMAIN body, space \in 1 .. Len(body) + 1 :
            VersionParts(body, call.hasVendor, dot, space) =>
              call.result = Version(Number(SubSeq(body, 1, dot - 1)),
                                    Number(SubSeq(body, dot + 1, space - 1)),
                                    Drop(body, space))
      BY <2>2, <3>1, VersionDecoded
    <3> QED
      BY <2>3, <3>2 DEF VersionParts
<1> QED
  BY <1>1, VersionInvariant, PTL
-----------------------------------------------------------------------------
(* Rectangles. *)

\* In the slice that the conversion makes, which is the only one, a byte is where it
\* would be in two dimensions (raw_read_buffer_rect_2d and its like).
LEMMA ByteTo3D ==
  ASSUME NEW s \in Side2D, NEW size \in Size2D,
         NEW x \in 0 .. size[1] - 1, NEW y \in 0 .. size[2] - 1
  PROVE  Byte(To3D(s), Slice3D(size), <<x, y, 0>>) = Byte2D(s, size, <<x, y>>)
<1> DEFINE row == IF s.row = 0 THEN size[1] ELSE s.row
<1>1. size[1] \in Nat /\ size[2] \in Nat /\ s.row \in Nat
      /\ s.offset[1] \in Nat /\ s.offset[2] \in Nat
  BY DEF Side2D, Size2D, Positive
<1>2. /\ To3D(s).offset[1] = s.offset[1] /\ To3D(s).offset[2] = s.offset[2]
      /\ To3D(s).offset[3] = 0
      /\ RowPitch(To3D(s), Slice3D(size)) = row
      /\ SlicePitch(To3D(s), Slice3D(size)) = size[2] * row
  BY DEF To3D, Slice3D, RowPitch, SlicePitch
<1>3. row \in Nat /\ size[2] * row \in Nat
  BY <1>1
<1>4. Byte(To3D(s), Slice3D(size), <<x, y, 0>>) =
        (0 + 0) * (size[2] * row) + (s.offset[2] + y) * row + s.offset[1] + x
  BY <1>2 DEF Byte
<1>5. Byte2D(s, size, <<x, y>>) = (s.offset[2] + y) * row + s.offset[1] + x
  BY DEF Byte2D
<1>6. (s.offset[2] + y) * row \in Nat
  <2>1. s.offset[2] + y \in Nat
    BY <1>1
  <2>2. \A m, n \in Nat : m * n \in Nat
    OBVIOUS
  <2> QED BY <1>3, <2>1, <2>2
<1>7. (0 + 0) * (size[2] * row) = 0
  <2>1. \A n \in Nat : (0 + 0) * n = 0
    OBVIOUS
  <2> QED BY <1>3, <2>1
<1>8. \A a, b, c \in Nat : 0 + a + b + c = a + b + c
  OBVIOUS
<1>9. x \in Nat
  BY <1>1
<1> HIDE DEF row
<1> QED
  BY <1>1, <1>4, <1>5, <1>6, <1>7, <1>8, <1>9

\* The cells of the slice are those of the rectangle.
LEMMA CellsOfSlice ==
  ASSUME NEW size \in Size2D
  PROVE  /\ \A p \in Cells(Slice3D(size)) :
              /\ p = <<p[1], p[2], 0>> /\ <<p[1], p[2]>> \in Cells2D(size)
              /\ p[1] \in 0 .. size[1] - 1 /\ p[2] \in 0 .. size[2] - 1
         /\ \A q \in Cells2D(size) :
              /\ q = <<q[1], q[2]>> /\ <<q[1], q[2], 0>> \in Cells(Slice3D(size))
              /\ q[1] \in 0 .. size[1] - 1 /\ q[2] \in 0 .. size[2] - 1
<1>1. 0 .. 1 - 1 = {0}
  OBVIOUS
<1>2. Cells(Slice3D(size)) = (0 .. size[1] - 1) \X (0 .. size[2] - 1) \X {0}
  BY <1>1 DEF Cells, Slice3D
<1> QED
  BY <1>2 DEF Cells2D

\* Two sides that are converted give the moves between the two that were given.
LEMMA MovesTo3D ==
  ASSUME NEW a \in Side2D, NEW b \in Side2D, NEW size \in Size2D
  PROVE  Moves(To3D(a), To3D(b), Slice3D(size)) = Moves2D(a, b, size)
<1>1. ASSUME NEW p \in Cells(Slice3D(size))
      PROVE  /\ <<p[1], p[2]>> \in Cells2D(size)
             /\ Byte(To3D(a), Slice3D(size), p) = Byte2D(a, size, <<p[1], p[2]>>)
             /\ Byte(To3D(b), Slice3D(size), p) = Byte2D(b, size, <<p[1], p[2]>>)
  BY CellsOfSlice, ByteTo3D
<1>2. ASSUME NEW q \in Cells2D(size)
      PROVE  /\ <<q[1], q[2], 0>> \in Cells(Slice3D(size))
             /\ Byte(To3D(a), Slice3D(size), <<q[1], q[2], 0>>) = Byte2D(a, size, q)
             /\ Byte(To3D(b), Slice3D(size), <<q[1], q[2], 0>>) = Byte2D(b, size, q)
  BY CellsOfSlice, ByteTo3D
<1>3. ASSUME NEW m \in Moves(To3D(a), To3D(b), Slice3D(size))
      PROVE  m \in Moves2D(a, b, size)
  <2>1. PICK p \in Cells(Slice3D(size)) :
          m = <<Byte(To3D(a), Slice3D(size), p), Byte(To3D(b), Slice3D(size), p)>>
    BY DEF Moves
  <2>2. m = <<Byte2D(a, size, <<p[1], p[2]>>), Byte2D(b, size, <<p[1], p[2]>>)>>
    BY <1>1, <2>1
  <2> QED
    BY <1>1, <2>2 DEF Moves2D
<1>4. ASSUME NEW m \in Moves2D(a, b, size)
      PROVE  m \in Moves(To3D(a), To3D(b), Slice3D(size))
  <2>1. PICK q \in Cells2D(size) : m = <<Byte2D(a, size, q), Byte2D(b, size, q)>>
    BY DEF Moves2D
  <2>2. m = <<Byte(To3D(a), Slice3D(size), <<q[1], q[2], 0>>),
              Byte(To3D(b), Slice3D(size), <<q[1], q[2], 0>>)>>
    BY <1>2, <2>1
  <2> QED
    BY <1>2, <2>2 DEF Moves
<1> QED
  BY <1>3, <1>4

\* A region of an image, likewise; host memory is filled from its first byte.
LEMMA ImageMovesTo3D ==
  ASSUME NEW origin \in Nat \X Nat, NEW row \in Nat, NEW size \in Size2D
  PROVE  clEnqueueReadImage(<<origin[1], origin[2], 0>>, Slice3D(size), <<row, 0>>) =
           ImageMoves2D(origin, row, size)
<1> DEFINE host == [offset |-> <<0, 0>>, row |-> row]
           at == <<origin[1], origin[2], 0>>
           region == Slice3D(size)
<1>1. host \in Side2D
  BY DEF Side2D
<1>2. To3D(host) = [offset |-> <<0, 0, 0>>, pitch |-> <<row, 0>>]
  BY DEF To3D
<1>3. ASSUME NEW p \in Cells(region)
      PROVE  /\ <<p[1], p[2]>> \in Cells2D(size)
             /\ Pixel(at, p) = <<origin[1] + p[1], origin[2] + p[2], 0>>
             /\ Byte(To3D(host), region, p) = Byte2D(host, size, <<p[1], p[2]>>)
  <2>1. /\ p = <<p[1], p[2], 0>> /\ <<p[1], p[2]>> \in Cells2D(size)
        /\ p[1] \in 0 .. size[1] - 1 /\ p[2] \in 0 .. size[2] - 1
    BY CellsOfSlice
  <2>2. Byte(To3D(host), Slice3D(size), <<p[1], p[2], 0>>) =
          Byte2D(host, size, <<p[1], p[2]>>)
    BY <1>1, <2>1, ByteTo3D
  <2>3. Pixel(at, <<p[1], p[2], 0>>) = <<origin[1] + p[1], origin[2] + p[2], 0>>
    BY DEF Pixel
  <2> QED
    BY <2>1, <2>2, <2>3
<1>4. ASSUME NEW q \in Cells2D(size)
      PROVE  /\ <<q[1], q[2], 0>> \in Cells(region)
             /\ Pixel(at, <<q[1], q[2], 0>>) = <<origin[1] + q[1], origin[2] + q[2], 0>>
             /\ Byte(To3D(host), region, <<q[1], q[2], 0>>) = Byte2D(host, size, q)
  BY <1>1, CellsOfSlice, ByteTo3D DEF Pixel
<1>5. clEnqueueReadImage(at, region, <<row, 0>>) =
        {<<Pixel(at, p), Byte(To3D(host), region, p)>> : p \in Cells(region)}
  BY <1>2 DEF clEnqueueReadImage
<1>6. ImageMoves2D(origin, row, size) =
        {<< <<origin[1] + p[1], origin[2] + p[2], 0>>, Byte2D(host, size, p)>> :
           p \in Cells2D(size)}
  BY DEF ImageMoves2D
<1> HIDE DEF host, at, region
<1>7. ASSUME NEW m \in clEnqueueReadImage(at, region, <<row, 0>>)
      PROVE  m \in ImageMoves2D(origin, row, size)
  <2>1. PICK p \in Cells(region) : m = <<Pixel(at, p), Byte(To3D(host), region, p)>>
    BY <1>5
  <2>2. PICK q \in Cells2D(size) :
          /\ q = <<p[1], p[2]>>
          /\ m = << <<origin[1] + p[1], origin[2] + p[2], 0>>, Byte2D(host, size, q)>>
    BY <1>3, <2>1
  <2>3. q[1] = p[1] /\ q[2] = p[2]
    BY <2>2
  <2> QED
    BY <1>6, <2>2, <2>3
<1>8. ASSUME NEW m \in ImageMoves2D(origin, row, size)
      PROVE  m \in clEnqueueReadImage(at, region, <<row, 0>>)
  <2>1. PICK q \in Cells2D(size) :
          m = << <<origin[1] + q[1], origin[2] + q[2], 0>>, Byte2D(host, size, q)>>
    BY <1>6
  <2>2. m = <<Pixel(at, <<q[1], q[2], 0>>), Byte(To3D(host), region, <<q[1], q[2], 0>>)>>
    BY <1>4, <2>1
  <2> QED
    BY <1>4, <1>5, <2>2
<1> QED
  BY <1>7, <1>8 DEF at, region

\* Reads and copies move what their caller asked for.  A write, which gives OpenCL its
\* source as the buffer's side and its destination as the host's (command_queue.cpp:570),
\* makes the moves from the one to the other that were asked for the other way round.
THEOREM RectanglesMoved ==
  \A source, dest \in Side2D, size \in Size2D :
    /\ raw_read_buffer_rect_2d(source, dest, size) = Moves2D(source, dest, size)
    /\ raw_copy_buffer_rect_2d(source, dest, size) = Moves2D(source, dest, size)
    /\ raw_write_buffer_rect_2d(source, dest, size) = Moves2D(dest, source, size)
BY MovesTo3D
DEF raw_read_buffer_rect_2d, raw_write_buffer_rect_2d, raw_copy_buffer_rect_2d,
    raw_read_buffer_rect_3d, raw_write_buffer_rect_3d, raw_copy_buffer_rect_3d,
    clEnqueueReadBufferRect, clEnqueueWriteBufferRect, clEnqueueCopyBufferRect

\* A write whose sides agree is not changed by taking the one for the other.
LEMMA AgreeingSides ==
  ASSUME NEW source \in Side2D, NEW dest \in Side2D, NEW size \in Size2D,
         SidesAgree(source, dest, size)
  PROVE  Moves2D(dest, source, size) = Moves2D(source, dest, size)
<1>1. \A p \in Cells2D(size) : Byte2D(source, size, p) = Byte2D(dest, size, p)
  BY DEF SidesAgree
<1>2. ASSUME NEW m \in Moves2D(dest, source, size)
      PROVE  m \in Moves2D(source, dest, size)
  <2>1. PICK p \in Cells2D(size) : m = <<Byte2D(dest, size, p), Byte2D(source, size, p)>>
    BY DEF Moves2D
  <2>2. m = <<Byte2D(source, size, p), Byte2D(dest, size, p)>>
    BY <1>1, <2>1
  <2> QED
    BY <2>2 DEF Moves2D
<1>3. ASSUME NEW m \in Moves2D(source, dest, size)
      PROVE  m \in Moves2D(dest, source, size)
  <2>1. PICK p \in Cells2D(size) : m = <<Byte2D(source, size, p), Byte2D(dest, size, p)>>
    BY DEF Moves2D
  <2>2. m = <<Byte2D(dest, size, p), Byte2D(source, size, p)>>
    BY <1>1, <2>1
  <2> QED
    BY <2>2 DEF Moves2D
<1> QED
  BY <1>2, <1>3

\* What the last call moved, with both of its sides: exactly what its caller asked for,
\* but for writes, which take their sides for one another.
CallsMoved ==
  /\ call.op = "rectangle" =>
       /\ call.source \in Side2D /\ call.dest \in Side2D /\ call.size \in Size2D
       /\ call.moves = IF call.how = "write" THEN Moves2D(call.dest, call.source, call.size)
                       ELSE Moves2D(call.source, call.dest, call.size)
  /\ call.op = "image" => call.moves = ImageMoves2D(call.origin, call.row, call.size)

LEMMA MovesInvariant == CallSpec => []CallsMoved
<1>1. CallInit => CallsMoved
  BY DEF CallInit, NoCall, CallsMoved
<1>2. CallsMoved /\ [CallNext]_call => CallsMoved'
  <2> SUFFICES ASSUME CallsMoved, [CallNext]_call PROVE CallsMoved'
    OBVIOUS
  <2>1. Extents \subseteq Nat /\ Sides \subseteq Side2D /\ Sizes \subseteq Size2D
        /\ Extents \X Extents \subseteq Nat \X Nat
        /\ \A length \in Extents \ {0} : <<length, 1>> \in Size2D
    <3>1. MaxExtent \in Nat
      BY ConversionsAssumption
    <3> QED
      BY <3>1 DEF Extents, Sides, Sizes, Side2D, Size2D, Positive
  <2>2. ASSUME NEW source \in Sides, NEW dest \in Sides, NEW size \in Sizes,
               \/ ReadBufferRect(source, dest, size)
               \/ WriteBufferRect(source, dest, size)
               \/ CopyBufferRect(source, dest, size)
        PROVE  CallsMoved'
    <3>1. source \in Side2D /\ dest \in Side2D /\ size \in Size2D
      BY <2>1
    <3>2. CASE ReadBufferRect(source, dest, size)
      BY <3>1, <3>2, RectanglesMoved DEF ReadBufferRect, Rectangle, CallsMoved
    <3>3. CASE WriteBufferRect(source, dest, size)
      BY <3>1, <3>3, RectanglesMoved DEF WriteBufferRect, Rectangle, CallsMoved
    <3>4. CASE CopyBufferRect(source, dest, size)
      BY <3>1, <3>4, RectanglesMoved DEF CopyBufferRect, Rectangle, CallsMoved
    <3> QED
      BY <2>2, <3>2, <3>3, <3>4
  <2>3. ASSUME NEW origin \in Extents, NEW length \in Extents \ {0},
               ReadImage1D(origin, length)
        PROVE  CallsMoved'
    <3>1. <<origin, 0>> \in Nat \X Nat /\ <<length, 1>> \in Size2D
          /\ <<origin, 0>>[1] = origin /\ <<origin, 0>>[2] = 0
          /\ Slice3D(<<length, 1>>) = <<length, 1, 1>>
      BY <2>1 DEF Slice3D
    <3>2. clEnqueueReadImage(<<origin, 0, 0>>, <<length, 1, 1>>, <<0, 0>>) =
            ImageMoves2D(<<origin, 0>>, 0, <<length, 1>>)
      BY <3>1, ImageMovesTo3D
    <3>3. raw_read_image_1d(origin, length) = ImageMoves2D(<<origin, 0>>, 0, <<length, 1>>)
      BY <3>2 DEF raw_read_image_1d, raw_read_image_3d
    <3> QED
      BY <2>3, <3>3 DEF ReadImage1D, CallsMoved
  <2>4. ASSUME NEW origin \in Extents \X Extents, NEW row \in Extents, NEW size \in Sizes,
               ReadImage2D(origin, row, size)
        PROVE  CallsMoved'
    <3>1. origin \in Nat \X Nat /\ row \in Nat /\ size \in Size2D
      BY <2>1
    <3>2. raw_read_image_2d(origin, row, size) = ImageMoves2D(origin, row, size)
      BY <3>1, ImageMovesTo3D DEF raw_read_image_2d, raw_read_image_3d
    <3> QED
      BY <2>4, <3>2 DEF ReadImage2D, CallsMoved
  <2>5. ASSUME NEW text, DecodeList(text) PROVE CallsMoved'
    BY <2>5 DEF DecodeList, CallsMoved
  <2>6. ASSUME NEW names, NEW devices, RequestBuiltInKernels(names, devices)
        PROVE  CallsMoved'
    BY <2>6 DEF RequestBuiltInKernels, CallsMoved
  <2>7. CASE UNCHANGED call
    BY <2>7 DEF CallsMoved
  <2> QED
    BY <2>2, <2>3, <2>4, <2>5, <2>6, <2>7 DEF CallNext
<1> QED
  BY <1>1, <1>2, PTL DEF CallSpec

\* Reads and copies of rectangles and reads of images move what their caller asked for,
\* whatever offsets, pitches and sizes they are given; and so do the writes whose two
\* sides are alike (command_queue.cpp:506 and 570).
THEOREM SentAsAsked == CallSpec => []SameBytes
<1>1. CallsMoved => SameBytes
  BY AgreeingSides DEF CallsMoved, SameBytes
<1> QED
  BY <1>1, MovesInvariant, PTL
=============================================================================
