----------------------------- MODULE PropertyLists -----------------------------
(***************************************************************************)
(* A PropertyList.  internal_storage holds, for each property, its name,   *)
(* its tag and its value: one number for a scalar, a size and as many      *)
(* numbers for a vector.  opencl_view() writes the list as OpenCL has it,  *)
(* without tags and sizes: zeros end the vectors and the list, and whoever *)
(* parses it must know from a name what follows.                           *)
(*                                                                         *)
(* All of it is numbers: a name, a tag or a size may well equal a value,   *)
(* and nothing but their places tells them apart.                          *)
(***************************************************************************)
EXTENDS Integers, Sequences, SequencesExt

CONSTANTS
  ScalarNames,      \* names that find_property_tag() knows as scalars
  VectorNames,      \* names that it knows as vectors
  OtherNames,       \* names that it does not know
  Values,           \* numbers found in values
  MaxProperties,    \* bound on the length of a list
  MaxVector         \* bound on the length of a vector value

ASSUME PropertyListsAssumption ==
  /\ ScalarNames \cup VectorNames \cup OtherNames \subseteq Nat \ {0}
  /\ ScalarNames \cap VectorNames = {}
  /\ OtherNames \cap (ScalarNames \cup VectorNames) = {}
  /\ Values \subseteq Nat
  /\ MaxProperties \in Nat /\ MaxVector \in Nat

VARIABLES
  list,     \* the properties appended, in order
  storage   \* internal_storage

listVars == <<list, storage>>

Names == ScalarNames \cup VectorNames \cup OtherNames

Scalar == 0     \* enum class PropertyTag
Vector == 1

Property(name, tag, value) == [name |-> name, tag |-> tag, value |-> value]

\* The elements that the code reads; past the end it would read anything at all.
At(s, i) == IF i \in DOMAIN s THEN s[i] ELSE 0

-----------------------------------------------------------------------------
(* Writing: append(). *)

EncodeScalar(name, v) == <<name, Scalar, v>>
EncodeVector(name, vs) == <<name, Vector, Len(vs)>> \o vs

\* The size of a zero-terminated vector that begins at index i of s.
OpenclVectorSize(s, i) == SelectInSubSeq(s, i, Len(s), LAMBDA e : e = 0) - i

AppendScalar(name, v) ==
  /\ Len(list) < MaxProperties
  /\ list' = Append(list, Property(name, Scalar, <<v>>))
  /\ storage' = storage \o EncodeScalar(name, v)

AppendVector(name, vs) ==
  /\ Len(list) < MaxProperties
  /\ list' = Append(list, Property(name, Vector, vs))
  /\ storage' = storage \o EncodeVector(name, vs)

\* From memory that holds vs and, somewhere after, a zero: what lies beyond the
\* first zero is no part of the value.
AppendOpencl(name, vs) ==
  LET memory == Append(vs, 0)
      value == SubSeq(memory, 1, OpenclVectorSize(memory, 1))
  IN  /\ Len(list) < MaxProperties
      /\ list' = Append(list, Property(name, Vector,
           IF Contains(vs, 0) THEN SubSeq(vs, 1, SelectInSeq(vs, LAMBDA e : e = 0) - 1)
           ELSE vs))
      /\ storage' = storage \o EncodeVector(name, value)

-----------------------------------------------------------------------------
(* Reading: PropertyView and const_iterator. *)

View(s, i) ==
  Property(At(s, i), At(s, i + 1),
    IF At(s, i + 1) = Scalar THEN <<At(s, i + 2)>>
    ELSE [j \in 1 .. At(s, i + 2) |-> At(s, i + 2 + j)])

\* operator++: name and tag, then the value.
AdvanceBySize(s, i) ==                                           \* mutant
  i + 2 + (IF At(s, i + 1) = Scalar THEN 1 ELSE At(s, i + 2))
Advance(s, i) == i + 2 + (IF At(s, i + 1) = Scalar THEN 1 ELSE 1 + At(s, i + 2))

\* What a loop from begin() to end() sees.
Iterate(s) ==
  LET from[i \in Nat] ==
        IF i > Len(s) THEN <<>> ELSE <<View(s, i)>> \o from[Advance(s, i)]
  IN  from[1]

\* operator[] stops at the first property of that name; it throws InvalidArgument
\* if it finds none.
Find(s, name) ==
  LET from[i \in Nat] ==
        IF i > Len(s) THEN <<>>
        ELSE IF View(s, i).name = name THEN <<View(s, i)>> ELSE from[Advance(s, i)]
  IN  from[1]

-----------------------------------------------------------------------------
(* The OpenCL form. *)

OpenclValueBare(property) == property.value                      \* mutant
OpenclValue(property) ==
  IF property.tag = Scalar THEN property.value ELSE Append(property.value, 0)

\* opencl_view() walks internal_storage as the iterators do.
OpenclView(s) ==
  LET from[i \in Nat] ==
        IF i > Len(s) THEN <<0>>
        ELSE <<At(s, i)>> \o OpenclValue(View(s, i)) \o from[Advance(s, i)]
  IN  from[1]

\* The constructor from an OpenCL list; it throws UnsupportedProperty, here <<0>>,
\* upon a name that it does not know.
Parse(p) ==
  LET from[i \in Nat] ==
        LET name == At(p, i)
            size == OpenclVectorSize(p, i + 1)
        IN  CASE name = 0 -> <<>>
              [] name \in ScalarNames ->
                   EncodeScalar(name, At(p, i + 1)) \o from[i + 2]
              [] name \in VectorNames ->
                   EncodeVector(name, SubSeq(p, i + 1, i + size)) \o from[i + 2 + size]
              [] OTHER -> <<0>>
  IN  from[1]

\* The list says what OpenCL can make sense of: values of the tag that goes with
\* their name, and no zero within a vector.
Meaningful(l) ==
  \A i \in DOMAIN l :
    IF l[i].tag = Scalar THEN l[i].name \in ScalarNames
    ELSE l[i].name \in VectorNames /\ ~Contains(l[i].value, 0)

\* OpenCL gives a list back, for instance in properties() or partition_type().
GiveBack ==
  /\ Meaningful(list)
  /\ storage' = Parse(OpenclView(storage))
  /\ UNCHANGED list

-----------------------------------------------------------------------------

ListInit == list = <<>> /\ storage = <<>>

Vectors == UNION {[1 .. n -> Values] : n \in 0 .. MaxVector}

ListNext ==
  \/ \E name \in Names :
       \/ \E v \in Values : AppendScalar(name, v)
       \/ \E vs \in Vectors : AppendVector(name, vs) \/ AppendOpencl(name, vs)
  \/ GiveBack

\* A list on its own.
ListSpec == ListInit /\ [][ListNext]_listVars

-----------------------------------------------------------------------------
(* Properties. *)

\* A loop over the list sees the properties appended, and operator[] finds the first
\* of each name, whatever their values, also in a list that went through its OpenCL
\* form and was appended to again (property_list.hpp:94 and 98).
ReadsBack ==
  /\ Iterate(storage) = list
  /\ \A name \in Names :
       LET is(property) == property.name = name
           i == SelectInSeq(list, is)
       IN  Find(storage, name) = IF i = 0 THEN <<>> ELSE <<list[i]>>

\* A meaningful list is lost in no way by its OpenCL form (property_list.cpp:58,
\* "Converting back ... should be lossless").
Lossless == Meaningful(list) => Iterate(Parse(OpenclView(storage))) = list
=============================================================================
