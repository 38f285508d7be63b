------------------------------ MODULE UnitTests ------------------------------
(***************************************************************************)
(* The unit tests of the repository, put to the models: what they check of *)
(* the code must hold of PropertyLists, Conversions and Versions too.      *)
(*                                                                         *)
(* A word of a list is one letter; a preamble is a letter and a space; the *)
(* names and values of properties are what the cfg has.  The tests of      *)
(* throw_standard_exception() and throw_if_failed() are left out.          *)
(***************************************************************************)
EXTENDS PropertyLists, Versions

Words(ws) == [i \in DOMAIN ws |-> <<ws[i]>>]

\* run_tests_common: words with n0 separators in front, n between, and n1 at the end.
Separated(ws, n0, n, n1) ==
  LET seps(k) == [i \in 1 .. k |-> Sep]
  IN  FlattenSeq([i \in DOMAIN ws |->
        (IF i = 1 THEN seps(n0) ELSE seps(n)) \o <<ws[i]>>]) \o seps(n1)

run_tests_common ==
  LET words == <<"this", "is", "sparta", "!!!">>
      decodes(ws, n0, n, n1) == DecodeOpenclList(Separated(ws, n0, n, n1)) = Words(ws)
  IN  /\ decodes(<<>>, 0, 0, 0) /\ decodes(<<>>, 0, 0, 3)
      /\ \A k \in 1 .. 4 : decodes(SubSeq(words, 1, k), 0, 1, 0)
      /\ decodes(words, 3, 1, 0) /\ decodes(words, 3, 3, 0) /\ decodes(words, 3, 3, 3)

run_tests_extensions ==
  LET words == <<"This", "is", "blasphemy">>
      actual == DecodeOpenclList(Separated(words, 0, 1, 0))
  IN  /\ actual = Words(words)
      /\ ContainsAll(actual, <<>>) /\ ContainsAll(actual, Words(words))
      /\ \A i \in 1 .. 3 : ContainsAll(actual, Words(<<words[i]>>))

run_tests_profile ==
  /\ DecodeProfileString("FULL_PROFILE") = "Full"
  /\ DecodeProfileString("EMBEDDED_PROFILE") = "Embedded"
  /\ DecodeProfileString("TOTALLY_NON_EXISTENT_PROFILE") = "UnsupportedProfileString"

\* Two names of scalars, one of vectors.
run_tests_property_list ==
  LET s1 == Min(ScalarNames)
      s2 == Max(ScalarNames)
      v == Min(VectorNames)
      vector == <<64, 128, 255>>
      native == vector \o <<0>>
      full == <<s1, 42, v>> \o native \o <<s2, 69, 0>>
      scalarOnly == EncodeScalar(s1, 42)
      vectorOnly == EncodeVector(v, vector)
      fullList == Parse(full)
      tags(s) == [i \in DOMAIN Iterate(s) |-> Iterate(s)[i].tag]
  IN  /\ Iterate(<<>>) = <<>> /\ Find(<<>>, s1) = <<>> /\ OpenclView(<<>>) = <<0>>
      /\ Parse(<<0>>) = <<>>
      /\ Iterate(scalarOnly) = <<Property(s1, Scalar, <<42>>)>>
      /\ Find(scalarOnly, s1) = Iterate(scalarOnly)
      /\ OpenclView(scalarOnly) = <<s1, 42, 0>>
      /\ OpenclView(Parse(<<s2, 69, 0>>)) = <<s2, 69, 0>>
      /\ Iterate(vectorOnly) = <<Property(v, Vector, vector)>>
      /\ Find(vectorOnly, v) = Iterate(vectorOnly)
      /\ OpenclView(vectorOnly) = <<v>> \o native \o <<0>>
      /\ OpenclVectorSize(native, 1) = 3
      /\ OpenclView(Parse(<<v>> \o native \o <<0>>)) = <<v>> \o native \o <<0>>
      /\ tags(fullList) = <<Scalar, Vector, Scalar>>
      /\ Find(fullList, v) = <<Property(v, Vector, vector)>>
      /\ OpenclView(fullList) = full

Refused(text, preamble, hasVendor) ==
  DecodeVersionString(text, preamble, hasVendor) = Threw("InvalidArgument")

run_tests_version ==
  LET numbers == <<"1", "2", "3", ".", "2", "3", "4">>
      zero == <<"0", ".", "0">>
      P == <<"P", " ">>
      decoded(text, preamble, hasVendor, major, minor, vendor) ==
        DecodeVersionString(text, preamble, hasVendor) = Version(major, minor, vendor)
      atLeast(a, b, c, d) == AtLeast(Version(a, b, "absurd"), Version(c, d, "gibberish"))
  IN  /\ atLeast(99, 1, 99, 1) /\ atLeast(99, 1, 99, 0) /\ ~atLeast(99, 1, 99, 2)
      /\ atLeast(100, 1, 99, 1) /\ ~atLeast(100, 1, 101, 1)
      /\ atLeast(100, 1, 99, 2) /\ ~atLeast(100, 2, 101, 1)
      /\ decoded(zero, <<>>, FALSE, 0, 0, <<>>)
      /\ \A text \in {<<".", "0">>, <<"0", "0">>, <<"0", ".">>, <<>>} :
           Refused(text, <<>>, FALSE)
      /\ decoded(P \o zero, P, FALSE, 0, 0, <<>>)
      /\ \A text \in {<<"P">> \o zero, <<" ">> \o zero, zero} : Refused(text, P, FALSE)
      /\ decoded(P \o numbers, P, FALSE, 123, 234, <<>>)
      /\ decoded(P \o numbers \o <<" ">>, P, TRUE, 123, 234, <<>>)
      /\ decoded(P \o numbers \o <<" ", "x", " ", "y">>, P, TRUE, 123, 234, <<"x", " ", "y">>)
      /\ Refused(P \o numbers, P, TRUE)

\* All the unit tests pass (common.cpp:254), run once before anything else.
UnitTestsPass ==
  list = <<>> /\ call = NoCall =>
  /\ run_tests_common /\ run_tests_extensions /\ run_tests_profile
  /\ run_tests_property_list /\ run_tests_version
=============================================================================
