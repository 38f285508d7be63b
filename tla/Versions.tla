------------------------------ MODULE Versions ------------------------------
(***************************************************************************)
(* Version strings, "<preamble><major>.<minor>[ <vendor_specific>]", and   *)
(* profile strings.  A text is a sequence of characters.                   *)
(***************************************************************************)
EXTENDS Conversions

CONSTANTS
  Characters,        \* those of the texts that are tried
  MaxVersionText,    \* bound on their length
  UIntMod,           \* 2^w for the width of unsigned int
  ULongMod           \* and of unsigned long

ASSUME VersionsAssumption ==
  MaxVersionText \in Nat /\ UIntMod \in Nat \ {0} /\ ULongMod \in Nat /\ ULongMod >= UIntMod

Version(major, minor, vendor) ==
  [is |-> "version", major |-> major, minor |-> minor, vendor_specific_info |-> vendor]
Threw(what) == [is |-> what]

\* operator>= ignores the vendor's information, operator== does not.
AtLeastInBoth(v, reference) ==                                   \* mutant
  v.major >= reference.major /\ v.minor >= reference.minor
AtLeast(v, reference) ==
  \/ v.major > reference.major
  \/ v.major = reference.major /\ v.minor >= reference.minor

DigitOf == <<"0", "1", "2", "3", "4", "5", "6", "7", "8", "9">>
Digits == Range(DigitOf)
DigitValue == [c \in Digits |-> CHOOSE n \in 0 .. 9 : DigitOf[n + 1] = c]
Number(digits) ==
  LET upTo[i \in 0 .. Len(digits)] ==
        IF i = 0 THEN 0 ELSE 10 * upTo[i - 1] + DigitValue[digits[i]]
  IN  upTo[Len(digits)]

\* The longest beginning of a text whose characters are all in a set.
Prefix(text, set) ==
  LET ends == {i \in DOMAIN text : text[i] \notin set}
  IN  IF ends = {} THEN text ELSE SubSeq(text, 1, Min(ends) - 1)
Drop(text, n) == SubSeq(text, n + 1, Len(text))

\* std::stoul: white space, a sign, digits, and then anything at all.
Invalid == -1
OutOfRange == -2
Stoul(text) ==
  LET signed == Drop(text, Len(Prefix(text, {" "})))
      negative == signed # <<>> /\ Head(signed) = "-"
      digits == Prefix(IF signed # <<>> /\ Head(signed) \in {"-", "+"} THEN Tail(signed)
                       ELSE signed, Digits)
      n == Number(digits)
  IN  CASE digits = <<>> -> Invalid
        [] digits # <<>> /\ n >= ULongMod -> OutOfRange
        [] OTHER -> IF negative THEN (ULongMod - n) % ULongMod ELSE n

\* What the decoder does with it: invalid_argument becomes InvalidArgument, and
\* out_of_range escapes.
Narrowed(n) == n % UIntMod
DecodeNumber(text) ==
  LET n == Stoul(text)
  IN  CASE n = Invalid -> Threw("InvalidArgument")
        [] n = OutOfRange -> Threw("out_of_range")
        [] OTHER -> [is |-> "number", value |-> Narrowed(n)]

\* The separator is looked for one character further, major versions not being empty.
DotFromThird(preamble) == Len(preamble) + 2                      \* mutant
DotFrom(preamble) == Len(preamble) + 1

DecodeVersionString(text, preamble, hasVendor) ==
  LET minimum == Len(preamble) + 3 + (IF hasVendor THEN 1 ELSE 0)
      dot == FindCharacter(text, ".", DotFrom(preamble))
      space == FindCharacter(text, " ", dot + 1)
      major == DecodeNumber(SubSeq(text, Len(preamble) + 1, dot))
      minor == DecodeNumber(SubSeq(text, dot + 2, IF hasVendor THEN space ELSE Len(text)))
      vendor == IF hasVendor THEN Drop(text, space + 1) ELSE <<>>
      malformed == Len(text) < minimum \/ ~IsPrefix(preamble, text) \/ dot = Npos
  IN  IF malformed THEN Threw("InvalidArgument")
      ELSE IF major.is # "number" THEN major
      ELSE IF hasVendor /\ space = Npos THEN Threw("InvalidArgument")
      ELSE IF minor.is # "number" THEN minor
      ELSE Version(major.value, minor.value, vendor)

DecodeProfileString(text) ==
  CASE text = "FULL_PROFILE" -> "Full"
    [] text = "EMBEDDED_PROFILE" -> "Embedded"
    [] OTHER -> "UnsupportedProfileString"

DecodeVersion(text, preamble, hasVendor) ==
  call' = [op |-> "version", text |-> text, preamble |-> preamble, hasVendor |-> hasVendor,
           result |-> DecodeVersionString(text, preamble, hasVendor)]

VersionTexts == UNION {[1 .. n -> Characters] : n \in 0 .. MaxVersionText}

\* Those of drivers, and those of OpenCL, whose preamble ends with a space.
VersionNext ==
  \E text \in VersionTexts :
    \/ DecodeVersion(text, <<>>, FALSE)
    \/ DecodeVersion(<<"C", " ">> \o text, <<"C", " ">>, TRUE)

VersionSpec == CallInit /\ [][VersionNext]_call

-----------------------------------------------------------------------------
(* Properties. *)

IsNumber(digits) == digits # <<>> /\ Range(digits) \subseteq Digits

\* A text of the documented form is decoded to its numbers and its vendor's
\* information, whatever the latter contains, so long as unsigned int can hold the
\* numbers (version.hpp:44).
DecodesVersions ==
  call.op = "version" =>
    LET body == Drop(call.text, Len(call.preamble)) IN
    \A dot \in DOMAIN body, space \in 1 .. Len(body) + 1 :
      LET major == SubSeq(body, 1, dot - 1)
          minor == SubSeq(body, dot + 1, space - 1)
      IN  /\ body[dot] = "."
          /\ IF call.hasVendor THEN space <= Len(body) /\ body[space] = " "
             ELSE space = Len(body) + 1
          /\ IsNumber(major) /\ IsNumber(minor)
          /\ Number(major) < UIntMod /\ Number(minor) < UIntMod
          => call.result = Version(Number(major), Number(minor), Drop(body, space))
=============================================================================
