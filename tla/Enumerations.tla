---------------------------- MODULE Enumerations ----------------------------
(***************************************************************************)
(* Lists of devices: those of all platforms that two predicates like, from *)
(* which the user of an example chooses one, and the sub-devices that a    *)
(* device is divided into.  Both come from pairs of OpenCL calls, the      *)
(* first for their number, which the second finds unchanged.               *)
(***************************************************************************)
EXTENDS Integers, SequencesExt

CONSTANTS
  MaxPlatforms, MaxDevices,     \* bounds on the platforms, and the devices of each
  MaxSubDevices,                \* bound on the sub-devices of a device
  MaxInput                      \* bound on the words that the user types

ASSUME EnumerationsAssumption ==
  {MaxPlatforms, MaxDevices, MaxSubDevices, MaxInput} \subseteq Nat

VARIABLES
  task,        \* what the program does: "select", "sub_devices", or "none" of these
  at,          \* how far it is
  system,      \* the platforms of the machine
  input,       \* what the user will type
  offered,     \* the devices offered to the user, in order
  chosen,      \* the one chosen
  refs,        \* the references to each sub-device
  wrapped      \* how many of them have a Device

enumVars == <<task, at, system, input, offered, chosen, refs, wrapped>>

\* A device suits the predicate or not; or Device::Device cannot decode its version.
DeviceKinds == {"suitable", "unsuitable", "unreadable"}
SeqsUpTo(set, n) == UNION {[1 .. k -> set] : k \in 0 .. n}
Systems == SeqsUpTo([suits : BOOLEAN, devices : SeqsUpTo(DeviceKinds, MaxDevices)],
                    MaxPlatforms)

\* Words that are numbers, or not; after them the input ends.
NotANumber == -1
Inputs == SeqsUpTo((0 .. MaxPlatforms * MaxDevices) \cup {NotANumber}, MaxInput)

-----------------------------------------------------------------------------
(* get_filtered_devices. *)

\* A list, or that an exception was thrown on the way to it.
Result(list) == [threw |-> FALSE, list |-> list]
Thrown == [threw |-> TRUE, list |-> <<>>]

\* Platform::devices(): clGetDeviceIDs returns CL_DEVICE_NOT_FOUND if there is none.
\* A device is known by its place: <<platform, device>>.
PlatformDevices(s, p) ==
  IF s[p].devices = <<>> \/ Contains(s[p].devices, "unreadable") THEN Thrown
  ELSE Result([d \in DOMAIN s[p].devices |-> <<p, d>>])

\* std::copy_if: the members of a list that a predicate likes, in order.
CopyIf(list, liked) ==
  FlattenSeq([i \in DOMAIN list |-> IF list[i] \in liked THEN <<list[i]>> ELSE <<>>])

FilteredDevices(s, p) ==
  [PlatformDevices(s, p) EXCEPT !.list =
     CopyIf(@, {place \in ToSet(@) : s[place[1]].devices[place[2]] = "suitable"})]

AllPlatforms(s) == [p \in DOMAIN s |-> p]                        \* mutant
FilteredPlatforms(s) == CopyIf([p \in DOMAIN s |-> p], {p \in DOMAIN s : s[p].suits})

\* clGetPlatformIDs refuses to list no platform.
GetFilteredDevices(s) ==
  LET found == [i \in DOMAIN FilteredPlatforms(s) |->
                  FilteredDevices(s, FilteredPlatforms(s)[i])]
  IN  IF s = <<>> \/ \E i \in DOMAIN found : found[i].threw THEN Thrown
      ELSE Result(FlattenSeq([i \in DOMAIN found |-> found[i].list]))

-----------------------------------------------------------------------------
(* select_device. *)

\* No device is an exception, one is taken, among several the user chooses.
Enumerate(s) ==
  LET found == GetFilteredDevices(s).list IN
  /\ task = "select" /\ at = "begin"
  /\ system' = s
  /\ offered' = found
  /\ at' = CASE Len(found) = 0 -> "threw"
             [] Len(found) = 1 -> "returned"
             [] OTHER -> "prompt"
  /\ chosen' = IF at' = "returned" THEN Head(found) ELSE <<>>
  /\ input' \in IF at' = "prompt" THEN Inputs ELSE {<<>>}
  /\ UNCHANGED <<task, refs, wrapped>>

\* What was typed does not do.
TryAgainAtLast(word) == word = NotANumber \/ word >= Len(offered) - 1   \* mutant
TryAgain(word) == word = NotANumber \/ word >= Len(offered)

\* std::cin >> device_number, and the next round if need be.
ReadChoice ==
  /\ task = "select" /\ at = "prompt" /\ input # <<>>
  /\ input' = Tail(input)
  /\ IF TryAgain(Head(input)) THEN UNCHANGED <<at, chosen>>
     ELSE at' = "returned" /\ chosen' = offered[Head(input) + 1]
  /\ UNCHANGED <<task, system, offered, refs, wrapped>>

\* When the input has ended every read fails: the loop goes round for ever.
ReadNothing ==
  /\ task = "select" /\ at = "prompt" /\ input = <<>>
  /\ UNCHANGED enumVars

-----------------------------------------------------------------------------
(* Device::create_sub_devices. *)

\* clCreateSubDevices gives its caller a reference to each.
CreateSubDevices(n) ==
  /\ task = "sub_devices" /\ at = "begin"
  /\ refs' = [i \in 1 .. n |-> 1]
  /\ at' = "wrapping"
  /\ UNCHANGED <<task, system, input, offered, chosen, wrapped>>

\* emplace_back(Device{raw_result[i], false}): the copy in the vector retains the
\* sub-device, the end of the temporary releases it.
RetainsAgain == 1              \* mutant: Device{..., true}, as in Program::devices()
Retains == 0
WrapSubDevice ==
  /\ task = "sub_devices" /\ at = "wrapping" /\ wrapped < Len(refs)
  /\ wrapped' = wrapped + 1
  /\ refs' = [refs EXCEPT ![wrapped'] = @ + Retains]
  /\ UNCHANGED <<task, at, system, input, offered, chosen>>

\* The end of the vector: the caller is done with the sub-devices, or Device::Device
\* threw at one of them.
DropSubDevices ==
  /\ task = "sub_devices" /\ at = "wrapping"
  /\ refs' = [i \in DOMAIN refs |-> IF i <= wrapped THEN refs[i] - 1 ELSE refs[i]]
  /\ at' = IF wrapped < Len(refs) THEN "threw" ELSE "returned"
  /\ UNCHANGED <<task, system, input, offered, chosen, wrapped>>

-----------------------------------------------------------------------------

EnumInit(t) ==
  /\ task = t /\ at = "begin"
  /\ system = <<>> /\ input = <<>> /\ offered = <<>> /\ chosen = <<>>
  /\ refs = <<>> /\ wrapped = 0

EnumNext ==
  \/ \E s \in Systems : Enumerate(s)
  \/ ReadChoice \/ ReadNothing
  \/ \E n \in 1 .. MaxSubDevices : CreateSubDevices(n)
  \/ WrapSubDevice \/ DropSubDevices

\* A program that does the one or the other.
EnumSpec == (\E t \in {"select", "sub_devices"} : EnumInit(t)) /\ [][EnumNext]_enumVars

-----------------------------------------------------------------------------
(* Properties. *)

Matching ==
  {place \in (DOMAIN system) \X (1 .. MaxDevices) :
     /\ system[place[1]].suits /\ place[2] \in DOMAIN system[place[1]].devices
     /\ system[place[1]].devices[place[2]] = "suitable"}

Before(a, b) == a[1] < b[1] \/ (a[1] = b[1] /\ a[2] < b[2])

\* The devices offered are those that match, each once, sorted by platform, and the
\* one chosen is one of them; unless an exception was thrown, because there is no
\* platform or one that suits has no device, or one that cannot be read.
OffersMatching ==
  task = "select" /\ at # "begin" =>
    /\ \A i, j \in DOMAIN offered : i < j => Before(offered[i], offered[j])
    /\ \/ ToSet(offered) = Matching
       \/ /\ at = "threw"
          /\ system = <<>> \/ \E p \in DOMAIN system :
               system[p].suits /\ (system[p].devices = <<>>
                                     \/ Contains(system[p].devices, "unreadable"))
    /\ at = "returned" => chosen \in ToSet(offered)

\* A user who types one of the numbers offered, after whatever else, gets a device
\* (shared.hpp:73).
SelectionEnds ==
  (task = "select" /\ at = "prompt" /\ \E i \in DOMAIN input : input[i] \in 0 .. Len(offered) - 1)
    ~> at = "returned"

\* In the end no sub-device is left over, except, after an exception, those that had
\* no Device yet.
SubDevicesReleased ==
  task = "sub_devices" /\ at \in {"returned", "threw"} =>
    \A i \in DOMAIN refs : refs[i] = (IF at = "threw" /\ i > wrapped THEN 1 ELSE 0)
=============================================================================
