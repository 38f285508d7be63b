----------------------------- MODULE Conversions -----------------------------
(***************************************************************************)
(* What the library makes of arguments and answers on their way to and     *)
(* from OpenCL: lists of names in one string, and rectangles.              *)
(*                                                                         *)
(* A string is a sequence of letters and separators; that is all that the  *)
(* list code looks at.                                                     *)
(***************************************************************************)
EXTENDS Rectangles, Integers, FiniteSetsExt, SequencesExt

CONSTANTS
  Letters,      \* what names are made of
  Sep,          \* the separator of a list: ';' or ' '
  Unknown,      \* what lies past the end of a vector of names
  MaxText,      \* bound on the length of a list given by OpenCL
  MaxNames,     \* bound on the kernel names requested, and on the devices
  MaxExtent     \* bound on the sizes, offsets and pitches of rectangles

ASSUME ConversionsAssumption ==
  /\ Sep \notin Letters /\ Unknown \notin Letters \cup {Sep}
  /\ {MaxText, MaxNames, MaxExtent} \subseteq Nat

VARIABLE call     \* the last conversion: its inputs and its result

NoCall == [op |-> "none"]

-----------------------------------------------------------------------------
(* decode_opencl_list. *)

\* find(character, from): a position, counted from 0, or npos.
Npos == -1
FindCharacter(text, character, from) ==
  LET hits == {i \in from .. Len(text) - 1 : text[i + 1] = character}
  IN  IF hits = {} THEN Npos ELSE Min(hits)
FindSep(text, from) == FindCharacter(text, Sep, from)

\* substr(from, length), kept only if it holds something.
Item(text, from, length) ==
  IF length > 0 THEN <<SubSeq(text, from + 1, from + length)>> ELSE <<>>

\* The loop over the items between two separators, then the last item.
LastItemLost(text, last) == <<>>                                 \* mutant
LastItem(text, last) ==
  IF last # Len(text) - 1 THEN <<SubSeq(text, last + 2, Len(text))>> ELSE <<>>

Middle(text, first) ==
  LET from[last \in 0 .. Len(text)] ==
        LET next == FindSep(text, last + 1)
        IN  IF next = Npos THEN LastItem(text, last)
            ELSE Item(text, last + 1, next - last - 1) \o from[next]
  IN  from[first]

DecodeOpenclList(text) ==
  LET first == FindSep(text, 0)
  IN  IF Len(text) = 0 THEN <<>>
      ELSE IF first = Npos THEN <<text>>
      ELSE Item(text, 0, first) \o Middle(text, first)

\* Any string, such as the extensions or the built-in kernels of a device.
DecodeList(text) ==
  call' = [op |-> "decode", text |-> text, result |-> DecodeOpenclList(text)]

\* ExtensionList::contains(): a map from the extensions wanted to whether they were
\* met while going through the list.
ContainsAll(contents, extensions) ==
  LET status == [e \in ToSet(extensions) |-> \E i \in DOMAIN contents : contents[i] = e]
  IN  \A e \in DOMAIN status : status[e]

-----------------------------------------------------------------------------
(* raw_create_program_with_built_in_kernels. *)

\* Element i of kernel_names, which the code reads without a check.
NameAt(names, i) == IF i \in DOMAIN names THEN names[i] ELSE <<Unknown>>

KernelList(names, devices) ==
  FlattenSeq([i \in 1 .. devices - 1 |-> Append(NameAt(names, i), Sep)])
    \o NameAt(names, devices)

RequestBuiltInKernels(names, devices) ==
  call' = [op |-> "kernels", names |-> names, devices |-> devices,
           result |-> KernelList(names, devices)]

-----------------------------------------------------------------------------
(* raw_X_buffer_rect_2d, raw_read_image_1d and raw_read_image_2d. *)

Extents == 0 .. MaxExtent

\* OpenCL refuses rows that overlap.
Fits(row, size) == row = 0 \/ row >= size[1]

Rectangle(how, source, dest, size, moves) ==
  /\ Fits(source.row, size) /\ Fits(dest.row, size)
  /\ call' = [op |-> "rectangle", how |-> how, source |-> source, dest |-> dest,
              size |-> size, moves |-> moves]

ReadBufferRect(source, dest, size) ==
  Rectangle("read", source, dest, size, raw_read_buffer_rect_2d(source, dest, size))

WriteBufferRect(source, dest, size) ==
  Rectangle("write", source, dest, size, raw_write_buffer_rect_2d(source, dest, size))

CopyBufferRect(source, dest, size) ==
  Rectangle("copy", source, dest, size, raw_copy_buffer_rect_2d(source, dest, size))

\* A line of an image is a region of one row.
ReadImage1D(origin, length) ==
  call' = [op |-> "image", origin |-> <<origin, 0>>, row |-> 0, size |-> <<length, 1>>,
           moves |-> raw_read_image_1d(origin, length)]

ReadImage2D(origin, row, size) ==
  /\ Fits(row, size)
  /\ call' = [op |-> "image", origin |-> origin, row |-> row, size |-> size,
              moves |-> raw_read_image_2d(origin, row, size)]

-----------------------------------------------------------------------------

CallInit == call = NoCall

Texts == UNION {[1 .. n -> Letters \cup {Sep}] : n \in 0 .. MaxText}

\* Names of kernels: one letter or two, no separator.
KernelNames == UNION {[1 .. n -> Letters] : n \in 1 .. 2}

Sides == [offset : Extents \X Extents, row : Extents]
Sizes == (Extents \ {0}) \X (Extents \ {0})

CallNext ==
  \/ \E text \in Texts : DecodeList(text)
  \/ \E n, devices \in 1 .. MaxNames :
       \E names \in [1 .. n -> KernelNames] : RequestBuiltInKernels(names, devices)
  \/ \E source, dest \in Sides, size \in Sizes :
       \/ ReadBufferRect(source, dest, size)
       \/ WriteBufferRect(source, dest, size)
       \/ CopyBufferRect(source, dest, size)
  \/ \E origin \in Extents, length \in Extents \ {0} : ReadImage1D(origin, length)
  \/ \E origin \in Extents \X Extents, row \in Extents, size \in Sizes :
       ReadImage2D(origin, row, size)

CallSpec == CallInit /\ [][CallNext]_call

-----------------------------------------------------------------------------
(* Properties. *)

\* The runs of letters in a text, as long as they go, in their order.
Runs(text) ==
  LET inside(i) == i \in DOMAIN text /\ text[i] # Sep
      starts == {i \in DOMAIN text : inside(i) /\ ~inside(i - 1)}
      start(k) == CHOOSE i \in starts : Cardinality({j \in starts : j <= i}) = k
      end(i) == Min({j \in i .. Len(text) : ~inside(j + 1)})
  IN  [k \in 1 .. Cardinality(starts) |-> SubSeq(text, start(k), end(start(k)))]

\* The items of a list are its runs of letters, whatever the spurious separators at
\* its ends or between items (common.cpp:174 and 182).
DecodesItems == call.op = "decode" => call.result = Runs(call.text)

\* The list of built-in kernels that OpenCL receives holds the names requested, however
\* many devices there are (context.cpp:306 and context.hpp:125).
KernelsRequested == call.op = "kernels" => Runs(call.result) = call.names

\* The bytes, or pixels, of a read or a copy arrive where its caller asked for them, and
\* so do those of a write whose two sides agree (command_queue.cpp:506): a conversion to
\* three dimensions moves nothing else, and mixes up neither sides nor pitches.
SameBytes ==
  /\ call.op = "rectangle" =>
       \/ call.how = "write" /\ ~SidesAgree(call.source, call.dest, call.size)
       \/ call.moves = Moves2D(call.source, call.dest, call.size)
  /\ call.op = "image" => call.moves = ImageMoves2D(call.origin, call.row, call.size)

\* "write to a 2D rectangle of buffer data" (command_queue.hpp:127): dest_offset and
\* dest_row_pitch say where in the buffer, the source's say where in host memory.
WritesWhereAsked ==
  call.op = "rectangle" /\ call.how = "write" =>
    call.moves = Moves2D(call.source, call.dest, call.size)
=============================================================================
