----------------------------- MODULE Rectangles -----------------------------
(***************************************************************************)
(* Rectangles of buffers and of host memory, and regions of images, of one *)
(* or two dimensions are sent to OpenCL as three-dimensional ones.  What a *)
(* call does is the set of its moves: pairs of a place that it reads and   *)
(* the place that it writes with what was there.  Places are bytes, or     *)
(* coordinates of an image, whose pixels are taken to be of one byte.      *)
(***************************************************************************)
EXTENDS Naturals

Positive == Nat \ {0}

\* Where a rectangle lies in a buffer or in host memory, in two dimensions and in
\* three; and how large it is.
Side2D == [offset : Nat \X Nat, row : Nat]
Side3D == [offset : Nat \X Nat \X Nat, pitch : Nat \X Nat]
Size2D == Positive \X Positive

-----------------------------------------------------------------------------
(* OpenCL. *)

\* Pitches of 0 are rows and slices without gaps.
RowPitch(s, region) == IF s.pitch[1] = 0 THEN region[1] ELSE s.pitch[1]
SlicePitch(s, region) ==
  IF s.pitch[2] = 0 THEN region[2] * RowPitch(s, region) ELSE s.pitch[2]

Byte(s, region, p) ==
  (s.offset[3] + p[3]) * SlicePitch(s, region)
    + (s.offset[2] + p[2]) * RowPitch(s, region) + s.offset[1] + p[1]

Cells(region) == (0 .. region[1] - 1) \X (0 .. region[2] - 1) \X (0 .. region[3] - 1)

Moves(from, to, region) ==
  {<<Byte(from, region, p), Byte(to, region, p)>> : p \in Cells(region)}

\* The sides in the order of the arguments: buffer_origin and host_origin, src_origin
\* and dst_origin, each with its pitches.
clEnqueueReadBufferRect(buffer, host, region) == Moves(buffer, host, region)
clEnqueueWriteBufferRect(buffer, host, region) == Moves(host, buffer, region)
clEnqueueCopyBufferRect(src, dst, region) == Moves(src, dst, region)

Pixel(origin, p) == <<origin[1] + p[1], origin[2] + p[2], origin[3] + p[3]>>

clEnqueueReadImage(origin, region, pitch) ==
  LET host == [offset |-> <<0, 0, 0>>, pitch |-> pitch]
  IN  {<<Pixel(origin, p), Byte(host, region, p)>> : p \in Cells(region)}

-----------------------------------------------------------------------------
(* The raw_X_3d functions: what is a source or a destination to the caller is put in   *)
(* the place of a buffer or of host memory, or of src and dst.                          *)

raw_read_buffer_rect_3d(source, dest, size) ==
  clEnqueueReadBufferRect(source, dest, size)

\* source_offset and source_pitch, which are the host's, come first here too.
raw_write_buffer_rect_3d(source, dest, size) ==
  clEnqueueWriteBufferRect(source, dest, size)

raw_copy_buffer_rect_3d(source, dest, size) ==
  clEnqueueCopyBufferRect(source, dest, size)

raw_read_image_3d(origin, pitch, region) == clEnqueueReadImage(origin, region, pitch)

-----------------------------------------------------------------------------
(* The raw_X_2d and raw_X_1d functions. *)

\* One side, and the size: one slice.
To3D(s) == [offset |-> <<s.offset[1], s.offset[2], 0>>, pitch |-> <<s.row, 0>>]
Flat(size) == <<size[1], size[2], 0>>                            \* mutant
Slice3D(size) == <<size[1], size[2], 1>>

raw_read_buffer_rect_2d(source, dest, size) ==
  raw_read_buffer_rect_3d(To3D(source), To3D(dest), Slice3D(size))

raw_write_buffer_rect_2d(source, dest, size) ==
  raw_write_buffer_rect_3d(To3D(source), To3D(dest), Slice3D(size))

raw_copy_buffer_rect_2d(source, dest, size) ==
  raw_copy_buffer_rect_3d(To3D(source), To3D(dest), Slice3D(size))

raw_read_image_1d(origin, length) ==
  raw_read_image_3d(<<origin, 0, 0>>, <<0, 0>>, <<length, 1, 1>>)

raw_read_image_2d(origin, row, region) ==
  raw_read_image_3d(<<origin[1], origin[2], 0>>, <<row, 0>>, Slice3D(region))

-----------------------------------------------------------------------------
(* What a caller takes the arguments for: size[2] rows of size[1] bytes. *)

Cells2D(size) == (0 .. size[1] - 1) \X (0 .. size[2] - 1)

Byte2D(s, size, p) ==
  (s.offset[2] + p[2]) * (IF s.row = 0 THEN size[1] ELSE s.row) + s.offset[1] + p[1]

Moves2D(source, dest, size) ==
  {<<Byte2D(source, size, p), Byte2D(dest, size, p)>> : p \in Cells2D(size)}

\* Both sides have the same bytes in the same places.
SidesAgree(source, dest, size) ==
  \A p \in Cells2D(size) : Byte2D(source, size, p) = Byte2D(dest, size, p)

ImageMoves2D(origin, row, size) ==
  LET host == [offset |-> <<0, 0>>, row |-> row]
  IN  {<< <<origin[1] + p[1], origin[2] + p[2], 0>>, Byte2D(host, size, p)>> :
         p \in Cells2D(size)}
=============================================================================
