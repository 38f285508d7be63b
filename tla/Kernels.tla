------------------------------ MODULE Kernels ------------------------------
(***************************************************************************)
(* The OpenCL C kernels of the examples (examples/src/kernels), as what    *)
(* one work-item (i, j) = (get_global_id(0), get_global_id(1)) stores in   *)
(* its output and where.  Matrices are square and stored row after row, j  *)
(* being the row; elements are integers, so rounding is left out.          *)
(*                                                                         *)
(* The kernels that stage their input in local memory are in WorkGroups.   *)
(***************************************************************************)
EXTENDS Integers, FiniteSetsExt

CONSTANT Side       \* get_global_size(0) and get_global_size(1)

ASSUME SideAssumption == Side \in Nat \ {0}

Undefined == -1000     \* what memory holds that nobody has written

Sides == 0 .. Side - 1
Cells == 0 .. Side * Side - 1

\* The index of column i of row j.
Idx(i, j) == j * Side + i

\* What work-item (i, j) stores, and where.
TransposeInPlace(in, i, j) ==                                    \* mutant
  [cell |-> Idx(i, j), value |-> in[Idx(i, j)]]
TransposeNaive(in, i, j) ==
  [cell |-> Idx(j, i), value |-> in[Idx(i, j)]]

MatmulNaive(A, B, i, j) ==
  [cell |-> Idx(i, j),
   value |-> MapThenSumSet(LAMBDA k : A[Idx(k, j)] * B[Idx(i, k)], Sides)]

MatmulTranspose(A, transposedB, i, j) ==
  [cell |-> Idx(i, j),
   value |-> MapThenSumSet(LAMBDA k : A[Idx(k, j)] * transposedB[Idx(k, j)], Sides)]

VectorAdd(A, B, gid) == [cell |-> gid, value |-> A[gid] + B[gid]]

WorkItem(kernel, x, y, i, j) ==
  CASE kernel = "transpose_naive" -> TransposeNaive(x, i, j)
    [] kernel = "matmul_naive" -> MatmulNaive(x, y, i, j)
    [] kernel = "matmul_transpose" -> MatmulTranspose(x, y, i, j)

\* The output of a launch of Side x Side work-items, if no two of them store to
\* the same cell.
Launch(kernel, x, y) ==
  [c \in Cells |->
     LET item == CHOOSE p \in Sides \X Sides : WorkItem(kernel, x, y, p[1], p[2]).cell = c
     IN  WorkItem(kernel, x, y, item[1], item[2]).value]

-----------------------------------------------------------------------------
(* What the kernels are for. *)

Transposed(in) == [c \in Cells |-> in[Idx(c \div Side, c % Side)]]

Product(A, B) ==
  [c \in Cells |->
     MapThenSumSet(LAMBDA k : A[Idx(k, c \div Side)] * B[Idx(c % Side, k)], Sides)]
=============================================================================
