----------------------------- MODULE WorkGroups -----------------------------
(***************************************************************************)
(* One launch of a kernel over Side x Side work-items in square            *)
(* work-groups.  A compute unit runs one work-group at a time, and the     *)
(* work-items of a group in any order, except that none passes a barrier   *)
(* before all have reached it.  transpose_buf is the group's own.          *)
(***************************************************************************)
EXTENDS Kernels

CONSTANTS
  GroupSide,       \* get_local_size(0) and get_local_size(1)
  ComputeUnits     \* how many work-groups run at once

\* "The matrix has a size which is evenly divisible by the work group size",
\* "work-groups are square" (matrix_transpose_double.cl).
ASSUME GroupAssumption ==
  /\ GroupSide \in Nat \ {0} /\ Side % GroupSide = 0
  /\ ComputeUnits \in Nat \ {0}

Items == Sides \X Sides
Groups == (0 .. Side \div GroupSide - 1) \X (0 .. Side \div GroupSide - 1)
LocalCells == 0 .. GroupSide * GroupSide - 1

Group(item) == <<item[1] \div GroupSide, item[2] \div GroupSide>>
Members == [g \in Groups |-> {item \in Items : Group(item) = g}]

\* get_local_id(0) and get_local_id(1)
LocalId(item) == <<item[1] % GroupSide, item[2] % GroupSide>>

\* Two inputs whose elements differ.
InA == [c \in Cells |-> c + 1]
InB == [c \in Cells |-> 3 * c + 2]

VARIABLES
  kernel,          \* the kernel that runs
  pc,              \* where each work-item is
  scratch,         \* transpose_buf of each work-group
  out              \* the output buffer

groupVars == <<kernel, pc, scratch, out>>

Launched == {"transpose_naive", "transpose_local", "matmul_naive"}

\* The kernel k is launched, or none.
GroupInit(k) ==
  /\ kernel = k
  /\ pc = [item \in Items |-> IF k = "none" THEN "done" ELSE "start"]
  /\ scratch = [g \in Groups |-> [c \in LocalCells |-> Undefined]]
  /\ out = [c \in Cells |-> Undefined]

\* The work-groups under way.
UnderWay(g) ==
  /\ \E item \in Members[g] : pc[item] # "start"
  /\ \E item \in Members[g] : pc[item] # "done"
Running == {g \in Groups : UnderWay(g)}

MayStart(item) ==
  /\ pc[item] = "start"
  /\ \/ Group(item) \in Running
     \/ Cardinality(Running) < ComputeUnits

Commit(item, store) ==
  /\ out' = [out EXCEPT ![store.cell] = store.value]
  /\ pc' = [pc EXCEPT ![item] = "done"]

\* A kernel that reads global memory and stores one element.
Compute(item) ==
  /\ kernel \in {"transpose_naive", "matmul_naive"}
  /\ MayStart(item)
  /\ \/ kernel = "transpose_naive" /\ Commit(item, TransposeNaive(InA, item[1], item[2]))
     \/ kernel = "matmul_naive" /\ Commit(item, MatmulNaive(InA, InB, item[1], item[2]))
  /\ UNCHANGED <<kernel, scratch>>

\* transpose_buf[loc_input_idx], with the local identifiers swapped.
UnswappedIdx(l) == l[2] * GroupSide + l[1]                       \* mutant
LocalInputIdx(l) == l[1] * GroupSide + l[2]

\* transpose_local up to its barrier.
Load(item) ==
  LET l == LocalInputIdx(LocalId(item)) IN
  /\ kernel = "transpose_local"
  /\ MayStart(item)
  /\ scratch' = [scratch EXCEPT ![Group(item)][l] = InA[Idx(item[1], item[2])]]
  /\ pc' = [pc EXCEPT ![item] = "barrier"]
  /\ UNCHANGED <<kernel, out>>

\* barrier(CLK_LOCAL_MEM_FENCE).
BarrierForgotten(g) ==                                           \* mutant
  \E item \in Members[g] :
    /\ pc[item] = "barrier"
    /\ pc' = [pc EXCEPT ![item] = "store"]
    /\ UNCHANGED <<kernel, scratch, out>>
BarrierOfAll(g) ==                                               \* mutant
  /\ \A item \in Items : pc[item] = "barrier"
  /\ pc' = [item \in Items |-> "store"]
  /\ UNCHANGED <<kernel, scratch, out>>
Barrier(g) ==
  /\ \A item \in Members[g] : pc[item] = "barrier"
  /\ pc' = [item \in Items |-> IF item \in Members[g] THEN "store" ELSE pc[item]]
  /\ UNCHANGED <<kernel, scratch, out>>

\* transpose_buf[loc_output_idx].
LocalOutputIdx(l) == l[2] * GroupSide + l[1]

\* The transposed block goes to the transposed place.
OffsetKept(g) == <<g[1] * GroupSide, g[2] * GroupSide>>          \* mutant
OutputOffset(g) == <<g[2] * GroupSide, g[1] * GroupSide>>

\* transpose_local after its barrier.
Store(item) ==
  LET g == Group(item)
      l == LocalId(item)
      offset == OutputOffset(g)
  IN  /\ pc[item] = "store"
      /\ Commit(item, [cell |-> Idx(offset[1] + l[1], offset[2] + l[2]),
                       value |-> scratch[g][LocalOutputIdx(l)]])
      /\ UNCHANGED <<kernel, scratch>>

GroupNext ==
  \/ \E item \in Items : Compute(item) \/ Load(item) \/ Store(item)
  \/ \E g \in Groups : Barrier(g)

\* One launch by itself.
GroupSpec == (\E k \in Launched : GroupInit(k)) /\ [][GroupNext]_groupVars

Done == \A item \in Items : pc[item] = "done"

-----------------------------------------------------------------------------
(* Properties. *)

\* Whatever the order of the work-items between barriers, the launch leaves the
\* transpose, or the product, of its inputs, in every cell of its output.
LaunchComputes ==
  Done /\ kernel # "none" =>
    out = IF kernel = "matmul_naive" THEN Product(InA, InB) ELSE Transposed(InA)

\* Every work-item gets past the barrier and ends.
LaunchEnds == <>Done
=============================================================================
