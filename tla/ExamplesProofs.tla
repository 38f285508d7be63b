--------------------------- MODULE ExamplesProofs ---------------------------
(***************************************************************************)
(* Proofs about the examples.  A launch computes what it is for, for every *)
(* side of the matrix, every size of the work-groups that divides it, any  *)
(* number of compute units and every interleaving of the work-items.       *)
(* create_sub_devices leaves no reference behind, and the devices offered  *)
(* are those that match.  The programs have no races, end with nothing     *)
(* left to run, and compare what their calls give one after the other;     *)
(* what they expect of it holds of all but one.                            *)
(***************************************************************************)
EXTENDS WorkGroups, Pipelines, Enumerations, SequenceTheorems, NaturalsInduction,
        WellFoundedInduction, TLAPS

-----------------------------------------------------------------------------
(* Quotients and remainders. *)

LEMMA DivMod ==
  ASSUME NEW n \in Nat \ {0}, NEW x \in Nat
  PROVE  /\ x \div n \in Nat /\ x % n \in 0 .. n - 1
         /\ x = (x \div n) * n + (x % n)
<1>1. x % n \in 0 .. n - 1
  OBVIOUS
<1>2. x \div n \in Int
  OBVIOUS
<1>3. x = (x \div n) * n + (x % n)
  OBVIOUS
<1>4. x \div n \in Nat
  OBVIOUS
<1>5. QED
  BY <1>1, <1>2, <1>3, <1>4

LEMMA Times ==
  ASSUME NEW n \in Nat, NEW a \in Nat, NEW b \in Nat, a < b
  PROVE  a * n + n <= b * n
OBVIOUS

LEMMA DivUnique ==
  ASSUME NEW n \in Nat \ {0}, NEW a \in Nat, NEW b \in Nat,
         NEW r \in 0 .. n - 1, NEW s \in 0 .. n - 1, a * n + r = b * n + s
  PROVE  a = b /\ r = s
<1>0. a * n \in Nat /\ b * n \in Nat
  OBVIOUS
<1>1. CASE a < b
  <2>1. a * n + n <= b * n
    BY <1>1, Times
  <2>2. QED
    BY <1>0, <2>1
<1>2. CASE b < a
  <2>1. b * n + n <= a * n
    BY <1>2, Times
  <2>2. QED
    BY <1>0, <2>1
<1>3. CASE a = b
  BY <1>0, <1>3
<1>4. QED
  BY <1>1, <1>2, <1>3

LEMMA DivOf ==
  ASSUME NEW n \in Nat \ {0}, NEW a \in Nat, NEW r \in 0 .. n - 1
  PROVE  /\ a * n + r \in Nat /\ (a * n + r) \div n = a /\ (a * n + r) % n = r
<1> DEFINE x == a * n + r
<1>1. x \in Nat
  OBVIOUS
<1> HIDE DEF x
<1>2. x \div n \in Nat /\ x % n \in 0 .. n - 1 /\ x = (x \div n) * n + (x % n)
  BY <1>1, DivMod
<1>3. x = a * n + r
  BY DEF x
<1>4. QED
  BY <1>1, <1>2, <1>3, DivUnique DEF x
-----------------------------------------------------------------------------
(* Work-items, their groups, and the cells they store to. *)

LocalIds == (0 .. GroupSide - 1) \X (0 .. GroupSide - 1)

\* The work-item of group g whose local identifiers are l.
ItemAt(g, l) == <<g[1] * GroupSide + l[1], g[2] * GroupSide + l[2]>>

\* The work-item of the same group that loads what the given one stores.
Mate(item) == ItemAt(Group(item), <<LocalId(item)[2], LocalId(item)[1]>>)

LEMMA Sizes ==
  /\ Side \in Nat \ {0} /\ GroupSide \in Nat \ {0}
  /\ Side \div GroupSide \in Nat /\ Side = (Side \div GroupSide) * GroupSide
<1>1. Side \in Nat \ {0} /\ GroupSide \in Nat \ {0} /\ Side % GroupSide = 0
  BY SideAssumption, GroupAssumption
<1>2. QED
  BY <1>1, DivMod

\* What holds of both coordinates of a work-item.
LEMMA Coordinate ==
  ASSUME NEW x \in Sides
  PROVE  /\ x \in Nat
         /\ x \div GroupSide \in 0 .. Side \div GroupSide - 1
         /\ x % GroupSide \in 0 .. GroupSide - 1
         /\ x = (x \div GroupSide) * GroupSide + (x % GroupSide)
<1>1. x \in Nat /\ x < Side
  BY Sizes DEF Sides
<1>2. /\ x \div GroupSide \in Nat /\ x % GroupSide \in 0 .. GroupSide - 1
      /\ x = (x \div GroupSide) * GroupSide + (x % GroupSide)
  BY <1>1, Sizes, DivMod
<1>3. x \div GroupSide < Side \div GroupSide
  <2> SUFFICES ASSUME Side \div GroupSide <= x \div GroupSide PROVE FALSE
    BY <1>2, Sizes
  <2> DEFINE a == Side \div GroupSide
             b == x \div GroupSide
  <2>1. a \in Nat /\ b \in Nat /\ a <= b /\ Side = a * GroupSide /\ x >= b * GroupSide
    BY <1>2, Sizes
  <2> HIDE DEF a, b
  <2>2. a * GroupSide <= b * GroupSide
    <3>1. a = b \/ a * GroupSide + GroupSide <= b * GroupSide
      BY <2>1, Sizes, Times
    <3>2. a * GroupSide \in Nat /\ b * GroupSide \in Nat
      BY <2>1, Sizes
    <3>3. QED
      BY <3>1, <3>2, Sizes
  <2>3. a * GroupSide \in Nat /\ b * GroupSide \in Nat
    BY <2>1, Sizes
  <2>4. QED
    BY <1>1, <2>1, <2>2, <2>3
<1>4. QED
  BY <1>1, <1>2, <1>3, Sizes

LEMMA CoordinateAt ==
  ASSUME NEW a \in 0 .. Side \div GroupSide - 1, NEW r \in 0 .. GroupSide - 1
  PROVE  /\ a * GroupSide + r \in Sides
         /\ (a * GroupSide + r) \div GroupSide = a
         /\ (a * GroupSide + r) % GroupSide = r
<1> DEFINE q == Side \div GroupSide
<1>1. q \in Nat /\ Side = q * GroupSide /\ a \in Nat /\ a < q
  BY Sizes
<1> HIDE DEF q
<1>2. a * GroupSide + GroupSide <= q * GroupSide
  BY <1>1, Sizes, Times
<1>3. a * GroupSide \in Nat
  BY <1>1, Sizes
<1>4. a * GroupSide + r \in Sides
  BY <1>1, <1>2, <1>3, Sizes DEF Sides
<1>5. QED
  BY <1>1, <1>4, Sizes, DivOf

LEMMA ItemParts ==
  ASSUME NEW item \in Items
  PROVE  /\ item[1] \in Sides /\ item[2] \in Sides
         /\ Group(item) \in Groups /\ LocalId(item) \in LocalIds
         /\ item = ItemAt(Group(item), LocalId(item))
<1>1. item[1] \in Sides /\ item[2] \in Sides /\ item = <<item[1], item[2]>>
  BY DEF Items
<1>2. QED
  BY <1>1, Coordinate DEF Group, Groups, LocalId, LocalIds, ItemAt

LEMMA PartsOf ==
  ASSUME NEW g \in Groups, NEW l \in LocalIds
  PROVE  /\ ItemAt(g, l) \in Items
         /\ Group(ItemAt(g, l)) = g /\ LocalId(ItemAt(g, l)) = l
<1>1. /\ g = <<g[1], g[2]>> /\ l = <<l[1], l[2]>>
      /\ g[1] \in 0 .. Side \div GroupSide - 1 /\ g[2] \in 0 .. Side \div GroupSide - 1
      /\ l[1] \in 0 .. GroupSide - 1 /\ l[2] \in 0 .. GroupSide - 1
  BY DEF Groups, LocalIds
<1>2. ItemAt(g, l) \in Items
  BY <1>1, CoordinateAt DEF ItemAt, Items
<1>3. QED
  BY <1>1, <1>2, CoordinateAt DEF ItemAt, Group, LocalId

LEMMA Mates ==
  ASSUME NEW item \in Items
  PROVE  /\ Mate(item) \in Items /\ Mate(Mate(item)) = item
         /\ Group(Mate(item)) = Group(item)
         /\ LocalId(Mate(item)) = <<LocalId(item)[2], LocalId(item)[1]>>
<1> DEFINE g == Group(item)
           l == LocalId(item)
           s == <<l[2], l[1]>>
<1>1. g \in Groups /\ l \in LocalIds /\ item = ItemAt(g, l)
  BY ItemParts
<1>2. s \in LocalIds /\ <<s[2], s[1]>> = l
  BY <1>1 DEF LocalIds
<1>3. Mate(item) = ItemAt(g, s)
  BY DEF Mate
<1> HIDE DEF g, l, s
<1>4. /\ Mate(item) \in Items /\ Group(Mate(item)) = g /\ LocalId(Mate(item)) = s
  BY <1>1, <1>2, <1>3, PartsOf
<1>5. Mate(Mate(item)) = ItemAt(g, <<s[2], s[1]>>)
  BY <1>4 DEF Mate
<1>6. QED
  BY <1>1, <1>2, <1>4, <1>5 DEF g, l, s

\* A cell is stored to by one pair of coordinates.
LEMMA IdxInCells ==
  ASSUME NEW i \in Sides, NEW j \in Sides
  PROVE  Idx(i, j) \in Cells
<1>1. i \in Nat /\ j \in Nat /\ i < Side /\ j < Side
  BY Sizes DEF Sides
<1>2. j * Side + Side <= Side * Side
  BY <1>1, Sizes, Times
<1>3. j * Side \in Nat /\ Side * Side \in Nat
  BY <1>1, Sizes
<1>4. QED
  BY <1>1, <1>2, <1>3, Sizes DEF Idx, Cells

LEMMA IdxInjective ==
  ASSUME NEW i \in Sides, NEW j \in Sides, NEW k \in Sides, NEW m \in Sides,
         Idx(i, j) = Idx(k, m)
  PROVE  i = k /\ j = m
BY Sizes, DivUnique DEF Sides, Idx

LEMMA CellParts ==
  ASSUME NEW c \in Cells
  PROVE  c % Side \in Sides /\ c \div Side \in Sides /\ Idx(c % Side, c \div Side) = c
<1> DEFINE a == c \div Side
<1>1. c \in Nat /\ c < Side * Side
  BY Sizes DEF Cells
<1>2. a \in Nat /\ c % Side \in 0 .. Side - 1 /\ c = a * Side + (c % Side)
  BY <1>1, Sizes, DivMod
<1> HIDE DEF a
<1>3. a < Side
  <2> SUFFICES ASSUME Side <= a PROVE FALSE
    BY <1>2, Sizes
  <2>1. a = Side \/ Side * Side + Side <= a * Side
    BY <1>2, Sizes, Times
  <2>2. a * Side \in Nat /\ Side * Side \in Nat
    BY <1>2, Sizes
  <2>3. QED
    BY <1>1, <1>2, <2>1, <2>2, Sizes
<1>4. QED
  BY <1>2, <1>3, Sizes DEF a, Sides, Idx

LEMMA LocalCell ==
  ASSUME NEW l \in LocalIds
  PROVE  LocalInputIdx(l) \in LocalCells
<1>1. /\ l[1] \in Nat /\ l[2] \in Nat /\ l[1] < GroupSide /\ l[2] < GroupSide
  BY Sizes DEF LocalIds
<1>2. l[1] * GroupSide + GroupSide <= GroupSide * GroupSide
  BY <1>1, Sizes, Times
<1>3. l[1] * GroupSide \in Nat /\ GroupSide * GroupSide \in Nat
  BY <1>1, Sizes
<1>4. QED
  BY <1>1, <1>2, <1>3, Sizes DEF LocalInputIdx, LocalCells

LEMMA LocalCellInjective ==
  ASSUME NEW l \in LocalIds, NEW k \in LocalIds, LocalInputIdx(l) = LocalInputIdx(k)
  PROVE  l = k
<1>1. /\ l = <<l[1], l[2]>> /\ k = <<k[1], k[2]>>
      /\ l[1] \in 0 .. GroupSide - 1 /\ l[2] \in 0 .. GroupSide - 1
      /\ k[1] \in 0 .. GroupSide - 1 /\ k[2] \in 0 .. GroupSide - 1
  BY DEF LocalIds
<1>2. l[1] = k[1] /\ l[2] = k[2]
  BY <1>1, Sizes, DivUnique DEF LocalInputIdx
<1>3. QED
  BY <1>1, <1>2
-----------------------------------------------------------------------------
(* The invariant of a launch. *)

\* What a work-item stores, and where: transpose_local stores what its mate loaded, to
\* where transpose_naive would have its mate store it.
StoreOf(k, item) ==
  IF k = "matmul_naive" THEN MatmulNaive(InA, InB, item[1], item[2])
  ELSE IF k = "transpose_naive" THEN TransposeNaive(InA, item[1], item[2])
  ELSE TransposeNaive(InA, Mate(item)[1], Mate(item)[2])

LaunchTyped ==
  /\ kernel \in Launched
  /\ pc \in [Items -> {"start", "barrier", "store", "done"}]
  /\ scratch \in [Groups -> [LocalCells -> Int]]
  /\ out = [c \in Cells |-> out[c]]

\* Only transpose_local stops at a barrier.
BarrierLocal ==
  kernel # "transpose_local" => \A item \in Items : pc[item] \in {"start", "done"}

\* A work-item at the barrier or past it has loaded its element.
Loaded ==
  kernel = "transpose_local" =>
    \A item \in Items : pc[item] # "start" =>
      scratch[Group(item)][LocalInputIdx(LocalId(item))] = InA[Idx(item[1], item[2])]

\* None is past the barrier before all of its group have reached it.
Gathered ==
  \A item, other \in Items :
    pc[item] = "store" /\ Group(other) = Group(item) => pc[other] # "start"

Written ==
  \A item \in Items : pc[item] = "done" =>
    out[StoreOf(kernel, item).cell] = StoreOf(kernel, item).value

LaunchInv == LaunchTyped /\ BarrierLocal /\ Loaded /\ Gathered /\ Written

\* Where a work-item stores, by its coordinates.
LEMMA StoreCell ==
  ASSUME NEW k \in Launched, NEW item \in Items
  PROVE  StoreOf(k, item).cell =
           IF k = "matmul_naive" THEN Idx(item[1], item[2])
           ELSE IF k = "transpose_naive" THEN Idx(item[2], item[1])
           ELSE Idx(Mate(item)[2], Mate(item)[1])
BY DEF StoreOf, MatmulNaive, TransposeNaive

LEMMA StoreInCells ==
  ASSUME NEW k \in Launched, NEW item \in Items
  PROVE  StoreOf(k, item).cell \in Cells
BY StoreCell, Mates, ItemParts, IdxInCells

\* No two work-items store to the same cell.
LEMMA StoreApart ==
  ASSUME NEW k \in Launched, NEW item \in Items, NEW other \in Items,
         StoreOf(k, item).cell = StoreOf(k, other).cell
  PROVE  item = other
<1>1. /\ item[1] \in Sides /\ item[2] \in Sides /\ other[1] \in Sides /\ other[2] \in Sides
      /\ item = <<item[1], item[2]>> /\ other = <<other[1], other[2]>>
  BY DEF Items
<1>2. CASE k = "matmul_naive"
  BY <1>1, <1>2, StoreCell, IdxInjective
<1>3. CASE k = "transpose_naive"
  BY <1>1, <1>3, StoreCell, IdxInjective
<1>4. CASE k = "transpose_local"
  <2>1. Mate(item) \in Items /\ Mate(other) \in Items
    BY Mates
  <2>2. /\ Mate(item)[1] \in Sides /\ Mate(item)[2] \in Sides
        /\ Mate(other)[1] \in Sides /\ Mate(other)[2] \in Sides
        /\ Mate(item) = <<Mate(item)[1], Mate(item)[2]>>
        /\ Mate(other) = <<Mate(other)[1], Mate(other)[2]>>
    BY <2>1 DEF Items
  <2>3. Idx(Mate(item)[2], Mate(item)[1]) = Idx(Mate(other)[2], Mate(other)[1])
    BY <1>4, StoreCell
  <2>4. Mate(item) = Mate(other)
    BY <2>2, <2>3, IdxInjective
  <2>5. QED
    BY <2>4, Mates
<1>5. QED
  BY <1>2, <1>3, <1>4 DEF Launched

LEMMA LaunchInit == (\E k \in Launched : GroupInit(k)) => LaunchInv
<1> SUFFICES ASSUME NEW k \in Launched, GroupInit(k) PROVE LaunchInv
  OBVIOUS
<1>1. k # "none"
  BY DEF Launched
<1>2. /\ kernel \in Launched /\ pc = [item \in Items |-> "start"]
  BY <1>1 DEF GroupInit
<1>3. LaunchTyped
  <2>1. Undefined \in Int
    BY DEF Undefined
  <2>2. scratch \in [Groups -> [LocalCells -> Int]]
    BY <2>1 DEF GroupInit
  <2>3. out = [c \in Cells |-> out[c]]
    BY DEF GroupInit
  <2>4. QED
    BY <1>2, <2>2, <2>3 DEF LaunchTyped
<1>4. QED
  BY <1>2, <1>3 DEF LaunchInv, BarrierLocal, Loaded, Gathered, Written

\* A work-item that stores what is its to store does not disturb another.
LEMMA CommitWritten ==
  ASSUME LaunchInv, NEW item \in Items, kernel' = kernel, Commit(item, StoreOf(kernel, item))
  PROVE  /\ out' = [c \in Cells |-> out'[c]]
         /\ pc' \in [Items -> {"start", "barrier", "store", "done"}]
         /\ \A other \in Items : pc'[other] = IF other = item THEN "done" ELSE pc[other]
         /\ Written'
<1> DEFINE s(o) == StoreOf(kernel, o)
<1>1. /\ out' = [out EXCEPT ![s(item).cell] = s(item).value]
      /\ pc' = [pc EXCEPT ![item] = "done"]
  BY DEF Commit
<1>2. kernel \in Launched /\ out = [c \in Cells |-> out[c]]
  BY DEF LaunchInv, LaunchTyped
<1>3. \A o \in Items : s(o).cell \in Cells /\ (s(o).cell = s(item).cell => o = item)
  BY <1>2, StoreInCells, StoreApart
<1> HIDE DEF s
<1>4. /\ out' = [c \in Cells |-> out'[c]]
      /\ \A c \in Cells : out'[c] = IF c = s(item).cell THEN s(item).value ELSE out[c]
  BY <1>1, <1>2
<1>5. /\ pc' \in [Items -> {"start", "barrier", "store", "done"}]
      /\ \A o \in Items : pc'[o] = IF o = item THEN "done" ELSE pc[o]
  BY <1>1 DEF LaunchInv, LaunchTyped
<1>6. \A o \in Items : pc'[o] = "done" => out'[s(o).cell] = s(o).value
  <2>1. \A o \in Items : pc[o] = "done" => out[s(o).cell] = s(o).value
    BY DEF LaunchInv, Written, s
  <2>2. QED
    BY <1>3, <1>4, <1>5, <2>1
<1>7. Written'
  BY <1>6 DEF Written, s
<1>8. QED
  BY <1>4, <1>5, <1>7

LEMMA ComputeInv ==
  ASSUME LaunchInv, NEW item \in Items, Compute(item)
  PROVE  LaunchInv'
<1>1. /\ kernel \in {"transpose_naive", "matmul_naive"} /\ UNCHANGED <<kernel, scratch>>
      /\ Commit(item, StoreOf(kernel, item))
  BY DEF Compute, StoreOf
<1>2. /\ out' = [c \in Cells |-> out'[c]]
      /\ pc' \in [Items -> {"start", "barrier", "store", "done"}]
      /\ \A other \in Items : pc'[other] = IF other = item THEN "done" ELSE pc[other]
      /\ Written'
  BY <1>1, CommitWritten
<1>3. LaunchTyped'
  BY <1>1, <1>2 DEF LaunchInv, LaunchTyped
<1>4. BarrierLocal' /\ Loaded' /\ Gathered'
  BY <1>1, <1>2 DEF LaunchInv, BarrierLocal, Loaded, Gathered
<1>5. QED
  BY <1>2, <1>3, <1>4 DEF LaunchInv

LEMMA InputsTyped == \A c \in Cells : InA[c] \in Int
BY DEF InA, Cells

LEMMA LoadInv ==
  ASSUME LaunchInv, NEW item \in Items, Load(item)
  PROVE  LaunchInv'
<1> DEFINE g == Group(item)
           l == LocalInputIdx(LocalId(item))
           x == InA[Idx(item[1], item[2])]
<1>1. /\ kernel = "transpose_local" /\ pc[item] = "start" /\ UNCHANGED <<kernel, out>>
      /\ scratch' = [scratch EXCEPT ![g][l] = x]
      /\ pc' = [pc EXCEPT ![item] = "barrier"]
  BY DEF Load, MayStart
<1>2. g \in Groups /\ l \in LocalCells /\ x \in Int
  BY ItemParts, LocalCell, IdxInCells, InputsTyped
<1>3. /\ scratch' \in [Groups -> [LocalCells -> Int]]
      /\ \A h \in Groups, c \in LocalCells :
           scratch'[h][c] = IF h = g /\ c = l THEN x ELSE scratch[h][c]
  <2> HIDE DEF g, l, x
  <2>1. scratch \in [Groups -> [LocalCells -> Int]]
    BY DEF LaunchInv, LaunchTyped
  <2>2. QED
    BY <1>1, <1>2, <2>1
<1>4. /\ pc' \in [Items -> {"start", "barrier", "store", "done"}]
      /\ \A o \in Items : pc'[o] = IF o = item THEN "barrier" ELSE pc[o]
  BY <1>1 DEF LaunchInv, LaunchTyped
<1>5. LaunchTyped'
  BY <1>1, <1>3, <1>4 DEF LaunchInv, LaunchTyped
<1>6. Loaded'
  <2> SUFFICES ASSUME NEW o \in Items, pc'[o] # "start"
               PROVE  scratch'[Group(o)][LocalInputIdx(LocalId(o))] = InA[Idx(o[1], o[2])]
    BY DEF Loaded
  <2>1. Group(o) \in Groups /\ LocalInputIdx(LocalId(o)) \in LocalCells
    BY ItemParts, LocalCell
  <2>2. CASE o = item
    BY <1>3, <2>1, <2>2
  <2>3. CASE o # item
    <3>1. scratch[Group(o)][LocalInputIdx(LocalId(o))] = InA[Idx(o[1], o[2])]
      BY <1>1, <1>4, <2>3 DEF LaunchInv, Loaded
    <3>2. ~(Group(o) = g /\ LocalInputIdx(LocalId(o)) = l)
      <4> SUFFICES ASSUME Group(o) = g, LocalInputIdx(LocalId(o)) = l PROVE FALSE
        OBVIOUS
      <4>1. LocalId(o) = LocalId(item)
        BY ItemParts, LocalCellInjective
      <4>2. o = item
        BY <4>1, ItemParts
      <4>3. QED
        BY <2>3, <4>2
    <3>3. QED
      BY <1>3, <2>1, <3>1, <3>2
  <2>4. QED
    BY <2>2, <2>3
<1>7. BarrierLocal' /\ Gathered' /\ Written'
  BY <1>1, <1>4 DEF LaunchInv, BarrierLocal, Gathered, Written
<1>8. QED
  BY <1>5, <1>6, <1>7 DEF LaunchInv

LEMMA BarrierInv ==
  ASSUME LaunchInv, NEW g \in Groups, Barrier(g)
  PROVE  LaunchInv'
<1>1. /\ UNCHANGED <<kernel, scratch, out>>
      /\ \A o \in Items : o \in Members[g] <=> Group(o) = g
      /\ \A o \in Items : Group(o) = g => pc[o] = "barrier"
      /\ pc' = [o \in Items |-> IF o \in Members[g] THEN "store" ELSE pc[o]]
  BY DEF Barrier, Members
<1>2. /\ pc' \in [Items -> {"start", "barrier", "store", "done"}]
      /\ \A o \in Items : pc'[o] = IF Group(o) = g THEN "store" ELSE pc[o]
  BY <1>1 DEF LaunchInv, LaunchTyped
<1>3. LaunchTyped'
  BY <1>1, <1>2 DEF LaunchInv, LaunchTyped
<1>4. BarrierLocal' /\ Loaded' /\ Gathered' /\ Written'
  BY <1>1, <1>2 DEF LaunchInv, BarrierLocal, Loaded, Gathered, Written
<1>5. QED
  BY <1>3, <1>4 DEF LaunchInv

\* What transpose_local reads from local memory was loaded by the mate of the work-item,
\* before the barrier, and goes to where it belongs.
LEMMA StoreInv ==
  ASSUME LaunchInv, NEW item \in Items, Store(item)
  PROVE  LaunchInv'
<1> DEFINE g == Group(item)
           l == LocalId(item)
           m == Mate(item)
<1>1. /\ pc[item] = "store" /\ UNCHANGED <<kernel, scratch>>
      /\ Commit(item, [cell |-> Idx(g[2] * GroupSide + l[1], g[1] * GroupSide + l[2]),
                       value |-> scratch[g][LocalOutputIdx(l)]])
  BY DEF Store, OutputOffset
<1>2. kernel = "transpose_local"
  BY <1>1 DEF LaunchInv, BarrierLocal
<1>3. /\ m \in Items /\ Group(m) = g /\ LocalId(m) = <<l[2], l[1]>>
      /\ m[1] = g[1] * GroupSide + l[2] /\ m[2] = g[2] * GroupSide + l[1]
  BY Mates DEF Mate, ItemAt
<1>4. scratch[g][LocalOutputIdx(l)] = InA[Idx(m[1], m[2])]
  <2>1. pc[m] # "start"
    BY <1>1, <1>3 DEF LaunchInv, Gathered
  <2>2. LocalInputIdx(LocalId(m)) = LocalOutputIdx(l)
    BY <1>3 DEF LocalInputIdx, LocalOutputIdx
  <2>3. QED
    BY <1>2, <1>3, <2>1, <2>2 DEF LaunchInv, Loaded
<1>5. StoreOf(kernel, item) = [cell |-> Idx(m[2], m[1]), value |-> InA[Idx(m[1], m[2])]]
  BY <1>2 DEF StoreOf, TransposeNaive
<1>6. Commit(item, StoreOf(kernel, item))
  BY <1>1, <1>3, <1>4, <1>5
<1>7. /\ out' = [c \in Cells |-> out'[c]]
      /\ pc' \in [Items -> {"start", "barrier", "store", "done"}]
      /\ \A other \in Items : pc'[other] = IF other = item THEN "done" ELSE pc[other]
      /\ Written'
  BY <1>1, <1>6, CommitWritten
<1>8. LaunchTyped'
  BY <1>1, <1>7 DEF LaunchInv, LaunchTyped
<1>9. BarrierLocal' /\ Loaded' /\ Gathered'
  BY <1>1, <1>2, <1>7 DEF LaunchInv, BarrierLocal, Loaded, Gathered
<1>10. QED
  BY <1>7, <1>8, <1>9 DEF LaunchInv

LEMMA LaunchNext == LaunchInv /\ [GroupNext]_groupVars => LaunchInv'
<1> SUFFICES ASSUME LaunchInv, [GroupNext]_groupVars PROVE LaunchInv'
  OBVIOUS
<1>1. CASE UNCHANGED groupVars
  BY <1>1 DEF groupVars, LaunchInv, LaunchTyped, BarrierLocal, Loaded, Gathered, Written
<1>2. QED
  BY <1>1, ComputeInv, LoadInv, BarrierInv, StoreInv DEF GroupNext

LEMMA LaunchInvariance == GroupSpec => []LaunchInv
<1>1. QED
  BY LaunchInit, LaunchNext, PTL DEF GroupSpec

\* Every cell has a work-item that stores to it.
LEMMA CellServed ==
  ASSUME NEW k \in Launched, NEW c \in Cells
  PROVE  \E item \in Items :
           /\ StoreOf(k, item).cell = c
           /\ StoreOf(k, item).value =
                IF k = "matmul_naive" THEN Product(InA, InB)[c] ELSE Transposed(InA)[c]
<1> DEFINE i == c % Side
           j == c \div Side
<1>1. i \in Sides /\ j \in Sides /\ Idx(i, j) = c
  BY CellParts
<1>2. <<i, j>> \in Items /\ <<j, i>> \in Items
  BY <1>1 DEF Items
<1>3. CASE k = "matmul_naive"
  <2>1. StoreOf(k, <<i, j>>) = MatmulNaive(InA, InB, i, j)
    BY <1>3 DEF StoreOf
  <2>2. Product(InA, InB)[c] = MatmulNaive(InA, InB, i, j).value
    BY DEF Product, MatmulNaive
  <2>3. StoreOf(k, <<i, j>>).cell = c
    BY <1>1, <1>2, <1>3, StoreCell
  <2>4. QED
    BY <1>2, <1>3, <2>1, <2>2, <2>3
<1>4. Transposed(InA)[c] = InA[Idx(j, i)]
  BY DEF Transposed
<1>5. CASE k = "transpose_naive"
  <2>1. StoreOf(k, <<j, i>>) = [cell |-> Idx(i, j), value |-> InA[Idx(j, i)]]
    BY <1>5 DEF StoreOf, TransposeNaive
  <2>2. QED
    BY <1>1, <1>2, <1>4, <1>5, <2>1
<1>6. CASE k = "transpose_local"
  <2> DEFINE m == Mate(<<j, i>>)
  <2>1. m \in Items /\ Mate(m) = <<j, i>>
    BY <1>2, Mates
  <2>2. StoreOf(k, m) = [cell |-> Idx(i, j), value |-> InA[Idx(j, i)]]
    BY <1>6, <2>1 DEF StoreOf, TransposeNaive
  <2>3. QED
    BY <1>1, <1>4, <1>6, <2>1, <2>2
<1>7. QED
  BY <1>3, <1>5, <1>6 DEF Launched

\* A launch that ends leaves the transpose, or the product, of its inputs: for every
\* side of the matrices, every size of the work-groups that divides it, any number of
\* compute units, and every order in which the work-items come to run.
THEOREM LaunchTheorem == GroupSpec => []LaunchComputes
<1>1. LaunchInv => LaunchComputes
  <2> SUFFICES ASSUME LaunchInv, Done
               PROVE  out = IF kernel = "matmul_naive" THEN Product(InA, InB)
                            ELSE Transposed(InA)
    BY DEF LaunchComputes
  <2> DEFINE P == Product(InA, InB)
             T == Transposed(InA)
  <2>1. kernel \in Launched /\ out = [c \in Cells |-> out[c]]
    BY DEF LaunchInv, LaunchTyped
  <2>2. \A c \in Cells : out[c] = IF kernel = "matmul_naive" THEN P[c] ELSE T[c]
    BY <2>1, CellServed DEF LaunchInv, Written, Done
  <2>3. P = [c \in Cells |-> P[c]] /\ T = [c \in Cells |-> T[c]]
    BY DEF Product, Transposed
  <2> HIDE DEF P, T
  <2>4. kernel = "matmul_naive" => out = P
    BY <2>1, <2>2, <2>3
  <2>5. kernel # "matmul_naive" => out = T
    BY <2>1, <2>2, <2>3
  <2>6. QED
    BY <2>4, <2>5 DEF P, T
<1>2. QED
  BY <1>1, LaunchInvariance, PTL
-----------------------------------------------------------------------------
(* Sub-devices. *)

\* Each sub-device has the one reference it was created with, until the vector of its
\* Devices ends.
SubDevicesCounted ==
  task = "sub_devices" =>
    /\ refs \in Seq(Nat) /\ wrapped \in 0 .. Len(refs)
    /\ at = "begin" => wrapped = 0
    /\ at = "wrapping" => \A i \in DOMAIN refs : refs[i] = 1
    /\ at = "returned" => wrapped = Len(refs)
    /\ SubDevicesReleased

\* create_sub_devices, for any number of sub-devices and an exception at any of them,
\* ends with no reference but to those that had no Device yet.
THEOREM SubDevicesTheorem == EnumSpec => []SubDevicesReleased
<1>1. (\E t \in {"select", "sub_devices"} : EnumInit(t)) => SubDevicesCounted
  BY EmptySeq DEF EnumInit, SubDevicesCounted, SubDevicesReleased
<1>2. SubDevicesCounted /\ [EnumNext]_enumVars => SubDevicesCounted'
  <2> SUFFICES ASSUME SubDevicesCounted, [EnumNext]_enumVars, task = "sub_devices"
               PROVE  SubDevicesCounted'
    BY DEF SubDevicesCounted, EnumNext, enumVars, Enumerate, ReadChoice, ReadNothing,
       CreateSubDevices, WrapSubDevice, DropSubDevices
  <2>1. ASSUME NEW n \in 1 .. MaxSubDevices, CreateSubDevices(n) PROVE SubDevicesCounted'
    <3>1. refs' \in Seq(Nat) /\ Len(refs') = n /\ n \in Nat
      BY <2>1, EnumerationsAssumption DEF CreateSubDevices
    <3>2. QED
      BY <2>1, <3>1 DEF CreateSubDevices, SubDevicesCounted, SubDevicesReleased
  <2>2. CASE WrapSubDevice
    <3>1. /\ refs \in Seq(Nat) /\ Len(refs) \in Nat /\ DOMAIN refs = 1 .. Len(refs)
          /\ \A i \in DOMAIN refs : refs[i] = 1
      BY <2>2, LenProperties DEF WrapSubDevice, SubDevicesCounted
    <3>2. refs' = refs /\ at' = "wrapping" /\ task' = task /\ wrapped' \in 0 .. Len(refs)
      BY <2>2, <3>1 DEF WrapSubDevice, SubDevicesCounted, Retains
    <3>3. QED
      BY <3>1, <3>2 DEF SubDevicesCounted, SubDevicesReleased
  <2>3. CASE DropSubDevices
    <3>1. /\ refs \in Seq(Nat) /\ Len(refs) \in Nat /\ DOMAIN refs = 1 .. Len(refs)
          /\ \A i \in DOMAIN refs : refs[i] = 1
          /\ wrapped \in 0 .. Len(refs)
      BY <2>3, LenProperties DEF DropSubDevices, SubDevicesCounted
    <3>2. /\ refs' = [i \in 1 .. Len(refs) |-> IF i <= wrapped THEN 0 ELSE 1]
          /\ at' = IF wrapped < Len(refs) THEN "threw" ELSE "returned"
          /\ UNCHANGED <<task, wrapped>>
      BY <2>3, <3>1 DEF DropSubDevices
    <3>3. refs' \in Seq(Nat) /\ Len(refs') = Len(refs)
      BY <3>1, <3>2
    <3>4. at' = "threw" => SubDevicesReleased' /\ at' # "wrapping" /\ at' # "begin"
      BY <3>1, <3>2 DEF SubDevicesReleased
    <3>5. ASSUME at' = "returned" PROVE SubDevicesReleased' /\ wrapped' = Len(refs')
      <4>1. ~(wrapped < Len(refs))
        BY <3>2, <3>5
      <4>2. wrapped \in 0 .. Len(refs) /\ Len(refs) \in Nat
        BY <3>1
      <4>3. \A m \in Nat : \A n \in 0 .. m : ~(n < m) => n = m
        OBVIOUS
      <4>4. wrapped = Len(refs)
        BY <4>1, <4>2, <4>3
      <4>5. \A i \in DOMAIN refs' : refs'[i] = 0
        BY <3>1, <3>2, <4>4
      <4>6. QED
        BY <3>2, <3>3, <3>5, <4>4, <4>5 DEF SubDevicesReleased
    <3>6. QED
      BY <3>1, <3>2, <3>3, <3>4, <3>5 DEF SubDevicesCounted
  <2>4. CASE UNCHANGED enumVars
    BY <2>4 DEF enumVars, SubDevicesCounted, SubDevicesReleased
  <2>5. QED
    BY <2>1, <2>2, <2>3, <2>4 DEF EnumNext, Enumerate, ReadChoice, ReadNothing
<1>3. SubDevicesCounted => SubDevicesReleased
  BY DEF SubDevicesCounted, SubDevicesReleased
<1>4. QED
  BY <1>1, <1>2, <1>3, PTL DEF EnumSpec

-----------------------------------------------------------------------------
(* Lists that are made by going through others. *)

\* Induction from below, up to a bound: a set of numbers has a least element.
LEMMA Upwards ==
  ASSUME NEW bottom \in Nat, NEW top \in Nat, NEW T, bottom \in T,
         \A n \in bottom + 1 .. top : n - 1 \in T => n \in T
  PROVE  \A n \in bottom .. top : n \in T
<1> SUFFICES ASSUME NEW k \in bottom .. top, k \notin T
             PROVE  FALSE
  OBVIOUS
<1> DEFINE S == {n \in bottom .. top : n \notin T}
           R == OpToRel(<, Nat)
<1>1. S \in SUBSET Nat /\ S # {}
  BY k \in S
<1>2. IsWellFoundedOn(R, Nat)
  BY NatLessThanWellFounded
<1>3. \E n \in S : \A m \in S : ~(<<m, n>> \in R)
  <2> HIDE DEF R, S
  <2> QED
    BY <1>1, <1>2, WFMin
<1>4. PICK n \in S : \A m \in S : ~(<<m, n>> \in R)
  BY <1>3
<1>5. n \in bottom + 1 .. top /\ n \notin T /\ n - 1 \in bottom .. top
  <2>1. n \in S
    BY <1>4
  <2> HIDE DEF R
  <2> QED
    BY <2>1
<1>6. <<n - 1, n>> \in R
  BY <1>5 DEF OpToRel
<1>7. n - 1 \in T
  BY <1>4, <1>5, <1>6
<1> QED
  BY <1>5, <1>7

\* The members of a list are in an order, a set of pairs.
Sorted(s, R) == \A i, j \in DOMAIN s : i < j => <<s[i], s[j]>> \in R

\* What FlattenSeq makes of the first n of some lists, when f tells what it makes of less.
FlattenAt(f, seqs, n) == IF n = 1 THEN seqs[n] ELSE f[n - 1] \o seqs[n]
Flattens(f, seqs, n) == f = [i \in 1 .. n |-> FlattenAt(f, seqs, i)]

LEMMA FlattenFrom ==
  ASSUME NEW seqs, NEW top \in Nat \ {0}, Len(seqs) = top
  PROVE  \E f : Flattens(f, seqs, top) /\ FlattenSeq(seqs) = f[top]
<1> DEFINE T == {n \in Nat : \E f : Flattens(f, seqs, n)}
<1>1. 1 \in T
  <2> DEFINE f == [i \in 1 .. 1 |-> seqs[i]]
  <2>1. Flattens(f, seqs, 1)
    BY DEF Flattens, FlattenAt
  <2> QED
    BY <2>1
<1>2. ASSUME NEW n \in 1 + 1 .. top, n - 1 \in T
      PROVE  n \in T
  <2>1. PICK f : Flattens(f, seqs, n - 1)
    BY <1>2
  <2> DEFINE g == [i \in 1 .. n |-> IF i = n THEN f[n - 1] \o seqs[n] ELSE f[i]]
  <2>2. ASSUME NEW i \in 1 .. n
        PROVE  g[i] = FlattenAt(g, seqs, i)
    <3>1. CASE i = n
      <4>1. i # 1 /\ g[i] = f[n - 1] \o seqs[n]
        BY <3>1
      <4>2. g[i - 1] = f[n - 1]
        BY <3>1
      <4> HIDE DEF g
      <4> QED
        BY <3>1, <4>1, <4>2 DEF FlattenAt
    <3>2. CASE i # n
      <4>1. i \in 1 .. n - 1 /\ g[i] = f[i]
        BY <3>2
      <4>2. f[i] = FlattenAt(f, seqs, i)
        BY <2>1, <4>1 DEF Flattens
      <4>3. i # 1 => g[i - 1] = f[i - 1]
        BY <4>1
      <4> HIDE DEF g
      <4> QED
        BY <4>1, <4>2, <4>3 DEF FlattenAt
    <3> QED
      BY <3>1, <3>2
  <2>3. g = [i \in 1 .. n |-> g[i]]
    OBVIOUS
  <2> HIDE DEF g
  <2>4. Flattens(g, seqs, n)
    BY <2>2, <2>3 DEF Flattens
  <2> QED
    BY <2>4
<1>3. \A n \in 1 .. top : n \in T
  <2> HIDE DEF T
  <2> QED
    BY <1>1, <1>2, Upwards
<1>4. PICK f : Flattens(f, seqs, top)
  BY <1>3
<1> DEFINE flatten[i \in 1 .. Len(seqs)] ==
             IF i = 1 THEN seqs[i] ELSE flatten[i - 1] \o seqs[i]
<1>5. Flattens(flatten, seqs, top)
  <2>1. f = [i \in 1 .. Len(seqs) |-> IF i = 1 THEN seqs[i] ELSE f[i - 1] \o seqs[i]]
    BY <1>4 DEF Flattens, FlattenAt
  <2>2. flatten = [i \in 1 .. Len(seqs) |->
                     IF i = 1 THEN seqs[i] ELSE flatten[i - 1] \o seqs[i]]
    BY <2>1
  <2> HIDE DEF flatten
  <2> QED
    BY <2>2 DEF Flattens, FlattenAt
<1>6. FlattenSeq(seqs) = flatten[top]
  BY DEF FlattenSeq
<1> HIDE DEF flatten
<1> QED
  BY <1>5, <1>6

\* A list after another.
LEMMA Concatenated ==
  ASSUME NEW A, NEW s \in Seq(A), NEW t \in Seq(A)
  PROVE  /\ s \o t \in Seq(A)
         /\ \A a : a \in ToSet(s \o t) <=> a \in ToSet(s) \/ a \in ToSet(t)
         /\ \A R : /\ Sorted(s, R) /\ Sorted(t, R)
                   /\ \A a \in ToSet(s), b \in ToSet(t) : <<a, b>> \in R
                   => Sorted(s \o t, R)
<1> DEFINE u == s \o t
           m == Len(s)
           n == Len(t)
<1>1. /\ m \in Nat /\ n \in Nat /\ DOMAIN s = 1 .. m /\ DOMAIN t = 1 .. n
      /\ u \in Seq(A) /\ Len(u) = m + n
      /\ \A i \in 1 .. m + n : u[i] = IF i <= m THEN s[i] ELSE t[i - m]
  BY LenProperties, ConcatProperties
<1>2. DOMAIN u = 1 .. m + n
  BY <1>1, LenProperties
<1> HIDE DEF u, m, n
<1>3. ASSUME NEW i \in 1 .. m
      PROVE  i \in 1 .. m + n /\ u[i] = s[i]
  BY <1>1
<1>4. ASSUME NEW i \in 1 .. n
      PROVE  m + i \in 1 .. m + n /\ u[m + i] = t[i]
  <2>1. m + i \in 1 .. m + n /\ ~(m + i <= m) /\ (m + i) - m = i
    BY <1>1
  <2> QED
    BY <1>1, <2>1
<1>5. ASSUME NEW i \in 1 .. m + n
      PROVE  (i \in 1 .. m /\ u[i] = s[i]) \/ (i - m \in 1 .. n /\ u[i] = t[i - m])
  BY <1>1
<1>6. \A a : a \in ToSet(u) <=> a \in ToSet(s) \/ a \in ToSet(t)
  <2>1. /\ \A a : a \in ToSet(s) <=> \E i \in 1 .. m : a = s[i]
        /\ \A a : a \in ToSet(t) <=> \E i \in 1 .. n : a = t[i]
        /\ \A a : a \in ToSet(u) <=> \E i \in 1 .. m + n : a = u[i]
    BY <1>1, <1>2 DEF ToSet
  <2>2. ASSUME NEW a, a \in ToSet(u)
        PROVE  a \in ToSet(s) \/ a \in ToSet(t)
    BY <1>5, <2>1, <2>2
  <2>3. ASSUME NEW a, a \in ToSet(s) \/ a \in ToSet(t)
        PROVE  a \in ToSet(u)
    BY <1>3, <1>4, <2>1, <2>3
  <2> QED
    BY <2>2, <2>3
<1>7. ASSUME NEW R, Sorted(s, R), Sorted(t, R),
             \A a \in ToSet(s), b \in ToSet(t) : <<a, b>> \in R,
             NEW i \in 1 .. m + n, NEW j \in 1 .. m + n, i < j
      PROVE  <<u[i], u[j]>> \in R
  <2>1. CASE j \in 1 .. m /\ u[j] = s[j]
    <3>1. i \in 1 .. m /\ u[i] = s[i]
      BY <1>1, <1>7, <2>1, <1>3
    <3> QED
      BY <1>1, <1>7, <2>1, <3>1 DEF Sorted
  <2>2. CASE /\ i \in 1 .. m /\ u[i] = s[i]
             /\ j - m \in 1 .. n /\ u[j] = t[j - m]
    <3>1. u[i] \in ToSet(s) /\ u[j] \in ToSet(t)
      BY <1>1, <2>2 DEF ToSet
    <3> QED
      BY <1>7, <3>1
  <2>3. CASE /\ i - m \in 1 .. n /\ u[i] = t[i - m]
             /\ j - m \in 1 .. n /\ u[j] = t[j - m]
    <3>1. i - m < j - m
      BY <1>1, <1>7
    <3> QED
      BY <1>1, <1>7, <2>3, <3>1 DEF Sorted
  <2> QED
    BY <1>5, <2>1, <2>2, <2>3
<1>8. ASSUME NEW R, Sorted(s, R), Sorted(t, R),
             \A a \in ToSet(s), b \in ToSet(t) : <<a, b>> \in R
      PROVE  Sorted(u, R)
  BY <1>2, <1>7, <1>8 DEF Sorted
<1> QED
  BY <1>1, <1>6, <1>8 DEF u

\* Lists one after another.
LEMMA Flattened ==
  ASSUME NEW A, NEW R, NEW seqs \in Seq(Seq(A)),
         \A i \in DOMAIN seqs : Sorted(seqs[i], R),
         \A i, j \in DOMAIN seqs : i < j =>
           \A a \in ToSet(seqs[i]), b \in ToSet(seqs[j]) : <<a, b>> \in R
  PROVE  /\ FlattenSeq(seqs) \in Seq(A) /\ Sorted(FlattenSeq(seqs), R)
         /\ \A a : a \in ToSet(FlattenSeq(seqs)) <=> \E i \in DOMAIN seqs : a \in ToSet(seqs[i])
<1> DEFINE top == Len(seqs)
<1>1. top \in Nat /\ DOMAIN seqs = 1 .. top /\ \A i \in 1 .. top : seqs[i] \in Seq(A)
  BY LenProperties, ElementOfSeq
<1> HIDE DEF top
<1>2. CASE top = 0
  <2>1. seqs = <<>> /\ FlattenSeq(seqs) = <<>>
    BY <1>2, EmptySeq DEF FlattenSeq, top
  <2>2. DOMAIN seqs = {}
    BY <1>1, <1>2
  <2> QED
    BY <2>1, <2>2, EmptySeq DEF Sorted, ToSet
<1>3. CASE top # 0
  <2>1. PICK f : Flattens(f, seqs, top) /\ FlattenSeq(seqs) = f[top]
    BY <1>1, <1>3, FlattenFrom DEF top
  <2> DEFINE Good(n) ==
               /\ f[n] \in Seq(A) /\ Sorted(f[n], R)
               /\ \A a : a \in ToSet(f[n]) <=> \E i \in 1 .. n : a \in ToSet(seqs[i])
             T == {n \in 1 .. top : Good(n)}
  <2>2. 1 \in T
    <3>1. f[1] = seqs[1] /\ 1 \in 1 .. top
      BY <1>1, <1>3, <2>1 DEF Flattens, FlattenAt
    <3> QED
      BY <1>1, <3>1
  <2>3. ASSUME NEW n \in 1 + 1 .. top, n - 1 \in T
        PROVE  n \in T
    <3>1. n \in 1 .. top /\ n # 1 /\ n - 1 \in 1 .. top /\ n - 1 < n /\ n \in Nat
      BY <1>1
    <3>2. f[n] = f[n - 1] \o seqs[n]
      BY <2>1, <3>1 DEF Flattens, FlattenAt
    <3>3. /\ f[n - 1] \in Seq(A) /\ Sorted(f[n - 1], R)
          /\ \A a : a \in ToSet(f[n - 1]) <=> \E i \in 1 .. n - 1 : a \in ToSet(seqs[i])
      BY <2>3
    <3>4. seqs[n] \in Seq(A) /\ Sorted(seqs[n], R)
      BY <1>1, <3>1
    <3>5. \A a \in ToSet(f[n - 1]), b \in ToSet(seqs[n]) : <<a, b>> \in R
      <4> SUFFICES ASSUME NEW a \in ToSet(f[n - 1]), NEW b \in ToSet(seqs[n])
                   PROVE  <<a, b>> \in R
        OBVIOUS
      <4>1. PICK i \in 1 .. n - 1 : a \in ToSet(seqs[i])
        BY <3>3
      <4>2. i \in 1 .. top /\ i < n
        BY <1>1, <3>1
      <4> QED
        BY <1>1, <3>1, <4>1, <4>2
    <3>6. /\ f[n] \in Seq(A) /\ Sorted(f[n], R)
          /\ \A a : a \in ToSet(f[n]) <=> a \in ToSet(f[n - 1]) \/ a \in ToSet(seqs[n])
      BY <3>2, <3>3, <3>4, <3>5, Concatenated
    <3>7. \A i : i \in 1 .. n <=> i \in 1 .. n - 1 \/ i = n
      BY <3>1
    <3>8. \A a : a \in ToSet(f[n]) <=> \E i \in 1 .. n : a \in ToSet(seqs[i])
      BY <3>3, <3>6, <3>7
    <3> QED
      BY <3>1, <3>6, <3>8
  <2> HIDE DEF T
  <2>4. top \in T
    <3>1. top \in 1 .. top
      BY <1>1, <1>3
    <3> QED
      BY <1>1, <2>2, <2>3, <3>1, Upwards
  <2> QED
    BY <1>1, <2>1, <2>4 DEF T
<1> QED
  BY <1>2, <1>3

\* std::copy_if: those of the list that are liked, in the order of the list.
LEMMA Copied ==
  ASSUME NEW A, NEW R, NEW list \in Seq(A), NEW liked, Sorted(list, R)
  PROVE  /\ CopyIf(list, liked) \in Seq(A) /\ Sorted(CopyIf(list, liked), R)
         /\ \A a : a \in ToSet(CopyIf(list, liked)) <=> a \in ToSet(list) /\ a \in liked
<1> DEFINE seqs == [i \in DOMAIN list |-> IF list[i] \in liked THEN <<list[i]>> ELSE <<>>]
           top == Len(list)
<1>1. top \in Nat /\ DOMAIN list = 1 .. top /\ \A i \in 1 .. top : list[i] \in A
  BY LenProperties, ElementOfSeq
<1>2. CopyIf(list, liked) = FlattenSeq(seqs)
  BY DEF CopyIf
<1>3. DOMAIN seqs = 1 .. top
  BY <1>1
<1>4. ASSUME NEW i \in 1 .. top
      PROVE  /\ seqs[i] \in Seq(A) /\ Sorted(seqs[i], R)
             /\ \A a : a \in ToSet(seqs[i]) <=> a = list[i] /\ a \in liked
  <2>1. CASE list[i] \in liked
    <3>1. seqs[i] = <<list[i]>>
      BY <1>1, <2>1
    <3> HIDE DEF seqs
    <3>2. list[i] \in A
      BY <1>1
    <3>3. seqs[i] \in Seq(A) /\ DOMAIN seqs[i] = {1} /\ seqs[i][1] = list[i]
      BY <3>1, <3>2
    <3> QED
      BY <2>1, <3>3 DEF Sorted, ToSet
  <2>2. CASE list[i] \notin liked
    <3>1. seqs[i] = <<>>
      BY <1>1, <2>2
    <3> HIDE DEF seqs
    <3> QED
      BY <2>2, <3>1, EmptySeq DEF Sorted, ToSet
  <2> QED
    BY <2>1, <2>2
<1>5. seqs \in Seq(Seq(A))
  BY <1>1, <1>3, <1>4
<1> HIDE DEF seqs
<1>6. \A i, j \in DOMAIN seqs : i < j =>
        \A a \in ToSet(seqs[i]), b \in ToSet(seqs[j]) : <<a, b>> \in R
  BY <1>1, <1>3, <1>4 DEF Sorted
<1>7. /\ FlattenSeq(seqs) \in Seq(A) /\ Sorted(FlattenSeq(seqs), R)
      /\ \A a : a \in ToSet(FlattenSeq(seqs)) <=> \E i \in DOMAIN seqs : a \in ToSet(seqs[i])
  <2>1. \A i \in DOMAIN seqs : Sorted(seqs[i], R)
    BY <1>3, <1>4
  <2> QED
    BY <1>5, <1>6, <2>1, Flattened
<1>8. \A a : a \in ToSet(FlattenSeq(seqs)) <=> a \in ToSet(list) /\ a \in liked
  <2>1. \A a : a \in ToSet(list) <=> \E i \in 1 .. top : a = list[i]
    BY <1>1 DEF ToSet
  <2>2. \A a : a \in ToSet(FlattenSeq(seqs)) <=> \E i \in 1 .. top : a = list[i] /\ a \in liked
    BY <1>3, <1>4, <1>7
  <2> QED
    BY <2>1, <2>2
<1> QED
  BY <1>2, <1>7, <1>8
-----------------------------------------------------------------------------
(* The devices that are offered. *)

Less == {pair \in Nat \X Nat : pair[1] < pair[2]}

Places == Nat \X Nat
PlacesBefore == {pair \in Places \X Places : Before(pair[1], pair[2])}

\* The places of the devices that are looked for.
Matches(s, place) ==
  /\ place \in Places /\ place[1] \in DOMAIN s
  /\ s[place[1]].suits /\ place[2] \in DOMAIN s[place[1]].devices
  /\ s[place[1]].devices[place[2]] = "suitable"

\* Why the devices of a platform cannot be listed.
Unlisted(devices) == devices = <<>> \/ Contains(devices, "unreadable")

LEMMA SystemTyped ==
  ASSUME NEW s \in Systems
  PROVE  /\ Len(s) \in Nat /\ DOMAIN s = 1 .. Len(s)
         /\ \A p \in DOMAIN s :
              /\ s[p].suits \in BOOLEAN /\ s[p].devices \in Seq(DeviceKinds)
              /\ Len(s[p].devices) \in 0 .. MaxDevices
              /\ DOMAIN s[p].devices = 1 .. Len(s[p].devices)
<1> DEFINE Lists == SeqsUpTo(DeviceKinds, MaxDevices)
<1>1. PICK k \in 0 .. MaxPlatforms : s \in [1 .. k -> [suits : BOOLEAN, devices : Lists]]
  BY DEF Systems, SeqsUpTo
<1>2. k \in Nat /\ DOMAIN s = 1 .. k /\ Len(s) = k
  BY <1>1, EnumerationsAssumption
<1>3. ASSUME NEW p \in 1 .. k
      PROVE  s[p].suits \in BOOLEAN /\ s[p].devices \in Lists
  BY <1>1
<1>4. ASSUME NEW list \in Lists
      PROVE  /\ list \in Seq(DeviceKinds) /\ Len(list) \in 0 .. MaxDevices
             /\ DOMAIN list = 1 .. Len(list)
  <2>1. PICK d \in 0 .. MaxDevices : list \in [1 .. d -> DeviceKinds]
    BY DEF SeqsUpTo
  <2>2. d \in Nat
    BY <2>1, EnumerationsAssumption
  <2> QED
    BY <2>1, <2>2
<1> HIDE DEF Lists
<1> QED
  BY <1>2, <1>3, <1>4

LEMMA PlatformsFiltered ==
  ASSUME NEW s \in Systems
  PROVE  /\ FilteredPlatforms(s) \in Seq(Nat) /\ Sorted(FilteredPlatforms(s), Less)
         /\ \A p : p \in ToSet(FilteredPlatforms(s)) <=> p \in DOMAIN s /\ s[p].suits
<1> DEFINE list == [p \in DOMAIN s |-> p]
           liked == {p \in DOMAIN s : s[p].suits}
           k == Len(s)
<1>1. k \in Nat /\ DOMAIN s = 1 .. k
  BY SystemTyped
<1> HIDE DEF k
<1>2. list \in Seq(Nat) /\ DOMAIN list = 1 .. k /\ \A p \in 1 .. k : list[p] = p
  BY <1>1
<1>3. FilteredPlatforms(s) = CopyIf(list, liked)
  BY DEF FilteredPlatforms
<1>4. \A p : p \in liked <=> p \in 1 .. k /\ s[p].suits
  BY <1>1
<1> HIDE DEF list, liked
<1>5. Sorted(list, Less)
  BY <1>1, <1>2 DEF Sorted, Less
<1>6. \A p : p \in ToSet(list) <=> p \in 1 .. k
  BY <1>2 DEF ToSet
<1> QED
  BY <1>1, <1>2, <1>3, <1>4, <1>5, <1>6, Copied

LEMMA DevicesFiltered ==
  ASSUME NEW s \in Systems, NEW p \in DOMAIN s
  PROVE  LET found == FilteredDevices(s, p) IN
         /\ (found.threw <=> Unlisted(s[p].devices))
         /\ ~found.threw =>
              /\ found.list \in Seq(Places) /\ Sorted(found.list, PlacesBefore)
              /\ \A place : place \in ToSet(found.list) <=>
                   /\ place \in Places /\ place[1] = p /\ place[2] \in DOMAIN s[p].devices
                   /\ s[p].devices[place[2]] = "suitable"
<1> DEFINE devices == s[p].devices
           k == Len(devices)
           list == [d \in DOMAIN devices |-> <<p, d>>]
           liked == {place \in ToSet(list) : s[place[1]].devices[place[2]] = "suitable"}
           found == FilteredDevices(s, p)
<1>1. p \in Nat /\ k \in Nat /\ DOMAIN devices = 1 .. k
  BY SystemTyped
<1>2. CASE Unlisted(devices)
  <2>1. PlatformDevices(s, p) = Thrown
    BY <1>2 DEF PlatformDevices, Unlisted
  <2>2. found.threw
    BY <2>1 DEF FilteredDevices, Thrown
  <2> QED
    BY <1>2, <2>2
<1>3. CASE ~Unlisted(devices)
  <2>1. PlatformDevices(s, p) = Result(list)
    BY <1>3 DEF PlatformDevices, Unlisted
  <2>2. ~found.threw /\ found.list = CopyIf(list, liked)
    BY <2>1 DEF FilteredDevices, Result
  <2> HIDE DEF k, found
  <2>3. list \in Seq(Places) /\ DOMAIN list = 1 .. k /\ \A d \in 1 .. k : list[d] = <<p, d>>
    BY <1>1 DEF Places
  <2> HIDE DEF list
  <2>4. Sorted(list, PlacesBefore)
    BY <1>1, <2>3 DEF Sorted, PlacesBefore, Before, Places
  <2>5. \A place : place \in ToSet(list) <=> \E d \in 1 .. k : place = <<p, d>>
    BY <2>3 DEF ToSet
  <2>6. \A place : place \in ToSet(list) <=>
                     place \in Places /\ place[1] = p /\ place[2] \in 1 .. k
    BY <1>1, <2>5 DEF Places
  <2>7. \A place : place \in ToSet(list) /\ place \in liked <=>
                     /\ place \in ToSet(list) /\ devices[place[2]] = "suitable"
    BY <2>6
  <2> HIDE DEF liked
  <2>8. /\ found.list \in Seq(Places) /\ Sorted(found.list, PlacesBefore)
        /\ \A place : place \in ToSet(found.list) <=> place \in ToSet(list) /\ place \in liked
    BY <2>2, <2>3, <2>4, Copied
  <2> QED
    <3>1. \A place : place \in ToSet(found.list) <=>
            /\ place \in Places /\ place[1] = p /\ place[2] \in DOMAIN devices
            /\ devices[place[2]] = "suitable"
      <4> HIDE DEF devices
      <4> QED
        BY <1>1, <2>6, <2>7, <2>8
    <3>2. found.threw <=> Unlisted(devices)
      BY <1>3, <2>2
    <3> QED
      BY <2>8, <3>1, <3>2 DEF found
<1> QED
  BY <1>2, <1>3

LEMMA AllFiltered ==
  ASSUME NEW s \in Systems
  PROVE  LET found == GetFilteredDevices(s) IN
         /\ found.list \in Seq(Places) /\ Sorted(found.list, PlacesBefore)
         /\ \/ \A place : place \in ToSet(found.list) <=> Matches(s, place)
            \/ /\ found.list = <<>>
               /\ \/ s = <<>>
                  \/ \E p \in DOMAIN s : s[p].suits /\ Unlisted(s[p].devices)
<1> DEFINE platforms == FilteredPlatforms(s)
           k == Len(platforms)
           each == [i \in DOMAIN platforms |-> FilteredDevices(s, platforms[i])]
           throws == s = <<>> \/ \E i \in DOMAIN each : each[i].threw
           lists == [i \in DOMAIN each |-> each[i].list]
           found == GetFilteredDevices(s)
<1>1. /\ platforms \in Seq(Nat) /\ Sorted(platforms, Less)
      /\ \A p : p \in ToSet(platforms) <=> p \in DOMAIN s /\ s[p].suits
  BY PlatformsFiltered
<1>2. k \in Nat /\ DOMAIN platforms = 1 .. k
  BY <1>1, LenProperties
<1>3. DOMAIN each = 1 .. k /\ \A i \in 1 .. k : each[i] = FilteredDevices(s, platforms[i])
  BY <1>2
<1>4. DOMAIN lists = 1 .. k /\ \A i \in 1 .. k : lists[i] = each[i].list
  BY <1>3
<1>5. found = IF throws THEN Thrown ELSE Result(FlattenSeq(lists))
  BY DEF GetFilteredDevices
<1> HIDE DEF platforms, k, each, found
<1>6. /\ \A i \in 1 .. k : platforms[i] \in DOMAIN s /\ s[platforms[i]].suits
      /\ \A p \in DOMAIN s : s[p].suits => \E i \in 1 .. k : p = platforms[i]
  BY <1>1, <1>2 DEF ToSet
<1>7. CASE throws
  <2>1. found.list = <<>>
    BY <1>5, <1>7 DEF Thrown
  <2>2. s = <<>> \/ \E p \in DOMAIN s : s[p].suits /\ Unlisted(s[p].devices)
    <3> SUFFICES ASSUME s # <<>>
                 PROVE  \E p \in DOMAIN s : s[p].suits /\ Unlisted(s[p].devices)
      OBVIOUS
    <3>1. PICK i \in 1 .. k : each[i].threw
      BY <1>3, <1>7
    <3>2. Unlisted(s[platforms[i]].devices)
      BY <1>3, <1>6, <3>1, DevicesFiltered
    <3> QED
      BY <1>6, <3>2
  <2> QED
    BY <2>1, <2>2, EmptySeq DEF Sorted, found
<1>8. CASE ~throws
  <2>1. found.list = FlattenSeq(lists)
    BY <1>5, <1>8 DEF Result
  <2>2. \A i \in 1 .. k : ~each[i].threw
    BY <1>3, <1>8
  <2> HIDE DEF throws, lists
  <2>3. ASSUME NEW i \in 1 .. k
        PROVE  /\ lists[i] \in Seq(Places) /\ Sorted(lists[i], PlacesBefore)
               /\ \A place : place \in ToSet(lists[i]) <=>
                    /\ place \in Places /\ place[1] = platforms[i]
                    /\ place[2] \in DOMAIN s[platforms[i]].devices
                    /\ s[platforms[i]].devices[place[2]] = "suitable"
    BY <1>3, <1>4, <1>6, <2>2, DevicesFiltered
  <2>4. lists \in Seq(Seq(Places))
    <3>1. lists = [i \in 1 .. k |-> lists[i]]
      BY <1>4 DEF lists
    <3> QED
      BY <1>2, <2>3, <3>1, IsASeq
  <2>5. \A i, j \in DOMAIN lists : i < j =>
          \A a \in ToSet(lists[i]), b \in ToSet(lists[j]) : <<a, b>> \in PlacesBefore
    <3> SUFFICES ASSUME NEW i \in 1 .. k, NEW j \in 1 .. k, i < j,
                        NEW a \in ToSet(lists[i]), NEW b \in ToSet(lists[j])
                 PROVE  <<a, b>> \in PlacesBefore
      BY <1>4
    <3>1. platforms[i] < platforms[j]
      BY <1>1, <1>2 DEF Sorted, Less
    <3>2. a \in Places /\ b \in Places /\ a[1] < b[1]
      BY <2>3, <3>1
    <3> QED
      BY <3>2 DEF PlacesBefore, Before
  <2>6. /\ FlattenSeq(lists) \in Seq(Places) /\ Sorted(FlattenSeq(lists), PlacesBefore)
        /\ \A a : a \in ToSet(FlattenSeq(lists)) <=> \E i \in DOMAIN lists : a \in ToSet(lists[i])
    <3>1. \A i \in DOMAIN lists : Sorted(lists[i], PlacesBefore)
      BY <1>4, <2>3
    <3> QED
      BY <2>4, <2>5, <3>1, Flattened
  <2>7. ASSUME NEW place
        PROVE  place \in ToSet(FlattenSeq(lists)) <=> Matches(s, place)
    <3>1. place \in ToSet(FlattenSeq(lists)) <=> \E i \in 1 .. k : place \in ToSet(lists[i])
      BY <1>4, <2>6
    <3>2. ASSUME NEW i \in 1 .. k, place \in ToSet(lists[i])
          PROVE  Matches(s, place)
      BY <1>6, <2>3, <3>2 DEF Matches
    <3>3. ASSUME Matches(s, place)
          PROVE  \E i \in 1 .. k : place \in ToSet(lists[i])
      <4>1. PICK i \in 1 .. k : place[1] = platforms[i]
        BY <1>6, <3>3 DEF Matches
      <4> QED
        BY <2>3, <3>3, <4>1 DEF Matches
    <3> QED
      BY <3>1, <3>2, <3>3
  <2> QED
    BY <2>1, <2>6, <2>7 DEF found
<1> QED
  BY <1>7, <1>8

\* The devices offered are what get_filtered_devices returned.
Offered ==
  task = "select" /\ at # "begin" =>
    /\ system \in Systems /\ offered = GetFilteredDevices(system).list
    /\ input \in Seq(Nat \cup {NotANumber})
    /\ offered = <<>> => at = "threw"
    /\ at = "returned" => chosen \in ToSet(offered)

LEMMA InputTyped ==
  ASSUME NEW words \in Inputs
  PROVE  words \in Seq(Nat \cup {NotANumber})
<1> DEFINE Words == (0 .. MaxPlatforms * MaxDevices) \cup {NotANumber}
<1>1. PICK k \in 0 .. MaxInput : words \in [1 .. k -> Words]
  BY DEF Inputs, SeqsUpTo
<1>2. k \in Nat
  BY <1>1, EnumerationsAssumption
<1>3. \A w \in Words : w \in Nat \cup {NotANumber}
  OBVIOUS
<1> HIDE DEF Words
<1> QED
  BY <1>1, <1>2, <1>3

LEMMA EnumerateOffers ==
  ASSUME Offered, NEW s \in Systems, Enumerate(s)
  PROVE  Offered'
<1> DEFINE found == GetFilteredDevices(s).list
<1>1. found \in Seq(Places) /\ Len(found) \in Nat /\ DOMAIN found = 1 .. Len(found)
  BY AllFiltered, LenProperties
<1>2. /\ system' = s /\ offered' = found
      /\ at' = CASE Len(found) = 0 -> "threw" [] Len(found) = 1 -> "returned" [] OTHER -> "prompt"
      /\ chosen' = IF at' = "returned" THEN Head(found) ELSE <<>>
      /\ input' \in IF at' = "prompt" THEN Inputs ELSE {<<>>}
  BY DEF Enumerate
<1>3. input' \in Seq(Nat \cup {NotANumber})
  BY <1>2, InputTyped, EmptySeq
<1> HIDE DEF found
<1>4. found = <<>> => at' = "threw"
  BY <1>1, <1>2
<1>5. at' = "returned" => Len(found) = 1 /\ chosen' = found[1]
  BY <1>1, <1>2
<1>6. at' = "returned" => chosen' \in ToSet(found)
  <2>1. at' = "returned" => 1 \in DOMAIN found /\ chosen' = found[1]
    BY <1>1, <1>5
  <2> QED
    BY <2>1 DEF ToSet
<1> QED
  BY <1>2, <1>3, <1>4, <1>6 DEF Offered, found

LEMMA ReadChoiceOffers ==
  ASSUME Offered, ReadChoice
  PROVE  Offered'
<1> DEFINE word == Head(input)
<1>1. /\ task = "select" /\ at = "prompt" /\ input # <<>> /\ input' = Tail(input)
      /\ UNCHANGED <<task, system, offered>>
      /\ \/ UNCHANGED <<at, chosen>>
         \/ /\ ~TryAgain(word) /\ at' = "returned" /\ chosen' = offered[word + 1]
  BY DEF ReadChoice
<1>2. /\ system \in Systems /\ offered = GetFilteredDevices(system).list
      /\ input \in Seq(Nat \cup {NotANumber}) /\ offered # <<>>
  BY <1>1 DEF Offered
<1>3. word \in Nat \cup {NotANumber} /\ input' \in Seq(Nat \cup {NotANumber})
  BY <1>1, <1>2, HeadTailProperties
<1>4. Len(offered) \in Nat /\ DOMAIN offered = 1 .. Len(offered)
  BY <1>2, AllFiltered, LenProperties
<1> HIDE DEF word
<1>5. ~TryAgain(word) => word + 1 \in DOMAIN offered
  BY <1>3, <1>4 DEF TryAgain
<1>6. at' = "returned" => chosen' \in ToSet(offered)
  BY <1>1, <1>5 DEF ToSet
<1> QED
  BY <1>1, <1>2, <1>3, <1>6 DEF Offered

\* The user is offered the devices that match, each once and sorted, and gets one of
\* them, for any numbers of platforms and of devices, whatever the user types.
THEOREM OffersTheorem == EnumSpec => []OffersMatching
<1>1. (\E t \in {"select", "sub_devices"} : EnumInit(t)) => Offered
  BY DEF EnumInit, Offered
<1>2. Offered /\ [EnumNext]_enumVars => Offered'
  <2> SUFFICES ASSUME Offered, [EnumNext]_enumVars
               PROVE  Offered'
    OBVIOUS
  <2>1. CASE task = "select"
    <3>1. CASE \E s \in Systems : Enumerate(s)
      BY <3>1, EnumerateOffers
    <3>2. CASE ReadChoice
      BY <3>2, ReadChoiceOffers
    <3>3. CASE ReadNothing \/ UNCHANGED enumVars
      BY <3>3 DEF ReadNothing, enumVars, Offered
    <3> QED
      BY <2>1, <3>1, <3>2, <3>3 DEF EnumNext, CreateSubDevices, WrapSubDevice, DropSubDevices
  <2>2. CASE task # "select"
    BY <2>2 DEF EnumNext, enumVars, Enumerate, ReadChoice, ReadNothing, CreateSubDevices,
       WrapSubDevice, DropSubDevices, Offered
  <2> QED
    BY <2>1, <2>2
<1>3. Offered => OffersMatching
  <2> SUFFICES ASSUME Offered, task = "select", at # "begin"
               PROVE  OffersMatching
    BY DEF OffersMatching
  <2>1. /\ system \in Systems /\ offered = GetFilteredDevices(system).list
        /\ offered = <<>> => at = "threw"
        /\ at = "returned" => chosen \in ToSet(offered)
    BY DEF Offered
  <2>2. /\ offered \in Seq(Places) /\ Sorted(offered, PlacesBefore)
        /\ \/ \A place : place \in ToSet(offered) <=> Matches(system, place)
           \/ /\ offered = <<>>
              /\ \/ system = <<>>
                 \/ \E p \in DOMAIN system : system[p].suits /\ Unlisted(system[p].devices)
    BY <2>1, AllFiltered
  <2>3. \A i, j \in DOMAIN offered : i < j => Before(offered[i], offered[j])
    BY <2>2 DEF Sorted, PlacesBefore
  <2>4. ASSUME NEW place
        PROVE  place \in Matching <=> Matches(system, place)
    <3>1. ASSUME Matches(system, place)
          PROVE  place \in (DOMAIN system) \X (1 .. MaxDevices)
      <4>1. place = <<place[1], place[2]>> /\ place[1] \in DOMAIN system
        BY <3>1 DEF Matches, Places
      <4>2. place[2] \in 1 .. MaxDevices
        <5>1. place[2] \in 1 .. Len(system[place[1]].devices)
          BY <2>1, <3>1, <4>1, SystemTyped DEF Matches
        <5>2. Len(system[place[1]].devices) \in 0 .. MaxDevices
          BY <2>1, <4>1, SystemTyped
        <5> QED
          BY <5>1, <5>2, EnumerationsAssumption
      <4> QED
        BY <4>1, <4>2
    <3>2. ASSUME place \in (DOMAIN system) \X (1 .. MaxDevices)
          PROVE  place \in Places
      BY <2>1, <3>2, SystemTyped, EnumerationsAssumption DEF Places
    <3> QED
      BY <3>1, <3>2 DEF Matching, Matches
  <2>5. (\A place : place \in ToSet(offered) <=> Matches(system, place)) => ToSet(offered) = Matching
    BY <2>4
  <2> QED
    BY <2>1, <2>2, <2>3, <2>5 DEF OffersMatching, Unlisted
<1> QED
  BY <1>1, <1>2, <1>3, PTL DEF EnumSpec

-----------------------------------------------------------------------------
(* The example programs. *)

\* The commands and the builds of a program, by their events: the step that submits
\* each, and those that are complete when it runs, whether it waits for them, or they
\* were waited for by those it waits for, or by the host before it was submitted.
Schedule(p) ==
  LET event(when, after) == [at |-> when, after |-> after]
  IN
  CASE p = "buffer_readwrite" -> [send |-> event(1, {}), get |-> event(2, {"send"})]
    [] p = "buffer_copy" ->
         [write |-> event(1, {}), copy |-> event(2, {"write"}),
          read |-> event(3, {"write", "copy"})]
    [] p = "buffer_fill_map" ->
         [fill |-> event(1, {}), map |-> event(2, {"fill"}),
          unmap |-> event(5, {"fill", "map"})]
    [] p = "buffer_rectangle" ->
         [write |-> event(1, {}), copy_1 |-> event(2, {"write"}),
          copy_2 |-> event(3, {"write"}),
          all_copies |-> event(4, {"write", "copy_1", "copy_2"}),
          read |-> event(5, {"write", "copy_1", "copy_2", "all_copies"})]
    [] p = "kernel_execution" ->
         [build |-> event(1, {}), write_A |-> event(2, {}), write_B |-> event(3, {}),
          all_writes |-> event(4, {"write_A", "write_B"}),
          exec |-> event(10, {"build", "write_A", "write_B", "all_writes"}),
          read |-> event(11, {"build", "write_A", "write_B", "all_writes", "exec"})]
    [] p = "event_profiling" ->
         [build |-> event(1, {}), write |-> event(2, {}),
          exec_naive |-> event(7, {"build", "write"}),
          read_naive |-> event(8, {"build", "write", "exec_naive"}),
          exec_local |-> event(16, {"build", "write", "exec_naive", "read_naive"}),
          read_local |->
            event(17, {"build", "write", "exec_naive", "read_naive", "exec_local"})]
    [] p = "application_matmul" ->
         [matmul_build |-> event(1, {}), transpose_build |-> event(2, {}),
          write_A |-> event(3, {}), write_B |-> event(4, {}),
          exec_naive |-> event(10, {"matmul_build", "write_A", "write_B"}),
          read_naive |-> event(11, {"matmul_build", "write_A", "write_B", "exec_naive"}),
          exec_local |->
            event(19, {"matmul_build", "transpose_build", "write_A", "write_B",
                       "exec_naive", "read_naive"}),
          exec_optimized |->
            event(25, {"matmul_build", "transpose_build", "write_A", "write_B",
                       "exec_naive", "read_naive", "exec_local"}),
          read |->
            event(26, {"matmul_build", "transpose_build", "write_A", "write_B",
                       "exec_naive", "read_naive", "exec_local", "exec_optimized"})]

Submitted(p, e) == Steps(p)[Schedule(p)[e].at]

\* e is one of these events, or complete when one of them is.
Covered(p, e, events) == \E f \in events : e = f \/ e \in Schedule(p)[f].after

\* The host has waited for e before the step i.
Awaited(p, e, i) ==
  \E j \in 1 .. i - 1 : Steps(p)[j].op = "wait" /\ Covered(p, e, Steps(p)[j].events)

\* The events of the steps before i.
EventsBefore(p, i) == {e \in DOMAIN Schedule(p) : Schedule(p)[e].at < i}

\* Every command that step i could find is complete there, if the host came so far.
AllAwaited(p, i) == \A e \in EventsBefore(p, i) : Awaited(p, e, i)

\* Every command that step i could find is settled there.
AllSettled(p, i) ==
  \A e \in EventsBefore(p, i) :
    \/ Awaited(p, e, i)
    \/ \E j \in Schedule(p)[e].at + 1 .. i - 1 : Steps(p)[j].op = "finish"

\* The arrays of a program.
Names == HostArrays \cup Arrays

StepScheduled(p, i) ==
  LET s == Steps(p)[i]
  IN  /\ s.op \in {"enqueue", "launch"} =>
           s.event \in DOMAIN Schedule(p) /\ Schedule(p)[s.event].at = i
      /\ s.op = "wait" => s.events \subseteq EventsBefore(p, i)
      /\ s.op = "finish" =>
           \A e \in EventsBefore(p, i) :
             Submitted(p, e).op = "enqueue" /\ Submitted(p, e).run # "build"
      /\ s.op = "check" =>
           /\ AllSettled(p, i) /\ (p # "buffer_readwrite" => AllAwaited(p, i))
           /\ s.arrays \subseteq Names

EventScheduled(p, e) ==
  LET when == Schedule(p)[e].at
      s == Steps(p)[when]
  IN  /\ when \in 1 .. Len(Steps(p))
      /\ s.op \in {"enqueue", "launch"} /\ s.event = e
      /\ s.waits \subseteq EventsBefore(p, when)
      /\ Schedule(p)[e].after \subseteq EventsBefore(p, when)
      /\ \A f \in Schedule(p)[e].after : Covered(p, f, s.waits) \/ Awaited(p, f, when)

\* What a step of a program submits, with the kernels as they are after the steps
\* before it.
Static(p, e) ==
  LET s == Submitted(p, e)
  IN  IF s.op = "enqueue" THEN s
      ELSE Captured(s, After(p)[Schedule(p)[e].at - 1].kernels)

\* What may run at the same time does not conflict.
PairScheduled(p, e, f) ==
  \/ e = f \/ e \in Schedule(p)[f].after \/ f \in Schedule(p)[e].after
  \/ ~Conflict(Static(p, e), Static(p, f)) /\ ~Conflict(Static(p, f), Static(p, e))

\* A command of no arrays; and those that compute their output from the others.
Idle(c) == c.args = <<>> /\ c.run # "transfer"
Moves(c) ==
  /\ c.run = "transfer" /\ \E a, b \in Names : c.args = <<a, b>>
  /\ \A x \in DOMAIN c.move : x \in Cells /\ c.move[x] \in Cells
Computes(c) ==
  /\ \/ c.run \in {"transpose_naive", "transpose_local"} /\ Len(c.args) >= 2
     \/ c.run \in {"vector_add", "matmul_naive", "matmul_transpose"} /\ Len(c.args) >= 3
  /\ \A n \in 1 .. Len(c.args) : c.args[n] \in Names
  /\ c.move = Whole
Executable(c) == Idle(c) \/ Moves(c) \/ Computes(c)

Scheduled(p) ==
  LET n == Len(Steps(p))
  IN  /\ n \in Nat /\ DOMAIN Steps(p) = 1 .. n
      /\ \A i \in 1 .. n : StepScheduled(p, i)
      /\ \A e \in DOMAIN Schedule(p) : EventScheduled(p, e) /\ Executable(Static(p, e))
      /\ \A e, f \in DOMAIN Schedule(p) : PairScheduled(p, e, f)
      /\ AllSettled(p, n + 1)

\* Kernels of two and of three arguments.
LEMMA TwoComputes ==
  ASSUME NEW run \in {"transpose_naive", "transpose_local"}, NEW e, NEW w,
         NEW a \in Names, NEW b \in Names
  PROVE  Executable(Command(e, run, <<a, b>>, Whole, w))
BY DEF Executable, Computes, Command

LEMMA ThreeComputes ==
  ASSUME NEW run \in {"transpose_naive", "transpose_local", "vector_add", "matmul_naive",
                      "matmul_transpose"},
         NEW e, NEW w, NEW a \in Names, NEW b \in Names, NEW c \in Names
  PROVE  Executable(Command(e, run, <<a, b, c>>, Whole, w))
BY DEF Executable, Computes, Command

\* What could run at the same time does not conflict.
LEMMA IdleConflicts ==
  ASSUME NEW c, NEW d, Idle(c)
  PROVE  ~Conflict(c, d) /\ ~Conflict(d, c)
<1>1. Writes(c) = {}
  BY DEF Idle, Writes
<1>2. Reads(c) = {}
  <2>1. 1 .. Len(c.args) - 1 = {}
    BY DEF Idle
  <2> QED
    BY <2>1 DEF Idle, Reads
<1> QED
  BY <1>1, <1>2 DEF Conflict

\* Transfers between four different arrays do not conflict.
LEMMA TransfersApart ==
  ASSUME NEW e, NEW a, NEW b, NEW v, NEW f, NEW c, NEW d, NEW w, b # c, b # d
  PROVE  ~Conflict(Transfer(e, a, b, v), Transfer(f, c, d, w))
<1> DEFINE x == Transfer(e, a, b, v)
           y == Transfer(f, c, d, w)
<1>1. x.args = <<a, b>> /\ x.move = Whole /\ y.args = <<c, d>> /\ y.run = "transfer"
  BY DEF Transfer, TransferRect, Command
<1>2. Output(x) = b /\ Output(y) = d /\ y.args[1] = c
  BY <1>1 DEF Output
<1> HIDE DEF x, y
<1>3. \A p \in Writes(x) : p[1] = b
  BY <1>1, <1>2 DEF Writes
<1>4. \A p \in Writes(y) : p[1] = d
  BY <1>1, <1>2 DEF Writes
<1>5. \A p \in Reads(y) : p[1] = c
  BY <1>1, <1>2 DEF Reads
<1> QED
  BY <1>3, <1>4, <1>5 DEF Conflict, x, y

\* Nor do copies in one array, when none writes to what another reads or writes.
LEMMA RectanglesApart ==
  ASSUME NEW e, NEW a, NEW m, NEW v, NEW f, NEW k, NEW w,
         \A x \in DOMAIN m : x \notin DOMAIN k /\ (\A y \in DOMAIN k : x # k[y])
  PROVE  ~Conflict(TransferRect(e, a, a, m, v), TransferRect(f, a, a, k, w))
<1> DEFINE x == TransferRect(e, a, a, m, v)
           y == TransferRect(f, a, a, k, w)
<1>1. x.args = <<a, a>> /\ x.move = m /\ y.args = <<a, a>> /\ y.move = k /\ y.run = "transfer"
  BY DEF TransferRect, Command
<1>2. Output(x) = a /\ Output(y) = a /\ y.args[1] = a
  BY <1>1 DEF Output
<1> HIDE DEF x, y
<1>3. \A p \in Writes(x) : p[2] \in DOMAIN m
  BY <1>1, <1>2 DEF Writes
<1>4. \A p \in Writes(y) : p[2] \in DOMAIN k
  BY <1>1, <1>2 DEF Writes
<1>5. \A p \in Reads(y) : \E z \in DOMAIN k : p[2] = k[z]
  BY <1>1, <1>2 DEF Reads
<1> QED
  BY <1>3, <1>4, <1>5 DEF Conflict, x, y

\* Where an element that a copy between quarters writes comes from.
LEMMA QuarterSource ==
  ASSUME NEW r \in {0, Half}, NEW t \in {0, Half}, NEW x \in Cells, x % Side >= Half,
         x \div Side >= r, x \div Side < r + Half
  PROVE  LET col == (x % Side) - Half
             row == (x \div Side) + t - r
         IN  /\ col \in Sides /\ row \in Sides /\ col < Half
             /\ x + Idx(0, t) - Idx(Half, r) = Idx(col, row)
<1> DEFINE col == (x % Side) - Half
           row == (x \div Side) + t - r
<1>0. Side \in Nat /\ Side > 0 /\ Half \in Nat /\ Half + Half = Side
  BY SideAssumption, PipelinesAssumption DEF Half
<1>1. x % Side \in 0 .. Side - 1 /\ x \div Side \in 0 .. Side - 1
      /\ (x \div Side) * Side + (x % Side) = x
  BY CellParts DEF Sides, Idx
<1>2. col \in 0 .. Side - 1 /\ col < Half /\ row \in 0 .. Side - 1
  BY <1>0, <1>1
<1>3. ((x \div Side) + t - r) * Side = (x \div Side) * Side + t * Side - r * Side
  BY <1>0, <1>1
<1>4. t * Side \in Int /\ r * Side \in Int /\ (x \div Side) * Side \in Int
  BY <1>0, <1>1
<1>5. x + (t * Side + 0) - (r * Side + Half) = row * Side + col
  BY <1>0, <1>1, <1>3, <1>4
<1> QED
  BY <1>2, <1>5 DEF Idx, Sides

\* The copies of buffer_rectangle go from cells to cells.
LEMMA QuarterCells ==
  ASSUME NEW r \in {0, Half}, NEW t \in {0, Half}
  PROVE  LET m == QuarterFrom(<<0, t>>, <<Half, r>>)
         IN  \A x \in DOMAIN m : x \in Cells /\ m[x] \in Cells
<1>0. /\ Side \in Nat /\ Side > 0 /\ Half \in Nat /\ Half + Half = Side
      /\ t \in {0, Half} /\ r \in {0, Half}
  BY SideAssumption, PipelinesAssumption DEF Half
<1> DEFINE m == QuarterFrom(<<0, t>>, <<Half, r>>)
<1> SUFFICES ASSUME NEW x \in DOMAIN m PROVE x \in Cells /\ m[x] \in Cells
  OBVIOUS
<1>1. /\ x \in Cells /\ x % Side >= Half /\ x \div Side >= r /\ x \div Side < r + Half
      /\ m[x] = x + Idx(0, t) - Idx(Half, r)
  BY <1>0 DEF QuarterFrom, Quarter, Cells
<1> HIDE DEF m
<1>2. m[x] = Idx((x % Side) - Half, (x \div Side) + t - r)
      /\ (x % Side) - Half \in Sides /\ (x \div Side) + t - r \in Sides
  BY <1>0, <1>1, QuarterSource
<1> QED
  BY <1>1, <1>2, IdxInCells

\* The two copies of buffer_rectangle: the left quarters are read, the right ones
\* are written, an upper one and a lower one.
LEMMA QuartersApart ==
  ASSUME NEW r \in {0, Half}, NEW t \in {0, Half}, r # t
  PROVE  LET m == QuarterFrom(<<0, t>>, <<Half, r>>)
             k == QuarterFrom(<<0, r>>, <<Half, t>>)
         IN  \A x \in DOMAIN m :
               x \notin DOMAIN k /\ (\A y \in DOMAIN k : x # k[y])
<1>0. Side \in Nat /\ Side > 0 /\ Half \in Nat /\ Half + Half = Side
  BY SideAssumption, PipelinesAssumption DEF Half
<1> DEFINE m == QuarterFrom(<<0, t>>, <<Half, r>>)
           k == QuarterFrom(<<0, r>>, <<Half, t>>)
<1>1. ASSUME NEW x \in DOMAIN m
      PROVE  x \in Cells /\ x % Side >= Half /\ x \div Side >= r /\ x \div Side < r + Half
  BY <1>0 DEF QuarterFrom, Quarter, Cells
<1>2. ASSUME NEW y \in DOMAIN k
      PROVE  y \in Cells /\ y % Side >= Half /\ y \div Side >= t /\ y \div Side < t + Half
             /\ k[y] = y + Idx(0, r) - Idx(Half, t)
  BY <1>0 DEF QuarterFrom, Quarter, Cells
<1>3. ASSUME NEW y \in DOMAIN k
      PROVE  k[y] % Side < Half
  <2> DEFINE col == (y % Side) - Half
             row == (y \div Side) + r - t
  <2>1. k[y] = Idx(col, row) /\ col \in Sides /\ row \in Sides /\ col < Half
    BY <1>2, QuarterSource
  <2> HIDE DEF row, col, k
  <2>2. Idx(col, row) % Side = col
    BY <2>1, <1>0, DivOf DEF Idx, Sides
  <2> QED
    BY <2>1, <2>2
<1>4. ASSUME NEW x \in DOMAIN m
      PROVE  x \notin DOMAIN k /\ \A y \in DOMAIN k : x # k[y]
  <2>1. x % Side >= Half /\ x \div Side >= r /\ x \div Side < r + Half
    BY <1>1
  <2>2. x \notin DOMAIN k
    <3> SUFFICES ASSUME x \in DOMAIN k PROVE FALSE
      OBVIOUS
    <3>1. x \in Cells /\ x \div Side >= t /\ x \div Side < t + Half
      BY <1>2
    <3>2. x \div Side \in 0 .. Side - 1
      BY <3>1, CellParts DEF Sides
    <3> QED
      BY <2>1, <3>1, <3>2, <1>0
  <2>3. ASSUME NEW y \in DOMAIN k PROVE x # k[y]
    <3>1. x % Side \in 0 .. Side - 1
      BY <1>1, CellParts DEF Sides
    <3>2. k[y] % Side < Half
      BY <1>3
    <3> HIDE DEF k
    <3> SUFFICES ASSUME x = k[y] PROVE FALSE
      OBVIOUS
    <3>3. x % Side < Half
      BY <3>2
    <3> QED
      BY <2>1, <3>1, <3>3, <1>0
  <2> QED
    BY <2>2, <2>3
<1> QED
  BY <1>4

-----------------------------------------------------------------------------
(* What a program does when each command is executed before the next call. *)

PlayAt(f, p, i) ==
  IF i = 0 THEN [mem |-> InitialMemory(p), kernels |-> <<>>]
  ELSE Play(f[i - 1], Steps(p)[i])
Plays(f, p, n) == f = [i \in 0 .. n |-> PlayAt(f, p, i)]

\* The recursion of After: the states before and after each step.
LEMMA AfterIs ==
  ASSUME NEW p, Len(Steps(p)) \in Nat
  PROVE  /\ After(p)[0] = [mem |-> InitialMemory(p), kernels |-> <<>>]
         /\ \A i \in 1 .. Len(Steps(p)) : After(p)[i] = Play(After(p)[i - 1], Steps(p)[i])
<1> DEFINE top == Len(Steps(p))
           T == {n \in 0 .. top : \E f : Plays(f, p, n)}
<1>1. 0 \in T
  <2> DEFINE f == [i \in 0 .. 0 |-> PlayAt(<<>>, p, 0)]
  <2>1. f = [i \in 0 .. 0 |-> PlayAt(f, p, i)]
    BY DEF PlayAt
  <2> HIDE DEF f
  <2>2. Plays(f, p, 0)
    BY <2>1 DEF Plays
  <2> QED
    BY <2>2
<1>2. ASSUME NEW n \in 0 + 1 .. top, n - 1 \in T
      PROVE  n \in T
  <2>1. PICK f : Plays(f, p, n - 1)
    BY <1>2
  <2> DEFINE g == [i \in 0 .. n |-> IF i = n THEN PlayAt(f, p, n) ELSE f[i]]
  <2>2. ASSUME NEW i \in 0 .. n PROVE g[i] = PlayAt(g, p, i)
    <3>1. CASE i = n
      <4>1. n # 0 /\ n - 1 \in 0 .. n /\ n - 1 # n
        OBVIOUS
      <4>2. g[n - 1] = f[n - 1] /\ g[n] = PlayAt(f, p, n)
        BY <4>1
      <4> HIDE DEF g
      <4> QED
        BY <3>1, <4>1, <4>2 DEF PlayAt
    <3>2. CASE i # n
      <4>1. i \in 0 .. n - 1 /\ (i # 0 => i - 1 \in 0 .. n /\ i - 1 # n)
        BY <3>2
      <4>2. g[i] = f[i] /\ (i # 0 => g[i - 1] = f[i - 1])
        BY <4>1, <3>2
      <4>3. f[i] = PlayAt(f, p, i)
        BY <2>1, <4>1 DEF Plays
      <4> HIDE DEF g
      <4> QED
        BY <4>2, <4>3 DEF PlayAt
    <3> QED
      BY <3>1, <3>2
  <2>3. g = [i \in 0 .. n |-> g[i]]
    OBVIOUS
  <2> HIDE DEF g
  <2>4. Plays(g, p, n)
    BY <2>2, <2>3 DEF Plays
  <2> QED
    BY <2>4
<1>3. top \in T
  <2> HIDE DEF T
  <2> QED
    BY <1>1, <1>2, Upwards
<1>4. PICK f : Plays(f, p, top)
  BY <1>3
<1> DEFINE state[i \in 0 .. Len(Steps(p))] ==
             IF i = 0 THEN [mem |-> InitialMemory(p), kernels |-> <<>>]
             ELSE Play(state[i - 1], Steps(p)[i])
<1>5. Plays(state, p, top)
  <2>1. f = [i \in 0 .. Len(Steps(p)) |->
               IF i = 0 THEN [mem |-> InitialMemory(p), kernels |-> <<>>]
               ELSE Play(f[i - 1], Steps(p)[i])]
    BY <1>4 DEF Plays, PlayAt
  <2>2. state = [i \in 0 .. Len(Steps(p)) |->
                   IF i = 0 THEN [mem |-> InitialMemory(p), kernels |-> <<>>]
                   ELSE Play(state[i - 1], Steps(p)[i])]
    BY <2>1
  <2> HIDE DEF state
  <2> QED
    BY <2>2 DEF Plays, PlayAt
<1>6. After(p) = state
  BY DEF After
<1> HIDE DEF state
<1>7. \A i \in 0 .. top : After(p)[i] = PlayAt(After(p), p, i)
  BY <1>5, <1>6 DEF Plays
<1> QED
  BY <1>7 DEF PlayAt

\* The fields of what Play makes.
IsState(state) == state = [mem |-> state.mem, kernels |-> state.kernels]

LEMMA PlayFields ==
  ASSUME NEW state, IsState(state), NEW s
  PROVE  /\ IsState(Play(state, s))
         /\ s.op = "create_kernel" => Play(state, s).kernels = WithKernel(s, state.kernels)
         /\ s.op = "set_argument" => Play(state, s).kernels = WithArgument(s, state.kernels)
         /\ s.op \notin {"create_kernel", "set_argument"} =>
              Play(state, s).kernels = state.kernels
         /\ s.op = "enqueue" => Play(state, s).mem = Perform(s, state.mem)
         /\ s.op = "launch" =>
              Play(state, s).mem = Perform(Captured(s, state.kernels), state.mem)
         /\ s.op \notin {"enqueue", "launch"} => Play(state, s).mem = state.mem
<1>1. CASE s.op = "enqueue"
  BY <1>1 DEF Play, IsState
<1>2. CASE s.op = "launch"
  BY <1>2 DEF Play, IsState
<1>3. CASE s.op = "create_kernel"
  BY <1>3 DEF Play, IsState
<1>4. CASE s.op = "set_argument"
  BY <1>4 DEF Play, IsState
<1>5. CASE s.op \notin {"enqueue", "launch", "create_kernel", "set_argument"}
  BY <1>5 DEF Play, IsState
<1> QED
  BY <1>1, <1>2, <1>3, <1>4, <1>5

\* What it goes through are states.
LEMMA AfterStates ==
  ASSUME NEW p, Len(Steps(p)) \in Nat
  PROVE  \A i \in 0 .. Len(Steps(p)) : IsState(After(p)[i])
<1> DEFINE T == {i \in 0 .. Len(Steps(p)) : IsState(After(p)[i])}
<1>0. /\ After(p)[0] = [mem |-> InitialMemory(p), kernels |-> <<>>]
      /\ \A i \in 1 .. Len(Steps(p)) : After(p)[i] = Play(After(p)[i - 1], Steps(p)[i])
  BY AfterIs
<1>1. 0 \in T
  <2>1. IsState(After(p)[0])
    BY <1>0 DEF IsState
  <2> QED
    BY <2>1
<1>2. ASSUME NEW n \in 0 + 1 .. Len(Steps(p)), n - 1 \in T PROVE n \in T
  <2>1. IsState(After(p)[n - 1])
    BY <1>2
  <2>2. IsState(Play(After(p)[n - 1], Steps(p)[n]))
    BY <2>1, PlayFields
  <2>3. After(p)[n] = Play(After(p)[n - 1], Steps(p)[n])
    BY <1>0
  <2> QED
    BY <2>2, <2>3
<1> HIDE DEF T
<1>3. \A n \in 0 .. Len(Steps(p)) : n \in T
  BY <1>1, <1>2, Upwards
<1> QED
  BY <1>3 DEF T

\* What a step changes, by its operation.
LEMMA AfterStep ==
  ASSUME NEW p, Len(Steps(p)) \in Nat, NEW i \in 1 .. Len(Steps(p)), NEW j, j = i - 1
  PROVE  LET state == After(p)[j]
             s == Steps(p)[i]
             next == After(p)[i]
         IN  /\ s.op = "create_kernel" => next.kernels = WithKernel(s, state.kernels)
             /\ s.op = "set_argument" => next.kernels = WithArgument(s, state.kernels)
             /\ s.op \notin {"create_kernel", "set_argument"} => next.kernels = state.kernels
             /\ s.op = "enqueue" => next.mem = Perform(s, state.mem)
             /\ s.op = "launch" => next.mem = Perform(Captured(s, state.kernels), state.mem)
             /\ s.op \notin {"enqueue", "launch"} => next.mem = state.mem
<1> DEFINE state == After(p)[j]
           s == Steps(p)[i]
           next == After(p)[i]
<1>1. j \in 0 .. Len(Steps(p))
  OBVIOUS
<1>2. IsState(state)
  BY <1>1, AfterStates
<1>3. next = Play(state, s)
  BY AfterIs
<1> HIDE DEF state, s, next
<1>4. /\ s.op = "create_kernel" => Play(state, s).kernels = WithKernel(s, state.kernels)
      /\ s.op = "set_argument" => Play(state, s).kernels = WithArgument(s, state.kernels)
      /\ s.op \notin {"create_kernel", "set_argument"} =>
           Play(state, s).kernels = state.kernels
      /\ s.op = "enqueue" => Play(state, s).mem = Perform(s, state.mem)
      /\ s.op = "launch" =>
           Play(state, s).mem = Perform(Captured(s, state.kernels), state.mem)
      /\ s.op \notin {"enqueue", "launch"} => Play(state, s).mem = state.mem
  BY <1>2, PlayFields
<1>5. /\ s.op = "create_kernel" => next.kernels = WithKernel(s, state.kernels)
      /\ s.op = "set_argument" => next.kernels = WithArgument(s, state.kernels)
      /\ s.op \notin {"create_kernel", "set_argument"} => next.kernels = state.kernels
      /\ s.op = "enqueue" => next.mem = Perform(s, state.mem)
      /\ s.op = "launch" => next.mem = Perform(Captured(s, state.kernels), state.mem)
      /\ s.op \notin {"enqueue", "launch"} => next.mem = state.mem
  BY <1>3, <1>4
<1> QED
  BY <1>5 DEF state, s, next

\* The kernels once one is created, and once an argument of it is set.
Has(ks, k, run, args) == k \in DOMAIN ks /\ ks[k] = [run |-> run, args |-> args]

LEMMA KernelCreated ==
  ASSUME NEW ks, NEW k, NEW run
  PROVE  Has(WithKernel([op |-> "create_kernel", kernel |-> k, run |-> run], ks), k, run, <<>>)
BY DEF Has, WithKernel, With

LEMMA ArgumentSet ==
  ASSUME NEW ks, NEW k, NEW run, NEW args, NEW n, NEW a, Has(ks, k, run, args)
  PROVE  Has(WithArgument(SetArgument(k, n, a), ks), k, run, With(args, n, a))
<1>1. WithArgument(SetArgument(k, n, a), ks) = [ks EXCEPT ![k].args = With(@, n, a)]
  BY DEF WithArgument, SetArgument
<1> QED
  BY <1>1 DEF Has

\* The arguments, set one after the other.
LEMMA WithTwo ==
  ASSUME NEW a, NEW b
  PROVE  With(With(<<>>, 1, a), 2, b) = <<a, b>>
BY DEF With

LEMMA WithThree ==
  ASSUME NEW a, NEW b, NEW c
  PROVE  With(With(With(<<>>, 1, a), 2, b), 3, c) = <<a, b, c>>
BY DEF With

\* A kernel that was created and given two or three arguments, and its launch.
LEMMA ArgumentStep ==
  ASSUME NEW p, Len(Steps(p)) \in Nat, NEW i \in 1 .. Len(Steps(p)), NEW j, j = i - 1,
         NEW k, NEW n, NEW a, Steps(p)[i] = SetArgument(k, n, a)
  PROVE  After(p)[i].kernels = WithArgument(SetArgument(k, n, a), After(p)[j].kernels)
<1>1. SetArgument(k, n, a).op = "set_argument"
  BY DEF SetArgument
<1> QED
  BY <1>1, AfterStep

LEMMA TwoArguments ==
  ASSUME NEW p, Len(Steps(p)) \in Nat, NEW i \in 1 .. Len(Steps(p)), NEW j, NEW m,
         j = i + 1, m = i + 2, m <= Len(Steps(p)), NEW k, NEW run, NEW a, NEW b,
         Steps(p)[i] = [op |-> "create_kernel", kernel |-> k, run |-> run],
         Steps(p)[j] = SetArgument(k, 1, a), Steps(p)[m] = SetArgument(k, 2, b)
  PROVE  Has(After(p)[m].kernels, k, run, <<a, b>>)
<1>0. /\ j \in 1 .. Len(Steps(p)) /\ m \in 1 .. Len(Steps(p)) /\ i = j - 1 /\ j = m - 1
  OBVIOUS
<1> DEFINE before == After(p)[i - 1].kernels
           s == [op |-> "create_kernel", kernel |-> k, run |-> run]
<1>1. After(p)[i].kernels = WithKernel(s, before)
  BY AfterStep
<1>2. After(p)[j].kernels = WithArgument(SetArgument(k, 1, a), After(p)[i].kernels)
  BY <1>0, ArgumentStep
<1>3. After(p)[m].kernels = WithArgument(SetArgument(k, 2, b), After(p)[j].kernels)
  BY <1>0, ArgumentStep
<1>4. Has(After(p)[i].kernels, k, run, <<>>)
  BY <1>1, KernelCreated
<1>5. Has(After(p)[j].kernels, k, run, With(<<>>, 1, a))
  BY <1>2, <1>4, ArgumentSet
<1>6. Has(After(p)[m].kernels, k, run, With(With(<<>>, 1, a), 2, b))
  BY <1>3, <1>5, ArgumentSet
<1> QED
  BY <1>6, WithTwo

LEMMA ThreeArguments ==
  ASSUME NEW p, Len(Steps(p)) \in Nat, NEW i \in 1 .. Len(Steps(p)), NEW j, NEW m, NEW n,
         j = i + 1, m = i + 2, n = i + 3, n <= Len(Steps(p)),
         NEW k, NEW run, NEW a, NEW b, NEW c,
         Steps(p)[i] = [op |-> "create_kernel", kernel |-> k, run |-> run],
         Steps(p)[j] = SetArgument(k, 1, a), Steps(p)[m] = SetArgument(k, 2, b),
         Steps(p)[n] = SetArgument(k, 3, c)
  PROVE  Has(After(p)[n].kernels, k, run, <<a, b, c>>)
<1>0. /\ j \in 1 .. Len(Steps(p)) /\ m \in 1 .. Len(Steps(p)) /\ n \in 1 .. Len(Steps(p))
      /\ i = j - 1 /\ j = m - 1 /\ m = n - 1
  OBVIOUS
<1> DEFINE before == After(p)[i - 1].kernels
           s == [op |-> "create_kernel", kernel |-> k, run |-> run]
<1>1. After(p)[i].kernels = WithKernel(s, before)
  BY AfterStep
<1>2. After(p)[j].kernels = WithArgument(SetArgument(k, 1, a), After(p)[i].kernels)
  BY <1>0, ArgumentStep
<1>3. After(p)[m].kernels = WithArgument(SetArgument(k, 2, b), After(p)[j].kernels)
  BY <1>0, ArgumentStep
<1>4. After(p)[n].kernels = WithArgument(SetArgument(k, 3, c), After(p)[m].kernels)
  BY <1>0, ArgumentStep
<1>5. Has(After(p)[i].kernels, k, run, <<>>)
  BY <1>1, KernelCreated
<1>6. Has(After(p)[j].kernels, k, run, With(<<>>, 1, a))
  BY <1>2, <1>5, ArgumentSet
<1>7. Has(After(p)[m].kernels, k, run, With(With(<<>>, 1, a), 2, b))
  BY <1>3, <1>6, ArgumentSet
<1>8. Has(After(p)[n].kernels, k, run, With(With(With(<<>>, 1, a), 2, b), 3, c))
  BY <1>4, <1>7, ArgumentSet
<1> QED
  BY <1>8, WithThree

\* What is launched then.
LEMMA KernelLaunched ==
  ASSUME NEW k, NEW ks, NEW run, NEW args, NEW e, NEW w, Has(ks, k, run, args)
  PROVE  Captured(RangeKernel(e, k, w), ks) = Command(e, run, args, Whole, w)
BY DEF Captured, RangeKernel, Has

\* A step that submits a command that waits for nothing, and one that waits.
LEMMA FirstEvent ==
  ASSUME NEW p, NEW e, NEW i \in 1 .. Len(Steps(p)),
         Schedule(p)[e].at = i /\ Schedule(p)[e].after = {},
         Steps(p)[i].op \in {"enqueue", "launch"} /\ Steps(p)[i].event = e
           /\ Steps(p)[i].waits = {}
  PROVE  EventScheduled(p, e)
BY DEF EventScheduled

LEMMA LaterEvent ==
  ASSUME NEW p, NEW e, NEW i \in 1 .. Len(Steps(p)), Schedule(p)[e].at = i,
         Steps(p)[i].op \in {"enqueue", "launch"} /\ Steps(p)[i].event = e,
         Steps(p)[i].waits \subseteq EventsBefore(p, i),
         Schedule(p)[e].after \subseteq EventsBefore(p, i),
         \A f \in Schedule(p)[e].after : Covered(p, f, Steps(p)[i].waits) \/ Awaited(p, f, i)
  PROVE  EventScheduled(p, e)
BY DEF EventScheduled

-----------------------------------------------------------------------------
(* The schedule of each program, read off its steps: they are expanded into *)
(* named facts, one per step, and each part of Scheduled follows from them.  *)

\* Each step is where the schedule says, and what may run at the same time is apart.
LEMMA BufferReadwriteScheduled == Scheduled("buffer_readwrite")
<1> DEFINE p == "buffer_readwrite"
           s == Steps(p)
           n == Len(s)
           R == Schedule(p)
<1> USE DEF Steps, buffer_readwrite
<1>0. DOMAIN s = 1 .. 4 /\ n = 4
  OBVIOUS
<1>1. s[1] = Transfer("send", "input", "buffer", {})
  OBVIOUS
<1>2. s[2] = Transfer("get", "buffer", "output", {"send"})
  OBVIOUS
<1>3. s[3] = Finish
  OBVIOUS
<1>4. s[4] = Check({"input", "output"})
  OBVIOUS
<1> HIDE DEF Steps, buffer_readwrite
<1>a. DOMAIN R = {"send", "get"}
  BY DEF Schedule
<1>send. R["send"].at = 1 /\ R["send"].after = {}
  BY DEF Schedule
<1>get. R["get"].at = 2 /\ R["get"].after = {"send"}
  BY DEF Schedule
<1> HIDE DEF s, n, R
<1>b. AllSettled(p, 4)
  BY <1>a, <1>send, <1>get, <1>3
  DEF AllSettled, EventsBefore, Awaited, Covered, s, R, Finish
<1>c. AllSettled(p, n + 1)
  BY <1>0, <1>a, <1>send, <1>get, <1>3
  DEF AllSettled, EventsBefore, Awaited, Covered, s, R, Finish
<1>d. \A i \in 1 .. n : StepScheduled(p, i)
  <2>1. StepScheduled(p, 1)
    BY <1>1, <1>a, <1>send DEF StepScheduled, s, R, Transfer, TransferRect, Command
  <2>2. StepScheduled(p, 2)
    BY <1>2, <1>a, <1>get DEF StepScheduled, s, R, Transfer, TransferRect, Command
  <2>3. StepScheduled(p, 3)
    BY <1>3, <1>a, <1>send, <1>get, <1>1, <1>2 DEF StepScheduled, s, R, Finish,
      EventsBefore, Submitted, Command, Transfer, TransferRect
  <2>4. StepScheduled(p, 4)
    BY <1>4, <1>b DEF StepScheduled, s, Check, Names, HostArrays, Arrays
  <2> QED
    BY <1>0, <2>1, <2>2, <2>3, <2>4
<1>e. \A e \in DOMAIN R : EventScheduled(p, e)
  <2>send. EventScheduled(p, "send")
    <3>1. s[1].op \in {"enqueue", "launch"} /\ s[1].event = "send" /\ s[1].waits = {}
      BY <1>1 DEF Transfer, TransferRect, Command
    <3>2. 1 \in 1 .. n
      BY <1>0
    <3> QED
      BY <1>send, <3>1, <3>2, FirstEvent DEF s, R, n
  <2>get. EventScheduled(p, "get")
    <3>1. \A f \in {"send"} : Covered(p, f, s[2].waits)
      BY <1>2, <1>send DEF Covered, s, R, Transfer, TransferRect, Command
    <3>2. \A f \in R["get"].after : Covered(p, f, s[2].waits)
      BY <1>get, <3>1
    <3>3. R["get"].after \subseteq EventsBefore(p, 2)
      BY <1>a, <1>get, <1>send DEF EventsBefore, R
    <3>4. s[2].waits \subseteq EventsBefore(p, 2)
      BY <1>2, <1>a, <1>send DEF EventsBefore, R, Transfer, TransferRect, Command
    <3>5. R["get"].at = 2 /\ 2 \in 1 .. n
          /\ s[2].op \in {"enqueue", "launch"} /\ s[2].event = "get"
      BY <1>0, <1>2, <1>get DEF Transfer, TransferRect, Command
    <3> QED
      BY <3>2, <3>3, <3>4, <3>5, LaterEvent DEF s, R, n
  <2> QED
    BY <1>a, <2>send, <2>get
<1>g. n \in Nat
  BY <1>0
<1>static_send. Static(p, "send") = Transfer("send", "input", "buffer", {})
  <2>1. s[1].op = "enqueue"
    BY <1>1 DEF Transfer, TransferRect, Command
  <2> QED
    BY <2>1, <1>1, <1>send DEF Static, Submitted, s, R
<1>static_get. Static(p, "get") = Transfer("get", "buffer", "output", {"send"})
  <2>1. s[2].op = "enqueue"
    BY <1>2 DEF Transfer, TransferRect, Command
  <2> QED
    BY <2>1, <1>2, <1>get DEF Static, Submitted, s, R
<1>x. \A e \in DOMAIN R : Executable(Static(p, e))
  <2>send. Executable(Static(p, "send"))
    BY <1>static_send DEF Executable, Moves, Transfer, TransferRect, Command, Whole, Names,
      HostArrays, Arrays
  <2>get. Executable(Static(p, "get"))
    BY <1>static_get DEF Executable, Moves, Transfer, TransferRect, Command, Whole, Names,
      HostArrays, Arrays
  <2> QED
    BY <1>a, <2>send, <2>get
<1>f. \A e, f \in DOMAIN R : PairScheduled(p, e, f)
  <2>send. \A f \in DOMAIN R : PairScheduled(p, "send", f)
    BY <1>a, <1>send, <1>get DEF PairScheduled, R
  <2>get. \A f \in DOMAIN R : PairScheduled(p, "get", f)
    BY <1>a, <1>send, <1>get DEF PairScheduled, R
  <2> QED
    BY <1>a, <2>send, <2>get
<1> QED
  BY <1>0, <1>c, <1>d, <1>e, <1>f, <1>g, <1>x DEF Scheduled, n, s, R

LEMMA BufferCopyScheduled == Scheduled("buffer_copy")
<1> DEFINE p == "buffer_copy"
           s == Steps(p)
           n == Len(s)
           R == Schedule(p)
<1> USE DEF Steps, buffer_copy
<1>0. DOMAIN s = 1 .. 5 /\ n = 5
  OBVIOUS
<1>1. s[1] = Transfer("write", "input", "input_buffer", {})
  OBVIOUS
<1>2. s[2] = Transfer("copy", "input_buffer", "output_buffer", {"write"})
  OBVIOUS
<1>3. s[3] = Transfer("read", "output_buffer", "output", {"copy"})
  OBVIOUS
<1>4. s[4] = WaitFor({"read"})
  OBVIOUS
<1>5. s[5] = Check({"input", "output"})
  OBVIOUS
<1> HIDE DEF Steps, buffer_copy
<1>a. DOMAIN R = {"write", "copy", "read"}
  BY DEF Schedule
<1>write. R["write"].at = 1 /\ R["write"].after = {}
  BY DEF Schedule
<1>copy. R["copy"].at = 2 /\ R["copy"].after = {"write"}
  BY DEF Schedule
<1>read. R["read"].at = 3 /\ R["read"].after = {"write", "copy"}
  BY DEF Schedule
<1> HIDE DEF s, n, R
<1>b. AllAwaited(p, 5)
  BY <1>a, <1>write, <1>copy, <1>read, <1>4
  DEF AllAwaited, EventsBefore, Awaited, Covered, s, R, WaitFor
<1>c. AllSettled(p, n + 1)
  BY <1>0, <1>a, <1>write, <1>copy, <1>read, <1>4
  DEF AllSettled, EventsBefore, Awaited, Covered, s, R, WaitFor
<1>d. \A i \in 1 .. n : StepScheduled(p, i)
  <2>1. StepScheduled(p, 1)
    BY <1>1, <1>a, <1>write DEF StepScheduled, s, R, Transfer, TransferRect, Command
  <2>2. StepScheduled(p, 2)
    BY <1>2, <1>a, <1>copy DEF StepScheduled, s, R, Transfer, TransferRect, Command
  <2>3. StepScheduled(p, 3)
    BY <1>3, <1>a, <1>read DEF StepScheduled, s, R, Transfer, TransferRect, Command
  <2>4. StepScheduled(p, 4)
    BY <1>4, <1>a, <1>read DEF StepScheduled, s, R, WaitFor, EventsBefore
  <2>5. StepScheduled(p, 5)
    BY <1>5, <1>b DEF StepScheduled, s, Check, Names, HostArrays, Arrays, AllSettled,
      AllAwaited
  <2> QED
    BY <1>0, <2>1, <2>2, <2>3, <2>4, <2>5
<1>e. \A e \in DOMAIN R : EventScheduled(p, e)
  <2>write. EventScheduled(p, "write")
    <3>1. s[1].op \in {"enqueue", "launch"} /\ s[1].event = "write" /\ s[1].waits = {}
      BY <1>1 DEF Transfer, TransferRect, Command
    <3>2. 1 \in 1 .. n
      BY <1>0
    <3> QED
      BY <1>write, <3>1, <3>2, FirstEvent DEF s, R, n
  <2>copy. EventScheduled(p, "copy")
    <3>1. \A f \in {"write"} : Covered(p, f, s[2].waits)
      BY <1>2, <1>write DEF Covered, s, R, Transfer, TransferRect, Command
    <3>2. \A f \in R["copy"].after : Covered(p, f, s[2].waits)
      BY <1>copy, <3>1
    <3>3. R["copy"].after \subseteq EventsBefore(p, 2)
      BY <1>a, <1>copy, <1>write DEF EventsBefore, R
    <3>4. s[2].waits \subseteq EventsBefore(p, 2)
      BY <1>2, <1>a, <1>write DEF EventsBefore, R, Transfer, TransferRect, Command
    <3>5. R["copy"].at = 2 /\ 2 \in 1 .. n
          /\ s[2].op \in {"enqueue", "launch"} /\ s[2].event = "copy"
      BY <1>0, <1>2, <1>copy DEF Transfer, TransferRect, Command
    <3> QED
      BY <3>2, <3>3, <3>4, <3>5, LaterEvent DEF s, R, n
  <2>read. EventScheduled(p, "read")
    <3>1. \A f \in {"write", "copy"} : Covered(p, f, s[3].waits)
      BY <1>3, <1>copy DEF Covered, s, R, Transfer, TransferRect, Command
    <3>2. \A f \in R["read"].after : Covered(p, f, s[3].waits)
      BY <1>read, <3>1
    <3>3. R["read"].after \subseteq EventsBefore(p, 3)
      BY <1>a, <1>read, <1>write, <1>copy DEF EventsBefore, R
    <3>4. s[3].waits \subseteq EventsBefore(p, 3)
      BY <1>3, <1>a, <1>copy DEF EventsBefore, R, Transfer, TransferRect, Command
    <3>5. R["read"].at = 3 /\ 3 \in 1 .. n
          /\ s[3].op \in {"enqueue", "launch"} /\ s[3].event = "read"
      BY <1>0, <1>3, <1>read DEF Transfer, TransferRect, Command
    <3> QED
      BY <3>2, <3>3, <3>4, <3>5, LaterEvent DEF s, R, n
  <2> QED
    BY <1>a, <2>write, <2>copy, <2>read
<1>g. n \in Nat
  BY <1>0
<1>static_write. Static(p, "write") = Transfer("write", "input", "input_buffer", {})
  <2>1. s[1].op = "enqueue"
    BY <1>1 DEF Transfer, TransferRect, Command
  <2> QED
    BY <2>1, <1>1, <1>write DEF Static, Submitted, s, R
<1>static_copy. Static(p, "copy") = Transfer("copy", "input_buffer", "output_buffer", {"write"})
  <2>1. s[2].op = "enqueue"
    BY <1>2 DEF Transfer, TransferRect, Command
  <2> QED
    BY <2>1, <1>2, <1>copy DEF Static, Submitted, s, R
<1>static_read. Static(p, "read") = Transfer("read", "output_buffer", "output", {"copy"})
  <2>1. s[3].op = "enqueue"
    BY <1>3 DEF Transfer, TransferRect, Command
  <2> QED
    BY <2>1, <1>3, <1>read DEF Static, Submitted, s, R
<1>x. \A e \in DOMAIN R : Executable(Static(p, e))
  <2>write. Executable(Static(p, "write"))
    BY <1>static_write DEF Executable, Moves, Transfer, TransferRect, Command, Whole,
      Names, HostArrays, Arrays
  <2>copy. Executable(Static(p, "copy"))
    BY <1>static_copy DEF Executable, Moves, Transfer, TransferRect, Command, Whole, Names,
      HostArrays, Arrays
  <2>read. Executable(Static(p, "read"))
    BY <1>static_read DEF Executable, Moves, Transfer, TransferRect, Command, Whole, Names,
      HostArrays, Arrays
  <2> QED
    BY <1>a, <2>write, <2>copy, <2>read
<1>f. \A e, f \in DOMAIN R : PairScheduled(p, e, f)
  <2>write. \A f \in DOMAIN R : PairScheduled(p, "write", f)
    BY <1>a, <1>write, <1>copy, <1>read DEF PairScheduled, R
  <2>copy. \A f \in DOMAIN R : PairScheduled(p, "copy", f)
    BY <1>a, <1>write, <1>copy, <1>read DEF PairScheduled, R
  <2>read. \A f \in DOMAIN R : PairScheduled(p, "read", f)
    BY <1>a, <1>write, <1>copy, <1>read DEF PairScheduled, R
  <2> QED
    BY <1>a, <2>write, <2>copy, <2>read
<1> QED
  BY <1>0, <1>c, <1>d, <1>e, <1>f, <1>g, <1>x DEF Scheduled, n, s, R

LEMMA BufferFillMapScheduled == Scheduled("buffer_fill_map")
<1> DEFINE p == "buffer_fill_map"
           s == Steps(p)
           n == Len(s)
           R == Schedule(p)
<1> USE DEF Steps, buffer_fill_map, Synchronously, Transfer, TransferRect, Command
<1>0. DOMAIN s = 1 .. 6 /\ n = 6
  OBVIOUS
<1>1. s[1] = Transfer("fill", "pattern", "buffer", {})
  OBVIOUS
<1>2. s[2] = Transfer("map", "buffer", "output", {"fill"})
  OBVIOUS
<1>3. s[3] = WaitFor({"map"})
  OBVIOUS
<1>4. s[4] = Check({"output"})
  OBVIOUS
<1>5. s[5] = Transfer("unmap", "undefined", "output", {})
  OBVIOUS
<1>6. s[6] = Finish
  OBVIOUS
<1> HIDE DEF Steps, buffer_fill_map, Synchronously, Transfer, TransferRect, Command
<1>a. DOMAIN R = {"fill", "map", "unmap"}
  BY DEF Schedule
<1>fill. R["fill"].at = 1 /\ R["fill"].after = {}
  BY DEF Schedule
<1>map. R["map"].at = 2 /\ R["map"].after = {"fill"}
  BY DEF Schedule
<1>unmap. R["unmap"].at = 5 /\ R["unmap"].after = {"fill", "map"}
  BY DEF Schedule
<1> HIDE DEF s, n, R
<1>b. AllAwaited(p, 4)
  BY <1>a, <1>fill, <1>map, <1>unmap, <1>3
  DEF AllAwaited, EventsBefore, Awaited, Covered, s, R, WaitFor
<1>c. AllSettled(p, n + 1)
  BY <1>0, <1>a, <1>fill, <1>map, <1>unmap, <1>3, <1>6
  DEF AllSettled, EventsBefore, Awaited, Covered, s, R, Finish, WaitFor
<1>d. \A i \in 1 .. n : StepScheduled(p, i)
  <2>1. StepScheduled(p, 1)
    BY <1>1, <1>a, <1>fill DEF StepScheduled, s, R, Transfer, TransferRect, Command
  <2>2. StepScheduled(p, 2)
    BY <1>2, <1>a, <1>map DEF StepScheduled, s, R, Transfer, TransferRect, Command
  <2>3. StepScheduled(p, 3)
    BY <1>3, <1>a, <1>map DEF StepScheduled, s, R, WaitFor, EventsBefore
  <2>4. StepScheduled(p, 4)
    BY <1>4, <1>b DEF StepScheduled, s, Check, Names, HostArrays, Arrays, AllSettled,
      AllAwaited
  <2>5. StepScheduled(p, 5)
    BY <1>5, <1>a, <1>unmap DEF StepScheduled, s, R, Transfer, TransferRect, Command
  <2>6. StepScheduled(p, 6)
    BY <1>6, <1>a, <1>fill, <1>map, <1>unmap, <1>1, <1>2, <1>5 DEF StepScheduled, s, R,
      Finish, EventsBefore, Submitted, Command, Transfer, TransferRect
  <2> QED
    BY <1>0, <2>1, <2>2, <2>3, <2>4, <2>5, <2>6
<1>e. \A e \in DOMAIN R : EventScheduled(p, e)
  <2>fill. EventScheduled(p, "fill")
    <3>1. s[1].op \in {"enqueue", "launch"} /\ s[1].event = "fill" /\ s[1].waits = {}
      BY <1>1 DEF Transfer, TransferRect, Command
    <3>2. 1 \in 1 .. n
      BY <1>0
    <3> QED
      BY <1>fill, <3>1, <3>2, FirstEvent DEF s, R, n
  <2>map. EventScheduled(p, "map")
    <3>1. \A f \in {"fill"} : Covered(p, f, s[2].waits)
      BY <1>2, <1>fill DEF Covered, s, R, Transfer, TransferRect, Command
    <3>2. \A f \in R["map"].after : Covered(p, f, s[2].waits)
      BY <1>map, <3>1
    <3>3. R["map"].after \subseteq EventsBefore(p, 2)
      BY <1>a, <1>map, <1>fill DEF EventsBefore, R
    <3>4. s[2].waits \subseteq EventsBefore(p, 2)
      BY <1>2, <1>a, <1>fill DEF EventsBefore, R, Transfer, TransferRect, Command
    <3>5. R["map"].at = 2 /\ 2 \in 1 .. n
          /\ s[2].op \in {"enqueue", "launch"} /\ s[2].event = "map"
      BY <1>0, <1>2, <1>map DEF Transfer, TransferRect, Command
    <3> QED
      BY <3>2, <3>3, <3>4, <3>5, LaterEvent DEF s, R, n
  <2>unmap. EventScheduled(p, "unmap")
    <3>1. Awaited(p, "fill", 5) /\ Awaited(p, "map", 5)
      BY <1>3, <1>map DEF Awaited, Covered, s, R, WaitFor
    <3>2. \A f \in R["unmap"].after : Awaited(p, f, 5)
      BY <1>unmap, <3>1
    <3>3. R["unmap"].after \subseteq EventsBefore(p, 5)
      BY <1>a, <1>unmap, <1>fill, <1>map DEF EventsBefore, R
    <3>4. s[5].waits \subseteq EventsBefore(p, 5)
      BY <1>5, <1>a DEF EventsBefore, R, Transfer, TransferRect, Command
    <3>5. R["unmap"].at = 5 /\ 5 \in 1 .. n
          /\ s[5].op \in {"enqueue", "launch"} /\ s[5].event = "unmap"
      BY <1>0, <1>5, <1>unmap DEF Transfer, TransferRect, Command
    <3> QED
      BY <3>2, <3>3, <3>4, <3>5, LaterEvent DEF s, R, n
  <2> QED
    BY <1>a, <2>fill, <2>map, <2>unmap
<1>g. n \in Nat
  BY <1>0
<1>static_fill. Static(p, "fill") = Transfer("fill", "pattern", "buffer", {})
  <2>1. s[1].op = "enqueue"
    BY <1>1 DEF Transfer, TransferRect, Command
  <2> QED
    BY <2>1, <1>1, <1>fill DEF Static, Submitted, s, R
<1>static_map. Static(p, "map") = Transfer("map", "buffer", "output", {"fill"})
  <2>1. s[2].op = "enqueue"
    BY <1>2 DEF Transfer, TransferRect, Command
  <2> QED
    BY <2>1, <1>2, <1>map DEF Static, Submitted, s, R
<1>static_unmap. Static(p, "unmap") = Transfer("unmap", "undefined", "output", {})
  <2>1. s[5].op = "enqueue"
    BY <1>5 DEF Transfer, TransferRect, Command
  <2> QED
    BY <2>1, <1>5, <1>unmap DEF Static, Submitted, s, R
<1>x. \A e \in DOMAIN R : Executable(Static(p, e))
  <2>fill. Executable(Static(p, "fill"))
    BY <1>static_fill DEF Executable, Moves, Transfer, TransferRect, Command, Whole, Names,
      HostArrays, Arrays
  <2>map. Executable(Static(p, "map"))
    BY <1>static_map DEF Executable, Moves, Transfer, TransferRect, Command, Whole, Names,
      HostArrays, Arrays
  <2>unmap. Executable(Static(p, "unmap"))
    BY <1>static_unmap DEF Executable, Moves, Transfer, TransferRect, Command, Whole,
      Names, HostArrays, Arrays
  <2> QED
    BY <1>a, <2>fill, <2>map, <2>unmap
<1>f. \A e, f \in DOMAIN R : PairScheduled(p, e, f)
  <2>fill. \A f \in DOMAIN R : PairScheduled(p, "fill", f)
    BY <1>a, <1>fill, <1>map, <1>unmap DEF PairScheduled, R
  <2>map. \A f \in DOMAIN R : PairScheduled(p, "map", f)
    BY <1>a, <1>fill, <1>map, <1>unmap DEF PairScheduled, R
  <2>unmap. \A f \in DOMAIN R : PairScheduled(p, "unmap", f)
    BY <1>a, <1>fill, <1>map, <1>unmap DEF PairScheduled, R
  <2> QED
    BY <1>a, <2>fill, <2>map, <2>unmap
<1> QED
  BY <1>0, <1>c, <1>d, <1>e, <1>f, <1>g, <1>x DEF Scheduled, n, s, R

LEMMA BufferRectangleScheduled == Scheduled("buffer_rectangle")
<1> DEFINE p == "buffer_rectangle"
           s == Steps(p)
           n == Len(s)
           R == Schedule(p)
<1> USE DEF Steps, buffer_rectangle, Synchronously, Transfer, TransferRect, Command
<1>0. DOMAIN s = 1 .. 7 /\ n = 7
  OBVIOUS
<1>1. s[1] = Transfer("write", "input", "buffer", {})
  OBVIOUS
<1>2. s[2] =
      TransferRect("copy_1", "buffer", "buffer", QuarterFrom(<<0, 0>>, <<Half, Half>>),
        {"write"})
  OBVIOUS
<1>3. s[3] =
      TransferRect("copy_2", "buffer", "buffer", QuarterFrom(<<0, Half>>, <<Half, 0>>),
        {"write"})
  OBVIOUS
<1>4. s[4] = Marker("all_copies", {"copy_1", "copy_2"})
  OBVIOUS
<1>5. s[5] = Transfer("read", "buffer", "output", {"all_copies"})
  OBVIOUS
<1>6. s[6] = WaitFor({"read"})
  OBVIOUS
<1>7. s[7] = Check({"input", "output"})
  OBVIOUS
<1> HIDE DEF Steps, buffer_rectangle, Synchronously, Transfer, TransferRect, Command
<1>a. DOMAIN R = {"write", "copy_1", "copy_2", "all_copies", "read"}
  BY DEF Schedule
<1>write. R["write"].at = 1 /\ R["write"].after = {}
  BY DEF Schedule
<1>copy_1. R["copy_1"].at = 2 /\ R["copy_1"].after = {"write"}
  BY DEF Schedule
<1>copy_2. R["copy_2"].at = 3 /\ R["copy_2"].after = {"write"}
  BY DEF Schedule
<1>all_copies. R["all_copies"].at = 4 /\ R["all_copies"].after = {"write", "copy_1",
        "copy_2"}
  BY DEF Schedule
<1>read. R["read"].at = 5 /\ R["read"].after = {"write", "copy_1", "copy_2",
        "all_copies"}
  BY DEF Schedule
<1> HIDE DEF s, n, R
<1>b. AllAwaited(p, 7)
  BY <1>a, <1>write, <1>copy_1, <1>copy_2, <1>all_copies, <1>read, <1>6
  DEF AllAwaited, EventsBefore, Awaited, Covered, s, R, WaitFor
<1>c. AllSettled(p, n + 1)
  BY <1>0, <1>a, <1>write, <1>copy_1, <1>copy_2, <1>all_copies, <1>read, <1>6
  DEF AllSettled, EventsBefore, Awaited, Covered, s, R, WaitFor
<1>d. \A i \in 1 .. n : StepScheduled(p, i)
  <2>1. StepScheduled(p, 1)
    BY <1>1, <1>a, <1>write DEF StepScheduled, s, R, Transfer, TransferRect, Command
  <2>2. StepScheduled(p, 2)
    BY <1>2, <1>a, <1>copy_1 DEF StepScheduled, s, R, TransferRect, Command
  <2>3. StepScheduled(p, 3)
    BY <1>3, <1>a, <1>copy_2 DEF StepScheduled, s, R, TransferRect, Command
  <2>4. StepScheduled(p, 4)
    BY <1>4, <1>a, <1>all_copies DEF StepScheduled, s, R, Marker, Command
  <2>5. StepScheduled(p, 5)
    BY <1>5, <1>a, <1>read DEF StepScheduled, s, R, Transfer, TransferRect, Command
  <2>6. StepScheduled(p, 6)
    BY <1>6, <1>a, <1>read DEF StepScheduled, s, R, WaitFor, EventsBefore
  <2>7. StepScheduled(p, 7)
    BY <1>7, <1>b DEF StepScheduled, s, Check, Names, HostArrays, Arrays, AllSettled,
      AllAwaited
  <2> QED
    BY <1>0, <2>1, <2>2, <2>3, <2>4, <2>5, <2>6, <2>7
<1>e. \A e \in DOMAIN R : EventScheduled(p, e)
  <2>write. EventScheduled(p, "write")
    <3>1. s[1].op \in {"enqueue", "launch"} /\ s[1].event = "write" /\ s[1].waits = {}
      BY <1>1 DEF Transfer, TransferRect, Command
    <3>2. 1 \in 1 .. n
      BY <1>0
    <3> QED
      BY <1>write, <3>1, <3>2, FirstEvent DEF s, R, n
  <2>copy_1. EventScheduled(p, "copy_1")
    <3>1. \A f \in {"write"} : Covered(p, f, s[2].waits)
      BY <1>2, <1>write DEF Covered, s, R, TransferRect, Command
    <3>2. \A f \in R["copy_1"].after : Covered(p, f, s[2].waits)
      BY <1>copy_1, <3>1
    <3>3. R["copy_1"].after \subseteq EventsBefore(p, 2)
      BY <1>a, <1>copy_1, <1>write DEF EventsBefore, R
    <3>4. s[2].waits \subseteq EventsBefore(p, 2)
      BY <1>2, <1>a, <1>write DEF EventsBefore, R, TransferRect, Command
    <3>5. R["copy_1"].at = 2 /\ 2 \in 1 .. n
          /\ s[2].op \in {"enqueue", "launch"} /\ s[2].event = "copy_1"
      BY <1>0, <1>2, <1>copy_1 DEF TransferRect, Command
    <3> QED
      BY <3>2, <3>3, <3>4, <3>5, LaterEvent DEF s, R, n
  <2>copy_2. EventScheduled(p, "copy_2")
    <3>1. \A f \in {"write"} : Covered(p, f, s[3].waits)
      BY <1>3, <1>write DEF Covered, s, R, TransferRect, Command
    <3>2. \A f \in R["copy_2"].after : Covered(p, f, s[3].waits)
      BY <1>copy_2, <3>1
    <3>3. R["copy_2"].after \subseteq EventsBefore(p, 3)
      BY <1>a, <1>copy_2, <1>write DEF EventsBefore, R
    <3>4. s[3].waits \subseteq EventsBefore(p, 3)
      BY <1>3, <1>a, <1>write DEF EventsBefore, R, TransferRect, Command
    <3>5. R["copy_2"].at = 3 /\ 3 \in 1 .. n
          /\ s[3].op \in {"enqueue", "launch"} /\ s[3].event = "copy_2"
      BY <1>0, <1>3, <1>copy_2 DEF TransferRect, Command
    <3> QED
      BY <3>2, <3>3, <3>4, <3>5, LaterEvent DEF s, R, n
  <2>all_copies. EventScheduled(p, "all_copies")
    <3>1. \A f \in {"write", "copy_1", "copy_2"} : Covered(p, f, s[4].waits)
      BY <1>4, <1>copy_1, <1>copy_2 DEF Covered, s, R, Marker, Command
    <3>2. \A f \in R["all_copies"].after : Covered(p, f, s[4].waits)
      BY <1>all_copies, <3>1
    <3>3. R["all_copies"].after \subseteq EventsBefore(p, 4)
      BY <1>a, <1>all_copies, <1>write, <1>copy_1, <1>copy_2 DEF EventsBefore, R
    <3>4. s[4].waits \subseteq EventsBefore(p, 4)
      BY <1>4, <1>a, <1>copy_1, <1>copy_2 DEF EventsBefore, R, Marker, Command
    <3>5. R["all_copies"].at = 4 /\ 4 \in 1 .. n
          /\ s[4].op \in {"enqueue", "launch"} /\ s[4].event = "all_copies"
      BY <1>0, <1>4, <1>all_copies DEF Marker, Command
    <3> QED
      BY <3>2, <3>3, <3>4, <3>5, LaterEvent DEF s, R, n
  <2>read. EventScheduled(p, "read")
    <3>1. \A f \in {"write", "copy_1", "copy_2", "all_copies"} : Covered(p, f, s[5].waits)
      BY <1>5, <1>all_copies DEF Covered, s, R, Transfer, TransferRect, Command
    <3>2. \A f \in R["read"].after : Covered(p, f, s[5].waits)
      BY <1>read, <3>1
    <3>3. R["read"].after \subseteq EventsBefore(p, 5)
      BY <1>a, <1>read, <1>write, <1>copy_1, <1>copy_2, <1>all_copies DEF EventsBefore, R
    <3>4. s[5].waits \subseteq EventsBefore(p, 5)
      BY <1>5, <1>a, <1>all_copies DEF EventsBefore, R, Transfer, TransferRect, Command
    <3>5. R["read"].at = 5 /\ 5 \in 1 .. n
          /\ s[5].op \in {"enqueue", "launch"} /\ s[5].event = "read"
      BY <1>0, <1>5, <1>read DEF Transfer, TransferRect, Command
    <3> QED
      BY <3>2, <3>3, <3>4, <3>5, LaterEvent DEF s, R, n
  <2> QED
    BY <1>a, <2>write, <2>copy_1, <2>copy_2, <2>all_copies, <2>read
<1>g. n \in Nat
  BY <1>0
<1>static_write. Static(p, "write") = Transfer("write", "input", "buffer", {})
  <2>1. s[1].op = "enqueue"
    BY <1>1 DEF Transfer, TransferRect, Command
  <2> QED
    BY <2>1, <1>1, <1>write DEF Static, Submitted, s, R
<1>static_copy_1. Static(p, "copy_1") =
      TransferRect("copy_1", "buffer", "buffer", QuarterFrom(<<0, 0>>, <<Half, Half>>),
        {"write"})
  <2>1. s[2].op = "enqueue"
    BY <1>2 DEF TransferRect, Command
  <2> QED
    BY <2>1, <1>2, <1>copy_1 DEF Static, Submitted, s, R
<1>static_copy_2. Static(p, "copy_2") =
      TransferRect("copy_2", "buffer", "buffer", QuarterFrom(<<0, Half>>, <<Half, 0>>),
        {"write"})
  <2>1. s[3].op = "enqueue"
    BY <1>3 DEF TransferRect, Command
  <2> QED
    BY <2>1, <1>3, <1>copy_2 DEF Static, Submitted, s, R
<1>static_all_copies. Static(p, "all_copies") = Marker("all_copies", {"copy_1", "copy_2"})
  <2>1. s[4].op = "enqueue"
    BY <1>4 DEF Marker, Command
  <2> QED
    BY <2>1, <1>4, <1>all_copies DEF Static, Submitted, s, R
<1>static_read. Static(p, "read") = Transfer("read", "buffer", "output", {"all_copies"})
  <2>1. s[5].op = "enqueue"
    BY <1>5 DEF Transfer, TransferRect, Command
  <2> QED
    BY <2>1, <1>5, <1>read DEF Static, Submitted, s, R
<1>x. \A e \in DOMAIN R : Executable(Static(p, e))
  <2>write. Executable(Static(p, "write"))
    BY <1>static_write DEF Executable, Moves, Transfer, TransferRect, Command, Whole,
      Names, HostArrays, Arrays
  <2>copy_1. Executable(Static(p, "copy_1"))
    BY <1>static_copy_1, QuarterCells DEF Executable, Moves, TransferRect, Command, Names,
      HostArrays, Arrays
  <2>copy_2. Executable(Static(p, "copy_2"))
    BY <1>static_copy_2, QuarterCells DEF Executable, Moves, TransferRect, Command, Names,
      HostArrays, Arrays
  <2>all_copies. Executable(Static(p, "all_copies"))
    BY <1>static_all_copies DEF Executable, Idle, Marker, Command
  <2>read. Executable(Static(p, "read"))
    BY <1>static_read DEF Executable, Moves, Transfer, TransferRect, Command, Whole, Names,
      HostArrays, Arrays
  <2> QED
    BY <1>a, <2>write, <2>copy_1, <2>copy_2, <2>all_copies, <2>read
<1>f. \A e, f \in DOMAIN R : PairScheduled(p, e, f)
  <2>9. ~Conflict(Static(p, "copy_1"), Static(p, "copy_2"))
        /\ ~Conflict(Static(p, "copy_2"), Static(p, "copy_1"))
    <3> DEFINE m == QuarterFrom(<<0, 0>>, <<Half, Half>>)
               k == QuarterFrom(<<0, Half>>, <<Half, 0>>)
    <3>1. Half # 0
      BY SideAssumption, PipelinesAssumption DEF Half
    <3>2. \A x \in DOMAIN m : x \notin DOMAIN k /\ \A y \in DOMAIN k : x # k[y]
      BY <3>1, QuartersApart
    <3>3. \A x \in DOMAIN k : x \notin DOMAIN m /\ \A y \in DOMAIN m : x # m[y]
      BY <3>1, QuartersApart
    <3> HIDE DEF m, k
    <3> QED
      BY <1>static_copy_1, <1>static_copy_2, <3>2, <3>3, RectanglesApart DEF m, k
  <2>write. \A f \in DOMAIN R : PairScheduled(p, "write", f)
    BY <1>a, <1>write, <1>copy_1, <1>copy_2, <1>all_copies, <1>read DEF PairScheduled, R
  <2>copy_1. \A f \in DOMAIN R : PairScheduled(p, "copy_1", f)
    BY <2>9, <1>a, <1>write, <1>copy_1, <1>copy_2, <1>all_copies, <1>read
      DEF PairScheduled, R
  <2>copy_2. \A f \in DOMAIN R : PairScheduled(p, "copy_2", f)
    BY <2>9, <1>a, <1>write, <1>copy_1, <1>copy_2, <1>all_copies, <1>read
      DEF PairScheduled, R
  <2>all_copies. \A f \in DOMAIN R : PairScheduled(p, "all_copies", f)
    BY <1>a, <1>write, <1>copy_1, <1>copy_2, <1>all_copies, <1>read DEF PairScheduled, R
  <2>read. \A f \in DOMAIN R : PairScheduled(p, "read", f)
    BY <1>a, <1>write, <1>copy_1, <1>copy_2, <1>all_copies, <1>read DEF PairScheduled, R
  <2> QED
    BY <1>a, <2>write, <2>copy_1, <2>copy_2, <2>all_copies, <2>read
<1> QED
  BY <1>0, <1>c, <1>d, <1>e, <1>f, <1>g, <1>x DEF Scheduled, n, s, R

LEMMA KernelExecutionScheduled == Scheduled("kernel_execution")
<1> DEFINE p == "kernel_execution"
           s == Steps(p)
           n == Len(s)
           R == Schedule(p)
<1> USE DEF Steps, kernel_execution, CreateKernel, SetArguments, Synchronously,
    Transfer, TransferRect, Command
<1>0. DOMAIN s = 1 .. 13 /\ n = 13
  OBVIOUS
<1>1. s[1] = Build("build")
  OBVIOUS
<1>2. s[2] = Transfer("write_A", "input_A", "A_buffer", {})
  OBVIOUS
<1>3. s[3] = Transfer("write_B", "input_B", "B_buffer", {})
  OBVIOUS
<1>4. s[4] = Marker("all_writes", all_write_events)
  OBVIOUS
<1>5. s[5] = WaitFor({"build"})
  OBVIOUS
<1>6. s[6] = [op |-> "create_kernel", kernel |-> "kernel", run |-> "vector_add"]
  OBVIOUS
<1>7. s[7] = SetArgument("kernel", 1, "A_buffer")
  OBVIOUS
<1>8. s[8] = SetArgument("kernel", 2, "B_buffer")
  OBVIOUS
<1>9. s[9] = SetArgument("kernel", 3, "output_buffer")
  OBVIOUS
<1>10. s[10] = RangeKernel("exec", "kernel", {"all_writes"})
  OBVIOUS
<1>11. s[11] = Transfer("read", "output_buffer", "output", {"exec"})
  OBVIOUS
<1>12. s[12] = WaitFor({"read"})
  OBVIOUS
<1>13. s[13] = Check({"input_A", "input_B", "output"})
  OBVIOUS
<1> HIDE DEF Steps, kernel_execution, CreateKernel, SetArguments, Synchronously,
    Transfer, TransferRect, Command
<1>a. DOMAIN R = {"build", "write_A", "write_B", "all_writes", "exec", "read"}
  BY DEF Schedule
<1>build. R["build"].at = 1 /\ R["build"].after = {}
  BY DEF Schedule
<1>write_A. R["write_A"].at = 2 /\ R["write_A"].after = {}
  BY DEF Schedule
<1>write_B. R["write_B"].at = 3 /\ R["write_B"].after = {}
  BY DEF Schedule
<1>all_writes. R["all_writes"].at = 4 /\ R["all_writes"].after = {"write_A", "write_B"}
  BY DEF Schedule
<1>exec. R["exec"].at = 10 /\ R["exec"].after = {"build", "write_A", "write_B",
        "all_writes"}
  BY DEF Schedule
<1>read. R["read"].at = 11 /\ R["read"].after = {"build", "write_A", "write_B",
        "all_writes", "exec"}
  BY DEF Schedule
<1> HIDE DEF s, n, R
<1>b. AllAwaited(p, 13)
  BY <1>a, <1>build, <1>write_A, <1>write_B, <1>all_writes, <1>exec, <1>read, <1>5,
    <1>12
  DEF AllAwaited, EventsBefore, Awaited, Covered, s, R, WaitFor
<1>c. AllSettled(p, n + 1)
  BY <1>0, <1>a, <1>build, <1>write_A, <1>write_B, <1>all_writes, <1>exec, <1>read,
    <1>5, <1>12
  DEF AllSettled, EventsBefore, Awaited, Covered, s, R, WaitFor
<1>d. \A i \in 1 .. n : StepScheduled(p, i)
  <2>0. \A i \in {6, 7, 8, 9} : StepScheduled(p, i)
    BY <1>6, <1>7, <1>8, <1>9 DEF StepScheduled, s, SetArgument
  <2>1. StepScheduled(p, 1)
    BY <1>1, <1>a, <1>build DEF StepScheduled, s, R, Build, Command
  <2>2. StepScheduled(p, 2)
    BY <1>2, <1>a, <1>write_A DEF StepScheduled, s, R, Transfer, TransferRect, Command
  <2>3. StepScheduled(p, 3)
    BY <1>3, <1>a, <1>write_B DEF StepScheduled, s, R, Transfer, TransferRect, Command
  <2>4. StepScheduled(p, 4)
    BY <1>4, <1>a, <1>all_writes DEF StepScheduled, s, R, Marker, Command
  <2>5. StepScheduled(p, 5)
    BY <1>5, <1>a, <1>build DEF StepScheduled, s, R, WaitFor, EventsBefore
  <2>10. StepScheduled(p, 10)
    BY <1>10, <1>a, <1>exec DEF StepScheduled, s, R, RangeKernel
  <2>11. StepScheduled(p, 11)
    BY <1>11, <1>a, <1>read DEF StepScheduled, s, R, Transfer, TransferRect, Command
  <2>12. StepScheduled(p, 12)
    BY <1>12, <1>a, <1>read DEF StepScheduled, s, R, WaitFor, EventsBefore
  <2>13. StepScheduled(p, 13)
    BY <1>13, <1>b DEF StepScheduled, s, Check, Names, HostArrays, Arrays, AllSettled,
      AllAwaited
  <2> QED
    BY <1>0, <2>0, <2>1, <2>2, <2>3, <2>4, <2>5, <2>10, <2>11, <2>12, <2>13
<1>e. \A e \in DOMAIN R : EventScheduled(p, e)
  <2>build. EventScheduled(p, "build")
    <3>1. s[1].op \in {"enqueue", "launch"} /\ s[1].event = "build" /\ s[1].waits = {}
      BY <1>1 DEF Build, Command
    <3>2. 1 \in 1 .. n
      BY <1>0
    <3> QED
      BY <1>build, <3>1, <3>2, FirstEvent DEF s, R, n
  <2>write_A. EventScheduled(p, "write_A")
    <3>1. s[2].op \in {"enqueue", "launch"} /\ s[2].event = "write_A" /\ s[2].waits = {}
      BY <1>2 DEF Transfer, TransferRect, Command
    <3>2. 2 \in 1 .. n
      BY <1>0
    <3> QED
      BY <1>write_A, <3>1, <3>2, FirstEvent DEF s, R, n
  <2>write_B. EventScheduled(p, "write_B")
    <3>1. s[3].op \in {"enqueue", "launch"} /\ s[3].event = "write_B" /\ s[3].waits = {}
      BY <1>3 DEF Transfer, TransferRect, Command
    <3>2. 3 \in 1 .. n
      BY <1>0
    <3> QED
      BY <1>write_B, <3>1, <3>2, FirstEvent DEF s, R, n
  <2>all_writes. EventScheduled(p, "all_writes")
    <3>1. \A f \in {"write_A", "write_B"} : Covered(p, f, s[4].waits)
      BY <1>4, <1>write_A, <1>write_B DEF Covered, s, R, Marker, Command, all_write_events
    <3>2. \A f \in R["all_writes"].after : Covered(p, f, s[4].waits)
      BY <1>all_writes, <3>1
    <3>3. R["all_writes"].after \subseteq EventsBefore(p, 4)
      BY <1>a, <1>all_writes, <1>write_A, <1>write_B DEF EventsBefore, R
    <3>4. s[4].waits \subseteq EventsBefore(p, 4)
      BY <1>4, <1>a, <1>write_A, <1>write_B DEF EventsBefore, R, Marker, Command,
        all_write_events
    <3>5. R["all_writes"].at = 4 /\ 4 \in 1 .. n
          /\ s[4].op \in {"enqueue", "launch"} /\ s[4].event = "all_writes"
      BY <1>0, <1>4, <1>all_writes DEF Marker, Command
    <3> QED
      BY <3>2, <3>3, <3>4, <3>5, LaterEvent DEF s, R, n
  <2>exec. EventScheduled(p, "exec")
    <3>1. Awaited(p, "build", 10)
      BY <1>5, <1>build DEF Awaited, Covered, s, R, WaitFor
    <3>2. \A f \in {"write_A", "write_B", "all_writes"} : Covered(p, f, s[10].waits)
      BY <1>10, <1>all_writes DEF Covered, s, R, RangeKernel
    <3>3. \A f \in R["exec"].after : Covered(p, f, s[10].waits) \/ Awaited(p, f, 10)
      BY <1>exec, <3>1, <3>2
    <3>4. R["exec"].after \subseteq EventsBefore(p, 10)
      BY <1>a, <1>exec, <1>build, <1>write_A, <1>write_B, <1>all_writes DEF EventsBefore, R
    <3>5. s[10].waits \subseteq EventsBefore(p, 10)
      BY <1>10, <1>a, <1>all_writes DEF EventsBefore, R, RangeKernel
    <3>6. R["exec"].at = 10 /\ 10 \in 1 .. n
          /\ s[10].op \in {"enqueue", "launch"} /\ s[10].event = "exec"
      BY <1>0, <1>10, <1>exec DEF RangeKernel
    <3> QED
      BY <3>3, <3>4, <3>5, <3>6, LaterEvent DEF s, R, n
  <2>read. EventScheduled(p, "read")
    <3>1. \A f \in {"build", "write_A", "write_B", "all_writes", "exec"} :
          Covered(p, f, s[11].waits)
      BY <1>11, <1>exec DEF Covered, s, R, Transfer, TransferRect, Command
    <3>2. \A f \in R["read"].after : Covered(p, f, s[11].waits)
      BY <1>read, <3>1
    <3>3. R["read"].after \subseteq EventsBefore(p, 11)
      BY <1>a, <1>read, <1>build, <1>write_A, <1>write_B, <1>all_writes, <1>exec
        DEF EventsBefore, R
    <3>4. s[11].waits \subseteq EventsBefore(p, 11)
      BY <1>11, <1>a, <1>exec DEF EventsBefore, R, Transfer, TransferRect, Command
    <3>5. R["read"].at = 11 /\ 11 \in 1 .. n
          /\ s[11].op \in {"enqueue", "launch"} /\ s[11].event = "read"
      BY <1>0, <1>11, <1>read DEF Transfer, TransferRect, Command
    <3> QED
      BY <3>2, <3>3, <3>4, <3>5, LaterEvent DEF s, R, n
  <2> QED
    BY <1>a, <2>build, <2>write_A, <2>write_B, <2>all_writes, <2>exec, <2>read
<1>g. n \in Nat
  BY <1>0
<1>static_build. Static(p, "build") = Build("build")
  <2>1. s[1].op = "enqueue"
    BY <1>1 DEF Build, Command
  <2> QED
    BY <2>1, <1>1, <1>build DEF Static, Submitted, s, R
<1>static_write_A. Static(p, "write_A") = Transfer("write_A", "input_A", "A_buffer", {})
  <2>1. s[2].op = "enqueue"
    BY <1>2 DEF Transfer, TransferRect, Command
  <2> QED
    BY <2>1, <1>2, <1>write_A DEF Static, Submitted, s, R
<1>static_write_B. Static(p, "write_B") = Transfer("write_B", "input_B", "B_buffer", {})
  <2>1. s[3].op = "enqueue"
    BY <1>3 DEF Transfer, TransferRect, Command
  <2> QED
    BY <2>1, <1>3, <1>write_B DEF Static, Submitted, s, R
<1>static_all_writes. Static(p, "all_writes") = Marker("all_writes", all_write_events)
  <2>1. s[4].op = "enqueue"
    BY <1>4 DEF Marker, Command
  <2> QED
    BY <2>1, <1>4, <1>all_writes DEF Static, Submitted, s, R
<1>static_exec. Static(p, "exec") =
      Command("exec", "vector_add", <<"A_buffer", "B_buffer", "output_buffer">>, Whole,
        {"all_writes"})
  <2>1. Has(After(p)[9].kernels, "kernel", "vector_add", <<"A_buffer", "B_buffer",
        "output_buffer">>)
    BY <1>0, <1>g, <1>6, <1>7, <1>8, <1>9, ThreeArguments DEF n, s
  <2>2. s[10].op = "launch"
    BY <1>10 DEF RangeKernel
  <2>3. Static(p, "exec") = Captured(s[10], After(p)[9].kernels)
    BY <2>2, <1>exec DEF Static, Submitted, s, R
  <2> QED
    BY <2>1, <2>3, <1>10, KernelLaunched
<1>static_read. Static(p, "read") = Transfer("read", "output_buffer", "output", {"exec"})
  <2>1. s[11].op = "enqueue"
    BY <1>11 DEF Transfer, TransferRect, Command
  <2> QED
    BY <2>1, <1>11, <1>read DEF Static, Submitted, s, R
<1>x. \A e \in DOMAIN R : Executable(Static(p, e))
  <2>build. Executable(Static(p, "build"))
    BY <1>static_build DEF Executable, Idle, Build, Command
  <2>write_A. Executable(Static(p, "write_A"))
    BY <1>static_write_A DEF Executable, Moves, Transfer, TransferRect, Command, Whole,
      Names, HostArrays, Arrays
  <2>write_B. Executable(Static(p, "write_B"))
    BY <1>static_write_B DEF Executable, Moves, Transfer, TransferRect, Command, Whole,
      Names, HostArrays, Arrays
  <2>all_writes. Executable(Static(p, "all_writes"))
    BY <1>static_all_writes DEF Executable, Idle, Marker, Command
  <2>exec. Executable(Static(p, "exec"))
    <3>1. "A_buffer" \in Names /\ "B_buffer" \in Names /\ "output_buffer" \in Names
      BY DEF Names, Arrays
    <3> QED
      BY <1>static_exec, <3>1, ThreeComputes
  <2>read. Executable(Static(p, "read"))
    BY <1>static_read DEF Executable, Moves, Transfer, TransferRect, Command, Whole, Names,
      HostArrays, Arrays
  <2> QED
    BY <1>a, <2>build, <2>write_A, <2>write_B, <2>all_writes, <2>exec, <2>read
<1>f. \A e, f \in DOMAIN R : PairScheduled(p, e, f)
  <2>1. Idle(Static(p, "build"))
    BY <1>static_build DEF Idle, Build, Command
  <2>9. ~Conflict(Static(p, "write_A"), Static(p, "write_B"))
        /\ ~Conflict(Static(p, "write_B"), Static(p, "write_A"))
    BY <1>static_write_A, <1>static_write_B, TransfersApart
  <2>build. \A f \in DOMAIN R : PairScheduled(p, "build", f)
    BY <2>1, IdleConflicts, <1>a, <1>build, <1>write_A, <1>write_B, <1>all_writes,
      <1>exec, <1>read DEF PairScheduled, R
  <2>write_A. \A f \in DOMAIN R : PairScheduled(p, "write_A", f)
    BY <2>1, IdleConflicts, <2>9, <1>a, <1>build, <1>write_A, <1>write_B, <1>all_writes,
      <1>exec, <1>read DEF PairScheduled, R
  <2>write_B. \A f \in DOMAIN R : PairScheduled(p, "write_B", f)
    BY <2>1, IdleConflicts, <2>9, <1>a, <1>build, <1>write_A, <1>write_B, <1>all_writes,
      <1>exec, <1>read DEF PairScheduled, R
  <2>all_writes. \A f \in DOMAIN R : PairScheduled(p, "all_writes", f)
    BY <2>1, IdleConflicts, <1>a, <1>build, <1>write_A, <1>write_B, <1>all_writes,
      <1>exec, <1>read DEF PairScheduled, R
  <2>exec. \A f \in DOMAIN R : PairScheduled(p, "exec", f)
    BY <2>1, IdleConflicts, <1>a, <1>build, <1>write_A, <1>write_B, <1>all_writes,
      <1>exec, <1>read DEF PairScheduled, R
  <2>read. \A f \in DOMAIN R : PairScheduled(p, "read", f)
    BY <2>1, IdleConflicts, <1>a, <1>build, <1>write_A, <1>write_B, <1>all_writes,
      <1>exec, <1>read DEF PairScheduled, R
  <2> QED
    BY <1>a, <2>build, <2>write_A, <2>write_B, <2>all_writes, <2>exec, <2>read
<1> QED
  BY <1>0, <1>c, <1>d, <1>e, <1>f, <1>g, <1>x DEF Scheduled, n, s, R

LEMMA EventProfilingScheduled == Scheduled("event_profiling")
<1> DEFINE p == "event_profiling"
           s == Steps(p)
           n == Len(s)
           R == Schedule(p)
<1> USE DEF Steps, event_profiling, CreateKernel, SetArguments, Synchronously, Transfer,
    TransferRect, Command
<1>0. DOMAIN s = 1 .. 20 /\ n = 20
  OBVIOUS
<1>1. s[1] = Build("build")
  OBVIOUS
<1>2. s[2] = Transfer("write", "input", "buffer", {})
  OBVIOUS
<1>3. s[3] = WaitFor({"build"})
  OBVIOUS
<1>4. s[4] = [op |-> "create_kernel", kernel |-> "naive", run |-> "transpose_naive"]
  OBVIOUS
<1>5. s[5] = SetArgument("naive", 1, "buffer")
  OBVIOUS
<1>6. s[6] = SetArgument("naive", 2, "output_buffer")
  OBVIOUS
<1>7. s[7] = RangeKernel("exec_naive", "naive", {"write"})
  OBVIOUS
<1>8. s[8] = Transfer("read_naive", "output_buffer", "output_naive", {"exec_naive"})
  OBVIOUS
<1>9. s[9] = WaitFor({"read_naive"})
  OBVIOUS
<1>10. s[10] = Profile("exec_naive")
  OBVIOUS
<1>11. s[11] = WaitFor({"build"})
  OBVIOUS
<1>12. s[12] = [op |-> "create_kernel", kernel |-> "local", run |-> "transpose_local"]
  OBVIOUS
<1>13. s[13] = SetArgument("local", 1, "buffer")
  OBVIOUS
<1>14. s[14] = SetArgument("local", 2, "local_memory")
  OBVIOUS
<1>15. s[15] = SetArgument("local", 3, "output_buffer")
  OBVIOUS
<1>16. s[16] = RangeKernel("exec_local", "local", {"write"})
  OBVIOUS
<1>17. s[17] = Transfer("read_local", "output_buffer", "output", {"exec_local"})
  OBVIOUS
<1>18. s[18] = WaitFor({"read_local"})
  OBVIOUS
<1>19. s[19] = Profile("exec_local")
  OBVIOUS
<1>20. s[20] = Check({"output_naive", "output"})
  OBVIOUS
<1> HIDE DEF Steps, event_profiling, CreateKernel, SetArguments, Synchronously,
    Transfer, TransferRect, Command
<1>a. DOMAIN R = {"build", "write", "exec_naive", "read_naive", "exec_local",
        "read_local"}
  BY DEF Schedule
<1>build. R["build"].at = 1 /\ R["build"].after = {}
  BY DEF Schedule
<1>write. R["write"].at = 2 /\ R["write"].after = {}
  BY DEF Schedule
<1>exec_naive. R["exec_naive"].at = 7 /\ R["exec_naive"].after = {"build", "write"}
  BY DEF Schedule
<1>read_naive. R["read_naive"].at = 8 /\ R["read_naive"].after = {"build", "write",
        "exec_naive"}
  BY DEF Schedule
<1>exec_local. R["exec_local"].at = 16 /\ R["exec_local"].after = {"build", "write",
        "exec_naive", "read_naive"}
  BY DEF Schedule
<1>read_local. R["read_local"].at = 17 /\ R["read_local"].after = {"build", "write",
        "exec_naive", "read_naive", "exec_local"}
  BY DEF Schedule
<1> HIDE DEF s, n, R
<1>b. AllAwaited(p, 20)
  BY <1>a, <1>build, <1>write, <1>exec_naive, <1>read_naive, <1>exec_local,
    <1>read_local, <1>3, <1>9, <1>11, <1>18
  DEF AllAwaited, EventsBefore, Awaited, Covered, s, R, WaitFor
<1>c. AllSettled(p, n + 1)
  BY <1>0, <1>a, <1>build, <1>write, <1>exec_naive, <1>read_naive, <1>exec_local,
    <1>read_local, <1>3, <1>9, <1>11, <1>18
  DEF AllSettled, EventsBefore, Awaited, Covered, s, R, WaitFor
<1>d. \A i \in 1 .. n : StepScheduled(p, i)
  <2>0. \A i \in {4, 5, 6, 10, 12, 13, 14, 15, 19} : StepScheduled(p, i)
    BY <1>4, <1>5, <1>6, <1>10, <1>12, <1>13, <1>14, <1>15, <1>19 DEF StepScheduled, s,
      Profile, SetArgument
  <2>1. StepScheduled(p, 1)
    BY <1>1, <1>a, <1>build DEF StepScheduled, s, R, Build, Command
  <2>2. StepScheduled(p, 2)
    BY <1>2, <1>a, <1>write DEF StepScheduled, s, R, Transfer, TransferRect, Command
  <2>3. StepScheduled(p, 3)
    BY <1>3, <1>a, <1>build DEF StepScheduled, s, R, WaitFor, EventsBefore
  <2>7. StepScheduled(p, 7)
    BY <1>7, <1>a, <1>exec_naive DEF StepScheduled, s, R, RangeKernel
  <2>8. StepScheduled(p, 8)
    BY <1>8, <1>a, <1>read_naive DEF StepScheduled, s, R, Transfer, TransferRect, Command
  <2>9. StepScheduled(p, 9)
    BY <1>9, <1>a, <1>read_naive DEF StepScheduled, s, R, WaitFor, EventsBefore
  <2>11. StepScheduled(p, 11)
    BY <1>11, <1>a, <1>build DEF StepScheduled, s, R, WaitFor, EventsBefore
  <2>16. StepScheduled(p, 16)
    BY <1>16, <1>a, <1>exec_local DEF StepScheduled, s, R, RangeKernel
  <2>17. StepScheduled(p, 17)
    BY <1>17, <1>a, <1>read_local DEF StepScheduled, s, R, Transfer, TransferRect, Command
  <2>18. StepScheduled(p, 18)
    BY <1>18, <1>a, <1>read_local DEF StepScheduled, s, R, WaitFor, EventsBefore
  <2>20. StepScheduled(p, 20)
    BY <1>20, <1>b DEF StepScheduled, s, Check, Names, HostArrays, Arrays, AllSettled,
      AllAwaited
  <2> QED
    BY <1>0, <2>0, <2>1, <2>2, <2>3, <2>7, <2>8, <2>9, <2>11, <2>16, <2>17, <2>18, <2>20
<1>e. \A e \in DOMAIN R : EventScheduled(p, e)
  <2>build. EventScheduled(p, "build")
    <3>1. s[1].op \in {"enqueue", "launch"} /\ s[1].event = "build" /\ s[1].waits = {}
      BY <1>1 DEF Build, Command
    <3>2. 1 \in 1 .. n
      BY <1>0
    <3> QED
      BY <1>build, <3>1, <3>2, FirstEvent DEF s, R, n
  <2>write. EventScheduled(p, "write")
    <3>1. s[2].op \in {"enqueue", "launch"} /\ s[2].event = "write" /\ s[2].waits = {}
      BY <1>2 DEF Transfer, TransferRect, Command
    <3>2. 2 \in 1 .. n
      BY <1>0
    <3> QED
      BY <1>write, <3>1, <3>2, FirstEvent DEF s, R, n
  <2>exec_naive. EventScheduled(p, "exec_naive")
    <3>1. Awaited(p, "build", 7)
      BY <1>3, <1>build DEF Awaited, Covered, s, R, WaitFor
    <3>2. \A f \in {"write"} : Covered(p, f, s[7].waits)
      BY <1>7, <1>write DEF Covered, s, R, RangeKernel
    <3>3. \A f \in R["exec_naive"].after : Covered(p, f, s[7].waits) \/ Awaited(p, f, 7)
      BY <1>exec_naive, <3>1, <3>2
    <3>4. R["exec_naive"].after \subseteq EventsBefore(p, 7)
      BY <1>a, <1>exec_naive, <1>build, <1>write DEF EventsBefore, R
    <3>5. s[7].waits \subseteq EventsBefore(p, 7)
      BY <1>7, <1>a, <1>write DEF EventsBefore, R, RangeKernel
    <3>6. R["exec_naive"].at = 7 /\ 7 \in 1 .. n
          /\ s[7].op \in {"enqueue", "launch"} /\ s[7].event = "exec_naive"
      BY <1>0, <1>7, <1>exec_naive DEF RangeKernel
    <3> QED
      BY <3>3, <3>4, <3>5, <3>6, LaterEvent DEF s, R, n
  <2>read_naive. EventScheduled(p, "read_naive")
    <3>1. \A f \in {"build", "write", "exec_naive"} : Covered(p, f, s[8].waits)
      BY <1>8, <1>exec_naive DEF Covered, s, R, Transfer, TransferRect, Command
    <3>2. \A f \in R["read_naive"].after : Covered(p, f, s[8].waits)
      BY <1>read_naive, <3>1
    <3>3. R["read_naive"].after \subseteq EventsBefore(p, 8)
      BY <1>a, <1>read_naive, <1>build, <1>write, <1>exec_naive DEF EventsBefore, R
    <3>4. s[8].waits \subseteq EventsBefore(p, 8)
      BY <1>8, <1>a, <1>exec_naive DEF EventsBefore, R, Transfer, TransferRect, Command
    <3>5. R["read_naive"].at = 8 /\ 8 \in 1 .. n
          /\ s[8].op \in {"enqueue", "launch"} /\ s[8].event = "read_naive"
      BY <1>0, <1>8, <1>read_naive DEF Transfer, TransferRect, Command
    <3> QED
      BY <3>2, <3>3, <3>4, <3>5, LaterEvent DEF s, R, n
  <2>exec_local. EventScheduled(p, "exec_local")
    <3>1. Awaited(p, "build", 16) /\ Awaited(p, "exec_naive", 16)
          /\ Awaited(p, "read_naive", 16)
      BY <1>9, <1>read_naive DEF Awaited, Covered, s, R, WaitFor
    <3>2. \A f \in {"write"} : Covered(p, f, s[16].waits)
      BY <1>16, <1>write DEF Covered, s, R, RangeKernel
    <3>3. \A f \in R["exec_local"].after : Covered(p, f, s[16].waits) \/ Awaited(p, f, 16)
      BY <1>exec_local, <3>1, <3>2
    <3>4. R["exec_local"].after \subseteq EventsBefore(p, 16)
      BY <1>a, <1>exec_local, <1>build, <1>write, <1>exec_naive, <1>read_naive
        DEF EventsBefore, R
    <3>5. s[16].waits \subseteq EventsBefore(p, 16)
      BY <1>16, <1>a, <1>write DEF EventsBefore, R, RangeKernel
    <3>6. R["exec_local"].at = 16 /\ 16 \in 1 .. n
          /\ s[16].op \in {"enqueue", "launch"} /\ s[16].event = "exec_local"
      BY <1>0, <1>16, <1>exec_local DEF RangeKernel
    <3> QED
      BY <3>3, <3>4, <3>5, <3>6, LaterEvent DEF s, R, n
  <2>read_local. EventScheduled(p, "read_local")
    <3>1. \A f \in {"build", "write", "exec_naive", "read_naive", "exec_local"} :
          Covered(p, f, s[17].waits)
      BY <1>17, <1>exec_local DEF Covered, s, R, Transfer, TransferRect, Command
    <3>2. \A f \in R["read_local"].after : Covered(p, f, s[17].waits)
      BY <1>read_local, <3>1
    <3>3. R["read_local"].after \subseteq EventsBefore(p, 17)
      BY <1>a, <1>read_local, <1>build, <1>write, <1>exec_naive, <1>read_naive,
        <1>exec_local DEF EventsBefore, R
    <3>4. s[17].waits \subseteq EventsBefore(p, 17)
      BY <1>17, <1>a, <1>exec_local DEF EventsBefore, R, Transfer, TransferRect, Command
    <3>5. R["read_local"].at = 17 /\ 17 \in 1 .. n
          /\ s[17].op \in {"enqueue", "launch"} /\ s[17].event = "read_local"
      BY <1>0, <1>17, <1>read_local DEF Transfer, TransferRect, Command
    <3> QED
      BY <3>2, <3>3, <3>4, <3>5, LaterEvent DEF s, R, n
  <2> QED
    BY <1>a, <2>build, <2>write, <2>exec_naive, <2>read_naive, <2>exec_local,
      <2>read_local
<1>g. n \in Nat
  BY <1>0
<1>static_build. Static(p, "build") = Build("build")
  <2>1. s[1].op = "enqueue"
    BY <1>1 DEF Build, Command
  <2> QED
    BY <2>1, <1>1, <1>build DEF Static, Submitted, s, R
<1>static_write. Static(p, "write") = Transfer("write", "input", "buffer", {})
  <2>1. s[2].op = "enqueue"
    BY <1>2 DEF Transfer, TransferRect, Command
  <2> QED
    BY <2>1, <1>2, <1>write DEF Static, Submitted, s, R
<1>static_exec_naive. Static(p, "exec_naive") =
      Command("exec_naive", "transpose_naive", <<"buffer", "output_buffer">>, Whole, {"write"})
  <2>1. Has(After(p)[6].kernels, "naive", "transpose_naive", <<"buffer", "output_buffer">>)
    BY <1>0, <1>g, <1>4, <1>5, <1>6, TwoArguments DEF n, s
  <2>2. s[7].op = "launch"
    BY <1>7 DEF RangeKernel
  <2>3. Static(p, "exec_naive") = Captured(s[7], After(p)[6].kernels)
    BY <2>2, <1>exec_naive DEF Static, Submitted, s, R
  <2> QED
    BY <2>1, <2>3, <1>7, KernelLaunched
<1>static_read_naive. Static(p, "read_naive") =
      Transfer("read_naive", "output_buffer", "output_naive", {"exec_naive"})
  <2>1. s[8].op = "enqueue"
    BY <1>8 DEF Transfer, TransferRect, Command
  <2> QED
    BY <2>1, <1>8, <1>read_naive DEF Static, Submitted, s, R
<1>static_exec_local. Static(p, "exec_local") =
      Command("exec_local", "transpose_local", <<"buffer", "local_memory", "output_buffer">>,
        Whole, {"write"})
  <2>1. Has(After(p)[15].kernels, "local", "transpose_local", <<"buffer", "local_memory",
        "output_buffer">>)
    BY <1>0, <1>g, <1>12, <1>13, <1>14, <1>15, ThreeArguments DEF n, s
  <2>2. s[16].op = "launch"
    BY <1>16 DEF RangeKernel
  <2>3. Static(p, "exec_local") = Captured(s[16], After(p)[15].kernels)
    BY <2>2, <1>exec_local DEF Static, Submitted, s, R
  <2> QED
    BY <2>1, <2>3, <1>16, KernelLaunched
<1>static_read_local. Static(p, "read_local") =
      Transfer("read_local", "output_buffer", "output", {"exec_local"})
  <2>1. s[17].op = "enqueue"
    BY <1>17 DEF Transfer, TransferRect, Command
  <2> QED
    BY <2>1, <1>17, <1>read_local DEF Static, Submitted, s, R
<1>x. \A e \in DOMAIN R : Executable(Static(p, e))
  <2>build. Executable(Static(p, "build"))
    BY <1>static_build DEF Executable, Idle, Build, Command
  <2>write. Executable(Static(p, "write"))
    BY <1>static_write DEF Executable, Moves, Transfer, TransferRect, Command, Whole,
      Names, HostArrays, Arrays
  <2>exec_naive. Executable(Static(p, "exec_naive"))
    <3>1. "buffer" \in Names /\ "output_buffer" \in Names
      BY DEF Names, Arrays
    <3> QED
      BY <1>static_exec_naive, <3>1, TwoComputes
  <2>read_naive. Executable(Static(p, "read_naive"))
    BY <1>static_read_naive DEF Executable, Moves, Transfer, TransferRect, Command, Whole,
      Names, HostArrays, Arrays
  <2>exec_local. Executable(Static(p, "exec_local"))
    <3>1. "buffer" \in Names /\ "local_memory" \in Names /\ "output_buffer" \in Names
      BY DEF Names, Arrays
    <3> QED
      BY <1>static_exec_local, <3>1, ThreeComputes
  <2>read_local. Executable(Static(p, "read_local"))
    BY <1>static_read_local DEF Executable, Moves, Transfer, TransferRect, Command, Whole,
      Names, HostArrays, Arrays
  <2> QED
    BY <1>a, <2>build, <2>write, <2>exec_naive, <2>read_naive, <2>exec_local,
      <2>read_local
<1>f. \A e, f \in DOMAIN R : PairScheduled(p, e, f)
  <2>1. Idle(Static(p, "build"))
    BY <1>static_build DEF Idle, Build, Command
  <2>build. \A f \in DOMAIN R : PairScheduled(p, "build", f)
    BY <2>1, IdleConflicts, <1>a, <1>build, <1>write, <1>exec_naive, <1>read_naive,
      <1>exec_local, <1>read_local DEF PairScheduled, R
  <2>write. \A f \in DOMAIN R : PairScheduled(p, "write", f)
    BY <2>1, IdleConflicts, <1>a, <1>build, <1>write, <1>exec_naive, <1>read_naive,
      <1>exec_local, <1>read_local DEF PairScheduled, R
  <2>exec_naive. \A f \in DOMAIN R : PairScheduled(p, "exec_naive", f)
    BY <2>1, IdleConflicts, <1>a, <1>build, <1>write, <1>exec_naive, <1>read_naive,
      <1>exec_local, <1>read_local DEF PairScheduled, R
  <2>read_naive. \A f \in DOMAIN R : PairScheduled(p, "read_naive", f)
    BY <2>1, IdleConflicts, <1>a, <1>build, <1>write, <1>exec_naive, <1>read_naive,
      <1>exec_local, <1>read_local DEF PairScheduled, R
  <2>exec_local. \A f \in DOMAIN R : PairScheduled(p, "exec_local", f)
    BY <2>1, IdleConflicts, <1>a, <1>build, <1>write, <1>exec_naive, <1>read_naive,
      <1>exec_local, <1>read_local DEF PairScheduled, R
  <2>read_local. \A f \in DOMAIN R : PairScheduled(p, "read_local", f)
    BY <2>1, IdleConflicts, <1>a, <1>build, <1>write, <1>exec_naive, <1>read_naive,
      <1>exec_local, <1>read_local DEF PairScheduled, R
  <2> QED
    BY <1>a, <2>build, <2>write, <2>exec_naive, <2>read_naive, <2>exec_local,
      <2>read_local
<1> QED
  BY <1>0, <1>c, <1>d, <1>e, <1>f, <1>g, <1>x DEF Scheduled, n, s, R

LEMMA ApplicationMatmulScheduled == Scheduled("application_matmul")
<1> DEFINE p == "application_matmul"
           s == Steps(p)
           n == Len(s)
           R == Schedule(p)
<1> USE DEF Steps, application_matmul, CreateKernel, SetArguments, Synchronously,
    Transfer, TransferRect, Command
<1>0. DOMAIN s = 1 .. 29 /\ n = 29
  OBVIOUS
<1>1. s[1] = Build("matmul_build")
  OBVIOUS
<1>2. s[2] = Build("transpose_build")
  OBVIOUS
<1>3. s[3] = Transfer("write_A", "input_A", "A_buffer", {})
  OBVIOUS
<1>4. s[4] = Transfer("write_B", "input_B", "B_buffer", {})
  OBVIOUS
<1>5. s[5] = WaitFor({"matmul_build"})
  OBVIOUS
<1>6. s[6] = [op |-> "create_kernel", kernel |-> "naive", run |-> "matmul_naive"]
  OBVIOUS
<1>7. s[7] = SetArgument("naive", 1, "A_buffer")
  OBVIOUS
<1>8. s[8] = SetArgument("naive", 2, "B_buffer")
  OBVIOUS
<1>9. s[9] = SetArgument("naive", 3, "output_buffer")
  OBVIOUS
<1>10. s[10] = RangeKernel("exec_naive", "naive", {"write_A", "write_B"})
  OBVIOUS
<1>11. s[11] = Transfer("read_naive", "output_buffer", "output_naive", {"exec_naive"})
  OBVIOUS
<1>12. s[12] = WaitFor({"read_naive"})
  OBVIOUS
<1>13. s[13] = Profile("exec_naive")
  OBVIOUS
<1>14. s[14] = WaitFor({"transpose_build"})
  OBVIOUS
<1>15. s[15] = [op |-> "create_kernel", kernel |-> "local", run |-> "transpose_local"]
  OBVIOUS
<1>16. s[16] = SetArgument("local", 1, "B_buffer")
  OBVIOUS
<1>17. s[17] = SetArgument("local", 2, "local_memory")
  OBVIOUS
<1>18. s[18] = SetArgument("local", 3, "transposed_B_buffer")
  OBVIOUS
<1>19. s[19] = RangeKernel("exec_local", "local", {"write_B"})
  OBVIOUS
<1>20. s[20] = WaitFor({"matmul_build"})
  OBVIOUS
<1>21. s[21] = [op |-> "create_kernel", kernel |-> "optimized", run |-> "matmul_transpose"]
  OBVIOUS
<1>22. s[22] = SetArgument("optimized", 1, "A_buffer")
  OBVIOUS
<1>23. s[23] = SetArgument("optimized", 2, "transposed_B_buffer")
  OBVIOUS
<1>24. s[24] = SetArgument("optimized", 3, "output_buffer")
  OBVIOUS
<1>25. s[25] = RangeKernel("exec_optimized", "optimized", {"write_A", "exec_local"})
  OBVIOUS
<1>26. s[26] = Transfer("read", "output_buffer", "output", {"exec_optimized"})
  OBVIOUS
<1>27. s[27] = WaitFor({"read"})
  OBVIOUS
<1>28. s[28] = Profile("exec_optimized")
  OBVIOUS
<1>29. s[29] = Check({"output_naive", "output"})
  OBVIOUS
<1> HIDE DEF Steps, application_matmul, CreateKernel, SetArguments, Synchronously,
    Transfer, TransferRect, Command
<1>a. DOMAIN R = {"matmul_build", "transpose_build", "write_A", "write_B", "exec_naive",
        "read_naive", "exec_local", "exec_optimized", "read"}
  BY DEF Schedule
<1>matmul_build. R["matmul_build"].at = 1 /\ R["matmul_build"].after = {}
  BY DEF Schedule
<1>transpose_build. R["transpose_build"].at = 2 /\ R["transpose_build"].after = {}
  BY DEF Schedule
<1>write_A. R["write_A"].at = 3 /\ R["write_A"].after = {}
  BY DEF Schedule
<1>write_B. R["write_B"].at = 4 /\ R["write_B"].after = {}
  BY DEF Schedule
<1>exec_naive. R["exec_naive"].at = 10 /\ R["exec_naive"].after = {"matmul_build",
        "write_A", "write_B"}
  BY DEF Schedule
<1>read_naive. R["read_naive"].at = 11 /\ R["read_naive"].after = {"matmul_build",
        "write_A", "write_B", "exec_naive"}
  BY DEF Schedule
<1>exec_local. R["exec_local"].at = 19 /\ R["exec_local"].after = {"matmul_build",
        "transpose_build", "write_A", "write_B", "exec_naive", "read_naive"}
  BY DEF Schedule
<1>exec_optimized. R["exec_optimized"].at = 25 /\ R["exec_optimized"].after =
        {"matmul_build", "transpose_build", "write_A", "write_B", "exec_naive",
        "read_naive", "exec_local"}
  BY DEF Schedule
<1>read. R["read"].at = 26 /\ R["read"].after = {"matmul_build", "transpose_build",
        "write_A", "write_B", "exec_naive", "read_naive", "exec_local", "exec_optimized"}
  BY DEF Schedule
<1> HIDE DEF s, n, R
<1>b. AllAwaited(p, 29)
  BY <1>a, <1>matmul_build, <1>transpose_build, <1>write_A, <1>write_B, <1>exec_naive,
    <1>read_naive, <1>exec_local, <1>exec_optimized, <1>read, <1>5, <1>12, <1>14, <1>20,
    <1>27
  DEF AllAwaited, EventsBefore, Awaited, Covered, s, R, WaitFor
<1>c. AllSettled(p, n + 1)
  BY <1>0, <1>a, <1>matmul_build, <1>transpose_build, <1>write_A, <1>write_B,
    <1>exec_naive, <1>read_naive, <1>exec_local, <1>exec_optimized, <1>read, <1>5,
    <1>12, <1>14, <1>20, <1>27
  DEF AllSettled, EventsBefore, Awaited, Covered, s, R, WaitFor
<1>d. \A i \in 1 .. n : StepScheduled(p, i)
  <2>0. \A i \in {6, 7, 8, 9, 13, 15, 16, 17, 18, 21, 22, 23, 24, 28} : StepScheduled(p, i)
    BY <1>6, <1>7, <1>8, <1>9, <1>13, <1>15, <1>16, <1>17, <1>18, <1>21, <1>22, <1>23,
      <1>24, <1>28 DEF StepScheduled, s, Profile, SetArgument
  <2>1. StepScheduled(p, 1)
    BY <1>1, <1>a, <1>matmul_build DEF StepScheduled, s, R, Build, Command
  <2>2. StepScheduled(p, 2)
    BY <1>2, <1>a, <1>transpose_build DEF StepScheduled, s, R, Build, Command
  <2>3. StepScheduled(p, 3)
    BY <1>3, <1>a, <1>write_A DEF StepScheduled, s, R, Transfer, TransferRect, Command
  <2>4. StepScheduled(p, 4)
    BY <1>4, <1>a, <1>write_B DEF StepScheduled, s, R, Transfer, TransferRect, Command
  <2>5. StepScheduled(p, 5)
    BY <1>5, <1>a, <1>matmul_build DEF StepScheduled, s, R, WaitFor, EventsBefore
  <2>10. StepScheduled(p, 10)
    BY <1>10, <1>a, <1>exec_naive DEF StepScheduled, s, R, RangeKernel
  <2>11. StepScheduled(p, 11)
    BY <1>11, <1>a, <1>read_naive DEF StepScheduled, s, R, Transfer, TransferRect, Command
  <2>12. StepScheduled(p, 12)
    BY <1>12, <1>a, <1>read_naive DEF StepScheduled, s, R, WaitFor, EventsBefore
  <2>14. StepScheduled(p, 14)
    BY <1>14, <1>a, <1>transpose_build DEF StepScheduled, s, R, WaitFor, EventsBefore
  <2>19. StepScheduled(p, 19)
    BY <1>19, <1>a, <1>exec_local DEF StepScheduled, s, R, RangeKernel
  <2>20. StepScheduled(p, 20)
    BY <1>20, <1>a, <1>matmul_build DEF StepScheduled, s, R, WaitFor, EventsBefore
  <2>25. StepScheduled(p, 25)
    BY <1>25, <1>a, <1>exec_optimized DEF StepScheduled, s, R, RangeKernel
  <2>26. StepScheduled(p, 26)
    BY <1>26, <1>a, <1>read DEF StepScheduled, s, R, Transfer, TransferRect, Command
  <2>27. StepScheduled(p, 27)
    BY <1>27, <1>a, <1>read DEF StepScheduled, s, R, WaitFor, EventsBefore
  <2>29. StepScheduled(p, 29)
    BY <1>29, <1>b DEF StepScheduled, s, Check, Names, HostArrays, Arrays, AllSettled,
      AllAwaited
  <2> QED
    BY <1>0, <2>0, <2>1, <2>2, <2>3, <2>4, <2>5, <2>10, <2>11, <2>12, <2>14, <2>19,
      <2>20, <2>25, <2>26, <2>27, <2>29
<1>e. \A e \in DOMAIN R : EventScheduled(p, e)
  <2>matmul_build. EventScheduled(p, "matmul_build")
    <3>1. s[1].op \in {"enqueue", "launch"} /\ s[1].event = "matmul_build" /\ s[1].waits = {}
      BY <1>1 DEF Build, Command
    <3>2. 1 \in 1 .. n
      BY <1>0
    <3> QED
      BY <1>matmul_build, <3>1, <3>2, FirstEvent DEF s, R, n
  <2>transpose_build. EventScheduled(p, "transpose_build")
    <3>1. s[2].op \in {"enqueue", "launch"} /\ s[2].event = "transpose_build" /\ s[2].waits = {}
      BY <1>2 DEF Build, Command
    <3>2. 2 \in 1 .. n
      BY <1>0
    <3> QED
      BY <1>transpose_build, <3>1, <3>2, FirstEvent DEF s, R, n
  <2>write_A. EventScheduled(p, "write_A")
    <3>1. s[3].op \in {"enqueue", "launch"} /\ s[3].event = "write_A" /\ s[3].waits = {}
      BY <1>3 DEF Transfer, TransferRect, Command
    <3>2. 3 \in 1 .. n
      BY <1>0
    <3> QED
      BY <1>write_A, <3>1, <3>2, FirstEvent DEF s, R, n
  <2>write_B. EventScheduled(p, "write_B")
    <3>1. s[4].op \in {"enqueue", "launch"} /\ s[4].event = "write_B" /\ s[4].waits = {}
      BY <1>4 DEF Transfer, TransferRect, Command
    <3>2. 4 \in 1 .. n
      BY <1>0
    <3> QED
      BY <1>write_B, <3>1, <3>2, FirstEvent DEF s, R, n
  <2>exec_naive. EventScheduled(p, "exec_naive")
    <3>1. Awaited(p, "matmul_build", 10)
      BY <1>5, <1>matmul_build DEF Awaited, Covered, s, R, WaitFor
    <3>2. \A f \in {"write_A", "write_B"} : Covered(p, f, s[10].waits)
      BY <1>10, <1>write_A, <1>write_B DEF Covered, s, R, RangeKernel
    <3>3. \A f \in R["exec_naive"].after : Covered(p, f, s[10].waits) \/ Awaited(p, f, 10)
      BY <1>exec_naive, <3>1, <3>2
    <3>4. R["exec_naive"].after \subseteq EventsBefore(p, 10)
      BY <1>a, <1>exec_naive, <1>matmul_build, <1>write_A, <1>write_B DEF EventsBefore, R
    <3>5. s[10].waits \subseteq EventsBefore(p, 10)
      BY <1>10, <1>a, <1>write_A, <1>write_B DEF EventsBefore, R, RangeKernel
    <3>6. R["exec_naive"].at = 10 /\ 10 \in 1 .. n
          /\ s[10].op \in {"enqueue", "launch"} /\ s[10].event = "exec_naive"
      BY <1>0, <1>10, <1>exec_naive DEF RangeKernel
    <3> QED
      BY <3>3, <3>4, <3>5, <3>6, LaterEvent DEF s, R, n
  <2>read_naive. EventScheduled(p, "read_naive")
    <3>1. \A f \in {"matmul_build", "write_A", "write_B", "exec_naive"} :
          Covered(p, f, s[11].waits)
      BY <1>11, <1>exec_naive DEF Covered, s, R, Transfer, TransferRect, Command
    <3>2. \A f \in R["read_naive"].after : Covered(p, f, s[11].waits)
      BY <1>read_naive, <3>1
    <3>3. R["read_naive"].after \subseteq EventsBefore(p, 11)
      BY <1>a, <1>read_naive, <1>matmul_build, <1>write_A, <1>write_B, <1>exec_naive
        DEF EventsBefore, R
    <3>4. s[11].waits \subseteq EventsBefore(p, 11)
      BY <1>11, <1>a, <1>exec_naive DEF EventsBefore, R, Transfer, TransferRect, Command
    <3>5. R["read_naive"].at = 11 /\ 11 \in 1 .. n
          /\ s[11].op \in {"enqueue", "launch"} /\ s[11].event = "read_naive"
      BY <1>0, <1>11, <1>read_naive DEF Transfer, TransferRect, Command
    <3> QED
      BY <3>2, <3>3, <3>4, <3>5, LaterEvent DEF s, R, n
  <2>exec_local. EventScheduled(p, "exec_local")
    <3>1. Awaited(p, "matmul_build", 19) /\ Awaited(p, "write_A", 19)
          /\ Awaited(p, "exec_naive", 19) /\ Awaited(p, "read_naive", 19)
      BY <1>12, <1>read_naive DEF Awaited, Covered, s, R, WaitFor
    <3>2. Awaited(p, "transpose_build", 19)
      BY <1>14, <1>transpose_build DEF Awaited, Covered, s, R, WaitFor
    <3>3. \A f \in {"write_B"} : Covered(p, f, s[19].waits)
      BY <1>19, <1>write_B DEF Covered, s, R, RangeKernel
    <3>4. \A f \in R["exec_local"].after : Covered(p, f, s[19].waits) \/ Awaited(p, f, 19)
      BY <1>exec_local, <3>1, <3>2, <3>3
    <3>5. R["exec_local"].after \subseteq EventsBefore(p, 19)
      BY <1>a, <1>exec_local, <1>matmul_build, <1>transpose_build, <1>write_A,
        <1>write_B, <1>exec_naive, <1>read_naive DEF EventsBefore, R
    <3>6. s[19].waits \subseteq EventsBefore(p, 19)
      BY <1>19, <1>a, <1>write_B DEF EventsBefore, R, RangeKernel
    <3>7. R["exec_local"].at = 19 /\ 19 \in 1 .. n
          /\ s[19].op \in {"enqueue", "launch"} /\ s[19].event = "exec_local"
      BY <1>0, <1>19, <1>exec_local DEF RangeKernel
    <3> QED
      BY <3>4, <3>5, <3>6, <3>7, LaterEvent DEF s, R, n
  <2>exec_optimized. EventScheduled(p, "exec_optimized")
    <3>1. \A f \in {"matmul_build", "transpose_build", "write_A", "write_B", "exec_naive",
          "read_naive", "exec_local"} : Covered(p, f, s[25].waits)
      BY <1>25, <1>write_A, <1>exec_local DEF Covered, s, R, RangeKernel
    <3>2. \A f \in R["exec_optimized"].after : Covered(p, f, s[25].waits)
      BY <1>exec_optimized, <3>1
    <3>3. R["exec_optimized"].after \subseteq EventsBefore(p, 25)
      BY <1>a, <1>exec_optimized, <1>matmul_build, <1>transpose_build, <1>write_A,
        <1>write_B, <1>exec_naive, <1>read_naive, <1>exec_local DEF EventsBefore, R
    <3>4. s[25].waits \subseteq EventsBefore(p, 25)
      BY <1>25, <1>a, <1>write_A, <1>exec_local DEF EventsBefore, R, RangeKernel
    <3>5. R["exec_optimized"].at = 25 /\ 25 \in 1 .. n
          /\ s[25].op \in {"enqueue", "launch"} /\ s[25].event = "exec_optimized"
      BY <1>0, <1>25, <1>exec_optimized DEF RangeKernel
    <3> QED
      BY <3>2, <3>3, <3>4, <3>5, LaterEvent DEF s, R, n
  <2>read. EventScheduled(p, "read")
    <3>1. \A f \in {"matmul_build", "transpose_build", "write_A", "write_B", "exec_naive",
          "read_naive", "exec_local", "exec_optimized"} : Covered(p, f, s[26].waits)
      BY <1>26, <1>exec_optimized DEF Covered, s, R, Transfer, TransferRect, Command
    <3>2. \A f \in R["read"].after : Covered(p, f, s[26].waits)
      BY <1>read, <3>1
    <3>3. R["read"].after \subseteq EventsBefore(p, 26)
      BY <1>a, <1>read, <1>matmul_build, <1>transpose_build, <1>write_A, <1>write_B,
        <1>exec_naive, <1>read_naive, <1>exec_local, <1>exec_optimized DEF EventsBefore, R
    <3>4. s[26].waits \subseteq EventsBefore(p, 26)
      BY <1>26, <1>a, <1>exec_optimized DEF EventsBefore, R, Transfer, TransferRect, Command
    <3>5. R["read"].at = 26 /\ 26 \in 1 .. n
          /\ s[26].op \in {"enqueue", "launch"} /\ s[26].event = "read"
      BY <1>0, <1>26, <1>read DEF Transfer, TransferRect, Command
    <3> QED
      BY <3>2, <3>3, <3>4, <3>5, LaterEvent DEF s, R, n
  <2> QED
    BY <1>a, <2>matmul_build, <2>transpose_build, <2>write_A, <2>write_B, <2>exec_naive,
      <2>read_naive, <2>exec_local, <2>exec_optimized, <2>read
<1>g. n \in Nat
  BY <1>0
<1>static_matmul_build. Static(p, "matmul_build") = Build("matmul_build")
  <2>1. s[1].op = "enqueue"
    BY <1>1 DEF Build, Command
  <2> QED
    BY <2>1, <1>1, <1>matmul_build DEF Static, Submitted, s, R
<1>static_transpose_build. Static(p, "transpose_build") = Build("transpose_build")
  <2>1. s[2].op = "enqueue"
    BY <1>2 DEF Build, Command
  <2> QED
    BY <2>1, <1>2, <1>transpose_build DEF Static, Submitted, s, R
<1>static_write_A. Static(p, "write_A") = Transfer("write_A", "input_A", "A_buffer", {})
  <2>1. s[3].op = "enqueue"
    BY <1>3 DEF Transfer, TransferRect, Command
  <2> QED
    BY <2>1, <1>3, <1>write_A DEF Static, Submitted, s, R
<1>static_write_B. Static(p, "write_B") = Transfer("write_B", "input_B", "B_buffer", {})
  <2>1. s[4].op = "enqueue"
    BY <1>4 DEF Transfer, TransferRect, Command
  <2> QED
    BY <2>1, <1>4, <1>write_B DEF Static, Submitted, s, R
<1>static_exec_naive. Static(p, "exec_naive") =
      Command("exec_naive", "matmul_naive", <<"A_buffer", "B_buffer", "output_buffer">>,
        Whole, {"write_A", "write_B"})
  <2>1. Has(After(p)[9].kernels, "naive", "matmul_naive", <<"A_buffer", "B_buffer",
        "output_buffer">>)
    BY <1>0, <1>g, <1>6, <1>7, <1>8, <1>9, ThreeArguments DEF n, s
  <2>2. s[10].op = "launch"
    BY <1>10 DEF RangeKernel
  <2>3. Static(p, "exec_naive") = Captured(s[10], After(p)[9].kernels)
    BY <2>2, <1>exec_naive DEF Static, Submitted, s, R
  <2> QED
    BY <2>1, <2>3, <1>10, KernelLaunched
<1>static_read_naive. Static(p, "read_naive") =
      Transfer("read_naive", "output_buffer", "output_naive", {"exec_naive"})
  <2>1. s[11].op = "enqueue"
    BY <1>11 DEF Transfer, TransferRect, Command
  <2> QED
    BY <2>1, <1>11, <1>read_naive DEF Static, Submitted, s, R
<1>static_exec_local. Static(p, "exec_local") =
      Command("exec_local", "transpose_local", <<"B_buffer", "local_memory",
        "transposed_B_buffer">>, Whole, {"write_B"})
  <2>1. Has(After(p)[18].kernels, "local", "transpose_local", <<"B_buffer", "local_memory",
        "transposed_B_buffer">>)
    BY <1>0, <1>g, <1>15, <1>16, <1>17, <1>18, ThreeArguments DEF n, s
  <2>2. s[19].op = "launch"
    BY <1>19 DEF RangeKernel
  <2>3. Static(p, "exec_local") = Captured(s[19], After(p)[18].kernels)
    BY <2>2, <1>exec_local DEF Static, Submitted, s, R
  <2> QED
    BY <2>1, <2>3, <1>19, KernelLaunched
<1>static_exec_optimized. Static(p, "exec_optimized") =
      Command("exec_optimized", "matmul_transpose", <<"A_buffer", "transposed_B_buffer",
        "output_buffer">>, Whole, {"write_A", "exec_local"})
  <2>1. Has(After(p)[24].kernels, "optimized", "matmul_transpose", <<"A_buffer",
        "transposed_B_buffer", "output_buffer">>)
    BY <1>0, <1>g, <1>21, <1>22, <1>23, <1>24, ThreeArguments DEF n, s
  <2>2. s[25].op = "launch"
    BY <1>25 DEF RangeKernel
  <2>3. Static(p, "exec_optimized") = Captured(s[25], After(p)[24].kernels)
    BY <2>2, <1>exec_optimized DEF Static, Submitted, s, R
  <2> QED
    BY <2>1, <2>3, <1>25, KernelLaunched
<1>static_read. Static(p, "read") =
      Transfer("read", "output_buffer", "output", {"exec_optimized"})
  <2>1. s[26].op = "enqueue"
    BY <1>26 DEF Transfer, TransferRect, Command
  <2> QED
    BY <2>1, <1>26, <1>read DEF Static, Submitted, s, R
<1>x. \A e \in DOMAIN R : Executable(Static(p, e))
  <2>matmul_build. Executable(Static(p, "matmul_build"))
    BY <1>static_matmul_build DEF Executable, Idle, Build, Command
  <2>transpose_build. Executable(Static(p, "transpose_build"))
    BY <1>static_transpose_build DEF Executable, Idle, Build, Command
  <2>write_A. Executable(Static(p, "write_A"))
    BY <1>static_write_A DEF Executable, Moves, Transfer, TransferRect, Command, Whole,
      Names, HostArrays, Arrays
  <2>write_B. Executable(Static(p, "write_B"))
    BY <1>static_write_B DEF Executable, Moves, Transfer, TransferRect, Command, Whole,
      Names, HostArrays, Arrays
  <2>exec_naive. Executable(Static(p, "exec_naive"))
    <3>1. "A_buffer" \in Names /\ "B_buffer" \in Names /\ "output_buffer" \in Names
      BY DEF Names, Arrays
    <3> QED
      BY <1>static_exec_naive, <3>1, ThreeComputes
  <2>read_naive. Executable(Static(p, "read_naive"))
    BY <1>static_read_naive DEF Executable, Moves, Transfer, TransferRect, Command, Whole,
      Names, HostArrays, Arrays
  <2>exec_local. Executable(Static(p, "exec_local"))
    <3>1. "B_buffer" \in Names /\ "local_memory" \in Names /\ "transposed_B_buffer" \in Names
      BY DEF Names, Arrays
    <3> QED
      BY <1>static_exec_local, <3>1, ThreeComputes
  <2>exec_optimized. Executable(Static(p, "exec_optimized"))
    <3>1. "A_buffer" \in Names /\ "transposed_B_buffer" \in Names /\ "output_buffer" \in Names
      BY DEF Names, Arrays
    <3> QED
      BY <1>static_exec_optimized, <3>1, ThreeComputes
  <2>read. Executable(Static(p, "read"))
    BY <1>static_read DEF Executable, Moves, Transfer, TransferRect, Command, Whole, Names,
      HostArrays, Arrays
  <2> QED
    BY <1>a, <2>matmul_build, <2>transpose_build, <2>write_A, <2>write_B, <2>exec_naive,
      <2>read_naive, <2>exec_local, <2>exec_optimized, <2>read
<1>f. \A e, f \in DOMAIN R : PairScheduled(p, e, f)
  <2>1. Idle(Static(p, "matmul_build"))
    BY <1>static_matmul_build DEF Idle, Build, Command
  <2>2. Idle(Static(p, "transpose_build"))
    BY <1>static_transpose_build DEF Idle, Build, Command
  <2>9. ~Conflict(Static(p, "write_A"), Static(p, "write_B"))
        /\ ~Conflict(Static(p, "write_B"), Static(p, "write_A"))
    BY <1>static_write_A, <1>static_write_B, TransfersApart
  <2>matmul_build. \A f \in DOMAIN R : PairScheduled(p, "matmul_build", f)
    BY <2>1, <2>2, IdleConflicts, <1>a, <1>matmul_build, <1>transpose_build, <1>write_A,
      <1>write_B, <1>exec_naive, <1>read_naive, <1>exec_local, <1>exec_optimized,
      <1>read DEF PairScheduled, R
  <2>transpose_build. \A f \in DOMAIN R : PairScheduled(p, "transpose_build", f)
    BY <2>1, <2>2, IdleConflicts, <1>a, <1>matmul_build, <1>transpose_build, <1>write_A,
      <1>write_B, <1>exec_naive, <1>read_naive, <1>exec_local, <1>exec_optimized,
      <1>read DEF PairScheduled, R
  <2>write_A. \A f \in DOMAIN R : PairScheduled(p, "write_A", f)
    BY <2>1, <2>2, IdleConflicts, <2>9, <1>a, <1>matmul_build, <1>transpose_build,
      <1>write_A, <1>write_B, <1>exec_naive, <1>read_naive, <1>exec_local,
      <1>exec_optimized, <1>read DEF PairScheduled, R
  <2>write_B. \A f \in DOMAIN R : PairScheduled(p, "write_B", f)
    BY <2>1, <2>2, IdleConflicts, <2>9, <1>a, <1>matmul_build, <1>transpose_build,
      <1>write_A, <1>write_B, <1>exec_naive, <1>read_naive, <1>exec_local,
      <1>exec_optimized, <1>read DEF PairScheduled, R
  <2>exec_naive. \A f \in DOMAIN R : PairScheduled(p, "exec_naive", f)
    BY <2>1, <2>2, IdleConflicts, <1>a, <1>matmul_build, <1>transpose_build, <1>write_A,
      <1>write_B, <1>exec_naive, <1>read_naive, <1>exec_local, <1>exec_optimized,
      <1>read DEF PairScheduled, R
  <2>read_naive. \A f \in DOMAIN R : PairScheduled(p, "read_naive", f)
    BY <2>1, <2>2, IdleConflicts, <1>a, <1>matmul_build, <1>transpose_build, <1>write_A,
      <1>write_B, <1>exec_naive, <1>read_naive, <1>exec_local, <1>exec_optimized,
      <1>read DEF PairScheduled, R
  <2>exec_local. \A f \in DOMAIN R : PairScheduled(p, "exec_local", f)
    BY <2>1, <2>2, IdleConflicts, <1>a, <1>matmul_build, <1>transpose_build, <1>write_A,
      <1>write_B, <1>exec_naive, <1>read_naive, <1>exec_local, <1>exec_optimized,
      <1>read DEF PairScheduled, R
  <2>exec_optimized. \A f \in DOMAIN R : PairScheduled(p, "exec_optimized", f)
    BY <2>1, <2>2, IdleConflicts, <1>a, <1>matmul_build, <1>transpose_build, <1>write_A,
      <1>write_B, <1>exec_naive, <1>read_naive, <1>exec_local, <1>exec_optimized,
      <1>read DEF PairScheduled, R
  <2>read. \A f \in DOMAIN R : PairScheduled(p, "read", f)
    BY <2>1, <2>2, IdleConflicts, <1>a, <1>matmul_build, <1>transpose_build, <1>write_A,
      <1>write_B, <1>exec_naive, <1>read_naive, <1>exec_local, <1>exec_optimized,
      <1>read DEF PairScheduled, R
  <2> QED
    BY <1>a, <2>matmul_build, <2>transpose_build, <2>write_A, <2>write_B, <2>exec_naive,
      <2>read_naive, <2>exec_local, <2>exec_optimized, <2>read
<1> QED
  BY <1>0, <1>c, <1>d, <1>e, <1>f, <1>g, <1>x DEF Scheduled, n, s, R

-----------------------------------------------------------------------------
\* All the programs are scheduled so.
LEMMA AllScheduled == \A p \in Programs : Scheduled(p)
BY BufferReadwriteScheduled, BufferCopyScheduled, BufferFillMapScheduled,
  BufferRectangleScheduled, KernelExecutionScheduled, EventProfilingScheduled,
  ApplicationMatmulScheduled DEF Programs

\* Commands are submitted by steps.
LEMMA SchedulePositive ==
  ASSUME NEW p \in Programs, NEW e \in DOMAIN Schedule(p)
  PROVE  Schedule(p)[e].at \in 1 .. Len(Steps(p)) /\ Schedule(p)[e].at \in Int
<1>1. EventScheduled(p, e) /\ Len(Steps(p)) \in Nat
  BY AllScheduled DEF Scheduled
<1> QED
  BY <1>1 DEF EventScheduled

\* What is submitted waits for what the step says.
LEMMA StaticWaits ==
  ASSUME NEW p, NEW e
  PROVE  Static(p, e).waits = Submitted(p, e).waits
BY DEF Static, Captured, Command

-----------------------------------------------------------------------------
(* The invariant of a run. *)

Known ==
  /\ program \in Programs /\ step \in 1 .. Len(Steps(program)) + 1
  /\ host \in {"running", "returned", "aborted", "threw"}
  /\ host = "returned" => step = Len(Steps(program)) + 1

\* What is enqueued is what the steps taken so far submit.
Entry(e) ==
  /\ cmds[e] = [command |-> cmds[e].command, status |-> cmds[e].status]
  /\ cmds[e].status \in {"queued", "running", "complete", "failed"}
  /\ cmds[e].command = Static(program, e)

Enqueued ==
  /\ Events = EventsBefore(program, step) /\ \A e \in Events : Entry(e)
  /\ kernels = After(program)[step - 1].kernels

\* The host has got past the waits and the calls to finish() behind it.
Waited ==
  \A i \in 1 .. step - 1 :
    Steps(program)[i].op = "wait" =>
      \A e \in Steps(program)[i].events : e \in Events /\ Status(e) = "complete"

Finished ==
  \A i \in 1 .. step - 1 :
    Steps(program)[i].op = "finish" => \A e \in EventsBefore(program, i) : Settled(e)

\* A command has only run after those that the schedule puts before it.
Ordered ==
  \A e \in Events :
    Status(e) \in {"running", "complete"} =>
      \A f \in Schedule(program)[e].after : f \in Events /\ Status(f) = "complete"

PipeInv == Known /\ Enqueued /\ Waited /\ Finished /\ Ordered

\* Init.
LEMMA PipeInvInit == (\E p \in Examples : PipeInit(p)) => PipeInv
<1> SUFFICES ASSUME NEW p \in Examples, PipeInit(p) PROVE PipeInv
  OBVIOUS
<1>1. program = p /\ step = 1 /\ host = "running" /\ cmds = <<>> /\ p \in Programs
  BY PipelinesAssumption DEF PipeInit, Programs
<1>2. Len(Steps(p)) \in Nat
  BY <1>1, AllScheduled DEF Scheduled
<1>3. Known
  BY <1>1, <1>2 DEF Known
<1>4. Events = {}
  BY <1>1 DEF Events
<1>5. EventsBefore(p, 1) = {}
  BY <1>1, SchedulePositive DEF EventsBefore
<1>6. Waited /\ Finished
  BY <1>1 DEF Waited, Finished
<1>7. kernels = After(p)[1 - 1].kernels
  <2>1. After(p)[0].kernels = <<>> /\ 1 - 1 = 0
    <3>1. After(p)[0] = [mem |-> InitialMemory(p), kernels |-> <<>>]
      BY <1>2, AfterIs
    <3> QED
      BY <3>1
  <2> QED
    BY <2>1 DEF PipeInit
<1> QED
  BY <1>1, <1>3, <1>4, <1>5, <1>6, <1>7 DEF PipeInv, Enqueued, Ordered

\* A step that submits nothing leaves the events before the next one as they are.
LEMMA NoSubmission ==
  ASSUME Known, step \in DOMAIN Steps(program),
         Steps(program)[step].op \notin {"enqueue", "launch"}
  PROVE  EventsBefore(program, step + 1) = EventsBefore(program, step)
<1>1. program \in Programs /\ step \in Int
  BY DEF Known
<1>2. ASSUME NEW e \in DOMAIN Schedule(program) PROVE Schedule(program)[e].at # step
  BY <1>1, AllScheduled DEF Scheduled, EventScheduled
<1>3. \A e \in DOMAIN Schedule(program) : Schedule(program)[e].at \in Int
  BY <1>1, SchedulePositive
<1> QED
  BY <1>1, <1>2, <1>3 DEF EventsBefore

\* The host takes a step that submits nothing, or stops.
LEMMA HostInv ==
  ASSUME PipeInv, UNCHANGED <<program, cmds>>, step \in DOMAIN Steps(program),
         Steps(program)[step].op \notin {"enqueue", "launch"},
         Advance \/ (\E how \in {"aborted", "threw"} : Stop(how)),
         Advance => kernels' = After(program)[step].kernels, step' = step => UNCHANGED kernels,
         Advance /\ Steps(program)[step].op = "wait" =>
           \A e \in Steps(program)[step].events : e \in Events /\ Status(e) = "complete",
         Advance /\ Steps(program)[step].op = "finish" =>
           \A e \in EventsBefore(program, step) : Settled(e)
  PROVE  PipeInv'
<1>1. program \in Programs /\ step \in Int /\ DOMAIN Steps(program) = 1 .. Len(Steps(program))
      /\ Len(Steps(program)) \in Nat
  BY AllScheduled DEF PipeInv, Known, Scheduled
<1>2. Known'
  BY <1>1 DEF PipeInv, Known, Advance, Stop
<1>3. step' = step \/ step' = step + 1
  BY DEF Advance, Stop
<1>4. Enqueued'
  <2>1. Events' = EventsBefore(program, step')
    BY <1>3, NoSubmission DEF PipeInv, Enqueued, Events
  <2>2. \A e \in Events' : Entry(e)'
    BY DEF PipeInv, Enqueued, Entry, Events
  <2>3. kernels' = After(program)[step' - 1].kernels
    BY <1>1 DEF PipeInv, Enqueued, Advance, Stop
  <2> QED
    BY <2>1, <2>2, <2>3 DEF Enqueued
<1>5. Ordered'
  BY DEF PipeInv, Ordered, Events, Status
<1>6. CASE Advance
  <2>1. step' = step + 1
    BY <1>6 DEF Advance
  <2>2. Waited'
    <3> SUFFICES ASSUME NEW i \in 1 .. step, Steps(program)[i].op = "wait",
                        NEW e \in Steps(program)[i].events
                 PROVE  e \in Events /\ Status(e) = "complete"
      BY <1>1, <2>1 DEF Waited, Events, Status
    <3>1. CASE i = step
      BY <1>6, <3>1
    <3>2. CASE i # step
      <4>1. i \in 1 .. step - 1
        BY <1>1, <3>2
      <4> QED
        BY <4>1 DEF PipeInv, Waited
    <3> QED
      BY <3>1, <3>2
  <2>3. Finished'
    BY <1>1, <1>6, <2>1 DEF PipeInv, Finished, Settled, Status
  <2> QED
    BY <1>2, <1>4, <1>5, <2>2, <2>3 DEF PipeInv
<1>7. CASE step' = step
  BY <1>2, <1>4, <1>5, <1>7 DEF PipeInv, Waited, Finished, Events, Settled, Status
<1> QED
  BY <1>6, <1>7 DEF Advance, Stop

\* The host enqueues a command, or begins a build.
LEMMA SubmitInv ==
  ASSUME PipeInv, step \in DOMAIN Steps(program),
         Steps(program)[step].op \in {"enqueue", "launch"},
         NEW command, Submit(command), command.event = Steps(program)[step].event,
         command = IF Steps(program)[step].op = "enqueue" THEN Steps(program)[step]
                   ELSE Captured(Steps(program)[step], kernels)
  PROVE  PipeInv'
<1> DEFINE d == command.event
<1>1. program \in Programs /\ step \in Int /\ DOMAIN Steps(program) = 1 .. Len(Steps(program))
      /\ Len(Steps(program)) \in Nat /\ StepScheduled(program, step)
  BY AllScheduled DEF PipeInv, Known, Scheduled
<1>2. d \in DOMAIN Schedule(program) /\ Schedule(program)[d].at = step
  BY <1>1 DEF StepScheduled
<1>3. \A e \in DOMAIN Schedule(program) :
        Schedule(program)[e].at \in Int /\ (Schedule(program)[e].at = step => e = d)
  BY <1>1, SchedulePositive, AllScheduled DEF Scheduled, EventScheduled
<1>4. program' = program /\ step' = step + 1 /\ host' = host
  BY DEF Submit, Advance
<1>5. d \notin Events /\ Events = EventsBefore(program, step)
  BY <1>2, <1>1 DEF PipeInv, Enqueued, EventsBefore
<1>6. /\ Events' = Events \cup {d}
      /\ cmds'[d] = [command |-> command, status |-> "queued"]
      /\ \A e \in Events : cmds'[e] = cmds[e]
  BY <1>5 DEF Submit, With, Events
<1>7. EventsBefore(program, step + 1) = EventsBefore(program, step) \cup {d}
  BY <1>1, <1>2, <1>3 DEF EventsBefore
<1> HIDE DEF d
<1>8. Known'
  <2>1. host # "returned"
    BY <1>1 DEF PipeInv, Known
  <2> QED
    BY <1>1, <1>4, <2>1 DEF PipeInv, Known
<1>9. Enqueued'
  <2>1. Entry(d)'
    <3>1. command = Static(program, d)
      BY <1>2 DEF Static, Submitted, PipeInv, Enqueued
    <3> QED
      BY <1>4, <1>6, <3>1 DEF Entry
  <2>2. ASSUME NEW e \in Events PROVE Entry(e)'
    BY <1>4, <1>6 DEF PipeInv, Enqueued, Entry
  <2>3. kernels' = After(program')[step' - 1].kernels
    <3>1. After(program)[step].kernels = After(program)[step - 1].kernels
      BY <1>1, AfterStep
    <3>2. step' - 1 = step /\ program' = program
      BY <1>1, <1>4
    <3> QED
      BY <3>1, <3>2 DEF Submit, PipeInv, Enqueued
  <2>4. Events' = EventsBefore(program', step')
    BY <1>4, <1>5, <1>6, <1>7
  <2>5. \A e \in Events' : Entry(e)'
    BY <1>6, <2>1, <2>2
  <2> QED
    BY <2>3, <2>4, <2>5 DEF Enqueued
<1>10. Waited'
  <2> SUFFICES ASSUME NEW i \in 1 .. step, Steps(program)[i].op = "wait",
                      NEW e \in Steps(program)[i].events
               PROVE  e \in Events' /\ cmds'[e].status = "complete"
    BY <1>1, <1>4 DEF Waited, Status
  <2>1. i \in 1 .. step - 1
    BY <1>1
  <2> QED
    BY <2>1, <1>6 DEF PipeInv, Waited, Status
<1>11. Finished'
  <2> SUFFICES ASSUME NEW i \in 1 .. step, Steps(program)[i].op = "finish",
                      NEW e \in EventsBefore(program, i)
               PROVE  cmds'[e].status \in {"complete", "failed"}
    BY <1>1, <1>4 DEF Finished, Settled, Status
  <2>1. i \in 1 .. step - 1
    BY <1>1
  <2>2. e \in Events
    BY <1>1, <1>3, <1>5, <2>1 DEF EventsBefore
  <2> QED
    BY <2>1, <2>2, <1>6 DEF PipeInv, Finished, Settled, Status
<1>12. Ordered'
  <2> SUFFICES ASSUME NEW e \in Events', cmds'[e].status \in {"running", "complete"},
                      NEW f \in Schedule(program)[e].after
               PROVE  f \in Events' /\ cmds'[f].status = "complete"
    BY <1>4 DEF Ordered, Status
  <2>1. e # d
    BY <1>6
  <2> QED
    BY <2>1, <1>6 DEF PipeInv, Ordered, Status
<1> QED
  BY <1>8, <1>9, <1>10, <1>11, <1>12 DEF PipeInv

\* A command that is not settled goes on.
LEMMA StatusInv ==
  ASSUME PipeInv, UNCHANGED <<program, step, host, kernels>>, NEW e \in Events, ~Settled(e),
         NEW status \in {"running", "complete", "failed"},
         cmds' = [cmds EXCEPT ![e].status = status],
         status = "running" => \A w \in cmds[e].command.waits : Status(w) = "complete",
         status = "complete" => Status(e) = "running"
  PROVE  PipeInv'
<1>1. program \in Programs /\ step \in Int
  BY DEF PipeInv, Known
<1>2. /\ Events' = Events
      /\ cmds'[e] = [command |-> cmds[e].command, status |-> status]
      /\ \A f \in Events : f # e => cmds'[f] = cmds[f]
  BY DEF PipeInv, Enqueued, Entry, Events
<1>3. Known'
  BY DEF PipeInv, Known
<1>4. Enqueued'
  <2>1. Entry(e)'
    <3>1. Entry(e)
      BY DEF PipeInv, Enqueued
    <3>2. cmds'[e].command = cmds[e].command /\ cmds'[e].status = status
      BY <1>2
    <3>3. Static(program, e)' = Static(program, e)
      OBVIOUS
    <3> QED
      BY <1>2, <3>1, <3>2, <3>3 DEF Entry
  <2>2. ASSUME NEW f \in Events, f # e PROVE Entry(f)'
    BY <1>2, <2>2 DEF PipeInv, Enqueued, Entry
  <2>3. Events' = EventsBefore(program, step)' /\ kernels' = After(program')[step' - 1].kernels
    BY <1>2 DEF PipeInv, Enqueued
  <2>4. \A f \in Events' : Entry(f)'
    BY <1>2, <2>1, <2>2
  <2> QED
    BY <2>3, <2>4 DEF Enqueued
<1>5. ASSUME NEW f \in Events, Settled(f) PROVE Settled(f)' /\ Status(f)' = Status(f)
  BY <1>2, <1>5 DEF Settled, Status
<1>6. Waited'
  BY <1>2, <1>5 DEF PipeInv, Waited, Settled, Status
<1>7. Finished'
  <2> SUFFICES ASSUME NEW i \in 1 .. step - 1, Steps(program)[i].op = "finish",
                      NEW f \in EventsBefore(program, i)
               PROVE  Settled(f)'
    BY DEF Finished
  <2>1. f \in Events
    BY <1>1, SchedulePositive DEF PipeInv, Enqueued, EventsBefore
  <2> QED
    BY <1>5, <2>1 DEF PipeInv, Finished
<1>8. Ordered'
  <2> SUFFICES ASSUME NEW f \in Events, Status(f)' \in {"running", "complete"},
                      NEW g \in Schedule(program)[f].after
               PROVE  g \in Events /\ Status(g) = "complete"
    BY <1>2, <1>5 DEF Ordered, Settled
  <2>1. CASE f # e \/ status = "complete"
    BY <1>2, <2>1 DEF PipeInv, Ordered, Status
  <2>2. CASE f = e /\ status = "failed"
    BY <1>2, <2>2 DEF Status
  <2>3. CASE f = e /\ status = "running"
    <3> DEFINE when == Schedule(program)[e].at
    <3>1. EventScheduled(program, e) /\ when \in Int /\ when < step
      BY <1>1, AllScheduled, SchedulePositive DEF PipeInv, Enqueued, EventsBefore, Scheduled
    <3>w. cmds[e].command.waits = Steps(program)[when].waits
      <4>1. cmds[e].command = Static(program, e)
        BY DEF PipeInv, Enqueued, Entry
      <4> QED
        BY <4>1, StaticWaits DEF Submitted
    <3>2. Covered(program, g, cmds[e].command.waits) \/ Awaited(program, g, when)
      BY <3>1, <3>w, <2>3 DEF EventScheduled
    <3>3. cmds[e].command.waits \subseteq Events
      <4>1. cmds[e].command.waits \subseteq EventsBefore(program, when)
        BY <3>1, <3>w DEF EventScheduled
      <4> QED
        BY <4>1, <3>1, <1>1, SchedulePositive DEF PipeInv, Enqueued, EventsBefore
    <3>4. ASSUME NEW h \in Events, Status(h) = "complete",
                 g = h \/ g \in Schedule(program)[h].after
          PROVE  g \in Events /\ Status(g) = "complete"
      BY <3>4 DEF PipeInv, Ordered
    <3>5. CASE Covered(program, g, cmds[e].command.waits)
      BY <3>3, <3>4, <3>5, <2>3 DEF Covered
    <3>6. CASE Awaited(program, g, when)
      <4>1. PICK j \in 1 .. when - 1 : /\ Steps(program)[j].op = "wait"
                                     /\ Covered(program, g, Steps(program)[j].events)
        BY <3>6 DEF Awaited
      <4>2. j \in 1 .. step - 1
        BY <3>1, <1>1
      <4> QED
        BY <4>1, <4>2, <3>4 DEF PipeInv, Waited, Covered
    <3> QED
      BY <3>2, <3>5, <3>6
  <2> QED
    BY <2>1, <2>2, <2>3
<1> QED
  BY <1>3, <1>4, <1>6, <1>7, <1>8 DEF PipeInv

\* Every step of the host or of the runtime.
LEMMA PipeInvNext == PipeInv /\ [PipeNext]_pipeVars => PipeInv'
<1> SUFFICES ASSUME PipeInv, [PipeNext]_pipeVars PROVE PipeInv'
  OBVIOUS
<1>a. program \in Programs
  BY DEF PipeInv, Known
<1>b. ASSUME step \in DOMAIN Steps(program)
      PROVE  /\ step \in 1 .. Len(Steps(program)) /\ Len(Steps(program)) \in Nat
             /\ Steps(program)[step].op \notin {"create_kernel", "set_argument"} =>
                  After(program)[step].kernels = kernels
  <2>1. step \in 1 .. Len(Steps(program)) /\ Len(Steps(program)) \in Nat
    BY <1>a, <1>b, AllScheduled DEF Scheduled
  <2> QED
    BY <2>1, AfterStep DEF PipeInv, Enqueued
<1>1. CASE Enqueue
  <2>1. CASE At("enqueue") /\ Submit(Now)
    BY <2>1, SubmitInv DEF At, Now
  <2>2. CASE At("launch") /\ Submit(Captured(Now, kernels))
    <3> DEFINE c == Captured(Now, kernels)
    <3>1. c.event = Now.event
      BY DEF Captured, Command
    <3>2. /\ step \in DOMAIN Steps(program) /\ Now = Steps(program)[step]
          /\ Steps(program)[step].op = "launch"
      BY <2>2 DEF At, Now
    <3>3. c = IF Steps(program)[step].op = "enqueue" THEN Steps(program)[step]
              ELSE Captured(Steps(program)[step], kernels)
      BY <3>2
    <3> HIDE DEF c
    <3> QED
      BY <3>1, <3>2, <3>3, <2>2, SubmitInv DEF c
  <2> QED
    BY <1>1, <2>1, <2>2 DEF Enqueue
<1>2. CASE SetKernel
  <2>1. /\ step \in DOMAIN Steps(program) /\ Now = Steps(program)[step]
        /\ Now.op \in {"create_kernel", "set_argument"}
        /\ Now.op = "create_kernel" => kernels' = WithKernel(Now, kernels)
        /\ Now.op = "set_argument" => kernels' = WithArgument(Now, kernels)
        /\ Advance /\ UNCHANGED <<program, cmds>>
    BY <1>2 DEF SetKernel, At, Now
  <2>2. kernels' = After(program)[step].kernels
    BY <1>b, <2>1, AfterStep DEF PipeInv, Enqueued
  <2>3. step' # step
    BY <2>1 DEF Advance, PipeInv, Known
  <2> QED
    BY <2>1, <2>2, <2>3, HostInv
<1>3. CASE Wait
  <2>1. Now.events \subseteq Events
    BY <1>3, <1>a, AllScheduled DEF Wait, At, Now, Scheduled, StepScheduled, PipeInv,
      Enqueued
  <2>2. Advance => \A e \in Now.events : Status(e) = "complete"
    <3>1. step + 1 # step
      BY DEF PipeInv, Known
    <3> QED
      BY <1>3, <3>1 DEF Wait, DoneWaiting, Settled, Advance, Stop
  <2>3. /\ step \in DOMAIN Steps(program) /\ Steps(program)[step].op = "wait"
        /\ UNCHANGED <<program, cmds, kernels>> /\ (Advance \/ Stop("threw"))
    BY <1>3 DEF Wait, At, Now
  <2> QED
    BY <1>b, <2>1, <2>2, <2>3, HostInv DEF Now
<1>4. CASE FinishQueue
  <2>1. \A e \in EventsBefore(program, step) : e \in Events /\ cmds[e].command.run # "build"
    <3>1. StepScheduled(program, step) /\ Steps(program)[step].op = "finish"
      BY <1>4, <1>a, AllScheduled DEF FinishQueue, At, Scheduled
    <3>2. \A e \in EventsBefore(program, step) :
            Submitted(program, e).op = "enqueue" /\ Submitted(program, e).run # "build"
      BY <3>1 DEF StepScheduled
    <3> QED
      BY <3>2 DEF PipeInv, Enqueued, Entry, Static
  <2>2. /\ step \in DOMAIN Steps(program) /\ Steps(program)[step].op = "finish"
        /\ UNCHANGED <<program, cmds, kernels>> /\ Advance
    BY <1>4 DEF FinishQueue, At, Now
  <2> QED
    BY <1>b, <1>4, <2>1, <2>2, HostInv DEF FinishQueue
<1>5. CASE ProfileEvent
  <2>1. /\ step \in DOMAIN Steps(program) /\ Steps(program)[step].op = "profile"
        /\ UNCHANGED <<program, cmds, kernels>> /\ (Advance \/ Stop("threw"))
    BY <1>5 DEF ProfileEvent, At
  <2> QED
    BY <1>b, <2>1, HostInv
<1>6. CASE Compare
  <2>1. /\ step \in DOMAIN Steps(program) /\ Steps(program)[step].op = "check"
        /\ UNCHANGED <<program, cmds, kernels>> /\ (Advance \/ Stop("aborted"))
    BY <1>6 DEF Compare, At
  <2> QED
    BY <1>b, <2>1, HostInv
<1>7. CASE Return
  BY <1>7 DEF Return, Stop, PipeInv, Known, Enqueued, Entry, Events, Waited, Finished,
    Ordered, Settled, Status
<1>8. ASSUME NEW e \in Events, Start(e) \/ End(e) \/ Fail(e) \/ Abandon(e)
      PROVE  PipeInv'
  <2>1. CASE Start(e)
    BY <2>1, StatusInv DEF Start, Settled, Status
  <2>2. CASE End(e)
    BY <2>2, StatusInv DEF End, Settled, Status
  <2>3. CASE Fail(e)
    BY <2>3, StatusInv DEF Fail, Settled, Status
  <2>4. CASE Abandon(e)
    BY <2>4, StatusInv DEF Abandon, Settled, Status
  <2> QED
    BY <1>8, <2>1, <2>2, <2>3, <2>4
<1>9. CASE UNCHANGED pipeVars
  BY <1>9 DEF pipeVars, PipeInv, Known, Enqueued, Entry, Events, Waited, Finished,
    Ordered, Settled, Status
<1> QED
  BY <1>1, <1>2, <1>3, <1>4, <1>5, <1>6, <1>7, <1>8, <1>9 DEF PipeNext

\* Hence always.
LEMMA PipeInvariance == PipeSpec => []PipeInv
<1> QED
  BY PipeInvInit, PipeInvNext, PTL DEF PipeSpec

\* Where the schedule has all commands settled, they are.
LEMMA SettledThere ==
  ASSUME PipeInv, AllSettled(program, step)
  PROVE  \A e \in Events : Settled(e)
<1> SUFFICES ASSUME NEW e \in Events PROVE Settled(e)
  OBVIOUS
<1>1. step \in Int /\ e \in EventsBefore(program, step) /\ Schedule(program)[e].at \in Int
      /\ 1 <= Schedule(program)[e].at
  BY SchedulePositive DEF PipeInv, Known, Enqueued, EventsBefore
<1>2. CASE Awaited(program, e, step)
  <2>1. PICK j \in 1 .. step - 1 : /\ Steps(program)[j].op = "wait"
                                   /\ Covered(program, e, Steps(program)[j].events)
    BY <1>2 DEF Awaited
  <2>2. PICK f \in Steps(program)[j].events : e = f \/ e \in Schedule(program)[f].after
    BY <2>1 DEF Covered
  <2>3. f \in Events /\ Status(f) = "complete"
    BY <2>1 DEF PipeInv, Waited
  <2> QED
    BY <2>2, <2>3 DEF PipeInv, Ordered, Settled
<1>3. CASE \E j \in Schedule(program)[e].at + 1 .. step - 1 : Steps(program)[j].op = "finish"
  <2>1. PICK j \in Schedule(program)[e].at + 1 .. step - 1 : Steps(program)[j].op = "finish"
    BY <1>3
  <2>2. e \in EventsBefore(program, j) /\ j \in 1 .. step - 1
    BY <1>1, <2>1 DEF EventsBefore
  <2> QED
    BY <2>1, <2>2 DEF PipeInv, Finished
<1> QED
  BY <1>1, <1>2, <1>3 DEF AllSettled

\* Of the seven programs, for every even side and any number of failures: no two
\* commands that run at the same time touch an element that one of them writes, and
\* the host compares no array that a command may still write.
THEOREM RaceFreeTheorem == PipeSpec => []RaceFree
<1>1. PipeInv => RaceFree
  <2> SUFFICES ASSUME PipeInv PROVE RaceFree
    OBVIOUS
  <2>0. Scheduled(program)
    BY AllScheduled DEF PipeInv, Known
  <2>1. ASSUME NEW e \in Events, NEW f \in Events, e # f,
               Status(e) = "running", Status(f) = "running"
        PROVE  ~Conflict(cmds[e].command, cmds[f].command)
    <3>1. PairScheduled(program, e, f)
      BY <2>0 DEF Scheduled, PipeInv, Enqueued, EventsBefore
    <3>2. e \notin Schedule(program)[f].after /\ f \notin Schedule(program)[e].after
      BY <2>1 DEF PipeInv, Ordered
    <3>3. Entry(e) /\ Entry(f)
      BY DEF PipeInv, Enqueued
    <3> QED
      BY <2>1, <3>1, <3>2, <3>3 DEF PairScheduled, Entry
  <2>2. ASSUME At("check") PROVE \A e \in Events : Settled(e)
    <3>1. StepScheduled(program, step) /\ Steps(program)[step].op = "check"
      BY <2>0, <2>2 DEF Scheduled, At
    <3> QED
      BY <3>1, SettledThere DEF StepScheduled
  <2> QED
    BY <2>1, <2>2 DEF RaceFree
<1> QED
  BY <1>1, PipeInvariance, PTL

\* main() returns when every command and every build has settled, so that none uses
\* the arrays and buffers that go out of scope.
THEOREM OutlivesTheorem == PipeSpec => []NothingOutlives
<1>1. PipeInv => NothingOutlives
  <2> SUFFICES ASSUME PipeInv, host = "returned" PROVE \A e \in Events : Settled(e)
    BY DEF NothingOutlives
  <2>1. AllSettled(program, step)
    BY AllScheduled DEF PipeInv, Known, Scheduled
  <2> QED
    BY <2>1, SettledThere
<1> QED
  BY <1>1, PipeInvariance, PTL

-----------------------------------------------------------------------------
(* Memory: what commands read and write, and what they do in order. *)

IsArray(f) == f = [c \in Cells |-> f[c]]
IsMemory(m) == m = [a \in Names |-> m[a]] /\ \A a \in Names : IsArray(m[a])

\* The elements of memory, pairs of an array and a cell.
Elements == Names \X Cells
Value(m, z) == m[z[1]][z[2]]

\* Arrays are equal when their cells are.
LEMMA SameArray ==
  ASSUME NEW f, NEW g, IsArray(f), IsArray(g), \A c \in Cells : f[c] = g[c]
  PROVE  f = g
<1>1. [c \in Cells |-> f[c]] = [c \in Cells |-> g[c]]
  OBVIOUS
<1> QED
  BY <1>1 DEF IsArray

\* The memory a program starts with.
LEMMA InitialIsMemory == \A p : IsMemory(InitialMemory(p))
<1> SUFFICES ASSUME NEW p PROVE IsMemory(InitialMemory(p))
  OBVIOUS
<1>1. ASSUME NEW a \in Names PROVE IsArray(InitialMemory(p)[a])
  BY DEF InitialMemory, HostArray, IsArray, Names
<1>2. InitialMemory(p) = [a \in Names |-> InitialMemory(p)[a]]
  BY DEF InitialMemory, Names
<1> QED
  BY <1>1, <1>2 DEF IsMemory

\* One array is replaced.
LEMMA ReplacedIsMemory ==
  ASSUME NEW m, IsMemory(m), NEW a \in Names, NEW f, IsArray(f)
  PROVE  IsMemory([m EXCEPT ![a] = f])
<1> DEFINE k == [m EXCEPT ![a] = f]
<1>1. DOMAIN m = Names
  BY DEF IsMemory
<1>2. \A b \in Names : k[b] = IF b = a THEN f ELSE m[b]
  BY <1>1
<1>3. k = [b \in Names |-> k[b]]
  BY <1>1
<1> HIDE DEF k
<1>4. \A b \in Names : IsArray(k[b])
  BY <1>2 DEF IsMemory
<1>5. IsMemory(k)
  BY <1>3, <1>4 DEF IsMemory
<1> QED
  BY <1>5 DEF k

\* What a kernel leaves in its output.
LEMMA KernelOutputIsArray ==
  ASSUME NEW run, NEW x, NEW y
  PROVE  IsArray(KernelOutput(run, x, y))
<1> DEFINE item(c) ==
             CHOOSE p \in Sides \X Sides : WorkItem(run, x, y, p[1], p[2]).cell = c
           value(c) == WorkItem(run, x, y, item(c)[1], item(c)[2]).value
<1>1. Launch(run, x, y) = [c \in Cells |-> value(c)]
  BY DEF Launch
<1> HIDE DEF value
<1>2. IsArray(Launch(run, x, y))
  BY <1>1 DEF IsArray
<1>3. IsArray([c \in Cells |-> VectorAdd(x, y, c).value]) /\ IsArray(Transposed(x))
  BY DEF IsArray, Transposed
<1> QED
  BY <1>2, <1>3 DEF KernelOutput

\* The output of a command is an array, and it is an array of the program's.
LEMMA OutputIsArray ==
  ASSUME NEW c, Executable(c), c.args # <<>>, NEW m
  PROVE  Output(c) \in Names /\ IsArray(Effect(c, m))
<1>1. CASE Moves(c)
  BY <1>1 DEF Moves, Output, Effect, IsArray
<1>2. CASE Computes(c)
  <2>1. Output(c) \in Names
    BY <1>2 DEF Computes, Output
  <2>2. c.run # "transfer"
    BY <1>2 DEF Computes
  <2>3. IsArray(KernelOutput(c.run, m[c.args[1]], m[c.args[2]]))
    BY KernelOutputIsArray
  <2> QED
    BY <2>1, <2>2, <2>3 DEF Effect
<1> QED
  BY <1>1, <1>2 DEF Executable, Idle

\* Only what it writes changes.
LEMMA PerformWrites ==
  ASSUME NEW c, Executable(c), NEW m, IsMemory(m)
  PROVE  /\ IsMemory(Perform(c, m))
         /\ \A z \in Elements : z \notin Writes(c) => Value(Perform(c, m), z) = Value(m, z)
<1>1. CASE c.args = <<>>
  BY <1>1 DEF Perform
<1>2. CASE c.args # <<>>
  <2> DEFINE a == Output(c)
             f == Effect(c, m)
  <2>1. a \in Names /\ IsArray(f)
    BY <1>2, OutputIsArray
  <2>2. Perform(c, m) = [m EXCEPT ![a] = f]
    BY <1>2 DEF Perform
  <2>3. IsMemory(Perform(c, m))
    <3>1. IsMemory([m EXCEPT ![a] = f])
      <4> HIDE DEF a, f
      <4> QED
        BY <2>1, ReplacedIsMemory
    <3> QED
      BY <2>2, <3>1
  <2>4. ASSUME NEW z \in Elements, z \notin Writes(c)
        PROVE  Value(Perform(c, m), z) = Value(m, z)
    <3>1. z[1] \in Names /\ z[2] \in Cells /\ z = <<z[1], z[2]>>
      BY DEF Elements
    <3>2. DOMAIN m = Names
      BY DEF IsMemory
    <3>3. CASE z[1] # a
      BY <2>2, <3>1, <3>2, <3>3 DEF Value
    <3>4. CASE z[1] = a
      <4>1. z[2] \notin DOMAIN c.move
        BY <1>2, <2>4, <3>1, <3>4 DEF Writes
      <4>2. Moves(c)
        BY <1>2, <4>1, <3>1 DEF Executable, Idle, Computes, Whole
      <4>3. f[z[2]] = m[a][z[2]]
        BY <4>1, <4>2, <3>1 DEF Moves, Effect, Output
      <4>4. Perform(c, m)[a] = f
        BY <2>1, <2>2, <3>2
      <4> HIDE DEF f, a
      <4> QED
        BY <3>4, <4>3, <4>4 DEF Value
    <3> QED
      BY <3>3, <3>4
  <2> QED
    BY <2>3, <2>4
<1> QED
  BY <1>1, <1>2

\* A transposition has one input.
LEMMA FirstArgument ==
  ASSUME NEW run \in {"transpose_naive", "transpose_local"}, NEW x, NEW y, NEW z
  PROVE  KernelOutput(run, x, y) = KernelOutput(run, x, z)
<1>1. \A i, j : WorkItem("transpose_naive", x, y, i, j) =
      WorkItem("transpose_naive", x, z, i, j)
  BY DEF WorkItem
<1>2. CASE run = "transpose_naive"
  <2>1. Launch("transpose_naive", x, y) = Launch("transpose_naive", x, z)
    BY <1>1 DEF Launch, WorkItem
  <2> QED
    BY <1>2, <2>1 DEF KernelOutput
<1>3. CASE run = "transpose_local"
  BY <1>3 DEF KernelOutput
<1> QED
  BY <1>2, <1>3

\* What it writes depends on what it reads alone.
LEMMA PerformReads ==
  ASSUME NEW c, Executable(c), NEW m, IsMemory(m), NEW k, IsMemory(k),
         \A r \in Reads(c) : Value(m, r) = Value(k, r)
  PROVE  \A z \in Elements : z \in Writes(c) => Value(Perform(c, m), z) = Value(Perform(c, k), z)
<1> SUFFICES ASSUME NEW z \in Elements, z \in Writes(c)
             PROVE  Value(Perform(c, m), z) = Value(Perform(c, k), z)
  OBVIOUS
<1>1. c.args # <<>> /\ z[1] = Output(c) /\ z[2] \in DOMAIN c.move /\ z[2] \in Cells
  BY DEF Writes, Elements
<1>2. Output(c) \in Names /\ DOMAIN m = Names /\ DOMAIN k = Names
  BY <1>1, OutputIsArray DEF IsMemory
<1>3. Perform(c, m)[Output(c)] = Effect(c, m) /\ Perform(c, k)[Output(c)] = Effect(c, k)
  BY <1>1, <1>2 DEF Perform
<1>4. Effect(c, m)[z[2]] = Effect(c, k)[z[2]]
  <2>1. CASE Moves(c)
    <3> DEFINE r == <<c.args[1], c.move[z[2]]>>
    <3>1. r \in Reads(c)
      BY <1>1, <2>1 DEF Moves, Reads
    <3>2. m[c.args[1]][c.move[z[2]]] = k[c.args[1]][c.move[z[2]]]
      BY <3>1 DEF Value
    <3> QED
      BY <1>1, <2>1, <3>2 DEF Moves, Effect
  <2>2. CASE Computes(c)
    <3>1. ASSUME NEW n \in 1 .. Len(c.args) - 1 PROVE m[c.args[n]] = k[c.args[n]]
      <4>1. c.args[n] \in Names
        BY <2>2 DEF Computes
      <4>2. \A x \in Cells : <<c.args[n], x>> \in Reads(c)
        BY <2>2 DEF Computes, Reads
      <4>3. \A x \in Cells : m[c.args[n]][x] = k[c.args[n]][x]
        BY <4>2 DEF Value
      <4>4. IsArray(m[c.args[n]]) /\ IsArray(k[c.args[n]])
        BY <4>1 DEF IsMemory
      <4> QED
        BY <4>3, <4>4, SameArray
    <3>2. Effect(c, m) = KernelOutput(c.run, m[c.args[1]], m[c.args[2]])
          /\ Effect(c, k) = KernelOutput(c.run, k[c.args[1]], k[c.args[2]])
      BY <2>2 DEF Computes, Effect
    <3>3. m[c.args[1]] = k[c.args[1]]
      BY <2>2, <3>1 DEF Computes
    <3>4. CASE c.run \in {"transpose_naive", "transpose_local"}
      <4>1. KernelOutput(c.run, m[c.args[1]], m[c.args[2]]) =
              KernelOutput(c.run, m[c.args[1]], k[c.args[2]])
        BY <3>4, FirstArgument
      <4> QED
        BY <3>2, <3>3, <4>1
    <3>5. CASE c.run \in {"vector_add", "matmul_naive", "matmul_transpose"}
      <4>1. m[c.args[2]] = k[c.args[2]]
        BY <2>2, <3>1, <3>5 DEF Computes
      <4> QED
        BY <3>2, <3>3, <4>1
    <3> QED
      BY <2>2, <3>4, <3>5 DEF Computes
  <2> QED
    BY <1>1, <2>1, <2>2 DEF Executable, Idle
<1> QED
  BY <1>1, <1>3, <1>4 DEF Value

\* What a step does to the memory, when it is executed at once.
LEMMA AfterMemoryStep ==
  ASSUME NEW p \in Programs, NEW i \in 1 .. Len(Steps(p))
  PROVE  \/ \E e \in DOMAIN Schedule(p) :
              /\ Schedule(p)[e].at = i /\ Executable(Static(p, e))
              /\ After(p)[i].mem = Perform(Static(p, e), After(p)[i - 1].mem)
         \/ /\ \A e \in DOMAIN Schedule(p) : Schedule(p)[e].at # i
            /\ After(p)[i].mem = After(p)[i - 1].mem
<1> DEFINE s == Steps(p)[i]
           e == s.event
<1>1. /\ Len(Steps(p)) \in Nat /\ StepScheduled(p, i)
      /\ \A f \in DOMAIN Schedule(p) : EventScheduled(p, f) /\ Executable(Static(p, f))
  BY AllScheduled DEF Scheduled
<1>2. CASE s.op \in {"enqueue", "launch"}
  <2>1. e \in DOMAIN Schedule(p) /\ Schedule(p)[e].at = i
    BY <1>1, <1>2 DEF StepScheduled
  <2>2. Static(p, e) = IF s.op = "enqueue" THEN s ELSE Captured(s, After(p)[i - 1].kernels)
    BY <2>1 DEF Static, Submitted
  <2>3. After(p)[i].mem = Perform(Static(p, e), After(p)[i - 1].mem)
    BY <1>1, <1>2, <2>2, AfterStep
  <2> QED
    BY <1>1, <2>1, <2>3
<1>3. CASE s.op \notin {"enqueue", "launch"}
  <2>1. \A f \in DOMAIN Schedule(p) : Schedule(p)[f].at # i
    BY <1>1, <1>3 DEF EventScheduled
  <2>2. After(p)[i].mem = After(p)[i - 1].mem
    BY <1>1, <1>3, AfterStep
  <2> QED
    BY <2>1, <2>2
<1> QED
  BY <1>2, <1>3

\* Memory stays memory.
LEMMA AfterIsMemory ==
  ASSUME NEW p \in Programs
  PROVE  \A i \in 0 .. Len(Steps(p)) : IsMemory(After(p)[i].mem)
<1> DEFINE T == {i \in 0 .. Len(Steps(p)) : IsMemory(After(p)[i].mem)}
<1>0. Len(Steps(p)) \in Nat
  BY AllScheduled DEF Scheduled
<1>1. 0 \in T
  <2>1. After(p)[0] = [mem |-> InitialMemory(p), kernels |-> <<>>]
    BY <1>0, AfterIs
  <2> QED
    BY <1>0, <2>1, InitialIsMemory
<1>2. ASSUME NEW n \in 0 + 1 .. Len(Steps(p)), n - 1 \in T PROVE n \in T
  <2>1. n \in 1 .. Len(Steps(p)) /\ IsMemory(After(p)[n - 1].mem)
    BY <1>2
  <2>2. IsMemory(After(p)[n].mem)
    BY <2>1, AfterMemoryStep, PerformWrites
  <2> QED
    BY <1>0, <2>2
<1> HIDE DEF T
<1>3. \A n \in 0 .. Len(Steps(p)) : n \in T
  BY <1>0, <1>1, <1>2, Upwards
<1> QED
  BY <1>3 DEF T

\* An element stays as it is while no command writes it.
LEMMA Untouched ==
  ASSUME NEW p \in Programs, NEW z \in Elements, NEW i \in 0 .. Len(Steps(p)),
         NEW j \in i .. Len(Steps(p)),
         \A e \in DOMAIN Schedule(p) :
           Schedule(p)[e].at \in i + 1 .. j => z \notin Writes(Static(p, e))
  PROVE  Value(After(p)[j].mem, z) = Value(After(p)[i].mem, z)
<1> DEFINE T == {n \in i .. j : Value(After(p)[n].mem, z) = Value(After(p)[i].mem, z)}
<1>0. Len(Steps(p)) \in Nat /\ i \in Nat /\ j \in Nat
  BY AllScheduled DEF Scheduled
<1>1. i \in T
  BY <1>0
<1>2. ASSUME NEW n \in i + 1 .. j, n - 1 \in T PROVE n \in T
  <2>1. n \in 1 .. Len(Steps(p)) /\ n - 1 \in 0 .. Len(Steps(p)) /\ n \in i .. j
    BY <1>0
  <2>2. IsMemory(After(p)[n - 1].mem)
    BY <2>1, AfterIsMemory
  <2>3. Value(After(p)[n].mem, z) = Value(After(p)[n - 1].mem, z)
    BY <2>1, <2>2, AfterMemoryStep, PerformWrites
  <2> QED
    BY <1>2, <2>1, <2>3
<1> HIDE DEF T
<1>3. \A n \in i .. j : n \in T
  BY <1>0, <1>1, <1>2, Upwards
<1>4. j \in T
  BY <1>0, <1>3
<1> QED
  BY <1>4 DEF T

-----------------------------------------------------------------------------
(* The memory of a run. *)

HasRun(e) == e \in Events /\ Status(e) = "complete"

\* Those that write an element are done if they are among the first i steps.
RunUntil(z, i) ==
  \A e \in DOMAIN Schedule(program) :
    z \in Writes(Static(program, e)) => (HasRun(e) <=> Schedule(program)[e].at <= i)

\* Then the element is what it is after these steps when they are executed in order.
InOrderMemory ==
  (\A e \in Events : Status(e) # "failed") =>
    \A z \in Elements, i \in 0 .. Len(Steps(program)) :
      RunUntil(z, i) => Value(mem, z) = Value(After(program)[i].mem, z)

\* A failure is one of the failures counted, or follows one.
Counted == failures \in Nat /\ ((\E e \in Events : Status(e) = "failed") => failures > 0)

\* Of buffer_readwrite, which finish() does not tell of a failure.
ReadBack ==
  program = "buffer_readwrite" =>
    /\ mem["input"] = HostArray(program, "input")
    /\ ~HasRun("get") => mem["output"] = [c \in Cells |-> Undefined]

MemoryInv == IsMemory(mem) /\ InOrderMemory /\ Counted /\ ReadBack

\* Where two commands conflict, one is done before the other runs.
LEMMA ConflictsOrdered ==
  ASSUME PipeInv, NEW e \in DOMAIN Schedule(program), NEW f \in DOMAIN Schedule(program),
         e # f, Conflict(Static(program, e), Static(program, f))
               \/ Conflict(Static(program, f), Static(program, e))
  PROVE  \/ /\ Schedule(program)[e].at < Schedule(program)[f].at
            /\ f \in Events /\ Status(f) \in {"running", "complete"} => HasRun(e)
         \/ /\ Schedule(program)[f].at < Schedule(program)[e].at
            /\ e \in Events /\ Status(e) \in {"running", "complete"} => HasRun(f)
<1>1. /\ PairScheduled(program, e, f)
      /\ EventScheduled(program, e) /\ EventScheduled(program, f)
  BY AllScheduled DEF PipeInv, Known, Scheduled
<1>2. CASE e \in Schedule(program)[f].after
  BY <1>1, <1>2 DEF EventScheduled, EventsBefore, PipeInv, Ordered, HasRun
<1>3. CASE f \in Schedule(program)[e].after
  BY <1>1, <1>3 DEF EventScheduled, EventsBefore, PipeInv, Ordered, HasRun
<1> QED
  BY <1>1, <1>2, <1>3 DEF PairScheduled

\* What a running command reads is what it would in order.
LEMMA ReadsInOrder ==
  ASSUME PipeInv, MemoryInv, \A f \in Events : Status(f) # "failed",
         NEW e \in Events, Status(e) = "running", NEW z \in Reads(Static(program, e)),
         z \in Elements
  PROVE  Value(mem, z) = Value(After(program)[Schedule(program)[e].at - 1].mem, z)
<1> DEFINE when == Schedule(program)[e].at
<1>1. e \in DOMAIN Schedule(program) /\ when \in 1 .. Len(Steps(program))
      /\ Len(Steps(program)) \in Nat
  BY SchedulePositive, AllScheduled
  DEF PipeInv, Known, Enqueued, EventsBefore, Scheduled
<1>2. ASSUME NEW g \in DOMAIN Schedule(program), z \in Writes(Static(program, g))
      PROVE  HasRun(g) <=> Schedule(program)[g].at <= when - 1
  <2>1. Schedule(program)[g].at \in Int
    BY SchedulePositive DEF PipeInv, Known
  <2>2. CASE g = e
    BY <1>1, <2>2 DEF HasRun
  <2>3. CASE g # e
    <3>1. Conflict(Static(program, g), Static(program, e))
      BY <1>2 DEF Conflict
    <3>2. \/ Schedule(program)[g].at < when /\ HasRun(g)
          \/ /\ when < Schedule(program)[g].at
             /\ g \in Events /\ Status(g) \in {"running", "complete"} => HasRun(e)
      BY <1>1, <2>3, <3>1, ConflictsOrdered
    <3> QED
      BY <1>1, <2>1, <3>2 DEF HasRun
  <2> QED
    BY <2>2, <2>3
<1>3. when - 1 \in 0 .. Len(Steps(program))
  BY <1>1
<1> QED
  BY <1>2, <1>3 DEF MemoryInv, InOrderMemory, RunUntil

-----------------------------------------------------------------------------
(* ResultsSound. *)

\* Init: nothing is written yet.
LEMMA MemoryInvInit == (\E p \in Examples : PipeInit(p)) => MemoryInv
<1> SUFFICES ASSUME NEW p \in Examples, PipeInit(p) PROVE MemoryInv
  OBVIOUS
<1>1. /\ program = p /\ cmds = <<>> /\ mem = InitialMemory(p) /\ failures = 0
      /\ p \in Programs
  BY PipelinesAssumption DEF PipeInit, Programs
<1>2. Events = {} /\ \A e : ~HasRun(e)
  BY <1>1 DEF Events, HasRun
<1>3. Len(Steps(p)) \in Nat
  BY <1>1, AllScheduled DEF Scheduled
<1>4. After(p)[0].mem = InitialMemory(p)
  <2>1. After(p)[0] = [mem |-> InitialMemory(p), kernels |-> <<>>]
    BY <1>3, AfterIs
  <2> QED
    BY <2>1
<1>5. InOrderMemory
  <2> SUFFICES ASSUME NEW z \in Elements, NEW i \in 0 .. Len(Steps(p)), RunUntil(z, i)
               PROVE  Value(After(p)[i].mem, z) = Value(After(p)[0].mem, z)
    BY <1>1, <1>4 DEF InOrderMemory
  <2>1. ASSUME NEW e \in DOMAIN Schedule(p), Schedule(p)[e].at \in 0 + 1 .. i
        PROVE  z \notin Writes(Static(p, e))
    BY <1>1, <1>2, <2>1 DEF RunUntil
  <2>2. 0 \in 0 .. Len(Steps(p)) /\ i \in 0 .. Len(Steps(p)) /\ i \in 0 .. i
    BY <1>3
  <2> QED
    BY <1>1, <2>1, <2>2, Untouched
<1>6. Counted
  BY <1>1, <1>2 DEF Counted
<1>7. ReadBack
  BY <1>1 DEF ReadBack, InitialMemory, HostArrays, Arrays
<1> QED
  BY <1>1, <1>5, <1>6, <1>7, InitialIsMemory DEF MemoryInv

\* A step that completes nothing, nor touches the memory.
LEMMA UntouchedInv ==
  ASSUME MemoryInv, UNCHANGED <<program, mem, failures>>,
         \A e : (e \in Events' /\ cmds'[e].status = "complete") <=> HasRun(e),
         \A e \in Events : e \in Events' /\ (Status(e) = "failed" => cmds'[e].status = "failed"),
         (\E e \in Events' : cmds'[e].status = "failed") => \E e \in Events : Status(e) = "failed"
  PROVE  MemoryInv'
<1>1. \A e : HasRun(e)' <=> HasRun(e)
  BY DEF HasRun, Status
<1>2. \A z, i : RunUntil(z, i)' <=> RunUntil(z, i)
  BY <1>1 DEF RunUntil
<1>3. InOrderMemory'
  BY <1>2 DEF MemoryInv, InOrderMemory, Status
<1>4. Counted'
  BY DEF MemoryInv, Counted, Status
<1>5. ReadBack'
  BY <1>1 DEF MemoryInv, ReadBack
<1> QED
  BY <1>3, <1>4, <1>5 DEF MemoryInv

\* What the events of a run submit.
LEMMA EventKnown ==
  ASSUME PipeInv, NEW e \in Events
  PROVE  /\ program \in Programs /\ e \in DOMAIN Schedule(program)
         /\ cmds[e].command = Static(program, e) /\ Executable(Static(program, e))
<1>1. program \in Programs /\ e \in DOMAIN Schedule(program) /\ Entry(e)
  BY DEF PipeInv, Known, Enqueued, EventsBefore
<1> QED
  BY <1>1, AllScheduled DEF Scheduled, Entry

\* What a command reads is in memory.
LEMMA ReadsElements ==
  ASSUME NEW c, Executable(c)
  PROVE  \A r \in Reads(c) : r \in Elements
<1>1. CASE Idle(c)
  BY <1>1 DEF Idle, Reads
<1>2. CASE Moves(c)
  <2>1. c.args[1] \in Names
    BY <1>2 DEF Moves
  <2> QED
    BY <1>2, <2>1 DEF Moves, Reads, Elements
<1>3. CASE Computes(c)
  BY <1>3 DEF Computes, Reads, Elements
<1> QED
  BY <1>1, <1>2, <1>3 DEF Executable

\* A command waits for what is enqueued before it.
LEMMA WaitsKnown ==
  ASSUME PipeInv, NEW e \in Events
  PROVE  cmds[e].command.waits \subseteq Events
<1> DEFINE when == Schedule(program)[e].at
<1>1. /\ program \in Programs /\ e \in DOMAIN Schedule(program)
      /\ cmds[e].command = Static(program, e) /\ step \in Int /\ when < step
  BY EventKnown DEF PipeInv, Known, Enqueued, EventsBefore
<1>2. EventScheduled(program, e) /\ when \in Int
  BY <1>1, AllScheduled, SchedulePositive DEF Scheduled
<1>3. cmds[e].command.waits = Steps(program)[when].waits
  BY <1>1, StaticWaits DEF Submitted
<1>4. cmds[e].command.waits \subseteq EventsBefore(program, when)
  BY <1>2, <1>3 DEF EventScheduled
<1> QED
  BY <1>1, <1>2, <1>4, SchedulePositive DEF PipeInv, Enqueued, EventsBefore

\* buffer_readwrite has two commands.
LEMMA ReadwriteCommands ==
  ASSUME NEW e \in DOMAIN Schedule("buffer_readwrite")
  PROVE  LET c == Static("buffer_readwrite", e)
         IN  /\ c.args # <<>> /\ c.move = Whole /\ c.run = "transfer"
             /\ \/ e = "send" /\ Output(c) = "buffer"
                \/ e = "get" /\ Output(c) = "output"
<1>1. /\ Schedule("buffer_readwrite")["send"].at = 1 /\ Schedule("buffer_readwrite")["get"].at = 2
      /\ e \in {"send", "get"}
  BY DEF Schedule
<1>2. /\ Steps("buffer_readwrite")[1] = Transfer("send", "input", "buffer", {})
      /\ Steps("buffer_readwrite")[2] = Transfer("get", "buffer", "output", {"send"})
  BY DEF Steps, buffer_readwrite
<1>3. CASE e = "send"
  <2>1. Submitted("buffer_readwrite", e) =
        Command("send", "transfer", <<"input", "buffer">>, Whole, {})
    BY <1>1, <1>2, <1>3 DEF Submitted, Transfer, TransferRect
  <2> DEFINE c == Static("buffer_readwrite", e)
  <2>2. c = Command("send", "transfer", <<"input", "buffer">>, Whole, {})
    BY <2>1 DEF Static, Command
  <2>3. c.args = <<"input", "buffer">> /\ c.move = Whole /\ c.run = "transfer"
    BY <2>2 DEF Command
  <2> HIDE DEF c
  <2>4. c.args # <<>> /\ Output(c) = "buffer"
    BY <2>3 DEF Output
  <2> QED
    BY <1>3, <2>3, <2>4 DEF c
<1>4. CASE e = "get"
  <2>1. Submitted("buffer_readwrite", e) =
        Command("get", "transfer", <<"buffer", "output">>, Whole, {"send"})
    BY <1>1, <1>2, <1>4 DEF Submitted, Transfer, TransferRect
  <2> DEFINE c == Static("buffer_readwrite", e)
  <2>2. c = Command("get", "transfer", <<"buffer", "output">>, Whole, {"send"})
    BY <2>1 DEF Static, Command
  <2>3. c.args = <<"buffer", "output">> /\ c.move = Whole /\ c.run = "transfer"
    BY <2>2 DEF Command
  <2> HIDE DEF c
  <2>4. c.args # <<>> /\ Output(c) = "output"
    BY <2>3 DEF Output
  <2> QED
    BY <1>4, <2>3, <2>4 DEF c
<1> QED
  BY <1>1, <1>3, <1>4

\* The command e has written its output.
LEMMA EndInv ==
  ASSUME PipeInv, MemoryInv, NEW e \in Events, End(e)
  PROVE  MemoryInv'
<1> DEFINE c == Static(program, e)
           when == Schedule(program)[e].at
<1>1. /\ program \in Programs /\ e \in DOMAIN Schedule(program) /\ Executable(c)
      /\ mem' = Perform(c, mem) /\ UNCHANGED <<program, failures>>
      /\ Status(e) = "running"
  BY EventKnown DEF End
<1>2. /\ Events' = Events /\ cmds'[e].status = "complete"
      /\ \A f \in Events : f # e => cmds'[f] = cmds[f]
  BY DEF End, PipeInv, Enqueued, Entry, Events
<1>3. \A f : HasRun(f)' <=> HasRun(f) \/ f = e
  BY <1>2 DEF HasRun, Status
<1>4. ~HasRun(e)
  BY <1>1 DEF HasRun
<1>5. /\ IsMemory(mem')
      /\ \A z \in Elements : z \notin Writes(c) => Value(mem', z) = Value(mem, z)
  BY <1>1, PerformWrites DEF MemoryInv
<1>6. InOrderMemory'
  <2> SUFFICES ASSUME \A f \in Events' : Status(f)' # "failed", NEW z \in Elements,
                      NEW i \in 0 .. Len(Steps(program)), RunUntil(z, i)'
               PROVE  Value(mem', z) = Value(After(program)[i].mem, z)
    BY <1>1 DEF InOrderMemory
  <2>1. \A f \in Events : Status(f) # "failed"
    BY <1>1, <1>2 DEF Status
  <2>2. \A f \in DOMAIN Schedule(program) :
          z \in Writes(Static(program, f)) =>
            (HasRun(f) \/ f = e <=> Schedule(program)[f].at <= i)
    BY <1>1, <1>3 DEF RunUntil
  <2>3. CASE z \notin Writes(c)
    <3>1. RunUntil(z, i)
      BY <2>2, <2>3 DEF RunUntil
    <3> QED
      BY <1>5, <2>1, <2>3, <3>1 DEF MemoryInv, InOrderMemory
  <2>4. CASE z \in Writes(c)
    <3>1. /\ when \in 1 .. Len(Steps(program)) /\ when <= i /\ Len(Steps(program)) \in Nat
      BY <1>1, <2>2, <2>4, SchedulePositive, AllScheduled DEF Scheduled
    <3>2. ASSUME NEW g \in DOMAIN Schedule(program), Schedule(program)[g].at \in when + 1 .. i
          PROVE  z \notin Writes(Static(program, g))
      <4> SUFFICES ASSUME z \in Writes(Static(program, g)) PROVE FALSE
        OBVIOUS
      <4>1. g # e /\ when < Schedule(program)[g].at /\ ~(Schedule(program)[g].at < when)
        BY <3>1, <3>2
      <4>2. Schedule(program)[g].at <= i
        BY <3>2
      <4>3. HasRun(g)
        BY <2>2, <4>1, <4>2
      <4>4. Conflict(c, Static(program, g))
        BY <2>4 DEF Conflict
      <4> QED
        BY <1>1, <1>4, <4>1, <4>3, <4>4, ConflictsOrdered DEF HasRun
    <3>3. Value(After(program)[i].mem, z) = Value(After(program)[when].mem, z)
      <4>1. when \in 0 .. Len(Steps(program)) /\ i \in when .. Len(Steps(program))
        BY <3>1
      <4> HIDE DEF when
      <4> QED
        BY <1>1, <3>2, <4>1, Untouched
    <3>4. After(program)[when].mem = Perform(c, After(program)[when - 1].mem)
      <4>1. \/ \E f \in DOMAIN Schedule(program) :
                 /\ Schedule(program)[f].at = when
                 /\ After(program)[when].mem =
                      Perform(Static(program, f), After(program)[when - 1].mem)
            \/ \A f \in DOMAIN Schedule(program) : Schedule(program)[f].at # when
        BY <1>1, <3>1, AfterMemoryStep
      <4>2. \A f \in DOMAIN Schedule(program) : Schedule(program)[f].at = when => f = e
        BY <1>1, AllScheduled DEF Scheduled, EventScheduled
      <4> QED
        BY <1>1, <4>1, <4>2
    <3>5. \A r \in Reads(c) : r \in Elements
      BY <1>1, ReadsElements
    <3>6. \A r \in Reads(c) : Value(mem, r) = Value(After(program)[when - 1].mem, r)
      BY <1>1, <2>1, <3>5, ReadsInOrder
    <3>7. IsMemory(mem) /\ IsMemory(After(program)[when - 1].mem)
      <4>1. when - 1 \in 0 .. Len(Steps(program))
        BY <3>1
      <4> QED
        BY <1>1, <4>1, AfterIsMemory DEF MemoryInv
    <3>8. Value(Perform(c, mem), z) = Value(Perform(c, After(program)[when - 1].mem), z)
      <4> HIDE DEF c, when
      <4> QED
        BY <1>1, <2>4, <3>6, <3>7, PerformReads
    <3> QED
      BY <1>1, <3>3, <3>4, <3>8
  <2> QED
    BY <2>3, <2>4
<1>7. Counted'
  BY <1>1, <1>2 DEF MemoryInv, Counted, Status
<1>8. ReadBack'
  <2> SUFFICES ASSUME program = "buffer_readwrite"
               PROVE  /\ mem'["input"] = mem["input"]
                      /\ e # "get" => mem'["output"] = mem["output"]
    BY <1>1, <1>3 DEF ReadBack, MemoryInv
  <2>1. c.args # <<>> /\ (\/ e = "send" /\ Output(c) = "buffer"
                          \/ e = "get" /\ Output(c) = "output")
    BY <1>1, ReadwriteCommands
  <2>2. mem' = [mem EXCEPT ![Output(c)] = Effect(c, mem)]
    BY <1>1, <2>1 DEF Perform
  <2> HIDE DEF c
  <2>3. \A a \in Names : a # Output(c) => mem'[a] = mem[a]
    BY <2>2 DEF MemoryInv, IsMemory
  <2> QED
    BY <2>1, <2>3 DEF Names, HostArrays, Arrays
<1> QED
  BY <1>5, <1>6, <1>7, <1>8 DEF MemoryInv

\* The command e has failed, and left anything in its output.
LEMMA FailInv ==
  ASSUME PipeInv, MemoryInv, NEW e \in Events, Fail(e)
  PROVE  MemoryInv'
<1> DEFINE c == Static(program, e)
           f == [x \in Cells |-> IF x \in DOMAIN c.move THEN Undefined ELSE mem[Output(c)][x]]
<1>1. /\ program \in Programs /\ e \in DOMAIN Schedule(program) /\ Executable(c)
      /\ UNCHANGED <<program>> /\ failures' = failures + 1 /\ Status(e) = "running"
  BY EventKnown DEF Fail
<1>2. /\ c.args = <<>> => mem' = mem
      /\ c.args # <<>> => mem' = [mem EXCEPT ![Output(c)] = f]
  BY EventKnown DEF Fail
<1>3. /\ Events' = Events /\ cmds'[e].status = "failed"
      /\ \A g \in Events : g # e => cmds'[g] = cmds[g]
  BY DEF Fail, PipeInv, Enqueued, Entry, Events
<1>4. IsMemory(mem')
  <2>1. CASE c.args = <<>>
    BY <1>2, <2>1 DEF MemoryInv
  <2>2. CASE c.args # <<>>
    <3>1. Output(c) \in Names
      BY <1>1, <2>2, OutputIsArray
    <3>2. IsArray(f)
      BY DEF IsArray
    <3> HIDE DEF c, f
    <3> QED
      BY <1>2, <2>2, <3>1, <3>2, ReplacedIsMemory DEF MemoryInv
  <2> QED
    BY <2>1, <2>2
<1>5. InOrderMemory'
  BY <1>3 DEF InOrderMemory, Status
<1>6. Counted'
  BY <1>1 DEF MemoryInv, Counted
<1>7. ReadBack'
  <2> SUFFICES ASSUME program = "buffer_readwrite"
               PROVE  /\ mem'["input"] = mem["input"]
                      /\ ~HasRun("get")' => mem'["output"] = [x \in Cells |-> Undefined]
    BY <1>1 DEF ReadBack, MemoryInv
  <2>1. /\ c.args # <<>> /\ c.move = Whole
        /\ \/ e = "send" /\ Output(c) = "buffer"
           \/ e = "get" /\ Output(c) = "output"
    BY <1>1, ReadwriteCommands
  <2>2. mem' = [mem EXCEPT ![Output(c)] = f]
    BY <1>2, <2>1
  <2>3. DOMAIN mem = Names
    BY DEF MemoryInv, IsMemory
  <2>4. \A a \in Names : a # Output(c) => mem'[a] = mem[a]
    <3> HIDE DEF c, f
    <3> QED
      BY <2>2, <2>3
  <2>5. CASE e = "send"
    <3>1. HasRun("get")' <=> HasRun("get")
      BY <1>3, <2>5 DEF HasRun, Status
    <3> QED
      BY <2>1, <2>4, <2>5, <3>1 DEF Names, HostArrays, Arrays, MemoryInv, ReadBack
  <2>6. CASE e = "get"
    <3>1. f = [x \in Cells |-> Undefined]
      BY <2>1 DEF Whole
    <3>2. mem'["output"] = f
      <4> HIDE DEF c, f
      <4> QED
        BY <2>1, <2>2, <2>3, <2>6 DEF Names, HostArrays, Arrays
    <3> QED
      BY <2>1, <2>4, <2>6, <3>1, <3>2 DEF Names, HostArrays, Arrays
  <2> QED
    BY <2>1, <2>5, <2>6
<1> QED
  BY <1>4, <1>5, <1>6, <1>7 DEF MemoryInv

\* Every step of the host or of the runtime.
LEMMA MemoryInvNext == PipeInv /\ MemoryInv /\ [PipeNext]_pipeVars => MemoryInv'
<1> SUFFICES ASSUME PipeInv, MemoryInv, [PipeNext]_pipeVars PROVE MemoryInv'
  OBVIOUS
<1>1. CASE Enqueue
  <2>1. PICK command : Submit(command) /\ command.event = Now.event
    <3>1. Captured(Now, kernels).event = Now.event
      BY DEF Captured, Command
    <3> QED
      BY <1>1, <3>1 DEF Enqueue
  <2> DEFINE d == command.event
  <2>2. d \notin Events
    <3>1. step \in DOMAIN Steps(program) /\ Now.op \in {"enqueue", "launch"} /\ step \in Int
      BY <1>1 DEF Enqueue, At, Now, PipeInv, Known
    <3>2. StepScheduled(program, step)
      BY <3>1, AllScheduled DEF PipeInv, Known, Scheduled
    <3>3. Schedule(program)[d].at = step
      BY <2>1, <3>1, <3>2 DEF StepScheduled, Now
    <3> QED
      BY <3>1, <3>3 DEF PipeInv, Enqueued, EventsBefore
  <2>3. /\ Events' = Events \cup {d} /\ cmds'[d].status = "queued"
        /\ \A e \in Events : cmds'[e] = cmds[e]
        /\ UNCHANGED <<program, mem, failures>>
    BY <2>1, <2>2 DEF Submit, With, Events
  <2> HIDE DEF d
  <2> QED
    BY <2>2, <2>3, UntouchedInv DEF HasRun, Status
<1>2. CASE UNCHANGED <<program, mem, failures, cmds>>
  BY <1>2, UntouchedInv DEF HasRun, Status, Events
<1>3. ASSUME NEW e \in Events, Start(e) PROVE MemoryInv'
  <2>1. /\ Events' = Events /\ cmds'[e].status = "running" /\ Status(e) = "queued"
        /\ \A f \in Events : f # e => cmds'[f] = cmds[f]
        /\ UNCHANGED <<program, mem, failures>>
    BY <1>3 DEF Start, PipeInv, Enqueued, Entry, Events
  <2> QED
    BY <2>1, UntouchedInv DEF HasRun, Status
<1>4. ASSUME NEW e \in Events, Abandon(e) PROVE MemoryInv'
  <2>1. /\ Events' = Events /\ cmds'[e].status = "failed" /\ Status(e) = "queued"
        /\ \A f \in Events : f # e => cmds'[f] = cmds[f]
        /\ UNCHANGED <<program, mem, failures>>
    BY <1>4 DEF Abandon, PipeInv, Enqueued, Entry, Events
  <2>2. \E w \in Events : Status(w) = "failed"
    <3>1. PICK w \in cmds[e].command.waits : Status(w) = "failed"
      BY <1>4 DEF Abandon
    <3>2. w \in Events
      BY <3>1, WaitsKnown
    <3> QED
      BY <3>1, <3>2
  <2> QED
    BY <2>1, <2>2, UntouchedInv DEF HasRun, Status
<1>5. ASSUME NEW e \in Events, End(e) \/ Fail(e) PROVE MemoryInv'
  BY <1>5, EndInv, FailInv
<1> QED
  BY <1>1, <1>2, <1>3, <1>4, <1>5 DEF PipeNext, SetKernel, Wait, FinishQueue, ProfileEvent,
    Compare, Return, pipeVars

\* Where the schedule has all commands awaited, they are complete.
LEMMA CompleteThere ==
  ASSUME PipeInv, AllAwaited(program, step)
  PROVE  \A e \in Events : Status(e) = "complete"
<1> SUFFICES ASSUME NEW e \in Events PROVE Status(e) = "complete"
  OBVIOUS
<1>1. Awaited(program, e, step)
  BY DEF PipeInv, Enqueued, AllAwaited
<1>2. PICK j \in 1 .. step - 1 : /\ Steps(program)[j].op = "wait"
                                 /\ Covered(program, e, Steps(program)[j].events)
  BY <1>1 DEF Awaited
<1>3. PICK f \in Steps(program)[j].events : e = f \/ e \in Schedule(program)[f].after
  BY <1>2 DEF Covered
<1>4. f \in Events /\ Status(f) = "complete"
  BY <1>2 DEF PipeInv, Waited
<1> QED
  BY <1>3, <1>4 DEF PipeInv, Ordered

\* When all commands so far are complete, the memory is what it is in order.
LEMMA CompleteInOrder ==
  ASSUME PipeInv, MemoryInv, \A e \in Events : Status(e) = "complete",
         step \in DOMAIN Steps(program)
  PROVE  \A a \in Names : mem[a] = InOrder(program, step - 1)[a]
<1> SUFFICES ASSUME NEW a \in Names PROVE mem[a] = After(program)[step - 1].mem[a]
  BY DEF InOrder
<1>1. /\ program \in Programs /\ step \in Int /\ Len(Steps(program)) \in Nat
      /\ step - 1 \in 0 .. Len(Steps(program))
  BY AllScheduled DEF PipeInv, Known, Scheduled
<1>2. ASSUME NEW x \in Cells
      PROVE  mem[a][x] = After(program)[step - 1].mem[a][x]
  <2> DEFINE z == <<a, x>>
  <2>1. z \in Elements /\ z[1] = a /\ z[2] = x
    BY DEF Elements
  <2> HIDE DEF z
  <2>2. \A e \in DOMAIN Schedule(program) : HasRun(e) <=> Schedule(program)[e].at <= step - 1
    BY <1>1, SchedulePositive DEF PipeInv, Enqueued, EventsBefore, HasRun
  <2>3. RunUntil(z, step - 1)
    BY <2>2 DEF RunUntil
  <2>4. Value(mem, z) = Value(After(program)[step - 1].mem, z)
    BY <1>1, <2>1, <2>3 DEF MemoryInv, InOrderMemory
  <2> QED
    BY <2>1, <2>4 DEF Value
<1>3. IsArray(mem[a]) /\ IsArray(After(program)[step - 1].mem[a])
  BY <1>1, AfterIsMemory DEF MemoryInv, IsMemory
<1> QED
  BY <1>2, <1>3, SameArray

\* What a program compares is what its calls give one after the other, in whatever
\* order the runtime has executed them, or a command has failed and it notices.
THEOREM ResultsTheorem == PipeSpec => []ResultsSound
<1>1. PipeInv /\ MemoryInv => ResultsSound
  <2> SUFFICES ASSUME PipeInv, MemoryInv, At("check")
               PROVE  \/ \A array \in Now.arrays : mem[array] = InOrder(program, step - 1)[array]
                      \/ failures > 0 /\ ~Verdict(program, mem)
    BY DEF ResultsSound
  <2>1. /\ step \in DOMAIN Steps(program) /\ StepScheduled(program, step)
        /\ Now = Steps(program)[step] /\ Now.op = "check"
    BY AllScheduled DEF PipeInv, Known, Scheduled, At, Now
  <2>2. Now.arrays \subseteq Names /\ AllSettled(program, step)
        /\ (program # "buffer_readwrite" => AllAwaited(program, step))
    BY <2>1 DEF StepScheduled
  <2>3. CASE \A e \in Events : Status(e) = "complete"
    BY <2>1, <2>2, <2>3, CompleteInOrder
  <2>4. CASE \E e \in Events : Status(e) # "complete"
    <3>1. program = "buffer_readwrite"
      BY <2>2, <2>4, CompleteThere
    <3>2. PICK e \in Events : Status(e) = "failed"
      BY <2>2, <2>4, SettledThere DEF Settled
    <3>3. failures > 0
      BY <3>2 DEF MemoryInv, Counted
    <3>4. ~HasRun("get")
      <4> SUFFICES ASSUME HasRun("get") PROVE FALSE
        OBVIOUS
      <4>1. "send" \in Schedule(program)["get"].after
        BY <3>1 DEF Schedule
      <4>2. Status("send") = "complete" /\ Status("get") = "complete"
        BY <4>1 DEF HasRun, PipeInv, Ordered
      <4>3. e \in {"send", "get"}
        BY <3>1, EventKnown, ReadwriteCommands
      <4> QED
        BY <3>2, <4>2, <4>3
    <3>5. mem["output"] =
          [c \in Cells |-> Undefined] /\ mem["input"] = HostArray(program, "input")
      BY <3>1, <3>4 DEF MemoryInv, ReadBack
    <3>6. 0 \in Cells
      <4>1. Side * Side \in Nat /\ Side * Side > 0
        BY SideAssumption
      <4> QED
        BY <4>1 DEF Cells
    <3>7. HostArray(program, "input")[0] = 255
      BY <3>1, <3>6 DEF HostArray
    <3>8. mem["output"][0] = -1000 /\ mem["input"][0] = 255
      BY <3>5, <3>6, <3>7 DEF Undefined
    <3>9. ~Verdict(program, mem)
      BY <3>1, <3>8 DEF Verdict
    <3> QED
      BY <3>3, <3>9
  <2> QED
    BY <2>3, <2>4
<1>2. PipeInv /\ MemoryInv /\ [PipeNext]_pipeVars => (PipeInv /\ MemoryInv)'
  BY PipeInvNext, MemoryInvNext
<1>3. (\E p \in Examples : PipeInit(p)) => PipeInv /\ MemoryInv
  BY PipeInvInit, MemoryInvInit
<1> QED
  BY <1>1, <1>2, <1>3, PTL DEF PipeSpec

-----------------------------------------------------------------------------
(* What the programs compare. *)

\* A program aborts only if a command of buffer_readwrite has failed, which nothing
\* tells it before, or if it is the one whose kernel computes something else.
AbortsForCause ==
  host = "aborted" =>
    program = "application_matmul" \/ (program = "buffer_readwrite" /\ failures > 0)

\* What a step does to the memory.
LEMMA QuietStep ==
  ASSUME NEW p \in Programs, NEW i \in 1 .. Len(Steps(p)), NEW j, j = i - 1,
         \/ Steps(p)[i].op \notin {"enqueue", "launch"}
         \/ Steps(p)[i].op = "enqueue" /\ Steps(p)[i].args = <<>>
  PROVE  After(p)[i].mem = After(p)[j].mem
<1>1. Len(Steps(p)) \in Nat
  BY AllScheduled DEF Scheduled
<1>2. CASE Steps(p)[i].op \notin {"enqueue", "launch"}
  BY <1>1, <1>2, AfterStep
<1>3. CASE Steps(p)[i].op = "enqueue" /\ Steps(p)[i].args = <<>>
  <2>1. After(p)[i].mem = Perform(Steps(p)[i], After(p)[j].mem)
    BY <1>1, <1>3, AfterStep
  <2> QED
    BY <1>3, <2>1 DEF Perform
<1> QED
  BY <1>2, <1>3

\* An array is replaced, the others stay.
Replaces(m, k, a, f) == k[a] = f /\ \A b \in Names : b # a => k[b] = m[b]

\* Before a step.
LEMMA MemoryThere ==
  ASSUME NEW p \in Programs, NEW i \in 1 .. Len(Steps(p)), NEW j, j = i - 1
  PROVE  Len(Steps(p)) \in Nat /\ IsMemory(After(p)[j].mem)
<1>1. Len(Steps(p)) \in Nat
  BY AllScheduled DEF Scheduled
<1>2. j \in 0 .. Len(Steps(p))
  BY <1>1
<1> QED
  BY <1>1, <1>2, AfterIsMemory

\* EXCEPT does so.
LEMMA Replacing ==
  ASSUME NEW m, IsMemory(m), NEW a \in Names, NEW f
  PROVE  Replaces(m, [m EXCEPT ![a] = f], a, f)
BY DEF IsMemory, Replaces

\* A transfer of a rectangle, or of a whole array, and a launch.
LEMMA RectangleStep ==
  ASSUME NEW p \in Programs, NEW i \in 1 .. Len(Steps(p)), NEW j, j = i - 1,
         NEW e, NEW a \in Names, NEW b \in Names, NEW move, NEW w,
         Steps(p)[i] = TransferRect(e, a, b, move, w)
  PROVE  Replaces(After(p)[j].mem, After(p)[i].mem, b,
           [c \in Cells |-> IF c \in DOMAIN move THEN After(p)[j].mem[a][move[c]]
                            ELSE After(p)[j].mem[b][c]])
<1> DEFINE m == After(p)[j].mem
           s == TransferRect(e, a, b, move, w)
           f == [c \in Cells |-> IF c \in DOMAIN move THEN m[a][move[c]] ELSE m[b][c]]
<1>1. Len(Steps(p)) \in Nat /\ IsMemory(m)
  BY MemoryThere
<1>2. /\ s.op = "enqueue" /\ s.run = "transfer" /\ s.args = <<a, b>> /\ s.move = move
      /\ s.args # <<>> /\ Output(s) = b
  BY DEF TransferRect, Command, Output
<1>3. After(p)[i].mem = Perform(s, m)
  BY <1>1, <1>2, AfterStep
<1>4. Effect(s, m) = f
  BY <1>2 DEF Effect
<1>5. Perform(s, m) = [m EXCEPT ![b] = f]
  BY <1>2, <1>4 DEF Perform
<1>6. Replaces(m, After(p)[i].mem, b, f)
  <2> HIDE DEF m, s, f
  <2>1. After(p)[i].mem = [m EXCEPT ![b] = f]
    BY <1>3, <1>5
  <2>2. Replaces(m, [m EXCEPT ![b] = f], b, f)
    BY <1>1, Replacing
  <2> QED
    BY <2>1, <2>2
<1> QED
  BY <1>6

LEMMA TransferStep ==
  ASSUME NEW p \in Programs, NEW i \in 1 .. Len(Steps(p)), NEW j, j = i - 1,
         NEW e, NEW a \in Names, NEW b \in Names, NEW w,
         Steps(p)[i] = Transfer(e, a, b, w)
  PROVE  Replaces(After(p)[j].mem, After(p)[i].mem, b, After(p)[j].mem[a])
<1> DEFINE m == After(p)[j].mem
           f == [c \in Cells |-> IF c \in DOMAIN Whole THEN m[a][Whole[c]] ELSE m[b][c]]
<1>1. Replaces(m, After(p)[i].mem, b, f)
  BY RectangleStep DEF Transfer
<1>2. f = [c \in Cells |-> m[a][c]]
  BY DEF Whole
<1>3. IsArray(m[a])
  BY MemoryThere DEF IsMemory
<1>4. f = m[a]
  <2> HIDE DEF m, f
  <2> QED
    BY <1>2, <1>3 DEF IsArray
<1> QED
  BY <1>1, <1>4

LEMMA LaunchStep ==
  ASSUME NEW p \in Programs, NEW i \in 1 .. Len(Steps(p)), NEW j, j = i - 1,
         NEW e, NEW k, NEW w, NEW run, NEW args, Steps(p)[i] = RangeKernel(e, k, w),
         Has(After(p)[j].kernels, k, run, args),
         run # "transfer" /\ args # <<>> /\ args[Len(args)] \in Names
  PROVE  Replaces(After(p)[j].mem, After(p)[i].mem, args[Len(args)],
           KernelOutput(run, After(p)[j].mem[args[1]], After(p)[j].mem[args[2]]))
<1> DEFINE m == After(p)[j].mem
           s == Command(e, run, args, Whole, w)
           f == KernelOutput(run, m[args[1]], m[args[2]])
<1>1. Len(Steps(p)) \in Nat /\ IsMemory(m)
  BY MemoryThere
<1>2. /\ s.run = run /\ s.args = args /\ Output(s) = args[Len(args)]
      /\ RangeKernel(e, k, w).op = "launch"
  BY DEF Command, Output, RangeKernel
<1>3. Captured(RangeKernel(e, k, w), After(p)[j].kernels) = s
  BY KernelLaunched
<1>4. After(p)[i].mem = Perform(s, m)
  BY <1>1, <1>2, <1>3, AfterStep
<1>5. Effect(s, m) = f
  BY <1>2 DEF Effect
<1>6. Perform(s, m) = [m EXCEPT ![args[Len(args)]] = f]
  BY <1>2, <1>5 DEF Perform
<1>7. Replaces(m, After(p)[i].mem, args[Len(args)], f)
  <2> DEFINE a == args[Len(args)]
  <2> HIDE DEF m, s, f
  <2>1. After(p)[i].mem = [m EXCEPT ![a] = f] /\ a \in Names
    BY <1>4, <1>6
  <2> HIDE DEF a
  <2>2. Replaces(m, [m EXCEPT ![a] = f], a, f)
    BY <1>1, <2>1, Replacing
  <2>3. Replaces(m, After(p)[i].mem, a, f)
    BY <2>1, <2>2
  <2> QED
    BY <2>3 DEF a
<1> QED
  BY <1>7

\* The memory at first.
LEMMA MemoryFirst ==
  ASSUME NEW p \in Programs, NEW a \in HostArrays
  PROVE  After(p)[0].mem[a] = HostArray(p, a)
<1>1. Len(Steps(p)) \in Nat
  BY AllScheduled DEF Scheduled
<1>2. After(p)[0] = [mem |-> InitialMemory(p), kernels |-> <<>>]
  BY <1>1, AfterIs
<1> QED
  BY <1>2 DEF InitialMemory

\* What the programs compare, once their calls are made one after the other.
LEMMA ReadwriteConfirms ==
  LET m == After("buffer_readwrite")[3].mem IN m["output"] = m["input"]
<1> DEFINE p == "buffer_readwrite"
           M(i) == After(p)[i].mem
<1>1. p \in Programs /\ {"input", "buffer", "output"} \subseteq Names
  BY DEF Programs, Names, HostArrays, Arrays
<1>2. /\ Len(Steps(p)) = 4 /\ Steps(p)[1] = Transfer("send", "input", "buffer", {})
      /\ Steps(p)[2] = Transfer("get", "buffer", "output", {"send"}) /\ Steps(p)[3] = Finish
  BY DEF Steps, buffer_readwrite
<1> HIDE DEF p
<1>3. 1 \in 1 .. Len(Steps(p)) /\ 2 \in 1 .. Len(Steps(p)) /\ 3 \in 1 .. Len(Steps(p))
  BY <1>2
<1>4. Replaces(M(0), M(1), "buffer", M(0)["input"])
  BY <1>1, <1>2, <1>3, 0 = 1 - 1, TransferStep
<1>5. Replaces(M(1), M(2), "output", M(1)["buffer"])
  BY <1>1, <1>2, <1>3, 1 = 2 - 1, TransferStep
<1>6. M(3) = M(2)
  BY <1>1, <1>2, <1>3, 2 = 3 - 1, QuietStep DEF Finish
<1> HIDE DEF M
<1>7. M(3)["output"] = M(3)["input"]
  BY <1>1, <1>4, <1>5, <1>6 DEF Replaces
<1> QED
  BY <1>7 DEF M, p

\* The arrays go unchanged from one buffer to the next.
LEMMA CopyConfirms ==
  LET m == After("buffer_copy")[4].mem IN m["output"] = m["input"]
<1> DEFINE p == "buffer_copy"
           M(i) == After(p)[i].mem
<1>1. p \in Programs /\ {"input", "input_buffer", "output_buffer", "output"} \subseteq Names
  BY DEF Programs, Names, HostArrays, Arrays
<1>2. /\ Len(Steps(p)) = 5 /\ Steps(p)[1] = Transfer("write", "input", "input_buffer", {})
      /\ Steps(p)[2] = Transfer("copy", "input_buffer", "output_buffer", {"write"})
      /\ Steps(p)[3] = Transfer("read", "output_buffer", "output", {"copy"})
      /\ Steps(p)[4] = WaitFor({"read"})
  BY DEF Steps, buffer_copy
<1> HIDE DEF p
<1>3. 1 \in 1 .. Len(Steps(p)) /\ 2 \in 1 .. Len(Steps(p)) /\ 3 \in 1 .. Len(Steps(p))
      /\ 4 \in 1 .. Len(Steps(p))
  BY <1>2
<1>4. Replaces(M(0), M(1), "input_buffer", M(0)["input"])
  BY <1>1, <1>2, <1>3, 0 = 1 - 1, TransferStep
<1>5. Replaces(M(1), M(2), "output_buffer", M(1)["input_buffer"])
  BY <1>1, <1>2, <1>3, 1 = 2 - 1, TransferStep
<1>6. Replaces(M(2), M(3), "output", M(2)["output_buffer"])
  BY <1>1, <1>2, <1>3, 2 = 3 - 1, TransferStep
<1>7. M(4) = M(3)
  BY <1>1, <1>2, <1>3, 3 = 4 - 1, QuietStep DEF WaitFor
<1> HIDE DEF M
<1>8. M(4)["output"] = M(4)["input"]
  BY <1>1, <1>4, <1>5, <1>6, <1>7 DEF Replaces
<1> QED
  BY <1>8 DEF M, p

\* The half of a side.
LEMMA HalfSide ==
  /\ Side \in Nat /\ Side > 0 /\ Half \in Nat /\ Half + Half = Side /\ 0 \in {0, Half}
  /\ Half \in {0, Half}
BY SideAssumption, PipelinesAssumption DEF Half

\* A cell by its column and its row; the quarters it is in.
LEMMA CellOf ==
  ASSUME NEW col \in Sides, NEW row \in Sides
  PROVE  /\ Idx(col, row) \in Cells
         /\ Idx(col, row) % Side = col /\ Idx(col, row) \div Side = row
<1>1. Idx(col, row) \in Cells
  BY IdxInCells
<1>2. row \in Nat /\ col \in 0 .. Side - 1 /\ Side \in Nat \ {0}
  BY HalfSide DEF Sides
<1> QED
  BY <1>1, <1>2, DivOf DEF Idx

\* A copy into a right quarter from the left one of the other half.
LEMMA QuarterOf ==
  ASSUME NEW r \in {0, Half}, NEW t \in {0, Half}, NEW col \in Sides, NEW row \in Sides
  PROVE  LET m == QuarterFrom(<<0, t>>, <<Half, r>>)
             c == Idx(col, row)
         IN  /\ c \in DOMAIN m <=> col >= Half /\ row >= r /\ row < r + Half
             /\ c \in DOMAIN m => /\ m[c] = Idx(col - Half, row + t - r)
                                  /\ col - Half \in Sides /\ row + t - r \in Sides
                                  /\ col - Half < Half
<1> DEFINE m == QuarterFrom(<<0, t>>, <<Half, r>>)
           c == Idx(col, row)
<1>0. /\ Side \in Nat /\ Side > 0 /\ Half \in Nat /\ Half + Half = Side
      /\ t \in {0, Half} /\ r \in {0, Half} /\ col \in 0 .. Side - 1 /\ row \in 0 .. Side - 1
  BY HalfSide DEF Sides
<1>1. c \in Cells /\ c % Side = col /\ c \div Side = row
  BY CellOf
<1> HIDE DEF c
<1>2. DOMAIN m = {x \in Cells : /\ x % Side \in Half .. Half + Half - 1
                               /\ x \div Side \in r .. r + Half - 1}
  BY DEF QuarterFrom, Quarter
<1>3. c \in DOMAIN m <=> col >= Half /\ row >= r /\ row < r + Half
  BY <1>0, <1>1, <1>2
<1>4. ASSUME c \in DOMAIN m
      PROVE  /\ m[c] = Idx(col - Half, row + t - r)
             /\ col - Half \in Sides /\ row + t - r \in Sides /\ col - Half < Half
  <2>1. m[c] = c + Idx(0, t) - Idx(Half, r)
    BY <1>4 DEF QuarterFrom
  <2> HIDE DEF m
  <2>2. c % Side >= Half /\ c \div Side >= r /\ c \div Side < r + Half
    BY <1>1, <1>3, <1>4
  <2>3. /\ (c % Side) - Half \in Sides /\ (c \div Side) + t - r \in Sides
        /\ (c % Side) - Half < Half
        /\ c + Idx(0, t) - Idx(Half, r) = Idx((c % Side) - Half, (c \div Side) + t - r)
    BY <1>1, <2>2, QuarterSource
  <2> QED
    BY <1>1, <2>1, <2>3
<1> QED
  BY <1>3, <1>4 DEF c

\* buffer_rectangle: the left quarters are copied to the opposite right ones.
LEMMA RectangleConfirms == Verdict("buffer_rectangle", After("buffer_rectangle")[6].mem)
<1> DEFINE p == "buffer_rectangle"
           M(i) == After(p)[i].mem
           up == QuarterFrom(<<0, 0>>, <<Half, Half>>)
           down == QuarterFrom(<<0, Half>>, <<Half, 0>>)
           X == M(0)["input"]
<1>1. p \in Programs /\ {"input", "buffer", "output"} \subseteq Names
  BY DEF Programs, Names, HostArrays, Arrays
<1>2. /\ Len(Steps(p)) = 7 /\ Steps(p)[1] = Transfer("write", "input", "buffer", {})
      /\ Steps(p)[2] = TransferRect("copy_1", "buffer", "buffer", up, {"write"})
      /\ Steps(p)[3] = TransferRect("copy_2", "buffer", "buffer", down, {"write"})
      /\ Steps(p)[4] = Marker("all_copies", {"copy_1", "copy_2"})
      /\ Steps(p)[5] = Transfer("read", "buffer", "output", {"all_copies"})
      /\ Steps(p)[6] = WaitFor({"read"})
  BY DEF Steps, buffer_rectangle, Synchronously, Transfer, TransferRect, Command
<1> HIDE DEF p, up, down
<1>3. \A i \in {1, 2, 3, 4, 5, 6} : i \in 1 .. Len(Steps(p))
  BY <1>2
<1>4. Replaces(M(0), M(1), "buffer", X)
  BY <1>1, <1>2, <1>3, 0 = 1 - 1, TransferStep
<1>5. Replaces(M(1), M(2), "buffer",
        [c \in Cells |-> IF c \in DOMAIN up THEN M(1)["buffer"][up[c]] ELSE M(1)["buffer"][c]])
  <2>1. Steps(p)[2] = TransferRect("copy_1", "buffer", "buffer", up, {"write"})
    BY <1>2
  <2>2. p \in Programs /\ 2 \in 1 .. Len(Steps(p)) /\ "buffer" \in Names
    BY <1>1, <1>3
  <2> QED
    BY <2>1, <2>2, 1 = 2 - 1, RectangleStep
<1>6. Replaces(M(2), M(3), "buffer",
        [c \in Cells |-> IF c \in DOMAIN down THEN M(2)["buffer"][down[c]]
                         ELSE M(2)["buffer"][c]])
  <2>1. Steps(p)[3] = TransferRect("copy_2", "buffer", "buffer", down, {"write"})
    BY <1>2
  <2>2. p \in Programs /\ 3 \in 1 .. Len(Steps(p)) /\ "buffer" \in Names
    BY <1>1, <1>3
  <2> QED
    BY <2>1, <2>2, 2 = 3 - 1, RectangleStep
<1>7. M(4) = M(3)
  <2>1. Steps(p)[4].op = "enqueue" /\ Steps(p)[4].args = <<>>
    BY <1>2 DEF Marker, Command
  <2> QED
    BY <1>1, <1>3, <2>1, 3 = 4 - 1, QuietStep
<1>8. Replaces(M(4), M(5), "output", M(4)["buffer"])
  BY <1>1, <1>2, <1>3, 4 = 5 - 1, TransferStep
<1>9. M(6) = M(5)
  <2>1. Steps(p)[6].op = "wait"
    BY <1>2 DEF WaitFor
  <2> QED
    BY <1>1, <1>3, <2>1, 5 = 6 - 1, QuietStep
<1> HIDE DEF M, X
<1>10. M(6)["input"] = X /\ M(6)["output"] = M(3)["buffer"] /\ M(1)["buffer"] = X
  BY <1>1, <1>4, <1>5, <1>6, <1>7, <1>8, <1>9 DEF Replaces, X
<1>11. ASSUME NEW c \in Cells
       PROVE  /\ M(2)["buffer"][c] = IF c \in DOMAIN up THEN X[up[c]] ELSE X[c]
              /\ M(3)["buffer"][c] = IF c \in DOMAIN down THEN M(2)["buffer"][down[c]]
                                     ELSE M(2)["buffer"][c]
  BY <1>5, <1>6, <1>10 DEF Replaces
<1>12. ASSUME NEW col \in Sides, NEW row \in Sides
       PROVE  M(3)["buffer"][Idx(col, row)] =
                X[IF col < Half THEN Idx(col, row)
                  ELSE Idx(col - Half, IF row < Half THEN row + Half ELSE row - Half)]
  <2> DEFINE c == Idx(col, row)
  <2>0. /\ Half \in Nat /\ col \in Nat /\ row \in Nat /\ row < Half + Half
        /\ 0 \in {0, Half} /\ Half \in {0, Half}
    BY HalfSide DEF Sides
  <2>1. c \in Cells
    BY CellOf
  <2>2. /\ c \in DOMAIN up <=> col >= Half /\ row >= Half /\ row < Half + Half
        /\ c \in DOMAIN up => up[c] = Idx(col - Half, row + 0 - Half)
    BY <2>0, QuarterOf DEF up
  <2>3. /\ c \in DOMAIN down <=> col >= Half /\ row >= 0 /\ row < 0 + Half
        /\ c \in DOMAIN down => /\ down[c] = Idx(col - Half, row + Half - 0)
                                /\ col - Half \in Sides /\ row + Half - 0 \in Sides
                                /\ col - Half < Half
    BY <2>0, QuarterOf DEF down
  <2> HIDE DEF c
  <2>4. CASE col < Half
    BY <1>11, <2>0, <2>1, <2>2, <2>3, <2>4 DEF c
  <2>5. CASE col >= Half /\ row >= Half
    <3>1. c \in DOMAIN up /\ c \notin DOMAIN down /\ row + 0 - Half = row - Half
          /\ ~(row < Half) /\ ~(col < Half)
      BY <2>0, <2>2, <2>3, <2>5
    <3> QED
      BY <1>11, <2>1, <2>2, <3>1 DEF c
  <2>6. CASE col >= Half /\ row < Half
    <3> DEFINE d == Idx(col - Half, row + Half)
    <3>1. /\ c \in DOMAIN down /\ row + Half - 0 = row + Half /\ down[c] = d
          /\ ~(col < Half) /\ col - Half \in Sides /\ row + Half \in Sides /\ col - Half < Half
      BY <2>0, <2>3, <2>6
    <3>2. d \in Cells
      BY <3>1, CellOf
    <3>3. d \in DOMAIN up <=> col - Half >= Half /\ row + Half >= Half
                               /\ row + Half < Half + Half
      BY <2>0, <3>1, QuarterOf DEF up
    <3>4. d \notin DOMAIN up
      BY <2>0, <3>1, <3>3
    <3>5. M(3)["buffer"][c] = X[d]
      <4> HIDE DEF d
      <4> QED
        BY <1>11, <2>1, <3>1, <3>2, <3>4
    <3> QED
      BY <2>6, <3>1, <3>5 DEF c
  <2> QED
    BY <2>0, <2>4, <2>5, <2>6
<1>13. \A col, row \in Sides :
         M(6)["output"][Idx(col, row)] =
           M(6)["input"][IF col < Half THEN Idx(col, row)
                         ELSE Idx(col - Half, IF row < Half THEN row + Half ELSE row - Half)]
  BY <1>10, <1>12
<1> QED
  BY <1>13 DEF M, p, Verdict

\* kernel_execution: all sums are the same.
LEMMA ExecutionConfirms == Verdict("kernel_execution", After("kernel_execution")[12].mem)
<1> DEFINE p == "kernel_execution"
           M(i) == After(p)[i].mem
<1>1. p \in Programs
      /\ {"input_A", "input_B", "A_buffer", "B_buffer", "output_buffer", "output"}
        \subseteq Names /\ {"input_A", "input_B"} \subseteq HostArrays
  BY DEF Programs, Names, HostArrays, Arrays
<1> USE DEF Steps, kernel_execution, CreateKernel, SetArguments, Synchronously, Transfer,
    TransferRect, Command
<1>2. Len(Steps(p)) = 13
  OBVIOUS
<1>s1. Steps(p)[1] = Build("build")
  OBVIOUS
<1>s2. Steps(p)[2] = Transfer("write_A", "input_A", "A_buffer", {})
  OBVIOUS
<1>s3. Steps(p)[3] = Transfer("write_B", "input_B", "B_buffer", {})
  OBVIOUS
<1>s4. Steps(p)[4] = Marker("all_writes", all_write_events)
  OBVIOUS
<1>s5. Steps(p)[5] = WaitFor({"build"})
  OBVIOUS
<1>s6. Steps(p)[6] = [op |-> "create_kernel", kernel |-> "kernel", run |-> "vector_add"]
  OBVIOUS
<1>s7. Steps(p)[7] = SetArgument("kernel", 1, "A_buffer")
  OBVIOUS
<1>s8. Steps(p)[8] = SetArgument("kernel", 2, "B_buffer")
  OBVIOUS
<1>s9. Steps(p)[9] = SetArgument("kernel", 3, "output_buffer")
  OBVIOUS
<1>s10. Steps(p)[10] = RangeKernel("exec", "kernel", {"all_writes"})
  OBVIOUS
<1>s11. Steps(p)[11] = Transfer("read", "output_buffer", "output", {"exec"})
  OBVIOUS
<1>s12. Steps(p)[12] = WaitFor({"read"})
  OBVIOUS
<1> HIDE DEF Steps, kernel_execution, CreateKernel, SetArguments, Synchronously, Transfer,
    TransferRect, Command
<1>v. Verdict(p, M(12)) <=> \A c \in Cells : M(12)["output"][c] = Side * Side + 1
  BY DEF Verdict
<1>h. /\ \A c \in Cells : HostArray(p, "input_A")[c] = c + 1
      /\ \A c \in Cells : HostArray(p, "input_B")[c] = Side * Side - c
  BY DEF HostArray
<1> HIDE DEF p
<1>3. \A i \in 1 .. 12 : i \in 1 .. Len(Steps(p))
  BY <1>2
<1>4. M(1) = M(0)
  <2>1. Steps(p)[1].op = "enqueue" /\ Steps(p)[1].args = <<>>
    BY <1>s1 DEF Build, Command
  <2> QED
    BY <1>1, <1>3, <2>1, 0 = 1 - 1, QuietStep
<1>5. Replaces(M(1), M(2), "A_buffer", M(1)["input_A"])
  BY <1>1, <1>s2, <1>3, 1 = 2 - 1, TransferStep
<1>6. Replaces(M(2), M(3), "B_buffer", M(2)["input_B"])
  BY <1>1, <1>s3, <1>3, 2 = 3 - 1, TransferStep
<1>7. M(4) = M(3)
  <2>1. Steps(p)[4].op = "enqueue" /\ Steps(p)[4].args = <<>>
    BY <1>s4 DEF Marker, Command
  <2> QED
    BY <1>1, <1>3, <2>1, 3 = 4 - 1, QuietStep
<1>8. M(5) = M(4)
  BY <1>1, <1>s5, <1>3, 4 = 5 - 1, QuietStep DEF WaitFor
<1>9. M(6) = M(5)
  BY <1>1, <1>s6, <1>3, 5 = 6 - 1, QuietStep
<1>10. M(7) = M(6)
  BY <1>1, <1>s7, <1>3, 6 = 7 - 1, QuietStep DEF SetArgument
<1>11. M(8) = M(7)
  BY <1>1, <1>s8, <1>3, 7 = 8 - 1, QuietStep DEF SetArgument
<1>12. M(9) = M(8)
  BY <1>1, <1>s9, <1>3, 8 = 9 - 1, QuietStep DEF SetArgument
<1>13. Has(After(p)[9].kernels, "kernel", "vector_add", <<"A_buffer", "B_buffer",
      "output_buffer">>)
  <2>1. Len(Steps(p)) \in Nat /\ 6 \in 1 .. Len(Steps(p)) /\ 9 <= Len(Steps(p))
    BY <1>2
  <2> QED
    BY <2>1, <1>s6, <1>s7, <1>s8, <1>s9, 7 = 6 + 1, 8 = 6 + 2, 9 = 6 + 3, ThreeArguments
<1>14. Replaces(M(9), M(10), "output_buffer",
         KernelOutput("vector_add", M(9)["A_buffer"], M(9)["B_buffer"]))
  <2> DEFINE args == <<"A_buffer", "B_buffer", "output_buffer">>
  <2>1. args # <<>> /\ args[Len(args)] = "output_buffer" /\ args[1] = "A_buffer"
        /\ args[2] = "B_buffer"
    OBVIOUS
  <2>2. Has(After(p)[9].kernels, "kernel", "vector_add", args) /\ 10 \in 1 .. Len(Steps(p))
    BY <1>3, <1>13
  <2> HIDE DEF args
  <2>3. Replaces(M(9), M(10), args[Len(args)],
          KernelOutput("vector_add", M(9)[args[1]], M(9)[args[2]]))
    BY <1>1, <2>1, <2>2, <1>s10, 9 = 10 - 1, LaunchStep
  <2> QED
    BY <2>1, <2>3
<1>15. Replaces(M(10), M(11), "output", M(10)["output_buffer"])
  BY <1>1, <1>s11, <1>3, 10 = 11 - 1, TransferStep
<1>16. M(12) = M(11)
  BY <1>1, <1>s12, <1>3, 11 = 12 - 1, QuietStep DEF WaitFor
<1>17. M(0)["input_A"] = HostArray(p, "input_A") /\ M(0)["input_B"] = HostArray(p, "input_B")
  BY <1>1, MemoryFirst
<1> HIDE DEF M
<1>18. M(9)["A_buffer"] = HostArray(p, "input_A") /\ M(9)["B_buffer"] = HostArray(p, "input_B")
  BY <1>1, <1>4, <1>5, <1>6, <1>7, <1>8, <1>9, <1>10, <1>11, <1>12, <1>17 DEF Replaces
<1>19. M(12)["output"] =
         KernelOutput("vector_add", HostArray(p, "input_A"), HostArray(p, "input_B"))
  BY <1>14, <1>15, <1>16, <1>18 DEF Replaces
<1>20. ASSUME NEW c \in Cells PROVE M(12)["output"][c] = Side * Side + 1
  <2>1. M(12)["output"][c] = HostArray(p, "input_A")[c] + HostArray(p, "input_B")[c]
    BY <1>19 DEF KernelOutput, VectorAdd
  <2>2. c \in Int /\ Side * Side \in Int
    BY HalfSide DEF Cells
  <2>3. (c + 1) + (Side * Side - c) = Side * Side + 1
    BY <2>2
  <2> QED
    BY <1>h, <2>1, <2>3
<1> QED
  BY <1>v, <1>20 DEF M, p

\* The naive kernel transposes, as the other one does (see LaunchTheorem).
LEMMA NaiveTransposes ==
  ASSUME NEW x, NEW y
  PROVE  KernelOutput("transpose_naive", x, y) = Transposed(x)
<1> DEFINE item(c) ==
             CHOOSE p \in Sides \X Sides :
               WorkItem("transpose_naive", x, y, p[1], p[2]).cell = c
<1>1. \A i, j : WorkItem("transpose_naive", x, y, i, j) = TransposeNaive(x, i, j)
  BY DEF WorkItem
<1>2. ASSUME NEW c \in Cells
      PROVE  WorkItem("transpose_naive", x, y, item(c)[1], item(c)[2]).value
               = x[Idx(c \div Side, c % Side)]
  <2>1. c % Side \in Sides /\ c \div Side \in Sides /\ Idx(c % Side, c \div Side) = c
    BY CellParts
  <2>2. \E p \in Sides \X Sides : WorkItem("transpose_naive", x, y, p[1], p[2]).cell = c
    <3> DEFINE p == <<c \div Side, c % Side>>
    <3>1. p \in Sides \X Sides /\ p[1] = c \div Side /\ p[2] = c % Side
      BY <2>1
    <3> HIDE DEF p
    <3>2. TransposeNaive(x, p[1], p[2]).cell = c
      BY <2>1, <3>1 DEF TransposeNaive
    <3> QED
      BY <1>1, <3>1, <3>2
  <2>3. /\ item(c) \in Sides \X Sides
        /\ WorkItem("transpose_naive", x, y, item(c)[1], item(c)[2]).cell = c
    BY <2>2
  <2> DEFINE i == item(c)[1]
             j == item(c)[2]
  <2>4. i \in Sides /\ j \in Sides /\ TransposeNaive(x, i, j).cell = c
    BY <1>1, <2>3
  <2> HIDE DEF item, i, j
  <2>5. Idx(j, i) = c
    BY <2>4 DEF TransposeNaive
  <2>6. j = c % Side /\ i = c \div Side
    BY <2>1, <2>4, <2>5, IdxInjective
  <2>7. TransposeNaive(x, i, j).value = x[Idx(c \div Side, c % Side)]
    BY <2>6 DEF TransposeNaive
  <2> QED
    BY <1>1, <2>7 DEF i, j
<1>3. Launch("transpose_naive", x, y) =
        [c \in Cells |-> WorkItem("transpose_naive", x, y, item(c)[1], item(c)[2]).value]
  BY DEF Launch
<1> HIDE DEF item
<1>4. Launch("transpose_naive", x, y) = [c \in Cells |-> x[Idx(c \div Side, c % Side)]]
  BY <1>2, <1>3
<1> QED
  BY <1>4 DEF KernelOutput, Transposed

\* event_profiling: both kernels transpose.
LEMMA ProfilingConfirms ==
  LET m == After("event_profiling")[19].mem IN m["output"] = m["output_naive"]
<1> DEFINE p == "event_profiling"
           M(i) == After(p)[i].mem
<1>1. /\ p \in Programs
      /\ {"input", "buffer", "local_memory", "output_buffer", "output_naive", "output"}
           \subseteq Names
  BY DEF Programs, Names, HostArrays, Arrays
<1> USE DEF Steps, event_profiling, CreateKernel, SetArguments, Synchronously, Transfer,
    TransferRect, Command
<1>2. Len(Steps(p)) = 20
  OBVIOUS
<1>s1. Steps(p)[1] = Build("build")
  OBVIOUS
<1>s2. Steps(p)[2] = Transfer("write", "input", "buffer", {})
  OBVIOUS
<1>s3. Steps(p)[3] = WaitFor({"build"})
  OBVIOUS
<1>s4. Steps(p)[4] = [op |-> "create_kernel", kernel |-> "naive", run |-> "transpose_naive"]
  OBVIOUS
<1>s5. Steps(p)[5] = SetArgument("naive", 1, "buffer")
  OBVIOUS
<1>s6. Steps(p)[6] = SetArgument("naive", 2, "output_buffer")
  OBVIOUS
<1>s7. Steps(p)[7] = RangeKernel("exec_naive", "naive", {"write"})
  OBVIOUS
<1>s8. Steps(p)[8] = Transfer("read_naive", "output_buffer", "output_naive", {"exec_naive"})
  OBVIOUS
<1>s9. Steps(p)[9] = WaitFor({"read_naive"})
  OBVIOUS
<1>s10. Steps(p)[10] = Profile("exec_naive")
  OBVIOUS
<1>s11. Steps(p)[11] = WaitFor({"build"})
  OBVIOUS
<1>s12. Steps(p)[12] = [op |-> "create_kernel", kernel |-> "local", run |-> "transpose_local"]
  OBVIOUS
<1>s13. Steps(p)[13] = SetArgument("local", 1, "buffer")
  OBVIOUS
<1>s14. Steps(p)[14] = SetArgument("local", 2, "local_memory")
  OBVIOUS
<1>s15. Steps(p)[15] = SetArgument("local", 3, "output_buffer")
  OBVIOUS
<1>s16. Steps(p)[16] = RangeKernel("exec_local", "local", {"write"})
  OBVIOUS
<1>s17. Steps(p)[17] = Transfer("read_local", "output_buffer", "output", {"exec_local"})
  OBVIOUS
<1>s18. Steps(p)[18] = WaitFor({"read_local"})
  OBVIOUS
<1>s19. Steps(p)[19] = Profile("exec_local")
  OBVIOUS
<1> HIDE DEF Steps, event_profiling, CreateKernel, SetArguments, Synchronously, Transfer,
    TransferRect, Command
<1> HIDE DEF p
<1>3. \A i \in 1 .. 19 : i \in 1 .. Len(Steps(p))
  BY <1>2
<1>4. Len(Steps(p)) \in Nat
  BY <1>2
<1>m1. M(1) = M(0)
  <2>1. Steps(p)[1].op = "enqueue" /\ Steps(p)[1].args = <<>>
    BY <1>s1 DEF Build, Command
  <2> QED
    BY <1>1, <1>3, <2>1, 0 = 1 - 1, QuietStep
<1>m2. Replaces(M(1), M(2), "buffer", M(1)["input"])
  <2>1. 2 \in 1 .. Len(Steps(p))
    BY <1>2
  <2> QED
    BY <1>1, <1>s2, <2>1, 1 = 2 - 1, TransferStep
<1>m3. M(3) = M(2)
  <2>1. 3 \in 1 .. Len(Steps(p)) /\ Steps(p)[3].op = "wait"
    BY <1>2, <1>s3 DEF WaitFor
  <2> QED
    BY <1>1, <2>1, 2 = 3 - 1, QuietStep
<1>m4. M(4) = M(3)
  <2>1. 4 \in 1 .. Len(Steps(p)) /\ Steps(p)[4].op = "create_kernel"
    BY <1>2, <1>s4
  <2> QED
    BY <1>1, <2>1, 3 = 4 - 1, QuietStep
<1>m5. M(5) = M(4)
  <2>1. 5 \in 1 .. Len(Steps(p)) /\ Steps(p)[5].op = "set_argument"
    BY <1>2, <1>s5 DEF SetArgument
  <2> QED
    BY <1>1, <2>1, 4 = 5 - 1, QuietStep
<1>m6. M(6) = M(5)
  <2>1. 6 \in 1 .. Len(Steps(p)) /\ Steps(p)[6].op = "set_argument"
    BY <1>2, <1>s6 DEF SetArgument
  <2> QED
    BY <1>1, <2>1, 5 = 6 - 1, QuietStep
<1>5. Has(After(p)[6].kernels, "naive", "transpose_naive", <<"buffer", "output_buffer">>)
  <2>1. 4 \in 1 .. Len(Steps(p)) /\ 6 <= Len(Steps(p))
    BY <1>2
  <2> QED
    BY <1>4, <2>1, <1>s4, <1>s5, <1>s6, 5 = 4 + 1, 6 = 4 + 2, TwoArguments
<1>m7. Replaces(M(6), M(7), "output_buffer",
         KernelOutput("transpose_naive", M(6)["buffer"], M(6)["output_buffer"]))
  <2> DEFINE args == <<"buffer", "output_buffer">>
  <2>1. args # <<>> /\ args[Len(args)] = "output_buffer" /\ args[1] = "buffer"
        /\ args[2] = "output_buffer"
    OBVIOUS
  <2>2. Has(After(p)[6].kernels, "naive", "transpose_naive", args) /\ 7 \in 1 .. Len(Steps(p))
    BY <1>3, <1>5
  <2> HIDE DEF args
  <2>3. Replaces(M(6), M(7), args[Len(args)],
          KernelOutput("transpose_naive", M(6)[args[1]], M(6)[args[2]]))
    BY <1>1, <2>1, <2>2, <1>s7, 6 = 7 - 1, LaunchStep
  <2> QED
    BY <2>1, <2>3
<1>m8. Replaces(M(7), M(8), "output_naive", M(7)["output_buffer"])
  <2>1. 8 \in 1 .. Len(Steps(p))
    BY <1>2
  <2> QED
    BY <1>1, <1>s8, <2>1, 7 = 8 - 1, TransferStep
<1>m9. M(9) = M(8)
  <2>1. 9 \in 1 .. Len(Steps(p)) /\ Steps(p)[9].op = "wait"
    BY <1>2, <1>s9 DEF WaitFor
  <2> QED
    BY <1>1, <2>1, 8 = 9 - 1, QuietStep
<1>m10. M(10) = M(9)
  <2>1. 10 \in 1 .. Len(Steps(p)) /\ Steps(p)[10].op = "profile"
    BY <1>2, <1>s10 DEF Profile
  <2> QED
    BY <1>1, <2>1, 9 = 10 - 1, QuietStep
<1>m11. M(11) = M(10)
  <2>1. 11 \in 1 .. Len(Steps(p)) /\ Steps(p)[11].op = "wait"
    BY <1>2, <1>s11 DEF WaitFor
  <2> QED
    BY <1>1, <2>1, 10 = 11 - 1, QuietStep
<1>m12. M(12) = M(11)
  <2>1. 12 \in 1 .. Len(Steps(p)) /\ Steps(p)[12].op = "create_kernel"
    BY <1>2, <1>s12
  <2> QED
    BY <1>1, <2>1, 11 = 12 - 1, QuietStep
<1>m13. M(13) = M(12)
  <2>1. 13 \in 1 .. Len(Steps(p)) /\ Steps(p)[13].op = "set_argument"
    BY <1>2, <1>s13 DEF SetArgument
  <2> QED
    BY <1>1, <2>1, 12 = 13 - 1, QuietStep
<1>m14. M(14) = M(13)
  <2>1. 14 \in 1 .. Len(Steps(p)) /\ Steps(p)[14].op = "set_argument"
    BY <1>2, <1>s14 DEF SetArgument
  <2> QED
    BY <1>1, <2>1, 13 = 14 - 1, QuietStep
<1>m15. M(15) = M(14)
  <2>1. 15 \in 1 .. Len(Steps(p)) /\ Steps(p)[15].op = "set_argument"
    BY <1>2, <1>s15 DEF SetArgument
  <2> QED
    BY <1>1, <2>1, 14 = 15 - 1, QuietStep
<1>6. Has(After(p)[15].kernels, "local", "transpose_local",
          <<"buffer", "local_memory", "output_buffer">>)
  <2>1. 12 \in 1 .. Len(Steps(p)) /\ 15 <= Len(Steps(p))
    BY <1>2
  <2> QED
    BY <1>4, <2>1, <1>s12, <1>s13, <1>s14, <1>s15, 13 = 12 + 1, 14 = 12 + 2, 15 = 12 + 3,
      ThreeArguments
<1>m16. Replaces(M(15), M(16), "output_buffer",
          KernelOutput("transpose_local", M(15)["buffer"], M(15)["local_memory"]))
  <2> DEFINE args == <<"buffer", "local_memory", "output_buffer">>
  <2>1. args # <<>> /\ args[Len(args)] = "output_buffer" /\ args[1] = "buffer"
        /\ args[2] = "local_memory"
    OBVIOUS
  <2>2. Has(After(p)[15].kernels, "local", "transpose_local", args)
        /\ 16 \in 1 .. Len(Steps(p))
    BY <1>3, <1>6
  <2> HIDE DEF args
  <2>3. Replaces(M(15), M(16), args[Len(args)],
          KernelOutput("transpose_local", M(15)[args[1]], M(15)[args[2]]))
    BY <1>1, <2>1, <2>2, <1>s16, 15 = 16 - 1, LaunchStep
  <2> QED
    BY <2>1, <2>3
<1>m17. Replaces(M(16), M(17), "output", M(16)["output_buffer"])
  <2>1. 17 \in 1 .. Len(Steps(p))
    BY <1>2
  <2> QED
    BY <1>1, <1>s17, <2>1, 16 = 17 - 1, TransferStep
<1>m18. M(18) = M(17)
  <2>1. 18 \in 1 .. Len(Steps(p)) /\ Steps(p)[18].op = "wait"
    BY <1>2, <1>s18 DEF WaitFor
  <2> QED
    BY <1>1, <2>1, 17 = 18 - 1, QuietStep
<1>m19. M(19) = M(18)
  <2>1. 19 \in 1 .. Len(Steps(p)) /\ Steps(p)[19].op = "profile"
    BY <1>2, <1>s19 DEF Profile
  <2> QED
    BY <1>1, <2>1, 18 = 19 - 1, QuietStep
<1> HIDE DEF M
<1>7. M(6) = M(2) /\ M(15) = M(8) /\ M(19) = M(17)
  BY <1>m3, <1>m4, <1>m5, <1>m6, <1>m9, <1>m10, <1>m11, <1>m12, <1>m13, <1>m14, <1>m15,
    <1>m18, <1>m19
<1>8. M(6)["buffer"] = M(15)["buffer"]
  BY <1>1, <1>m7, <1>m8, <1>7 DEF Replaces
<1>9. M(19)["output_naive"] =
      KernelOutput("transpose_naive", M(6)["buffer"], M(6)["output_buffer"])
  BY <1>1, <1>m7, <1>m8, <1>m16, <1>m17, <1>7 DEF Replaces
<1>10. M(19)["output"] = KernelOutput("transpose_local", M(6)["buffer"], M(15)["local_memory"])
  BY <1>1, <1>m16, <1>m17, <1>7, <1>8 DEF Replaces
<1>11. M(19)["output_naive"] = Transposed(M(6)["buffer"])
  BY <1>9, NaiveTransposes
<1>12. M(19)["output"] = Transposed(M(6)["buffer"])
  BY <1>10 DEF KernelOutput
<1>13. M(19)["output"] = M(19)["output_naive"]
  BY <1>11, <1>12
<1> QED
  BY <1>13 DEF M, p

\* Where they compare it.
CheckIs(p, n, arrays) ==
  \A i \in DOMAIN Steps(p) : Steps(p)[i].op = "check" => i = n /\ Steps(p)[i].arrays = arrays

LEMMA ProfilingCheck == CheckIs("event_profiling", 20, {"output_naive", "output"})
<1> DEFINE p == "event_profiling"
<1> USE DEF Steps, event_profiling, CreateKernel, SetArguments, Synchronously, Transfer,
    TransferRect, Command, Check, WaitFor, Build, SetArgument, Profile, RangeKernel
<1>0. DOMAIN Steps(p) = 1 .. 20
  OBVIOUS
<1>1. Steps(p)[1].op # "check"
  OBVIOUS
<1>2. Steps(p)[2].op # "check"
  OBVIOUS
<1>3. Steps(p)[3].op # "check"
  OBVIOUS
<1>4. Steps(p)[4].op # "check"
  OBVIOUS
<1>5. Steps(p)[5].op # "check"
  OBVIOUS
<1>6. Steps(p)[6].op # "check"
  OBVIOUS
<1>7. Steps(p)[7].op # "check"
  OBVIOUS
<1>8. Steps(p)[8].op # "check"
  OBVIOUS
<1>9. Steps(p)[9].op # "check"
  OBVIOUS
<1>10. Steps(p)[10].op # "check"
  OBVIOUS
<1>11. Steps(p)[11].op # "check"
  OBVIOUS
<1>12. Steps(p)[12].op # "check"
  OBVIOUS
<1>13. Steps(p)[13].op # "check"
  OBVIOUS
<1>14. Steps(p)[14].op # "check"
  OBVIOUS
<1>15. Steps(p)[15].op # "check"
  OBVIOUS
<1>16. Steps(p)[16].op # "check"
  OBVIOUS
<1>17. Steps(p)[17].op # "check"
  OBVIOUS
<1>18. Steps(p)[18].op # "check"
  OBVIOUS
<1>19. Steps(p)[19].op # "check"
  OBVIOUS
<1>20. Steps(p)[20].arrays = {"output_naive", "output"}
  OBVIOUS
<1> HIDE DEF p, Steps
<1>21. \A i \in 1 .. 19 : Steps(p)[i].op # "check"
  BY <1>1, <1>2, <1>3, <1>4, <1>5, <1>6, <1>7, <1>8, <1>9, <1>10, <1>11, <1>12, <1>13,
    <1>14, <1>15, <1>16, <1>17, <1>18, <1>19
<1>22. \A i \in 1 .. 20 : i \in 1 .. 19 \/ i = 20
  OBVIOUS
<1>23. CheckIs(p, 20, {"output_naive", "output"})
  BY <1>0, <1>20, <1>21, <1>22 DEF CheckIs
<1> QED
  BY <1>23 DEF p

LEMMA ChecksAre ==
  /\ CheckIs("buffer_readwrite", 4, {"input", "output"})
  /\ CheckIs("buffer_copy", 5, {"input", "output"})
  /\ CheckIs("buffer_rectangle", 7, {"input", "output"})
  /\ CheckIs("kernel_execution", 13, {"input_A", "input_B", "output"})
  /\ CheckIs("event_profiling", 20, {"output_naive", "output"})
<1> USE DEF Steps, Check, Transfer, TransferRect, Command, Finish, WaitFor, Synchronously,
    Marker, Build, RangeKernel, SetArgument, Profile, CreateKernel, SetArguments
<1>1. CheckIs("buffer_readwrite", 4, {"input", "output"})
  BY DEF CheckIs, buffer_readwrite
<1>2. CheckIs("buffer_copy", 5, {"input", "output"})
  BY DEF CheckIs, buffer_copy
<1>3. CheckIs("buffer_rectangle", 7, {"input", "output"})
  BY DEF CheckIs, buffer_rectangle
<1>4. CheckIs("kernel_execution", 13, {"input_A", "input_B", "output"})
  BY DEF CheckIs, kernel_execution
<1>5. CheckIs("event_profiling", 20, {"output_naive", "output"})
  BY ProfilingCheck
<1> QED
  BY <1>1, <1>2, <1>3, <1>4, <1>5

\* Memory of which the arrays compared are these.
LEMMA Confirmed ==
  ASSUME PipeInv, MemoryInv, At("check"), program # "application_matmul",
         program # "buffer_fill_map", \A e \in Events : Status(e) = "complete"
  PROVE  Verdict(program, mem)
<1>1. /\ step \in DOMAIN Steps(program) /\ Steps(program)[step].op = "check"
      /\ program \in Programs
  BY DEF At, PipeInv, Known
<1>2. \A a \in Names : mem[a] = After(program)[step - 1].mem[a]
  BY <1>1, CompleteInOrder DEF InOrder
<1>3. {"input", "output", "output_naive"} \subseteq Names
  BY DEF Names, HostArrays, Arrays
<1>4. CASE program = "buffer_readwrite"
  <2>1. step - 1 = 3
    BY <1>1, <1>4, ChecksAre DEF CheckIs
  <2> QED
    BY <1>2, <1>3, <1>4, <2>1, ReadwriteConfirms DEF Verdict
<1>5. CASE program = "buffer_copy"
  <2>1. step - 1 = 4
    BY <1>1, <1>5, ChecksAre DEF CheckIs
  <2> QED
    BY <1>2, <1>3, <1>5, <2>1, CopyConfirms DEF Verdict
<1>6. CASE program = "buffer_rectangle"
  <2>1. step - 1 = 6
    BY <1>1, <1>6, ChecksAre DEF CheckIs
  <2>2. mem["output"] = After("buffer_rectangle")[6].mem["output"]
        /\ mem["input"] = After("buffer_rectangle")[6].mem["input"]
    BY <1>2, <1>3, <1>6, <2>1
  <2> QED
    BY <1>6, <2>2, RectangleConfirms DEF Verdict
<1>7. CASE program = "kernel_execution"
  <2>1. step - 1 = 12
    BY <1>1, <1>7, ChecksAre DEF CheckIs
  <2>2. mem["output"] = After("kernel_execution")[12].mem["output"]
    BY <1>2, <1>3, <1>7, <2>1
  <2> QED
    BY <1>7, <2>2, ExecutionConfirms DEF Verdict
<1>8. CASE program = "event_profiling"
  <2>1. step - 1 = 19
    BY <1>1, <1>8, ChecksAre DEF CheckIs
  <2> QED
    BY <1>2, <1>3, <1>8, <2>1, ProfilingConfirms DEF Verdict
<1> QED
  BY <1>1, <1>4, <1>5, <1>6, <1>7, <1>8 DEF Programs

\* What the examples expect of their results holds: of all but application_matmul, for
\* every even side and any failures, none ends in std::abort(), except
\* buffer_readwrite after a failure that finish() does not tell.
THEOREM AbortsTheorem == PipeSpec => []AbortsForCause
<1>1. (\E p \in Examples : PipeInit(p)) => AbortsForCause
  BY PipelinesAssumption DEF PipeInit, Programs, AbortsForCause
<1>2. PipeInv /\ MemoryInv /\ AbortsForCause /\ [PipeNext]_pipeVars => AbortsForCause'
  <2> SUFFICES ASSUME PipeInv, MemoryInv, AbortsForCause, [PipeNext]_pipeVars
               PROVE  AbortsForCause'
    OBVIOUS
  <2>1. CASE Compare
    <3>1. At("check") /\ UNCHANGED <<program, failures>>
      BY <2>1 DEF Compare
    <3>2. CASE Verdict(program, mem) \/ program = "buffer_fill_map"
      BY <2>1, <3>2 DEF Compare, Advance, At, AbortsForCause
    <3>3. CASE ~Verdict(program, mem) /\ program # "buffer_fill_map"
      <4>1. program = "application_matmul" \/ \E e \in Events : Status(e) # "complete"
        BY <3>1, <3>3, Confirmed
      <4>2. StepScheduled(program, step) /\ Steps(program)[step].op = "check"
        BY <3>1, AllScheduled DEF At, PipeInv, Known, Scheduled
      <4>3. CASE \E e \in Events : Status(e) # "complete"
        <5>1. program = "buffer_readwrite" /\ AllSettled(program, step)
          BY <4>2, <4>3, CompleteThere DEF StepScheduled
        <5>2. \E e \in Events : Status(e) = "failed"
          BY <4>3, <5>1, SettledThere DEF Settled
        <5> QED
          BY <3>1, <5>1, <5>2 DEF MemoryInv, Counted, AbortsForCause
      <4> QED
        BY <3>1, <4>1, <4>3 DEF AbortsForCause
    <3> QED
      BY <3>2, <3>3
  <2>2. ASSUME NEW e \in Events, Fail(e) PROVE AbortsForCause'
    BY <2>2 DEF Fail, AbortsForCause, MemoryInv, Counted
  <2>3. CASE UNCHANGED <<program, failures>> /\ (host' = host \/ host' # "aborted")
    BY <2>3 DEF AbortsForCause
  <2>4. \/ UNCHANGED <<program, failures>> /\ (host' = host \/ host' # "aborted")
        \/ Compare
        \/ \E e \in Events : Fail(e)
    BY DEF PipeNext, pipeVars, Enqueue, Submit, Advance, Stop, SetKernel, Wait, FinishQueue,
      ProfileEvent, Return, Start, End, Abandon
  <2> QED
    BY <2>1, <2>2, <2>3, <2>4
<1>3. (\E p \in Examples : PipeInit(p)) => PipeInv /\ MemoryInv
  BY PipeInvInit, MemoryInvInit
<1>4. PipeInv /\ MemoryInv /\ [PipeNext]_pipeVars => (PipeInv /\ MemoryInv)'
  BY PipeInvNext, MemoryInvNext
<1> QED
  BY <1>1, <1>2, <1>3, <1>4, PTL DEF PipeSpec
=============================================================================
