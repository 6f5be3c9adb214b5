---------------------- MODULE TimeDeinterleaverProofs ----------------------
(* Proofs about TimeDeinterleaver: the place in a TI block stays in        *)
(* bounds, and every variable in its type, every TI block of a frame is    *)
(* delivered and holds what it should, for all numbers and shapes of PLPs  *)
(* and all frames.                                                         *)
EXTENDS TimeDeinterleaver, Arithmetic

(* Arithmetic that the solver is not left to find.                         *)
LEMMA RowFits ==
  ASSUME NEW r \in Nat \ {0}, NEW c \in Nat, NEW j \in 0..(c - 1)
  PROVE  /\ j * r \in Nat /\ c * r \in Nat
         /\ j * r + r = (j + 1) * r
         /\ (j + 1) * r <= c * r
         /\ j * r + r = c * r <=> j + 1 = c
  OBVIOUS

LEMMA Share ==
  ASSUME NEW a \in Nat \ {0}, NEW k \in Nat \ {0}, a >= k
  PROVE  /\ a \div k \in 1..a /\ a % k \in 0..(k - 1)
         /\ k > 1 => a \div k + 1 <= a
<1>1. a = (k * (a \div k)) + (a % k) /\ a \div k \in Int /\ a % k \in 0..(k - 1)
  OBVIOUS
<1> QED
  BY <1>1

LEMMA Shapes ==
  ASSUME NEW l \in Layouts, NEW p \in Ids
  PROVE  /\ Rows[p] \in Nat \ {0} /\ NTi[p] \in Nat \ {0} /\ NSplit \in Nat \ {0}
         /\ l[p].num_blocks \in Nat \ {0} /\ l[p].num_blocks >= NTi[p]
         /\ SliceSize(l, p) = l[p].num_blocks * NSplit * Rows[p]
         /\ 0..(SliceSize(l, p) - 1) \subseteq DOMAIN Perm[p]
<1>1. Rows[p] \in Nat \ {0} /\ NTi[p] \in Nat \ {0} /\ NSplit \in Nat \ {0}
  BY SizeAssumption
<1>2. l[p].num_blocks \in Nat /\ l[p].num_blocks >= NTi[p]
  BY LayoutAssumption
<1>3. l[p].num_blocks * (Rows[p] * NSplit) = l[p].num_blocks * NSplit * Rows[p]
  BY <1>1, <1>2
<1>4. 0..(SliceSize(l, p) - 1) \subseteq DOMAIN Perm[p]
  BY PermAssumption
<1> QED
  BY <1>1, <1>2, <1>3, <1>4 DEF SliceSize, Fec

(* A TI block holds a FEC block at least, and no more than the slice.      *)
LEMMA ColumnsFit ==
  ASSUME NEW l \in Layouts, NEW p \in Ids, NEW j \in 0..(NTi[p] - 1)
  PROVE  Columns(l, p)[j] \in 1..(l[p].num_blocks * NSplit)
<1> DEFINE nb == l[p].num_blocks
           more == IF j >= NTi[p] - (nb % NTi[p]) THEN 1 ELSE 0
           f == nb \div NTi[p] + more
<1>1. /\ nb \in Nat \ {0} /\ NTi[p] \in Nat \ {0} /\ NSplit \in Nat \ {0} /\ nb >= NTi[p]
  BY Shapes
<1>2. /\ nb \div NTi[p] \in 1..nb /\ nb % NTi[p] \in 0..(NTi[p] - 1)
      /\ NTi[p] > 1 => nb \div NTi[p] + 1 <= nb
  BY <1>1, Share
<1>3. f \in 1..nb
  BY <1>1, <1>2
<1>4. Columns(l, p)[j] = f * NSplit
  BY DEF Columns
<1> HIDE DEF f
<1>5. f * NSplit \in Nat \ {0} /\ f * NSplit <= nb * NSplit
  BY <1>1, <1>3, Monotone
<1> QED
  BY <1>4, <1>5

(***************************************************************************)
(* Once a frame has been announced, the columns are those of its layout,   *)
(* the size of the TI block is a number of rows of the present PLP that    *)
(* its slice can hold, and the step counts whole columns short of it.      *)
(***************************************************************************)
Shaped(l, p, size, step) ==
  \E c \in 1..(l[p].num_blocks * NSplit) :
    /\ size = c * Rows[p]
    /\ \E j \in 0..(c - 1) : step = j * Rows[p]

PlaceInv ==
  /\ l1_post \in Layouts /\ plp_id \in Ids /\ left \in Nat
  /\ idx_time_il \in 0..(NTi[plp_id] - 1)
  /\ idx_row_ti \in 0..(Rows[plp_id] - 1)
  /\ start_t2_frame => (left = 0 /\ symbol = Symbols + 1)
  /\ ~start_t2_frame =>
       /\ num_cols = [p \in Ids |-> Columns(l1_post, p)]
       /\ Shaped(l1_post, plp_id, ti_block_size, idx_step_ti)

LEMMA PlaceInit == Init => PlaceInv
<1> SUFFICES ASSUME Init PROVE PlaceInv
  OBVIOUS
<1>1. 0 \in Ids /\ Rows[0] \in Nat \ {0} /\ NTi[0] \in Nat \ {0}
  BY SizeAssumption DEF Ids
<1> QED
  BY <1>1 DEF Init, PlaceInv

(* A TI block that begins.                                                 *)
LEMMA Begun ==
  ASSUME NEW l \in Layouts, NEW p \in Ids, NEW j \in 0..(NTi[p] - 1), NEW cols,
         cols = [q \in Ids |-> Columns(l, q)]
  PROVE  Shaped(l, p, Size(cols, p, j), 0)
<1>1. /\ cols[p][j] \in 1..(l[p].num_blocks * NSplit)
      /\ Size(cols, p, j) = cols[p][j] * Rows[p]
  BY ColumnsFit DEF Size
<1>2. l[p].num_blocks * NSplit \in Nat /\ Rows[p] \in Nat
  BY Shapes
<1>3. 0 \in 0..(cols[p][j] - 1) /\ 0 = 0 * Rows[p]
  BY <1>1, <1>2
<1> QED
  BY <1>1, <1>3 DEF Shaped

(* The place is one of the block and of the permutation.                   *)
LEMMA Inside ==
  ASSUME PlaceInv, ~start_t2_frame
  PROVE  /\ idx_step_ti + idx_row_ti \in DOMAIN Perm[plp_id]
         /\ idx_step_ti + idx_row_ti < ti_block_size
         /\ idx_step_ti + idx_row_ti \in 0..(SliceSize(l1_post, plp_id) - 1)
         /\ idx_step_ti \in Nat /\ ti_block_size \in Nat
<1>1. PICK c \in 1..(l1_post[plp_id].num_blocks * NSplit) :
        /\ ti_block_size = c * Rows[plp_id]
        /\ \E j \in 0..(c - 1) : idx_step_ti = j * Rows[plp_id]
  BY DEF PlaceInv, Shaped
<1> PICK j \in 0..(c - 1) : idx_step_ti = j * Rows[plp_id]
  BY <1>1
<1>2. /\ Rows[plp_id] \in Nat \ {0} /\ l1_post[plp_id].num_blocks * NSplit \in Nat
      /\ SliceSize(l1_post, plp_id) = l1_post[plp_id].num_blocks * NSplit * Rows[plp_id]
      /\ 0..(SliceSize(l1_post, plp_id) - 1) \subseteq DOMAIN Perm[plp_id]
  BY Shapes DEF PlaceInv
<1>3. /\ idx_step_ti \in Nat /\ ti_block_size \in Nat
      /\ idx_step_ti + Rows[plp_id] <= ti_block_size
  BY <1>1, <1>2, RowFits
<1>4. ti_block_size <= SliceSize(l1_post, plp_id)
  BY <1>1, <1>2, Monotone
<1>5. /\ idx_step_ti + idx_row_ti \in Nat /\ idx_step_ti + idx_row_ti < ti_block_size
      /\ SliceSize(l1_post, plp_id) \in Int
  BY <1>1, <1>2, <1>3 DEF PlaceInv
<1> QED
  BY <1>2, <1>4, <1>5, <1>3

LEMMA NextBlock ==
  ASSUME NEW n \in Nat \ {0}, NEW i \in 0..(n - 1)
  PROVE  IF i + 1 = n THEN (i + 1) % n = 0
         ELSE (i + 1) % n = i + 1 /\ i + 1 \in 0..(n - 1)
  OBVIOUS

(* The first cell of a frame is that of some PLP.                          *)
LEMMA FirstIsPlp ==
  ASSUME NEW l \in Layouts
  PROVE  First(l) \in Ids
  BY LayoutAssumption DEF First

LEMMA PlaceAnnounce ==
  ASSUME PlaceInv, NEW l \in Layouts, Announce(l)
  PROVE  PlaceInv'
<1>1. /\ l1_post' = l /\ plp_id' = First(l) /\ First(l) \in Ids
      /\ idx_time_il' = 0 /\ idx_row_ti' = 0 /\ idx_step_ti' = 0
      /\ start_t2_frame' = FALSE /\ left' = P2Cells
      /\ num_cols' = [p \in Ids |-> Columns(l, p)]
      /\ ti_block_size' = Size(num_cols', First(l), 0)
  BY FirstIsPlp DEF Announce, Restart
<1>2. NTi[First(l)] \in Nat \ {0} /\ Rows[First(l)] \in Nat \ {0} /\ P2Cells \in Nat
  BY <1>1, SizeAssumption
<1>3. 0 \in 0..(NTi[First(l)] - 1) /\ 0 \in 0..(Rows[First(l)] - 1)
  BY <1>2
<1>4. Shaped(l, First(l), ti_block_size', 0)
  BY <1>1, <1>3, Begun
<1> QED
  BY <1>1, <1>2, <1>3, <1>4 DEF PlaceInv

LEMMA PlaceWithin ==
  ASSUME PlaceInv, Place
  PROVE  PlaceInv'
<1>1. ~start_t2_frame /\ left \in Nat /\ left > 0 /\ left' = left - 1
  BY DEF PlaceInv, Place, Counted
<1>2. UNCHANGED <<frameVars, start_t2_frame, plp_id, idx_time_il, ti_block_size>>
  BY DEF Place, Counted
<1>3. PICK c \in 1..(l1_post[plp_id].num_blocks * NSplit) :
        /\ ti_block_size = c * Rows[plp_id]
        /\ \E j \in 0..(c - 1) : idx_step_ti = j * Rows[plp_id]
  BY <1>1 DEF PlaceInv, Shaped
<1> PICK j \in 0..(c - 1) : idx_step_ti = j * Rows[plp_id]
  BY <1>3
<1>4. /\ Rows[plp_id] \in Nat \ {0} /\ l1_post[plp_id].num_blocks * NSplit \in Nat
      /\ idx_row_ti \in 0..(Rows[plp_id] - 1)
  BY Shapes DEF PlaceInv
<1>5. c \in Nat /\ j \in Nat
  BY <1>3, <1>4
<1>6. /\ idx_row_ti' \in 0..(Rows[plp_id] - 1)
      /\ \E i \in 0..(c - 1) : idx_step_ti' = i * Rows[plp_id]
  <2>1. CASE RowEnds
    <3>1. idx_step_ti' = 0 /\ idx_row_ti' = idx_row_ti + 1 /\ idx_row_ti + 1 # Rows[plp_id]
      BY <2>1 DEF Place, BlockEnds
    <3>2. 0 \in 0..(c - 1) /\ 0 = 0 * Rows[plp_id]
      BY <1>3, <1>4
    <3> QED
      BY <1>4, <3>1, <3>2
  <2>2. CASE ~RowEnds
    <3>1. /\ idx_step_ti' = idx_step_ti + Rows[plp_id] /\ idx_row_ti' = idx_row_ti
          /\ idx_step_ti + Rows[plp_id] # ti_block_size
      BY <2>2 DEF Place, RowEnds
    <3>2. idx_step_ti' = (j + 1) * Rows[plp_id] /\ j + 1 # c
      BY <1>3, <1>4, <1>5, <3>1, RowFits
    <3>3. j + 1 \in 0..(c - 1)
      BY <1>3, <1>5, <3>2
    <3> QED
      BY <1>4, <3>1, <3>2, <3>3
  <2> QED
    BY <2>1, <2>2
<1>7. Shaped(l1_post, plp_id, ti_block_size, idx_step_ti')
  BY <1>3, <1>6 DEF Shaped
<1> QED
  BY <1>1, <1>2, <1>6, <1>7 DEF PlaceInv, frameVars

LEMMA PlaceComplete ==
  ASSUME PlaceInv, Complete
  PROVE  PlaceInv'
<1> DEFINE over == idx_time_il + 1 = NTi[plp_id]
           turn == over /\ idx_cell = slice_end[plp_id] /\ Following # {}
<1>1. ~start_t2_frame /\ left \in Nat /\ left > 0 /\ left' = left - 1
  BY DEF PlaceInv, Complete, Counted
<1>2. /\ UNCHANGED <<frameVars, start_t2_frame>>
      /\ idx_step_ti' = 0 /\ idx_row_ti' = 0
      /\ idx_time_il' = (idx_time_il + 1) % NTi[plp_id]
      /\ plp_id' = IF turn THEN CHOOSE p \in Following : TRUE ELSE plp_id
      /\ ~over => ti_block_size' = Size(num_cols, plp_id, idx_time_il + 1)
      /\ turn => ti_block_size' = Size(num_cols, plp_id', 0)
      /\ (over /\ ~turn) => ti_block_size' = ti_block_size
  BY DEF Complete, Counted, NextIl
<1>3. /\ l1_post \in Layouts /\ plp_id \in Ids /\ idx_time_il \in 0..(NTi[plp_id] - 1)
      /\ num_cols = [p \in Ids |-> Columns(l1_post, p)]
      /\ NTi[plp_id] \in Nat \ {0} /\ Rows[plp_id] \in Nat \ {0}
  BY <1>1, SizeAssumption DEF PlaceInv
<1>4. /\ plp_id' \in Ids /\ idx_time_il' \in 0..(NTi[plp_id'] - 1)
      /\ Shaped(l1_post, plp_id', ti_block_size', 0)
  <2>1. CASE ~over
    <3>1. plp_id' = plp_id /\ ti_block_size' = Size(num_cols, plp_id, idx_time_il + 1)
      BY <1>2, <2>1
    <3>2. idx_time_il' = idx_time_il + 1 /\ idx_time_il + 1 \in 0..(NTi[plp_id] - 1)
      BY <1>2, <1>3, <2>1, NextBlock
    <3>3. Shaped(l1_post, plp_id, Size(num_cols, plp_id, idx_time_il + 1), 0)
      BY <1>3, <3>2, Begun
    <3> QED
      BY <1>3, <3>1, <3>2, <3>3
  <2>2. CASE turn
    <3>1. plp_id' \in Ids /\ ti_block_size' = Size(num_cols, plp_id', 0)
      BY <1>2, <2>2 DEF Following
    <3>2. idx_time_il' = 0
      BY <1>2, <1>3, <2>2, NextBlock
    <3>3. 0 \in 0..(NTi[plp_id'] - 1)
      BY <3>1, SizeAssumption
    <3>4. Shaped(l1_post, plp_id', Size(num_cols, plp_id', 0), 0)
      BY <1>3, <3>1, <3>3, Begun
    <3> QED
      BY <3>1, <3>2, <3>3, <3>4
  <2>3. CASE over /\ ~turn
    <3>1. plp_id' = plp_id /\ ti_block_size' = ti_block_size
      BY <1>2, <2>3
    <3>2. idx_time_il' = 0
      BY <1>2, <1>3, <2>3, NextBlock
    <3>3. PICK c \in 1..(l1_post[plp_id].num_blocks * NSplit) :
            ti_block_size = c * Rows[plp_id]
      BY <1>1 DEF PlaceInv, Shaped
    <3>4. l1_post[plp_id].num_blocks * NSplit \in Nat
      BY <1>3, Shapes
    <3>5. 0 \in 0..(c - 1) /\ 0 = 0 * Rows[plp_id]
      BY <1>3, <3>3, <3>4
    <3>6. Shaped(l1_post, plp_id, ti_block_size, 0)
      BY <3>3, <3>5 DEF Shaped
    <3> QED
      BY <1>3, <3>1, <3>2, <3>6
  <2> QED
    BY <2>1, <2>2, <2>3
<1>5. 0 \in 0..(Rows[plp_id'] - 1)
  BY <1>4, SizeAssumption
<1> QED
  BY <1>1, <1>2, <1>3, <1>4, <1>5 DEF PlaceInv, frameVars

(* Every action leaves the place where the invariant wants it.             *)
LEMMA PlaceStep == PlaceInv /\ [Next]_vars => PlaceInv'
<1> SUFFICES ASSUME PlaceInv, [Next]_vars PROVE PlaceInv'
  OBVIOUS
<1>1. ASSUME NEW l \in Layouts, Announce(l) PROVE PlaceInv'
  BY <1>1, PlaceAnnounce
<1>2. CASE Unannounced
  BY <1>2 DEF Unannounced, PlaceInv, tiVars
<1>3. CASE Symbol
  BY <1>3, SizeAssumption DEF Symbol, PlaceInv, tiVars
<1>4. CASE Place
  BY <1>4, PlaceWithin
<1>5. CASE Complete
  BY <1>5, PlaceComplete
<1>6. CASE Take
  BY <1>6 DEF Take, PlaceInv, tiVars, frameVars
<1>7. CASE Done
  BY <1>7 DEF Done, PlaceInv, tiVars, frameVars
<1>8. CASE UNCHANGED vars
  BY <1>8 DEF vars, PlaceInv, tiVars, frameVars
<1> QED
  BY <1>1, <1>2, <1>3, <1>4, <1>5, <1>6, <1>7, <1>8 DEF Next, Frame

(***************************************************************************)
(* The place idx_step_ti + idx_row_ti at which a cell is about to be put,  *)
(* execute(), is one of the TI block and one for which the permutation of  *)
(* its PLP has an address, for every number of PLPs and every size of      *)
(* their FEC blocks, TI blocks and slices, whatever frames come.           *)
(***************************************************************************)
THEOREM InBoundsHolds == Spec => []InBounds
<1>1. PlaceInv => InBounds
  <2> SUFFICES ASSUME PlaceInv, left > 0 PROVE InBounds
    BY DEF InBounds
  <2>1. ~start_t2_frame
    BY DEF PlaceInv
  <2> QED
    BY <2>1, Inside DEF InBounds
<1> QED
  BY PlaceInit, PlaceStep, <1>1, PTL DEF Spec

----------------------------------------------------------------------------
(* Types.                                                                  *)

(* An address stays in its FEC block, and so do the one before and the     *)
(* last one of it.                                                         *)
LEMMA WithinFec ==
  ASSUME NEW f \in Nat \ {0}, NEW n \in Nat, NEW d \in 0..(n * f - 1), NEW a \in Nat,
         a \div f = d \div f
  PROVE  /\ a \in 0..(n * f - 1)
         /\ a % f = 0 => a + f - 1 \in 0..(n * f - 1)
         /\ a % f # 0 => a - 1 \in 0..(n * f - 1)
<1> DEFINE q == d \div f
           size == n * f
           base == q * f
<1>1. f \in Nat \ {0} /\ n \in Nat /\ a \in Nat /\ size \in Nat
  OBVIOUS
<1>2. d \in Nat /\ d < size
  BY <1>1
<1>3. /\ q \in Nat /\ d = base + (d % f) /\ d % f \in 0..(f - 1)
      /\ a = base + (a % f) /\ a % f \in 0..(f - 1)
  BY <1>1, <1>2, Divided
<1> HIDE DEF q
<1>4. base \in Nat /\ (q + 1) * f = base + f
  BY <1>1, <1>3
<1>5. q + 1 <= n
  <2> SUFFICES ASSUME n <= q PROVE FALSE
    BY <1>1, <1>3
  <2>1. size <= base
    BY <1>1, <1>3, Monotone
  <2> HIDE DEF size, base
  <2> QED
    BY <1>1, <1>2, <1>3, <1>4, <2>1
<1>6. (q + 1) * f <= size
  BY <1>1, <1>3, <1>5, Monotone
<1>7. base + f <= size
  BY <1>4, <1>6
<1>8. a \in 0..(size - 1) /\ (a % f = 0 => a + f - 1 \in 0..(size - 1))
      /\ (a % f # 0 => a - 1 \in 0..(size - 1))
  <2> HIDE DEF size, base
  <2> QED
    BY <1>1, <1>3, <1>4, <1>7
<1> QED
  BY <1>8

LEMMA AddressFits ==
  ASSUME PlaceInv, left > 0
  PROVE  /\ Address \in Addresses /\ Address \in Nat
         /\ Address % Fec(plp_id) = 0 => Address + Fec(plp_id) - 1 \in Addresses
         /\ Address % Fec(plp_id) # 0 => Address - 1 \in Addresses
<1> DEFINE d == idx_step_ti + idx_row_ti
           n == l1_post[plp_id].num_blocks
           f == Fec(plp_id)
<1>1. /\ l1_post \in Layouts /\ plp_id \in Ids /\ ~start_t2_frame
  BY DEF PlaceInv
<1>2. d \in DOMAIN Perm[plp_id] /\ d \in 0..(n * f - 1)
  BY <1>1, Inside DEF SliceSize
<1>3. Address \in Nat /\ Address \div f = d \div f
  BY <1>1, <1>2, PermAssumption DEF Address
<1>4. 0..(n * f - 1) \subseteq Addresses
  BY <1>1, Shapes DEF SliceSize, Addresses
<1>5. n \in Nat /\ f \in Nat \ {0}
  BY <1>1, Shapes DEF Fec
<1> HIDE DEF d, n, f
<1>6. /\ Address \in 0..(n * f - 1)
      /\ Address % f = 0 => Address + f - 1 \in 0..(n * f - 1)
      /\ Address % f # 0 => Address - 1 \in 0..(n * f - 1)
  BY <1>2, <1>3, <1>5, WithinFec
<1> QED
  BY <1>3, <1>4, <1>6 DEF f

(* What is still to come of the frame.                                     *)
Rest == left + (Symbols + 1 - symbol) * Cells

(***************************************************************************)
(* The cells that have come in and those that are still to come are those  *)
(* of a frame; a frame nobody announced begins at a place from which it    *)
(* stays within the bound.                                                 *)
(***************************************************************************)
CountInv ==
  /\ left \in Nat /\ symbol \in 1..(Symbols + 1) /\ cell \in Nat /\ idx_cell \in Nat
  /\ cell + Rest <= FrameCells
  /\ idx_cell + Rest <= MaxCell + FrameCells

BufferInv ==
  /\ swap_buffers \in BOOLEAN
  /\ time_deint_cell = (IF swap_buffers THEN "a" ELSE "b")
  /\ end_cell_fec_block \in Addresses /\ q_first_cell_fec_block \in CellNames
  /\ buffer \in [{"a", "b"} -> [Addresses -> [re : CellNames, im : CellNames]]]

QueueInv ==
  /\ queue \in Seq(Signal) /\ Len(queue) <= MaxQueue
  /\ reading \in Signal \cup {NoBlock}
  /\ late \in BOOLEAN /\ delivered \in Nat

FrameInv ==
  /\ slice_end \in [Ids -> Int]
  /\ start_t2_frame \in BOOLEAN /\ announced \in BOOLEAN
  /\ ti_block_size \in Nat /\ idx_step_ti \in Nat

TypeInv == PlaceInv /\ CountInv /\ BufferInv /\ QueueInv /\ FrameInv

LEMMA Sizes ==
  /\ Cells \in Nat \ {0} /\ P2Cells \in Nat \ {0} /\ Symbols \in Nat /\ MaxCell \in Nat
  /\ Symbols * Cells \in Nat /\ FrameCells \in Nat /\ FrameCells = P2Cells + Symbols * Cells
  BY SizeAssumption DEF FrameCells

(* No more cells are to come than the frame has.                           *)
LEMMA RestIsNat == CountInv => Rest \in Nat
<1> SUFFICES ASSUME CountInv PROVE Rest \in Nat
  OBVIOUS
<1>1. Symbols + 1 - symbol \in Nat /\ Cells \in Nat /\ left \in Nat
  BY Sizes DEF CountInv
<1> QED
  BY <1>1 DEF Rest

LEMMA CellTypes ==
  CountInv => cell \in 0..FrameCells /\ idx_cell \in 0..(MaxCell + FrameCells)
  BY RestIsNat, Sizes DEF CountInv

LEMMA TypeInvIsType == TypeInv => TypeOK
<1> SUFFICES ASSUME TypeInv PROVE TypeOK
  OBVIOUS
<1>1. Handed \subseteq Signal
  BY DEF TypeInv, QueueInv, Handed
<1> QED
  BY <1>1, CellTypes DEF TypeInv, PlaceInv, CountInv, BufferInv, QueueInv, FrameInv, TypeOK

LEMMA TypeInit == Init => TypeInv
<1> SUFFICES ASSUME Init PROVE TypeInv
  OBVIOUS
<1>1. CountInv
  <2>1. left = 0 /\ symbol = Symbols + 1 /\ cell = 0 /\ idx_cell = 0
    BY DEF Init
  <2>2. Rest = 0
    BY <2>1, Sizes DEF Rest
  <2> QED
    BY <2>1, <2>2, Sizes DEF CountInv
<1>2. BufferInv
  <2>1. PICK l \in Layouts, p \in Ids : TRUE
    BY PlaceInit DEF PlaceInv
  <2>2. 0 \in 0..(SliceSize(l, p) - 1)
    <3>1. l[p].num_blocks * NSplit \in Nat \ {0} /\ Rows[p] \in Nat \ {0}
      BY Shapes
    <3> QED
      BY <3>1, Shapes
  <2>3. 0 \in Addresses
    BY <2>2, Shapes DEF Addresses
  <2>4. -1 \in CellNames
    BY Sizes DEF CellNames
  <2> QED
    BY <2>3, <2>4 DEF Init, BufferInv, Empty
<1>3. QueueInv
  <2>1. <<>> \in Seq(Signal) /\ Len(<<>>) = 0
    OBVIOUS
  <2>2. /\ queue = <<>> /\ reading = NoBlock /\ late = FALSE /\ delivered = 0
        /\ MaxQueue \in Nat
    BY SizeAssumption DEF Init
  <2>3. Len(queue) <= MaxQueue
    BY <2>1, <2>2
  <2> QED
    BY <2>1, <2>2, <2>3 DEF QueueInv
<1>4. FrameInv
  <2>1. slice_end \in [Ids -> Int]
    <3>1. 0 \in Int /\ slice_end = [p \in Ids |-> 0]
      BY DEF Init
    <3> QED
      BY <3>1
  <2> QED
    BY <2>1 DEF Init, FrameInv
<1> QED
  BY <1>1, <1>2, <1>3, <1>4, PlaceInit DEF TypeInv

LEMMA CountStep == CountInv /\ [Next]_vars => CountInv'
<1> SUFFICES ASSUME CountInv, [Next]_vars PROVE CountInv'
  OBVIOUS
<1> USE Sizes
<1>1. ASSUME NEW l \in Layouts, Announce(l) PROVE CountInv'
  <2>1. left' = P2Cells /\ symbol' = 1 /\ cell' = 0 /\ idx_cell' = 0
    BY <1>1 DEF Announce
  <2>2. Rest' = FrameCells
    BY <2>1 DEF Rest
  <2> QED
    BY <2>1, <2>2 DEF CountInv
<1>2. CASE Unannounced
  <2>1. /\ left = 0 /\ left' = 0 /\ symbol' = 1 /\ cell' = 0 /\ idx_cell' = idx_cell
        /\ idx_cell + Symbols * Cells <= MaxCell
    BY <1>2 DEF Unannounced
  <2>2. Rest' = Symbols * Cells
    BY <2>1 DEF Rest
  <2> QED
    BY <2>1, <2>2 DEF CountInv
<1>3. CASE Symbol
  <2>1. /\ left = 0 /\ left' = Cells /\ symbol <= Symbols /\ symbol' = symbol + 1
        /\ UNCHANGED <<cell, idx_cell>>
    BY <1>3 DEF Symbol
  <2>2. Rest' = Rest
    <3>1. Symbols - symbol \in Nat
      BY <2>1 DEF CountInv
    <3>2. Cells + (Symbols - symbol) * Cells = ((Symbols - symbol) + 1) * Cells
      BY <3>1
    <3>3. Symbols + 1 - symbol' = Symbols - symbol /\ Symbols + 1 - symbol = (Symbols - symbol) + 1
      BY <2>1 DEF CountInv
    <3>4. (Symbols - symbol) * Cells \in Nat /\ ((Symbols - symbol) + 1) * Cells \in Nat
      BY <3>1
    <3> QED
      BY <2>1, <3>2, <3>3, <3>4 DEF Rest
  <2> QED
    BY <2>1, <2>2 DEF CountInv
<1>4. CASE Counted
  <2>1. /\ left > 0 /\ left' = left - 1 /\ cell' = cell + 1 /\ idx_cell' = idx_cell + 1
        /\ symbol' = symbol
    BY <1>4 DEF Counted, frameVars
  <2>2. Rest' = Rest - 1 /\ Rest \in Nat
    <3>1. (Symbols + 1 - symbol) * Cells \in Nat
      BY DEF CountInv
    <3> QED
      BY <2>1, <3>1, RestIsNat DEF Rest, CountInv
  <2> QED
    BY <2>1, <2>2 DEF CountInv
<1>5. CASE UNCHANGED <<left, symbol, cell, idx_cell>>
  BY <1>5 DEF CountInv, Rest
<1> QED
  BY <1>1, <1>2, <1>3, <1>4, <1>5
    DEF Next, Frame, Place, Complete, Take, Done, vars, frameVars

(* A cell is put into the buffer of the present TI block.                  *)
LEMMA StoreTypes ==
  ASSUME TypeInv, left > 0, Store
  PROVE  /\ end_cell_fec_block' \in Addresses /\ q_first_cell_fec_block' \in CellNames
         /\ buffer' \in [{"a", "b"} -> [Addresses -> [re : CellNames, im : CellNames]]]
<1> DEFINE Cell == [re : CellNames, im : CellNames]
           old == buffer[time_deint_cell]
<1>1. /\ Address \in Addresses /\ Address \in Nat
      /\ Address % Fec(plp_id) = 0 => Address + Fec(plp_id) - 1 \in Addresses
      /\ Address % Fec(plp_id) # 0 => Address - 1 \in Addresses
  BY AddressFits DEF TypeInv
<1>2. This \in CellNames
  BY CellTypes, Sizes DEF This, TypeInv, CellNames
<1>3. time_deint_cell \in {"a", "b"} /\ old \in [Addresses -> Cell]
  BY DEF TypeInv, BufferInv
<1>4. end_cell_fec_block \in Addresses /\ q_first_cell_fec_block \in CellNames
  BY DEF TypeInv, BufferInv
<1>5. end_cell_fec_block' \in Addresses /\ q_first_cell_fec_block' \in CellNames
  BY <1>1, <1>2, <1>4 DEF Store
<1>6. PutQ(old) \in [Addresses -> Cell]
  BY <1>1, <1>2, <1>3, <1>4 DEF PutQ
<1>7. PutI(PutQ(old)) \in [Addresses -> Cell]
  BY <1>1, <1>2, <1>6 DEF PutI
<1>8. Flush(PutI(PutQ(old))) \in [Addresses -> Cell]
  BY <1>5, <1>7 DEF Flush
<1>9. buffer' = [buffer EXCEPT ![time_deint_cell] = Flush(PutI(PutQ(old)))]
  BY <1>3 DEF Store, TypeInv, BufferInv
<1> QED
  BY <1>3, <1>5, <1>8, <1>9 DEF TypeInv, BufferInv

LEMMA BufferStep == TypeInv /\ [Next]_vars => BufferInv'
<1> SUFFICES ASSUME TypeInv, [Next]_vars PROVE BufferInv'
  OBVIOUS
<1>1. ASSUME NEW l \in Layouts, Announce(l) PROVE BufferInv'
  BY <1>1 DEF Announce, TypeInv, BufferInv
<1>2. CASE Place
  BY <1>2, StoreTypes DEF Place, Counted, TypeInv, BufferInv
<1>3. CASE Complete
  <2>1. /\ left > 0 /\ Store /\ swap_buffers' = ~swap_buffers
        /\ time_deint_cell' = IF swap_buffers THEN "b" ELSE "a"
    BY <1>3 DEF Complete, Counted, Emit, Swap
  <2>2. swap_buffers \in BOOLEAN
    BY DEF TypeInv, BufferInv
  <2> QED
    BY <2>1, <2>2, StoreTypes DEF BufferInv
<1>4. CASE UNCHANGED bufferVars
  BY <1>4 DEF TypeInv, BufferInv, bufferVars
<1> QED
  BY <1>1, <1>2, <1>3, <1>4
    DEF Next, Frame, Unannounced, Symbol, Take, Done, vars

LEMMA QueueStep == TypeInv /\ [Next]_vars => QueueInv'
<1> SUFFICES ASSUME TypeInv, [Next]_vars PROVE QueueInv'
  OBVIOUS
<1>1. QueueInv /\ MaxQueue \in Nat
  BY SizeAssumption DEF TypeInv
<1>2. ASSUME NEW l \in Layouts, Announce(l) PROVE QueueInv'
  BY <1>1, <1>2 DEF Announce, demapVars, QueueInv
<1>3. CASE Unannounced \/ Symbol \/ Place
  BY <1>1, <1>3 DEF Unannounced, Symbol, Place, demapVars, QueueInv
<1>4. CASE Complete
  <2> DEFINE s == [buf |-> IF swap_buffers THEN "a" ELSE "b", size |-> ti_block_size,
                   plp |-> plp_id, l1 |-> l1_post,
                   block |-> IF announced THEN delivered + 1 ELSE 0]
  <2>1. s \in Signal
    BY <1>1 DEF Signal, TypeInv, PlaceInv, FrameInv, QueueInv
  <2>2. /\ queue' = Append(queue, s) /\ Len(queue) < MaxQueue
        /\ late' = (late \/ queue # <<>>) /\ delivered' = delivered + 1
        /\ UNCHANGED reading
    BY <1>4 DEF Complete, Emit
  <2> HIDE DEF s
  <2> QED
    BY <1>1, <2>1, <2>2 DEF QueueInv
<1>5. CASE Take
  BY <1>1, <1>5 DEF Take, QueueInv
<1>6. CASE Done
  BY <1>1, <1>6 DEF Done, QueueInv
<1>7. CASE UNCHANGED vars
  BY <1>1, <1>7 DEF vars, demapVars, QueueInv
<1> QED
  BY <1>2, <1>3, <1>4, <1>5, <1>6, <1>7 DEF Next, Frame

LEMMA FrameStep == TypeInv /\ PlaceInv' /\ [Next]_vars => FrameInv'
<1> SUFFICES ASSUME TypeInv, PlaceInv', [Next]_vars PROVE FrameInv'
  OBVIOUS
<1>1. CASE start_t2_frame'
  <2>1. UNCHANGED <<slice_end, start_t2_frame, announced, ti_block_size, idx_step_ti>>
    <3> USE DEF PlaceInv
    <3>a. left = 0 => ~Counted
      BY DEF Counted
    <3>b. ~Unannounced
      BY <1>1 DEF Unannounced
    <3>c. ~Symbol
      <4> SUFFICES ASSUME Symbol PROVE FALSE
        OBVIOUS
      <4>1. start_t2_frame /\ symbol <= Symbols
        BY <1>1 DEF Symbol
      <4>2. symbol = Symbols + 1 /\ Symbols \in Nat
        BY <4>1, Sizes DEF TypeInv
      <4> QED
        BY <4>1, <4>2
    <3>d. ~Counted
      <4> SUFFICES ASSUME Counted PROVE FALSE
        OBVIOUS
      <4>1. start_t2_frame
        BY <1>1 DEF Counted
      <4>2. left = 0
        BY <4>1 DEF TypeInv
      <4> QED
        BY <3>a, <4>2
    <3>1. ~Counted /\ ~Unannounced /\ ~Symbol
      BY <3>b, <3>c, <3>d
    <3>2. ASSUME NEW l \in Layouts PROVE ~Announce(l)
      BY <1>1 DEF Announce
    <3> QED
      BY <3>1, <3>2 DEF Next, Frame, Place, Complete, Take, Done, vars, frameVars, tiVars
  <2> QED
    BY <2>1 DEF TypeInv, FrameInv
<1>2. CASE ~start_t2_frame'
  <2>1. idx_step_ti' \in Nat /\ ti_block_size' \in Nat
    <3>1. PICK c \in 1..(l1_post'[plp_id'].num_blocks * NSplit) :
            /\ ti_block_size' = c * Rows[plp_id']
            /\ \E j \in 0..(c - 1) : idx_step_ti' = j * Rows[plp_id']
      BY <1>2 DEF PlaceInv, Shaped
    <3>2. l1_post'[plp_id'].num_blocks * NSplit \in Nat /\ Rows[plp_id'] \in Nat
      BY Shapes DEF PlaceInv
    <3>3. c \in Nat
      BY <3>1, <3>2
    <3> QED
      BY <3>1, <3>2, <3>3
  <2>2. slice_end' \in [Ids -> Int] /\ start_t2_frame' \in BOOLEAN /\ announced' \in BOOLEAN
    <3>1. ASSUME NEW l \in Layouts, Announce(l)
          PROVE  slice_end' \in [Ids -> Int] /\ start_t2_frame' = FALSE /\ announced' = TRUE
      <4>1. PICK fec \in SecondFec : slice_end' = [p \in Ids |-> SliceEnd(l, p, fec)]
        BY <3>1 DEF Announce
      <4>2. fec \in Int
        <5>1. CASE Plps > 1
          <6>1. 1 \in Ids
            BY <5>1, SizeAssumption DEF Ids
          <6> QED
            BY <5>1, <6>1, SizeAssumption DEF SecondFec, Fec
        <5>2. CASE ~(Plps > 1)
          BY <5>2, SizeAssumption DEF SecondFec
        <5> QED
          BY <5>1, <5>2
      <4>3. ASSUME NEW p \in Ids PROVE SliceEnd(l, p, fec) \in Int
        <5>1. l[p].start \in Int /\ l[p].num_blocks \in Int
          BY LayoutAssumption, Sizes
        <5> QED
          BY <4>2, <5>1 DEF SliceEnd
      <4> QED
        BY <3>1, <4>1, <4>3 DEF Announce
    <3>2. ASSUME UNCHANGED <<slice_end, start_t2_frame>>, announced' \in {announced, FALSE}
          PROVE  slice_end' \in [Ids -> Int] /\ start_t2_frame' \in BOOLEAN /\ announced' \in BOOLEAN
      BY <3>2 DEF TypeInv, FrameInv
    <3> QED
      BY <3>1, <3>2
        DEF Next, Frame, Unannounced, Symbol, Place, Complete, Counted, Take, Done, vars, frameVars
  <2> QED
    BY <2>1, <2>2 DEF FrameInv
<1> QED
  BY <1>1, <1>2

LEMMA TypeStep == TypeInv /\ [Next]_vars => TypeInv'
  BY PlaceStep, CountStep, BufferStep, QueueStep, FrameStep DEF TypeInv

(***************************************************************************)
(* Every variable stays in its type: no buffer is written at an address    *)
(* that it does not have, not for the Q component that goes before or is   *)
(* held back either, and no frame brings in more cells than it has.        *)
(***************************************************************************)
THEOREM TypeCorrect == Spec => []TypeOK
  BY TypeInit, TypeStep, TypeInvIsType, PTL DEF Spec

----------------------------------------------------------------------------
(* How the FEC blocks of a slice are shared out among its TI blocks.       *)

(* Those of the first m TI blocks.                                         *)
Shared(nb, n, m) ==
  m * (nb \div n) + (IF m > n - (nb % n) THEN m - (n - (nb % n)) ELSE 0)

LEMMA ShareOf ==
  ASSUME NEW nb \in Nat, NEW n \in Nat \ {0}, NEW k \in 1..n
  PROVE  (nb + k - 1) \div n = nb \div n + (IF k > n - (nb % n) THEN 1 ELSE 0)
<1> DEFINE q == nb \div n
           r == nb % n
<1>1. q \in Nat /\ r \in 0..(n - 1) /\ nb = q * n + r
  BY Divided
<1> HIDE DEF q, r
<1>2. q * n \in Nat /\ (q + 1) * n = q * n + n
  BY <1>1
<1>3. CASE k > n - r
  <2> DEFINE s == r + k - 1 - n
             m == q + 1
  <2>1. s \in 0..(n - 1) /\ nb + k - 1 = m * n + s /\ m \in Nat
    BY <1>1, <1>2, <1>3
  <2> HIDE DEF s, m
  <2>2. (m * n + s) \div n = m
    BY <2>1, Quotient
  <2> QED
    BY <1>3, <2>1, <2>2 DEF m, q, r
<1>4. CASE ~(k > n - r)
  <2> DEFINE s == r + k - 1
  <2>1. s \in 0..(n - 1) /\ nb + k - 1 = q * n + s
    BY <1>1, <1>2, <1>4
  <2> HIDE DEF s
  <2>2. (q * n + s) \div n = q
    BY <1>1, <2>1, Quotient
  <2>3. q + 0 = q
    BY <1>1
  <2> QED
    BY <1>4, <2>1, <2>2, <2>3 DEF q, r
<1> QED
  BY <1>3, <1>4

LEMMA SharedSteps ==
  ASSUME NEW nb \in Nat, NEW n \in Nat \ {0}
  PROVE  /\ Shared(nb, n, 0) = 0 /\ Shared(nb, n, n) = nb
         /\ \A m \in 0..n : Shared(nb, n, m) \in Nat /\ Shared(nb, n, m) <= nb
         /\ \A k \in 1..n : Shared(nb, n, k) = Shared(nb, n, k - 1) + ((nb + k - 1) \div n)
<1> DEFINE q == nb \div n
           r == nb % n
           Over(m) == IF m > n - r THEN m - (n - r) ELSE 0
<1>1. q \in Nat /\ r \in 0..(n - 1) /\ nb = q * n + r
  BY Divided
<1>2. \A m : Shared(nb, n, m) = m * q + Over(m)
  BY DEF Shared
<1>3. \A k \in 1..n : (nb + k - 1) \div n = q + (IF k > n - r THEN 1 ELSE 0)
  BY ShareOf
<1> HIDE DEF q, r
<1>4. Shared(nb, n, 0) = 0
  <2>1. 0 * q = 0 /\ Over(0) = 0
    BY <1>1
  <2> QED
    BY <1>2, <2>1
<1>5. Shared(nb, n, n) = nb
  <2>1. n * q = q * n /\ Over(n) = r /\ q * n \in Nat
    BY <1>1
  <2> QED
    BY <1>1, <1>2, <2>1
<1>6. ASSUME NEW m \in 0..n PROVE Shared(nb, n, m) \in Nat /\ Shared(nb, n, m) <= nb
  <2>1. m * q \in Nat /\ m * q <= n * q /\ n * q = q * n
    BY <1>1, Monotone
  <2>2. Over(m) \in Nat /\ Over(m) <= r
    BY <1>1
  <2> HIDE DEF Over
  <2> QED
    BY <1>1, <1>2, <2>1, <2>2
<1>7. ASSUME NEW k \in 1..n
      PROVE  Shared(nb, n, k) = Shared(nb, n, k - 1) + ((nb + k - 1) \div n)
  <2>1. k * q = (k - 1) * q + q /\ (k - 1) * q \in Nat
    BY <1>1
  <2>2. Over(k) = Over(k - 1) + (IF k > n - r THEN 1 ELSE 0) /\ Over(k - 1) \in Nat
    BY <1>1
  <2>3. Shared(nb, n, k) = k * q + Over(k) /\ Shared(nb, n, k - 1) = (k - 1) * q + Over(k - 1)
    BY <1>2
  <2>4. (nb + k - 1) \div n = q + (IF k > n - r THEN 1 ELSE 0)
    BY <1>3
  <2> HIDE DEF Over
  <2> QED
    BY <1>1, <2>1, <2>2, <2>3, <2>4
<1> QED
  BY <1>4, <1>5, <1>6, <1>7

(* Before is defined by recursion over the TI blocks; this is what it is.  *)
LEMMA BeforeIs ==
  ASSUME NEW l \in Layouts, NEW p \in Ids, NEW k \in 1..NTi[p]
  PROVE  Before(l, p, k) = Shared(l[p].num_blocks, NTi[p], k - 1)
<1> DEFINE nb == l[p].num_blocks
           n == NTi[p]
           S(m) == Shared(nb, n, m)
           Is(f) == f = [i \in 1..k |-> IF i = 1 THEN 0 ELSE f[i - 1] + FecsOf(l, p, i - 1)]
           g == [i \in 1..k |-> S(i - 1)]
<1>1. nb \in Nat /\ n \in Nat \ {0}
  BY Shapes
<1>2. S(0) = 0 /\ \A i \in 1..n : S(i) = S(i - 1) + FecsOf(l, p, i)
  BY <1>1, SharedSteps DEF FecsOf
<1> HIDE DEF S
<1>3. Is(g)
  <2>1. ASSUME NEW i \in 1..k
        PROVE  S(i - 1) = IF i = 1 THEN 0 ELSE g[i - 1] + FecsOf(l, p, i - 1)
    <3>1. CASE i = 1
      BY <1>2, <3>1
    <3>2. CASE i # 1
      <4>1. i - 1 \in 1..n /\ i - 1 \in 1..k
        BY <1>1, <3>2
      <4> QED
        BY <1>2, <3>2, <4>1
    <3> QED
      BY <3>1, <3>2
  <2>2. g = [i \in 1..k |-> IF i = 1 THEN 0 ELSE g[i - 1] + FecsOf(l, p, i - 1)]
    BY <2>1
  <2> QED
    BY <2>2
<1>4. Before(l, p, k) = (CHOOSE f : Is(f))[k]
  BY DEF Before
<1> DEFINE h == CHOOSE f : Is(f)
<1>5. Is(h)
  <2> HIDE DEF Is
  <2> QED
    BY <1>3
<1>6. \A i \in 1..k : h[i] = IF i = 1 THEN 0 ELSE h[i - 1] + FecsOf(l, p, i - 1)
  <2> HIDE DEF h
  <2> QED
    BY <1>5
<1> HIDE DEF h
<1> DEFINE T == {i \in 0..k : i = 0 \/ h[i] = S(i - 1)}
<1>7. 0..k \subseteq T
  <2>1. 0 \in T /\ k \in Nat
    BY <1>1
  <2>2. ASSUME NEW i \in 0..(k - 1), i \in T PROVE i + 1 \in T
    <3>1. CASE i = 0
      BY <1>2, <1>6, <3>1
    <3>2. CASE i # 0
      <4>1. i \in 1..n /\ i + 1 \in 1..k /\ (i + 1) - 1 = i
        BY <1>1, <3>2
      <4>2. h[i + 1] = h[i] + FecsOf(l, p, i)
        BY <1>6, <3>2, <4>1
      <4>3. h[i] = S(i - 1)
        BY <2>2, <3>2
      <4>4. S(i) = S(i - 1) + FecsOf(l, p, i)
        BY <1>2, <4>1
      <4> QED
        BY <4>1, <4>2, <4>3, <4>4
    <3> QED
      BY <3>1, <3>2
  <2> HIDE DEF T
  <2> QED
    BY <2>1, <2>2, Induction
<1>8. h[k] = S(k - 1)
  <2>1. k \in 0..k /\ k # 0
    BY <1>1
  <2> QED
    BY <1>7, <2>1
<1> QED
  BY <1>4, <1>8 DEF h, S

(* The slice is cut without a rest, and the columns of the code are those  *)
(* of the definition.                                                      *)
LEMMA BlocksFollow ==
  ASSUME NEW l \in Layouts, NEW p \in Ids, NEW k \in 1..NTi[p]
  PROVE  /\ Before(l, p, k) \in Nat /\ FecsOf(l, p, k) \in Nat \ {0}
         /\ Before(l, p, k) + FecsOf(l, p, k) <= l[p].num_blocks
         /\ k = 1 => Before(l, p, k) = 0
         /\ IF k = NTi[p] THEN Before(l, p, k) + FecsOf(l, p, k) = l[p].num_blocks
            ELSE Before(l, p, k + 1) = Before(l, p, k) + FecsOf(l, p, k)
         /\ Columns(l, p)[k - 1] = FecsOf(l, p, k) * NSplit
<1> DEFINE nb == l[p].num_blocks
           n == NTi[p]
           f == FecsOf(l, p, k)
           S(m) == Shared(nb, n, m)
<1>1. nb \in Nat \ {0} /\ n \in Nat \ {0} /\ nb >= n /\ NSplit \in Nat
  BY Shapes
<1>2. /\ S(0) = 0 /\ S(n) = nb
      /\ \A m \in 0..n : S(m) \in Nat /\ S(m) <= nb
      /\ S(k) = S(k - 1) + f
  BY <1>1, SharedSteps DEF FecsOf
<1>3. f = nb \div n + (IF k > n - (nb % n) THEN 1 ELSE 0)
  <2>1. nb \in Nat /\ n \in Nat \ {0} /\ k \in 1..n
    BY <1>1
  <2>2. (nb + k - 1) \div n = nb \div n + (IF k > n - (nb % n) THEN 1 ELSE 0)
    BY ONLY <2>1, ShareOf
  <2> QED
    BY <2>2 DEF FecsOf
<1>4. nb \div n \in 1..nb /\ nb % n \in 0..(n - 1)
  BY <1>1, Share
<1>5. Before(l, p, k) = S(k - 1)
  BY BeforeIs
<1>6. k # n => Before(l, p, k + 1) = S(k)
  <2> SUFFICES ASSUME k # n PROVE Before(l, p, k + 1) = S(k)
    OBVIOUS
  <2>1. k + 1 \in 1..NTi[p] /\ (k + 1) - 1 = k
    BY <1>1
  <2>2. Before(l, p, k + 1) = Shared(l[p].num_blocks, NTi[p], (k + 1) - 1)
    BY ONLY <2>1, l \in Layouts, p \in Ids, BeforeIs
  <2> QED
    BY <2>1, <2>2
<1>7. Columns(l, p)[k - 1] = f * NSplit
  <2>1. k - 1 \in 0..(n - 1) /\ (k - 1 >= n - (nb % n) <=> k > n - (nb % n))
    BY <1>1, <1>4
  <2>2. Columns(l, p)[k - 1] =
          (nb \div n + (IF k - 1 >= n - (nb % n) THEN 1 ELSE 0)) * NSplit
    BY <2>1 DEF Columns
  <2>3. (IF k - 1 >= n - (nb % n) THEN 1 ELSE 0) = (IF k > n - (nb % n) THEN 1 ELSE 0)
    BY <2>1
  <2> QED
    BY <1>3, <2>2, <2>3
<1>8. f \in Nat \ {0} /\ k \in 0..n /\ k - 1 \in 0..n
  <2>1. f \in Nat \ {0}
    BY <1>1, <1>3, <1>4
  <2> QED
    BY <1>1, <2>1
<1> HIDE DEF f, S, nb
<1>9. S(k - 1) \in Nat /\ S(k) <= nb
  BY <1>2, <1>8
<1> QED
  BY <1>2, <1>5, <1>6, <1>7, <1>8, <1>9 DEF f, nb

----------------------------------------------------------------------------
(* How the TI blocks of a frame are numbered.                              *)

BlocksOfAll(S) == UNION {BlocksOf(q) : q \in S}

Earlier(l, p) == {r \in Ids : l[r].start < l[p].start}

LEMMA BlocksCount ==
  ASSUME NEW p \in Ids
  PROVE  IsFiniteSet(BlocksOf(p)) /\ Cardinality(BlocksOf(p)) = NTi[p]
<1>1. NTi[p] \in Nat \ {0}
  BY SizeAssumption
<1>2. IsFiniteSet(1..NTi[p]) /\ Cardinality(1..NTi[p]) = NTi[p]
  BY <1>1, FS_Interval
<1>3. BlocksOf(p) = {p} \X (1..NTi[p])
  BY DEF BlocksOf
<1>4. IsFiniteSet({p}) /\ Cardinality({p}) = 1
  BY FS_Singleton
<1>5. /\ IsFiniteSet({p} \X (1..NTi[p]))
      /\ Cardinality({p} \X (1..NTi[p])) = 1 * NTi[p]
  <2> DEFINE S == {p}
             T == 1..NTi[p]
  <2> HIDE DEF S, T
  <2>1. /\ IsFiniteSet(S \X T)
        /\ Cardinality(S \X T) = Cardinality(S) * Cardinality(T)
    BY ONLY <1>2, <1>4, FS_Product DEF S, T
  <2> QED
    BY ONLY <1>2, <1>4, <2>1 DEF S, T
<1> QED
  BY <1>1, <1>3, <1>5

LEMMA AllCount ==
  ASSUME NEW S \in SUBSET Ids
  PROVE  IsFiniteSet(BlocksOfAll(S)) /\ Cardinality(BlocksOfAll(S)) \in Nat
<1>1. IsFiniteSet(Ids)
  BY SizeAssumption, FS_Interval DEF Ids
<1>2. IsFiniteSet(S)
  BY <1>1, FS_Subset
<1>3. IsFiniteSet({BlocksOf(q) : q \in S})
  <2> DEFINE T == {BlocksOf(q) : q \in S}
             f == [q \in S |-> BlocksOf(q)]
  <2>1. f \in Surjection(S, T)
    BY DEF Surjection
  <2> HIDE DEF T, f
  <2>2. IsFiniteSet(T)
    BY ONLY <1>2, <2>1, FS_Surjection
  <2> QED
    BY ONLY <2>2 DEF T
<1>4. \A T \in {BlocksOf(q) : q \in S} : IsFiniteSet(T)
  BY BlocksCount
<1>5. IsFiniteSet(BlocksOfAll(S))
  BY <1>3, <1>4, FS_UNION DEF BlocksOfAll
<1> QED
  BY <1>5, FS_CardinalityType

(* One PLP more.                                                           *)
LEMMA AllAnd ==
  ASSUME NEW S \in SUBSET Ids, NEW p \in Ids, p \notin S
  PROVE  Cardinality(BlocksOfAll(S \cup {p})) = Cardinality(BlocksOfAll(S)) + NTi[p]
<1>1. BlocksOfAll(S \cup {p}) = BlocksOfAll(S) \cup BlocksOf(p)
  BY DEF BlocksOfAll
<1>2. BlocksOfAll(S) \cap BlocksOf(p) = {}
  BY DEF BlocksOfAll, BlocksOf
<1>3. /\ IsFiniteSet(BlocksOfAll(S)) /\ Cardinality(BlocksOfAll(S)) \in Nat
      /\ IsFiniteSet(BlocksOf(p)) /\ Cardinality(BlocksOf(p)) = NTi[p] /\ NTi[p] \in Nat
  BY AllCount, BlocksCount, SizeAssumption
<1> DEFINE A == BlocksOfAll(S)
           B == BlocksOf(p)
<1>4. Cardinality(A \cup B) = Cardinality(A) + Cardinality(B) - Cardinality(A \cap B)
  <2>1. IsFiniteSet(A) /\ IsFiniteSet(B)
    BY <1>3
  <2> HIDE DEF A, B
  <2> QED
    BY ONLY <2>1, FS_Union
<1>5. Cardinality(A \cap B) = 0
  BY ONLY <1>2, FS_EmptySet
<1>6. Cardinality(BlocksOfAll(S \cup {p})) = Cardinality(A \cup B)
  BY ONLY <1>1
<1> HIDE DEF A, B
<1>7. Cardinality(A) \in Nat /\ Cardinality(B) = NTi[p] /\ NTi[p] \in Nat
  BY ONLY <1>3 DEF A, B
<1>8. Cardinality(A \cup B) = Cardinality(A) + NTi[p]
  BY ONLY <1>4, <1>5, <1>7
<1> QED
  BY ONLY <1>6, <1>8 DEF A

LEMMA NumberIs ==
  ASSUME NEW l, NEW p \in Ids, NEW k \in Nat
  PROVE  /\ Number(l, p, k) = k + Cardinality(BlocksOfAll(Earlier(l, p)))
         /\ Cardinality(BlocksOfAll(Earlier(l, p))) \in Nat
         /\ InFrame = Cardinality(BlocksOfAll(Ids))
  BY AllCount DEF Number, BlocksOfAll, Earlier, InFrame

LEMMA NumberFirst ==
  ASSUME NEW l \in Layouts, NEW p \in Ids, l[p].start = 0
  PROVE  Number(l, p, 1) = 1
<1>1. Earlier(l, p) = {}
  <2>1. \A r \in Ids : l[r].start \in Nat
    BY LayoutAssumption, Sizes
  <2> QED
    BY <2>1 DEF Earlier
<1>2. Cardinality(BlocksOfAll({})) = 0
  BY FS_EmptySet DEF BlocksOfAll
<1> QED
  BY <1>1, <1>2, NumberIs

(* A slice that begins where another ends: its first TI block is the next. *)
LEMMA NumberTurn ==
  ASSUME NEW l \in Layouts, NEW p \in Ids, NEW q \in Ids,
         l[q].start = l[p].start + SliceSize(l, p)
  PROVE  Number(l, q, 1) = Number(l, p, NTi[p]) + 1
<1>1. /\ \A r \in Ids : l[r].start \in Nat
      /\ \A r, s \in Ids : r # s => l[r].start # l[s].start
      /\ \A r, s \in Ids :
           l[r].start < l[s].start => l[r].start + SliceSize(l, r) <= l[s].start
  BY LayoutAssumption, Sizes
<1>2. SliceSize(l, p) \in Nat \ {0}
  <2>1. l[p].num_blocks \in Nat \ {0} /\ NSplit \in Nat \ {0} /\ Rows[p] \in Nat \ {0}
    BY Shapes
  <2> QED
    BY <2>1 DEF SliceSize, Fec
<1>3. ASSUME NEW r \in Ids
      PROVE  l[r].start < l[q].start <=> (l[r].start < l[p].start \/ r = p)
  <2>1. CASE r = p
    BY <1>1, <1>2, <2>1
  <2>2. CASE r # p
    BY <1>1, <1>2, <2>2
  <2> QED
    BY <2>1, <2>2
<1>4. Earlier(l, q) = Earlier(l, p) \cup {p} /\ p \notin Earlier(l, p)
  BY <1>1, <1>3 DEF Earlier
<1>5. Cardinality(BlocksOfAll(Earlier(l, q))) =
        Cardinality(BlocksOfAll(Earlier(l, p))) + NTi[p]
  <2>1. Earlier(l, p) \in SUBSET Ids
    BY DEF Earlier
  <2> QED
    BY <1>4, <2>1, AllAnd
<1>6. NTi[p] \in Nat
  BY SizeAssumption
<1> QED
  BY <1>5, <1>6, NumberIs

(* The last TI block of the last slice is that of the frame.               *)
LEMMA NumberLast ==
  ASSUME NEW l \in Layouts, NEW p \in Ids, \A q \in Ids : l[q].start <= l[p].start
  PROVE  Number(l, p, NTi[p]) = InFrame
<1>1. /\ \A r \in Ids : l[r].start \in Nat
      /\ \A r, s \in Ids : r # s => l[r].start # l[s].start
  BY LayoutAssumption, Sizes
<1>2. ASSUME NEW r \in Ids PROVE r # p => l[r].start < l[p].start
  BY <1>1
<1>3. Ids = Earlier(l, p) \cup {p} /\ p \notin Earlier(l, p) /\ Earlier(l, p) \in SUBSET Ids
  BY <1>1, <1>2 DEF Earlier
<1>4. Cardinality(BlocksOfAll(Ids)) = Cardinality(BlocksOfAll(Earlier(l, p))) + NTi[p]
  BY <1>3, AllAnd
<1>5. NTi[p] \in Nat
  BY SizeAssumption
<1> QED
  BY <1>4, <1>5, NumberIs

----------------------------------------------------------------------------
(* Every TI block of an announced frame is emitted.  The code takes the    *)
(* size of a FEC block from PLP 1 for every PLP, which is right where it   *)
(* is the same for all.                                                    *)

SameFec == \A p \in Ids : Plps > 1 => Fec(p) = Fec(1)

(* The first cell of a TI block, and its columns.                          *)
From(l, p, k) == l[p].start + Before(l, p, k) * Fec(p)

Wide(l, p, k) == FecsOf(l, p, k) * NSplit

LEMMA WideIs ==
  ASSUME NEW l \in Layouts, NEW p \in Ids, NEW k \in 1..NTi[p]
  PROVE  /\ Wide(l, p, k) \in Nat \ {0} /\ Fec(p) \in Nat \ {0}
         /\ Rows[p] \in Nat \ {0} /\ NTi[p] \in Nat \ {0}
         /\ FecsOf(l, p, k) \in Nat \ {0}
         /\ Wide(l, p, k) * Rows[p] = FecsOf(l, p, k) * Fec(p)
         /\ Columns(l, p)[k - 1] = Wide(l, p, k)
<1> DEFINE f == FecsOf(l, p, k)
<1>1. f \in Nat \ {0} /\ Columns(l, p)[k - 1] = f * NSplit
  BY BlocksFollow
<1>2. Rows[p] \in Nat \ {0} /\ NTi[p] \in Nat \ {0} /\ NSplit \in Nat \ {0}
  BY SizeAssumption
<1> HIDE DEF f
<1>3. /\ f * NSplit \in Nat \ {0} /\ Rows[p] * NSplit \in Nat \ {0}
      /\ (f * NSplit) * Rows[p] = f * (Rows[p] * NSplit)
  BY <1>1, <1>2
<1> QED
  BY <1>1, <1>2, <1>3 DEF f, Wide, Fec

(* Where a TI block ends the next one begins, or the slice ends.           *)
LEMMA Ends ==
  ASSUME NEW l \in Layouts, NEW p \in Ids, NEW k \in 1..NTi[p]
  PROVE  /\ From(l, p, k) \in Nat /\ l[p].start \in Nat /\ SliceSize(l, p) \in Nat \ {0}
         /\ k = 1 => From(l, p, k) = l[p].start
         /\ From(l, p, k) + Wide(l, p, k) * Rows[p] <= l[p].start + SliceSize(l, p)
         /\ IF k = NTi[p]
            THEN From(l, p, k) + Wide(l, p, k) * Rows[p] = l[p].start + SliceSize(l, p)
            ELSE From(l, p, k + 1) = From(l, p, k) + Wide(l, p, k) * Rows[p]
<1> DEFINE b == Before(l, p, k)
           f == FecsOf(l, p, k)
           F == Fec(p)
           nb == l[p].num_blocks
           s == l[p].start
           b2 == Before(l, p, k + 1)
           w == Wide(l, p, k) * Rows[p]
<1>1. /\ b \in Nat /\ f \in Nat \ {0} /\ b + f <= nb /\ (k = 1 => b = 0)
      /\ IF k = NTi[p] THEN b + f = nb ELSE b2 = b + f
  BY BlocksFollow
<1>2. F \in Nat \ {0} /\ w = f * F
  BY WideIs
<1>3. s \in Nat /\ nb \in Nat \ {0}
  BY LayoutAssumption, Sizes, Shapes
<1> HIDE DEF b, f, F, nb, s, b2, w
<1>4. b * F \in Nat /\ (b + f) * F = b * F + f * F /\ nb * F \in Nat \ {0}
  BY <1>1, <1>2, <1>3
<1>5. (b + f) * F <= nb * F
  BY <1>1, <1>2, <1>3, Monotone
<1>6. b = 0 => b * F = 0
  BY <1>2
<1> QED
  BY <1>1, <1>2, <1>3, <1>4, <1>5, <1>6 DEF From, SliceSize, b, f, F, nb, s, b2, w

(* The place of the present cell in a TI block that begins at from.        *)
Within(from, w) ==
  /\ ti_block_size = w * Rows[plp_id]
  /\ \E j \in 0..(w - 1) :
       idx_step_ti = j * Rows[plp_id] /\ cell = from + idx_row_ti * w + j

(* In a slice.                                                             *)
InSlice ==
  /\ Within(From(l1_post, plp_id, idx_time_il + 1), Wide(l1_post, plp_id, idx_time_il + 1))
  /\ delivered + 1 = Number(l1_post, plp_id, idx_time_il + 1)

(* Behind the last one, where the cells go on to be stored.                *)
InTail ==
  /\ \A q \in Ids : l1_post[q].start <= l1_post[plp_id].start
  /\ Within(l1_post[plp_id].start + SliceSize(l1_post, plp_id),
            Wide(l1_post, plp_id, NTi[plp_id]))
  /\ delivered = InFrame

(***************************************************************************)
(* While an announced frame comes in, the place in the TI block is that of *)
(* the cell in it, and the TI blocks before it have been emitted.          *)
(***************************************************************************)
PlaceRight == InSlice \/ InTail

PosInv ==
  announced =>
    /\ ~start_t2_frame /\ idx_cell = cell /\ cell + Rest = FrameCells
    /\ \E fec \in SecondFec : slice_end = [p \in Ids |-> SliceEnd(l1_post, p, fec)]
    /\ PlaceRight

(* How the two indices move.                                               *)
LEMMA Moves ==
  ASSUME NEW R \in Nat \ {0}, NEW w \in Nat \ {0}, NEW row \in 0..(R - 1),
         NEW j \in 0..(w - 1), NEW from \in Nat
  PROVE  /\ from + row * w + j \in Nat
         /\ from + row * w + j < from + w * R
         /\ IF j * R + R # w * R
            THEN /\ j + 1 \in 0..(w - 1) /\ j * R + R = (j + 1) * R
                 /\ (from + row * w + j) + 1 = from + row * w + (j + 1)
            ELSE IF row + 1 # R
            THEN (from + row * w + j) + 1 = from + (row + 1) * w + 0
            ELSE (from + row * w + j) + 1 = from + w * R
<1>1. /\ j * R + R = (j + 1) * R /\ (j * R + R = w * R <=> j + 1 = w)
  BY RowFits
<1>2. row * w \in Nat /\ (row + 1) * w = row * w + w /\ w * R \in Nat
  BY Monotone
<1>3. (row + 1) * w <= R * w /\ R * w = w * R
  BY Monotone
<1>4. CASE row + 1 = R
  BY <1>1, <1>2, <1>3, <1>4
<1>5. CASE row + 1 # R
  BY <1>1, <1>2, <1>3, <1>5
<1> QED
  BY <1>4, <1>5

LEMMA WithinPlace ==
  ASSUME NEW from \in Nat, NEW w \in Nat \ {0}, PlaceInv, Within(from, w), Place
  PROVE  Within(from, w)'
<1> DEFINE R == Rows[plp_id]
<1>1. PICK j \in 0..(w - 1) : idx_step_ti = j * R /\ cell = from + idx_row_ti * w + j
  BY DEF Within
<1>2. R \in Nat \ {0} /\ idx_row_ti \in 0..(R - 1)
  BY SizeAssumption DEF PlaceInv
<1>3. /\ cell' = cell + 1 /\ plp_id' = plp_id /\ ti_block_size' = ti_block_size
      /\ ti_block_size = w * R /\ ~(RowEnds /\ idx_row_ti + 1 = R)
  BY DEF Place, Counted, Within, BlockEnds
<1>4. CASE RowEnds
  <2>1. idx_step_ti' = 0 /\ idx_row_ti' = idx_row_ti + 1 /\ j * R + R = w * R
    BY <1>1, <1>3, <1>4 DEF Place, RowEnds
  <2>2. cell' = from + (idx_row_ti + 1) * w + 0
    <3>1. idx_row_ti + 1 # R
      BY <1>3, <1>4
    <3> HIDE DEF R
    <3>2. (from + idx_row_ti * w + j) + 1 = from + (idx_row_ti + 1) * w + 0
      BY <1>1, <1>2, <2>1, <3>1, Moves
    <3> QED
      BY <1>1, <1>3, <3>2
  <2>3. 0 \in 0..(w - 1) /\ 0 = 0 * R
    BY <1>2
  <2> QED
    BY <1>3, <2>1, <2>2, <2>3 DEF Within
<1>5. CASE ~RowEnds
  <2>1. idx_step_ti' = idx_step_ti + R /\ idx_row_ti' = idx_row_ti /\ j * R + R # w * R
    BY <1>1, <1>3, <1>5 DEF Place, RowEnds
  <2>2. /\ j + 1 \in 0..(w - 1) /\ idx_step_ti' = (j + 1) * R
        /\ cell' = from + idx_row_ti' * w + (j + 1)
    BY <1>1, <1>2, <1>3, <2>1, Moves
  <2> QED
    BY <1>3, <2>2 DEF Within
<1> QED
  BY <1>4, <1>5

(* The last cell of a TI block, and no cell lies behind it.                *)
LEMMA WithinEnds ==
  ASSUME NEW from \in Nat, NEW w \in Nat \ {0}, PlaceInv, Within(from, w)
  PROVE  /\ cell < from + w * Rows[plp_id]
         /\ BlockEnds => cell + 1 = from + w * Rows[plp_id]
<1> DEFINE R == Rows[plp_id]
<1>1. PICK j \in 0..(w - 1) : idx_step_ti = j * R /\ cell = from + idx_row_ti * w + j
  BY DEF Within
<1>2. R \in Nat \ {0} /\ idx_row_ti \in 0..(R - 1) /\ ti_block_size = w * R
  BY SizeAssumption DEF PlaceInv, Within
<1>3. BlockEnds => j * R + R = w * R /\ idx_row_ti + 1 = R
  BY <1>1, <1>2 DEF BlockEnds, RowEnds
<1> QED
  BY <1>1, <1>2, <1>3, Moves

(* A TI block that begins at the next cell.                                *)
LEMMA WithinNext ==
  ASSUME NEW w \in Nat \ {0}, cell' \in Nat, Rows[plp_id'] \in Nat,
         idx_step_ti' = 0, idx_row_ti' = 0, ti_block_size' = w * Rows[plp_id']
  PROVE  (\E from \in Nat : from = cell' /\ Within(from, w)')
<1> PICK from \in Nat : from = cell'
  OBVIOUS
<1>1. /\ 0 \in 0..(w - 1) /\ idx_step_ti' = 0 * Rows[plp_id']
      /\ cell' = from + idx_row_ti' * w + 0
  <2>1. 0 * Rows[plp_id'] = 0
    OBVIOUS
  <2>2. idx_row_ti' * w = 0
    BY 0 * w = 0
  <2>3. from = from + 0 + 0 /\ 0 \in 0..(w - 1)
    BY ONLY from \in Nat, w \in Nat \ {0}
  <2> QED
    BY <2>1, <2>2, <2>3
<1>2. Within(from, w)'
  BY <1>1 DEF Within
<1> QED
  BY <1>2

(* What is still to come changes with what has come in.                    *)
LEMMA RestMoves ==
  ASSUME CountInv, [Next]_vars
  PROVE  /\ \A l \in Layouts : Announce(l) => Rest' = FrameCells
         /\ Symbol => Rest' = Rest
         /\ Counted => Rest' = Rest - 1 /\ Rest > 0 /\ Rest \in Nat
<1> USE Sizes
<1>1. ASSUME NEW l \in Layouts, Announce(l) PROVE Rest' = FrameCells
  <2>1. left' = P2Cells /\ symbol' = 1
    BY <1>1 DEF Announce
  <2> QED
    BY <2>1 DEF Rest
<1>2. ASSUME Symbol PROVE Rest' = Rest
  <2>1. left = 0 /\ left' = Cells /\ symbol <= Symbols /\ symbol' = symbol + 1
    BY <1>2 DEF Symbol
  <2>2. Symbols - symbol \in Nat
    BY <2>1 DEF CountInv
  <2>3. Cells + (Symbols - symbol) * Cells = ((Symbols - symbol) + 1) * Cells
    BY <2>2
  <2>4. Symbols + 1 - symbol' = Symbols - symbol /\ Symbols + 1 - symbol = (Symbols - symbol) + 1
    BY <2>1 DEF CountInv
  <2>5. (Symbols - symbol) * Cells \in Nat /\ ((Symbols - symbol) + 1) * Cells \in Nat
    BY <2>2
  <2> QED
    BY <2>1, <2>3, <2>4, <2>5 DEF Rest
<1>3. ASSUME Counted PROVE Rest' = Rest - 1 /\ Rest > 0 /\ Rest \in Nat
  <2>1. left > 0 /\ left' = left - 1 /\ symbol' = symbol
    BY <1>3 DEF Counted, frameVars
  <2>2. left \in Nat /\ Symbols + 1 - symbol \in Nat
    BY DEF CountInv
  <2>3. (Symbols + 1 - symbol) * Cells \in Nat
    BY <2>2
  <2> QED
    BY <2>1, <2>2, <2>3 DEF Rest
<1> QED
  BY <1>1, <1>2, <1>3

LEMMA PosAnnounce ==
  ASSUME TypeInv, NEW l \in Layouts, Announce(l)
  PROVE  PosInv'
<1> DEFINE p == First(l)
           w == Wide(l, p, 1)
<1>1. p \in Ids /\ l[p].start = 0
  BY LayoutAssumption DEF First
<1>2. /\ l1_post' = l /\ plp_id' = p /\ start_t2_frame' = FALSE
      /\ idx_cell' = 0 /\ idx_time_il' = 0 /\ idx_row_ti' = 0 /\ idx_step_ti' = 0
      /\ num_cols' = [q \in Ids |-> Columns(l, q)]
      /\ ti_block_size' = Size(num_cols', p, 0) /\ cell' = 0 /\ delivered' = 0
      /\ \E fec \in SecondFec : slice_end' = [q \in Ids |-> SliceEnd(l, q, fec)]
  BY DEF Announce, Restart
<1>3. Rest' = FrameCells /\ FrameCells \in Nat
  BY RestMoves, Sizes DEF TypeInv, Next, Frame
<1>4. /\ 1 \in 1..NTi[p] /\ Rows[p] \in Nat \ {0}
  BY <1>1, SizeAssumption
<1>5. w \in Nat \ {0} /\ Columns(l, p)[0] = w /\ From(l, p, 1) = 0
  <2>1. Columns(l, p)[1 - 1] = w /\ w \in Nat \ {0}
    BY <1>1, <1>4, WideIs
  <2>2. From(l, p, 1) = 0
    BY <1>1, <1>4, Ends
  <2> QED
    BY <2>1, <2>2
<1>6. ti_block_size' = w * Rows[p]
  BY <1>1, <1>2, <1>5 DEF Size
<1>7. Number(l, p, 1) = 1
  BY <1>1, NumberFirst
<1> HIDE DEF p, w
<1>8. \E from \in Nat : from = cell' /\ Within(from, w)'
  BY <1>2, <1>4, <1>5, <1>6, WithinNext
<1>9. Within(0, w)'
  BY <1>2, <1>8
<1>10. InSlice'
  <2>1. idx_time_il' + 1 = 1 /\ delivered' + 1 = 1
    BY <1>2
  <2> QED
    BY <1>2, <1>5, <1>7, <1>9, <2>1 DEF InSlice, w, Within
<1> QED
  BY <1>2, <1>3, <1>10 DEF PosInv, PlaceRight

LEMMA SlicePlace ==
  ASSUME TypeInv, InSlice, Place
  PROVE  InSlice'
<1>1. UNCHANGED <<frameVars, plp_id, idx_time_il, delivered>>
  BY DEF Place, Counted
<1>2. l1_post \in Layouts /\ plp_id \in Ids /\ idx_time_il + 1 \in 1..NTi[plp_id]
  BY SizeAssumption DEF TypeInv, PlaceInv
<1>3. PICK from \in Nat, w \in Nat \ {0} :
        /\ from = From(l1_post, plp_id, idx_time_il + 1)
        /\ w = Wide(l1_post, plp_id, idx_time_il + 1)
  BY <1>2, Ends, WideIs
<1>4. Within(from, w)'
  BY <1>3, WithinPlace DEF InSlice, TypeInv
<1>5. /\ from = From(l1_post, plp_id, idx_time_il + 1)'
      /\ w = Wide(l1_post, plp_id, idx_time_il + 1)'
  BY <1>1, <1>3 DEF frameVars, From, Wide
<1> QED
  BY <1>1, <1>4, <1>5 DEF InSlice, frameVars, Within

LEMMA TailPlace ==
  ASSUME TypeInv, InTail, Place
  PROVE  InTail'
<1>1. UNCHANGED <<frameVars, plp_id, idx_time_il, delivered>>
  BY DEF Place, Counted
<1>2. l1_post \in Layouts /\ plp_id \in Ids /\ NTi[plp_id] \in 1..NTi[plp_id]
  BY SizeAssumption DEF TypeInv, PlaceInv
<1>3. PICK from \in Nat, w \in Nat \ {0} :
        /\ from = l1_post[plp_id].start + SliceSize(l1_post, plp_id)
        /\ w = Wide(l1_post, plp_id, NTi[plp_id])
  BY <1>2, Ends, WideIs
<1>4. Within(from, w)'
  BY <1>3, WithinPlace DEF InTail, TypeInv
<1>5. /\ from = (l1_post[plp_id].start + SliceSize(l1_post, plp_id))'
      /\ w = Wide(l1_post, plp_id, NTi[plp_id])'
  BY <1>1, <1>3 DEF frameVars, SliceSize, Wide
<1> QED
  BY <1>1, <1>4, <1>5 DEF InTail, frameVars, Within

LEMMA PosPlace ==
  ASSUME TypeInv, PosInv, Place
  PROVE  PosInv'
<1> SUFFICES ASSUME announced' PROVE PosInv'
  BY DEF PosInv
<1>1. /\ UNCHANGED <<frameVars, start_t2_frame, plp_id, idx_time_il, delivered>>
      /\ idx_cell' = idx_cell + 1 /\ cell' = cell + 1 /\ Counted
  BY DEF Place, Counted
<1>2. /\ announced /\ ~start_t2_frame /\ idx_cell = cell /\ cell + Rest = FrameCells
      /\ \E fec \in SecondFec : slice_end = [p \in Ids |-> SliceEnd(l1_post, p, fec)]
      /\ PlaceRight
  BY <1>1 DEF frameVars, PosInv
<1>3. Rest' = Rest - 1 /\ Rest \in Nat
  BY <1>1, RestMoves DEF TypeInv, Next
<1>4. /\ l1_post \in Layouts /\ plp_id \in Ids /\ idx_time_il + 1 \in 1..NTi[plp_id]
      /\ NTi[plp_id] \in 1..NTi[plp_id] /\ NTi[plp_id] \in Nat \ {0} /\ cell \in Nat
  BY SizeAssumption DEF TypeInv, PlaceInv, CountInv
<1>5. CASE InSlice
  BY <1>1, <1>2, <1>3, <1>4, <1>5, SlicePlace DEF PosInv, PlaceRight, frameVars
<1>6. CASE InTail
  BY <1>1, <1>2, <1>3, <1>4, <1>6, TailPlace DEF PosInv, PlaceRight, frameVars
<1> QED
  BY <1>2, <1>5, <1>6 DEF PlaceRight

(* After the last slice there are too few cells left for a TI block.       *)
LEMMA TailStays ==
  ASSUME TypeInv, PosInv, announced, InTail, Counted, [Next]_vars
  PROVE  ~BlockEnds
<1> SUFFICES ASSUME BlockEnds PROVE FALSE
  OBVIOUS
<1> DEFINE l == l1_post
           p == plp_id
           next == l[p].start + SliceSize(l, p)
           last == Wide(l, p, NTi[p]) * Rows[p]
<1>1. /\ l \in Layouts /\ p \in Ids /\ NTi[p] \in 1..NTi[p]
      /\ NTi[p] \in Nat \ {0}
  BY SizeAssumption DEF TypeInv, PlaceInv
<1>2. PICK from \in Nat, w \in Nat \ {0} : from = next /\ w = Wide(l, p, NTi[p])
  BY <1>1, Ends, WideIs
<1>3. Within(from, w)
  BY <1>2 DEF InTail
<1>4. cell + 1 = next + last
  BY <1>2, <1>3, WithinEnds DEF TypeInv
<1>5. cell + 1 <= FrameCells
  <2>1. Rest > 0 /\ Rest \in Nat /\ cell + Rest = FrameCells /\ cell \in Nat
    BY RestMoves DEF TypeInv, CountInv, PosInv
  <2> QED
    BY <2>1
<1>6. next <= FrameCells /\ FrameCells - next < last
  <2>1. ASSUME NEW q \in Ids PROVE l[q].start # next
    <3>1. l[q].start \in Nat /\ l[q].start <= l[p].start
      BY <1>1, Ends, LayoutAssumption, Sizes DEF InTail
    <3>2. l[p].start \in Nat /\ SliceSize(l, p) \in Nat \ {0}
      BY <1>1, Ends
    <3> QED
      BY <3>1, <3>2
  <2>2. /\ next <= FrameCells
        /\ FrameCells - next < ((l[p].num_blocks + NTi[p] - 1) \div NTi[p]) * Fec(p)
    BY <1>1, <2>1, LayoutAssumption
  <2>3. last = FecsOf(l, p, NTi[p]) * Fec(p)
    BY <1>1, WideIs
  <2> QED
    BY <2>2, <2>3 DEF FecsOf
<1>7. last \in Nat /\ next \in Nat /\ FrameCells \in Nat
  BY <1>1, Ends, WideIs, Sizes
<1> HIDE DEF last, next
<1> QED
  BY <1>4, <1>5, <1>6, <1>7

(* What begins at the next cell once a TI block is full.                   *)
LEMMA NextPlace ==
  ASSUME SameFec, TypeInv, PosInv, announced, InSlice, Complete, cell' \in Nat
  PROVE  PlaceRight'
<1> DEFINE l == l1_post
           p == plp_id
           k == idx_time_il + 1
           over == k = NTi[p]
           turn == over /\ idx_cell = slice_end[p] /\ Following # {}
           next == l[p].start + SliceSize(l, p)
<1>1. /\ l \in Layouts /\ p \in Ids /\ k \in 1..NTi[p] /\ NTi[p] \in Nat \ {0}
      /\ num_cols = [q \in Ids |-> Columns(l, q)]
      /\ \A q \in Ids : Rows[q] \in Nat \ {0} /\ NTi[q] \in Nat \ {0}
  BY SizeAssumption DEF TypeInv, PlaceInv, PosInv
<1>2. /\ l1_post' = l /\ delivered' = delivered + 1 /\ cell' = cell + 1
      /\ idx_step_ti' = 0 /\ idx_row_ti' = 0
      /\ idx_time_il' = k % NTi[p] /\ BlockEnds
      /\ plp_id' = IF turn THEN CHOOSE q \in Following : TRUE ELSE p
      /\ ~over => ti_block_size' = Size(num_cols, p, k)
      /\ turn => ti_block_size' = Size(num_cols, plp_id', 0)
      /\ (over /\ ~turn) => ti_block_size' = ti_block_size
  BY DEF Complete, Counted, frameVars, Emit, NextIl
<1>3. PICK from \in Nat, w \in Nat \ {0} : from = From(l, p, k) /\ w = Wide(l, p, k)
  BY <1>1, Ends, WideIs
<1>4. cell' = from + w * Rows[p] /\ ti_block_size = w * Rows[p]
  <2>1. Within(from, w)
    BY <1>3 DEF InSlice
  <2> QED
    BY <1>2, <2>1, WithinEnds DEF TypeInv, Within
<1>5. delivered' = Number(l, p, k)
  BY <1>2 DEF InSlice
<1>6. over => cell' = next
  BY <1>1, <1>3, <1>4, Ends
<1>7. Following = {q \in Ids : l[q].start = cell'}
  <2>1. idx_cell = cell /\ cell \in Nat
    BY DEF PosInv, TypeInv, CountInv
  <2>2. \A q \in Ids : l[q].start \in Nat
    BY <1>1, Ends, LayoutAssumption, Sizes
  <2> QED
    BY <1>2, <2>1, <2>2 DEF Following
<1>8. CASE ~over
  <2>1. /\ plp_id' = p /\ idx_time_il' = k /\ k + 1 \in 1..NTi[p]
        /\ ti_block_size' = Size(num_cols, p, k)
    BY <1>1, <1>2, <1>8, NextBlock DEF TypeInv, PlaceInv
  <2>2. PICK w2 \in Nat \ {0} : w2 = Wide(l, p, k + 1) /\ Columns(l, p)[k] = w2
    <3>1. Wide(l, p, k + 1) \in Nat \ {0} /\ Columns(l, p)[(k + 1) - 1] = Wide(l, p, k + 1)
      BY <1>1, <2>1, WideIs
    <3>2. (k + 1) - 1 = k
      BY <1>1
    <3> QED
      BY <3>1, <3>2
  <2>3. ti_block_size' = w2 * Rows[p]
    BY <1>1, <2>1, <2>2 DEF Size
  <2>4. \E f \in Nat : f = cell' /\ Within(f, w2)'
    BY <1>1, <1>2, <2>1, <2>3, WithinNext
  <2>5. cell' = From(l, p, k + 1)
    BY <1>1, <1>3, <1>4, <1>8, Ends
  <2>6. delivered' + 1 = Number(l, p, k + 1)
    <3> DEFINE n == Cardinality(BlocksOfAll(Earlier(l, p)))
    <3>1. k \in Nat /\ k + 1 \in Nat
      BY <1>1
    <3>2. Number(l, p, k) = k + n /\ n \in Nat
      BY <1>1, <3>1, NumberIs
    <3>3. Number(l, p, k + 1) = (k + 1) + n
      BY <1>1, <3>1, NumberIs
    <3> HIDE DEF n
    <3> QED
      BY <1>5, <3>1, <3>2, <3>3
  <2>7. InSlice'
    BY <1>2, <2>1, <2>2, <2>4, <2>5, <2>6 DEF InSlice, Within
  <2> QED
    BY <2>7 DEF PlaceRight
<1>9. CASE over /\ \E q \in Ids : l[q].start = next
  <2>1. PICK q \in Ids : l[q].start = next
    BY <1>9
  <2>2. Following = {q}
    <3>1. \A r \in Ids : r # q => l[r].start # l[q].start
      BY <1>1, LayoutAssumption
    <3> QED
      BY <1>6, <1>7, <1>9, <2>1, <3>1
  <2>3. idx_cell = slice_end[p]
    <3>1. p # q
      <4>1. l[p].start \in Nat /\ SliceSize(l, p) \in Nat \ {0}
        BY <1>1, Ends
      <4> QED
        BY <2>1, <4>1
    <3>2. Plps > 1
      BY <1>1, <3>1, SizeAssumption DEF Ids
    <3>3. slice_end[p] = SliceEnd(l, p, Fec(p))
      <4>1. SecondFec = {Fec(p)}
        BY <1>1, <3>2 DEF SecondFec, SameFec
      <4> QED
        BY <1>1, <4>1 DEF PosInv
    <3>4. SliceEnd(l, p, Fec(p)) = next - 1
      <4>1. SliceEnd(l, p, Fec(p)) = l[p].start + (SliceSize(l, p) - 1)
        BY DEF SliceEnd, SliceSize
      <4>2. l[p].start \in Nat /\ SliceSize(l, p) \in Nat
        BY <1>1, Ends
      <4> QED
        BY <4>1, <4>2
    <3>5. idx_cell = cell /\ cell \in Nat /\ cell + 1 = next
      BY <1>2, <1>6, <1>9 DEF PosInv, TypeInv, CountInv
    <3> HIDE DEF next
    <3> QED
      BY <3>3, <3>4, <3>5
  <2>4. /\ turn /\ plp_id' = q /\ idx_time_il' = 0
        /\ ti_block_size' = Size(num_cols, q, 0)
    <3>1. turn
      BY <1>9, <2>2, <2>3
    <3>2. k % NTi[p] = 0
      BY <1>1, <1>9
    <3> QED
      BY <1>2, <2>2, <3>1, <3>2
  <2>5. 1 \in 1..NTi[q]
    BY <1>1
  <2>6. PICK w2 \in Nat \ {0} : w2 = Wide(l, q, 1) /\ Columns(l, q)[0] = w2
    <3>1. Wide(l, q, 1) \in Nat \ {0} /\ Columns(l, q)[1 - 1] = Wide(l, q, 1)
      BY <1>1, <2>5, WideIs
    <3> QED
      BY <3>1
  <2>7. ti_block_size' = w2 * Rows[q]
    BY <1>1, <2>4, <2>6 DEF Size
  <2>8. \E f \in Nat : f = cell' /\ Within(f, w2)'
    BY <1>1, <1>2, <2>4, <2>7, WithinNext
  <2>9. cell' = From(l, q, 1)
    BY <1>1, <1>6, <1>9, <2>1, <2>5, Ends
  <2>10. Number(l, q, 1) = Number(l, p, NTi[p]) + 1 /\ delivered' + 1 = Number(l, q, 1)
    BY <1>1, <1>5, <1>9, <2>1, NumberTurn
  <2>11. idx_time_il' + 1 = 1
    BY <2>4
  <2>12. InSlice'
    BY <1>2, <2>4, <2>6, <2>8, <2>9, <2>10, <2>11 DEF InSlice, Within
  <2> QED
    BY <2>12 DEF PlaceRight
<1>10. CASE over /\ ~\E q \in Ids : l[q].start = next
  <2>1. Following = {}
    BY <1>6, <1>7, <1>10
  <2>2. plp_id' = p /\ ti_block_size' = w * Rows[p] /\ w = Wide(l, p, NTi[p])
    BY <1>2, <1>3, <1>4, <1>10, <2>1
  <2>3. \A q \in Ids : l[q].start <= l[p].start
    BY <1>1, <1>10, LayoutAssumption
  <2>4. \E f \in Nat : f = cell' /\ Within(f, w)'
    BY <1>1, <1>2, <2>2, WithinNext
  <2>5. delivered' = InFrame
    BY <1>1, <1>5, <1>10, <2>3, NumberLast
  <2>6. l1_post'[plp_id'].start + SliceSize(l1_post', plp_id') = cell'
    BY <1>2, <1>6, <1>10, <2>2
  <2>7. InTail'
    BY <1>2, <2>2, <2>3, <2>4, <2>5, <2>6 DEF InTail, Within, SliceSize
  <2> QED
    BY <2>7 DEF PlaceRight
<1> QED
  BY <1>8, <1>9, <1>10

LEMMA PosComplete ==
  ASSUME SameFec, TypeInv, PosInv, Complete
  PROVE  PosInv'
<1> SUFFICES ASSUME announced' PROVE PosInv'
  BY DEF PosInv
<1>1. /\ UNCHANGED <<frameVars, start_t2_frame>> /\ BlockEnds
      /\ idx_cell' = idx_cell + 1 /\ cell' = cell + 1 /\ Counted
  BY DEF Complete, Counted
<1>2. /\ announced /\ ~start_t2_frame /\ idx_cell = cell /\ cell + Rest = FrameCells
      /\ \E fec \in SecondFec : slice_end = [p \in Ids |-> SliceEnd(l1_post, p, fec)]
      /\ PlaceRight /\ cell \in Nat
  BY <1>1 DEF frameVars, PosInv, TypeInv, CountInv
<1>3. Rest' = Rest - 1 /\ Rest \in Nat
  BY <1>1, RestMoves DEF TypeInv, Next
<1>4. InSlice
  BY <1>1, <1>2, TailStays DEF PlaceRight, Next
<1>5. PlaceRight'
  BY <1>1, <1>2, <1>4, NextPlace
<1> QED
  BY <1>1, <1>2, <1>3, <1>5 DEF PosInv, frameVars

LEMMA PosStep ==
  ASSUME SameFec, TypeInv, PosInv, [Next]_vars
  PROVE  PosInv'
<1>1. ASSUME NEW l \in Layouts, Announce(l) PROVE PosInv'
  BY <1>1, PosAnnounce
<1>2. CASE Unannounced
  BY <1>2 DEF Unannounced, PosInv
<1>3. CASE Symbol
  <2>1. Rest' = Rest
    BY <1>3, RestMoves DEF TypeInv
  <2> QED
    BY <1>3, <2>1 DEF Symbol, tiVars, PosInv, PlaceRight, InSlice, InTail, Within
<1>4. CASE Place
  BY <1>4, PosPlace
<1>5. CASE Complete
  BY <1>5, PosComplete
<1>6. CASE UNCHANGED <<frameVars, tiVars, start_t2_frame, idx_cell, left, cell, delivered>>
  BY <1>6 DEF frameVars, tiVars, Rest, PosInv, PlaceRight, InSlice, InTail, Within
<1> QED
  BY <1>1, <1>2, <1>3, <1>4, <1>5, <1>6 DEF Next, Frame, Take, Done, vars

(***************************************************************************)
(* When the last symbol of an announced frame has come in, execute() has   *)
(* emitted every TI block of every PLP and nothing else, for all numbers   *)
(* of PLPs, slices and TI blocks, provided their FEC blocks have as many   *)
(* cells as those of PLP 1, the size l1_dyn_execute takes for all.         *)
(***************************************************************************)
THEOREM FrameDeliveredHolds ==
  ASSUME SameFec
  PROVE  Spec => []FrameDelivered
<1>1. Init => PosInv
  BY DEF Init, PosInv
<1>2. TypeInv /\ PosInv /\ [Next]_vars => PosInv'
  BY PosStep
<1>3. TypeInv /\ PosInv => FrameDelivered
  <2> SUFFICES ASSUME TypeInv, PosInv, announced, left = 0, symbol = Symbols + 1
               PROVE  delivered = InFrame
    BY DEF FrameDelivered
  <2>1. Rest = 0 /\ FrameCells \in Nat /\ cell \in Nat
    BY Sizes DEF Rest, TypeInv, CountInv
  <2>2. cell = FrameCells
    BY <2>1 DEF PosInv
  <2>3. ~InSlice
    <3> SUFFICES ASSUME InSlice PROVE FALSE
      OBVIOUS
    <3> DEFINE l == l1_post
               p == plp_id
               next == l[p].start + SliceSize(l, p)
    <3>1. l \in Layouts /\ p \in Ids /\ idx_time_il + 1 \in 1..NTi[p]
      BY SizeAssumption DEF TypeInv, PlaceInv
    <3>2. PICK from \in Nat, w \in Nat \ {0} :
            from = From(l, p, idx_time_il + 1) /\ w = Wide(l, p, idx_time_il + 1)
      BY <3>1, Ends, WideIs
    <3>3. cell < from + w * Rows[p]
      BY <3>2, WithinEnds DEF InSlice, TypeInv
    <3>4. from + w * Rows[p] <= next /\ next \in Nat
      BY <3>1, <3>2, Ends
    <3>5. next <= FrameCells
      BY <3>1, <2>1, LayoutAssumption
    <3>6. w * Rows[p] \in Nat
      BY <3>1, SizeAssumption
    <3> HIDE DEF next
    <3> QED
      BY <2>1, <2>2, <3>3, <3>4, <3>5, <3>6
  <2> QED
    BY <2>3 DEF PosInv, PlaceRight, InTail
<1> QED
  BY <1>1, <1>2, <1>3, TypeInit, TypeStep, PTL DEF Spec

----------------------------------------------------------------------------
(* What is in the buffers.                                                 *)

(* The address of the Q component: one before that of I, the last of the   *)
(* FEC block for the first.                                                *)
Prev(p, a) == IF a % Fec(p) = 0 THEN a + Fec(p) - 1 ELSE a - 1

LEMMA PrevNext ==
  ASSUME NEW p \in Ids, NEW a \in Nat
  PROVE  /\ Prev(p, a) \in Nat /\ NextInFec(p, a) \in Nat
         /\ NextInFec(p, Prev(p, a)) = a /\ Prev(p, NextInFec(p, a)) = a
         /\ Prev(p, a) \div Fec(p) = a \div Fec(p)
         /\ NextInFec(p, a) \div Fec(p) = a \div Fec(p)
<1> DEFINE f == Fec(p)
           q == a \div f
           r == a % f
           Nxt(x) == (x \div f) * f + ((x + 1) % f)
           Prv(x) == IF x % f = 0 THEN x + f - 1 ELSE x - 1
<1>1. f \in Nat \ {0}
  BY SizeAssumption DEF Fec
<1> HIDE DEF f
<1>a. q \in Nat /\ r \in 0..(f - 1) /\ a = q * f + r
  BY <1>1, Divided
<1> HIDE DEF q, r
<1>2. q \in Nat /\ r \in 0..(f - 1) /\ a = q * f + r /\ q * f \in Nat
  BY <1>1, <1>a
<1>3. ASSUME NEW s \in 0..(f - 1)
      PROVE  (q * f + s) \div f = q /\ (q * f + s) % f = s /\ q * f + s \in Nat
  BY <1>1, <1>2, Quotient
<1>4. ASSUME NEW s \in 0..(f - 1)
      PROVE  /\ Nxt(q * f + s) = q * f + (IF s = f - 1 THEN 0 ELSE s + 1)
             /\ Prv(q * f + s) = q * f + (IF s = 0 THEN f - 1 ELSE s - 1)
  <2>1. (q * f + s) \div f = q /\ (q * f + s) % f = s /\ q * f + s \in Nat
    BY <1>3
  <2>2. ((q * f + s) + 1) % f = (IF s = f - 1 THEN 0 ELSE s + 1)
    BY <1>1, <2>1, OneMore
  <2>3. Prv(q * f + s) = q * f + (IF s = 0 THEN f - 1 ELSE s - 1)
    BY <1>1, <1>2, <2>1
  <2> QED
    BY <2>1, <2>2, <2>3
<1>5. NextInFec(p, a) = Nxt(a) /\ Prev(p, a) = Prv(a)
  BY DEF NextInFec, Prev, f
<1> DEFINE up == IF r = f - 1 THEN 0 ELSE r + 1
           down == IF r = 0 THEN f - 1 ELSE r - 1
<1>6. up \in 0..(f - 1) /\ down \in 0..(f - 1)
  BY <1>1, <1>2
<1>7. Nxt(a) = q * f + up /\ Prv(a) = q * f + down
  BY <1>2, <1>4
<1>8. Nxt(q * f + down) = q * f + r
  <2>1. Nxt(q * f + down) = q * f + (IF down = f - 1 THEN 0 ELSE down + 1)
    BY <1>4, <1>6
  <2>2. (IF down = f - 1 THEN 0 ELSE down + 1) = r
    BY <1>1, <1>2
  <2> QED
    BY <2>1, <2>2
<1>9. Prv(q * f + up) = q * f + r
  <2>1. Prv(q * f + up) = q * f + (IF up = 0 THEN f - 1 ELSE up - 1)
    BY <1>4, <1>6
  <2>2. (IF up = 0 THEN f - 1 ELSE up - 1) = r
    BY <1>1, <1>2
  <2> QED
    BY <2>1, <2>2
<1>10. /\ q * f + up \in Nat /\ (q * f + up) \div f = q
       /\ q * f + down \in Nat /\ (q * f + down) \div f = q
  BY <1>3, <1>6
<1>11. /\ NextInFec(p, Prv(a)) = Nxt(Prv(a)) /\ Prev(p, Nxt(a)) = Prv(Nxt(a))
  BY DEF NextInFec, Prev, f
<1> HIDE DEF Nxt, Prv, up, down
<1> QED
  BY <1>2, <1>5, <1>7, <1>8, <1>9, <1>10, <1>11 DEF q, f

(* The places of a TI block: the permutation has an address among them for *)
(* each of them, and another for another.                                  *)
Places(l, p, k) == 0..(FecsOf(l, p, k) * Fec(p) - 1)

LEMMA PlacesFit ==
  ASSUME NEW l \in Layouts, NEW p \in Ids, NEW k \in 1..NTi[p]
  PROVE  /\ Places(l, p, k) \subseteq DOMAIN Perm[p] /\ Places(l, p, k) \subseteq Addresses
         /\ \A d \in Places(l, p, k) :
              /\ Perm[p][d] \in Places(l, p, k) /\ Prev(p, Perm[p][d]) \in Places(l, p, k)
              /\ Perm[p][d] \in Nat
         /\ \A d, e \in Places(l, p, k) :
              d # e => /\ Perm[p][d] # Perm[p][e]
                       /\ Prev(p, Perm[p][d]) # Prev(p, Perm[p][e])
         /\ \A a \in Places(l, p, k) : \E d \in Places(l, p, k) : Perm[p][d] = a
         /\ 0 \in Places(l, p, k) /\ Perm[p][0] = 0
<1> DEFINE n == FecsOf(l, p, k)
           f == Fec(p)
           nb == l[p].num_blocks
           D == 0..(n * f - 1)
           P == Perm[p]
<1>1. n \in Nat \ {0} /\ f \in Nat \ {0} /\ nb \in Nat /\ n <= nb
  <2>1. Before(l, p, k) \in Nat /\ n \in Nat \ {0} /\ Before(l, p, k) + n <= nb
    BY BlocksFollow
  <2>2. f \in Nat \ {0} /\ nb \in Nat
    BY WideIs, Shapes
  <2> QED
    BY <2>1, <2>2
<1>2. D \subseteq DOMAIN P /\ D \subseteq Addresses
  <2>1. 0..(nb * f - 1) \subseteq DOMAIN P
    BY Shapes DEF SliceSize
  <2>2. n * f <= nb * f /\ n * f \in Nat /\ nb * f \in Nat
    BY <1>1, Monotone
  <2>3. D \subseteq 0..(nb * f - 1)
    <3> HIDE DEF n, f, nb
    <3> QED
      BY <2>2
  <2> QED
    BY <2>1, <2>3 DEF Addresses
<1>3. /\ \A d \in D : P[d] \in Nat /\ P[d] \div f = d \div f
      /\ \A d, e \in D : d # e => P[d] # P[e]
      /\ P[0] = 0
  BY <1>2, PermAssumption
<1> HIDE DEF n, f, nb, P
<1>4. ASSUME NEW d \in D, NEW a \in Nat, a \div f = d \div f PROVE a \in D
  BY <1>1, <1>4, WithinFec
<1>5. \A d \in D : P[d] \in D
  BY <1>3, <1>4
<1>6. \A d \in D : /\ Prev(p, P[d]) \in Nat /\ Prev(p, P[d]) \div f = d \div f
                   /\ NextInFec(p, Prev(p, P[d])) = P[d]
  BY <1>3, PrevNext DEF f
<1>7. \A d \in D : Prev(p, P[d]) \in D
  BY <1>4, <1>6
<1>8. \A d, e \in D : d # e => Prev(p, P[d]) # Prev(p, P[e])
  BY <1>3, <1>6
<1>9. \A a \in D : \E d \in D : P[d] = a
  <2> DEFINE g == [d \in D |-> P[d]]
  <2>1. IsFiniteSet(D)
    BY <1>1, FS_Interval
  <2> HIDE DEF D
  <2>2. g \in Injection(D, D)
    BY <1>3, <1>5 DEF Injection, IsInjective
  <2>3. g \in Surjection(D, D)
    <3> HIDE DEF g
    <3> QED
      BY ONLY <2>1, <2>2, FS_Injection
  <2> QED
    BY <2>3 DEF Surjection
<1>10. 0 \in D
  <2>1. n * f \in Nat \ {0}
    BY <1>1
  <2> HIDE DEF n, f
  <2> QED
    BY <2>1
<1>11. D = Places(l, p, k)
  BY DEF Places, n, f
<1> HIDE DEF D
<1> QED
  BY <1>2, <1>3, <1>5, <1>7, <1>8, <1>9, <1>10, <1>11 DEF P

(* The cell that belongs at a place.                                       *)
Name(l, p, k, d) == From(l, p, k) + (d % Rows[p]) * Wide(l, p, k) + (d \div Rows[p])

LEMMA SentIs ==
  ASSUME NEW l \in Layouts, NEW p \in Ids, NEW k \in 1..NTi[p], NEW d \in Places(l, p, k)
  PROVE  Sent(l, p, k, Perm[p][d]) = Name(l, p, k, d)
<1>1. d \in DOMAIN Perm[p] /\ \A e \in DOMAIN Perm[p] : d # e => Perm[p][d] # Perm[p][e]
  BY PlacesFit, PermAssumption
<1>2. (CHOOSE e \in DOMAIN Perm[p] : Perm[p][e] = Perm[p][d]) = d
  BY <1>1
<1>3. d % Rows[p] \in Nat /\ FecsOf(l, p, k) \in Nat /\ NSplit \in Nat
  <2>1. FecsOf(l, p, k) \in Nat \ {0} /\ Rows[p] \in Nat \ {0} /\ NSplit \in Nat
    BY WideIs, SizeAssumption
  <2>2. d \in Nat
    BY DEF Places
  <2>3. d % Rows[p] \in 0..(Rows[p] - 1)
    BY <2>1, <2>2, Divided
  <2> QED
    BY <2>1, <2>3
<1>4. (d % Rows[p]) * FecsOf(l, p, k) * NSplit = (d % Rows[p]) * (FecsOf(l, p, k) * NSplit)
  BY <1>3
<1> QED
  BY <1>2, <1>4 DEF Sent, Name, From, Wide

LEMMA NameIs ==
  ASSUME NEW l \in Layouts, NEW p \in Ids, NEW k \in 1..NTi[p]
  PROVE  /\ \A d \in Places(l, p, k) :
              /\ Name(l, p, k, d) \in Nat /\ From(l, p, k) <= Name(l, p, k, d)
              /\ Name(l, p, k, d) < From(l, p, k) + Wide(l, p, k) * Rows[p]
         /\ \A d, e \in Places(l, p, k) : d # e => Name(l, p, k, d) # Name(l, p, k, e)
         /\ Name(l, p, k, 0) = From(l, p, k)
         /\ \A row \in 0..(Rows[p] - 1), j \in 0..(Wide(l, p, k) - 1) :
              /\ j * Rows[p] + row \in Places(l, p, k)
              /\ Name(l, p, k, j * Rows[p] + row) = From(l, p, k) + row * Wide(l, p, k) + j
<1> DEFINE R == Rows[p]
           w == Wide(l, p, k)
           from == From(l, p, k)
           D == 0..(w * R - 1)
           N(d) == from + (d % R) * w + (d \div R)
<1>1. R \in Nat \ {0} /\ w \in Nat \ {0} /\ from \in Nat
  BY WideIs, Ends
<1>2. D = Places(l, p, k)
  BY WideIs DEF Places
<1> HIDE DEF R, w, from
<1>3. ASSUME NEW d \in D
      PROVE  /\ d \in Nat /\ d % R \in 0..(R - 1) /\ d \div R \in 0..(w - 1)
             /\ d = (d \div R) * R + (d % R)
  <2>1. d \in Nat /\ d < w * R /\ w * R \in Nat
    BY <1>1
  <2> DEFINE q == d \div R
             r == d % R
  <2>2. q \in Nat /\ r \in 0..(R - 1) /\ d = q * R + r
    BY <1>1, <2>1, Divided
  <2> HIDE DEF q, r
  <2>3. q < w
    <3> SUFFICES ASSUME w <= q PROVE FALSE
      BY <1>1, <2>2
    <3>1. w * R <= q * R /\ q * R \in Nat
      BY <1>1, <2>2, Monotone
    <3> QED
      BY <2>1, <2>2, <3>1
  <2> QED
    BY <1>1, <2>1, <2>2, <2>3 DEF q, r
<1>4. ASSUME NEW row \in 0..(R - 1), NEW j \in 0..(w - 1)
      PROVE  /\ j * R + row \in D /\ N(j * R + row) = from + row * w + j
             /\ from + row * w + j \in Nat /\ from <= from + row * w + j
             /\ from + row * w + j < from + w * R
  <2>1. j \in Nat /\ (j * R + row) % R = row /\ (j * R + row) \div R = j /\ j * R + row \in Nat
    BY <1>1, Quotient
  <2>2. j * R + R <= w * R /\ j * R \in Nat /\ w * R \in Nat
    BY <1>1, RowFits
  <2>3. j * R + row \in D
    BY <1>1, <2>1, <2>2
  <2>4. from + row * w + j \in Nat /\ from + row * w + j < from + w * R
    BY <1>1, Moves
  <2>5. row * w \in Nat
    BY <1>1
  <2> QED
    BY <1>1, <2>1, <2>3, <2>4, <2>5
<1>5. ASSUME NEW d \in D PROVE N(d) \in Nat /\ from <= N(d) /\ N(d) < from + w * R
  BY <1>3, <1>4
<1>6. ASSUME NEW d \in D, NEW e \in D, N(d) = N(e) PROVE d = e
  <2> DEFINE q == d \div R
             r == d % R
             s == e \div R
             t == e % R
  <2>1. r \in 0..(R - 1) /\ q \in 0..(w - 1) /\ t \in 0..(R - 1) /\ s \in 0..(w - 1)
    BY <1>3
  <2>2. d = q * R + r /\ e = s * R + t
    BY <1>3
  <2>3. from + r * w + q = from + t * w + s
    BY <1>6
  <2> HIDE DEF q, r, s, t
  <2>4. r * w \in Nat /\ t * w \in Nat
    BY <1>1, <2>1
  <2>5. r * w + q = t * w + s
    BY <1>1, <2>1, <2>3, <2>4
  <2>6. r = t /\ q = s
    BY <1>1, <2>1, <2>5, Unique
  <2> QED
    BY <2>2, <2>6
<1>7. N(0) = from
  <2>1. 0 \in 0..(R - 1) /\ 0 \in 0..(w - 1) /\ 0 * R + 0 = 0 /\ from + 0 * w + 0 = from
    BY <1>1
  <2>2. N(0 * R + 0) = from + 0 * w + 0
    BY <1>4, <2>1
  <2> QED
    BY <2>1, <2>2
<1>8. \A d : N(d) = Name(l, p, k, d)
  BY DEF Name, R, w, from
<1> HIDE DEF N, D
<1> QED
  BY <1>2, <1>4, <1>5, <1>6, <1>7, <1>8 DEF R, w, from

(***************************************************************************)
(* A cell c is put into a buffer b: N is what belongs at a place, A the    *)
(* address of its I component, V that of its Q component, F the places at  *)
(* which a FEC block begins.  The Q component of such a cell is held back  *)
(* in q, for end, until the next such cell comes or the row is closed.     *)
(***************************************************************************)
Putting(D, Adr, N, A, V, F, b, end, q, c, d0, open) ==
  /\ N \in [D -> Int] /\ A \in [D -> Adr] /\ V \in [D -> Adr]
  /\ \A d, e \in D : d # e => N[d] # N[e] /\ A[d] # A[e] /\ V[d] # V[e]
  /\ F \in SUBSET D /\ 0 \in F /\ \A d \in D : N[0] <= N[d]
  /\ b \in [Adr -> [re : Int, im : Int]]
  /\ end \in Adr /\ q \in Int /\ c \in Int /\ d0 \in D /\ N[d0] = c
  /\ \A d \in D : N[d] < c =>
       /\ b[A[d]].re = N[d]
       /\ b[V[d]].im = N[d] \/ (open /\ d \in F /\ end = V[d] /\ q = N[d])
  /\ d0 # 0 => \E d \in F : N[d] < c /\ end = V[d] /\ q = N[d]

PutBy(A, V, F, b, end, q, c, d0, closes, end2, q2, b1, b2, b3) ==
  /\ end2 = IF d0 \in F THEN V[d0] ELSE end
  /\ q2 = IF d0 \in F THEN c ELSE q
  /\ b1 = IF d0 \notin F THEN [b EXCEPT ![V[d0]].im = c]
          ELSE IF d0 # 0 THEN [b EXCEPT ![end].im = q] ELSE b
  /\ b2 = [b1 EXCEPT ![A[d0]].re = c]
  /\ b3 = IF closes THEN [b2 EXCEPT ![end2].im = q2] ELSE b2

LEMMA Put ==
  ASSUME NEW D, NEW Adr, NEW N, NEW A, NEW V, NEW F, NEW b, NEW end, NEW q, NEW c, NEW d0,
         NEW open, NEW closes \in BOOLEAN, NEW end2, NEW q2, NEW b1, NEW b2, NEW b3,
         Putting(D, Adr, N, A, V, F, b, end, q, c, d0, open),
         PutBy(A, V, F, b, end, q, c, d0, closes, end2, q2, b1, b2, b3)
  PROVE  /\ \A d \in D : N[d] <= c =>
              /\ b3[A[d]].re = N[d]
              /\ b3[V[d]].im = N[d] \/ (~closes /\ d \in F /\ end2 = V[d] /\ q2 = N[d])
         /\ \E d \in F : N[d] <= c /\ end2 = V[d] /\ q2 = N[d]
<1> USE DEF Putting, PutBy
<1> DEFINE Cell == [re : Int, im : Int]
<1>1. b1 \in [Adr -> Cell]
  OBVIOUS
<1>2. ASSUME NEW x \in Adr
      PROVE  /\ b1[x].re = b[x].re
             /\ b1[x].im = IF d0 \notin F THEN (IF x = V[d0] THEN c ELSE b[x].im)
                           ELSE IF d0 # 0 /\ x = end THEN q ELSE b[x].im
  <2>1. CASE d0 \notin F
    BY <2>1
  <2>2. CASE d0 \in F /\ d0 # 0
    BY <2>2
  <2>3. CASE d0 = 0
    BY <2>3
  <2> QED
    BY <2>1, <2>2, <2>3
<1>3. b2 \in [Adr -> Cell] /\ end2 \in Adr /\ q2 \in Int
  <2>1. A[d0] \in Adr /\ V[d0] \in Adr /\ c \in Int /\ b2 = [b1 EXCEPT ![A[d0]].re = c]
    OBVIOUS
  <2>2. b2 \in [Adr -> Cell]
    BY ONLY <1>1, <2>1
  <2>3. end2 \in Adr /\ q2 \in Int
    BY <2>1
  <2> QED
    BY <2>2, <2>3
<1>4. ASSUME NEW x \in Adr
      PROVE  b2[x].re = (IF x = A[d0] THEN c ELSE b[x].re) /\ b2[x].im = b1[x].im
  <2>1. A[d0] \in Adr /\ c \in Int /\ b2 = [b1 EXCEPT ![A[d0]].re = c]
    OBVIOUS
  <2>2. b2[x].re = (IF x = A[d0] THEN c ELSE b1[x].re) /\ b2[x].im = b1[x].im
    BY ONLY <1>1, <2>1, x \in Adr
  <2> QED
    BY ONLY <1>2, <2>2
<1>5. ASSUME NEW x \in Adr
      PROVE  /\ b3[x].re = (IF x = A[d0] THEN c ELSE b[x].re)
             /\ b3[x].im = IF closes /\ x = end2 THEN q2 ELSE b1[x].im
  <2>1. CASE closes
    <3>1. b3 = [b2 EXCEPT ![end2].im = q2]
      BY <2>1
    <3>2. b3[x].re = b2[x].re /\ b3[x].im = IF x = end2 THEN q2 ELSE b2[x].im
      BY ONLY <1>3, <3>1, x \in Adr
    <3> QED
      BY <1>4, <2>1, <3>2
  <2>2. CASE ~closes
    <3>1. b3 = b2
      BY <2>2
    <3> QED
      BY <1>4, <2>2, <3>1
  <2> QED
    BY <2>1, <2>2
<1>6. \E d \in F : N[d] <= c /\ end2 = V[d] /\ q2 = N[d]
  <2>1. CASE d0 \in F
    BY <2>1
  <2>2. CASE d0 \notin F
    <3>1. PICK d \in F : N[d] < c /\ end = V[d] /\ q = N[d]
      BY <2>2
    <3>2. N[d] \in Int
      OBVIOUS
    <3> QED
      BY <2>2, <3>1, <3>2
  <2> QED
    BY <2>1, <2>2
<1>7. PICK h \in F : N[h] <= c /\ end2 = V[h] /\ q2 = N[h]
  BY <1>6
<1>8. ASSUME NEW d \in D, N[d] <= c
      PROVE  /\ b3[A[d]].re = N[d]
             /\ b3[V[d]].im = N[d] \/ (~closes /\ d \in F /\ end2 = V[d] /\ q2 = N[d])
  <2>1. d = d0 \/ N[d] < c
    <3> DEFINE n == N[d]
    <3>1. n \in Int /\ n <= c /\ (d # d0 => n # c)
      BY <1>8
    <3> HIDE DEF n
    <3>2. c \in Int
      OBVIOUS
    <3>3. n < c \/ n = c
      BY ONLY <3>1, <3>2
    <3> QED
      BY <3>1, <3>3 DEF n
  <2>2. A[d] \in Adr /\ V[d] \in Adr
    OBVIOUS
  <2>3. b3[A[d]].re = N[d]
    <3>1. CASE d = d0
      BY <1>5, <2>2, <3>1
    <3>2. CASE d # d0
      BY <1>5, <2>1, <2>2, <3>2
    <3> QED
      BY <3>1, <3>2
  <2>4. b1[V[d]].im = N[d] \/ (d \in F /\ end2 = V[d] /\ q2 = N[d])
    <3>1. CASE d = d0
      BY <1>2, <2>2, <3>1
    <3>2. CASE d # d0 /\ d0 \notin F
      <4>1. b1[V[d]].im = b[V[d]].im /\ end2 = end /\ q2 = q
        BY <1>2, <2>2, <3>2
      <4> QED
        BY <2>1, <3>2, <4>1
    <3>3. CASE d # d0 /\ d0 \in F
      <4>1. d0 # 0
        <5>1. N[d] < c /\ N[0] <= N[d] /\ N[0] \in Int /\ N[d] \in Int
          BY <2>1, <3>3
        <5> QED
          BY <5>1
      <4>2. PICK e \in F : N[e] < c /\ end = V[e] /\ q = N[e]
        BY <4>1
      <4>3. b1[V[d]].im = IF V[d] = end THEN q ELSE b[V[d]].im
        BY <1>2, <2>2, <3>3, <4>1
      <4>4. CASE d = e
        BY <4>2, <4>3, <4>4
      <4>5. CASE d # e
        BY <2>1, <3>3, <4>2, <4>3, <4>5
      <4> QED
        BY <4>4, <4>5
    <3> QED
      BY <3>1, <3>2, <3>3
  <2>5. CASE closes
    <3>1. CASE d = h
      BY <1>5, <1>7, <2>2, <2>3, <2>5, <3>1
    <3>2. CASE d # h
      <4>1. V[d] # end2
        BY <1>7, <3>2
      <4>2. b3[V[d]].im = b1[V[d]].im
        BY <1>5, <2>2, <2>5, <4>1
      <4> QED
        BY <2>3, <2>4, <4>1, <4>2
    <3> QED
      BY <3>1, <3>2
  <2>6. CASE ~closes
    <3>1. b3[V[d]].im = b1[V[d]].im
      BY <1>5, <2>2, <2>6
    <3> QED
      BY <2>3, <2>4, <2>6, <3>1
  <2> QED
    BY <2>5, <2>6
<1> QED
  BY <1>6, <1>8

(* The place d holds the Q component back, for the address end.            *)
Held(l, p, k, d, end, q, c) ==
  /\ d \in Places(l, p, k) /\ Name(l, p, k, d) < c /\ Perm[p][d] % Fec(p) = 0
  /\ end = Prev(p, Perm[p][d]) /\ q = Name(l, p, k, d)

(* Every cell of the TI block that has come in, up to c, is where it ought *)
(* to be, but for a Q component held back while the row is open.           *)
Stored(l, p, k, b, open, end, q, c) ==
  /\ \A d \in Places(l, p, k) : Name(l, p, k, d) < c =>
       /\ b[Perm[p][d]].re = Name(l, p, k, d)
       /\ \/ b[Prev(p, Perm[p][d])].im = Name(l, p, k, d)
          \/ open /\ Held(l, p, k, d, end, q, c)
  /\ c > From(l, p, k) => \E d \in Places(l, p, k) : Held(l, p, k, d, end, q, c)

Filled ==
  Stored(l1_post, plp_id, idx_time_il + 1, buffer[time_deint_cell], idx_step_ti > 0,
         end_cell_fec_block, q_first_cell_fec_block, cell)

(***************************************************************************)
(* As long as there is a slice, the buffer that is being filled holds what *)
(* has come in of the TI block.                                            *)
(***************************************************************************)
FillInv == announced => (InSlice /\ Filled) \/ InTail

(* Nothing has come in yet.                                                *)
LEMMA Fresh ==
  ASSUME NEW l \in Layouts, NEW p \in Ids, NEW k \in 1..NTi[p], NEW b, NEW open,
         NEW end, NEW q
  PROVE  Stored(l, p, k, b, open, end, q, From(l, p, k))
<1>1. From(l, p, k) \in Nat
  BY Ends
<1>2. \A d \in Places(l, p, k) : Name(l, p, k, d) \in Nat /\ From(l, p, k) <= Name(l, p, k, d)
  BY NameIs
<1>3. \A d \in Places(l, p, k) : ~(Name(l, p, k, d) < From(l, p, k))
  BY <1>1, <1>2
<1>4. ~(From(l, p, k) > From(l, p, k))
  BY <1>1
<1> QED
  BY <1>3, <1>4 DEF Stored

(* A cell more: Put, in the words of execute().                            *)
LEMMA StoreRight ==
  ASSUME TypeInv, announced, InSlice, Filled, left > 0, Store,
         NEW l, NEW p, NEW k, l = l1_post, p = plp_id, k = idx_time_il + 1
  PROVE  /\ Stored(l, p, k, buffer'[time_deint_cell], ~RowEnds,
                   end_cell_fec_block', q_first_cell_fec_block', cell + 1)
         /\ \A x \in {"a", "b"} : x # time_deint_cell => buffer'[x] = buffer[x]
<1> DEFINE D == Places(l, p, k)
           N == [d \in D |-> Name(l, p, k, d)]
           A == [d \in D |-> Perm[p][d]]
           V == [d \in D |-> Prev(p, Perm[p][d])]
           F == {d \in D : Perm[p][d] % Fec(p) = 0}
           d0 == idx_step_ti + idx_row_ti
           b == buffer[time_deint_cell]
           end == end_cell_fec_block
           q == q_first_cell_fec_block
           b1 == PutQ(b)
           b2 == PutI(b1)
           b3 == Flush(b2)
           open == idx_step_ti > 0
<1>1. /\ l \in Layouts /\ p \in Ids /\ k \in 1..NTi[p] /\ Rows[p] \in Nat \ {0}
      /\ idx_row_ti \in 0..(Rows[p] - 1) /\ cell \in Nat /\ Fec(p) \in Nat \ {0}
  BY SizeAssumption DEF TypeInv, PlaceInv, CountInv, Fec
<1>2. PICK from \in Nat, w \in Nat \ {0} : from = From(l, p, k) /\ w = Wide(l, p, k)
  BY <1>1, Ends, WideIs
<1>3. PICK j \in 0..(w - 1) : idx_step_ti = j * Rows[p] /\ cell = from + idx_row_ti * w + j
  BY <1>2 DEF InSlice, Within
<1>4. d0 \in D /\ N[d0] = cell
  BY <1>1, <1>2, <1>3, NameIs
<1>5. /\ D \subseteq Addresses /\ 0 \in D /\ Perm[p][0] = 0
      /\ \A d \in D : /\ Perm[p][d] \in D /\ Prev(p, Perm[p][d]) \in D /\ Perm[p][d] \in Nat
      /\ \A d, e \in D :
           d # e => Perm[p][d] # Perm[p][e] /\ Prev(p, Perm[p][d]) # Prev(p, Perm[p][e])
  BY <1>1, PlacesFit
<1>6. /\ \A d \in D : Name(l, p, k, d) \in Nat /\ from <= Name(l, p, k, d)
      /\ \A d, e \in D : d # e => Name(l, p, k, d) # Name(l, p, k, e)
      /\ Name(l, p, k, 0) = from
  BY <1>1, <1>2, NameIs
<1>7. /\ N \in [D -> Int] /\ A \in [D -> Addresses] /\ V \in [D -> Addresses]
      /\ \A d, e \in D : d # e => N[d] # N[e] /\ A[d] # A[e] /\ V[d] # V[e]
      /\ \A d \in D : N[0] <= N[d]
  <2>1. N \in [D -> Int]
    BY <1>6
  <2>2. A \in [D -> Addresses] /\ V \in [D -> Addresses]
    BY <1>5
  <2>3. \A d, e \in D : d # e => N[d] # N[e] /\ A[d] # A[e] /\ V[d] # V[e]
    BY <1>5, <1>6
  <2>4. \A d \in D : N[0] <= N[d]
    BY <1>5, <1>6
  <2> QED
    BY <2>1, <2>2, <2>3, <2>4
<1>8. 0 \in F /\ F \in SUBSET D
  <2>1. 0 % Fec(p) = 0
    BY <1>1, Small
  <2> QED
    BY <1>5, <2>1
<1>9. /\ b \in [Addresses -> [re : Int, im : Int]] /\ end \in Addresses /\ q \in Int
      /\ time_deint_cell \in {"a", "b"} /\ cell \in Int
  BY <1>1, Sizes DEF TypeInv, BufferInv, CellNames
<1>10. /\ \A d \in D : N[d] < cell =>
            /\ b[A[d]].re = N[d]
            /\ b[V[d]].im = N[d] \/ (open /\ d \in F /\ end = V[d] /\ q = N[d])
       /\ cell > from => \E d \in F : N[d] < cell /\ end = V[d] /\ q = N[d]
  BY <1>2 DEF Filled, Stored, Held
<1>11. /\ d0 # 0 => cell > from
       /\ open => d0 # 0
  <2>1. d0 # 0 => cell # from /\ from <= cell
    BY <1>4, <1>5, <1>6
  <2>2. idx_step_ti \in Nat /\ idx_row_ti \in Nat
    BY <1>1 DEF TypeInv, FrameInv
  <2> QED
    BY <1>1, <2>1, <2>2
<1>12. Address = A[d0] /\ (Address # 0 <=> d0 # 0) /\ This = cell
       /\ (Address % Fec(p) = 0 <=> d0 \in F)
       /\ (Address % Fec(p) # 0 => Address - 1 = V[d0])
       /\ (Address % Fec(p) = 0 => Address + Fec(p) - 1 = V[d0])
  BY <1>4, <1>5 DEF Address, This, Prev
<1>13. /\ end_cell_fec_block' = IF d0 \in F THEN V[d0] ELSE end
       /\ q_first_cell_fec_block' = IF d0 \in F THEN cell ELSE q
  BY <1>12 DEF Store
<1>14. b1 = IF d0 \notin F THEN [b EXCEPT ![V[d0]].im = cell]
            ELSE IF d0 # 0 THEN [b EXCEPT ![end].im = q] ELSE b
  BY <1>12 DEF PutQ
<1>15. b2 = [b1 EXCEPT ![A[d0]].re = cell]
  BY <1>12 DEF PutI
<1>16. b3 = IF RowEnds THEN [b2 EXCEPT ![end_cell_fec_block'].im = q_first_cell_fec_block']
            ELSE b2
  BY DEF Flush
<1>17. /\ buffer'[time_deint_cell] = b3
       /\ \A x \in {"a", "b"} : x # time_deint_cell => buffer'[x] = buffer[x]
  <2>1. buffer' = [buffer EXCEPT ![time_deint_cell] = b3]
    BY DEF Store
  <2>2. DOMAIN buffer = {"a", "b"}
    BY DEF TypeInv, BufferInv
  <2> HIDE DEF b3
  <2> QED
    BY <1>9, <2>1, <2>2
<1>18. RowEnds \in BOOLEAN /\ open \in BOOLEAN
  BY DEF RowEnds
<1> HIDE DEF D, N, A, V, F, d0, b, end, q, b1, b2, b3, open
<1>19. /\ \A d \in D : N[d] <= cell =>
            /\ b3[A[d]].re = N[d]
            /\ \/ b3[V[d]].im = N[d]
               \/ /\ ~RowEnds /\ d \in F /\ end_cell_fec_block' = V[d]
                  /\ q_first_cell_fec_block' = N[d]
       /\ \E d \in F : /\ N[d] <= cell /\ end_cell_fec_block' = V[d]
                       /\ q_first_cell_fec_block' = N[d]
  <2>1. d0 # 0 => \E d \in F : N[d] < cell /\ end = V[d] /\ q = N[d]
    BY <1>10, <1>11
  <2>2. Putting(D, Addresses, N, A, V, F, b, end, q, cell, d0, open)
    BY ONLY <1>4, <1>7, <1>8, <1>9, <1>10, <2>1 DEF Putting
  <2>3. PutBy(A, V, F, b, end, q, cell, d0, RowEnds,
              end_cell_fec_block', q_first_cell_fec_block', b1, b2, b3)
    BY ONLY <1>13, <1>14, <1>15, <1>16 DEF PutBy
  <2> QED
    BY ONLY <1>18, <2>2, <2>3, Put
<1>20. \A d \in D : N[d] \in Int /\ (N[d] <= cell <=> N[d] < cell + 1)
  BY <1>7, <1>9
<1>21. Stored(l, p, k, b3, ~RowEnds, end_cell_fec_block', q_first_cell_fec_block', cell + 1)
  BY <1>19, <1>20 DEF Stored, Held, D, N, A, V, F
<1> QED
  BY <1>17, <1>21

LEMMA FillPlace ==
  ASSUME TypeInv, announced, InSlice, Filled, Place
  PROVE  Filled'
<1>1. PICK l, p, k : l = l1_post /\ p = plp_id /\ k = idx_time_il + 1
  OBVIOUS
<1>2. /\ UNCHANGED <<frameVars, plp_id, idx_time_il, time_deint_cell>>
      /\ cell' = cell + 1 /\ left > 0 /\ Store
  BY DEF Place, Counted
<1>3. Stored(l, p, k, buffer'[time_deint_cell], ~RowEnds,
             end_cell_fec_block', q_first_cell_fec_block', cell + 1)
  BY <1>1, <1>2, StoreRight
<1>4. ~RowEnds <=> idx_step_ti' > 0
  <2>1. Rows[plp_id] \in Nat \ {0} /\ idx_step_ti \in Nat
    BY SizeAssumption DEF TypeInv, PlaceInv, FrameInv
  <2> QED
    BY <2>1 DEF Place
<1>5. Stored(l, p, k, buffer'[time_deint_cell], idx_step_ti' > 0,
             end_cell_fec_block', q_first_cell_fec_block', cell + 1)
  BY <1>3, <1>4 DEF Stored
<1> QED
  BY <1>1, <1>2, <1>5 DEF Filled, frameVars

(* A TI block that has just begun.                                         *)
LEMMA FillNext ==
  ASSUME PlaceInv', idx_step_ti' = 0, idx_row_ti' = 0, InSlice'
  PROVE  Filled'
<1>1. PICK l, p, k : l = l1_post' /\ p = plp_id' /\ k = idx_time_il' + 1
  OBVIOUS
<1>2. l \in Layouts /\ p \in Ids /\ k \in 1..NTi[p] /\ Rows[p] \in Nat \ {0}
  <2>1. l \in Layouts /\ p \in Ids /\ idx_time_il' \in 0..(NTi[p] - 1)
    BY <1>1 DEF PlaceInv
  <2>2. NTi[p] \in Nat \ {0} /\ Rows[p] \in Nat \ {0}
    BY <2>1, SizeAssumption
  <2>3. PICK i \in 0..(NTi[p] - 1) : k = i + 1
    BY <1>1, <2>1
  <2>4. k \in 1..NTi[p]
    <3> DEFINE n == NTi[p]
    <3>1. i \in 0..(n - 1) /\ n \in Nat /\ k = i + 1
      BY <2>2, <2>3
    <3> HIDE DEF n
    <3>2. k \in 1..n
      BY ONLY <3>1
    <3> QED
      BY <3>2 DEF n
  <2> QED
    BY <2>1, <2>2, <2>4
<1>3. PICK from \in Nat, w \in Nat \ {0} : from = From(l, p, k) /\ w = Wide(l, p, k)
  BY <1>2, Ends, WideIs
<1>4. PICK j \in 0..(w - 1) : 0 = j * Rows[p] /\ cell' = from + 0 * w + j
  BY <1>1, <1>3 DEF InSlice, Within
<1>5. cell' = from
  <2>1. j = 0
    BY <1>2, <1>4
  <2>2. 0 * w = 0 /\ from + 0 + 0 = from
    OBVIOUS
  <2> QED
    BY <1>4, <2>1, <2>2
<1>6. \A b, open, end, q : Stored(l, p, k, b, open, end, q, from)
  BY <1>2, <1>3, Fresh
<1> QED
  BY <1>1, <1>5, <1>6 DEF Filled

LEMMA FillStep ==
  ASSUME SameFec, TypeInv, TypeInv', PosInv, PosInv', FillInv, [Next]_vars
  PROVE  FillInv'
<1> SUFFICES ASSUME announced' PROVE (InSlice' /\ Filled') \/ InTail'
  BY DEF FillInv
<1>1. PlaceInv' /\ PlaceRight'
  BY DEF TypeInv, PosInv
<1>2. ASSUME NEW l \in Layouts, Announce(l) PROVE (InSlice' /\ Filled') \/ InTail'
  <2>1. idx_step_ti' = 0 /\ idx_row_ti' = 0
    BY <1>2 DEF Announce, Restart
  <2> QED
    BY <1>1, <2>1, FillNext DEF PlaceRight
<1>3. CASE Unannounced
  BY <1>3 DEF Unannounced
<1>4. CASE Place
  <2>1. announced /\ PlaceRight
    BY <1>4 DEF Place, Counted, frameVars, PosInv
  <2>2. CASE InSlice /\ Filled
    BY <1>4, <2>1, <2>2, FillPlace, SlicePlace
  <2>3. CASE InTail
    BY <1>4, <2>3, TailPlace
  <2> QED
    BY <2>1, <2>2, <2>3 DEF FillInv
<1>5. CASE Complete
  <2>1. idx_step_ti' = 0 /\ idx_row_ti' = 0
    BY <1>5 DEF Complete
  <2> QED
    BY <1>1, <2>1, FillNext DEF PlaceRight
<1>6. CASE UNCHANGED <<l1_post, tiVars, bufferVars, cell, delivered, announced>>
  BY <1>6 DEF tiVars, bufferVars, FillInv, InSlice, InTail, Within, Filled
<1> QED
  BY <1>2, <1>3, <1>4, <1>5, <1>6 DEF Next, Frame, Symbol, Take, Done, vars, frameVars

(* A TI block that is full is right in the buffer in which it is handed    *)
(* over.                                                                   *)
LEMMA BlockFull ==
  ASSUME TypeInv, TypeInv', PosInv, FillInv, announced, Complete, NEW s,
         s = [buf |-> time_deint_cell, size |-> ti_block_size, plp |-> plp_id,
              l1 |-> l1_post, block |-> delivered + 1]
  PROVE  Correct(s)'
<1>1. Counted /\ Store /\ BlockEnds /\ left > 0 /\ RowEnds
  BY DEF Complete, Counted, BlockEnds
<1>2. InSlice /\ Filled
  BY <1>1, TailStays DEF FillInv, Next
<1>3. PICK l, p, k : l = l1_post /\ p = plp_id /\ k = idx_time_il + 1
  OBVIOUS
<1>4. /\ l \in Layouts /\ p \in Ids /\ k \in 1..NTi[p] /\ Rows[p] \in Nat \ {0}
      /\ time_deint_cell \in {"a", "b"}
  BY <1>3, SizeAssumption DEF TypeInv, PlaceInv, BufferInv
<1>5. PICK from \in Nat, w \in Nat \ {0} : from = From(l, p, k) /\ w = Wide(l, p, k)
  BY <1>4, Ends, WideIs
<1>6. cell + 1 = from + w * Rows[p] /\ ti_block_size = w * Rows[p]
  <2>1. Within(from, w)
    BY <1>2, <1>3, <1>5 DEF InSlice
  <2> QED
    BY <1>1, <1>3, <2>1, WithinEnds DEF TypeInv, Within
<1> DEFINE D == Places(l, p, k)
           b == buffer'[time_deint_cell]
           f == Fec(p)
<1>7. \A d \in D : /\ b[Perm[p][d]].re = Name(l, p, k, d)
                   /\ b[Prev(p, Perm[p][d])].im = Name(l, p, k, d)
  <2>1. Stored(l, p, k, b, ~RowEnds, end_cell_fec_block', q_first_cell_fec_block', cell + 1)
    BY <1>1, <1>2, <1>3, StoreRight
  <2>2. \A d \in D : Name(l, p, k, d) < cell + 1
    BY <1>4, <1>5, <1>6, NameIs
  <2> QED
    BY <1>1, <2>1, <2>2 DEF Stored
<1>8. f \in Nat \ {0} /\ FecsOf(l, p, k) \in Nat /\ FecsOf(l, p, k) * f = w * Rows[p]
  BY <1>4, <1>5, WideIs
<1>9. D = 0..(FecsOf(l, p, k) * f - 1) /\ DOMAIN Block(l, p, k) = D
  BY DEF Places, Block
<1>10. ASSUME NEW a \in D PROVE b[a] = Block(l, p, k)[a]
  <2>1. PICK d \in D : Perm[p][d] = a
    BY <1>4, PlacesFit
  <2>2. a \in Nat /\ a \in 0..(FecsOf(l, p, k) * f - 1)
    BY <1>9
  <2> DEFINE n == NextInFec(p, a)
  <2>3. n \in Nat /\ n \div f = a \div f /\ Prev(p, n) = a
    BY <1>4, <2>2, PrevNext
  <2>4. n \in D
    <3> HIDE DEF n, f
    <3>1. n \in 0..(FecsOf(l, p, k) * f - 1)
      BY <1>8, <2>2, <2>3, WithinFec
    <3> QED
      BY <1>9, <3>1
  <2>5. PICK e \in D : Perm[p][e] = n
    BY <1>4, <2>4, PlacesFit
  <2>6. b[a].re = Sent(l, p, k, a) /\ b[a].im = Sent(l, p, k, n)
    BY <1>4, <1>7, <2>1, <2>3, <2>5, SentIs
  <2>7. b[a] \in [re : CellNames, im : CellNames]
    <3>1. a \in Addresses
      BY <1>4, PlacesFit
    <3> QED
      BY <1>4, <3>1 DEF TypeInv, BufferInv
  <2>8. b[a] = [re |-> Sent(l, p, k, a), im |-> Sent(l, p, k, n)]
    BY <2>6, <2>7
  <2> QED
    BY <1>9, <2>2, <2>8 DEF Block
<1>11. /\ s.buf = time_deint_cell /\ s.size = FecsOf(l, p, k) * f /\ s.plp = p /\ s.l1 = l
       /\ s.block = Number(l, p, k)
  BY <1>2, <1>3, <1>6, <1>8 DEF InSlice
<1> HIDE DEF D
<1>12. /\ DOMAIN Block(s.l1, p, k) = 0..(s.size - 1)
       /\ \A a \in DOMAIN Block(s.l1, p, k) : buffer'[s.buf][a] = Block(s.l1, p, k)[a]
  BY <1>9, <1>10, <1>11
<1> QED
  BY <1>4, <1>11, <1>12 DEF Correct

LEMMA CorrectStays ==
  ASSUME NEW s, Correct(s), buffer'[s.buf] = buffer[s.buf]
  PROVE  Correct(s)'
  BY DEF Correct

(***************************************************************************)
(* As long as no TI block has been handed over with one pending, there is  *)
(* but one in the demapper's hands, in the buffer that is not being        *)
(* filled, and it is right there.                                          *)
(***************************************************************************)
HandInv ==
  ~late => /\ Len(queue) <= 1 /\ (reading # NoBlock => queue = <<>>)
           /\ \A s \in Handed : s.buf # time_deint_cell /\ (s.block > 0 => Correct(s))

LEMMA HandedIs ==
  ASSUME TypeInv
  PROVE  /\ Handed = {queue[i] : i \in 1..Len(queue)} \cup ({reading} \ {NoBlock})
         /\ queue \in Seq(Signal) /\ Handed \subseteq Signal
  BY DEF Handed, TypeInv, QueueInv

LEMMA HandStays ==
  ASSUME TypeInv, HandInv, Handed' \subseteq Handed, time_deint_cell' = time_deint_cell,
         \A x \in {"a", "b"} : x # time_deint_cell => buffer'[x] = buffer[x],
         ~late' => ~late, ~late' => Len(queue)' <= 1 /\ (reading' # NoBlock => queue' = <<>>)
  PROVE  HandInv'
<1> SUFFICES ASSUME ~late', NEW s \in Handed'
             PROVE  s.buf # time_deint_cell' /\ (s.block > 0 => Correct(s)')
  BY DEF HandInv
<1>1. s \in Handed /\ s.buf # time_deint_cell /\ (s.block > 0 => Correct(s))
  BY DEF HandInv
<1>2. s.buf \in {"a", "b"}
  BY <1>1, HandedIs DEF Signal
<1>3. buffer'[s.buf] = buffer[s.buf]
  BY <1>1, <1>2
<1> QED
  BY <1>1, <1>3, CorrectStays

LEMMA HandStep ==
  ASSUME TypeInv, TypeInv', PosInv, FillInv, HandInv, [Next]_vars
  PROVE  HandInv'
<1>1. QueueInv /\ QueueInv' /\ time_deint_cell = (IF swap_buffers THEN "a" ELSE "b")
      /\ swap_buffers \in BOOLEAN
  BY DEF TypeInv, BufferInv
<1>2. CASE UNCHANGED <<demapVars, buffer, time_deint_cell>>
  BY <1>2, HandStays DEF demapVars, HandInv, Handed
<1>3. CASE Place
  <2>1. \A x \in {"a", "b"} : x # time_deint_cell => buffer'[x] = buffer[x]
    <3>1. DOMAIN buffer = {"a", "b"}
      BY DEF TypeInv, BufferInv
    <3> QED
      BY <1>3, <3>1 DEF Place, Store
  <2>2. UNCHANGED <<demapVars, time_deint_cell>>
    BY <1>3 DEF Place
  <2> QED
    BY <2>1, <2>2, HandStays DEF demapVars, HandInv, Handed
<1>4. CASE Complete
  <2>1. PICK s : s = [buf |-> time_deint_cell, size |-> ti_block_size, plp |-> plp_id,
                      l1 |-> l1_post, block |-> IF announced THEN delivered + 1 ELSE 0]
    OBVIOUS
  <2>2. /\ reading = NoBlock /\ reading' = NoBlock /\ queue' = Append(queue, s)
        /\ late' = (late \/ queue # <<>>)
        /\ time_deint_cell' = IF swap_buffers THEN "b" ELSE "a"
    BY <1>1, <1>4, <2>1 DEF Complete, Emit, Swap
  <2> SUFFICES ASSUME ~late' PROVE HandInv'
    BY DEF HandInv
  <2>3. queue = <<>>
    BY <2>2
  <2>4. queue' = <<s>>
    BY <2>2, <2>3
  <2>5. Len(queue') = 1 /\ queue'[1] = s
    BY <2>4
  <2>6. Handed' = {s}
    BY <2>2, <2>5 DEF Handed
  <2>7. s.buf # time_deint_cell'
    BY <1>1, <2>1, <2>2
  <2>8. s.block > 0 => Correct(s)'
    <3>1. CASE announced
      BY <1>4, <2>1, <3>1, BlockFull
    <3>2. CASE ~announced
      BY <2>1, <3>2
    <3> QED
      BY <3>1, <3>2
  <2> QED
    BY <2>2, <2>5, <2>6, <2>7, <2>8 DEF HandInv
<1>5. CASE Take
  <2>1. /\ reading = NoBlock /\ queue # <<>> /\ reading' = Head(queue)
        /\ queue' = Tail(queue) /\ UNCHANGED <<buffer, time_deint_cell, late>>
    BY <1>5 DEF Take, bufferVars
  <2>2. queue \in Seq(Signal) /\ Len(queue) \in Nat /\ Len(queue) # 0
    BY <1>1, <2>1 DEF QueueInv
  <2>3. Handed' \subseteq Handed
    <3>1. Head(queue) = queue[1] /\ Len(Tail(queue)) = Len(queue) - 1
          /\ \A i \in 1..(Len(queue) - 1) : Tail(queue)[i] = queue[i + 1]
      BY <2>1, <2>2
    <3>2. 1 \in 1..Len(queue) /\ \A i \in 1..(Len(queue) - 1) : i + 1 \in 1..Len(queue)
      BY <2>2
    <3> QED
      BY <2>1, <3>1, <3>2 DEF Handed
  <2>4. ~late' => ~late /\ Len(queue') <= 1 /\ queue' = <<>>
    BY <2>1, <2>2 DEF HandInv
  <2> QED
    BY <2>1, <2>3, <2>4, HandStays
<1>6. CASE Done
  <2>1. /\ reading' = NoBlock /\ UNCHANGED <<queue, buffer, time_deint_cell, late>>
    BY <1>6 DEF Done, bufferVars
  <2>2. Handed' \subseteq Handed
    BY <2>1 DEF Handed
  <2> QED
    BY <2>1, <2>2, HandStays DEF HandInv
<1>7. ASSUME NEW l \in Layouts, Announce(l) PROVE UNCHANGED <<demapVars, buffer, time_deint_cell>>
  BY <1>1, <1>7 DEF Announce
<1> QED
  BY <1>2, <1>3, <1>4, <1>5, <1>6, <1>7
    DEF Next, Frame, Unannounced, Symbol, vars, bufferVars

(***************************************************************************)
(* As long as every TI block that execute() emits is taken before the next *)
(* is complete, the demapper finds in the buffer it is given, until it is  *)
(* done, every I and every Q component of that TI block where the          *)
(* interleaver of the transmitter had it: for all PLPs, permutations and   *)
(* frames, announced or not, provided the FEC blocks of the PLPs have as   *)
(* many cells as those of PLP 1.                                           *)
(***************************************************************************)
THEOREM BlocksRightHolds ==
  ASSUME SameFec
  PROVE  Spec => []BlocksRight
<1> DEFINE Inv == TypeInv /\ PosInv /\ FillInv /\ HandInv
<1>1. Init => Inv
  <2> SUFFICES ASSUME Init PROVE Inv
    OBVIOUS
  <2>1. ~announced /\ queue = <<>> /\ reading = NoBlock /\ late = FALSE
    BY DEF Init
  <2>2. Handed = {} /\ Len(queue) = 0
    BY <2>1 DEF Handed
  <2> QED
    BY <2>1, <2>2, TypeInit DEF PosInv, FillInv, HandInv
<1>2. Inv /\ [Next]_vars => Inv'
  <2> SUFFICES ASSUME Inv, [Next]_vars PROVE Inv'
    OBVIOUS
  <2>1. TypeInv'
    BY TypeStep
  <2>2. PosInv'
    BY PosStep
  <2> QED
    BY <2>1, <2>2, FillStep, HandStep
<1>3. Inv => BlocksRight
  BY DEF HandInv, BlocksRight
<1> QED
  BY <1>1, <1>2, <1>3, PTL DEF Spec
=============================================================================
