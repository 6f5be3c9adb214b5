------------------------- MODULE TimeDeinterleaver -------------------------
(***************************************************************************)
(* src/DVB_T2/time_deinterleaver.cpp: the cells of a T2 frame come in      *)
(* symbol by symbol; the slice of each PLP is cut into TI blocks, a TI     *)
(* block is read row by row, each of its FEC blocks put in order, the Q    *)
(* components of the rotated constellation set back by one cell, and the   *)
(* block handed to the demapper in one of two buffers by a queued signal.  *)
(*                                                                         *)
(* A cell is named by its place among the data cells of the frame.  One    *)
(* TI block or several in a frame; none that spans frames.                 *)
(*                                                                         *)
(* SliceEndAtNext, NoFlush, NoRestart and NextIlNoWrap are slips, for the  *)
(* mutation runs that README.md describes.                                 *)
(***************************************************************************)
EXTENDS Integers, Sequences, FiniteSets

CONSTANTS
  Plps,     \* number of PLPs; their identifiers are 0..Plps-1
  NSplit,   \* n_split, the columns of a FEC block
  Rows,     \* PLP -> num_rows
  NTi,      \* PLP -> n_ti, the TI blocks of a frame
  Perm,     \* PLP -> permutations, place in a TI block -> address
  Layouts,  \* what L1-post says of a frame: PLP -> [start, num_blocks]
  Beyond,   \* what cells_per_fec_block[1] may read as when there is one PLP
  P2Cells,  \* data cells behind the signalling in a P2 symbol
  Cells,    \* data cells in any other symbol
  Symbols,  \* such symbols in a frame
  MaxQueue, \* bound: signals pending in the demapper's event queue
  MaxCell   \* bound of idx_cell, which only l1_dyn_execute sets back

Ids == 0..(Plps - 1)

Fec(p) == Rows[p] * NSplit

FrameCells == P2Cells + Symbols * Cells

SliceSize(l, p) == l[p].num_blocks * Fec(p)

First(l) == CHOOSE p \in Ids : l[p].start = 0

ASSUME SizeAssumption ==
  /\ Plps \in Nat \ {0} /\ NSplit \in Nat \ {0}
  /\ Rows \in [Ids -> Nat \ {0}] /\ NTi \in [Ids -> Nat \ {0}]
  /\ P2Cells \in Nat \ {0} /\ Cells \in Nat \ {0} /\ Symbols \in Nat
  /\ MaxQueue \in Nat /\ MaxCell \in Nat
  /\ Beyond \subseteq Int

(* The slices follow each other from the first cell on, without gaps and   *)
(* without overlaps, each holds at least one FEC block for every TI block, *)
(* and less is left at the end of the frame than the last TI block of the  *)
(* last slice takes.                                                       *)
ASSUME LayoutAssumption ==
  \A l \in Layouts :
    /\ l \in [Ids -> [start : 0..(FrameCells - 1), num_blocks : Nat]]
    /\ \A p \in Ids :
         /\ l[p].num_blocks >= NTi[p]
         /\ LET next == l[p].start + SliceSize(l, p)
            IN  \/ \E q \in Ids : l[q].start = next
                \/ /\ next <= FrameCells
                   /\ \A q \in Ids : l[q].start <= l[p].start
                   /\ FrameCells - next
                        < ((l[p].num_blocks + NTi[p] - 1) \div NTi[p]) * Fec(p)
    /\ \A p, q \in Ids :
         /\ p # q => l[p].start # l[q].start
         /\ l[p].start < l[q].start => l[p].start + SliceSize(l, p) <= l[q].start
    /\ \E p \in Ids : l[p].start = 0

(* FEC block by FEC block, and the first cell stays where it is.           *)
ASSUME PermAssumption ==
  \A p \in Ids :
    /\ DOMAIN Perm[p] = 0..(Cardinality(DOMAIN Perm[p]) - 1)
    /\ \A d \in DOMAIN Perm[p] :
         /\ Perm[p][d] \in Nat
         /\ Perm[p][d] \div Fec(p) = d \div Fec(p)
         /\ \A e \in DOMAIN Perm[p] : d # e => Perm[p][d] # Perm[p][e]
    /\ Perm[p][0] = 0
    /\ \A l \in Layouts : 0..(SliceSize(l, p) - 1) \subseteq DOMAIN Perm[p]

VARIABLES
  l1_post,           \* of the frame announced last
  slice_end,         \* PLP -> cell
  num_cols,          \* PLP -> TI block -> columns
  start_t2_frame,
  idx_cell, plp_id, idx_time_il, ti_block_size,
  idx_step_ti, idx_row_ti,
  swap_buffers, time_deint_cell,
  end_cell_fec_block, q_first_cell_fec_block,
  buffer,            \* "a", "b" -> address -> [re, im]
  left,              \* num_cells - i of execute
  symbol,            \* symbols of the frame that have come in
  announced,         \* history: the frame has been by l1_dyn_execute
  cell,              \* history: data cells of the frame that have come in
  delivered,         \* history: TI blocks of the frame emitted
  queue,             \* pending ti_block signals
  reading,           \* the one the demapper is serving, if any
  late               \* history: a block was handed over with one pending

frameVars == <<l1_post, slice_end, num_cols, symbol, announced>>
tiVars == <<plp_id, idx_time_il, ti_block_size, idx_step_ti, idx_row_ti>>
bufferVars == <<swap_buffers, time_deint_cell, end_cell_fec_block,
                q_first_cell_fec_block, buffer>>
demapVars == <<queue, reading, late>>
vars == <<frameVars, start_t2_frame, idx_cell, tiVars, bufferVars, left, cell,
          delivered, demapVars>>

NoBlock == [buf |-> "none"]

Empty == [re |-> -1, im |-> -1]   \* neither a cell of this frame

Addresses == UNION {DOMAIN Perm[p] : p \in Ids}

(* start() has run; the first l1_dyn_execute is about to come.             *)
Init ==
  /\ l1_post \in Layouts
  /\ slice_end = [p \in Ids |-> 0] /\ num_cols = [p \in Ids |-> <<>>]
  /\ start_t2_frame = TRUE /\ idx_cell = 0 /\ plp_id = 0 /\ idx_time_il = 0
  /\ ti_block_size = 0 /\ idx_step_ti = 0 /\ idx_row_ti = 0
  /\ swap_buffers = TRUE /\ time_deint_cell = "a"
  /\ end_cell_fec_block = 0 /\ q_first_cell_fec_block = -1
  /\ buffer = [b \in {"a", "b"} |-> [i \in Addresses |-> Empty]]
  /\ left = 0 /\ symbol = Symbols + 1 /\ announced = FALSE
  /\ cell = 0 /\ delivered = 0
  /\ queue = <<>> /\ reading = NoBlock /\ late = FALSE

----------------------------------------------------------------------------
SliceEndAtNext(l, p, fec) == l[p].start + l[p].num_blocks * fec

(* With p_i = 1.  The code takes the cells of a FEC block from PLP 1,      *)
(* whatever the PLP: with others of another size the end of their slice    *)
(* goes unnoticed.                                                         *)
SliceEnd(l, p, fec) == l[p].start + l[p].num_blocks * fec - 1

(* fec_blocks_per_ti_block, one more in the last TI blocks.                *)
Columns(l, p) ==
  [j \in 0..(NTi[p] - 1) |->
     LET more == IF j >= NTi[p] - (l[p].num_blocks % NTi[p]) THEN 1 ELSE 0
     IN  (l[p].num_blocks \div NTi[p] + more) * NSplit]

Size(cols, p, j) == cols[p][j] * Rows[p]

SecondFec == IF Plps > 1 THEN {Fec(1)} ELSE Beyond

NoRestart == UNCHANGED <<idx_step_ti, idx_row_ti>>

Restart == idx_step_ti' = 0 /\ idx_row_ti' = 0

(* l1_dyn_execute(), and the head of the execute() it calls.               *)
Announce(l) ==
  /\ left = 0 /\ symbol = Symbols + 1
  /\ l1_post' = l
  /\ \E fec \in SecondFec : slice_end' = [p \in Ids |-> SliceEnd(l, p, fec)]
  /\ num_cols' = [p \in Ids |-> Columns(l, p)]
  /\ start_t2_frame' = FALSE
  /\ idx_cell' = 0 /\ idx_time_il' = 0
  /\ plp_id' = First(l)
  /\ ti_block_size' = Size(num_cols', plp_id', 0)
  /\ Restart
  /\ time_deint_cell' = IF swap_buffers THEN "a" ELSE "b"
  /\ left' = P2Cells /\ symbol' = 1
  /\ announced' = TRUE /\ cell' = 0 /\ delivered' = 0
  /\ UNCHANGED <<swap_buffers, end_cell_fec_block, q_first_cell_fec_block, buffer,
                 demapVars>>

(* A frame whose L1-post is not good: its P2 does not come in, its other   *)
(* symbols do.                                                             *)
Unannounced ==
  /\ left = 0 /\ symbol = Symbols + 1 /\ ~start_t2_frame
  /\ idx_cell + Symbols * Cells <= MaxCell
  /\ symbol' = 1 /\ announced' = FALSE /\ cell' = 0 /\ delivered' = 0
  /\ UNCHANGED <<l1_post, slice_end, num_cols, start_t2_frame, idx_cell, tiVars,
                 bufferVars, left, demapVars>>

Symbol ==
  /\ left = 0 /\ symbol <= Symbols
  /\ symbol' = symbol + 1 /\ left' = Cells
  /\ UNCHANGED <<l1_post, slice_end, num_cols, announced, start_t2_frame, idx_cell,
                 tiVars, bufferVars, cell, delivered, demapVars>>

----------------------------------------------------------------------------
(* One turn of the loop of execute().                                      *)

This == IF announced THEN cell ELSE -1   \* the name of the cell at hand

Address == Perm[plp_id][idx_step_ti + idx_row_ti]

RowEnds == idx_step_ti + Rows[plp_id] = ti_block_size

BlockEnds == RowEnds /\ idx_row_ti + 1 = Rows[plp_id]

(* The I component goes to the address, the Q component to the one before, *)
(* that of the first cell of a FEC block in the end to its last address.   *)
PutI(b) == [b EXCEPT ![Address].re = This]

PutQ(b) ==
  IF Address % Fec(plp_id) # 0 THEN [b EXCEPT ![Address - 1].im = This]
  ELSE IF Address # 0 THEN [b EXCEPT ![end_cell_fec_block].im = q_first_cell_fec_block]
  ELSE b

NoFlush(b) == b

(* At the end of a row the Q component held back is put in its place.      *)
Flush(b) == IF RowEnds THEN [b EXCEPT ![end_cell_fec_block'].im = q_first_cell_fec_block'] ELSE b

Store ==
  /\ IF Address % Fec(plp_id) = 0
     THEN /\ q_first_cell_fec_block' = This
          /\ end_cell_fec_block' = Address + Fec(plp_id) - 1
     ELSE UNCHANGED <<q_first_cell_fec_block, end_cell_fec_block>>
  /\ buffer' = [buffer EXCEPT ![time_deint_cell] = Flush(PutI(PutQ(@)))]

Counted ==
  /\ left > 0
  /\ left' = left - 1 /\ idx_cell' = idx_cell + 1 /\ cell' = cell + 1
  /\ UNCHANGED <<frameVars, start_t2_frame>>

Place ==
  /\ Counted /\ Store /\ ~BlockEnds
  /\ IF RowEnds THEN idx_step_ti' = 0 /\ idx_row_ti' = idx_row_ti + 1
     ELSE idx_step_ti' = idx_step_ti + Rows[plp_id] /\ UNCHANGED idx_row_ti
  /\ UNCHANGED <<plp_id, idx_time_il, ti_block_size, swap_buffers, time_deint_cell,
                 delivered, demapVars>>

Swap == swap_buffers' = ~swap_buffers /\ time_deint_cell' = IF swap_buffers THEN "b" ELSE "a"

(* The mutex is shared with the demapper, which holds it while it reads.   *)
Emit ==
  /\ reading = NoBlock /\ Len(queue) < MaxQueue
  /\ queue' = Append(queue, [buf |-> IF swap_buffers THEN "a" ELSE "b", size |-> ti_block_size,
                             plp |-> plp_id, l1 |-> l1_post,
                             block |-> IF announced THEN delivered + 1 ELSE 0])
  /\ Swap
  /\ late' = (late \/ queue # <<>>)
  /\ delivered' = delivered + 1
  /\ UNCHANGED reading

(* The PLPs whose slice begins right after this cell.                      *)
Following == {p \in Ids : idx_cell = l1_post[p].start - 1}

NextIlNoWrap == idx_time_il + 1

NextIl == (idx_time_il + 1) % NTi[plp_id]

(* The TI block is full: it is emitted and the next one begun, perhaps of  *)
(* another PLP.                                                            *)
Complete ==
  /\ Counted /\ Store /\ BlockEnds
  /\ Emit
  /\ idx_step_ti' = 0 /\ idx_row_ti' = 0
  /\ idx_time_il' = NextIl
  /\ LET over == idx_time_il + 1 = NTi[plp_id]
         turn == over /\ idx_cell = slice_end[plp_id] /\ Following # {}
     IN  /\ plp_id' = IF turn THEN CHOOSE p \in Following : TRUE ELSE plp_id
         /\ ti_block_size' = CASE ~over -> Size(num_cols, plp_id, idx_time_il + 1)
                               [] turn -> Size(num_cols, plp_id', 0)
                               [] OTHER -> ti_block_size

----------------------------------------------------------------------------
(* The demapper's thread.                                                  *)

Take ==
  /\ reading = NoBlock /\ queue # <<>>
  /\ reading' = Head(queue) /\ queue' = Tail(queue)
  /\ UNCHANGED <<frameVars, start_t2_frame, idx_cell, tiVars, bufferVars, left, cell,
                 delivered, late>>

Done ==
  /\ reading # NoBlock
  /\ reading' = NoBlock
  /\ UNCHANGED <<frameVars, start_t2_frame, idx_cell, tiVars, bufferVars, left, cell,
                 delivered, queue, late>>

----------------------------------------------------------------------------
Frame == (\E l \in Layouts : Announce(l)) \/ Unannounced

Next == Frame \/ Symbol \/ Place \/ Complete \/ Take \/ Done

Spec == Init /\ [][Next]_vars

----------------------------------------------------------------------------
(* What the interleaver of the transmitter did, by its own definition: the *)
(* FEC blocks of a slice spread evenly over its TI blocks, the later ones  *)
(* getting more; a TI block written column by column, read row by row.     *)

FecsOf(l, p, k) == (l[p].num_blocks + k - 1) \div NTi[p]   \* k \in 1..NTi[p]

Before(l, p, k) ==
  LET sum[i \in 1..k] == IF i = 1 THEN 0 ELSE sum[i - 1] + FecsOf(l, p, i - 1)
  IN  sum[k]

Sent(l, p, k, a) ==
  LET d == CHOOSE d \in DOMAIN Perm[p] : Perm[p][d] = a
  IN  l[p].start + Before(l, p, k) * Fec(p)
        + (d % Rows[p]) * FecsOf(l, p, k) * NSplit + (d \div Rows[p])

NextInFec(p, a) == (a \div Fec(p)) * Fec(p) + ((a + 1) % Fec(p))

Block(l, p, k) ==
  [a \in 0..(FecsOf(l, p, k) * Fec(p) - 1) |->
     [re |-> Sent(l, p, k, a), im |-> Sent(l, p, k, NextInFec(p, a))]]

BlocksOf(p) == {<<p, k>> : k \in 1..NTi[p]}

Number(l, p, k) ==
  k + Cardinality(UNION {BlocksOf(q) : q \in {r \in Ids : l[r].start < l[p].start}})

InFrame == Cardinality(UNION {BlocksOf(p) : p \in Ids})

(* What the demapper finds in the buffer it is given is that TI block.     *)
Correct(s) ==
  \E p \in Ids : \E k \in 1..NTi[p] :
    /\ s.block = Number(s.l1, p, k) /\ s.plp = p
    /\ LET want == Block(s.l1, p, k)
       IN  /\ DOMAIN want = 0..(s.size - 1)
           /\ \A a \in DOMAIN want : buffer[s.buf][a] = want[a]

Handed == {queue[i] : i \in 1..Len(queue)} \cup ({reading} \ {NoBlock})

----------------------------------------------------------------------------
Signal == [buf : {"a", "b"}, size : Nat, plp : Ids, l1 : Layouts, block : Nat]

CellNames == -1..FrameCells

TypeOK ==
  /\ l1_post \in Layouts /\ slice_end \in [Ids -> Int]
  /\ start_t2_frame \in BOOLEAN /\ idx_cell \in 0..(MaxCell + FrameCells)
  /\ plp_id \in Ids /\ idx_time_il \in 0..(NTi[plp_id] - 1)
  /\ ti_block_size \in Nat /\ idx_step_ti \in Nat /\ idx_row_ti \in 0..(Rows[plp_id] - 1)
  /\ swap_buffers \in BOOLEAN /\ time_deint_cell = (IF swap_buffers THEN "a" ELSE "b")
  /\ end_cell_fec_block \in Addresses /\ q_first_cell_fec_block \in CellNames
  /\ buffer \in [{"a", "b"} -> [Addresses -> [re : CellNames, im : CellNames]]]
  /\ left \in Nat /\ symbol \in 1..(Symbols + 1) /\ announced \in BOOLEAN
  /\ cell \in 0..FrameCells /\ delivered \in Nat
  /\ Len(queue) <= MaxQueue /\ Handed \subseteq Signal /\ late \in BOOLEAN

(***************************************************************************)
(* The row and the step of a TI block are set back in different places and *)
(* the size of the block in others: whatever frames come, announced or     *)
(* not, the place they make up stays within the permutation of the PLP,    *)
(* and within the TI block.                                                *)
(***************************************************************************)
InBounds ==
  left > 0 => /\ idx_step_ti + idx_row_ti \in DOMAIN Perm[plp_id]
              /\ idx_step_ti + idx_row_ti < ti_block_size

(***************************************************************************)
(* As long as each signal is taken before the next block is complete, the  *)
(* demapper finds in its buffer, from the signal until it is done, just    *)
(* the TI block whose turn it is: every I and every Q component of it, in  *)
(* the order in which the transmitter interleaved them, and no cell of the *)
(* next block or of a frame nobody announced.                              *)
(***************************************************************************)
BlocksRight == ~late => \A s \in Handed : s.block > 0 => Correct(s)

(***************************************************************************)
(* At the end of every announced frame each PLP's TI blocks have all been  *)
(* emitted, and nothing else.                                              *)
(***************************************************************************)
FrameDelivered ==
  announced /\ left = 0 /\ symbol = Symbols + 1 => delivered = InFrame
=============================================================================
