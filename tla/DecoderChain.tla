---------------------------- MODULE DecoderChain ----------------------------
(***************************************************************************)
(* src/DVB_T2/llr_demapper.cpp, ldpc_decoder.cpp and bch_decoder.cpp: the  *)
(* demapper fills a buffer with as many code words as the LDPC decoder     *)
(* takes at once, over one call or several; the LDPC decoder puts out all  *)
(* of them or none; the BCH stage hands them on one by one, each with its  *)
(* PLP.  The stages are threads, chained by blocking connections: a stage  *)
(* waits in emit until the one behind it has returned, and one process can *)
(* stand for them all.                                                     *)
(*                                                                         *)
(* A code word is a PLP and a number.  All PLPs have one FEC length.  The  *)
(* functions of the four constellations differ in the arithmetic of a      *)
(* word, which is left out, and in FirstSlot.                              *)
(*                                                                         *)
(* FirstSlotAlways, CountOn and RejectLate are slips, for the mutation     *)
(* runs that README.md describes.                                          *)
(***************************************************************************)
EXTENDS Integers, Sequences

CONSTANTS
  Plps,   \* number of PLPs; their identifiers are 0..Plps-1
  Mods,   \* constellations
  Mod,    \* PLP -> plp_mod
  Code,   \* PLP -> plp_cod
  Simd,   \* SIZEOF_SIMD, code words in a batch
  MaxFec, \* bound: FEC blocks in a TI block
  Kept,   \* the local array idx_plp_simd keeps its values between two calls
  Numbers \* bound: the code words are numbered modulo Numbers

Ids == 0..(Plps - 1)

Slots == 0..(Simd - 1)

ASSUME ChainAssumption ==
  /\ Plps \in Nat \ {0} /\ Simd \in Nat \ {0} /\ MaxFec \in Nat \ {0}
  /\ Mod \in [Ids -> Mods] /\ DOMAIN Code = Ids
  /\ Kept \in BOOLEAN /\ Numbers \in Nat /\ Numbers > 2 * Simd

Words == [plp : Ids, n : 0..(Numbers - 1)]

Blank == [plp |-> -1, n |-> -1]   \* memory that was never written

Sides == {"a", "b"}

VARIABLES
  pc,            \* "idle", "demap", "ldpc", "bch": the stage that works
  plp_id, left,  \* the call being served: its PLP, and its FEC blocks to come
  idx_plp_simd,  \* slot -> PLP, a local array of the call
  blocks, out,   \* per constellation, static: words in the batch; where the
                 \*   next one goes, [side, slot]
  swap_buffer, buffer,
  ldpc_swap, bch_fec, ldpc_buffer,
  bch_swap, bch_out, bch_buffer,
  given,         \* the side handed to the stage that works
  n,             \* words of the batch the BCH stage has handed on
  next,          \* history: the number of the next code word that comes in
  last,          \* history: the word handed on last
  turn           \* history: the number of the next word to be handed on

demapVars == <<plp_id, left, idx_plp_simd, blocks, out, swap_buffer, buffer, next>>
ldpcVars == <<ldpc_swap, bch_fec, ldpc_buffer>>
bchVars == <<bch_swap, bch_out, bch_buffer, last>>
vars == <<pc, demapVars, ldpcVars, bchVars, given, n, turn>>

Side(swap) == IF swap THEN "a" ELSE "b"

Memory == [side \in Sides |-> [s \in Slots |-> Blank]]

Init ==
  /\ pc = "idle" /\ plp_id = 0 /\ left = 0
  /\ idx_plp_simd \in [Slots -> Ids]
  /\ blocks = [m \in Mods |-> 0]
  /\ out = [m \in Mods |-> [side |-> "a", slot |-> 0]]
  /\ swap_buffer = TRUE /\ buffer = Memory
  /\ ldpc_swap = TRUE /\ bch_fec = [side |-> "a", slot |-> 0] /\ ldpc_buffer = Memory
  /\ bch_swap = TRUE /\ bch_out = "a" /\ bch_buffer = [side \in Sides |-> Blank]
  /\ given = "a" /\ n = 0 /\ next = 0 /\ last = Blank /\ turn = 0

----------------------------------------------------------------------------
(* The demapper.                                                           *)

FirstSlotAlways(m) == TRUE

(* qpsk() points out at the first slot in every call, the others only when *)
(* the batch is empty.                                                     *)
FirstSlot(m) == m = "QPSK" \/ blocks[m] = 0

(* execute(), and the head of the function of the constellation.           *)
Execute(p, fecs) ==
  /\ pc = "idle"
  /\ pc' = "demap" /\ plp_id' = p /\ left' = fecs
  /\ IF Kept THEN UNCHANGED idx_plp_simd ELSE idx_plp_simd' \in [Slots -> Ids]
  /\ out' = IF FirstSlot(Mod[p])
            THEN [out EXCEPT ![Mod[p]] = [side |-> Side(swap_buffer), slot |-> 0]]
            ELSE out
  /\ UNCHANGED <<blocks, swap_buffer, buffer, next, ldpcVars, bchVars, given, n, turn>>

M == Mod[plp_id]

Write ==
  /\ pc = "demap" /\ left > 0
  /\ left' = left - 1
  /\ buffer' = [buffer EXCEPT ![out[M].side][out[M].slot] = [plp |-> plp_id, n |-> next]]
  /\ idx_plp_simd' = [idx_plp_simd EXCEPT ![blocks[M]] = plp_id]
  /\ next' = (next + 1) % Numbers
  /\ UNCHANGED <<plp_id, ldpcVars, bchVars, n, turn>>

(* One FEC block more in the batch.                                        *)
Demap ==
  /\ Write
  /\ blocks[M] + 1 < Simd
  /\ blocks' = [blocks EXCEPT ![M] = @ + 1]
  /\ out' = [out EXCEPT ![M].slot = @ + 1]
  /\ UNCHANGED <<pc, swap_buffer, given>>

CountOn == [blocks EXCEPT ![M] = @ + 1]

Count == [blocks EXCEPT ![M] = 0]

(* The batch is full.                                                      *)
DemapLast ==
  /\ Write
  /\ blocks[M] + 1 = Simd
  /\ blocks' = Count
  /\ given' = Side(swap_buffer) /\ swap_buffer' = ~swap_buffer
  /\ out' = [out EXCEPT ![M] = [side |-> Side(~swap_buffer), slot |-> 0]]
  /\ pc' = "ldpc"

Return ==
  /\ pc = "demap" /\ left = 0
  /\ pc' = "idle"
  /\ UNCHANGED <<demapVars, ldpcVars, bchVars, given, n, turn>>

----------------------------------------------------------------------------
(* The LDPC decoder takes the code rate of the first word's PLP for all;   *)
(* with a wrong one, or on memory never written, the parity is not met and *)
(* it gives up.  It may give up on noise, too.                             *)

Decodable ==
  \A s \in Slots : LET w == buffer[given][s]
                   IN  w # Blank /\ Code[w.plp] = Code[idx_plp_simd[0]]

Put(memory, from) ==
  [memory EXCEPT ![bch_fec.side] =
     [s \in Slots |-> IF s >= bch_fec.slot THEN from[s - bch_fec.slot] ELSE @[s]]]

Decode ==
  /\ pc = "ldpc" /\ Decodable
  /\ ldpc_buffer' = Put(ldpc_buffer, buffer[given])
  /\ given' = Side(ldpc_swap) /\ ldpc_swap' = ~ldpc_swap
  /\ bch_fec' = [side |-> Side(~ldpc_swap), slot |-> 0]
  /\ pc' = "bch" /\ n' = 0
  /\ UNCHANGED <<demapVars, bchVars, turn>>

RejectLate ==
  /\ ldpc_buffer' = Put(ldpc_buffer, buffer[given])
  /\ bch_fec' = [bch_fec EXCEPT !.slot = Simd]
  /\ UNCHANGED ldpc_swap

(* The decoder is left before anything is written.                         *)
Reject == UNCHANGED ldpcVars

(* A word of the batch is beyond repair: all are dropped.                  *)
Fail ==
  /\ pc = "ldpc"
  /\ Reject
  /\ turn' = (turn + Simd) % Numbers
  /\ pc' = "demap"
  /\ UNCHANGED <<demapVars, bchVars, given, n>>

----------------------------------------------------------------------------
Descramble == [bch_buffer EXCEPT ![bch_out] = ldpc_buffer[given][n]]

(* One turn of the loop of bch_decoder::execute.                           *)
HandOn ==
  /\ pc = "bch"
  /\ bch_buffer' = Descramble
  /\ last' = [plp |-> idx_plp_simd[n], n |-> bch_buffer'[Side(bch_swap)].n]
  /\ bch_swap' = ~bch_swap /\ bch_out' = Side(~bch_swap)
  /\ turn' = (turn + 1) % Numbers
  /\ IF n + 1 < Simd THEN n' = n + 1 /\ UNCHANGED pc
     ELSE n' = 0 /\ pc' = "demap"
  /\ UNCHANGED <<demapVars, ldpcVars, given>>

----------------------------------------------------------------------------
Next ==
  \/ \E p \in Ids, fecs \in 1..MaxFec : Execute(p, fecs)
  \/ Demap \/ DemapLast \/ Return
  \/ Decode \/ Fail
  \/ HandOn

Spec == Init /\ [][Next]_vars

----------------------------------------------------------------------------
TypeOK ==
  /\ pc \in {"idle", "demap", "ldpc", "bch"}
  /\ plp_id \in Ids /\ left \in 0..MaxFec
  /\ idx_plp_simd \in [Slots -> Ids]
  /\ blocks \in [Mods -> Slots]
  /\ out \in [Mods -> [side : Sides, slot : Slots]]
  /\ swap_buffer \in BOOLEAN /\ ldpc_swap \in BOOLEAN /\ bch_swap \in BOOLEAN
  /\ buffer \in [Sides -> [Slots -> Words \cup {Blank}]]
  /\ bch_fec \in [side : Sides, slot : 0..Simd]
  /\ ldpc_buffer \in [Sides -> [Slots -> Words \cup {Blank}]]
  /\ bch_out \in Sides /\ bch_buffer \in [Sides -> Words \cup {Blank}]
  /\ given \in Sides /\ n \in Slots
  /\ next \in 0..(Numbers - 1) /\ turn \in 0..(Numbers - 1)
  /\ last \in [plp : Ids \cup {-1}, n : -1..(Numbers - 1)]

(***************************************************************************)
(* Each stage keeps a flag and a pointer that are set in different places: *)
(* whenever a batch is begun or gone on with, over calls, lost batches and *)
(* changes of PLP, the words of a batch begun lie from the first slot of   *)
(* the side that will be handed over, and the LDPC decoder and the BCH     *)
(* stage write where they will read.                                       *)
(***************************************************************************)
PointersAgree ==
  /\ pc \in {"demap", "idle"} =>
       \A m \in Mods : blocks[m] > 0 =>
         out[m] = [side |-> Side(swap_buffer), slot |-> blocks[m]]
  /\ bch_fec = [side |-> Side(ldpc_swap), slot |-> 0]
  /\ bch_out = Side(bch_swap)

(***************************************************************************)
(* A code word that is handed on is the one whose turn it is: none is left *)
(* out but with a lost batch, none comes twice.                            *)
(***************************************************************************)
InTurn == pc = "bch" /\ n > 0 => last.n = (turn - 1) % Numbers

----------------------------------------------------------------------------
(* The words inside, in order: what is left of the batch being decoded,    *)
(* then those the demapper has put in the buffer.                          *)

Contents(memory, ids, from, to) ==
  [i \in 1..(to - from) |-> [plp |-> ids[from + i - 1], n |-> memory[from + i - 1].n]]

Waiting ==
  IF pc = "ldpc" THEN Contents(buffer[given], idx_plp_simd, 0, Simd)
  ELSE IF pc = "bch" THEN Contents(ldpc_buffer[given], idx_plp_simd, n, Simd)
  ELSE Contents(buffer[Side(swap_buffer)], idx_plp_simd, 0, blocks[M])

Turn == IF pc = "bch" THEN n ELSE 0

Queue == INSTANCE CodeWords
  WITH Words <- Words, Nothing <- Blank, Batch <- Simd,
       waiting <- Waiting, turn <- Turn, out <- last

(***************************************************************************)
(* The three stages are a queue of code words: in order, each under its    *)
(* own PLP, with nothing lost but whole batches.                           *)
(***************************************************************************)
CodeWordsSpec == Queue!Spec
=============================================================================
