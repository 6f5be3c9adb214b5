---------------------------- MODULE Demodulator ----------------------------
(***************************************************************************)
(* The synchronisation loop of src/DVB_T2/dvbt2_demodulator.cpp: the slot  *)
(* execute(), which cuts a buffer of samples into chunks, and              *)
(* symbol_acquisition(), which hunts for a P1 symbol, collects the OFDM    *)
(* symbols that follow it, and decides from each P2 symbol whether the     *)
(* receiver is locked.                                                     *)
(*                                                                         *)
(* Samples are counted, not valued: what correlation, FFT and CRC say of   *)
(* them is a choice of the environment.  The loop filters, the oscillators *)
(* and `resample' are numeric and are left out.                            *)
(***************************************************************************)
EXTENDS Integers, Sequences

CONSTANTS
  Fft,        \* dvbt2.fft_size, in samples
  GIOrder,    \* guard interval modes in the order the search tries them
  GuardSize,  \* guard interval mode -> guard_interval_size, in samples
  Quarter,    \* the mode GI_1_4, the longest
  Num,        \* `num' of the search: a mode is tried Num + 2 times
  P1Len,      \* P1_LEN, in samples
  P1Head,     \* most samples that follow a P1 when it is recognised
  BufferLens, \* lengths of the buffers a device hands over
  Offsets,    \* values of coarse_freq_offset
  Zero,       \* the offset a device starts from
  Fine, Far,  \* those below 10 Hz and those beyond 100 Hz, up or down
  Frames,     \* L1-pre contents: [gi: mode, len: len_frame, fc: l_fc]
  NoFrame     \* data_demodulator or fc_demod before its init()

GIs == {GIOrder[i] : i \in 1..Len(GIOrder)}

SymbolSize(g) == Fft + GuardSize[g]

LastData(f) == f.len - f.fc

ASSUME GuardAssumption ==
  /\ GIOrder \in Seq(STRING) /\ Len(GIOrder) \in Nat \ {0}
  /\ GuardSize \in [GIs -> Nat]
  /\ Quarter \in GIs
  /\ \A g \in GIs : GuardSize[g] <= GuardSize[Quarter]

ASSUME SizeAssumption ==
  /\ Fft \in Nat /\ P1Len \in Nat \ {0} /\ Num \in Nat
  /\ P1Head \in 0..(Fft - 1)
  /\ BufferLens \subseteq Nat \ {0}

(* True of every FFT size but 1K with guard interval 1/4 at 1280 samples.  *)
ASSUME P1Assumption == P1Len <= SymbolSize(Quarter)

ASSUME OffsetAssumption ==
  /\ Fine \subseteq Offsets /\ Far \subseteq Offsets /\ Fine \cap Far = {}
  /\ Zero \in Fine

ASSUME FrameAssumption ==
  /\ Frames \subseteq [gi : GIs, len : Nat, fc : {0, 1}]
  /\ \A f \in Frames : LastData(f) >= 2
  /\ NoFrame \notin Frames

(***************************************************************************)
(* The operators named ...Inverted, ...OneMore, ...NoFc, ...NoWrap,        *)
(* ...Short, ...EveryTurn and ...Only are no part of the model: each is    *)
(* the operator below it with a slip, for the mutation runs that README.md *)
(* describes.                                                              *)
(***************************************************************************)

VARIABLES
  pc,                   \* "idle" (mutex free), "loop" in execute, "acquire"
  remain,               \* len_in - idx_in of execute
  left,                 \* len_in - consume of symbol_acquisition
  est_chunk,
  idx_buffer_sym,
  symbol_size,
  next_symbol_type,
  p2_init,
  demodulator_init,
  deint_start,
  crc32_l1_pre,
  idx_symbol,
  end_data_symbol,
  frame_closing_symbol,
  p1_decoded,           \* member of p1_symbol, never cleared
  guard,                \* dvbt2.guard_interval_size, as its mode
  idx, c,               \* the statics of set_guard_interval_by_brute_force
  data_init, fc_init,   \* the L1-pre data_demodulator / fc_demod were set up for
  change_frequency, coarse_freq_offset, frequency_changed, reset, p1_reset,
  tx,                   \* what the transmitter signals in L1-pre
  opened, sent          \* history: l1_dyn_execute emitted for this frame, and
                        \* symbols whose cells were emitted since its P2

sampleVars == <<pc, remain, left, est_chunk, idx_buffer_sym, symbol_size>>
frameVars  == <<idx_symbol, end_data_symbol, frame_closing_symbol, deint_start,
                opened, sent>>
initVars   == <<p2_init, demodulator_init, data_init, fc_init, p1_decoded>>
searchVars == <<guard, idx, c>>
signalVars == <<change_frequency, coarse_freq_offset, frequency_changed, reset,
                p1_reset>>
vars == <<sampleVars, next_symbol_type, frameVars, initVars, crc32_l1_pre,
          searchVars, signalVars, tx>>

Init ==
  /\ pc = "idle" /\ remain = 0 /\ left = 0
  /\ est_chunk = 0 /\ idx_buffer_sym = 0 /\ symbol_size = P1Len
  /\ next_symbol_type = "P1"
  /\ p2_init = FALSE /\ demodulator_init = FALSE /\ deint_start = FALSE
  /\ crc32_l1_pre = FALSE /\ p1_decoded = FALSE
  /\ idx_symbol = 0 /\ end_data_symbol = 0 /\ frame_closing_symbol = FALSE
  /\ guard = Quarter /\ idx = 0 /\ c = 0
  /\ data_init = NoFrame /\ fc_init = NoFrame
  /\ change_frequency \in BOOLEAN /\ frequency_changed \in BOOLEAN
  /\ coarse_freq_offset = Zero /\ reset = FALSE /\ p1_reset = FALSE
  /\ tx \in Frames
  /\ opened = FALSE /\ sent = 0

----------------------------------------------------------------------------
(* execute(): the mutex is held from Execute to Unlock.                    *)

Execute(n) ==
  /\ pc = "idle"
  /\ pc' = "loop" /\ remain' = n
  /\ UNCHANGED <<left, est_chunk, idx_buffer_sym, symbol_size, next_symbol_type,
                 frameVars, initVars, crc32_l1_pre, searchVars, signalVars, tx>>

EstimateEveryTurn ==
  IF next_symbol_type = "P1" THEN est_chunk + symbol_size + P1Len ELSE symbol_size

(* What is left of the symbol, or a whole one, with a P1 when one is due.  *)
Estimate ==
  IF est_chunk # 0 THEN est_chunk
  ELSE IF next_symbol_type = "P1" THEN symbol_size + P1Len
  ELSE symbol_size

(* One turn of the while loop; resampling may lose or gain a sample.       *)
Chunk ==
  /\ pc = "loop" /\ remain > 0
  /\ est_chunk' = Estimate
  /\ LET chunk == IF est_chunk' > remain THEN remain ELSE est_chunk'
     IN  /\ remain' = remain - chunk
         /\ left' \in (chunk - 1)..(chunk + 1)
  /\ pc' = "acquire"
  /\ UNCHANGED <<idx_buffer_sym, symbol_size, next_symbol_type, frameVars,
                 initVars, crc32_l1_pre, searchVars, signalVars, tx>>

EndAcquire ==
  /\ pc = "acquire" /\ left = 0
  /\ pc' = "loop"
  /\ UNCHANGED <<remain, left, est_chunk, idx_buffer_sym, symbol_size,
                 next_symbol_type, frameVars, initVars, crc32_l1_pre,
                 searchVars, signalVars, tx>>

Unlock ==
  /\ pc = "loop" /\ remain = 0
  /\ pc' = "idle"
  /\ UNCHANGED <<remain, left, est_chunk, idx_buffer_sym, symbol_size,
                 next_symbol_type, frameVars, initVars, crc32_l1_pre,
                 searchVars, signalVars, tx>>

----------------------------------------------------------------------------
(* symbol_acquisition() while it expects a P1 symbol.                      *)

Hunting == pc = "acquire" /\ left > 0 /\ next_symbol_type = "P1"

P1Missed ==
  /\ Hunting
  /\ left' = 0
  /\ UNCHANGED <<pc, remain, est_chunk, idx_buffer_sym, symbol_size,
                 next_symbol_type, frameVars, initVars, crc32_l1_pre,
                 searchVars, signalVars, tx>>

(* p1_symbol::execute returns true: n samples consumed, h of the next      *)
(* symbol already stored, f the measured offset.  S1 and S2 are decoded    *)
(* until the first success, and again under p1_reset.                      *)
P1Found(n, h, f) ==
  /\ Hunting /\ n <= left
  /\ left' = left - n
  /\ idx_buffer_sym' = h
  /\ coarse_freq_offset' = f
  /\ p1_decoded' \in {p1_decoded, TRUE}
  /\ UNCHANGED <<pc, remain, frameVars, data_init, fc_init, crc32_l1_pre, idx, c,
                 frequency_changed, reset, tx>>

AfterP1Inverted(f) == IF f \in Far THEN "P2" ELSE "P1"

AfterP1(f) == IF f \in Far THEN "P1" ELSE "P2"

RelockingInverted == ~p1_reset

(* A lock was had before, and its parameters are to be taken up again.     *)
Relocking == p1_reset

(* The receiver knows its P2 parameters.                                   *)
P1Tracked(n, h, f) ==
  /\ P1Found(n, h, f)
  /\ p2_init
  /\ next_symbol_type' = AfterP1(f)
  /\ p1_reset' = (p1_reset \/ f \in Far)
  /\ UNCHANGED <<est_chunk, symbol_size, p2_init, demodulator_init, guard,
                 change_frequency>>

P1Retuning(n, h, f) ==
  /\ P1Found(n, h, f)
  /\ ~p2_init /\ ~frequency_changed
  /\ UNCHANGED <<est_chunk, symbol_size, next_symbol_type, p2_init,
                 demodulator_init, guard, change_frequency, p1_reset>>

P1OffTune(n, h, f) ==
  /\ P1Found(n, h, f)
  /\ ~p2_init /\ frequency_changed /\ f \notin Fine
  /\ change_frequency' = TRUE
  /\ UNCHANGED <<est_chunk, symbol_size, next_symbol_type, p2_init,
                 demodulator_init, guard, p1_reset>>

P1Undecoded(n, h, f) ==
  /\ P1Found(n, h, f)
  /\ ~p2_init /\ frequency_changed /\ f \in Fine /\ ~p1_decoded'
  /\ UNCHANGED <<est_chunk, symbol_size, next_symbol_type, p2_init,
                 demodulator_init, guard, change_frequency, p1_reset>>

(* init_dvbt2(): the longest guard interval to begin with.                 *)
P1FirstLock(n, h, f) ==
  /\ P1Found(n, h, f)
  /\ ~p2_init /\ frequency_changed /\ f \in Fine /\ p1_decoded' /\ ~Relocking
  /\ p2_init' = TRUE
  /\ guard' = Quarter
  /\ symbol_size' = SymbolSize(Quarter)
  /\ est_chunk' = SymbolSize(Quarter)
  /\ UNCHANGED <<next_symbol_type, demodulator_init, change_frequency, p1_reset>>

(* After a reset the parameters of the previous lock are taken up again.   *)
P1Relock(n, h, f) ==
  /\ P1Found(n, h, f)
  /\ ~p2_init /\ frequency_changed /\ f \in Fine /\ p1_decoded' /\ Relocking
  /\ p2_init' = TRUE
  /\ demodulator_init' = TRUE
  /\ p1_reset' = FALSE
  /\ UNCHANGED <<est_chunk, symbol_size, next_symbol_type, guard,
                 change_frequency>>

----------------------------------------------------------------------------
(* symbol_acquisition() while it collects an OFDM symbol.                  *)

Collecting(t) == pc = "acquire" /\ left > 0 /\ next_symbol_type = t

WantedOneMore == symbol_size - idx_buffer_sym + 1

Wanted == symbol_size - idx_buffer_sym

SymbolPartial ==
  /\ Collecting(next_symbol_type) /\ next_symbol_type # "P1"
  /\ left < Wanted
  /\ idx_buffer_sym' = idx_buffer_sym + left
  /\ left' = 0
  /\ est_chunk' = symbol_size - idx_buffer_sym'
  /\ UNCHANGED <<pc, remain, symbol_size, next_symbol_type, frameVars, initVars,
                 crc32_l1_pre, searchVars, signalVars, tx>>

SymbolComplete(t) ==
  /\ Collecting(t)
  /\ left >= Wanted
  /\ idx_buffer_sym' = 0
  /\ UNCHANGED <<pc, remain, p1_decoded, change_frequency, coarse_freq_offset,
                 frequency_changed, tx>>

(* The cells of a symbol go to the deinterleaver once it has been started. *)
EmitCells == sent' = IF deint_start THEN sent + 1 ELSE sent

AfterDataNoFc == IF idx_symbol' # end_data_symbol THEN "DATA" ELSE "P1"

AfterData ==
  IF idx_symbol' # end_data_symbol THEN "DATA"
  ELSE IF frame_closing_symbol THEN "FC" ELSE "P1"

DataSymbol ==
  /\ SymbolComplete("DATA")
  /\ left' = left - Wanted /\ est_chunk' = 0
  /\ EmitCells
  /\ idx_symbol' = idx_symbol + 1
  /\ next_symbol_type' = AfterData
  /\ UNCHANGED <<symbol_size, end_data_symbol, frame_closing_symbol, deint_start,
                 opened, p2_init, demodulator_init, data_init, fc_init,
                 crc32_l1_pre, searchVars, reset, p1_reset>>

FcSymbol ==
  /\ SymbolComplete("FC")
  /\ left' = left - Wanted /\ est_chunk' = 0
  /\ EmitCells
  /\ next_symbol_type' = "P1"
  /\ UNCHANGED <<symbol_size, idx_symbol, end_data_symbol, frame_closing_symbol,
                 deint_start, opened, p2_init, demodulator_init, data_init,
                 fc_init, crc32_l1_pre, searchVars, reset, p1_reset>>

(* L1-pre is good and the receiver is set up: the frame is decoded, even   *)
(* when L1-post is not good and no l1_dyn_execute announces it.            *)
P2Frame(l1_post) ==
  /\ SymbolComplete("P2") /\ demodulator_init
  /\ left' = left - Wanted /\ est_chunk' = 0
  /\ crc32_l1_pre' = TRUE
  /\ deint_start' = (deint_start \/ l1_post)
  /\ opened' = l1_post /\ sent' = 0
  /\ idx_symbol' = 1
  /\ next_symbol_type' = "DATA"
  /\ UNCHANGED <<symbol_size, end_data_symbol, frame_closing_symbol, p2_init,
                 demodulator_init, data_init, fc_init, searchVars, reset,
                 p1_reset>>

(* The first good L1-pre: set_guard_interval() and the init() of the data  *)
(* and frame closing demodulators.  The frame itself is given up.          *)
P2Configure ==
  /\ SymbolComplete("P2") /\ ~demodulator_init
  /\ left' = left - Wanted
  /\ crc32_l1_pre' = TRUE
  /\ guard' = tx.gi
  /\ symbol_size' = SymbolSize(tx.gi) /\ est_chunk' = SymbolSize(tx.gi)
  /\ data_init' = tx
  /\ end_data_symbol' = LastData(tx)
  /\ frame_closing_symbol' = (tx.fc = 1)
  /\ fc_init' = IF tx.fc = 1 THEN tx ELSE fc_init
  /\ demodulator_init' = TRUE
  /\ idx_symbol' = 0 /\ opened' = FALSE /\ sent' = 0
  /\ next_symbol_type' = "P1"
  /\ UNCHANGED <<deint_start, p2_init, idx, c, reset, p1_reset>>

NextTryNoWrap ==
  /\ idx' = IF c > Num THEN idx + 1 ELSE idx
  /\ c' = IF c > Num THEN 0 ELSE c + 1

NextTryShort ==
  /\ idx' = IF c > Num THEN (idx + 1) % (Len(GIOrder) - 1) ELSE idx
  /\ c' = IF c > Num THEN 0 ELSE c + 1

(* `if(c++ > num)': a mode is given Num + 2 tries.                         *)
NextTry ==
  /\ idx' = IF c > Num THEN (idx + 1) % Len(GIOrder) ELSE idx
  /\ c' = IF c > Num THEN 0 ELSE c + 1

(* set_guard_interval_by_brute_force()                                     *)
P2Search ==
  /\ SymbolComplete("P2") /\ ~demodulator_init
  /\ left' = left - Wanted
  /\ crc32_l1_pre' = FALSE
  /\ guard' = GIOrder[idx + 1]
  /\ NextTry
  /\ symbol_size' = SymbolSize(guard') /\ est_chunk' = SymbolSize(guard')
  /\ idx_symbol' = 0 /\ opened' = FALSE /\ sent' = 0
  /\ next_symbol_type' = "P1"
  /\ UNCHANGED <<end_data_symbol, frame_closing_symbol, deint_start, p2_init,
                 demodulator_init, data_init, fc_init, reset, p1_reset>>

AskResetOnly == reset' = TRUE /\ p1_reset' = p1_reset

AskReset == reset' = TRUE /\ p1_reset' = TRUE

(* L1-pre was good before and is not now: reset() here, a reset asked of   *)
(* the device, and the rest of the chunk dropped by the early return.      *)
P2Lost ==
  /\ SymbolComplete("P2") /\ demodulator_init
  /\ left' = 0 /\ est_chunk' = 0
  /\ crc32_l1_pre' = FALSE
  /\ AskReset
  /\ p2_init' = FALSE /\ demodulator_init' = FALSE
  /\ idx_symbol' = 0 /\ opened' = FALSE /\ sent' = 0
  /\ next_symbol_type' = "P1"
  /\ UNCHANGED <<symbol_size, end_data_symbol, frame_closing_symbol, deint_start,
                 data_init, fc_init, searchVars>>

----------------------------------------------------------------------------
(* What a device does with the shared signal_estimate (rx_airspy.cpp and   *)
(* its siblings).  The tuner has settled or not, the call to it may fail.   *)

DeviceVarsUnchanged ==
  UNCHANGED <<sampleVars, next_symbol_type, frameVars, initVars, crc32_l1_pre,
              searchVars, p1_reset, tx>>

DeviceReset ==
  /\ reset
  /\ reset' = FALSE
  /\ coarse_freq_offset' = Zero
  /\ change_frequency' = FALSE
  /\ frequency_changed' \in BOOLEAN
  /\ DeviceVarsUnchanged

DeviceTune ==
  /\ change_frequency
  /\ change_frequency' = FALSE
  /\ frequency_changed' \in BOOLEAN
  /\ UNCHANGED <<reset, coarse_freq_offset>>
  /\ DeviceVarsUnchanged

DeviceSettled ==
  /\ ~frequency_changed
  /\ frequency_changed' = TRUE
  /\ UNCHANGED <<reset, coarse_freq_offset, change_frequency>>
  /\ DeviceVarsUnchanged

----------------------------------------------------------------------------
P1Step(n, h, f) ==
  \/ P1Tracked(n, h, f)
  \/ P1Retuning(n, h, f)
  \/ P1OffTune(n, h, f)
  \/ P1Undecoded(n, h, f)
  \/ P1FirstLock(n, h, f)
  \/ P1Relock(n, h, f)

Hunt == \E n \in 1..left, h \in 0..P1Head, f \in Offsets : P1Step(n, h, f)

P2Step == (\E l1_post \in BOOLEAN : P2Frame(l1_post)) \/ P2Configure \/ P2Search \/ P2Lost

Symbol == SymbolPartial \/ DataSymbol \/ FcSymbol \/ P2Step

Demod ==
  \/ \E n \in BufferLens : Execute(n)
  \/ Chunk
  \/ EndAcquire
  \/ Unlock
  \/ P1Missed
  \/ Hunt
  \/ Symbol

Device == DeviceReset \/ DeviceTune \/ DeviceSettled

Next == Demod \/ Device

Spec == Init /\ [][Next]_vars

----------------------------------------------------------------------------
TypeOK ==
  /\ pc \in {"idle", "loop", "acquire"}
  /\ remain \in Nat /\ left \in Nat /\ est_chunk \in Nat
  /\ idx_buffer_sym \in Nat /\ symbol_size \in Nat \ {0}
  /\ next_symbol_type \in {"P1", "P2", "DATA", "FC"}
  /\ p2_init \in BOOLEAN /\ demodulator_init \in BOOLEAN
  /\ deint_start \in BOOLEAN /\ crc32_l1_pre \in BOOLEAN
  /\ p1_decoded \in BOOLEAN /\ frame_closing_symbol \in BOOLEAN
  /\ idx_symbol \in Nat /\ end_data_symbol \in Nat
  /\ guard \in GIs /\ idx \in 0..(Len(GIOrder) - 1) /\ c \in 0..(Num + 1)
  /\ data_init \in Frames \cup {NoFrame} /\ fc_init \in Frames \cup {NoFrame}
  /\ change_frequency \in BOOLEAN /\ frequency_changed \in BOOLEAN
  /\ coarse_freq_offset \in Offsets
  /\ reset \in BOOLEAN /\ p1_reset \in BOOLEAN
  /\ tx \in Frames
  /\ opened \in BOOLEAN /\ sent \in Nat

(***************************************************************************)
(* A DATA or FC symbol is only handed to a demodulator whose init() ran,   *)
(* for the L1-pre that end_data_symbol and the symbol size come from, and  *)
(* within the frame.  The fast way back after a reset (lines 226 to 230)   *)
(* skips every init(): it must not be reachable before the first lock.     *)
(***************************************************************************)
ReadySymbols ==
  /\ next_symbol_type \in {"DATA", "FC"} =>
       /\ p2_init /\ demodulator_init
       /\ data_init # NoFrame
       /\ symbol_size = SymbolSize(data_init.gi)
       /\ end_data_symbol = LastData(data_init)
  /\ next_symbol_type = "DATA" => idx_symbol \in 1..(end_data_symbol - 1)
  /\ next_symbol_type = "FC" => fc_init = data_init /\ idx_symbol = end_data_symbol

(***************************************************************************)
(* `symbol_size - idx_buffer_sym' is unsigned in the code: while a symbol  *)
(* is collected the fill stays below the symbol size, whatever guard       *)
(* interval the search has just switched to, so that the subtraction never *)
(* wraps and each turn of the loop consumes a sample.                      *)
(***************************************************************************)
SymbolFits == next_symbol_type # "P1" => idx_buffer_sym < symbol_size

(***************************************************************************)
(* A chunk never exceeds the scratch buffers, sized for the longest symbol *)
(* and a P1.                                                               *)
(***************************************************************************)
ScratchFits == est_chunk <= SymbolSize(Quarter) + P1Len

(***************************************************************************)
(* When the demodulator is done with a frame it announced by               *)
(* l1_dyn_execute, the deinterleaver has been sent exactly the cells of    *)
(* that frame's data symbols and of its frame closing symbol.              *)
(***************************************************************************)
FrameWhole ==
  opened /\ next_symbol_type \in {"P1", "P2"} =>
    sent = LastData(data_init) - 1 + data_init.fc

(***************************************************************************)
(* Once locked, however often the signal is lost and found again, the      *)
(* guard interval is never searched and the demodulators never set up a    *)
(* second time: every relock is the fast one.                              *)
(***************************************************************************)
RelockKeepsSetup ==
  [][data_init # NoFrame => UNCHANGED <<guard, symbol_size, data_init, fc_init>>]_vars

----------------------------------------------------------------------------
(***************************************************************************)
(* The inductive invariant.  Lock: which combinations of the flags occur;  *)
(* before the first lock nothing is set up, after it p2_init and           *)
(* demodulator_init go together, and while they are off p1_reset is on, so *)
(* that init_dvbt2() and the search are out of reach.                      *)
(***************************************************************************)
LockInv ==
  /\ next_symbol_type # "P1" => p2_init
  /\ next_symbol_type \in {"DATA", "FC"} => demodulator_init
  /\ data_init = NoFrame => ~demodulator_init /\ ~deint_start /\ (p1_reset => p2_init)
  /\ data_init # NoFrame => /\ p2_init = demodulator_init
                           /\ (~p2_init => p1_reset)

SetupInv ==
  /\ p2_init => symbol_size = SymbolSize(guard)
  /\ symbol_size \in {P1Len, SymbolSize(guard)}
  /\ data_init # NoFrame =>
       /\ guard = data_init.gi
       /\ symbol_size = SymbolSize(guard)
       /\ end_data_symbol = LastData(data_init)
       /\ frame_closing_symbol = (data_init.fc = 1)
       /\ (data_init.fc = 1 => fc_init = data_init)

(* Where in the frame the next symbol stands, and what has been emitted.   *)
PlaceInv ==
  /\ next_symbol_type = "DATA" => idx_symbol \in 1..(end_data_symbol - 1)
  /\ next_symbol_type = "FC" => frame_closing_symbol /\ idx_symbol = end_data_symbol
  /\ opened => deint_start
  /\ opened /\ next_symbol_type \in {"DATA", "FC"} => sent = idx_symbol - 1

IInv == TypeOK /\ LockInv /\ SetupInv /\ PlaceInv /\ SymbolFits /\ ScratchFits /\ FrameWhole
=============================================================================
