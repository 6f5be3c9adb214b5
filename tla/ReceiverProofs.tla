-------------------------- MODULE ReceiverProofs --------------------------
(***************************************************************************)
(* Proofs about Demodulator and about Receiver, which extends it.  The     *)
(* first part is about the demodulator by itself: it holds for any symbol  *)
(* size, any set and order of guard intervals, any frame layouts and any   *)
(* buffer lengths, and rests on no assumption of Receiver.  The second     *)
(* part is about the demodulator with its device: the pair implements      *)
(* Demodulator and Devices, the hand-over of the two buffers is right as   *)
(* long as no signal is late, and a lock is never off tune.                *)
(***************************************************************************)
EXTENDS Receiver, SequenceTheorems, TLAPS

----------------------------------------------------------------------------
(* The demodulator by itself.                                              *)

(* A guard interval gives a symbol no longer than the longest one.         *)
LEMMA GuardSizes ==
  ASSUME NEW g \in GIs
  PROVE  /\ SymbolSize(g) \in Nat \ {0}
         /\ SymbolSize(g) > P1Head
         /\ SymbolSize(g) <= SymbolSize(Quarter)
  BY GuardAssumption, SizeAssumption DEF SymbolSize

LEMMA Constants ==
  /\ Quarter \in GIs
  /\ Len(GIOrder) \in Nat \ {0}
  /\ Num \in Nat /\ P1Len \in Nat \ {0} /\ P1Head \in Nat
  BY GuardAssumption, SizeAssumption

LEMMA FrameFacts ==
  ASSUME NEW f \in Frames
  PROVE  /\ f # NoFrame
         /\ f.gi \in GIs /\ f.fc \in {0, 1}
         /\ LastData(f) \in Nat /\ LastData(f) >= 2
  BY FrameAssumption DEF LastData

LEMMA OrderFacts ==
  ASSUME NEW i \in 0..(Len(GIOrder) - 1)
  PROVE  GIOrder[i + 1] \in GIs
<1>1. Len(GIOrder) \in Nat /\ i + 1 \in 1..Len(GIOrder)
  BY Constants
<1> QED
  BY <1>1 DEF GIs

LEMMA InitType == Init => TypeOK
<1> SUFFICES ASSUME Init PROVE TypeOK
  OBVIOUS
<1>1. idx \in 0..(Len(GIOrder) - 1) /\ c \in 0..(Num + 1) /\ guard \in GIs
  BY Constants DEF Init
<1>2. symbol_size \in Nat \ {0}
  BY Constants DEF Init
<1> QED
  BY <1>1, <1>2, OffsetAssumption DEF Init, TypeOK
(***************************************************************************)
(* TypeOK is inductive by itself: no action relies on LockInv and its      *)
(* siblings to keep a variable in its range.                               *)
(***************************************************************************)
LEMMA TypeStep == TypeOK /\ [Next]_vars => TypeOK'
<1> SUFFICES ASSUME TypeOK, [Next]_vars PROVE TypeOK'
  OBVIOUS
<1> USE DEF TypeOK, frameVars, initVars, searchVars, signalVars, sampleVars
<1>1. ASSUME NEW n \in BufferLens, Execute(n) PROVE TypeOK'
  BY <1>1, SizeAssumption DEF Execute
<1>2. CASE Chunk
  <2>1. Estimate \in Nat
    BY Constants DEF Estimate
  <2>2. Estimate \in Nat \ {0}
    BY <2>1, Constants DEF Estimate
  <2>3. remain' \in Nat /\ left' \in Nat
    BY <1>2, <2>2 DEF Chunk
  <2> QED
    BY <1>2, <2>1, <2>3 DEF Chunk
<1>3. CASE EndAcquire
  BY <1>3 DEF EndAcquire
<1>4. CASE Unlock
  BY <1>4 DEF Unlock
<1>5. CASE P1Missed
  BY <1>5 DEF P1Missed, Hunting
<1>6. ASSUME NEW n \in 1..left, NEW h \in 0..P1Head, NEW f \in Offsets,
             P1Step(n, h, f)
      PROVE  TypeOK'
  <2>1. P1Found(n, h, f)
    BY <1>6 DEF P1Step, P1Tracked, P1Retuning, P1OffTune, P1Undecoded,
                P1FirstLock, P1Relock
  <2>2. left' \in Nat /\ idx_buffer_sym' \in Nat /\ coarse_freq_offset' \in Offsets
    BY <2>1, Constants DEF P1Found, Hunting
  <2>3. p1_decoded' \in BOOLEAN
    BY <2>1 DEF P1Found
  <2>4. CASE P1Tracked(n, h, f)
    <3>1. p1_reset' \in BOOLEAN /\ next_symbol_type' \in {"P1", "P2", "DATA", "FC"}
      BY <2>4 DEF P1Tracked, AfterP1
    <3> QED
      BY <2>1, <2>2, <2>3, <2>4, <3>1 DEF P1Tracked, P1Found
  <2>5. CASE P1Retuning(n, h, f)
    BY <2>1, <2>2, <2>3, <2>5 DEF P1Retuning, P1Found
  <2>6. CASE P1OffTune(n, h, f)
    BY <2>1, <2>2, <2>3, <2>6 DEF P1OffTune, P1Found
  <2>7. CASE P1Undecoded(n, h, f)
    BY <2>1, <2>2, <2>3, <2>7 DEF P1Undecoded, P1Found
  <2>8. CASE P1FirstLock(n, h, f)
    <3>1. guard' \in GIs /\ symbol_size' \in Nat \ {0} /\ est_chunk' \in Nat
      BY <2>8, Constants, GuardSizes DEF P1FirstLock
    <3> QED
      BY <2>1, <2>2, <2>3, <2>8, <3>1 DEF P1FirstLock, P1Found
  <2>9. CASE P1Relock(n, h, f)
    BY <2>1, <2>2, <2>3, <2>9 DEF P1Relock, P1Found
  <2> QED
    BY <1>6, <2>4, <2>5, <2>6, <2>7, <2>8, <2>9 DEF P1Step
<1>7. CASE SymbolPartial
  <2>1. idx_buffer_sym' \in Nat /\ left' \in Nat /\ est_chunk' \in Nat
    BY <1>7 DEF SymbolPartial, Collecting, Wanted
  <2> QED
    BY <1>7, <2>1 DEF SymbolPartial
<1>8. CASE DataSymbol
  <2>1. left' \in Nat /\ est_chunk' \in Nat /\ idx_buffer_sym' \in Nat
    BY <1>8 DEF DataSymbol, SymbolComplete, Wanted
  <2>2. sent' \in Nat /\ idx_symbol' \in Nat
    BY <1>8 DEF DataSymbol, EmitCells
  <2>3. next_symbol_type' \in {"P1", "P2", "DATA", "FC"}
    BY <1>8 DEF DataSymbol, AfterData
  <2> QED
    BY <1>8, <2>1, <2>2, <2>3 DEF DataSymbol, SymbolComplete
<1>9. CASE FcSymbol
  <2>1. left' \in Nat /\ est_chunk' \in Nat /\ idx_buffer_sym' \in Nat
    BY <1>9 DEF FcSymbol, SymbolComplete, Wanted
  <2>2. sent' \in Nat
    BY <1>9 DEF FcSymbol, EmitCells
  <2> QED
    BY <1>9, <2>1, <2>2 DEF FcSymbol, SymbolComplete
<1>10. ASSUME NEW l1_post \in BOOLEAN, P2Frame(l1_post) PROVE TypeOK'
  <2>1. left' \in Nat /\ est_chunk' \in Nat /\ idx_buffer_sym' \in Nat
    BY <1>10 DEF P2Frame, SymbolComplete, Wanted
  <2>2. deint_start' \in BOOLEAN /\ opened' \in BOOLEAN
    BY <1>10 DEF P2Frame
  <2> QED
    BY <1>10, <2>1, <2>2 DEF P2Frame, SymbolComplete
<1>11. CASE P2Configure
  <2>1. left' \in Nat /\ idx_buffer_sym' \in Nat
    BY <1>11 DEF P2Configure, SymbolComplete, Wanted
  <2>2. guard' \in GIs /\ symbol_size' \in Nat \ {0} /\ est_chunk' \in Nat
    BY <1>11, FrameFacts, GuardSizes DEF P2Configure
  <2>3. end_data_symbol' \in Nat /\ frame_closing_symbol' \in BOOLEAN
    BY <1>11, FrameFacts DEF P2Configure
  <2>4. data_init' \in Frames \cup {NoFrame} /\ fc_init' \in Frames \cup {NoFrame}
    BY <1>11 DEF P2Configure
  <2> QED
    BY <1>11, <2>1, <2>2, <2>3, <2>4 DEF P2Configure, SymbolComplete
<1>12. CASE P2Search
  <2>1. left' \in Nat /\ idx_buffer_sym' \in Nat
    BY <1>12 DEF P2Search, SymbolComplete, Wanted
  <2>2. guard' \in GIs
    BY <1>12, OrderFacts DEF P2Search
  <2>3. symbol_size' \in Nat \ {0} /\ est_chunk' \in Nat
    BY <1>12, <2>2, GuardSizes DEF P2Search
  <2>4. idx' \in 0..(Len(GIOrder) - 1) /\ c' \in 0..(Num + 1)
    BY <1>12, Constants DEF P2Search, NextTry
  <2>5. /\ crc32_l1_pre' \in BOOLEAN /\ opened' \in BOOLEAN
        /\ idx_symbol' \in Nat /\ sent' \in Nat
        /\ next_symbol_type' \in {"P1", "P2", "DATA", "FC"}
    BY <1>12 DEF P2Search
  <2>6. /\ UNCHANGED <<pc, remain, p1_decoded, change_frequency,
                       coarse_freq_offset, frequency_changed, tx>>
        /\ UNCHANGED <<end_data_symbol, frame_closing_symbol, deint_start,
                       p2_init, demodulator_init, data_init, fc_init, reset,
                       p1_reset>>
    BY <1>12 DEF P2Search, SymbolComplete
  <2> QED
    BY <2>1, <2>2, <2>3, <2>4, <2>5, <2>6
<1>13. CASE P2Lost
  <2>1. left' \in Nat /\ est_chunk' \in Nat /\ idx_buffer_sym' \in Nat
    BY <1>13 DEF P2Lost, SymbolComplete
  <2>2. reset' \in BOOLEAN /\ p1_reset' \in BOOLEAN
    BY <1>13 DEF P2Lost, AskReset
  <2> QED
    BY <1>13, <2>1, <2>2 DEF P2Lost, SymbolComplete
<1>14. CASE DeviceReset
  <2>1. coarse_freq_offset' \in Offsets
    BY <1>14, OffsetAssumption DEF DeviceReset
  <2>2. /\ reset' \in BOOLEAN /\ change_frequency' \in BOOLEAN
        /\ frequency_changed' \in BOOLEAN
    BY <1>14 DEF DeviceReset
  <2>3. DeviceVarsUnchanged
    BY <1>14 DEF DeviceReset
  <2> QED
    BY <2>1, <2>2, <2>3 DEF DeviceVarsUnchanged
<1>15. CASE DeviceTune
  <2>1. /\ reset' \in BOOLEAN /\ change_frequency' \in BOOLEAN
        /\ frequency_changed' \in BOOLEAN /\ coarse_freq_offset' \in Offsets
    BY <1>15 DEF DeviceTune
  <2>2. DeviceVarsUnchanged
    BY <1>15 DEF DeviceTune
  <2> QED
    BY <2>1, <2>2 DEF DeviceVarsUnchanged
<1>16. CASE DeviceSettled
  BY <1>16 DEF DeviceSettled, DeviceVarsUnchanged
<1>17. CASE UNCHANGED vars
  BY <1>17 DEF vars
<1> QED
  BY <1>1, <1>2, <1>3, <1>4, <1>5, <1>6, <1>7, <1>8, <1>9, <1>10, <1>11, <1>12,
     <1>13, <1>14, <1>15, <1>16, <1>17
     DEF Next, Demod, Device, Hunt, Symbol, P2Step

LEMMA InitIInv == Init => IInv
<1> SUFFICES ASSUME Init PROVE IInv
  OBVIOUS
<1>1. TypeOK
  BY InitType
<1>2. LockInv /\ PlaceInv /\ FrameWhole
  BY DEF Init, LockInv, PlaceInv, FrameWhole
<1>3. SymbolFits /\ SetupInv
  BY DEF Init, SymbolFits, SetupInv
<1>4. ScratchFits
  BY Constants, GuardSizes DEF Init, ScratchFits
<1> QED
  BY <1>1, <1>2, <1>3, <1>4 DEF IInv

(***************************************************************************)
(* IInv is inductive.  LockInv carries the argument: SetupInv survives     *)
(* P1FirstLock and P2Search because they are out of reach after the first  *)
(* lock, and P1Relock because it is out of reach before.  PlaceInv counts  *)
(* the symbols of the frame for FrameWhole.                                *)
(***************************************************************************)
LEMMA IInvStep == IInv /\ [Next]_vars => IInv'
<1> SUFFICES ASSUME IInv, [Next]_vars PROVE IInv'
  OBVIOUS
<1> TypeOK /\ TypeOK'
  BY TypeStep DEF IInv
<1> /\ left \in Nat /\ est_chunk \in Nat /\ idx_buffer_sym \in Nat
    /\ symbol_size \in Nat \ {0}
    /\ idx_symbol \in Nat /\ sent \in Nat /\ end_data_symbol \in Nat
    /\ guard \in GIs /\ tx \in Frames /\ data_init \in Frames \cup {NoFrame}
    /\ P1Len \in Nat \ {0} /\ SymbolSize(Quarter) \in Nat \ {0}
  BY Constants, GuardSizes DEF TypeOK
<1> LockInv /\ SetupInv /\ PlaceInv /\ SymbolFits /\ ScratchFits /\ FrameWhole
  BY DEF IInv
<1> USE DEF frameVars, initVars, searchVars, signalVars, sampleVars, DeviceVarsUnchanged
<1>0. next_symbol_type \in {"DATA", "FC"} => data_init \in Frames
  BY DEF LockInv
<1>1. ASSUME NEW n \in BufferLens, Execute(n) PROVE IInv'
  BY <1>1 DEF IInv, LockInv, SetupInv, PlaceInv, SymbolFits, ScratchFits,
     FrameWhole, Execute
<1>2. CASE Chunk
  <2>1. LockInv'
    BY <1>2 DEF LockInv, Chunk, Estimate
  <2>2. SetupInv'
    BY <1>2 DEF SetupInv, Chunk, Estimate
  <2>3. PlaceInv'
    BY <1>2 DEF PlaceInv, Chunk, Estimate
  <2>4. SymbolFits'
    BY <1>2 DEF SymbolFits, Chunk, Estimate
  <2>5. ScratchFits'
    BY <1>2, P1Assumption, GuardSizes DEF ScratchFits, Chunk, Estimate, SetupInv
  <2>6. FrameWhole'
    BY <1>2 DEF FrameWhole, Chunk, Estimate
  <2> QED
    BY <2>1, <2>2, <2>3, <2>4, <2>5, <2>6 DEF IInv
<1>3. CASE EndAcquire
  BY <1>3 DEF IInv, LockInv, SetupInv, PlaceInv, SymbolFits, ScratchFits,
     FrameWhole, EndAcquire
<1>4. CASE Unlock
  BY <1>4 DEF IInv, LockInv, SetupInv, PlaceInv, SymbolFits, ScratchFits,
     FrameWhole, Unlock
<1>5. CASE P1Missed
  BY <1>5 DEF IInv, LockInv, SetupInv, PlaceInv, SymbolFits, ScratchFits,
     FrameWhole, P1Missed, Hunting
<1>6. ASSUME NEW n \in 1..left, NEW h \in 0..P1Head, NEW f \in Offsets,
             P1Tracked(n, h, f)
      PROVE  IInv'
  <2>1. LockInv'
    BY <1>6 DEF LockInv, P1Tracked, P1Found, Hunting, AfterP1, SetupInv
  <2>2. SetupInv'
    BY <1>6 DEF SetupInv, P1Tracked, P1Found, Hunting, AfterP1, SetupInv
  <2>3. PlaceInv'
    BY <1>6 DEF PlaceInv, P1Tracked, P1Found, Hunting, AfterP1, SetupInv
  <2>4. SymbolFits'
    BY <1>6, GuardSizes, Constants DEF SymbolFits, P1Tracked, P1Found, Hunting, AfterP1, SetupInv
  <2>5. ScratchFits'
    BY <1>6, GuardSizes DEF ScratchFits, P1Tracked, P1Found, Hunting, AfterP1, SetupInv
  <2>6. FrameWhole'
    BY <1>6 DEF FrameWhole, P1Tracked, P1Found, Hunting, AfterP1, SetupInv
  <2> QED
    BY <2>1, <2>2, <2>3, <2>4, <2>5, <2>6 DEF IInv
<1>7. ASSUME NEW n \in 1..left, NEW h \in 0..P1Head, NEW f \in Offsets,
             P1Retuning(n, h, f)
      PROVE  IInv'
  <2>1. LockInv'
    BY <1>7 DEF LockInv, P1Retuning, P1Found, Hunting
  <2>2. SetupInv'
    BY <1>7 DEF SetupInv, P1Retuning, P1Found, Hunting
  <2>3. PlaceInv'
    BY <1>7 DEF PlaceInv, P1Retuning, P1Found, Hunting
  <2>4. SymbolFits'
    BY <1>7, GuardSizes, Constants DEF SymbolFits, P1Retuning, P1Found, Hunting
  <2>5. ScratchFits'
    BY <1>7, GuardSizes DEF ScratchFits, P1Retuning, P1Found, Hunting
  <2>6. FrameWhole'
    BY <1>7 DEF FrameWhole, P1Retuning, P1Found, Hunting
  <2> QED
    BY <2>1, <2>2, <2>3, <2>4, <2>5, <2>6 DEF IInv
<1>8. ASSUME NEW n \in 1..left, NEW h \in 0..P1Head, NEW f \in Offsets,
             P1OffTune(n, h, f)
      PROVE  IInv'
  <2>1. LockInv'
    BY <1>8 DEF LockInv, P1OffTune, P1Found, Hunting
  <2>2. SetupInv'
    BY <1>8 DEF SetupInv, P1OffTune, P1Found, Hunting
  <2>3. PlaceInv'
    BY <1>8 DEF PlaceInv, P1OffTune, P1Found, Hunting
  <2>4. SymbolFits'
    BY <1>8, GuardSizes, Constants DEF SymbolFits, P1OffTune, P1Found, Hunting
  <2>5. ScratchFits'
    BY <1>8, GuardSizes DEF ScratchFits, P1OffTune, P1Found, Hunting
  <2>6. FrameWhole'
    BY <1>8 DEF FrameWhole, P1OffTune, P1Found, Hunting
  <2> QED
    BY <2>1, <2>2, <2>3, <2>4, <2>5, <2>6 DEF IInv
<1>9. ASSUME NEW n \in 1..left, NEW h \in 0..P1Head, NEW f \in Offsets,
             P1Undecoded(n, h, f)
      PROVE  IInv'
  <2>1. LockInv'
    BY <1>9 DEF LockInv, P1Undecoded, P1Found, Hunting
  <2>2. SetupInv'
    BY <1>9 DEF SetupInv, P1Undecoded, P1Found, Hunting
  <2>3. PlaceInv'
    BY <1>9 DEF PlaceInv, P1Undecoded, P1Found, Hunting
  <2>4. SymbolFits'
    BY <1>9, GuardSizes, Constants DEF SymbolFits, P1Undecoded, P1Found, Hunting
  <2>5. ScratchFits'
    BY <1>9, GuardSizes DEF ScratchFits, P1Undecoded, P1Found, Hunting
  <2>6. FrameWhole'
    BY <1>9 DEF FrameWhole, P1Undecoded, P1Found, Hunting
  <2> QED
    BY <2>1, <2>2, <2>3, <2>4, <2>5, <2>6 DEF IInv
<1>10. ASSUME NEW n \in 1..left, NEW h \in 0..P1Head, NEW f \in Offsets,
             P1FirstLock(n, h, f)
      PROVE  IInv'
  <2>1. LockInv'
    BY <1>10 DEF LockInv, P1FirstLock, P1Found, Hunting, Relocking
  <2>2. SetupInv'
    BY <1>10 DEF SetupInv, P1FirstLock, P1Found, Hunting, Relocking, LockInv
  <2>3. PlaceInv'
    BY <1>10 DEF PlaceInv, P1FirstLock, P1Found, Hunting, Relocking
  <2>4. SymbolFits'
    BY <1>10, GuardSizes, Constants DEF SymbolFits, P1FirstLock, P1Found, Hunting, Relocking
  <2>5. ScratchFits'
    BY <1>10, GuardSizes DEF ScratchFits, P1FirstLock, P1Found, Hunting, Relocking
  <2>6. FrameWhole'
    BY <1>10 DEF FrameWhole, P1FirstLock, P1Found, Hunting, Relocking
  <2> QED
    BY <2>1, <2>2, <2>3, <2>4, <2>5, <2>6 DEF IInv
<1>11. ASSUME NEW n \in 1..left, NEW h \in 0..P1Head, NEW f \in Offsets,
             P1Relock(n, h, f)
      PROVE  IInv'
  <2>1. LockInv'
    BY <1>11 DEF LockInv, P1Relock, P1Found, Hunting, Relocking
  <2>2. SetupInv'
    BY <1>11 DEF SetupInv, P1Relock, P1Found, Hunting, Relocking, LockInv
  <2>3. PlaceInv'
    BY <1>11 DEF PlaceInv, P1Relock, P1Found, Hunting, Relocking
  <2>4. SymbolFits'
    BY <1>11, GuardSizes, Constants DEF SymbolFits, P1Relock, P1Found, Hunting, Relocking
  <2>5. ScratchFits'
    BY <1>11, GuardSizes DEF ScratchFits, P1Relock, P1Found, Hunting, Relocking
  <2>6. FrameWhole'
    BY <1>11 DEF FrameWhole, P1Relock, P1Found, Hunting, Relocking
  <2> QED
    BY <2>1, <2>2, <2>3, <2>4, <2>5, <2>6 DEF IInv
<1>12. CASE SymbolPartial
  <2>1. LockInv'
    BY <1>12 DEF LockInv, SymbolPartial, Collecting, Wanted
  <2>2. SetupInv'
    BY <1>12 DEF SetupInv, SymbolPartial, Collecting, Wanted
  <2>3. PlaceInv'
    BY <1>12 DEF PlaceInv, SymbolPartial, Collecting, Wanted
  <2>4. SymbolFits'
    BY <1>12 DEF SymbolFits, SymbolPartial, Collecting, Wanted
  <2>5. ScratchFits'
    BY <1>12, P1Assumption, GuardSizes DEF ScratchFits, SymbolPartial, Collecting, Wanted, SetupInv
  <2>6. FrameWhole'
    BY <1>12 DEF FrameWhole, SymbolPartial, Collecting, Wanted
  <2> QED
    BY <2>1, <2>2, <2>3, <2>4, <2>5, <2>6 DEF IInv
<1>13. CASE DataSymbol
  <2>1. LockInv'
    BY <1>13 DEF LockInv, DataSymbol, EmitCells, AfterData, SymbolComplete, Collecting, Wanted
  <2>2. SetupInv'
    BY <1>13 DEF SetupInv, DataSymbol, EmitCells, AfterData, SymbolComplete, Collecting, Wanted
  <2>3. PlaceInv'
    BY <1>13 DEF PlaceInv, DataSymbol, EmitCells, AfterData, SymbolComplete, Collecting, Wanted
  <2>4. SymbolFits'
    BY <1>13 DEF SymbolFits, DataSymbol, EmitCells, AfterData, SymbolComplete, Collecting, Wanted
  <2>5. ScratchFits'
    BY <1>13 DEF ScratchFits, DataSymbol, EmitCells, AfterData, SymbolComplete, Collecting, Wanted
  <2>6. FrameWhole'
    <3> SUFFICES ASSUME opened, next_symbol_type' \in {"P1", "P2"}
                 PROVE  sent' = LastData(data_init) - 1 + data_init.fc
      BY <1>13 DEF FrameWhole, DataSymbol
    <3>1. next_symbol_type = "DATA" /\ deint_start /\ sent = idx_symbol - 1
      BY <1>13 DEF DataSymbol, SymbolComplete, Collecting, PlaceInv
    <3>2. sent' = idx_symbol /\ idx_symbol + 1 = end_data_symbol /\ ~frame_closing_symbol
      BY <1>13, <3>1 DEF DataSymbol, EmitCells, AfterData
    <3>3. /\ data_init \in Frames /\ end_data_symbol = LastData(data_init)
          /\ data_init.fc # 1
      BY <1>0, <3>1, <3>2, FrameFacts DEF SetupInv
    <3> QED
      BY <3>2, <3>3, FrameFacts
  <2> QED
    BY <2>1, <2>2, <2>3, <2>4, <2>5, <2>6 DEF IInv
<1>14. CASE FcSymbol
  <2>1. LockInv'
    BY <1>14 DEF LockInv, FcSymbol, EmitCells, SymbolComplete, Collecting, Wanted
  <2>2. SetupInv'
    BY <1>14 DEF SetupInv, FcSymbol, EmitCells, SymbolComplete, Collecting, Wanted
  <2>3. PlaceInv'
    BY <1>14 DEF PlaceInv, FcSymbol, EmitCells, SymbolComplete, Collecting, Wanted
  <2>4. SymbolFits'
    BY <1>14 DEF SymbolFits, FcSymbol, EmitCells, SymbolComplete, Collecting, Wanted
  <2>5. ScratchFits'
    BY <1>14 DEF ScratchFits, FcSymbol, EmitCells, SymbolComplete, Collecting, Wanted
  <2>6. FrameWhole'
    BY <1>14, <1>0, FrameFacts DEF FrameWhole, FcSymbol, EmitCells, SymbolComplete, Collecting, Wanted, PlaceInv, SetupInv
  <2> QED
    BY <2>1, <2>2, <2>3, <2>4, <2>5, <2>6 DEF IInv
<1>15. ASSUME NEW l1_post \in BOOLEAN, P2Frame(l1_post) PROVE IInv'
  <2>1. LockInv'
    BY <1>15 DEF LockInv, P2Frame, SymbolComplete, Collecting, Wanted
  <2>2. SetupInv'
    BY <1>15 DEF SetupInv, P2Frame, SymbolComplete, Collecting, Wanted
  <2>3. PlaceInv'
    BY <1>15, FrameFacts DEF PlaceInv, P2Frame, SymbolComplete, Collecting, Wanted, LockInv, SetupInv
  <2>4. SymbolFits'
    BY <1>15 DEF SymbolFits, P2Frame, SymbolComplete, Collecting, Wanted
  <2>5. ScratchFits'
    BY <1>15 DEF ScratchFits, P2Frame, SymbolComplete, Collecting, Wanted
  <2>6. FrameWhole'
    BY <1>15 DEF FrameWhole, P2Frame, SymbolComplete, Collecting, Wanted
  <2> QED
    BY <2>1, <2>2, <2>3, <2>4, <2>5, <2>6 DEF IInv
<1>16. CASE P2Configure
  <2>1. LockInv'
    BY <1>16, FrameFacts DEF LockInv, P2Configure, SymbolComplete, Collecting, Wanted
  <2>2. SetupInv'
    BY <1>16 DEF SetupInv, P2Configure, SymbolComplete, Collecting, Wanted
  <2>3. PlaceInv'
    BY <1>16 DEF PlaceInv, P2Configure, SymbolComplete, Collecting, Wanted
  <2>4. SymbolFits'
    BY <1>16 DEF SymbolFits, P2Configure, SymbolComplete, Collecting, Wanted
  <2>5. ScratchFits'
    BY <1>16, FrameFacts, GuardSizes DEF ScratchFits, P2Configure, SymbolComplete, Collecting, Wanted
  <2>6. FrameWhole'
    BY <1>16 DEF FrameWhole, P2Configure, SymbolComplete, Collecting, Wanted
  <2> QED
    BY <2>1, <2>2, <2>3, <2>4, <2>5, <2>6 DEF IInv
<1>17. CASE P2Search
  <2>1. LockInv'
    BY <1>17 DEF LockInv, P2Search, SymbolComplete, Collecting, Wanted
  <2>2. SetupInv'
    BY <1>17, OrderFacts DEF SetupInv, P2Search, SymbolComplete, Collecting, Wanted, LockInv
  <2>3. PlaceInv'
    BY <1>17 DEF PlaceInv, P2Search, SymbolComplete, Collecting, Wanted
  <2>4. SymbolFits'
    BY <1>17 DEF SymbolFits, P2Search, SymbolComplete, Collecting, Wanted
  <2>5. ScratchFits'
    BY <1>17, GuardSizes DEF ScratchFits, P2Search, SymbolComplete, Collecting, Wanted, TypeOK
  <2>6. FrameWhole'
    BY <1>17 DEF FrameWhole, P2Search, SymbolComplete, Collecting, Wanted
  <2> QED
    BY <2>1, <2>2, <2>3, <2>4, <2>5, <2>6 DEF IInv
<1>18. CASE P2Lost
  <2>1. LockInv'
    BY <1>18 DEF LockInv, P2Lost, AskReset, SymbolComplete, Collecting, Wanted
  <2>2. SetupInv'
    BY <1>18 DEF SetupInv, P2Lost, AskReset, SymbolComplete, Collecting, Wanted
  <2>3. PlaceInv'
    BY <1>18 DEF PlaceInv, P2Lost, AskReset, SymbolComplete, Collecting, Wanted
  <2>4. SymbolFits'
    BY <1>18 DEF SymbolFits, P2Lost, AskReset, SymbolComplete, Collecting, Wanted
  <2>5. ScratchFits'
    BY <1>18 DEF ScratchFits, P2Lost, AskReset, SymbolComplete, Collecting, Wanted
  <2>6. FrameWhole'
    BY <1>18 DEF FrameWhole, P2Lost, AskReset, SymbolComplete, Collecting, Wanted
  <2> QED
    BY <2>1, <2>2, <2>3, <2>4, <2>5, <2>6 DEF IInv
<1>19. CASE DeviceReset
  BY <1>19 DEF IInv, LockInv, SetupInv, PlaceInv, SymbolFits, ScratchFits,
     FrameWhole, DeviceReset
<1>20. CASE DeviceTune
  BY <1>20 DEF IInv, LockInv, SetupInv, PlaceInv, SymbolFits, ScratchFits,
     FrameWhole, DeviceTune
<1>21. CASE DeviceSettled
  BY <1>21 DEF IInv, LockInv, SetupInv, PlaceInv, SymbolFits, ScratchFits,
     FrameWhole, DeviceSettled
<1>22. CASE UNCHANGED vars
  BY <1>22 DEF IInv, LockInv, SetupInv, PlaceInv, SymbolFits, ScratchFits,
     FrameWhole, vars
<1> QED
  BY <1>1, <1>2, <1>3, <1>4, <1>5, <1>6, <1>7, <1>8, <1>9, <1>10, <1>11, <1>12,
     <1>13, <1>14, <1>15, <1>16, <1>17, <1>18, <1>19, <1>20, <1>21, <1>22
     DEF Next, Demod, Device, Hunt, P1Step, Symbol, P2Step

(* Every variable keeps to its range.                                      *)
THEOREM TypeCorrect == Spec => []TypeOK
<1>1. Init => TypeOK
  BY InitType
<1>2. TypeOK /\ [Next]_vars => TypeOK'
  BY TypeStep
<1> QED
  BY <1>1, <1>2, PTL DEF Spec

THEOREM Invariance == Spec => []IInv
<1>1. Init => IInv
  BY InitIInv
<1>2. IInv /\ [Next]_vars => IInv'
  BY IInvStep
<1> QED
  BY <1>1, <1>2, PTL DEF Spec

(* A symbol is decoded only by a demodulator set up for its frame.         *)
THEOREM ReadySymbolsHold == Spec => []ReadySymbols
<1>1. IInv => ReadySymbols
  <2> SUFFICES ASSUME IInv PROVE ReadySymbols
    OBVIOUS
  <2>1. next_symbol_type \in {"DATA", "FC"} =>
          p2_init /\ demodulator_init /\ data_init # NoFrame
    BY DEF IInv, LockInv
  <2>2. data_init # NoFrame => data_init \in Frames
    BY DEF IInv, TypeOK
  <2> QED
    BY <2>1, <2>2, FrameFacts DEF IInv, SetupInv, PlaceInv, ReadySymbols
<1> QED
  BY <1>1, Invariance, PTL

(* The fill of buffer_sym stays below the symbol size.                     *)
THEOREM SymbolFitsHolds == Spec => []SymbolFits
<1>1. IInv => SymbolFits
  BY DEF IInv
<1> QED
  BY <1>1, Invariance, PTL

(* A chunk stays within the scratch buffers.                               *)
THEOREM ScratchFitsHolds == Spec => []ScratchFits
<1>1. IInv => ScratchFits
  BY DEF IInv
<1> QED
  BY <1>1, Invariance, PTL

(* An announced frame is handed over whole.                                *)
THEOREM FrameWholeHolds == Spec => []FrameWhole
<1>1. IInv => FrameWhole
  BY DEF IInv
<1> QED
  BY <1>1, Invariance, PTL

(* After the first lock no step touches what that lock set up.             *)
THEOREM RelockKeepsSetupHolds == Spec => RelockKeepsSetup
<1> DEFINE Setup == data_init # NoFrame => UNCHANGED <<guard, symbol_size, data_init, fc_init>>
<1>1. IInv /\ [Next]_vars => [Setup]_vars
  <2> SUFFICES ASSUME IInv, Next, data_init # NoFrame
               PROVE  UNCHANGED <<guard, symbol_size, data_init, fc_init>>
    OBVIOUS
  <2> USE DEF initVars, searchVars, sampleVars, DeviceVarsUnchanged
  <2>1. /\ ~p2_init => p1_reset
        /\ next_symbol_type = "P2" => demodulator_init
    BY DEF IInv, LockInv
  <2>2. ~P2Configure /\ ~P2Search
    BY <2>1 DEF P2Configure, P2Search, SymbolComplete, Collecting
  <2>3. ASSUME NEW n \in 1..left, NEW h \in 0..P1Head, NEW f \in Offsets,
               P1Step(n, h, f)
        PROVE  UNCHANGED <<guard, symbol_size, data_init, fc_init>>
    <3>1. ~P1FirstLock(n, h, f)
      BY <2>1 DEF P1FirstLock, Relocking
    <3> QED
      BY <2>3, <3>1 DEF P1Step, P1Found, P1Tracked, P1Retuning, P1OffTune,
                        P1Undecoded, P1Relock
  <2>4. CASE Symbol
    BY <2>2, <2>4 DEF Symbol, P2Step, SymbolPartial, DataSymbol, FcSymbol, P2Frame,
                      P2Lost
  <2>5. CASE Device
    BY <2>5 DEF Device, DeviceReset, DeviceTune, DeviceSettled
  <2> QED
    BY <2>3, <2>4, <2>5 DEF Next, Demod, Hunt, Execute, Chunk, EndAcquire, Unlock, P1Missed
<1>2. Spec => [][Next]_vars
  BY PTL DEF Spec
<1> QED
  BY <1>1, <1>2, Invariance, PTL DEF RelockKeepsSetup

----------------------------------------------------------------------------
(* The demodulator with its device.                                        *)

(* The lengths a callback can leave in a buffer.                           *)
LEMMA BlockSizes ==
  ASSUME NEW k \in 1..MaxBlocks
  PROVE  k * Block \in BufferLens /\ k * Block <= MaxBlocks * Block
  BY BlockAssumption

LEMMA OffsetSizes ==
  ASSUME NEW e \in Errors, NEW t \in Tunings
  PROVE  e - t \in Offsets
  BY ErrorAssumption

Lengths == {n \in BufferLens : n <= MaxBlocks * Block}

Signal == [buf : {"a", "b"}, len : Lengths, tuned : Tunings]

(***************************************************************************)
(* What the refinement rests on: a buffer holds as many samples as `blocks' *)
(* says, so that every length handed over is one the demodulator's module  *)
(* expects, and what it measures is an offset.                             *)
(***************************************************************************)
LinkInv ==
  /\ queue \in Seq(Signal) /\ reading.tuned \in Tunings
  /\ blocks \in 1..MaxBlocks /\ len_buffer = (blocks - 1) * Block
  /\ tuned \in Tunings /\ rf_frequency \in Tunings
  /\ error \in Errors
  /\ out \in {"a", "b"} /\ fails \in Nat

LEMMA LinkInit == RInit => LinkInv
  BY BlockAssumption, ErrorAssumption DEF RInit, LinkInv, Signal

LEMMA HandedSignal == LinkInv => Handed \in Signal
<1> SUFFICES ASSUME LinkInv PROVE Handed \in Signal
  OBVIOUS
<1>1. len_buffer + Block = blocks * Block
  BY BlockAssumption DEF LinkInv
<1>2. blocks * Block \in Lengths
  BY BlockSizes DEF LinkInv, Lengths
<1> QED
  BY <1>1, <1>2 DEF LinkInv, Handed, Signal

LEMMA LinkStep == LinkInv /\ [RNext]_rvars => LinkInv'
<1> SUFFICES ASSUME LinkInv, [RNext]_rvars PROVE LinkInv'
  OBVIOUS
<1> USE DEF LinkInv
<1>1. CASE Take
  <2>1. Head(queue) \in Signal /\ Tail(queue) \in Seq(Signal)
    BY <1>1 DEF Take
  <2> QED
    BY <1>1, <2>1 DEF Take, deviceVars, Signal
<1>2. CASE FindP1
  BY <1>2 DEF FindP1, deviceVars
<1>3. CASE Work
  BY <1>3 DEF Work, deviceVars, linkVars
<1>4. ASSUME HandOver PROVE /\ queue' \in Seq(Signal) /\ out' \in {"a", "b"}
                            /\ blocks' \in 1..MaxBlocks
                            /\ len_buffer' = (blocks' - 1) * Block
  BY <1>4, HandedSignal, BlockAssumption DEF HandOver, Other
<1>5. ASSUME NEW f \in Tunings, SetFreq(f) PROVE tuned' \in Tunings /\ fails' \in Nat
  BY <1>5 DEF SetFreq
<1>6. CASE Reset
  BY <1>6, <1>5, BlockAssumption, ErrorAssumption DEF Reset
<1>7. CASE Serve
  BY <1>7, <1>4 DEF Serve
<1>8. CASE ServeSettled
  BY <1>8, <1>4 DEF ServeSettled
<1>9. CASE ServeTune
  BY <1>9, <1>4, <1>5 DEF ServeTune, Tune
<1>10. CASE Busy
  <2>1. blocks' \in 1..MaxBlocks /\ len_buffer' = (blocks' - 1) * Block
    BY <1>10, BlockAssumption DEF Busy, Keep
  <2> QED
    BY <1>10, <2>1 DEF Busy, linkVars
<1>11. CASE UNCHANGED rvars
  BY <1>11 DEF rvars, deviceVars, linkVars
<1> QED
  BY <1>1, <1>2, <1>3, <1>6, <1>7, <1>8, <1>9, <1>10, <1>11 DEF RNext, Callback

(* Each thread's steps are steps of the demodulator's module, or leave its *)
(* variables alone.                                                        *)
LEMMA StepImplements == LinkInv /\ [RNext]_rvars => [Next]_vars
<1> SUFFICES ASSUME LinkInv, RNext PROVE Next \/ UNCHANGED vars
  BY DEF rvars
<1> USE DEF Next
<1>1. CASE Take
  <2>1. Head(queue) \in Signal
    BY <1>1 DEF Take, LinkInv
  <2>2. Head(queue).len \in BufferLens
    BY <2>1 DEF Signal, Lengths
  <2> QED
    BY <1>1, <2>2 DEF Take, Demod
<1>2. CASE FindP1
  <2>1. Measured \in Offsets
    BY OffsetSizes DEF LinkInv, Measured
  <2> QED
    BY <1>2, <2>1 DEF FindP1, Demod, Hunt
<1>3. CASE Work
  BY <1>3 DEF Work, Demod
<1>4. CASE Callback
  BY <1>4 DEF Callback, Reset, Serve, ServeSettled, ServeTune, Busy, Device
<1> QED
  BY <1>1, <1>2, <1>3, <1>4 DEF RNext

(* The device and the demodulator together implement the demodulator with  *)
(* an arbitrary device.                                                    *)
THEOREM Implements == RSpec => DemodulatorSpec
<1>1. RInit => Init
  BY DEF RInit
<1> QED
  BY <1>1, LinkInit, LinkStep, StepImplements, PTL DEF RSpec, Spec, DemodulatorSpec

(* So an announced frame is handed over whole by the composition too.      *)
THEOREM ReceiverFrameWhole == RSpec => []FrameWhole
  BY Implements, FrameWholeHolds, PTL DEF DemodulatorSpec

(* A block of samples always has room in its buffer.                       *)
THEOREM BlockFitsHolds == RSpec => []BlockFits
<1>1. LinkInv => BlockFits
  <2> SUFFICES ASSUME LinkInv PROVE BlockFits
    OBVIOUS
  <2>1. len_buffer + Block = blocks * Block
    BY BlockAssumption DEF LinkInv
  <2>2. blocks * Block <= MaxBlocks * Block
    BY BlockSizes DEF LinkInv
  <2>3. ASSUME NEW i \in 1..Len(queue) PROVE queue[i].len <= MaxBlocks * Block
    <3>1. queue[i] \in Signal
      BY <2>3 DEF LinkInv
    <3> QED
      BY <3>1 DEF Signal, Lengths
  <2> QED
    BY <2>1, <2>2, <2>3 DEF LinkInv, BlockFits
<1> QED
  BY <1>1, LinkInit, LinkStep, PTL DEF RSpec

(* As long as no signal is late the two threads never share a buffer.      *)
THEOREM BuffersApartHolds == RSpec => []BuffersApart
<1>1. RInit => BuffersApart
  BY DEF RInit, Init, BuffersApart
<1>2. LinkInv /\ BuffersApart /\ [RNext]_rvars => BuffersApart'
  <2> SUFFICES ASSUME LinkInv, BuffersApart, [RNext]_rvars, ~late'
               PROVE  BuffersApart'
    BY DEF BuffersApart
  <2> USE DEF BuffersApart
  <2>1. CASE Take
    <3>1. ~late /\ queue \in Seq(Signal) /\ queue # <<>> /\ out' = out
      BY <2>1 DEF Take, LinkInv, deviceVars
    <3>2. /\ reading' = queue[1]
          /\ \A i \in 1..Len(queue') : queue'[i] = queue[i + 1] /\ i + 1 \in 1..Len(queue)
      BY <2>1, <3>1 DEF Take
    <3> QED
      BY <3>1, <3>2
  <2>2. CASE FindP1
    BY <2>2 DEF FindP1, P1Step, P1Tracked, P1Retuning, P1OffTune, P1Undecoded,
                P1FirstLock, P1Relock, P1Found, deviceVars
  <2>3. CASE Work
    <3>1. UNCHANGED <<late, queue, reading, out>> /\ pc # "idle"
      BY <2>3 DEF Work, deviceVars, linkVars, Chunk, EndAcquire, Unlock, P1Missed,
                  Hunting, Symbol, SymbolPartial, DataSymbol, FcSymbol, P2Step,
                  P2Frame, P2Configure, P2Search, P2Lost, SymbolComplete, Collecting
    <3> QED
      BY <3>1
  <2>4. ASSUME HandOver, pc' = pc, pc = "idle" PROVE BuffersApart'
    <3>1. ~late /\ queue = <<>> /\ out' = Other(out)
      BY <2>4 DEF HandOver
    <3>2. Len(queue') = 1 /\ queue'[1] = Handed
      BY <2>4, <3>1 DEF HandOver
    <3>3. Handed.buf = out /\ Other(out) # out
      BY DEF Handed, Other, LinkInv
    <3> QED
      BY <2>4, <3>1, <3>2, <3>3
  <2>5. CASE Reset
    <3>1. pc' = "idle" /\ queue' = <<>>
      BY <2>5 DEF Reset, Free, DeviceReset, DeviceVarsUnchanged, sampleVars
    <3> QED
      BY <3>1
  <2>6. CASE Serve
    BY <2>4, <2>6 DEF Serve, NoReset, Free, vars, sampleVars
  <2>7. CASE ServeSettled
    BY <2>4, <2>7 DEF ServeSettled, NoReset, Free, DeviceSettled,
                      DeviceVarsUnchanged, sampleVars
  <2>8. CASE ServeTune
    BY <2>4, <2>8 DEF ServeTune, NoReset, Free, DeviceTune, DeviceVarsUnchanged,
                      sampleVars
  <2>9. CASE Busy
    BY <2>9 DEF Busy, vars, sampleVars, linkVars
  <2>10. CASE UNCHANGED rvars
    BY <2>10 DEF rvars, vars, sampleVars, deviceVars, linkVars
  <2> QED
    BY <2>1, <2>2, <2>3, <2>5, <2>6, <2>7, <2>8, <2>9, <2>10 DEF RNext, Callback
<1> QED
  BY <1>1, <1>2, LinkInit, LinkStep, PTL DEF RSpec
(***************************************************************************)
(* TuneInv is inductive.  Only a callback that finds the mutex free moves  *)
(* the tuner or ends the wait, and then no samples are being read.         *)
(***************************************************************************)
LEMMA TuneStep == LinkInv /\ TuneInv /\ [RNext]_rvars => TuneInv'
<1> SUFFICES ASSUME LinkInv, TuneInv, [RNext]_rvars, Timely, fails' = 0
             PROVE  TuneInv'
  BY DEF TuneInv
<1> /\ queue \in Seq(Signal) /\ fails \in Nat
    /\ tuned \in Int /\ rf_frequency \in Int /\ error \in Int
  BY ErrorAssumption DEF LinkInv
<1> USE DEF TuneInv
<1>1. CASE Take
  <2>1. /\ queue # <<>> /\ reading' = queue[1]
        /\ \A i \in 1..Len(queue') : queue'[i] = queue[i + 1] /\ i + 1 \in 1..Len(queue)
    BY <1>1 DEF Take
  <2>2. UNCHANGED <<deviceVars, error, signalVars>>
    BY <1>1 DEF Take, Execute
  <2> QED
    BY <2>1, <2>2 DEF deviceVars, signalVars
<1>2. CASE FindP1
  <2>1. UNCHANGED <<deviceVars, queue, reading, error, frequency_changed>> /\ pc # "idle"
    BY <1>2 DEF FindP1, P1Step, P1Tracked, P1Retuning, P1OffTune, P1Undecoded,
                P1FirstLock, P1Relock, P1Found, Hunting
  <2>2. PICK n \in 1..left, h \in 0..P1Head : P1Step(n, h, Measured)
    BY <1>2 DEF FindP1
  <2>3. coarse_freq_offset' = error - reading.tuned
    BY <2>2 DEF P1Step, P1Tracked, P1Retuning, P1OffTune, P1Undecoded,
                P1FirstLock, P1Relock, P1Found, Measured
  <2>4. change_frequency' = change_frequency \/ frequency_changed
    BY <2>2 DEF P1Step, P1Tracked, P1Retuning, P1OffTune, P1Undecoded,
                P1FirstLock, P1Relock
  <2>5. pc' = pc
    BY <1>2 DEF FindP1, P1Step, P1Tracked, P1Retuning, P1OffTune, P1Undecoded,
                P1FirstLock, P1Relock, P1Found
  <2> QED
    BY <2>1, <2>3, <2>4, <2>5 DEF deviceVars
<1>3. CASE Work
  <2>1. UNCHANGED <<deviceVars, queue, reading, error>> /\ pc # "idle"
    BY <1>3 DEF Work, linkVars, Chunk, EndAcquire, Unlock, P1Missed, Hunting,
                Symbol, SymbolPartial, DataSymbol, FcSymbol, P2Step, P2Frame,
                P2Configure, P2Search, P2Lost, SymbolComplete, Collecting
  <2>2. UNCHANGED <<change_frequency, coarse_freq_offset, frequency_changed>>
    BY <1>3 DEF Work, signalVars, Chunk, EndAcquire, Unlock, P1Missed,
                Symbol, SymbolPartial, DataSymbol, FcSymbol, P2Step, P2Frame,
                P2Configure, P2Search, P2Lost, SymbolComplete
  <2> QED
    BY <2>1, <2>2 DEF deviceVars
<1>4. ASSUME HandOver
      PROVE  /\ \A i \in 1..Len(queue') : queue'[i] = IF i = Len(queue) + 1 THEN Handed
                                                       ELSE queue[i]
             /\ Len(queue') = Len(queue) + 1
  BY <1>4 DEF HandOver
<1>5. ASSUME NEW f, SetFreq(f)
      PROVE  fails = 0 /\ tuned' = f /\ ~frequency_changed'
  BY <1>5 DEF SetFreq
<1>6. CASE Reset
  <2>1. tuned' = 0 /\ rf_frequency' = 0 /\ ~frequency_changed' /\ ~change_frequency'
    BY <1>5, <1>6 DEF Reset, DeviceReset
  <2> QED
    BY <2>1
<1>7. CASE Serve
  <2>1. UNCHANGED <<rf_frequency, tuned, fails, error, pc, change_frequency,
                    coarse_freq_offset, frequency_changed>> /\ pc = "idle"
    BY <1>7 DEF Serve, NoReset, Free, vars, sampleVars, signalVars
  <2>2. HandOver /\ Handed.tuned = tuned
    BY <1>7 DEF Serve, Handed
  <2> QED
    BY <1>4, <2>1, <2>2
<1>8. CASE ServeSettled
  <2>1. UNCHANGED <<rf_frequency, tuned, fails, error, pc>> /\ pc = "idle"
    BY <1>8 DEF ServeSettled, NoReset, Free, DeviceSettled, DeviceVarsUnchanged,
                sampleVars
  <2>2. ~change_frequency' /\ \A i \in 1..Len(queue) : queue[i].tuned = tuned
    BY <1>8 DEF ServeSettled, DeviceSettled, Elapsed
  <2>3. HandOver /\ Handed.tuned = tuned
    BY <1>8 DEF ServeSettled, Handed
  <2> QED
    BY <1>4, <2>1, <2>2, <2>3
<1>9. CASE ServeTune
  <2>1. /\ tuned' = rf_frequency' /\ fails = 0 /\ ~frequency_changed' /\ error' = error
        /\ rf_frequency' = rf_frequency + coarse_freq_offset
        /\ change_frequency /\ ~change_frequency'
    BY <1>5, <1>9 DEF ServeTune, Tune, DeviceTune
  <2>2. coarse_freq_offset = error - rf_frequency
    BY <2>1
  <2> QED
    BY <2>1, <2>2
<1>10. CASE Busy
  BY <1>10 DEF Busy, vars, sampleVars, signalVars, linkVars
<1>11. CASE UNCHANGED rvars
  BY <1>11 DEF rvars, vars, sampleVars, signalVars, deviceVars, linkVars
<1> QED
  BY <1>1, <1>2, <1>3, <1>6, <1>7, <1>8, <1>9, <1>10, <1>11 DEF RNext, Callback

(* No offset is corrected twice.                                           *)
THEOREM CorrectedOnceHolds == RSpec => []CorrectedOnce
<1>1. RInit => TuneInv
  BY DEF RInit, TuneInv
<1>2. TuneInv => CorrectedOnce
  BY DEF TuneInv, CorrectedOnce
<1> QED
  BY <1>1, <1>2, LinkInit, LinkStep, TuneStep, PTL DEF RSpec

(***************************************************************************)
(* OnTuneInv is inductive beside TuneInv: the P1 that locks measures the   *)
(* present tuning, and only a reset or a request moves the tuner.          *)
(***************************************************************************)
LEMMA OnTuneStep == LinkInv /\ TuneInv /\ OnTuneInv /\ [RNext]_rvars => OnTuneInv'
<1> SUFFICES ASSUME LinkInv, TuneInv, OnTuneInv, [RNext]_rvars, Timely, fails' = 0
             PROVE  OnTuneInv'
  BY DEF OnTuneInv
<1> /\ fails \in Nat /\ tuned \in Int /\ rf_frequency \in Int /\ error \in Int
  BY ErrorAssumption DEF LinkInv
<1> USE DEF OnTuneInv
<1>1. CASE Take
  BY <1>1 DEF Take, Execute, deviceVars, signalVars, initVars
<1>2. CASE FindP1
  <2>1. /\ UNCHANGED <<fails, tuned, error, reset, frequency_changed>>
        /\ pc # "idle" /\ early' = (early \/ (reset /\ p2_init' /\ ~p2_init))
    BY <1>2 DEF FindP1, P1Step, P1Tracked, P1Retuning, P1OffTune, P1Undecoded,
                P1FirstLock, P1Relock, P1Found, Hunting, deviceVars
  <2>2. PICK n \in 1..left, h \in 0..P1Head : P1Step(n, h, Measured)
    BY <1>2 DEF FindP1
  <2>3. frequency_changed => Measured = error - tuned
    BY <2>1 DEF TuneInv, Measured
  <2>4. CASE p2_init /\ UNCHANGED <<p2_init, change_frequency>>
    BY <2>1, <2>4
  <2>5. CASE ~p2_init' /\ UNCHANGED change_frequency
    BY <2>1, <2>5
  <2>6. CASE ~p2_init' /\ frequency_changed /\ Measured \notin Fine /\ change_frequency'
    BY <2>1, <2>3, <2>6
  <2>7. CASE /\ ~p2_init /\ frequency_changed /\ Measured \in Fine
             /\ p2_init' /\ UNCHANGED change_frequency
    BY <2>1, <2>3, <2>7
  <2> QED
    BY <2>2, <2>4, <2>5, <2>6, <2>7
       DEF P1Step, P1Tracked, P1Retuning, P1OffTune, P1Undecoded, P1FirstLock, P1Relock
<1>3. CASE Work
  <2>1. UNCHANGED <<fails, tuned, error, early, change_frequency, frequency_changed>>
    BY <1>3 DEF Work, deviceVars, linkVars, signalVars, Chunk, EndAcquire, Unlock,
                P1Missed, Symbol, SymbolPartial, DataSymbol, FcSymbol, P2Step, P2Frame,
                P2Configure, P2Search, P2Lost, SymbolComplete
  <2>2. p2_init' => p2_init /\ reset' = reset
    BY <1>3 DEF Work, initVars, signalVars, Chunk, EndAcquire, Unlock,
                P1Missed, Symbol, SymbolPartial, DataSymbol, FcSymbol, P2Step, P2Frame,
                P2Configure, P2Search, P2Lost, SymbolComplete
  <2> QED
    BY <2>1, <2>2
<1>5. ASSUME NEW f, SetFreq(f)
      PROVE  fails = 0 /\ tuned' = f /\ ~frequency_changed'
  BY <1>5 DEF SetFreq
<1>6. CASE Reset
  BY <1>6, <1>5 DEF Reset, DeviceReset, DeviceVarsUnchanged, initVars
<1>7. CASE Serve
  BY <1>7 DEF Serve, vars, initVars, signalVars
<1>8. CASE ServeSettled
  BY <1>8 DEF ServeSettled, DeviceSettled, DeviceVarsUnchanged, initVars
<1>9. CASE ServeTune
  BY <1>9, <1>5 DEF ServeTune, DeviceTune, Tune, DeviceVarsUnchanged, initVars
<1>10. CASE Busy
  BY <1>10 DEF Busy, vars, initVars, signalVars, linkVars
<1>11. CASE UNCHANGED rvars
  BY <1>11 DEF rvars, vars, initVars, signalVars, deviceVars, linkVars
<1> QED
  BY <1>1, <1>2, <1>3, <1>6, <1>7, <1>8, <1>9, <1>10, <1>11 DEF RNext, Callback

(* A receiver that is locked is on tune, unless it was locked too early.   *)
THEOREM LockedOnTuneHolds == RSpec => []LockedOnTune
<1>1. RInit => TuneInv /\ OnTuneInv
  BY DEF RInit, Init, TuneInv, OnTuneInv
<1>2. OnTuneInv => LockedOnTune
  BY DEF OnTuneInv, LockedOnTune
<1> QED
  BY <1>1, <1>2, LinkInit, LinkStep, TuneStep, OnTuneStep, PTL DEF RSpec

----------------------------------------------------------------------------
(* Types of what the composition adds.                                     *)

ReadInv == reading \in Signal /\ early \in BOOLEAN /\ late \in BOOLEAN

LEMMA ReadInit == RInit => ReadInv
<1> SUFFICES ASSUME RInit PROVE ReadInv
  OBVIOUS
<1>1. Block \in Lengths /\ 0 \in Tunings
  BY BlockSizes, BlockAssumption, ErrorAssumption DEF Lengths
<1> QED
  BY <1>1 DEF RInit, ReadInv, Signal

LEMMA ReadStep == LinkInv /\ ReadInv /\ [RNext]_rvars => ReadInv'
<1> SUFFICES ASSUME LinkInv, ReadInv, [RNext]_rvars PROVE ReadInv'
  OBVIOUS
<1>1. CASE Take
  <2>1. Head(queue) \in Signal
    BY <1>1 DEF Take, LinkInv
  <2> QED
    BY <1>1, <2>1 DEF Take, ReadInv
<1>2. CASE FindP1
  <2>1. early' \in BOOLEAN
    BY <1>2 DEF FindP1, ReadInv
  <2> QED
    BY <1>2, <2>1 DEF FindP1, ReadInv
<1>3. CASE Callback
  <2>1. late' \in BOOLEAN
    BY <1>3 DEF Callback, Reset, Serve, ServeSettled, ServeTune, Busy, HandOver, linkVars,
                ReadInv
  <2> QED
    BY <1>3, <2>1 DEF Callback, Reset, Serve, ServeSettled, ServeTune, Busy, HandOver,
                      linkVars, ReadInv
<1>4. CASE Work \/ UNCHANGED rvars
  BY <1>4 DEF Work, rvars, linkVars, ReadInv
<1> QED
  BY <1>1, <1>2, <1>3, <1>4 DEF RNext

(* Types, of the demodulator and of what the device shares with it.        *)
THEOREM ReceiverTypeCorrect == RSpec => []RTypeOK
<1>1. TypeOK /\ LinkInv /\ ReadInv => RTypeOK
  <2> SUFFICES ASSUME TypeOK, LinkInv, ReadInv PROVE RTypeOK
    OBVIOUS
  <2>1. len_buffer \in Nat
    BY BlockAssumption DEF LinkInv
  <2>2. Signal \subseteq [buf : {"a", "b"}, len : BufferLens, tuned : Tunings]
    BY DEF Signal, Lengths
  <2>3. queue \in Seq([buf : {"a", "b"}, len : BufferLens, tuned : Tunings])
    BY <2>2, SeqMonotonic DEF LinkInv
  <2> QED
    BY <2>1, <2>2, <2>3 DEF LinkInv, ReadInv, RTypeOK
<1> QED
  BY <1>1, Implements, TypeCorrect, LinkInit, LinkStep, ReadInit, ReadStep, PTL
     DEF RSpec, DemodulatorSpec

----------------------------------------------------------------------------
(* The pair is the AirSpy of Devices.                                      *)

(* The queue as Devices sees it.                                           *)
SeenAll(q) == [i \in 1..Len(q) |-> Seen(q[i])]

LEMMA SeenQueue ==
  ASSUME NEW q \in Seq(Signal)
  PROVE  /\ Len(SeenAll(q)) = Len(q)
         /\ SeenAll(q) = <<>> <=> q = <<>>
         /\ q # <<>> => /\ Head(SeenAll(q)) = Seen(Head(q))
                        /\ SeenAll(Tail(q)) = Tail(SeenAll(q))
         /\ \A x \in Signal : SeenAll(Append(q, x)) = Append(SeenAll(q), Seen(x))
<1> DEFINE S == {Seen(x) : x \in Signal}
<1>1. SeenAll(q) \in Seq(S) /\ Len(SeenAll(q)) = Len(q)
  BY DEF SeenAll
<1>2. SeenAll(q) = <<>> <=> q = <<>>
  BY <1>1
<1>3. ASSUME q # <<>> PROVE Head(SeenAll(q)) = Seen(Head(q))
  BY <1>1, <1>3 DEF SeenAll
<1>4. ASSUME q # <<>> PROVE SeenAll(Tail(q)) = Tail(SeenAll(q))
  <2>1. Tail(q) \in Seq(Signal) /\ Len(Tail(q)) = Len(q) - 1
    BY <1>4
  <2>2. Tail(SeenAll(q)) \in Seq(S) /\ Len(Tail(SeenAll(q))) = Len(q) - 1
    BY <1>1, <1>2, <1>4
  <2>3. SeenAll(Tail(q)) \in Seq(S) /\ Len(SeenAll(Tail(q))) = Len(q) - 1
    BY <2>1 DEF SeenAll
  <2>4. \A i \in 1..(Len(q) - 1) : SeenAll(Tail(q))[i] = Tail(SeenAll(q))[i]
    BY <1>1, <1>2, <1>4, <2>1 DEF SeenAll
  <2> QED
    BY <2>2, <2>3, <2>4, SeqEqual
<1>5. ASSUME NEW x \in Signal
      PROVE  SeenAll(Append(q, x)) = Append(SeenAll(q), Seen(x))
  <2>1. Append(q, x) \in Seq(Signal) /\ Len(Append(q, x)) = Len(q) + 1
    OBVIOUS
  <2>2. /\ Append(SeenAll(q), Seen(x)) \in Seq(S)
        /\ Len(Append(SeenAll(q), Seen(x))) = Len(q) + 1
    BY <1>1
  <2>3. SeenAll(Append(q, x)) \in Seq(S) /\ Len(SeenAll(Append(q, x))) = Len(q) + 1
    BY <2>1 DEF SeenAll
  <2>4. \A i \in 1..(Len(q) + 1) :
           SeenAll(Append(q, x))[i] = Append(SeenAll(q), Seen(x))[i]
    BY <1>1, <2>1 DEF SeenAll
  <2> QED
    BY <2>2, <2>3, <2>4, SeqEqual
<1> QED
  BY <1>1, <1>2, <1>3, <1>4, <1>5

LEMMA LinkTake == LinkInv /\ Take => Link!Take
<1> SUFFICES ASSUME LinkInv, Take PROVE Link!Take
  OBVIOUS
<1>1. queue \in Seq(Signal) /\ queue # <<>>
  BY DEF LinkInv, Take
<1>2. SeenAll(queue) # <<>> /\ Seen(reading') = Head(SeenAll(queue))
      /\ SeenAll(queue') = Tail(SeenAll(queue))
  BY <1>1, SeenQueue DEF Take
<1>3. pc = "idle" /\ pc' = "loop"
  BY DEF Take, Execute
<1>4. UNCHANGED <<change_frequency, coarse_freq_offset, frequency_changed, reset>>
  BY DEF Take, Execute, signalVars
<1>5. UNCHANGED <<out, len_buffer, blocks, rf_frequency, tuned, fails, error, late>>
  BY DEF Take, deviceVars
<1> QED
  BY <1>2, <1>3, <1>4, <1>5 DEF Link!Take, Link!signalVars, Link!fillVars,
     Link!tunerVars, Link!constVars, SeenAll

LEMMA LinkMeasure == LinkInv /\ FindP1 => Link!Measure
<1> SUFFICES ASSUME LinkInv, FindP1 PROVE Link!Measure
  OBVIOUS
<1>1. PICK n \in 1..left, h \in 0..P1Head : P1Step(n, h, Measured)
  BY DEF FindP1
<1>2. pc = "acquire" /\ pc' = "acquire" /\ coarse_freq_offset' = error - reading.tuned
      /\ UNCHANGED <<frequency_changed, reset>>
  BY <1>1 DEF P1Step, P1Tracked, P1Retuning, P1OffTune, P1Undecoded, P1FirstLock,
              P1Relock, P1Found, Hunting, Measured
<1>3. \/ UNCHANGED change_frequency
      \/ /\ frequency_changed /\ coarse_freq_offset' \notin Fine
         /\ change_frequency' = TRUE
  BY <1>1, <1>2 DEF P1Step, P1Tracked, P1Retuning, P1OffTune, P1Undecoded, P1FirstLock,
                    P1Relock, P1Found, Measured
<1>4. 0 \in Fine
  BY OffsetAssumption, ErrorAssumption
<1>5. UNCHANGED <<out, len_buffer, blocks, rf_frequency, tuned, fails, queue, reading,
                  error, late>>
  BY DEF FindP1, deviceVars
<1>6. Seen(reading).on = {reading.tuned}
  BY DEF Seen
<1> QED
  BY <1>2, <1>3, <1>4, <1>5, <1>6 DEF Link!Measure, Link!fillVars, Link!tunerVars,
     Link!constVars

LEMMA LinkWork == LinkInv /\ Work => Link!Release \/ Link!AskReset \/ UNCHANGED Link!vars
<1> SUFFICES ASSUME LinkInv, Work
             PROVE  Link!Release \/ Link!AskReset \/ UNCHANGED Link!vars
  OBVIOUS
<1>1. UNCHANGED <<out, len_buffer, blocks, rf_frequency, tuned, fails, queue, reading,
                  error, late>>
  BY DEF Work, deviceVars, linkVars
<1>2. UNCHANGED <<change_frequency, coarse_freq_offset, frequency_changed>>
  BY DEF Work, Chunk, EndAcquire, Unlock, P1Missed, Symbol, SymbolPartial, DataSymbol,
         FcSymbol, P2Step, P2Frame, P2Configure, P2Search, P2Lost, SymbolComplete,
         signalVars
<1>3. CASE Unlock
  <2>1. pc = "loop" /\ pc' = "idle" /\ UNCHANGED reset
    BY <1>3 DEF Unlock, signalVars
  <2> QED
    BY <1>1, <1>2, <2>1 DEF Link!Release, Link!signalVars, Link!fillVars,
       Link!tunerVars, Link!constVars
<1>4. CASE P2Lost
  <2>1. pc = "acquire" /\ pc' = "acquire" /\ reset' = TRUE
    BY <1>4 DEF P2Lost, SymbolComplete, Collecting, AskReset
  <2> QED
    BY <1>1, <1>2, <2>1 DEF Link!AskReset, Link!fillVars, Link!tunerVars,
       Link!constVars
<1>5. CASE ~(Unlock \/ P2Lost)
  <2>1. pc # "idle" /\ pc' # "idle" /\ UNCHANGED reset
    BY <1>5 DEF Work, Chunk, EndAcquire, P1Missed, Hunting, Symbol, SymbolPartial,
       DataSymbol, FcSymbol, P2Step, P2Frame, P2Configure, P2Search, SymbolComplete,
       Collecting, signalVars
  <2> QED
    BY <1>1, <1>2, <2>1 DEF Link!vars, Link!signalVars, Link!fillVars,
       Link!tunerVars, Link!constVars
<1> QED
  BY <1>3, <1>4, <1>5

LEMMA LinkElapsed == Elapsed /\ pc = "idle" /\ LinkInv => Link!Elapsed
<1> SUFFICES ASSUME Elapsed, pc = "idle", LinkInv, Timely PROVE Link!Elapsed
  BY DEF Link!Elapsed
<1>1. Len(SeenAll(queue)) = Len(queue)
  BY SeenQueue DEF LinkInv
<1>2. \A i \in 1..Len(queue) : SeenAll(queue)[i].on = {tuned}
  BY DEF Elapsed, SeenAll, Seen
<1> QED
  BY <1>1, <1>2 DEF Link!Elapsed, SeenAll

LEMMA LinkSetFreq ==
  ASSUME LinkInv, pc = "idle", frequency_changed' \in BOOLEAN, SetFreq(rf_frequency')
  PROVE  \E w \in Link!Waited : Link!SetFreq(rf_frequency', w)
<1>1. frequency_changed \in Link!Waited
  BY DEF Link!Waited
<1>2. CASE tuned' = rf_frequency' /\ frequency_changed' = FALSE /\ UNCHANGED fails
  <2>1. Link!SetFreq(rf_frequency', frequency_changed)
    BY <1>2 DEF Link!SetFreq
  <2> QED
    BY <1>1, <2>1
<1>3. CASE /\ fails < MaxFails /\ fails' = fails + 1 /\ UNCHANGED tuned
           /\ frequency_changed' = frequency_changed \/ (frequency_changed' = TRUE /\ Elapsed)
  <2>1. Link!SetFreq(rf_frequency', frequency_changed')
    BY <1>3 DEF Link!SetFreq
  <2>2. frequency_changed' \in Link!Waited
    BY <1>1, <1>3, LinkElapsed DEF Link!Waited
  <2> QED
    BY <2>1, <2>2
<1> QED
  BY <1>2, <1>3 DEF SetFreq

Samples == [n |-> Block, on |-> {tuned}]

LEMMA LinkSamples == Samples \in Link!Delivered /\ Link!FirstBlocks = 1
  BY DEF Samples, Link!Delivered, Link!FirstBlocks

LEMMA LinkReset == LinkInv /\ Reset => Link!Reset
<1> SUFFICES ASSUME LinkInv, Reset PROVE Link!Reset
  OBVIOUS
<1>1. /\ pc = "idle" /\ pc' = "idle" /\ Len(queue) < MaxQueue /\ reset /\ reset' = FALSE
      /\ coarse_freq_offset' = 0 /\ change_frequency' = FALSE
      /\ frequency_changed' \in BOOLEAN
  BY ErrorAssumption DEF Reset, Free, DeviceReset, DeviceVarsUnchanged, sampleVars
<1>2. /\ out' = "a" /\ len_buffer' = 0 /\ blocks' = 1 /\ rf_frequency' = 0
      /\ late' = (late \/ queue # <<>>) /\ UNCHANGED <<queue, reading, error>>
  BY DEF Reset
<1>3. Len(SeenAll(queue)) = Len(queue) /\ (SeenAll(queue) = <<>> <=> queue = <<>>)
  BY SeenQueue DEF LinkInv
<1>4. Link!Rewind(Samples)
  BY <1>2, LinkSamples DEF Link!Rewind, Link!ResetFill
<1>5. Link!Tune(0, 0)
  <2>1. \E w \in Link!Waited : Link!SetFreq(rf_frequency', w)
    BY <1>1, <1>2, LinkSetFreq DEF Reset
  <2>2. rf_frequency' = 0 + 0 /\ rf_frequency' \in Tunings
    BY <1>2, ErrorAssumption
  <2> QED
    BY <1>1, <2>1, <2>2 DEF Link!Tune
<1>6. Link!ResetTune
  BY <1>1, <1>5 DEF Link!ResetTune
<1>7. Link!Free
  BY <1>1, <1>3 DEF Link!Free, SeenAll
<1>8. late' = (late \/ SeenAll(queue) # <<>>)
  BY <1>2, <1>3
<1> QED
  BY <1>1, <1>2, <1>4, <1>6, <1>7, <1>8, LinkSamples DEF Link!Reset, Link!Nothing,
     Link!constVars, SeenAll

LEMMA LinkHandOver ==
  ASSUME LinkInv, HandOver, UNCHANGED reading
  PROVE  Link!HandOver(Samples)
<1>1. SeenAll(queue') = Append(SeenAll(queue), Seen(Handed))
      /\ (SeenAll(queue) = <<>> <=> queue = <<>>)
  BY SeenQueue, HandedSignal DEF LinkInv, HandOver
<1>2. Seen(Handed) = Link!Handed(Samples) /\ Link!Handed(Samples).on = {tuned}
  BY DEF Seen, Handed, Link!Handed, Samples
<1>3. ~Link!Mixed(Link!Handed(Samples).on)
  BY <1>2 DEF Link!Mixed
<1>4. out' = Link!NextBuffer /\ len_buffer' = 0 /\ blocks' = Link!FirstBlocks
  BY LinkSamples DEF HandOver, Other, Link!NextBuffer, Link!Other
<1>5. late' = (late \/ SeenAll(queue) # <<>>)
  BY <1>1 DEF HandOver
<1>6. FALSE' = (FALSE \/ (frequency_changed' /\ Link!Mixed(Link!Handed(Samples).on)))
  BY <1>3
<1>7. SeenAll(queue') = Append(SeenAll(queue), Link!Handed(Samples))
  BY <1>1, <1>2
<1>8. (IF len_buffer' = 0 THEN {} ELSE {tuned'}) = {}
  BY <1>4
<1>9. len_buffer' = 0 /\ (IF len_buffer = 0 THEN {} ELSE {tuned})' = {}
  BY <1>4, <1>8
<1> QED
  BY <1>4, <1>5, <1>6, <1>7, <1>9 DEF Link!HandOver, SeenAll

LEMMA LinkServe == LinkInv /\ (Serve \/ ServeSettled \/ ServeTune) => Link!Serve
<1> SUFFICES ASSUME LinkInv, Serve \/ ServeSettled \/ ServeTune PROVE Link!Serve
  OBVIOUS
<1>1. /\ pc = "idle" /\ pc' = "idle" /\ Len(queue) < MaxQueue /\ ~reset
      /\ UNCHANGED <<reset, coarse_freq_offset, reading, error>> /\ HandOver
  BY DEF Serve, ServeSettled, ServeTune, NoReset, Free, DeviceSettled, DeviceTune,
         DeviceVarsUnchanged, vars, sampleVars, signalVars
<1>2. Len(SeenAll(queue)) = Len(queue)
  BY SeenQueue DEF LinkInv
<1>3. Link!Free
  BY <1>1, <1>2 DEF Link!Free, SeenAll
<1>4. Link!HandOver(Samples)
  BY <1>1, LinkHandOver
<1>5. Link!SetRfFrequency
  <2>1. CASE Serve
    <3>1. UNCHANGED <<frequency_changed, change_frequency, rf_frequency, tuned, fails>>
          /\ ~change_frequency
      BY <2>1 DEF Serve, vars, signalVars
    <3> QED
      BY <3>1 DEF Link!SetRfFrequency, Link!Tell, Link!Waited
  <2>2. CASE ServeSettled
    <3>1. /\ UNCHANGED <<change_frequency, rf_frequency, tuned, fails>>
          /\ ~change_frequency /\ frequency_changed' = TRUE /\ Elapsed
      BY <2>2 DEF ServeSettled, DeviceSettled
    <3>2. Link!Elapsed
      BY <1>1, <3>1, LinkElapsed
    <3> QED
      BY <3>1, <3>2 DEF Link!SetRfFrequency, Link!Tell, Link!Waited
  <2>3. CASE ServeTune
    <3>1. /\ change_frequency /\ change_frequency' = FALSE
          /\ frequency_changed' \in BOOLEAN /\ SetFreq(rf_frequency')
          /\ rf_frequency' = rf_frequency + coarse_freq_offset /\ rf_frequency' \in Tunings
      BY <2>3 DEF ServeTune, DeviceTune, Tune
    <3>2. \E w \in Link!Waited : Link!SetFreq(rf_frequency', w)
      BY <1>1, <3>1, LinkSetFreq
    <3> QED
      BY <3>1, <3>2 DEF Link!SetRfFrequency, Link!Tune
  <2> QED
    BY <2>1, <2>2, <2>3
<1> QED
  BY <1>1, <1>3, <1>4, <1>5, LinkSamples DEF Link!Serve, Link!Nothing, Link!constVars

LEMMA LinkBusy == LinkInv /\ Busy => Link!Busy
<1> SUFFICES ASSUME LinkInv, Busy PROVE Link!Busy
  OBVIOUS
<1>1. /\ pc # "idle" /\ pc' = pc
      /\ UNCHANGED <<change_frequency, coarse_freq_offset, frequency_changed, reset>>
      /\ UNCHANGED <<out, rf_frequency, tuned, fails, queue, reading, error, late>>
  BY DEF Busy, vars, sampleVars, signalVars, linkVars
<1>2. len_buffer \in Nat /\ Block \in Nat \ {0}
  BY BlockAssumption DEF LinkInv
<1>3. Link!Keep(Samples) \/ Link!Drop(Samples)
  <2>1. CASE blocks + 1 > MaxBlocks
    <3>1. blocks' = 1 /\ len_buffer' = 0
      BY <2>1 DEF Busy, Keep
    <3> QED
      BY <2>1, <3>1, LinkSamples DEF Link!Drop, Link!Full
  <2>2. CASE ~(blocks + 1 > MaxBlocks)
    <3>1. blocks' = blocks + 1 /\ len_buffer' = len_buffer + Block /\ len_buffer' # 0
      BY <1>2, <2>2 DEF Busy, Keep
    <3> QED
      BY <1>1, <2>2, <3>1 DEF Link!Keep, Link!Full, Samples
  <2> QED
    BY <2>1, <2>2
<1> QED
  BY <1>1, <1>3, LinkSamples DEF Link!Busy, Link!Nothing, Link!signalVars, Link!constVars

(* The AirSpy with the whole demodulator implements the AirSpy of Devices: *)
(* what is proved there of every device holds with the demodulator that is *)
(* really behind it.                                                       *)
THEOREM ImplementsDevices == RSpec => DevicesSpec
<1>1. RInit => Link!Init
  <2> SUFFICES ASSUME RInit PROVE Link!Init
    OBVIOUS
  <2>1. Seen(reading) = [buf |-> "b", len |-> Block, held |-> Block, on |-> {0}]
    BY DEF RInit, Seen
  <2>2. SeenAll(queue) = <<>>
    BY SeenQueue, LinkInit DEF RInit, LinkInv
  <2> QED
    BY <2>1, <2>2, ErrorAssumption DEF RInit, Init, Link!Init, Link!FirstBlocks,
       Link!Nothing, SeenAll
<1>2. LinkInv /\ [RNext]_rvars => [Link!Next]_Link!vars
  <2> SUFFICES ASSUME LinkInv, [RNext]_rvars PROVE Link!Next \/ UNCHANGED Link!vars
    OBVIOUS
  <2>1. CASE UNCHANGED rvars
    BY <2>1 DEF rvars, vars, sampleVars, signalVars, deviceVars, linkVars, Link!vars,
       Link!signalVars, Link!fillVars, Link!tunerVars, Link!constVars
  <2> QED
    BY <2>1, LinkTake, LinkMeasure, LinkWork, LinkReset, LinkServe, LinkBusy
       DEF RNext, Callback, Link!Next, Link!Demodulator, Link!Callback
<1> QED
  BY <1>1, <1>2, LinkInit, LinkStep, PTL DEF RSpec, DevicesSpec, Link!Spec
=============================================================================
