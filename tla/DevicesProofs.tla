--------------------------- MODULE DevicesProofs ---------------------------
(* Proofs about Devices, for any devices, sizes of blocks and buffers,     *)
(* errors, tunings and lengths of the queue.                               *)
EXTENDS Devices, TLAPS

----------------------------------------------------------------------------
(* Types, and the room in the buffers.                                     *)

(* What only one of the devices has.                                       *)
OwnParts ==
  /\ device # "hackrf" => update = "idle" /\ holder # "device"
  /\ device # "sdrplay" => ~answer /\ ~rf_told /\ read = Nothing

(***************************************************************************)
(* Why the next block fits: the number of blocks bounds what has been      *)
(* filled, and on the SDRplay the length does, true or too large.          *)
(***************************************************************************)
RoomInv ==
  /\ filled <= len_buffer
  /\ device # "sdrplay" => filled <= (blocks - 1) * Block
  /\ device = "sdrplay" => /\ filled + blocks * Block <= Room
                           /\ read # Nothing => read.n = blocks * Block

BaseInv == TypeOK /\ OwnParts /\ RoomInv

LEMMA RoomFacts ==
  /\ Room \in Nat /\ Block \in Nat /\ Block > 0
  /\ \A k \in 1..MaxBlocks : /\ k * Block \in Nat /\ k * Block <= Room
                             /\ (k - 1) * Block + Block = k * Block
                             /\ Block * (k + 1) = (k + 1) * Block
<1>1. Room \in Nat /\ Block \in Nat /\ Block > 0 /\ MaxBlocks \in Nat
  BY DevicesAssumption DEF Room
<1>2. ASSUME NEW k \in 1..MaxBlocks PROVE k * Block \in Nat /\ k * Block <= Room
  BY <1>1, <1>2 DEF Room
<1>3. ASSUME NEW k \in 1..MaxBlocks
      PROVE (k - 1) * Block + Block = k * Block /\ Block * (k + 1) = (k + 1) * Block
  BY <1>1, <1>3
<1> QED
  BY <1>1, <1>2, <1>3

LEMMA FirstFits == FirstBlocks \in 1..MaxBlocks /\ FirstBlocks * Block <= Room
  BY DevicesAssumption, RoomFacts DEF FirstBlocks

LEMMA BaseInit == Init => BaseInv
<1> SUFFICES ASSUME Init PROVE BaseInv
  OBVIOUS
<1>1. /\ {0} \subseteq Tunings /\ Nothing \in [n : 0..Room, on : SUBSET Tunings]
      /\ Block \in 0..Room /\ 1 \in 1..MaxBlocks
  BY DevicesAssumption, RoomFacts DEF Nothing
<1>2. reading \in Signal /\ queue \in Seq(Signal)
  BY <1>1, RoomFacts DEF Init, Signal
<1>3. /\ len_buffer \in Nat /\ filled \in 0..Room /\ fails \in 0..MaxFails
      /\ coarse_freq_offset \in Int
  BY <1>1, RoomFacts, DevicesAssumption DEF Init
<1>4. answer \in BOOLEAN
  BY DEF Init
<1>5. TypeOK
  BY <1>1, <1>2, <1>3, <1>4, FirstFits DEF Init, TypeOK
<1>6. OwnParts
  BY DEF Init, OwnParts
<1>7. RoomInv
  BY <1>1, FirstFits, RoomFacts DEF Init, RoomInv, FirstBlocks
<1> QED
  BY <1>5, <1>6, <1>7 DEF BaseInv

(* The samples that come in have room.                                     *)
LEMMA DeliveredFits ==
  ASSUME BaseInv, NEW s \in Delivered
  PROVE  /\ s.n \in Nat /\ s.on \in SUBSET Tunings
         /\ filled + s.n \in 0..Room
         /\ device # "sdrplay" => s.n <= Block
         /\ device = "sdrplay" => read # Nothing /\ s = read /\ s.n = blocks * Block
<1> USE DEF BaseInv
<1>1. device \in {"airspy", "hackrf", "sdrplay", "usrp", "pluto"}
  BY DevicesAssumption DEF TypeOK
<1>2. blocks \in 1..MaxBlocks /\ filled \in Nat /\ {tuned} \in SUBSET Tunings
  BY DEF TypeOK
<1>3. CASE device = "sdrplay"
  <2>1. s = read /\ read # Nothing
    BY <1>3 DEF Delivered
  <2>2. s.n = blocks * Block /\ s.n \in Nat /\ s.on \in SUBSET Tunings
    BY <1>3, <2>1 DEF TypeOK, RoomInv
  <2>3. filled + blocks * Block <= Room
    BY <1>3 DEF RoomInv
  <2> QED
    BY <1>2, <1>3, <2>1, <2>2, <2>3, RoomFacts
<1>4. CASE device # "sdrplay"
  <2>1. s.n \in 0..Block /\ s.on \in SUBSET Tunings
    BY <1>1, <1>2, <1>4, RoomFacts DEF Delivered, Nothing
  <2>2. filled <= (blocks - 1) * Block
    BY <1>4 DEF RoomInv
  <2>3. (blocks - 1) * Block + Block <= Room /\ (blocks - 1) * Block \in Int
    BY <1>2, RoomFacts
  <2>4. filled + s.n <= Room
    BY <1>2, <2>1, <2>2, <2>3, RoomFacts
  <2> QED
    BY <1>2, <1>4, <2>1, <2>4, RoomFacts
<1> QED
  BY <1>3, <1>4

(* What a call to the tuner comes to.                                      *)
Answered ==
  /\ frequency_changed' = FALSE /\ asked' = rf_frequency'
  /\ tuned' = IF device = "sdrplay" THEN tuned ELSE rf_frequency'
  /\ answer' = (device = "sdrplay")
  /\ fails' = fails

Refused ==
  /\ fails < MaxFails /\ fails' = fails + 1
  /\ frequency_changed' \in BOOLEAN
  /\ asked' = asked /\ tuned' = tuned /\ answer' = answer

LEMMA SetFreqEffect ==
  ASSUME NEW w, SetFreq(rf_frequency', w) PROVE Answered \/ Refused
  BY DEF SetFreq, Answered, Refused

LEMMA TuneEffect ==
  ASSUME NEW f, NEW offset, Tune(f, offset)
  PROVE  /\ change_frequency' = FALSE /\ rf_told' = FALSE
         /\ rf_frequency' = f + offset /\ rf_frequency' \in Tunings
         /\ Answered \/ Refused
<1>1. PICK w \in Waited : SetFreq(rf_frequency', w)
  BY DEF Tune
<1> QED
  BY <1>1, SetFreqEffect DEF Tune

LEMMA TunerTypes ==
  ASSUME TypeOK, rf_frequency' \in Tunings, Answered \/ Refused
  PROVE  /\ frequency_changed' \in BOOLEAN /\ asked' \in Tunings /\ tuned' \in Tunings
         /\ answer' \in BOOLEAN /\ fails' \in 0..MaxFails
         /\ device # "sdrplay" /\ ~answer => ~answer'
<1>1. CASE Answered
  <2>1. answer' \in BOOLEAN /\ (device # "sdrplay" => ~answer')
    BY <1>1 DEF Answered
  <2>2. frequency_changed' \in BOOLEAN /\ asked' \in Tunings /\ tuned' \in Tunings
    BY <1>1 DEF Answered, TypeOK
  <2>3. fails' \in 0..MaxFails
    BY <1>1 DEF Answered, TypeOK
  <2> QED
    BY <2>1, <2>2, <2>3
<1>2. CASE Refused
  <2>1. fails' \in 0..MaxFails
    BY <1>2, DevicesAssumption DEF Refused, TypeOK
  <2> QED
    BY <1>2, <2>1 DEF Refused, TypeOK
<1> QED
  BY <1>1, <1>2

LEMMA WaitedType == TypeOK => Waited \subseteq BOOLEAN
  BY DEF TypeOK, Waited

LEMMA EmptyRoom ==
  ASSUME BaseInv, filled' = 0, len_buffer' \in Nat, blocks' = FirstBlocks,
         read' = Nothing, device' = device
  PROVE  RoomInv' /\ blocks' \in 1..MaxBlocks /\ filled' \in 0..Room
<1>1. blocks' \in 1..MaxBlocks /\ blocks' * Block <= Room /\ blocks' * Block \in Nat
  BY FirstFits, RoomFacts
<1>2. 0 <= (blocks' - 1) * Block
  BY <1>1, RoomFacts
<1>3. filled' + blocks' * Block <= Room /\ filled' \in 0..Room
  BY <1>1, RoomFacts
<1>4. filled' <= len_buffer'
  OBVIOUS
<1> QED
  BY <1>1, <1>2, <1>3, <1>4 DEF RoomInv

LEMMA HandOverTypes ==
  ASSUME BaseInv, NEW s \in Delivered, HandOver(s), read' = Nothing, device' = device
  PROVE  /\ queue' \in Seq(Signal) /\ out' \in {"a", "b"}
         /\ len_buffer' \in Nat /\ blocks' \in 1..MaxBlocks /\ filled' \in 0..Room
         /\ taken' \subseteq Tunings /\ late' \in BOOLEAN /\ mixed' \in BOOLEAN
         /\ RoomInv'
<1>1. Handed(s) \in Signal
  BY DeliveredFits DEF BaseInv, TypeOK, Handed, Signal
<1>2. queue' \in Seq(Signal)
  BY <1>1 DEF BaseInv, TypeOK, HandOver
<1>3. out' \in {"a", "b"} /\ len_buffer' \in Nat /\ taken' \subseteq Tunings
  BY DEF HandOver, NextBuffer, Other
<1>4. late' \in BOOLEAN /\ mixed' \in BOOLEAN
  BY DEF BaseInv, TypeOK, HandOver
<1>5. filled' = 0 /\ blocks' = FirstBlocks
  BY DEF HandOver
<1> QED
  BY <1>2, <1>3, <1>4, <1>5, EmptyRoom

LEMMA KeepTypes ==
  ASSUME BaseInv, NEW s \in Delivered, Keep(s) \/ Drop(s), read' = Nothing,
         device' = device
  PROVE  /\ len_buffer' \in Nat /\ blocks' \in 1..MaxBlocks /\ filled' \in 0..Room
         /\ taken' \subseteq Tunings /\ RoomInv'
<1> USE DEF BaseInv
<1>1. CASE Drop(s)
  BY <1>1, EmptyRoom DEF Drop
<1>2. CASE Keep(s)
  <2>1. /\ len_buffer' \in Nat /\ filled' \in 0..Room /\ taken' \subseteq Tunings
        /\ filled' <= len_buffer' /\ s.n \in Nat
    BY <1>2, DeliveredFits, RoomFacts DEF Keep, TypeOK, RoomInv
  <2>2. blocks' = blocks + 1 /\ blocks \in 1..MaxBlocks /\ MaxBlocks \in Nat
    BY <1>2, DevicesAssumption DEF Keep, TypeOK
  <2>3. CASE device # "sdrplay"
    <3>1. blocks' \in 1..MaxBlocks
      BY <1>2, <2>2, <2>3 DEF Keep, Full
    <3>2. filled' <= blocks * Block
      <4>1. filled <= (blocks - 1) * Block /\ s.n <= Block /\ filled' = filled + s.n
        BY <1>2, <2>3, DeliveredFits DEF Keep, RoomInv
      <4>2. (blocks - 1) * Block + Block = blocks * Block /\ (blocks - 1) * Block \in Int
        BY <2>2, RoomFacts
      <4> QED
        BY <2>1, <4>1, <4>2, RoomFacts DEF TypeOK
    <3>3. blocks' - 1 = blocks
      BY <2>2
    <3> QED
      BY <2>1, <2>3, <3>1, <3>2, <3>3 DEF RoomInv
  <2>4. CASE device = "sdrplay"
    <3>1. ~(Block * (blocks + 1) > Room - len_buffer')
      BY <1>2, <2>4 DEF Keep, Full
    <3>2. Block * (blocks + 1) = blocks' * Block /\ blocks' * Block \in Nat
      BY <2>2, RoomFacts
    <3>3. filled' + blocks' * Block <= Room
      BY <2>1, <3>1, <3>2, RoomFacts
    <3>4. blocks' \in 1..MaxBlocks
      <4> SUFFICES ASSUME blocks' = MaxBlocks + 1 PROVE FALSE
        BY <2>2
      <4>1. blocks' * Block = Room + Block
        BY RoomFacts, DevicesAssumption DEF Room
      <4> QED
        BY <2>1, <3>3, <4>1, RoomFacts
    <3> QED
      BY <2>1, <2>4, <3>3, <3>4 DEF RoomInv
  <2> QED
    BY <2>3, <2>4
<1> QED
  BY <1>1, <1>2

LEMMA BaseStep == BaseInv /\ [Next]_vars => BaseInv'
<1> SUFFICES ASSUME BaseInv, [Next]_vars PROVE BaseInv'
  OBVIOUS
<1> TypeOK /\ OwnParts /\ RoomInv
  BY DEF BaseInv
<1>1. CASE Take
  <2>1. Head(queue) \in Signal /\ Tail(queue) \in Seq(Signal)
    BY <1>1 DEF Take, TypeOK
  <2>2. TypeOK' /\ OwnParts'
    BY <1>1, <2>1 DEF Take, TypeOK, OwnParts, signalVars, fillVars, tunerVars, constVars
  <2> QED
    BY <1>1, <2>2 DEF Take, BaseInv, RoomInv, fillVars, tunerVars, constVars
<1>2. CASE Measure
  <2>1. coarse_freq_offset' \in Int
    BY <1>2, DevicesAssumption DEF Measure, TypeOK, Signal
  <2>2. change_frequency' \in BOOLEAN /\ raced' \in BOOLEAN
    BY <1>2 DEF Measure, TypeOK
  <2>3. TypeOK' /\ OwnParts'
    BY <1>2, <2>1, <2>2 DEF Measure, TypeOK, OwnParts, fillVars, tunerVars, constVars
  <2> QED
    BY <1>2, <2>3 DEF Measure, BaseInv, RoomInv, fillVars, tunerVars, constVars
<1>3. CASE AskReset
  <2>1. TypeOK' /\ OwnParts'
    BY <1>3 DEF AskReset, TypeOK, OwnParts, fillVars, tunerVars, constVars
  <2> QED
    BY <1>3, <2>1 DEF AskReset, BaseInv, RoomInv, fillVars, tunerVars, constVars
<1>4. CASE Release
  <2>1. TypeOK' /\ OwnParts'
    BY <1>4 DEF Release, TypeOK, OwnParts, signalVars, fillVars, tunerVars, constVars
  <2> QED
    BY <1>4, <2>1 DEF Release, BaseInv, RoomInv, fillVars, tunerVars, constVars
<1>5. CASE ReadPacket
  <2>1. /\ device = "sdrplay" /\ tuned' \in Tunings
        /\ read' \in [n : {blocks * Block}, on : SUBSET Tunings]
        /\ answer' \in BOOLEAN /\ rf_told' \in BOOLEAN
    <3>1. {tuned} \subseteq Tunings /\ {asked} \subseteq Tunings
          /\ {tuned, asked} \subseteq Tunings
      BY DEF TypeOK
    <3>2. CASE read' = [n |-> blocks * Block, on |-> {tuned}]
               /\ UNCHANGED <<tuned, answer, rf_told>>
      BY <1>5, <3>1, <3>2 DEF ReadPacket, TypeOK
    <3>3. CASE Report /\ \E first \in 1..blocks :
                 read' = [n |-> blocks * Block,
                          on |-> IF first = 1 THEN {asked} ELSE {tuned, asked}]
      <4>1. \/ read' = [n |-> blocks * Block, on |-> {asked}]
            \/ read' = [n |-> blocks * Block, on |-> {tuned, asked}]
        BY <3>3
      <4>2. read' \in [n : {blocks * Block}, on : SUBSET Tunings]
        BY <3>1, <4>1
      <4> QED
        BY <1>5, <3>3, <4>2 DEF ReadPacket, Report, TypeOK
    <3> QED
      BY <1>5, <3>2, <3>3 DEF ReadPacket
  <2>2. blocks * Block \in 0..Room
    BY RoomFacts DEF TypeOK
  <2>3. read' \in [n : 0..Room, on : SUBSET Tunings]
    BY <2>1, <2>2
  <2>4. TypeOK'
    BY <1>5, <2>1, <2>3 DEF ReadPacket, TypeOK, signalVars, fillVars, constVars
  <2>5. OwnParts' /\ RoomInv'
    BY <1>5, <2>1 DEF ReadPacket, OwnParts, RoomInv, fillVars, constVars
  <2> QED
    BY <2>4, <2>5 DEF BaseInv
<1>6. CASE Reset
  <2>1. PICK s \in Delivered : Rewind(s)
    BY <1>6 DEF Reset
  <2>2. /\ filled' = 0 /\ blocks' = FirstBlocks /\ read' = Nothing /\ device' = device
        /\ out' = "a" /\ taken' = {} /\ len_buffer' \in Nat /\ carried' \in BOOLEAN
    BY <1>6, <2>1, DeliveredFits DEF Reset, Rewind, ResetFill, constVars, TypeOK
  <2>3. /\ change_frequency' \in BOOLEAN /\ frequency_changed' \in BOOLEAN
        /\ rf_frequency' \in Tunings /\ tuned' \in Tunings /\ asked' \in Tunings
        /\ rf_told' \in BOOLEAN /\ answer' \in BOOLEAN /\ fails' \in 0..MaxFails
        /\ holder' \in {"none", "demodulator", "device"}
        /\ device # "sdrplay" => ~answer' /\ ~rf_told'
        /\ device # "hackrf" => holder' # "device"
    <3>1. CASE Tune(0, 0) /\ UNCHANGED holder
      BY <3>1, TuneEffect, TunerTypes DEF TypeOK, OwnParts
    <3>2. CASE /\ device \in {"usrp", "hackrf"}
               /\ change_frequency' = TRUE /\ rf_frequency' = 0
               /\ holder' = IF device = "hackrf" THEN "device" ELSE holder
               /\ UNCHANGED <<frequency_changed, tuned, asked, rf_told, answer, fails>>
      <4>1. rf_frequency' \in Tunings
        BY <3>2, DevicesAssumption
      <4>2. /\ holder' \in {"none", "demodulator", "device"}
            /\ device # "hackrf" => holder' # "device"
        BY <3>2 DEF TypeOK, OwnParts
      <4>3. device # "sdrplay" => ~answer' /\ ~rf_told'
        BY <3>2 DEF OwnParts
      <4> QED
        BY <3>2, <4>1, <4>2, <4>3 DEF TypeOK
    <3> QED
      BY <1>6, <3>1, <3>2 DEF Reset, ResetTune
  <2>4. Nothing \in [n : 0..Room, on : SUBSET Tunings]
    BY RoomFacts DEF Nothing
  <2>5. RoomInv' /\ blocks' \in 1..MaxBlocks /\ filled' \in 0..Room
    BY <2>2, EmptyRoom
  <2>6. TypeOK'
    <3>1. reset' \in BOOLEAN /\ coarse_freq_offset' \in Int
      <4>1. reset' \in BOOLEAN
        BY <1>6, Zenon DEF Reset
      <4>2. coarse_freq_offset' \in Int
        BY <1>6 DEF Reset
      <4> QED
        BY <4>1, <4>2
    <3>2. {late', raced', mixed', carried'} \subseteq BOOLEAN
      <4>1. late' \in BOOLEAN
        BY <1>6 DEF Reset, TypeOK
      <4> QED
        BY <1>6, <2>2, <4>1 DEF Reset, TypeOK
    <3>3. /\ queue' \in Seq(Signal) /\ reading' \in Signal /\ device' \in Devices
          /\ error' \in Errors /\ update' \in {"idle", "wait", "serve", "clear", "tune"}
      BY <1>6 DEF Reset, TypeOK, constVars
    <3>4. out' \in {"a", "b"} /\ taken' \subseteq Tunings
      BY <2>2
    <3>5. read' \in [n : 0..Room, on : SUBSET Tunings]
      BY <2>2, <2>4
    <3> QED
      BY <2>2, <2>3, <2>5, <3>1, <3>2, <3>3, <3>4, <3>5 DEF TypeOK
  <2>7. OwnParts'
    BY <1>6, <2>2, <2>3 DEF Reset, OwnParts, constVars
  <2> QED
    BY <2>5, <2>6, <2>7 DEF BaseInv
<1>7. CASE ResetEnd
  <2>1. TypeOK' /\ OwnParts'
    BY <1>7 DEF ResetEnd, TypeOK, OwnParts, signalVars, fillVars, tunerVars, constVars
  <2> QED
    BY <1>7, <2>1 DEF ResetEnd, BaseInv, RoomInv, fillVars, tunerVars, constVars
<1>8. CASE Serve
  <2>1. PICK s \in Delivered : HandOver(s)
    BY <1>8 DEF Serve
  <2>2. read' = Nothing /\ device' = device
    BY <1>8 DEF Serve, constVars
  <2>3. /\ change_frequency' \in BOOLEAN /\ frequency_changed' \in BOOLEAN
        /\ rf_frequency' \in Tunings /\ tuned' \in Tunings /\ asked' \in Tunings
        /\ rf_told' \in BOOLEAN /\ answer' \in BOOLEAN /\ fails' \in 0..MaxFails
        /\ device # "sdrplay" => ~answer' /\ ~rf_told'
        /\ update' \in {"idle", "wait", "serve", "clear", "tune"}
        /\ device # "hackrf" => update' = update
    <3>1. CASE device = "hackrf" /\ StartUpdate
      BY <3>1 DEF StartUpdate, TypeOK, OwnParts
    <3>2. CASE device # "hackrf" /\ Tell /\ UNCHANGED update
      BY <3>2, WaitedType DEF Tell, TypeOK, OwnParts
    <3>3. CASE /\ device # "hackrf" /\ Tune(rf_frequency, coarse_freq_offset)
               /\ UNCHANGED update
      BY <3>3, TuneEffect, TunerTypes DEF TypeOK, OwnParts
    <3> QED
      BY <1>8, <3>1, <3>2, <3>3 DEF Serve, SetRfFrequency
  <2>4. Nothing \in [n : 0..Room, on : SUBSET Tunings]
    BY RoomFacts DEF Nothing
  <2>5. TypeOK'
    BY <1>8, <2>1, <2>2, <2>3, <2>4, HandOverTypes DEF Serve, TypeOK, constVars, BaseInv
  <2>6. OwnParts'
    BY <1>8, <2>2, <2>3 DEF Serve, OwnParts
  <2> QED
    BY <2>1, <2>2, <2>5, <2>6, HandOverTypes DEF BaseInv
<1>9. CASE Busy
  <2>1. PICK s \in Delivered : Keep(s) \/ Drop(s)
    BY <1>9 DEF Busy
  <2>2. read' = Nothing /\ device' = device
    BY <1>9 DEF Busy, constVars
  <2>3. Nothing \in [n : 0..Room, on : SUBSET Tunings]
    BY RoomFacts DEF Nothing
  <2>4. TypeOK'
    BY <1>9, <2>1, <2>2, <2>3, KeepTypes DEF Busy, TypeOK, signalVars, constVars
  <2>5. OwnParts'
    BY <1>9, <2>2 DEF Busy, OwnParts
  <2> QED
    BY <2>1, <2>2, <2>4, <2>5, KeepTypes DEF BaseInv
<1>10. CASE UpdateWait
  <2>1. frequency_changed' \in BOOLEAN
    BY <1>10, WaitedType DEF UpdateWait, Tell
  <2>2. TypeOK' /\ OwnParts'
    BY <1>10, <2>1 DEF UpdateWait, Tell, TypeOK, OwnParts, fillVars, constVars
  <2> QED
    BY <1>10, <2>2 DEF UpdateWait, BaseInv, RoomInv, fillVars, constVars
<1>11. CASE UpdateServe
  <2>1. TypeOK' /\ OwnParts'
    BY <1>11 DEF UpdateServe, ClearRequest, updateRest, TypeOK, OwnParts, fillVars,
                 constVars
  <2> QED
    BY <1>11, <2>1 DEF UpdateServe, updateRest, BaseInv, RoomInv, fillVars, constVars
<1>12. CASE UpdateClear
  <2>1. TypeOK' /\ OwnParts'
    BY <1>12 DEF UpdateClear, updateRest, TypeOK, OwnParts, fillVars, constVars
  <2> QED
    BY <1>12, <2>1 DEF UpdateClear, updateRest, BaseInv, RoomInv, fillVars, constVars
<1>13. CASE UpdateTune
  <2>1. rf_frequency' \in Tunings /\ (Answered \/ Refused)
    BY <1>13, SetFreqEffect DEF UpdateTune
  <2>2. /\ frequency_changed' \in BOOLEAN /\ asked' \in Tunings /\ tuned' \in Tunings
        /\ answer' \in BOOLEAN /\ fails' \in 0..MaxFails
        /\ device # "sdrplay" /\ ~answer => ~answer'
    BY <2>1, TunerTypes
  <2>3. TypeOK' /\ OwnParts'
    BY <1>13, <2>1, <2>2 DEF UpdateTune, TypeOK, OwnParts, fillVars, constVars
  <2> QED
    BY <1>13, <2>3 DEF UpdateTune, BaseInv, RoomInv, fillVars, constVars
<1>14. CASE UNCHANGED vars
  BY <1>14 DEF vars, signalVars, fillVars, tunerVars, constVars, BaseInv, TypeOK,
               OwnParts, RoomInv
<1> QED
  BY <1>1, <1>2, <1>3, <1>4, <1>5, <1>6, <1>7, <1>8, <1>9, <1>10, <1>11, <1>12, <1>13,
     <1>14 DEF Next, Demodulator, Callback, Update

(* Types, and with them that every length and buffer is what it should be. *)
THEOREM TypeCorrect == Spec => []TypeOK
  BY BaseInit, BaseStep, PTL DEF Spec, BaseInv

(* No block is ever written beyond the end of a buffer.                    *)
THEOREM NextBlockFitsHolds == Spec => []NextBlockFits
<1>1. BaseInv => NextBlockFits
  <2> SUFFICES ASSUME BaseInv PROVE NextBlockFits
    OBVIOUS
  <2>1. CASE device = "sdrplay"
    BY <2>1 DEF BaseInv, RoomInv, NextBlockFits
  <2>2. CASE device # "sdrplay"
    <3>1. /\ filled <= (blocks - 1) * Block /\ (blocks - 1) * Block \in Int
          /\ (blocks - 1) * Block + Block <= Room /\ filled \in Int
      BY <2>2, RoomFacts DEF BaseInv, RoomInv, TypeOK
    <3> QED
      BY <2>2, <3>1, RoomFacts DEF NextBlockFits
  <2> QED
    BY <2>1, <2>2
<1> QED
  BY <1>1, BaseInit, BaseStep, PTL DEF Spec

----------------------------------------------------------------------------
(* The lengths and the buffers.                                            *)

(* The steps that touch neither the buffers nor the signals.               *)
LEMMA QuietSteps ==
  ASSUME BaseInv,
         \/ Measure \/ AskReset \/ Release \/ ReadPacket \/ ResetEnd
         \/ UpdateWait \/ UpdateServe \/ UpdateClear \/ UpdateTune \/ UNCHANGED vars
  PROVE  /\ UNCHANGED <<queue, reading, out, len_buffer, filled, taken, late, carried,
                        mixed>>
         /\ holder' = "demodulator" => holder = "demodulator"
BY DEF Measure, AskReset, Release, ReadPacket, ResetEnd, UpdateWait, UpdateServe,
       UpdateClear, UpdateTune, updateRest, vars, fillVars

LEMMA LengthStep == BaseInv /\ LengthTrue /\ [Next]_vars => LengthTrue'
<1> SUFFICES ASSUME BaseInv, LengthTrue, [Next]_vars, ~carried' PROVE
      /\ len_buffer' = filled'
      /\ reading'.len = reading'.held
      /\ \A i \in 1..Len(queue') : queue'[i].len = queue'[i].held
  BY DEF LengthTrue
<1>q. queue \in Seq(Signal) /\ len_buffer \in Nat /\ filled \in Nat
  BY RoomFacts DEF BaseInv, TypeOK
<1>1. CASE Take
  <2>1. ~carried /\ len_buffer' = len_buffer /\ filled' = filled
    BY <1>1 DEF Take, fillVars
  <2>2. /\ queue # <<>> /\ reading' = queue[1] /\ queue' = Tail(queue)
        /\ Len(queue') = Len(queue) - 1
        /\ \A i \in 1..Len(queue') : queue'[i] = queue[i + 1]
    BY <1>1, <1>q DEF Take
  <2> QED
    BY <1>q, <2>1, <2>2 DEF LengthTrue
<1>2. CASE Reset
  <2>1. PICK s \in Delivered : Rewind(s)
    BY <1>2 DEF Reset
  <2>2. len_buffer' = 0 /\ filled' = 0 /\ ~carried
    BY <2>1, DeliveredFits, <1>q DEF Rewind, ResetFill
  <2>3. queue' = queue /\ reading' = reading
    BY <1>2 DEF Reset
  <2> QED
    BY <2>2, <2>3 DEF LengthTrue
<1>3. CASE Serve
  <2>1. PICK s \in Delivered : HandOver(s)
    BY <1>3 DEF Serve
  <2>2. reading' = reading /\ ~carried
    BY <1>3 DEF Serve
  <2>3. Handed(s).len = Handed(s).held
    BY <2>2, DeliveredFits DEF Handed, LengthTrue
  <2>4. queue' = Append(queue, Handed(s)) /\ len_buffer' = 0 /\ filled' = 0
    BY <2>1 DEF HandOver
  <2>5. \A i \in 1..Len(queue') : queue'[i] = IF i <= Len(queue) THEN queue[i]
                                                               ELSE Handed(s)
    <3>1. Handed(s) \in Signal
      BY DeliveredFits, <1>q DEF BaseInv, TypeOK, Handed, Signal
    <3> QED
      BY <1>q, <2>4, <3>1
  <2> QED
    BY <1>q, <2>2, <2>3, <2>4, <2>5 DEF LengthTrue
<1>4. CASE Busy
  <2>1. PICK s \in Delivered : Keep(s) \/ Drop(s)
    BY <1>4 DEF Busy
  <2>2. reading' = reading /\ queue' = queue /\ ~carried
    BY <1>4 DEF Busy
  <2>3. len_buffer' = filled'
    BY <2>1, <2>2 DEF Keep, Drop, LengthTrue
  <2> QED
    BY <2>2, <2>3 DEF LengthTrue
<1> QED
  BY QuietSteps, <1>1, <1>2, <1>3, <1>4 DEF Next, Demodulator, Callback, Update, LengthTrue

(* The length handed over is the number of samples written, until the      *)
(* SDRplay is reset with samples in its buffer.                            *)
THEOREM LengthTrueHolds == Spec => []LengthTrue
<1>1. Init => LengthTrue
  BY DEF Init, LengthTrue
<1> QED
  BY <1>1, LengthStep, BaseInit, BaseStep, PTL DEF Spec

LEMMA ApartStep == BaseInv /\ BuffersApart /\ [Next]_vars => BuffersApart'
<1> SUFFICES ASSUME BaseInv, BuffersApart, [Next]_vars, ~late' PROVE
      /\ holder' = "demodulator" => reading'.buf # out'
      /\ \A i \in 1..Len(queue') : queue'[i].buf # out'
  BY DEF BuffersApart
<1>q. queue \in Seq(Signal) /\ out \in {"a", "b"}
  BY DEF BaseInv, TypeOK
<1>1. CASE Take
  <2>1. ~late /\ out' = out
    BY <1>1 DEF Take, fillVars
  <2>2. /\ queue # <<>> /\ reading' = queue[1] /\ queue' = Tail(queue)
        /\ Len(queue') = Len(queue) - 1
        /\ \A i \in 1..Len(queue') : queue'[i] = queue[i + 1]
    BY <1>1, <1>q DEF Take
  <2> QED
    BY <1>q, <2>1, <2>2 DEF BuffersApart
<1>2. CASE Reset
  <2>1. queue = <<>> /\ queue' = <<>>
    BY <1>2 DEF Reset
  <2>2. holder' # "demodulator"
    BY <1>2 DEF Reset, Free, ResetTune
  <2> QED
    BY <2>1, <2>2
<1>3. CASE Serve
  <2>1. PICK s \in Delivered : HandOver(s)
    BY <1>3 DEF Serve
  <2>2. holder' = "none"
    BY <1>3 DEF Serve, Free
  <2>3. queue = <<>> /\ queue' = Append(queue, Handed(s)) /\ out' = Other(out)
    BY <2>1 DEF HandOver, NextBuffer
  <2>4. Handed(s) \in Signal /\ Handed(s).buf = out
    BY DeliveredFits DEF BaseInv, TypeOK, Handed, Signal
  <2>5. Len(queue') = 1 /\ queue'[1].buf = out
    BY <2>3, <2>4
  <2>6. out' # out
    BY <1>q, <2>3 DEF Other
  <2> QED
    BY <2>2, <2>5, <2>6
<1>4. CASE Busy
  <2>1. PICK s \in Delivered : Keep(s) \/ Drop(s)
    BY <1>4 DEF Busy
  <2> QED
    BY <1>4 DEF Busy, BuffersApart
<1> QED
  BY QuietSteps, <1>1, <1>2, <1>3, <1>4
     DEF Next, Demodulator, Callback, Update, BuffersApart

(* As long as every signal is taken in time, no device writes where the    *)
(* demodulator reads.                                                      *)
THEOREM BuffersApartHolds == Spec => []BuffersApart
<1>1. Init => BuffersApart
  BY DEF Init, BuffersApart
<1> QED
  BY <1>1, ApartStep, BaseInit, BaseStep, PTL DEF Spec

----------------------------------------------------------------------------
(* What was asked of the tuner.                                            *)

(***************************************************************************)
(* TunerFollows speaks of an idle update(); what is inductive is that the  *)
(* two agree until update() has taken a request up.                        *)
(***************************************************************************)
FollowInv ==
  fails = 0 /\ ~change_frequency /\ update \notin {"clear", "tune"}
    => asked = rf_frequency

LEMMA FollowStep == BaseInv /\ FollowInv /\ [Next]_vars => FollowInv'
<1> SUFFICES ASSUME BaseInv, FollowInv, [Next]_vars, fails' = 0, ~change_frequency',
                    update' \notin {"clear", "tune"}
             PROVE  asked' = rf_frequency'
  BY DEF FollowInv
<1>f. fails \in Nat
  BY DevicesAssumption DEF BaseInv, TypeOK
<1>t. ASSUME Answered \/ Refused PROVE asked' = rf_frequency'
  BY <1>f, <1>t DEF Answered, Refused
<1>1. CASE Take \/ AskReset \/ Release \/ ReadPacket \/ ResetEnd \/ Busy
           \/ UNCHANGED vars
  BY <1>1 DEF Take, AskReset, Release, ReadPacket, ResetEnd, Busy, vars, signalVars,
              tunerVars, FollowInv
<1>2. CASE Measure
  BY <1>2 DEF Measure, tunerVars, FollowInv
<1>3. CASE Reset
  <2>1. CASE Tune(0, 0)
    BY <1>t, <2>1, TuneEffect
  <2> QED
    BY <1>3, <2>1 DEF Reset, ResetTune
<1>4. CASE Serve
  <2>1. CASE device = "hackrf" /\ StartUpdate
    BY <2>1 DEF StartUpdate, FollowInv
  <2>2. CASE Tell /\ UNCHANGED update
    BY <2>2 DEF Tell, FollowInv
  <2>3. CASE Tune(rf_frequency, coarse_freq_offset)
    BY <1>t, <2>3, TuneEffect
  <2> QED
    BY <1>4, <2>1, <2>2, <2>3 DEF Serve, SetRfFrequency
<1>5. CASE UpdateWait
  BY <1>5 DEF UpdateWait, Tell, FollowInv
<1>6. CASE UpdateServe
  BY <1>6 DEF UpdateServe, FollowInv
<1>7. CASE UpdateClear
  BY <1>7 DEF UpdateClear
<1>8. CASE UpdateTune
  BY <1>8, <1>t, SetFreqEffect DEF UpdateTune
<1> QED
  BY <1>1, <1>2, <1>3, <1>4, <1>5, <1>6, <1>7, <1>8
     DEF Next, Demodulator, Callback, Update

(* With nothing left to serve, and no call failed, the tuner was last      *)
(* asked for what the device believes it is on, whoever wrote either.      *)
THEOREM TunerFollowsHolds == Spec => []TunerFollows
<1>1. Init => FollowInv
  BY DEF Init, FollowInv
<1>2. FollowInv => TunerFollows
  BY DEF FollowInv, TunerFollows
<1> QED
  BY <1>1, <1>2, FollowStep, BaseInit, BaseStep, PTL DEF Spec

LEMMA DueStep == BaseInv /\ ReportDue /\ [Next]_vars => ReportDue'
<1> SUFFICES ASSUME BaseInv, ReportDue, [Next]_vars, device' = "sdrplay", fails' = 0,
                    ~frequency_changed'
             PROVE  answer' \/ rf_told'
  BY DEF ReportDue
<1>f. fails \in Nat
  BY DevicesAssumption DEF BaseInv, TypeOK
<1>d. device = "sdrplay"
  BY DEF Next, Demodulator, Callback, Update, Take, Measure, AskReset, Release,
         ReadPacket, Reset, ResetEnd, Serve, Busy, UpdateWait, UpdateServe, UpdateClear,
         UpdateTune, updateRest, vars, constVars
<1>u. update = "idle"
  BY <1>d DEF BaseInv, OwnParts
<1>t. ASSUME Answered \/ Refused PROVE answer'
  <2>1. ~Refused
    BY <1>f DEF Refused
  <2> QED
    BY <1>d, <1>t, <2>1, Zenon DEF Answered
<1>1. CASE Take \/ Measure \/ AskReset \/ Release \/ ResetEnd \/ Busy \/ UNCHANGED vars
  BY <1>1, <1>d DEF Take, Measure, AskReset, Release, ResetEnd, Busy, vars, signalVars,
                    tunerVars, ReportDue
<1>2. CASE ReadPacket
  BY <1>2, <1>d DEF ReadPacket, Report, signalVars, ReportDue
<1>3. CASE Reset
  BY <1>3, <1>d, <1>t, TuneEffect DEF Reset, ResetTune
<1>4. CASE Serve
  <2>1. CASE Tell
    <3>1. ~frequency_changed /\ ~rf_told
      BY <1>d, <2>1 DEF Tell, Waited
    <3> QED
      BY <1>d, <2>1, <3>1 DEF Tell, ReportDue
  <2>2. CASE Tune(rf_frequency, coarse_freq_offset)
    BY <1>t, <2>2, TuneEffect
  <2> QED
    BY <1>4, <1>d, <2>1, <2>2 DEF Serve, SetRfFrequency
<1> QED
  BY <1>u, <1>1, <1>2, <1>3, <1>4 DEF Next, Demodulator, Callback, Update, UpdateWait,
     UpdateServe, UpdateClear, UpdateTune

(* The SDRplay never waits for a report that will not come, unless a call  *)
(* has failed.                                                             *)
THEOREM ReportDueHolds == Spec => []ReportDue
<1>1. Init => ReportDue
  BY DEF Init, ReportDue
<1> QED
  BY <1>1, DueStep, BaseInit, BaseStep, PTL DEF Spec

----------------------------------------------------------------------------
(* A measured offset is corrected once.                                    *)

(* What CorrectedOnce assumes of the tuner and of the order of events.     *)
Trusted ==
  Timely /\ fails = 0 /\ ~raced /\ ~mixed /\ (device = "sdrplay" => ~late)

SamplesOn(S) ==
  /\ taken \subseteq S /\ read.on \subseteq S
  /\ \A i \in 1..Len(queue) : queue[i].on \subseteq S

(* No sample from before the last retune is in sight any more.             *)
Settled ==
  SamplesOn({tuned}) /\ (holder = "demodulator" => reading.on \subseteq {tuned})

(* The tuner, the offset and the samples know two frequencies only.        *)
Known ==
  /\ {rf_frequency, asked, tuned, coarse_freq_offset} \subseteq {0, error}
  /\ SamplesOn({0, error}) /\ reading.on \subseteq {0, error}

(* The tuner is where it was asked to be when it is said to be settled.    *)
Told ==
  /\ ~answer => tuned = asked
  /\ frequency_changed \/ rf_told => ~answer
  /\ read # Nothing => tuned \in read.on
  /\ frequency_changed => Settled

Right == rf_frequency = tuned /\ coarse_freq_offset = error - tuned

(***************************************************************************)
(* A request is served on the channel's frequency, or with the offset that *)
(* belongs to the frequency it is added to; update() is the same between   *)
(* its steps, and what it does while a reset waits for it is undone.       *)
(***************************************************************************)
Asked ==
  /\ change_frequency \/ update = "clear" =>
       rf_frequency = 0 \/ (frequency_changed /\ Right)
  /\ update = "tune" =>
       ~frequency_changed /\ (rf_frequency = 0 \/ (Right /\ Settled))
  /\ update \in {"clear", "tune"} /\ change_frequency => holder = "device"
  /\ holder = "device" => rf_frequency = 0 /\ coarse_freq_offset = 0

TuneInv == Trusted => Known /\ Told /\ Asked

LEMMA Single ==
  ASSUME NEW S, NEW x \in S, ~Mixed(S)
  PROVE  S = {x}
  BY DEF Mixed

LEMMA DeliveredOn ==
  ASSUME BaseInv, NEW s \in Delivered
  PROVE  s.on \subseteq {tuned} \cup read.on
<1>1. device \in {"airspy", "hackrf", "sdrplay", "usrp", "pluto"}
  BY DevicesAssumption DEF BaseInv, TypeOK
<1> QED
  BY <1>1 DEF Delivered, Nothing

(* No step brings samples from elsewhere than where the tuner is or was.   *)
LEMMA SamplesStep ==
  ASSUME BaseInv, [Next]_vars, NEW S, SamplesOn(S), tuned \in S, tuned' \in S
  PROVE  /\ taken' \subseteq S /\ read'.on \subseteq S
         /\ \A i \in 1..Len(queue') : queue'[i].on \subseteq S
         /\ reading' = reading \/ reading'.on \subseteq S
<1>q. queue \in Seq(Signal)
  BY DEF BaseInv, TypeOK
<1>0. \A s \in Delivered : s.on \subseteq S
  BY DeliveredOn DEF SamplesOn
<1>n. Nothing.on \subseteq S
  BY DEF Nothing
<1>1. CASE Take
  <2>1. taken' = taken /\ read' = read
    BY <1>1 DEF Take, fillVars, tunerVars
  <2>2. /\ queue # <<>> /\ reading' = queue[1] /\ queue' = Tail(queue)
        /\ Len(queue') = Len(queue) - 1
        /\ \A i \in 1..Len(queue') : queue'[i] = queue[i + 1]
    BY <1>1, <1>q DEF Take
  <2> QED
    BY <1>q, <2>1, <2>2 DEF SamplesOn
<1>2. CASE \/ Measure \/ AskReset \/ Release \/ ResetEnd \/ UpdateWait \/ UpdateServe
           \/ UpdateClear \/ UpdateTune \/ UNCHANGED vars
  <2>1. read' = read
    BY <1>2 DEF Measure, AskReset, Release, ResetEnd, UpdateWait, UpdateServe,
                UpdateClear, UpdateTune, updateRest, vars, tunerVars
  <2> QED
    BY <1>2, <2>1, QuietSteps DEF SamplesOn
<1>3. CASE ReadPacket
  <2>1. read'.on \subseteq S
    <3>1. CASE read' = [n |-> blocks * Block, on |-> {tuned}]
      BY <3>1
    <3>2. CASE Report /\ \E first \in 1..blocks :
                 read' = [n |-> blocks * Block,
                          on |-> IF first = 1 THEN {asked} ELSE {tuned, asked}]
      <4>1. asked \in S
        BY <3>2 DEF Report
      <4>2. \/ read' = [n |-> blocks * Block, on |-> {asked}]
            \/ read' = [n |-> blocks * Block, on |-> {tuned, asked}]
        BY <3>2
      <4> QED
        BY <4>1, <4>2
    <3> QED
      BY <1>3, <3>1, <3>2 DEF ReadPacket
  <2> QED
    BY <1>3, <2>1, QuietSteps DEF SamplesOn
<1>4. CASE Reset
  <2>1. taken' = {} /\ read' = Nothing /\ queue' = queue /\ reading' = reading
    BY <1>4 DEF Reset, Rewind, ResetFill
  <2> QED
    BY <1>n, <2>1 DEF SamplesOn
<1>5. CASE Serve
  <2>1. PICK s \in Delivered : HandOver(s)
    BY <1>5 DEF Serve
  <2>2. taken' = {} /\ read' = Nothing /\ reading' = reading
    BY <1>5, <2>1 DEF Serve, HandOver
  <2>3. Handed(s).on \subseteq S /\ Handed(s) \in Signal
    BY <1>0, DeliveredFits DEF Handed, SamplesOn, Signal, BaseInv, TypeOK
  <2>4. \A i \in 1..Len(queue') : queue'[i] = IF i <= Len(queue) THEN queue[i]
                                                               ELSE Handed(s)
    BY <1>q, <2>1, <2>3 DEF HandOver
  <2>5. queue' = Append(queue, Handed(s)) /\ Len(queue') = Len(queue) + 1
    BY <1>q, <2>1, <2>3 DEF HandOver
  <2> QED
    BY <1>n, <1>q, <2>2, <2>3, <2>4, <2>5 DEF SamplesOn
<1>6. CASE Busy
  <2>1. PICK s \in Delivered : Keep(s) \/ Drop(s)
    BY <1>6 DEF Busy
  <2>2. read' = Nothing /\ queue' = queue /\ reading' = reading
    BY <1>6 DEF Busy
  <2>3. taken' \subseteq S
    BY <1>0, <2>1 DEF Keep, Drop, SamplesOn
  <2> QED
    BY <1>n, <2>2, <2>3 DEF SamplesOn
<1> QED
  BY <1>1, <1>2, <1>3, <1>4, <1>5, <1>6 DEF Next, Demodulator, Callback, Update

(* A tuner left alone stays settled.                                       *)
LEMMA SettledStep == BaseInv /\ [Next]_vars /\ Settled /\ tuned' = tuned => Settled'
<1> SUFFICES ASSUME BaseInv, [Next]_vars, Settled, tuned' = tuned PROVE Settled'
  OBVIOUS
<1>1. /\ taken' \subseteq {tuned} /\ read'.on \subseteq {tuned}
      /\ \A i \in 1..Len(queue') : queue'[i].on \subseteq {tuned}
      /\ reading' = reading \/ reading'.on \subseteq {tuned}
  BY SamplesStep DEF Settled
<1>2. SamplesOn({tuned})'
  BY <1>1 DEF SamplesOn
<1>3. holder' = "demodulator" => reading'.on \subseteq {tuned}
  <2>1. CASE Take
    <3>1. reading' = queue[1] /\ 1 \in 1..Len(queue)
      BY <2>1 DEF Take, BaseInv, TypeOK
    <3> QED
      BY <3>1 DEF Settled, SamplesOn
  <2>2. CASE holder' = "demodulator" => holder = "demodulator" /\ reading' = reading
    BY <2>2 DEF Settled
  <2>3. CASE Reset \/ Serve
    BY <2>3 DEF Reset, Serve, ResetTune, Free
  <2>4. CASE Busy
    BY <2>2, <2>4 DEF Busy
  <2> QED
    BY QuietSteps, <2>1, <2>2, <2>3, <2>4 DEF Next, Demodulator, Callback, Update
<1> QED
  BY <1>2, <1>3 DEF Settled

(* Steps that leave the tuner and the requests alone.                      *)
LEMMA PlainStep ==
  ASSUME BaseInv, [Next]_vars, Told, Asked,
         Take \/ AskReset \/ Release \/ Busy \/ ResetEnd \/ UNCHANGED vars
  PROVE  /\ UNCHANGED <<rf_frequency, asked, tuned, coarse_freq_offset>>
         /\ Told' /\ Asked'
<1>1. UNCHANGED <<rf_frequency, asked, tuned, coarse_freq_offset, change_frequency,
                  frequency_changed, rf_told, answer, error>>
  BY DEF Take, AskReset, Release, Busy, ResetEnd, vars, signalVars, tunerVars, constVars
<1>2. read' = read \/ read' = Nothing
  BY DEF Take, AskReset, Release, Busy, ResetEnd, vars, tunerVars
<1>3. /\ update' = update \/ update' = "wait"
      /\ holder = "device" => holder' = "device" \/ update' = "wait"
      /\ holder' = "device" => holder = "device"
  BY DEF Take, AskReset, Release, Busy, ResetEnd, vars
<1>4. Told'
  BY <1>1, <1>2, SettledStep DEF Told
<1>5. Asked'
  BY <1>1, <1>3, SettledStep DEF Asked, Right
<1> QED
  BY <1>1, <1>4, <1>5

LEMMA MeasureStep ==
  ASSUME BaseInv, FollowInv, [Next]_vars, Trusted', Known, Told, Asked, Measure,
         ~raced, fails = 0
  PROVE  /\ UNCHANGED <<rf_frequency, asked, tuned>> /\ coarse_freq_offset' \in {0, error}
         /\ Told' /\ Asked'
<1>1. PICK t \in reading.on : coarse_freq_offset' = error - t
  BY DEF Measure
<1>2. UNCHANGED <<rf_frequency, asked, tuned, frequency_changed, rf_told, answer, read,
                  error, update, holder>> /\ holder = "demodulator"
  BY DEF Measure, tunerVars, constVars
<1>3. error \in Int /\ tuned \in Int /\ t \in {0, error}
  BY <1>1, DevicesAssumption DEF Known, BaseInv, TypeOK
<1>4. coarse_freq_offset' \in {0, error}
  BY <1>1, <1>3
<1>5. Told'
  BY <1>2, SettledStep DEF Told
<1>6. Settled => coarse_freq_offset' = error - tuned
  BY <1>1, <1>2 DEF Settled
<1>7. ASSUME change_frequency', ~change_frequency
      PROVE  frequency_changed /\ update \notin {"clear", "tune"}
  <2>1. frequency_changed /\ raced' = (raced \/ update = "clear")
    BY <1>7 DEF Measure
  <2>2. update # "clear"
    BY <2>1 DEF Trusted
  <2> QED
    BY <2>1, <2>2 DEF Asked
<1>8. frequency_changed => tuned = asked /\ Settled
  BY DEF Told
<1>9. ASSUME change_frequency' \/ update' = "clear"
      PROVE  rf_frequency' = 0 \/ (frequency_changed' /\ Right')
  <2>1. CASE change_frequency \/ update = "clear"
    BY <1>2, <1>6, <1>8, <2>1 DEF Asked, Right
  <2>2. CASE ~change_frequency /\ update # "clear"
    <3>1. frequency_changed /\ asked = rf_frequency
      BY <1>2, <1>7, <1>9, <2>2 DEF FollowInv
    <3> QED
      BY <1>2, <1>6, <1>8, <3>1 DEF Right
  <2> QED
    BY <2>1, <2>2
<1>10. ASSUME update' = "tune"
       PROVE  ~frequency_changed' /\ (rf_frequency' = 0 \/ (Right' /\ Settled'))
  BY <1>2, <1>6, <1>10, SettledStep DEF Asked, Right
<1>11. update' \in {"clear", "tune"} /\ change_frequency' => holder' = "device"
  BY <1>2, <1>7 DEF Asked
<1>12. Asked'
  BY <1>2, <1>9, <1>10, <1>11 DEF Asked
<1> QED
  BY <1>2, <1>4, <1>5, <1>12

LEMMA ReadPacketStep ==
  ASSUME BaseInv, [Next]_vars, Told, Asked, ReadPacket
  PROVE  /\ UNCHANGED <<rf_frequency, asked, coarse_freq_offset>> /\ tuned' \in {tuned, asked}
         /\ Told' /\ Asked'
<1>1. UNCHANGED <<rf_frequency, asked, coarse_freq_offset, change_frequency,
                  frequency_changed, error, update, holder>>
  BY DEF ReadPacket, signalVars, constVars
<1>2. update = "idle" /\ holder # "device"
  BY DEF BaseInv, OwnParts, ReadPacket
<1>3. CASE /\ read' = [n |-> blocks * Block, on |-> {tuned}]
           /\ UNCHANGED <<tuned, answer, rf_told>>
  <2>1. Told'
    BY <1>1, <1>3, SettledStep DEF Told
  <2>2. Asked'
    BY <1>1, <1>2, <1>3 DEF Asked, Right
  <2> QED
    BY <1>1, <1>3, <2>1, <2>2
<1>4. CASE /\ answer /\ Report
           /\ \E first \in 1..blocks :
                 read' = [n |-> blocks * Block,
                          on |-> IF first = 1 THEN {asked} ELSE {tuned, asked}]
  <2>1. ~frequency_changed /\ tuned' = asked /\ ~answer'
    BY <1>4 DEF Told, Report
  <2>2. asked \in read'.on
    <3>1. \/ read' = [n |-> blocks * Block, on |-> {asked}]
          \/ read' = [n |-> blocks * Block, on |-> {tuned, asked}]
      BY <1>4
    <3> QED
      BY <3>1
  <2>3. Told'
    BY <1>1, <2>1, <2>2 DEF Told
  <2>4. Asked'
    BY <1>1, <1>2, <2>1 DEF Asked
  <2> QED
    BY <1>1, <2>1, <2>3, <2>4
<1> QED
  BY <1>3, <1>4 DEF ReadPacket

(* A call that succeeds ends every request.                                *)
LEMMA AnsweredStep ==
  ASSUME BaseInv, Answered, ~rf_told', read' = Nothing
  PROVE  Told' /\ tuned' \in {tuned, rf_frequency'} /\ asked' = rf_frequency'
<1>1. device = "sdrplay" => answer'
  BY Zenon DEF Answered
<1>2. device # "sdrplay" => ~answer' /\ tuned' = asked'
  BY DEF Answered
<1>3. device = "sdrplay" => tuned' = tuned
  BY DEF Answered
<1>4. ~frequency_changed' /\ asked' = rf_frequency'
  BY DEF Answered
<1> QED
  BY <1>1, <1>2, <1>3, <1>4 DEF Told

LEMMA ResetStep ==
  ASSUME BaseInv, [Next]_vars, Known, Told, Asked, Reset, fails = 0, fails' = 0
  PROVE  /\ rf_frequency' = 0 /\ coarse_freq_offset' = 0
         /\ tuned' \in {tuned, 0} /\ asked' \in {asked, 0}
         /\ Told' /\ Asked'
<1>1. coarse_freq_offset' = 0 /\ read' = Nothing /\ update' = update /\ holder = "none"
  BY DEF Reset, Free
<1>2. CASE Tune(0, 0) /\ UNCHANGED holder /\ device \in {"airspy", "sdrplay", "pluto"}
  <2>0. /\ ~change_frequency' /\ ~rf_told' /\ rf_frequency' = 0 + 0
        /\ Answered \/ Refused
    BY <1>2, TuneEffect, Zenon
  <2>1. /\ ~change_frequency' /\ ~rf_told' /\ rf_frequency' = 0
        /\ Answered \/ Refused
    BY <2>0
  <2>2. Answered
    BY <2>1 DEF Refused
  <2>3. Told' /\ tuned' \in {tuned, 0} /\ asked' = 0
    BY <1>1, <2>1, <2>2, AnsweredStep
  <2>4. update = "idle"
    BY <1>2 DEF BaseInv, OwnParts
  <2>5. Asked'
    BY <1>1, <1>2, <2>1, <2>4 DEF Asked
  <2> QED
    BY <1>1, <2>1, <2>3, <2>5
<1>3. CASE /\ device \in {"usrp", "hackrf"}
           /\ change_frequency' = TRUE /\ rf_frequency' = 0
           /\ holder' = IF device = "hackrf" THEN "device" ELSE holder
           /\ UNCHANGED <<frequency_changed, tuned, asked, rf_told, answer, fails>>
  <2>1. Told'
    BY <1>1, <1>3, SettledStep DEF Told
  <2>2. device # "hackrf" => update = "idle"
    BY DEF BaseInv, OwnParts
  <2>3. Asked'
    BY <1>1, <1>3, <2>2 DEF Asked
  <2> QED
    BY <1>1, <1>3, <2>1, <2>3
<1> QED
  BY <1>2, <1>3 DEF Reset, ResetTune

(* What update() asks the tuner for, and a request that is served.         *)
LEMMA Corrected ==
  ASSUME BaseInv, Known, rf_frequency = 0 \/ Right
  PROVE  rf_frequency + coarse_freq_offset \in {0, error}
<1>1. error \in Int /\ tuned \in Int /\ coarse_freq_offset \in {0, error}
  BY DevicesAssumption DEF Known, BaseInv, TypeOK
<1> QED
  BY <1>1 DEF Right

LEMMA ElapsedSettled ==
  ASSUME BaseInv, device # "sdrplay", Timely, Elapsed
  PROVE  Settled
BY DEF BaseInv, OwnParts, Elapsed, Settled, SamplesOn, Nothing

(* The end of the wait is told once every sample of before is gone.        *)
LEMMA TellStep ==
  ASSUME BaseInv, [Next]_vars, Told, device # "sdrplay", Timely, Tell,
         read' = read \/ read' = Nothing
  PROVE  Told' /\ UNCHANGED <<rf_frequency, asked, tuned, change_frequency>>
<1>1. UNCHANGED <<rf_frequency, asked, tuned, change_frequency, answer, rf_told>>
  BY DEF Tell
<1>2. ~answer /\ read = Nothing
  BY DEF BaseInv, OwnParts
<1>3. frequency_changed' => Settled
  BY ElapsedSettled DEF Tell, Waited, Told
<1>4. frequency_changed' => Settled'
  BY <1>1, <1>3, SettledStep
<1> QED
  BY <1>1, <1>2, <1>4 DEF Told

LEMMA ServeStep ==
  ASSUME BaseInv, [Next]_vars, Known, Told, Asked, Serve, Trusted, Trusted'
  PROVE  /\ UNCHANGED coarse_freq_offset /\ rf_frequency' \in {0, error, rf_frequency}
         /\ tuned' \in {tuned, rf_frequency'} /\ asked' \in {asked, rf_frequency'}
         /\ Told' /\ Asked'
<1>1. /\ coarse_freq_offset' = coarse_freq_offset /\ read' = Nothing
      /\ holder = "none" /\ holder' = "none" /\ error' = error /\ device' = device
  BY DEF Serve, Free, constVars
<1>2. CASE device = "hackrf" /\ StartUpdate
  <2>1. UNCHANGED <<change_frequency, frequency_changed, rf_frequency, tuned, asked,
                    rf_told, answer>>
    BY <1>2 DEF StartUpdate
  <2>2. update' = update \/ update' = "wait"
    BY <1>2 DEF StartUpdate
  <2>3. Told'
    BY <1>1, <2>1, SettledStep DEF Told
  <2>4. Asked'
    BY <1>1, <2>1, <2>2, SettledStep DEF Asked, Right
  <2> QED
    BY <1>1, <2>1, <2>3, <2>4
<1>3. ASSUME device # "hackrf", UNCHANGED update PROVE update' = "idle"
  BY <1>3 DEF BaseInv, OwnParts
<1>4. CASE /\ device # "hackrf" /\ UNCHANGED update
           /\ change_frequency /\ Tune(rf_frequency, coarse_freq_offset)
  <2>1. /\ ~change_frequency' /\ ~rf_told'
        /\ rf_frequency' = rf_frequency + coarse_freq_offset
        /\ Answered \/ Refused
    BY <1>4, TuneEffect, Zenon
  <2>2. Answered
    BY <2>1 DEF Trusted, Refused
  <2>3. Told' /\ tuned' \in {tuned, rf_frequency'} /\ asked' = rf_frequency'
    BY <1>1, <2>1, <2>2, AnsweredStep
  <2>4. rf_frequency' \in {0, error}
    BY <1>4, <2>1, Corrected DEF Asked
  <2>5. Asked'
    BY <1>1, <1>3, <1>4, <2>1 DEF Asked
  <2> QED
    BY <1>1, <2>3, <2>4, <2>5
<1>5. CASE device # "hackrf" /\ UNCHANGED update /\ ~change_frequency /\ Tell
  <2>1. UNCHANGED <<rf_frequency, asked, tuned, change_frequency, answer, rf_told>>
    BY <1>5 DEF Tell
  <2>2. Told'
    <3>1. CASE device # "sdrplay"
      BY <1>1, <1>5, <3>1, TellStep DEF Trusted
    <3>2. CASE device = "sdrplay" /\ frequency_changed'
      <4>1. PICK s \in Delivered : HandOver(s)
        BY DEF Serve
      <4>2. ~answer
        BY <1>5, <3>2 DEF Tell, Waited, Told
      <4>3. s = read /\ read # Nothing /\ tuned \in Handed(s).on
        BY <3>2 DEF Delivered, Handed, Told
      <4>5. ~Mixed(Handed(s).on)
        BY <3>2, <4>1 DEF HandOver, Trusted
      <4>6. Handed(s).on = {tuned}
        BY <4>3, <4>5, Single
      <4>7. queue = <<>> /\ queue' = Append(queue, Handed(s)) /\ taken' = {}
        BY <1>1, <3>2, <4>1 DEF HandOver, Trusted
      <4>8. Handed(s) \in Signal
        BY DeliveredFits DEF BaseInv, TypeOK, Handed, Signal
      <4>9. Len(queue') = 1 /\ queue'[1] = Handed(s)
        BY <4>7, <4>8
      <4>10. Settled'
        BY <1>1, <2>1, <4>6, <4>7, <4>9 DEF Settled, SamplesOn, Nothing
      <4> QED
        BY <1>1, <2>1, <4>2, <4>10 DEF Told
    <3>3. CASE ~frequency_changed'
      <4>1. rf_told' => ~answer'
        BY <2>1 DEF Told
      <4> QED
        BY <1>1, <2>1, <3>3, <4>1 DEF Told
    <3> QED
      BY <3>1, <3>2, <3>3
  <2>3. Asked'
    BY <1>1, <1>3, <1>5, <2>1 DEF Asked
  <2> QED
    BY <1>1, <2>1, <2>2, <2>3
<1> QED
  BY <1>2, <1>4, <1>5 DEF Serve, SetRfFrequency

LEMMA UpdateStep ==
  ASSUME BaseInv, [Next]_vars, Known, Told, Asked, Update, Trusted, Trusted'
  PROVE  /\ UNCHANGED coarse_freq_offset /\ rf_frequency' \in {0, error, rf_frequency}
         /\ tuned' \in {tuned, rf_frequency'} /\ asked' \in {asked, rf_frequency'}
         /\ Told' /\ Asked'
<1>1. UNCHANGED <<coarse_freq_offset, holder, read, rf_told, error>>
  BY DEF Update, UpdateWait, UpdateServe, UpdateClear, UpdateTune, Tell, updateRest,
         constVars
<1>2. device = "hackrf" /\ ~answer /\ ~rf_told /\ read = Nothing
  BY DEF Update, UpdateWait, UpdateServe, UpdateClear, UpdateTune, BaseInv, OwnParts
<1>3. CASE UpdateWait
  <2>1. Told' /\ UNCHANGED <<rf_frequency, asked, tuned, change_frequency>>
    BY <1>1, <1>2, <1>3, TellStep DEF UpdateWait, Trusted
  <2>2. frequency_changed => frequency_changed'
    BY <1>3 DEF UpdateWait, Tell, Waited
  <2>3. Asked'
    BY <1>1, <1>3, <2>1, <2>2 DEF Asked, UpdateWait, Right
  <2> QED
    BY <1>1, <2>1, <2>3
<1>4. CASE UpdateServe
  <2>1. UNCHANGED <<frequency_changed, rf_frequency, tuned, asked, answer>>
    BY <1>4 DEF UpdateServe, updateRest
  <2>2. Told'
    BY <1>1, <2>1, SettledStep DEF Told
  <2>3. CASE change_frequency /\ ~change_frequency' /\ update' = "clear"
    BY <1>1, <2>1, <2>2, <2>3 DEF Asked, Right
  <2>4. CASE UNCHANGED change_frequency /\ update' = "idle"
    BY <1>1, <2>1, <2>2, <2>4 DEF Asked, Right
  <2> QED
    BY <1>1, <1>4, <2>1, <2>2, <2>3, <2>4 DEF UpdateServe, ClearRequest
<1>5. CASE UpdateClear
  <2>1. /\ UNCHANGED <<change_frequency, rf_frequency, tuned, asked, answer>>
        /\ ~frequency_changed' /\ update = "clear" /\ update' = "tune"
    BY <1>5 DEF UpdateClear, updateRest
  <2>2. Told'
    BY <1>1, <2>1 DEF Told
  <2>3. rf_frequency = 0 \/ (Right /\ Settled)
    BY <2>1 DEF Asked, Told
  <2>4. Asked'
    BY <1>1, <2>1, <2>3, SettledStep DEF Asked, Right
  <2> QED
    BY <1>1, <2>1, <2>2, <2>4
<1>6. CASE UpdateTune
  <2>1. /\ rf_frequency' = rf_frequency + coarse_freq_offset /\ update = "tune"
        /\ update' = "idle" /\ change_frequency' = change_frequency
    BY <1>6 DEF UpdateTune
  <2>2. Answered
    BY <1>6, SetFreqEffect DEF UpdateTune, Trusted, Refused
  <2>3. Told' /\ tuned' \in {tuned, rf_frequency'} /\ asked' = rf_frequency'
    BY <1>1, <1>2, <2>2, AnsweredStep
  <2>4. rf_frequency' \in {0, error}
    BY <2>1, Corrected DEF Asked
  <2>5. holder = "device" => rf_frequency' = 0
    BY <2>1 DEF Asked
  <2>6. Asked'
    BY <1>1, <2>1, <2>5 DEF Asked
  <2> QED
    BY <1>1, <2>3, <2>4, <2>6
<1> QED
  BY <1>3, <1>4, <1>5, <1>6 DEF Update

LEMMA TuneStep == BaseInv /\ FollowInv /\ TuneInv /\ [Next]_vars => TuneInv'
<1> SUFFICES ASSUME BaseInv, FollowInv, TuneInv, [Next]_vars, Trusted'
             PROVE  Known' /\ Told' /\ Asked'
  BY DEF TuneInv
<1>1. error' = error /\ device' = device
  BY DEF Next, Demodulator, Callback, Update, Take, Measure, AskReset, Release,
         ReadPacket, Reset, ResetEnd, Serve, Busy, UpdateWait, UpdateServe, UpdateClear,
         UpdateTune, updateRest, vars, constVars
<1>2. Trusted
  <2>1. fails' = fails \/ fails' = fails + 1
    BY DEF Next, Demodulator, Callback, Update, Take, Measure, AskReset, Release,
           ReadPacket, Reset, ResetTune, ResetEnd, Serve, SetRfFrequency, StartUpdate,
           Tune, Tell, SetFreq, Busy, UpdateWait, UpdateServe, UpdateClear, UpdateTune,
           vars, tunerVars
  <2>2. fails \in Nat
    BY DevicesAssumption DEF BaseInv, TypeOK
  <2>3. fails = 0
    BY <2>1, <2>2 DEF Trusted
  <2>4. (raced => raced') /\ (mixed => mixed') /\ (late => late')
    <3>1. CASE Measure
      <4>1. raced' = raced \/ raced' = (raced \/ update = "clear")
        BY <3>1 DEF Measure
      <4>2. raced => raced'
        BY <4>1, Zenon
      <4>3. UNCHANGED <<mixed, late>>
        BY <3>1 DEF Measure
      <4> QED
        BY <4>2, <4>3
    <3>2. CASE Reset
      BY <3>2 DEF Reset
    <3>3. CASE Serve
      BY <3>3 DEF Serve, HandOver
    <3>4. CASE ~(Measure \/ Reset \/ Serve)
      <4>1. UNCHANGED <<raced, mixed, late>>
        BY <3>4 DEF Next, Demodulator, Callback, Update, Take, AskReset, Release,
               ReadPacket, ResetEnd, Busy, UpdateWait, UpdateServe, UpdateClear,
               UpdateTune, updateRest, vars
      <4> QED
        BY <4>1
    <3> QED
      BY <3>1, <3>2, <3>3, <3>4
  <2> QED
    BY <1>1, <2>3, <2>4 DEF Trusted
<1>3. Known /\ Told /\ Asked
  BY <1>2 DEF TuneInv
<1>4. /\ Told' /\ Asked'
      /\ rf_frequency' \in {0, error, rf_frequency}
      /\ tuned' \in {tuned, asked, rf_frequency'} /\ asked' \in {asked, rf_frequency'}
      /\ coarse_freq_offset' \in {0, error, coarse_freq_offset}
  <2>1. CASE Take \/ AskReset \/ Release \/ Busy \/ ResetEnd \/ UNCHANGED vars
    BY <1>3, <2>1, PlainStep
  <2>2. CASE Measure
    BY <1>2, <1>3, <2>2, MeasureStep DEF Trusted
  <2>3. CASE ReadPacket
    BY <1>3, <2>3, ReadPacketStep
  <2>4. CASE Reset
    BY <1>2, <1>3, <2>4, ResetStep DEF Trusted
  <2>5. CASE Serve
    BY <1>2, <1>3, <2>5, ServeStep
  <2>6. CASE Update
    BY <1>2, <1>3, <2>6, UpdateStep
  <2> QED
    BY <2>1, <2>2, <2>3, <2>4, <2>5, <2>6 DEF Next, Demodulator, Callback
<1>5. /\ {rf_frequency', asked', tuned', coarse_freq_offset'} \subseteq {0, error}
  BY <1>3, <1>4 DEF Known
<1>6. /\ taken' \subseteq {0, error} /\ read'.on \subseteq {0, error}
      /\ \A i \in 1..Len(queue') : queue'[i].on \subseteq {0, error}
      /\ reading' = reading \/ reading'.on \subseteq {0, error}
  BY <1>3, <1>5, SamplesStep DEF Known
<1>7. Known'
  BY <1>1, <1>3, <1>5, <1>6 DEF Known, SamplesOn
<1> QED
  BY <1>4, <1>7

(***************************************************************************)
(* Whatever the tuner is off by, and whichever device it is on, it is only *)
(* asked for the channel's frequency and for the one that corrects it.     *)
(***************************************************************************)
THEOREM CorrectedOnceHolds == Spec => []CorrectedOnce
<1>1. Init => TuneInv
  <2> SUFFICES ASSUME Init PROVE Known /\ Told /\ Asked
    BY DEF TuneInv
  <2>1. Known
    BY DEF Init, Known, SamplesOn, Nothing
  <2>2. Told
    BY DEF Init, Told
  <2>3. Asked
    BY DEF Init, Asked
  <2> QED
    BY <2>1, <2>2, <2>3
<1>2. TuneInv => CorrectedOnce
  BY DEF TuneInv, Trusted, Known, CorrectedOnce
<1>3. Init => FollowInv
  BY DEF Init, FollowInv
<1> QED
  BY <1>1, <1>2, <1>3, TuneStep, FollowStep, BaseInit, BaseStep, PTL DEF Spec
=============================================================================
