------------------------------ MODULE Devices ------------------------------
(***************************************************************************)
(* The five devices and the link to the demodulator they feed              *)
(* (src/rx_airspy.cpp, rx_hackrf_one.cpp, rx_sdrplay.cpp, rx_usrp.cpp,     *)
(* rx_pluto.cpp): the double buffer, the queued `execute' signals, and the *)
(* tuner that serves the requests left in signal_estimate.  `device' is    *)
(* main_window's id_device.  They are one program written five times, with *)
(* differences where it is hard to see them:                               *)
(*   hackrf   tunes in a pool thread, without the demodulator's mutex;     *)
(*   sdrplay  reads packets itself, ever more of them while the            *)
(*            demodulator is busy, and is told by a packet that the        *)
(*            frequency has changed: no wait;                              *)
(*   usrp     leaves the request made by a reset to the next block;        *)
(*   usrp, pluto  deliver short blocks.                                    *)
(*                                                                         *)
(* The demodulator is reduced to what a device sees of it.  Receiver shows *)
(* that the whole one, with the AirSpy, does nothing else.  The gain       *)
(* control is left out: no other thread looks at its flags.                *)
(*                                                                         *)
(* ReportLost, ResetKeepsFill, ResetTuneUnasked, SameBuffer, FullOneLate   *)
(* and ClearLate are slips, for the mutation runs that README.md describes.*)
(***************************************************************************)
EXTENDS Integers, Sequences

CONSTANTS
  Devices,    \* the devices to choose from
  Block,      \* samples of a block, or of a packet of the SDRplay, at most
  MaxBlocks,  \* max_blocks, the room of a buffer
  NormBlocks, \* norm_blocks, the packets the SDRplay reads at a time
  Errors,     \* what the tuner may be off by
  Tunings,    \* bound: the frequencies asked of the tuner
  MaxQueue,   \* bound: events pending in the demodulator's event queue
  MaxFails,   \* bound: calls to the tuner that fail
  Timely      \* TRUE: no sample from before a retune is in sight any more
              \* when the 100 ms wait after it ends

ASSUME DevicesAssumption ==
  /\ Devices \subseteq {"airspy", "hackrf", "sdrplay", "usrp", "pluto"}
  /\ Block \in Nat \ {0} /\ MaxBlocks \in Nat \ {0}
  /\ NormBlocks \in 1..MaxBlocks
  /\ Errors \subseteq Int /\ Tunings \subseteq Int /\ 0 \in Tunings
  /\ MaxQueue \in Nat /\ MaxFails \in Nat /\ Timely \in BOOLEAN

VARIABLES
  device,
  change_frequency, coarse_freq_offset, frequency_changed, reset,
  holder,         \* of the mutex: "none", "demodulator", "device"
  queue,          \* the pending `execute' signals
  reading,        \* the signal the demodulator is serving, or served last
  out,            \* the buffer being filled: "a" or "b" (swap_buffer)
  len_buffer,
  blocks,
  filled,         \* ptr_out, from the beginning of the buffer
  taken,          \* the tunings the samples in the buffer were taken on
  rf_frequency,   \* relative to ch_frequency
  tuned,          \* the frequency the tuner is on, relative too
  asked,          \* the one it was last asked for with success
  rf_told,        \* the SDRplay's member frequency_changed
  answer,         \* a packet is still to report rf_changed
  read,           \* the packets the SDRplay has just read
  update,         \* HackRF's update(): "idle", "wait", "serve", "clear", "tune"
  error,          \* the tuner's error
  fails,          \* history: tuner calls that failed
  late,           \* history: a buffer was handed over, or the buffers reset,
                  \* with a signal still in the queue
  raced,          \* history: an offset was asked for while update() served one
  mixed,          \* history: a buffer with samples of two tunings was handed
                  \* over as settled
  carried         \* history: the SDRplay was reset with samples in the buffer

signalVars == <<change_frequency, coarse_freq_offset, frequency_changed, reset>>
fillVars == <<out, len_buffer, blocks, filled, taken>>
tunerVars == <<rf_frequency, tuned, asked, rf_told, answer, read, fails>>
constVars == <<device, error>>
vars == <<signalVars, holder, queue, reading, fillVars, tunerVars, update,
          constVars, late, raced, mixed, carried>>

Room == MaxBlocks * Block

Nothing == [n |-> 0, on |-> {}]

FirstBlocks == IF device = "sdrplay" THEN NormBlocks ELSE 1

(* start(): reset() has asked for the channel's frequency.                 *)
Init ==
  /\ device \in Devices /\ error \in Errors
  /\ change_frequency = FALSE /\ coarse_freq_offset = 0
  /\ frequency_changed = FALSE /\ reset = FALSE
  /\ holder = "none" /\ queue = <<>>
  /\ reading = [buf |-> "b", len |-> Block, held |-> Block, on |-> {0}]
  /\ out = "a" /\ len_buffer = 0 /\ blocks = FirstBlocks
  /\ filled = 0 /\ taken = {}
  /\ rf_frequency = 0 /\ tuned = 0 /\ asked = 0
  /\ rf_told = FALSE /\ answer = (device = "sdrplay") /\ read = Nothing
  /\ update = "idle" /\ fails = 0
  /\ late = FALSE /\ raced = FALSE /\ mixed = FALSE /\ carried = FALSE

----------------------------------------------------------------------------
(* The demodulator's thread.                                               *)

Take ==
  /\ queue # <<>> /\ holder = "none"
  /\ holder' = "demodulator"
  /\ reading' = Head(queue) /\ queue' = Tail(queue)
  /\ UNCHANGED <<signalVars, fillVars, tunerVars, update, constVars, late, raced,
                 mixed, carried>>

(* A P1 symbol is found: its offset is written, and, while the tuner is    *)
(* settled and no lock is held, asked to be corrected.                     *)
Measure ==
  /\ holder = "demodulator"
  /\ \E t \in reading.on : coarse_freq_offset' = error - t
  /\ \/ UNCHANGED <<change_frequency, raced>>
     \/ /\ frequency_changed /\ coarse_freq_offset' # 0
        /\ change_frequency' = TRUE
        /\ raced' = (raced \/ update = "clear")
  /\ UNCHANGED <<frequency_changed, reset, holder, queue, reading, fillVars,
                 tunerVars, update, constVars, late, mixed, carried>>

AskReset ==
  /\ holder = "demodulator"
  /\ reset' = TRUE
  /\ UNCHANGED <<change_frequency, coarse_freq_offset, frequency_changed, holder,
                 queue, reading, fillVars, tunerVars, update, constVars, late,
                 raced, mixed, carried>>

Release ==
  /\ holder = "demodulator"
  /\ holder' = "none"
  /\ UNCHANGED <<signalVars, queue, reading, fillVars, tunerVars, update,
                 constVars, late, raced, mixed, carried>>

----------------------------------------------------------------------------
(* set_rf_frequency().                                                     *)

(* 100 ms since the retune, in the CPU time of all threads together.       *)
Elapsed ==
  Timely => /\ taken \subseteq {tuned}
            /\ \A i \in 1..Len(queue) : queue[i].on \subseteq {tuned}
            /\ holder = "demodulator" => reading.on \subseteq {tuned}

(* The call to the tuner, which may fail.  w is the flag after the look at *)
(* the clock, or at what a packet told.                                    *)
SetFreq(f, w) ==
  \/ /\ frequency_changed' = FALSE /\ asked' = f
     /\ tuned' = IF device = "sdrplay" THEN tuned ELSE f
     /\ answer' = (device = "sdrplay")
     /\ UNCHANGED fails
  \/ /\ fails < MaxFails /\ fails' = fails + 1
     /\ frequency_changed' = (w /\ device # "sdrplay")
     /\ UNCHANGED <<asked, tuned, answer>>

Waited ==
  IF device = "sdrplay" THEN {frequency_changed \/ rf_told}
  ELSE {frequency_changed} \cup (IF Elapsed THEN {TRUE} ELSE {})

(* A request is served: the offset is added to the frequency f.            *)
Tune(f, offset) ==
  /\ change_frequency' = FALSE /\ rf_told' = FALSE
  /\ rf_frequency' = f + offset /\ rf_frequency' \in Tunings
  /\ \E w \in Waited : SetFreq(rf_frequency', w)

(* No request: only the wait may have come to its end.                     *)
Tell ==
  /\ frequency_changed' \in Waited
  /\ UNCHANGED <<change_frequency, rf_frequency, tuned, asked, rf_told, answer,
                 fails>>

SetRfFrequency ==
  \/ change_frequency /\ Tune(rf_frequency, coarse_freq_offset)
  \/ ~change_frequency /\ Tell

----------------------------------------------------------------------------
ReportLost == tuned' = asked /\ answer' = FALSE /\ rf_told' = FALSE

(* A packet has reported rf_changed.                                       *)
Report == tuned' = asked /\ answer' = FALSE /\ rf_told' = TRUE

(* The SDRplay reads `blocks' packets.  The one that reports rf_changed is *)
(* the first on the frequency asked for, and may be any of them.           *)
ReadPacket ==
  /\ device = "sdrplay" /\ read = Nothing
  /\ \/ /\ read' = [n |-> blocks * Block, on |-> {tuned}]
        /\ UNCHANGED <<tuned, answer, rf_told>>
     \/ /\ answer
        /\ \E first \in 1..blocks :
             read' = [n |-> blocks * Block,
                      on |-> IF first = 1 THEN {asked} ELSE {tuned, asked}]
        /\ Report
  /\ UNCHANGED <<signalVars, holder, queue, reading, fillVars, rf_frequency, asked,
                 fails, update, constVars, late, raced, mixed, carried>>

(* The samples that come in: n of them, and what they were taken on.       *)
Delivered ==
  CASE device \in {"airspy", "hackrf"} -> {[n |-> Block, on |-> {tuned}]}
    [] device = "sdrplay" -> {read} \ {Nothing}
    [] device = "pluto" -> {[n |-> n, on |-> {tuned}] : n \in 1..Block}
    [] device = "usrp" -> {[n |-> n, on |-> {tuned}] : n \in 1..Block} \cup {Nothing}

Free == holder = "none" /\ Len(queue) < MaxQueue

----------------------------------------------------------------------------
(* The mutex is taken and a reset is pending: reset(), and no hand-over.   *)

ResetKeepsFill == filled' = filled /\ taken' = taken

ResetFill == filled' = 0 /\ taken' = {}

(* The pointers go back to the first buffer.  The SDRplay's len_buffer is  *)
(* a local variable of start(), which reset() cannot reach.                *)
Rewind(s) ==
  /\ out' = "a" /\ blocks' = FirstBlocks
  /\ ResetFill
  /\ len_buffer' = IF device = "sdrplay" THEN len_buffer + s.n ELSE 0
  /\ carried' = (carried \/ len_buffer' # 0)

ResetTuneUnasked ==
  \/ /\ device \in {"airspy", "sdrplay", "pluto"}
     /\ Tune(0, 0)
     /\ UNCHANGED holder
  \/ /\ device \in {"usrp", "hackrf"}
     /\ change_frequency' = FALSE /\ rf_frequency' = 0
     /\ holder' = IF device = "hackrf" THEN "device" ELSE holder
     /\ UNCHANGED <<frequency_changed, tuned, asked, rf_told, answer, fails>>

(* What reset() does about the frequency: at once, by the next block, or   *)
(* by an update() that is waited for.                                      *)
ResetTune ==
  \/ /\ device \in {"airspy", "sdrplay", "pluto"}
     /\ Tune(0, 0)
     /\ UNCHANGED holder
  \/ /\ device \in {"usrp", "hackrf"}
     /\ change_frequency' = TRUE /\ rf_frequency' = 0
     /\ holder' = IF device = "hackrf" THEN "device" ELSE holder
     /\ UNCHANGED <<frequency_changed, tuned, asked, rf_told, answer, fails>>

Reset ==
  /\ Free /\ reset
  /\ reset' = FALSE /\ coarse_freq_offset' = 0
  /\ \E s \in Delivered : Rewind(s)
  /\ ResetTune
  /\ late' = (late \/ queue # <<>>)
  /\ read' = Nothing
  /\ UNCHANGED <<queue, reading, update, constVars, raced, mixed>>

(* The HackRF's reset() goes on when the update() under way has ended.     *)
ResetEnd ==
  /\ holder = "device" /\ update = "idle"
  /\ holder' = "none" /\ update' = "wait"
  /\ UNCHANGED <<signalVars, queue, reading, fillVars, tunerVars, constVars, late,
                 raced, mixed, carried>>

----------------------------------------------------------------------------
(* The mutex is taken: requests are served, the buffer is handed over.     *)

Handed(s) ==
  [buf |-> out, len |-> len_buffer + s.n, held |-> filled + s.n,
   on |-> taken \cup s.on]

Other(b) == IF b = "a" THEN "b" ELSE "a"

SameBuffer == out

(* swap_buffer.                                                            *)
NextBuffer == Other(out)

Mixed(on) == \E t, u \in on : t # u

(* emit execute(), and the other buffer is filled next.                    *)
HandOver(s) ==
  /\ queue' = Append(queue, Handed(s))
  /\ late' = (late \/ queue # <<>>)
  /\ mixed' = (mixed \/ (frequency_changed' /\ Mixed(Handed(s).on)))
  /\ out' = NextBuffer
  /\ len_buffer' = 0 /\ blocks' = FirstBlocks
  /\ filled' = 0 /\ taken' = {}

(* The HackRF starts update() in the pool, unless one is under way.        *)
StartUpdate ==
  /\ update' = IF update = "idle" THEN "wait" ELSE update
  /\ UNCHANGED <<change_frequency, frequency_changed, rf_frequency, tuned, asked,
                 rf_told, answer, fails>>

Serve ==
  /\ Free /\ ~reset
  /\ \/ device = "hackrf" /\ StartUpdate
     \/ device # "hackrf" /\ SetRfFrequency /\ UNCHANGED update
  /\ \E s \in Delivered : HandOver(s)
  /\ read' = Nothing
  /\ UNCHANGED <<coarse_freq_offset, reset, holder, reading, constVars, raced,
                 carried>>

----------------------------------------------------------------------------
(* The mutex is not had: the block stays, unless the next has no room.     *)

FullOneLate(s) ==
  IF device = "sdrplay" THEN Block * blocks > Room - (len_buffer + s.n)
  ELSE blocks > MaxBlocks

(* The test is made before the next block, which is one packet longer on   *)
(* the SDRplay, is read.                                                   *)
Full(s) ==
  IF device = "sdrplay" THEN Block * (blocks + 1) > Room - (len_buffer + s.n)
  ELSE blocks + 1 > MaxBlocks

Keep(s) ==
  /\ ~Full(s)
  /\ blocks' = blocks + 1
  /\ len_buffer' = len_buffer + s.n
  /\ filled' = filled + s.n /\ taken' = taken \cup s.on

Drop(s) ==
  /\ Full(s)
  /\ blocks' = FirstBlocks
  /\ len_buffer' = 0 /\ filled' = 0 /\ taken' = {}

Busy ==
  /\ holder = "demodulator"
  /\ \E s \in Delivered : Keep(s) \/ Drop(s)
  /\ read' = Nothing
  /\ UNCHANGED <<signalVars, holder, queue, reading, out, rf_frequency, tuned,
                 asked, rf_told, answer, fails, update, constVars, late, raced,
                 mixed, carried>>

----------------------------------------------------------------------------
(* The HackRF's update(), in a thread of the pool, without the mutex.      *)

updateRest == <<coarse_freq_offset, reset, holder, queue, reading, fillVars,
                rf_told, answer, read, constVars, late, raced, mixed, carried>>

UpdateWait ==
  /\ update = "wait" /\ update' = "serve"
  /\ Tell
  /\ UNCHANGED <<coarse_freq_offset, reset, holder, queue, reading, fillVars, read,
                 constVars, late, raced, mixed, carried>>

ClearLate == UNCHANGED change_frequency

ClearRequest == change_frequency' = FALSE

UpdateServe ==
  /\ update = "serve"
  /\ \/ change_frequency /\ ClearRequest /\ update' = "clear"
     \/ ~change_frequency /\ update' = "idle" /\ UNCHANGED change_frequency
  /\ UNCHANGED <<updateRest, frequency_changed, rf_frequency, tuned, asked, fails>>

UpdateClear ==
  /\ update = "clear" /\ update' = "tune"
  /\ frequency_changed' = FALSE
  /\ UNCHANGED <<updateRest, change_frequency, rf_frequency, tuned, asked, fails>>

UpdateTune ==
  /\ update = "tune" /\ update' = "idle"
  /\ rf_frequency' = rf_frequency + coarse_freq_offset
  /\ rf_frequency' \in Tunings
  /\ SetFreq(rf_frequency', frequency_changed)
  /\ UNCHANGED <<coarse_freq_offset, reset, holder, queue, reading, fillVars,
                 rf_told, read, constVars, late, raced, mixed, carried,
                 change_frequency>>

Update == UpdateWait \/ UpdateServe \/ UpdateClear \/ UpdateTune

----------------------------------------------------------------------------
Demodulator == Take \/ Measure \/ AskReset \/ Release

Callback == ReadPacket \/ Reset \/ ResetEnd \/ Serve \/ Busy

Next == Demodulator \/ Callback \/ Update

Spec == Init /\ [][Next]_vars

----------------------------------------------------------------------------
Signal == [buf : {"a", "b"}, len : Nat, held : 0..Room, on : SUBSET Tunings]

TypeOK ==
  /\ device \in Devices /\ error \in Errors
  /\ change_frequency \in BOOLEAN /\ frequency_changed \in BOOLEAN
  /\ reset \in BOOLEAN /\ coarse_freq_offset \in Int
  /\ holder \in {"none", "demodulator", "device"}
  /\ queue \in Seq(Signal) /\ reading \in Signal
  /\ out \in {"a", "b"} /\ len_buffer \in Nat /\ blocks \in 1..MaxBlocks
  /\ filled \in 0..Room /\ taken \subseteq Tunings
  /\ rf_frequency \in Tunings /\ tuned \in Tunings /\ asked \in Tunings
  /\ rf_told \in BOOLEAN /\ answer \in BOOLEAN
  /\ read \in [n : 0..Room, on : SUBSET Tunings]
  /\ update \in {"idle", "wait", "serve", "clear", "tune"}
  /\ fails \in 0..MaxFails
  /\ {late, raced, mixed, carried} \subseteq BOOLEAN

(***************************************************************************)
(* The block that comes next has room in the buffer, however many were     *)
(* kept while the demodulator was busy and whatever a reset left behind    *)
(* (out_a and out_b have max_blocks blocks on every device).               *)
(***************************************************************************)
NextBlockFits ==
  IF device = "sdrplay"
  THEN filled + (IF read = Nothing THEN blocks * Block ELSE read.n) <= Room
  ELSE filled + Block <= Room

(***************************************************************************)
(* The length handed over is that of the samples written, on every device, *)
(* until the SDRplay is reset: its reset() drops the samples and leaves    *)
(* the length, a local variable of start(), and the buffer handed over     *)
(* next says more than it holds.                                           *)
(***************************************************************************)
LengthTrue ==
  ~carried => /\ len_buffer = filled
              /\ reading.len = reading.held
              /\ \A i \in 1..Len(queue) : queue[i].len = queue[i].held

(***************************************************************************)
(* No device writes into the samples being read or about to be read, as    *)
(* long as each signal is taken before the callback next has the mutex.    *)
(***************************************************************************)
BuffersApart ==
  ~late => /\ holder = "demodulator" => reading.buf # out
           /\ \A i \in 1..Len(queue) : queue[i].buf # out

(***************************************************************************)
(* A measured offset is corrected once: the tuner is only asked for the    *)
(* channel's frequency or the right one, when no call fails and the wait   *)
(* is long enough.  On the HackRF it takes that no offset is asked for     *)
(* between two steps of update(); on the SDRplay, that no buffer in which  *)
(* the tuning changes is handed over as settled, and that no signal is     *)
(* overtaken.                                                              *)
(***************************************************************************)
CorrectedOnce ==
  /\ Timely /\ fails = 0 /\ ~raced /\ ~mixed
  /\ device = "sdrplay" => ~late
  => rf_frequency \in {0, error}

(***************************************************************************)
(* The device does not believe in a frequency it has not asked for: with   *)
(* no request pending and none being served, the tuner was last asked for  *)
(* rf_frequency, whoever wrote it, the callback or the pool's thread.      *)
(***************************************************************************)
TunerFollows ==
  fails = 0 /\ ~change_frequency /\ update = "idle" => asked = rf_frequency

(***************************************************************************)
(* The SDRplay is never left waiting for a report that will not come: as   *)
(* long as no call fails, an unsettled flag means that one is due, or has  *)
(* been told and waits for the mutex.  After a failed call nothing sets    *)
(* the flag again.                                                         *)
(***************************************************************************)
ReportDue ==
  device = "sdrplay" /\ fails = 0 /\ ~frequency_changed => answer \/ rf_told
=============================================================================
