----------------------------- MODULE Receiver -----------------------------
(***************************************************************************)
(* A device and the demodulator it feeds.  The device's callback thread    *)
(* (src/rx_airspy.cpp) converts blocks of samples into one of two buffers, *)
(* hands the buffer over with a queued `execute' signal whenever try_lock  *)
(* on the demodulator's mutex succeeds, and on the same occasion serves    *)
(* the requests the demodulator has left in the shared signal_estimate.    *)
(* The demodulator's thread takes the signals from its event queue.        *)
(*                                                                         *)
(* The demodulator is the module extended; every step of this module is a  *)
(* step of it.  The offset it measures is no longer a choice: it is what   *)
(* remains of the tuner's error in the samples being read.  The gain       *)
(* control, which shares the callback but no variable, is left out.        *)
(*                                                                         *)
(* HandOverNoSwap, HandOverKeepsLen, KeepAlways, SetFreqNoWait and         *)
(* ElapsedAtOnce are slips, for the mutation runs that README.md describes. *)
(***************************************************************************)
EXTENDS Demodulator

CONSTANTS
  Block,      \* samples the driver delivers per callback
  MaxBlocks,  \* max_blocks, the room of a buffer, in blocks
  Errors,     \* what the tuner may be off by
  Tunings,    \* bound: the frequencies asked of the tuner
  MaxQueue,   \* bound: events pending in the demodulator's event queue
  MaxFails,   \* bound: calls to the tuner that fail
  Timely      \* TRUE: no signal emitted before a retune is still pending when
              \* the 100 ms wait after it ends

ASSUME BlockAssumption ==
  /\ Block \in Nat \ {0} /\ MaxBlocks \in Nat \ {0}
  /\ {k * Block : k \in 1..MaxBlocks} \subseteq BufferLens

ASSUME ErrorAssumption ==
  /\ Errors \subseteq Int /\ Tunings \subseteq Int
  /\ {e - t : e \in Errors, t \in Tunings} \subseteq Offsets
  /\ Offsets \subseteq Int /\ Zero = 0 /\ 0 \in Tunings
  /\ MaxQueue \in Nat /\ MaxFails \in Nat /\ Timely \in BOOLEAN

VARIABLES
  out,            \* the buffer being filled: "a" or "b" (ptr_out, swap_buffer)
  len_buffer,
  blocks,
  rf_frequency,   \* relative to ch_frequency
  tuned,          \* the frequency the tuner is really on, relative too
  queue,          \* the pending `execute' signals
  reading,        \* the signal the demodulator is serving, or served last
  error,          \* the tuner's error
  fails,          \* history: tuner calls that failed
  early,          \* history: a lock was resumed while a reset was pending
  late            \* history: a buffer was handed over, or the buffers reset,
                  \* with a signal still in the queue

deviceVars == <<out, len_buffer, blocks, rf_frequency, tuned, fails>>
linkVars == <<queue, reading, error, early, late>>
rvars == <<vars, deviceVars, linkVars>>

Other(b) == IF b = "a" THEN "b" ELSE "a"

(* start(): reset() has asked for the channel's frequency; it is on its    *)
(* way, or the call failed with the tuner on that frequency all the same.  *)
RInit ==
  /\ Init /\ change_frequency = FALSE /\ frequency_changed = FALSE
  /\ out = "a" /\ len_buffer = 0 /\ blocks = 1
  /\ rf_frequency = 0 /\ tuned = 0 /\ fails = 0
  /\ queue = <<>> /\ reading = [buf |-> "b", len |-> Block, tuned |-> 0]
  /\ error \in Errors
  /\ early = FALSE /\ late = FALSE

----------------------------------------------------------------------------
(* The demodulator's thread.                                               *)

Take ==
  /\ queue # <<>>
  /\ Execute(Head(queue).len)
  /\ reading' = Head(queue) /\ queue' = Tail(queue)
  /\ UNCHANGED <<deviceVars, error, early, late>>

(* What p1_symbol measures in the samples at hand.                         *)
Measured == error - reading.tuned

FindP1 ==
  /\ \E n \in 1..left, h \in 0..P1Head : P1Step(n, h, Measured)
  /\ early' = (early \/ (reset /\ p2_init' /\ ~p2_init))
  /\ UNCHANGED <<deviceVars, queue, reading, error, late>>

Work ==
  /\ Chunk \/ EndAcquire \/ Unlock \/ P1Missed \/ Symbol
  /\ UNCHANGED <<deviceVars, linkVars>>

----------------------------------------------------------------------------
(* rx_execute(), the device's callback, one block at a time.  The mutex is *)
(* free exactly while the demodulator is not in execute().                 *)

Free == pc = "idle" /\ Len(queue) < MaxQueue

ElapsedAtOnce == TRUE

(* 100 ms since the retune.  `clock' is the process time, so nothing but   *)
(* Timely relates this to the progress of the demodulator.                 *)
Elapsed == Timely => \A i \in 1..Len(queue) : queue[i].tuned = tuned

SetFreqNoWait(f) == tuned' = f /\ UNCHANGED <<frequency_changed, fails>>

(* The call to the tuner, after a look at the clock: it answers, or it     *)
(* fails and nothing is tuned.                                             *)
SetFreq(f) ==
  \/ tuned' = f /\ frequency_changed' = FALSE /\ UNCHANGED fails
  \/ /\ fails < MaxFails /\ fails' = fails + 1
     /\ frequency_changed' = frequency_changed \/ (frequency_changed' = TRUE /\ Elapsed)
     /\ UNCHANGED tuned

(* The mutex is taken and a reset is pending: reset(), and no hand-over.   *)
Reset ==
  /\ Free /\ DeviceReset
  /\ out' = "a" /\ len_buffer' = 0 /\ blocks' = 1
  /\ rf_frequency' = 0
  /\ SetFreq(0)
  /\ late' = (late \/ queue # <<>>)
  /\ UNCHANGED <<queue, reading, error, early>>

Handed == [buf |-> out, len |-> len_buffer + Block, tuned |-> tuned]

HandOverNoSwap ==
  /\ queue' = Append(queue, Handed)
  /\ late' = (late \/ queue # <<>>)
  /\ UNCHANGED out
  /\ len_buffer' = 0 /\ blocks' = 1

HandOverKeepsLen ==
  /\ queue' = Append(queue, Handed)
  /\ late' = (late \/ queue # <<>>)
  /\ out' = Other(out)
  /\ blocks' = 1 /\ UNCHANGED len_buffer

(* emit execute(), and the other buffer is filled next.                    *)
HandOver ==
  /\ queue' = Append(queue, Handed)
  /\ late' = (late \/ queue # <<>>)
  /\ out' = Other(out)
  /\ len_buffer' = 0 /\ blocks' = 1

(* change_frequency is served: the offset measured last is added.          *)
Tune ==
  /\ rf_frequency' = rf_frequency + coarse_freq_offset
  /\ rf_frequency' \in Tunings
  /\ SetFreq(rf_frequency')

NoReset == Free /\ ~reset

Serve ==
  /\ NoReset /\ ~change_frequency
  /\ HandOver
  /\ UNCHANGED <<vars, rf_frequency, tuned, fails, reading, error, early>>

ServeSettled ==
  /\ NoReset /\ ~change_frequency
  /\ DeviceSettled /\ Elapsed
  /\ HandOver
  /\ UNCHANGED <<rf_frequency, tuned, fails, reading, error, early>>

ServeTune ==
  /\ NoReset
  /\ DeviceTune /\ Tune
  /\ HandOver
  /\ UNCHANGED <<reading, error, early>>

KeepAlways == blocks' = blocks + 1 /\ len_buffer' = len_buffer + Block

(* The mutex is taken: the block stays, or the buffer is full and all it   *)
(* holds is dropped.                                                       *)
Keep ==
  IF blocks + 1 > MaxBlocks
  THEN blocks' = 1 /\ len_buffer' = 0
  ELSE blocks' = blocks + 1 /\ len_buffer' = len_buffer + Block

Busy ==
  /\ pc # "idle"
  /\ Keep
  /\ UNCHANGED <<vars, out, rf_frequency, tuned, fails, linkVars>>

----------------------------------------------------------------------------
Callback == Reset \/ Serve \/ ServeSettled \/ ServeTune \/ Busy

RNext == Take \/ FindP1 \/ Work \/ Callback

RSpec == RInit /\ [][RNext]_rvars

(***************************************************************************)
(* Both threads run.  The tuner settles, and the channel gives, again and  *)
(* again, a P1 that is recognised and decoded, and a P2 that is decoded    *)
(* when the guard interval is right.                                       *)
(***************************************************************************)
RFairness ==
  /\ WF_rvars(Take)
  /\ WF_rvars(Work /\ (Chunk \/ EndAcquire \/ Unlock \/ SymbolPartial \/ DataSymbol
                       \/ FcSymbol))
  /\ SF_rvars(Work /\ Chunk /\ left' > 0)
  /\ WF_rvars(FindP1 \/ (Work /\ P1Missed)) /\ WF_rvars(Work /\ P2Step)
  /\ WF_rvars(Callback /\ Free)
  /\ SF_rvars(ServeSettled)
  /\ SF_rvars(FindP1 /\ p1_decoded')
  /\ SF_rvars(Work /\ P2Configure /\ guard = tx.gi)
  /\ SF_rvars(Work /\ P2Frame(TRUE))

FairRSpec == RSpec /\ RFairness

----------------------------------------------------------------------------
RTypeOK ==
  /\ TypeOK
  /\ out \in {"a", "b"} /\ len_buffer \in Nat /\ blocks \in 1..MaxBlocks
  /\ rf_frequency \in Tunings /\ tuned \in Tunings
  /\ reading \in [buf : {"a", "b"}, len : BufferLens, tuned : Tunings]
  /\ queue \in Seq([buf : {"a", "b"}, len : BufferLens, tuned : Tunings])
  /\ error \in Errors
  /\ fails \in Nat /\ early \in BOOLEAN /\ late \in BOOLEAN

(***************************************************************************)
(* The next block of samples, which is written before anything is checked, *)
(* always has room in the buffer, and what is handed over has at most      *)
(* max_blocks blocks.                                                      *)
(***************************************************************************)
BlockFits ==
  /\ len_buffer = (blocks - 1) * Block
  /\ len_buffer + Block <= MaxBlocks * Block
  /\ \A i \in 1..Len(queue) : queue[i].len <= MaxBlocks * Block

(***************************************************************************)
(* The device never writes into the samples the demodulator is reading or  *)
(* is about to read, provided that the event loop takes every signal       *)
(* before the callback next gets the mutex.  The mutex by itself does not  *)
(* give this: it says that nothing is being read, not that what was handed *)
(* over has been.                                                          *)
(***************************************************************************)
BuffersApart ==
  ~late => /\ pc # "idle" => reading.buf # out
           /\ \A i \in 1..Len(queue) : queue[i].buf # out

(***************************************************************************)
(* The error is corrected once: when no call to the tuner fails, the tuner *)
(* is asked for the channel's frequency or for the right one and never for *)
(* one corrected twice from samples that were taken before the retune.     *)
(***************************************************************************)
CorrectedOnce == Timely /\ fails = 0 => rf_frequency \in {0, error}

(***************************************************************************)
(* From the P1 that sets p2_init on, no offset is corrected any more: a    *)
(* later P1 only says whether it is followed.  So the tuner must be right  *)
(* at that P1 and nobody may move it before p2_init is cleared.  That is   *)
(* so when no call to the tuner fails, unless a lock was resumed between   *)
(* the demodulator's call for a reset and the device's answer.             *)
(***************************************************************************)
LockedOnTune ==
  Timely /\ fails = 0 /\ ~early /\ p2_init => ~reset /\ error - tuned \in Fine

(***************************************************************************)
(* The composition does nothing the demodulator's module does not allow:   *)
(* whatever is proved of the module holds here.                            *)
(***************************************************************************)
DemodulatorSpec == Spec

(***************************************************************************)
(* The same pair is the AirSpy of Devices: with all that it does, the      *)
(* demodulator is no more to a device than the reduced one of that module, *)
(* so that what is checked there of five devices holds with the whole      *)
(* demodulator behind them.                                                *)
(***************************************************************************)
Seen(s) == [buf |-> s.buf, len |-> s.len, held |-> s.len, on |-> {s.tuned}]

Link == INSTANCE Devices WITH
  Devices <- {"airspy"}, device <- "airspy", NormBlocks <- 1,
  holder <- IF pc = "idle" THEN "none" ELSE "demodulator",
  queue <- [i \in 1..Len(queue) |-> Seen(queue[i])], reading <- Seen(reading),
  filled <- len_buffer, taken <- IF len_buffer = 0 THEN {} ELSE {tuned},
  asked <- tuned, rf_told <- FALSE, answer <- FALSE, read <- [n |-> 0, on |-> {}],
  update <- "idle", raced <- FALSE, mixed <- FALSE, carried <- FALSE

DevicesSpec == Link!Spec

(***************************************************************************)
(* In a channel that keeps giving usable symbols the search comes to the   *)
(* guard interval that is sent, whatever P1 and P2 symbols are missed on   *)
(* the way and however often the device is asked for a reset.              *)
(***************************************************************************)
Locks == <>(data_init # NoFrame)

(***************************************************************************)
(* Reception resumes after every loss: `synchronization takes a few        *)
(* seconds' (README.md).                                                   *)
(***************************************************************************)
Recovers == []<>(next_symbol_type = "DATA")

(***************************************************************************)
(* It does unless a lock was once resumed between the demodulator's call   *)
(* for a reset and the device's answer.                                    *)
(***************************************************************************)
RecoversUnlessEarly == <>early \/ Recovers

(***************************************************************************)
(* The strengthening of CorrectedOnce: from the moment the wait ends until *)
(* the next retune all samples in sight are of the present tuning, so that *)
(* a pending request was measured on it.                                   *)
(***************************************************************************)
TuneInv ==
  Timely /\ fails = 0 =>
    /\ tuned = rf_frequency /\ rf_frequency \in {0, error}
    /\ frequency_changed =>
         /\ \A i \in 1..Len(queue) : queue[i].tuned = tuned
         /\ pc # "idle" => reading.tuned = tuned
    /\ change_frequency => frequency_changed /\ coarse_freq_offset = error - tuned

(***************************************************************************)
(* The strengthening of LockedOnTune: the wait is over, and a request is   *)
(* only pending while the tuner is off, so that none is left to be served  *)
(* after the lock.                                                         *)
(***************************************************************************)
OnTuneInv ==
  Timely /\ fails = 0 =>
    /\ change_frequency => error - tuned \notin Fine
    /\ ~early /\ p2_init => ~reset /\ frequency_changed /\ error - tuned \in Fine
=============================================================================
