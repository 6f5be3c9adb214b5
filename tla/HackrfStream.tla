---------------------------- MODULE HackrfStream ----------------------------
(***************************************************************************)
(* The streaming of the HackRF (src/libhackrf/hackrf.c) with the start()   *)
(* and stop() of src/rx_hackrf_one.cpp: a callback that runs under         *)
(* transfer_lock and may start, or wait for, the update() in a thread of   *)
(* the pool, which goes on calling the device when the callback is over.   *)
(*                                                                         *)
(* WaitFirst is a slip, for the mutation runs that README.md describes.    *)
(***************************************************************************)
EXTENDS Lifecycle

CONSTANT Count  \* TRANSFER_COUNT

ASSUME CountAssumption == Count \in Nat \ {0}

VARIABLES
  transfers_setup,
  active_transfers,
  callback,  \* under transfer_lock: "none", "execute", "reset", "finish", "end"
  update,    \* update() is queued or under way in the pool
  closed     \* the device has been freed

hackrfVars == <<transfers_setup, active_transfers, callback, update, closed>>

(* The reset() of init() has started an update().                          *)
HackrfInit ==
  /\ transfers_setup = FALSE /\ active_transfers = 0
  /\ callback = "none" /\ update = (device = "hackrf") /\ closed = FALSE

----------------------------------------------------------------------------
(* rx_hackrf_one::start().                                                 *)

(* reset() waits for the update() before and starts another.               *)
HackrfReset ==
  /\ worker = "starting" /\ worker' = "submitting"
  /\ ~update /\ update' = TRUE
  /\ UNCHANGED <<device, gui, done, streaming, is_start, early, transfers_setup,
                 active_transfers, callback, closed>>

(* hackrf_start_rx(): all transfers are submitted under the lock.          *)
HackrfSubmit ==
  /\ worker = "submitting" /\ callback = "none"
  /\ worker' = "arming"
  /\ transfers_setup' = TRUE /\ streaming' = TRUE /\ active_transfers' = Count
  /\ UNCHANGED <<device, gui, done, is_start, early, callback, update, closed>>

HackrfStartFails ==
  /\ worker = "submitting" /\ worker' = "started"
  /\ UNCHANGED <<device, gui, done, streaming, is_start, early, hackrfVars>>

HackrfArm ==
  /\ worker = "arming" /\ worker' = "started"
  /\ is_start' = TRUE
  /\ UNCHANGED <<device, gui, done, streaming, early, hackrfVars>>

----------------------------------------------------------------------------
(* hackrf_libusb_transfer_callback() and rx_execute().                     *)

(* A transfer is over: completed, or failed, or cancelled.                 *)
Callback ==
  /\ active_transfers > 0 /\ callback = "none"
  /\ \/ callback' = (IF streaming THEN "execute" ELSE "end") /\ UNCHANGED streaming
     \/ callback' = "end" /\ streaming' = FALSE
  /\ UNCHANGED <<device, gui, worker, done, is_start, early, transfers_setup,
                 active_transfers, update, closed>>

(* The buffer is handed over and an update() started if none is under way, *)
(* or kept, or a reset is asked for.                                       *)
Execute ==
  /\ callback = "execute"
  /\ \/ callback' = "finish" /\ update' = TRUE
     \/ callback' \in {"finish", "reset"} /\ UNCHANGED update
  /\ UNCHANGED <<lifeVars, transfers_setup, active_transfers, closed>>

ExecuteReset ==
  /\ callback = "reset" /\ callback' = "finish"
  /\ ~update /\ update' = TRUE
  /\ UNCHANGED <<lifeVars, transfers_setup, active_transfers, closed>>

(* Submitted again, unless the transfers are being cancelled.              *)
Finish ==
  /\ callback = "finish"
  /\ \/ transfers_setup /\ callback' = "none"
     \/ callback' = "end"
  /\ UNCHANGED <<lifeVars, transfers_setup, active_transfers, update, closed>>

End ==
  /\ callback = "end" /\ callback' = "none"
  /\ streaming' = FALSE
  /\ active_transfers' = active_transfers - 1
  /\ UNCHANGED <<device, gui, worker, done, is_start, early, transfers_setup,
                 update, closed>>

(* update() has called the device, or the pool has dropped it.             *)
Updated ==
  /\ update /\ update' = FALSE
  /\ UNCHANGED <<lifeVars, transfers_setup, active_transfers, callback, closed>>

----------------------------------------------------------------------------
(* rx_hackrf_one::stop().                                                  *)

WaitFirst == <<"future", "halt", "cancel", "drain", "close", "waiting">>

(* hackrf_stop_rx(), future.waitForFinished(), hackrf_close().             *)
StopSteps == <<"halt", "cancel", "drain", "future", "close", "waiting">>

Follows(a, b) == \E i \in 1..5 : StopSteps[i] = a /\ StopSteps[i + 1] = b

StepTo(a) == gui = a /\ \E b \in {StopSteps[i] : i \in 2..6} : Follows(a, b) /\ gui' = b

HackrfStop ==
  /\ gui = "stop"
  /\ gui' = IF is_start THEN StopSteps[1] ELSE "close"
  /\ UNCHANGED <<device, worker, done, streaming, is_start, early, hackrfVars>>

(* cancel_transfers(): the flag, then under the lock the cancellation, and *)
(* the wait for the last transfer, with the lock released.                 *)
Halt ==
  /\ StepTo("halt")
  /\ streaming' = FALSE
  /\ UNCHANGED <<device, worker, done, is_start, early, hackrfVars>>

CancelTransfers ==
  /\ StepTo("cancel")
  /\ callback = "none" /\ transfers_setup' = FALSE
  /\ UNCHANGED <<device, worker, done, streaming, is_start, early, active_transfers,
                 callback, update, closed>>

Drained ==
  /\ StepTo("drain")
  /\ callback = "none" /\ active_transfers = 0
  /\ UNCHANGED <<device, worker, done, streaming, is_start, early, hackrfVars>>

Future ==
  /\ StepTo("future")
  /\ ~update
  /\ UNCHANGED <<device, worker, done, streaming, is_start, early, hackrfVars>>

(* hackrf_close() cancels what is set up, and frees the device.            *)
CloseCancel ==
  /\ gui = "close" /\ transfers_setup /\ callback = "none"
  /\ streaming' = FALSE /\ transfers_setup' = FALSE
  /\ UNCHANGED <<device, gui, worker, done, is_start, early, active_transfers,
                 callback, update, closed>>

Close ==
  /\ gui = "close" /\ gui' = "waiting"
  /\ ~transfers_setup /\ callback = "none" /\ active_transfers = 0
  /\ closed' = TRUE
  /\ UNCHANGED <<device, worker, done, streaming, is_start, early, transfers_setup,
                 active_transfers, callback, update>>

----------------------------------------------------------------------------
HackrfStopping ==
  HackrfStop \/ Halt \/ CancelTransfers \/ Drained \/ Future \/ CloseCancel \/ Close

HackrfNext ==
  \/ HackrfReset \/ HackrfSubmit \/ HackrfStartFails \/ HackrfArm
  \/ Callback \/ Execute \/ ExecuteReset \/ Finish \/ End \/ Updated
  \/ HackrfStopping

HackrfQuiet == active_transfers = 0 /\ callback = "none" /\ ~update

HackrfTypeOK ==
  /\ transfers_setup \in BOOLEAN /\ active_transfers \in 0..Count
  /\ callback \in {"none", "execute", "reset", "finish", "end"}
  /\ update \in BOOLEAN /\ closed \in BOOLEAN
=============================================================================
