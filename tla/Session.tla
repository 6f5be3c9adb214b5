------------------------------ MODULE Session ------------------------------
(***************************************************************************)
(* A session with one of the five devices, from the start of its thread to *)
(* the stop button: the streams of the AirSpy, the HackRF and the PlutoSDR *)
(* and the loops of the SDRplay (src/rx_sdrplay.cpp) and the USRP          *)
(* (src/rx_usrp.cpp), which are the device's thread itself.                *)
(***************************************************************************)
EXTENDS AirspyStream, HackrfStream, PlutoStream

streamVars == <<airspyVars, hackrfVars, plutoVars>>
sessionVars == <<lifeVars, streamVars>>

SessionInit ==
  /\ device \in {"airspy", "hackrf", "sdrplay", "usrp", "pluto"}
  /\ LifeInit /\ AirspyInit /\ HackrfInit /\ PlutoInit

----------------------------------------------------------------------------
(* start() of the SDRplay and the USRP.                                    *)

LoopStart ==
  /\ worker = "starting" /\ worker' = "arming"
  /\ is_start' = (device = "usrp")
  /\ UNCHANGED <<device, gui, done, streaming, early, streamVars>>

(* work() of the USRP returns when the stream cannot be made.              *)
LoopFails ==
  /\ worker = "arming" /\ device = "usrp" /\ worker' = "ended"
  /\ UNCHANGED <<device, gui, done, streaming, is_start, early, streamVars>>

LoopArm ==
  /\ worker = "arming" /\ worker' = "test"
  /\ done' = TRUE
  /\ UNCHANGED <<device, gui, streaming, is_start, early, streamVars>>

LoopTest ==
  /\ worker = "test" /\ worker' = IF done THEN "block" ELSE "ended"
  /\ UNCHANGED <<device, gui, done, streaming, is_start, early, streamVars>>

(* A block is received, or the USRP's receiver times out.                  *)
LoopBlock ==
  /\ worker = "block" /\ worker' = "test"
  /\ UNCHANGED <<device, gui, done, streaming, is_start, early, streamVars>>

(* stop().                                                                 *)
LoopStop ==
  /\ gui = "stop" /\ gui' = "waiting"
  /\ IF device = "sdrplay" THEN done' = FALSE /\ UNCHANGED is_start
     ELSE is_start' = FALSE /\ done' = (done /\ ~is_start)
  /\ UNCHANGED <<device, worker, streaming, early, streamVars>>

LoopThread == LoopStart \/ LoopArm \/ LoopTest \/ LoopBlock

LoopNext == LoopThread \/ LoopFails \/ LoopStop

----------------------------------------------------------------------------
OnAirspy(step) == device = "airspy" /\ step /\ UNCHANGED <<hackrfVars, plutoVars>>

OnHackrf(step) == device = "hackrf" /\ step /\ UNCHANGED <<airspyVars, plutoVars>>

OnPluto(step) == device = "pluto" /\ step /\ UNCHANGED <<airspyVars, hackrfVars>>

OnLoop(step) == device \in {"sdrplay", "usrp"} /\ step

SessionNext ==
  \/ PressStop /\ UNCHANGED streamVars
  \/ OnAirspy(AirspyNext) \/ OnHackrf(HackrfNext) \/ OnPluto(PlutoNext)
  \/ OnLoop(LoopNext)

SessionSpec == SessionInit /\ [][SessionNext]_sessionVars

(***************************************************************************)
(* Every thread runs: the two of the AirSpy's driver, the one of the       *)
(* HackRF's and the one of the pool, the PlutoSDR's USB thread and worker, *)
(* the loops, and stop() in the GUI's thread.  A USB transfer comes to an  *)
(* end, with a block or without, and the USB thread gets a mutex that is   *)
(* free again and again.  Nobody has to press the button.                  *)
(***************************************************************************)
SessionFairness ==
  /\ WF_sessionVars(OnAirspy(AirspyStopping) \/ OnHackrf(HackrfStopping)
                     \/ OnPluto(PlutoStopping) \/ OnLoop(LoopStop))
  /\ WF_sessionVars(OnAirspy(Consume \/ Consumed))
  /\ WF_sessionVars(OnAirspy(Handle \/ Complete \/ Push \/ Submit))
  /\ WF_sessionVars(OnHackrf(Callback \/ Execute \/ ExecuteReset \/ Finish \/ End))
  /\ WF_sessionVars(OnHackrf(Updated))
  /\ WF_sessionVars(OnPluto(PlutoWorker))
  /\ WF_sessionVars(OnPluto(PlutoUsb)) /\ SF_sessionVars(OnPluto(RxCallback))
  /\ WF_sessionVars(OnLoop(LoopThread))

FairSessionSpec == SessionSpec /\ SessionFairness

----------------------------------------------------------------------------
SessionTypeOK ==
  /\ device \in {"airspy", "hackrf", "sdrplay", "usrp", "pluto"}
  /\ gui \in {"idle", "stop", "signal", "join", "halt", "cancel", "drain", "future",
              "close", "undone", "notify", "destroy", "waiting"}
  /\ worker \in {"starting", "threads", "submitting", "arming", "started", "locking",
                 "test", "wait", "asleep", "woken", "got", "convert", "serve", "block",
                 "ended"}
  /\ {done, streaming, is_start, early} \subseteq BOOLEAN
  /\ AirspyTypeOK /\ HackrfTypeOK /\ PlutoTypeOK

(***************************************************************************)
(* Once the device is closed no thread calls it: not the HackRF's callback *)
(* nor the update() it leaves in the pool, provided that it was streaming; *)
(* and not the PlutoSDR's worker, provided that no block was pending or in *)
(* work when the context was destroyed.                                    *)
(***************************************************************************)
DeviceAlive ==
  /\ closed /\ is_start /\ ~early => callback = "none" /\ ~update
  /\ destroyed /\ ~cut /\ ~early => worker \notin {"convert", "serve"}

Quiet ==
  CASE device = "airspy" -> AirspyQuiet
    [] device = "hackrf" -> HackrfQuiet
    [] device = "pluto" -> PlutoQuiet
    [] OTHER -> worker = "ended"

(***************************************************************************)
(* The stop button ends the stream and every thread it runs in for good,   *)
(* unless it is pressed before start() has got far enough, or a transfer   *)
(* of the AirSpy has failed and left the consumer waiting, or the          *)
(* PlutoSDR's worker is notified between its test and its wait.            *)
(***************************************************************************)
StopEndsStream == gui = "stop" ~> [](Quiet \/ early \/ failed \/ missed)
=============================================================================
