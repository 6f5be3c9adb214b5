----------------------------- MODULE Lifecycle -----------------------------
(***************************************************************************)
(* What starting and stopping have in common on all devices                *)
(* (src/main_window.cpp).  A session begins when main_window has           *)
(* initialised the device and started its thread; the thread runs the      *)
(* device's start(), which is its whole work on some devices.  The stop    *)
(* button emits stop_device(), a direct connection, so that stop() runs in *)
(* the GUI's thread beside start() or the driver's threads; then the GUI   *)
(* waits for the device's thread to finish.                                *)
(***************************************************************************)
EXTENDS Integers, Sequences

VARIABLES
  device,     \* main_window's id_device
  gui,        \* the GUI's thread: "idle", a step of stop(), "waiting"
  worker,     \* the device's thread: "starting", a step of start(), "started"
              \* when it has returned to the event loop
  done,       \* the loop of start() goes on while it is TRUE
  streaming,  \* device->streaming of libairspy and libhackrf
  is_start,
  early       \* history: stop() was called before start() had got so far

lifeVars == <<device, gui, worker, done, streaming, is_start, early>>

LifeInit ==
  /\ gui = "idle" /\ worker = "starting"
  /\ done = FALSE /\ streaming = FALSE /\ is_start = FALSE
  /\ early = FALSE

(* start() is past the point from which stop() is noticed.                 *)
Under == worker \notin {"starting", "submitting", "arming", "threads"}

(* on_push_button_stop_clicked(), up to the call of stop().                *)
PressStop ==
  /\ gui = "idle" /\ gui' = "stop"
  /\ early' = ~Under
  /\ UNCHANGED <<device, worker, done, streaming, is_start>>
=============================================================================
