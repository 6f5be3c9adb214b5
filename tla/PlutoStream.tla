---------------------------- MODULE PlutoStream ----------------------------
(***************************************************************************)
(* The streaming of the PlutoSDR: the USB thread of                        *)
(* src/libplutosdr/usb_plutosdr.cpp, the worker of src/rx_pluto.cpp, which *)
(* is start() and never returns to the event loop before stop(), and the   *)
(* condition variable between them.  The worker holds transfer.mutex       *)
(* except while it waits, so that a callback waits for the end of a        *)
(* conversion; the USB transfer that writes into the same buffer does not. *)
(*                                                                         *)
(* ReadyKept is a slip, for the mutation runs that README.md describes.    *)
(***************************************************************************)
EXTENDS Lifecycle

VARIABLES
  usb,          \* the USB thread: "none", "test", "transfer", "lock", "notify", "ended"
  thread_stop,
  ready,
  unset,        \* history: nothing has been written to `ready' yet
  fresh,        \* history: a block came in since the last conversion began
  destroyed,    \* the iio context, over which the tuner is reached
  cut,          \* history: stop() went on with a block pending or in work
  missed        \* history: stop() notified between the test and the wait

plutoVars == <<usb, thread_stop, ready, unset, fresh, destroyed, cut, missed>>

(* No constructor sets `ready'.                                            *)
PlutoInit ==
  /\ usb = "none" /\ thread_stop = FALSE
  /\ ready \in BOOLEAN /\ unset = TRUE
  /\ fresh = FALSE /\ destroyed = FALSE /\ cut = FALSE /\ missed = FALSE

----------------------------------------------------------------------------
(* rx_pluto::start() and work().                                           *)

UsbStart ==
  /\ worker = "starting" /\ worker' = "arming"
  /\ usb' = "test" /\ thread_stop' = FALSE
  /\ UNCHANGED <<device, gui, done, streaming, is_start, early, ready, unset,
                 fresh, destroyed, cut, missed>>

Arm ==
  /\ worker = "arming" /\ worker' = "locking"
  /\ done' = TRUE
  /\ UNCHANGED <<device, gui, streaming, is_start, early, plutoVars>>

(* The worker's next step, when it changes nothing else.                   *)
Go(a, b) ==
  /\ worker = a /\ worker' = b
  /\ UNCHANGED <<device, gui, done, streaming, is_start, early, plutoVars>>

(* The lock is taken; while(done); wait(); the lock is taken again.        *)
Lock == Go("locking", "test") \/ Go("woken", "got")

Test == Go("test", IF done THEN "wait" ELSE "ended")

Wait == Go("wait", "asleep")

Spurious == Go("asleep", "woken")

ReadyKept == UNCHANGED ready

ReadyTaken == ready' = FALSE

Got ==
  /\ worker = "got"
  /\ \/ /\ ready /\ worker' = "convert"
        /\ ReadyTaken /\ unset' = FALSE /\ fresh' = FALSE
     \/ ~ready /\ worker' = "test" /\ UNCHANGED <<ready, unset, fresh>>
  /\ UNCHANGED <<device, gui, done, streaming, is_start, early, usb, thread_stop,
                 destroyed, cut, missed>>

(* The block is converted; the tuner is set when the demodulator's mutex   *)
(* is free.                                                                *)
Convert == Go("convert", "serve") \/ Go("convert", "test")

Served == Go("serve", "test")

----------------------------------------------------------------------------
(* usb_plutosdr::thread_func() and rx_pluto::rx_callback().                *)

GoUsb(a, b) ==
  /\ usb = a /\ usb' = b
  /\ UNCHANGED <<lifeVars, thread_stop, ready, unset, fresh, destroyed, cut, missed>>

(* The stream cannot be started, and the thread is over at once.           *)
UsbFails == GoUsb("test", "ended")

UsbTest == GoUsb("test", IF thread_stop THEN "ended" ELSE "transfer")

(* libusb_bulk_transfer() returns, with a block or with an error.          *)
UsbTransfer == GoUsb("transfer", "lock") \/ GoUsb("transfer", "test")

Unlocked == worker \notin {"test", "wait", "got", "convert", "serve"}

RxCallback ==
  /\ usb = "lock" /\ Unlocked
  /\ usb' = "notify"
  /\ ready' = TRUE /\ unset' = FALSE /\ fresh' = TRUE
  /\ UNCHANGED <<lifeVars, thread_stop, destroyed, cut, missed>>

Notified == worker' = IF worker = "asleep" THEN "woken" ELSE worker

UsbNotify ==
  /\ usb = "notify" /\ usb' = "test"
  /\ Notified
  /\ UNCHANGED <<device, gui, done, streaming, is_start, early, thread_stop, ready,
                 unset, fresh, destroyed, cut, missed>>

----------------------------------------------------------------------------
(* rx_pluto::stop().                                                       *)

PlutoStop ==
  /\ gui = "stop" /\ gui' = IF usb = "none" THEN "undone" ELSE "join"
  /\ thread_stop' = (thread_stop \/ usb # "none")
  /\ UNCHANGED <<device, worker, done, streaming, is_start, early, usb, ready,
                 unset, fresh, destroyed, cut, missed>>

UsbJoin ==
  /\ gui = "join" /\ usb = "ended" /\ gui' = "undone"
  /\ UNCHANGED <<device, worker, done, streaming, is_start, early, plutoVars>>

PlutoUndone ==
  /\ gui = "undone" /\ gui' = "notify"
  /\ done' = FALSE
  /\ UNCHANGED <<device, worker, streaming, is_start, early, plutoVars>>

PlutoNotify ==
  /\ gui = "notify" /\ gui' = "destroy"
  /\ Notified
  /\ missed' = (missed \/ worker = "wait")
  /\ UNCHANGED <<device, done, streaming, is_start, early, usb, thread_stop, ready,
                 unset, fresh, destroyed, cut>>

Destroy ==
  /\ gui = "destroy" /\ gui' = "waiting"
  /\ destroyed' = TRUE
  /\ cut' = (worker # "ended" /\ (ready \/ worker \in {"convert", "serve"}))
  /\ UNCHANGED <<device, worker, done, streaming, is_start, early, usb, thread_stop,
                 ready, unset, fresh, missed>>

----------------------------------------------------------------------------
PlutoWorker == UsbStart \/ Arm \/ Lock \/ Test \/ Wait \/ Got \/ Convert \/ Served

PlutoUsb == UsbTest \/ UsbTransfer \/ RxCallback \/ UsbNotify

PlutoStopping == PlutoStop \/ UsbJoin \/ PlutoUndone \/ PlutoNotify \/ Destroy

PlutoNext == PlutoWorker \/ Spurious \/ PlutoUsb \/ UsbFails \/ PlutoStopping

PlutoQuiet == worker = "ended" /\ usb = "ended"

PlutoTypeOK ==
  /\ usb \in {"none", "test", "transfer", "lock", "notify", "ended"}
  /\ {thread_stop, ready, unset, fresh, destroyed, cut, missed} \subseteq BOOLEAN

(***************************************************************************)
(* A block is converted once: whatever wakes the worker, a block has come  *)
(* in since it began its last conversion; unless it is woken before there  *)
(* was any, and finds `ready' as nobody has set it.                        *)
(***************************************************************************)
EachBlockOnce == [][worker = "got" /\ worker' = "convert" => fresh \/ unset]_worker
=============================================================================
