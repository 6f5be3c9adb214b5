---------------------------- MODULE AirspyStream ----------------------------
(***************************************************************************)
(* The streaming of the AirSpy driver (src/libairspy/src/airspy.c), which  *)
(* rx_airspy's start() and stop() call: a transfer thread puts the buffers *)
(* that USB has filled into a ring, giving the transfer the ring's buffer  *)
(* in exchange; a consumer thread takes them out and calls rx_callback.    *)
(* What a thread does under consumer_mp is one step.  Only the choice of   *)
(* buffers is modelled, not the samples.                                   *)
(*                                                                         *)
(* RoomAlways and SignalNobody are slips, for the mutation runs that       *)
(* README.md describes.                                                    *)
(***************************************************************************)
EXTENDS Lifecycle

CONSTANTS
  Slots,     \* RAW_BUFFER_COUNT
  Transfers  \* the USB transfers

ASSUME RingAssumption == Slots \in Nat \ {0} /\ Transfers # {}

VARIABLES
  stop_requested,
  buffer,                 \* usb_transfer->buffer of each transfer
  received_samples_queue,
  received_samples_queue_head,
  received_samples_queue_tail,
  received_buffer_count,
  consumer,  \* "none", "ready", "asleep", "work", "ended"
  input_samples,
  transfer,  \* the transfer thread: "none", "test", "events", "push", "submit", "ended"
  pushing,   \* the transfer whose callback it is in
  failed     \* history: a transfer failed

ringVars == <<buffer, received_samples_queue, received_samples_queue_head,
              received_samples_queue_tail, received_buffer_count, input_samples>>
threadVars == <<consumer, transfer, pushing>>
airspyVars == <<ringVars, threadVars, stop_requested, failed>>

Places == 0..(Slots - 1)

(* allocate_transfers(): a buffer for each slot and each transfer.         *)
InSlot(s) == [slot |-> s]
InTransfer(t) == [transfer |-> t]
Buffers == {InSlot(s) : s \in Places} \cup {InTransfer(t) : t \in Transfers}

AirspyInit ==
  /\ stop_requested = FALSE
  /\ buffer = [t \in Transfers |-> InTransfer(t)]
  /\ received_samples_queue = [s \in Places |-> InSlot(s)]
  /\ received_samples_queue_head = 0 /\ received_samples_queue_tail = 0
  /\ received_buffer_count = 0
  /\ consumer = "none" /\ input_samples = InSlot(0)
  /\ transfer = "none" /\ pushing \in Transfers
  /\ failed = FALSE

Going == streaming /\ ~stop_requested

----------------------------------------------------------------------------
(* rx_airspy::start(): create_io_threads() sets the flag, submits the      *)
(* transfers and creates the threads.  When a transfer cannot be submitted *)
(* the flag stays set and no thread is created.                            *)

AirspyStart ==
  /\ worker = "starting"
  /\ IF streaming \/ stop_requested THEN worker' = "started" /\ UNCHANGED streaming
     ELSE worker' = "threads" /\ streaming' = TRUE
  /\ UNCHANGED <<device, gui, done, is_start, early, airspyVars>>

AirspyThreads ==
  /\ worker = "threads" /\ worker' = "started"
  /\ received_samples_queue_head' = 0 /\ received_samples_queue_tail' = 0
  /\ received_buffer_count' = 0
  /\ consumer' = "ready" /\ transfer' = "test"
  /\ UNCHANGED <<device, gui, done, streaming, is_start, early, buffer,
                 received_samples_queue, input_samples, pushing, stop_requested,
                 failed>>

AirspyStartFails ==
  /\ worker = "threads" /\ worker' = "started"
  /\ UNCHANGED <<device, gui, done, streaming, is_start, early, airspyVars>>

----------------------------------------------------------------------------
(* consumer_threadproc().                                                  *)

Take ==
  /\ input_samples' = received_samples_queue[received_samples_queue_tail]
  /\ received_samples_queue_tail' = (received_samples_queue_tail + 1) % Slots

Consume ==
  /\ consumer = "ready"
  /\ \/ ~Going /\ consumer' = "ended"
        /\ UNCHANGED <<input_samples, received_samples_queue_tail>>
     \/ Going /\ received_buffer_count = 0 /\ consumer' = "asleep"
        /\ UNCHANGED <<input_samples, received_samples_queue_tail>>
     \/ Going /\ received_buffer_count # 0 /\ consumer' = "work" /\ Take
  /\ UNCHANGED <<lifeVars, buffer, received_samples_queue,
                 received_samples_queue_head, received_buffer_count, transfer,
                 pushing, stop_requested, failed>>

(* The call back has returned 0, as rx_airspy's always does.               *)
Consumed ==
  /\ consumer = "work" /\ consumer' = "ready"
  /\ received_buffer_count' = received_buffer_count - 1
  /\ UNCHANGED <<lifeVars, buffer, received_samples_queue,
                 received_samples_queue_head, received_samples_queue_tail,
                 input_samples, transfer, pushing, stop_requested, failed>>

(* pthread_cond_wait() may return without a signal.                        *)
Awake ==
  /\ consumer = "asleep" /\ consumer' = "ready"
  /\ UNCHANGED <<lifeVars, ringVars, transfer, pushing, stop_requested, failed>>

SignalConsumer == consumer' = IF consumer = "asleep" THEN "ready" ELSE consumer

----------------------------------------------------------------------------
(* transfer_threadproc() and airspy_libusb_transfer_callback().            *)

Handle ==
  /\ transfer = "test"
  /\ transfer' = IF Going THEN "events" ELSE "ended"
  /\ UNCHANGED <<lifeVars, ringVars, consumer, pushing, stop_requested, failed>>

(* A transfer has completed, or nothing has for half a second.             *)
Complete ==
  /\ transfer = "events"
  /\ \/ Going /\ transfer' = "push" /\ pushing' \in Transfers
     \/ transfer' = "test" /\ UNCHANGED pushing
  /\ UNCHANGED <<lifeVars, ringVars, consumer, stop_requested, failed>>

(* It has failed, or cannot be submitted again.  Nobody is signalled.      *)
TransferFails ==
  /\ transfer \in {"events", "submit"} /\ transfer' = "test"
  /\ streaming' = FALSE /\ failed' = TRUE
  /\ UNCHANGED <<device, gui, worker, done, is_start, early, ringVars, consumer,
                 pushing, stop_requested>>

RoomAlways == TRUE

Room == received_buffer_count < Slots

(* The buffers are exchanged; when the ring is full the samples are lost   *)
(* and the transfer keeps its own.                                         *)
Push ==
  /\ transfer = "push" /\ transfer' = "submit"
  /\ \/ /\ Room
        /\ received_samples_queue' =
             [received_samples_queue EXCEPT ![received_samples_queue_head] = buffer[pushing]]
        /\ buffer' =
             [buffer EXCEPT ![pushing] = received_samples_queue[received_samples_queue_head]]
        /\ received_samples_queue_head' = (received_samples_queue_head + 1) % Slots
        /\ received_buffer_count' = received_buffer_count + 1
        /\ SignalConsumer
     \/ /\ ~Room
        /\ UNCHANGED <<received_samples_queue, buffer, received_samples_queue_head,
                       received_buffer_count, consumer>>
  /\ UNCHANGED <<lifeVars, received_samples_queue_tail, input_samples, pushing,
                 stop_requested, failed>>

Submit ==
  /\ transfer = "submit" /\ transfer' = "test"
  /\ UNCHANGED <<lifeVars, ringVars, consumer, pushing, stop_requested, failed>>

----------------------------------------------------------------------------
(* rx_airspy::stop(): airspy_stop_rx(), which is kill_io_threads().        *)

AirspyStop ==
  /\ gui = "stop"
  /\ \/ streaming /\ stop_requested' = TRUE /\ gui' = "signal"
     \/ ~streaming /\ gui' = "waiting" /\ UNCHANGED stop_requested
  /\ UNCHANGED <<device, worker, done, streaming, is_start, early, ringVars,
                 threadVars, failed>>

SignalNobody == UNCHANGED consumer

WakeConsumer == SignalConsumer

AirspySignal ==
  /\ gui = "signal" /\ gui' = "join"
  /\ WakeConsumer
  /\ UNCHANGED <<device, worker, done, streaming, is_start, early, ringVars,
                 transfer, pushing, stop_requested, failed>>

AirspyJoin ==
  /\ gui = "join" /\ transfer = "ended" /\ consumer = "ended"
  /\ gui' = "waiting"
  /\ stop_requested' = FALSE /\ streaming' = FALSE
  /\ UNCHANGED <<device, worker, done, is_start, early, ringVars, threadVars, failed>>

----------------------------------------------------------------------------
AirspyStopping == AirspyStop \/ AirspySignal \/ AirspyJoin

AirspyNext ==
  \/ AirspyStart \/ AirspyThreads \/ AirspyStartFails
  \/ Consume \/ Consumed \/ Awake
  \/ Handle \/ Complete \/ Push \/ Submit \/ TransferFails
  \/ AirspyStopping

AirspyQuiet == {consumer, transfer} \subseteq {"none", "ended"}

AirspyTypeOK ==
  /\ stop_requested \in BOOLEAN /\ failed \in BOOLEAN
  /\ buffer \in [Transfers -> Buffers]
  /\ received_samples_queue \in [Places -> Buffers]
  /\ received_samples_queue_head \in Places /\ received_samples_queue_tail \in Places
  /\ received_buffer_count \in 0..Slots
  /\ consumer \in {"none", "ready", "asleep", "work", "ended"}
  /\ input_samples \in Buffers
  /\ transfer \in {"none", "test", "events", "push", "submit", "ended"}
  /\ pushing \in Transfers

(***************************************************************************)
(* A buffer is in one place, a transfer or a slot, however they have been  *)
(* exchanged, and the one the consumer reads is not given back to USB      *)
(* meanwhile, although its slot is taken off the ring before it is read:   *)
(* it is still counted.                                                    *)
(***************************************************************************)
BuffersOwned ==
  /\ \A t, u \in Transfers : buffer[t] = buffer[u] => t = u
  /\ \A r, s \in Places :
       received_samples_queue[r] = received_samples_queue[s] => r = s
  /\ \A t \in Transfers, s \in Places : buffer[t] # received_samples_queue[s]
  /\ consumer = "work" => \A t \in Transfers : buffer[t] # input_samples
=============================================================================
