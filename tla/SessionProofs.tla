--------------------------- MODULE SessionProofs ---------------------------
(* Proofs about Session, for any number of slots and transfers.            *)
EXTENDS Session, TLAPS

----------------------------------------------------------------------------
(* The ring of the AirSpy's driver.                                        *)

Busy == IF consumer = "work" THEN 1 ELSE 0

(* The slot before, around the ring.                                       *)
Before(s) == IF s = 0 THEN Slots - 1 ELSE s - 1

(***************************************************************************)
(* From tail to head lie the buffers counted, less the one being read; and *)
(* that one is still in the slot before tail, which is why it cannot be    *)
(* given away while it is counted.                                         *)
(***************************************************************************)
Ring ==
  /\ Busy <= received_buffer_count
  /\ LET n == received_samples_queue_tail + received_buffer_count - Busy
     IN  received_samples_queue_head \in {n, n - Slots}
  /\ consumer = "work" =>
       input_samples = received_samples_queue[Before(received_samples_queue_tail)]

(* No buffer is in two places.                                             *)
Apart ==
  /\ \A t, u \in Transfers : buffer[t] = buffer[u] => t = u
  /\ \A r, s \in Places :
       received_samples_queue[r] = received_samples_queue[s] => r = s
  /\ \A t \in Transfers, s \in Places : buffer[t] # received_samples_queue[s]

RingInv == AirspyTypeOK /\ Ring /\ Apart

LEMMA Wrap ==
  ASSUME NEW x \in Places
  PROVE  (x + 1) % Slots = IF x = Slots - 1 THEN 0 ELSE x + 1
BY RingAssumption DEF Places

LEMMA RingInit == AirspyInit => RingInv
<1> SUFFICES ASSUME AirspyInit PROVE RingInv
  OBVIOUS
<1>1. /\ \A s \in Places : InSlot(s) \in Buffers
      /\ \A t \in Transfers : InTransfer(t) \in Buffers
  BY DEF Buffers
<1>2. 0 \in Places /\ 0 \in 0..Slots
  BY RingAssumption DEF Places
<1>3. AirspyTypeOK
  BY <1>1, <1>2 DEF AirspyInit, AirspyTypeOK
<1>4. Ring
  BY <1>2, RingAssumption DEF AirspyInit, Ring, Busy
<1>5. \A r, s \in Places : InSlot(r) = InSlot(s) => r = s
  BY DEF InSlot
<1>6. \A t, u \in Transfers : InTransfer(t) = InTransfer(u) => t = u
  BY DEF InTransfer
<1>7. \A t \in Transfers, s \in Places : InTransfer(t) # InSlot(s)
  <2> SUFFICES ASSUME NEW t \in Transfers, NEW s \in Places, InTransfer(t) = InSlot(s)
               PROVE  FALSE
    OBVIOUS
  <2>1. DOMAIN InTransfer(t) = {"transfer"} /\ DOMAIN InSlot(s) = {"slot"}
    BY DEF InTransfer, InSlot
  <2> QED
    BY <2>1
<1>8. Apart
  BY <1>5, <1>6, <1>7 DEF AirspyInit, Apart
<1> QED
  BY <1>3, <1>4, <1>8 DEF RingInv

(* Taking a buffer off the ring.                                           *)
LEMMA ConsumeStep == RingInv /\ Consume => RingInv'
<1> SUFFICES ASSUME RingInv, Consume PROVE RingInv'
  OBVIOUS
<1> USE DEF RingInv
<1>1. /\ received_samples_queue_tail \in Places /\ received_buffer_count \in 0..Slots
      /\ received_samples_queue_head \in Places /\ Slots \in Nat \ {0}
  BY RingAssumption DEF AirspyTypeOK
<1>2. UNCHANGED <<buffer, received_samples_queue, received_samples_queue_head,
                  received_buffer_count, transfer, pushing, stop_requested, failed>>
  BY DEF Consume
<1>3. CASE consumer' = "work" /\ Take /\ received_buffer_count # 0
  <2>1. received_samples_queue_tail' = IF received_samples_queue_tail = Slots - 1
                                       THEN 0 ELSE received_samples_queue_tail + 1
    BY <1>1, <1>3, Wrap DEF Take
  <2>2. received_samples_queue_tail' \in Places
        /\ Before(received_samples_queue_tail') = received_samples_queue_tail
    BY <1>1, <2>1 DEF Before, Places
  <2>3. Ring'
    <3>1. consumer = "ready" /\ Busy = 0 /\ Busy' = 1
      BY <1>3 DEF Consume, Busy
    <3>2. Busy' <= received_buffer_count'
      BY <1>1, <1>2, <1>3, <3>1
    <3>3. LET n == received_samples_queue_tail' + received_buffer_count' - Busy'
          IN  received_samples_queue_head' \in {n, n - Slots}
      BY <1>1, <1>2, <1>3, <2>1, <3>1 DEF Ring, Places
    <3>4. input_samples' = received_samples_queue'[Before(received_samples_queue_tail')]
      BY <1>2, <1>3, <2>2 DEF Take
    <3> QED
      BY <3>2, <3>3, <3>4 DEF Ring, Before
  <2>4. input_samples' \in Buffers
    BY <1>1, <1>3 DEF Take, AirspyTypeOK
  <2> QED
    BY <1>2, <1>3, <2>2, <2>3, <2>4 DEF AirspyTypeOK, Apart
<1>4. CASE /\ consumer' \in {"asleep", "ended"}
           /\ UNCHANGED <<input_samples, received_samples_queue_tail>>
  <2>1. Busy = 0 /\ Busy' = 0
    BY <1>4 DEF Consume, Busy
  <2> QED
    BY <1>2, <1>4, <2>1 DEF AirspyTypeOK, Apart, Ring
<1> QED
  BY <1>3, <1>4 DEF Consume

LEMMA ConsumedStep == RingInv /\ Consumed => RingInv'
<1> SUFFICES ASSUME RingInv, Consumed PROVE RingInv'
  OBVIOUS
<1>1. /\ received_samples_queue_tail \in Places /\ received_buffer_count \in 0..Slots
      /\ received_samples_queue_head \in Places /\ Slots \in Nat \ {0}
  BY RingAssumption DEF RingInv, AirspyTypeOK
<1>2. Busy = 1 /\ Busy' = 0 /\ received_buffer_count' = received_buffer_count - 1
  BY DEF Consumed, Busy
<1>3. received_buffer_count' \in 0..Slots
  BY <1>1, <1>2 DEF RingInv, Ring
<1>4. Ring'
  BY <1>1, <1>2, <1>3 DEF RingInv, Ring, Consumed, Places
<1> QED
  BY <1>3, <1>4 DEF Consumed, RingInv, AirspyTypeOK, Apart

(* A full buffer for an empty one.                                         *)
LEMMA PushStep == RingInv /\ Push => RingInv'
<1> SUFFICES ASSUME RingInv, Push PROVE RingInv'
  OBVIOUS
<1> DEFINE head == received_samples_queue_head
           tail == received_samples_queue_tail
           q == received_samples_queue
<1>1. /\ tail \in Places /\ received_buffer_count \in 0..Slots /\ head \in Places
      /\ Slots \in Nat \ {0} /\ pushing \in Transfers
      /\ q \in [Places -> Buffers] /\ buffer \in [Transfers -> Buffers]
  BY RingAssumption DEF RingInv, AirspyTypeOK
<1>2. UNCHANGED <<tail, input_samples, pushing, stop_requested, failed>>
      /\ transfer' = "submit"
  BY DEF Push
<1>3. CASE /\ Room
           /\ q' = [q EXCEPT ![head] = buffer[pushing]]
           /\ buffer' = [buffer EXCEPT ![pushing] = q[head]]
           /\ head' = (head + 1) % Slots
           /\ received_buffer_count' = received_buffer_count + 1
           /\ SignalConsumer
  <2>1. head' = IF head = Slots - 1 THEN 0 ELSE head + 1
    BY <1>1, <1>3, Wrap
  <2>2. received_buffer_count' \in 0..Slots /\ head' \in Places
    BY <1>1, <1>3, <2>1 DEF Room, Places
  <2>3. /\ consumer' \in {"none", "ready", "asleep", "work", "ended"}
        /\ consumer' = "work" <=> consumer = "work"
    BY <1>3 DEF SignalConsumer, RingInv, AirspyTypeOK
  <2>4. Busy' = Busy /\ Busy \in {0, 1}
    BY <2>3 DEF Busy
  <2>5. AirspyTypeOK'
    BY <1>1, <1>2, <1>3, <2>2, <2>3 DEF RingInv, AirspyTypeOK
  <2>6. LET n == tail' + received_buffer_count' - Busy' IN head' \in {n, n - Slots}
    <3>1. LET n == tail + received_buffer_count - Busy IN head \in {n, n - Slots}
      BY DEF RingInv, Ring
    <3>2. tail' = tail /\ received_buffer_count' = received_buffer_count + 1
      BY <1>2, <1>3
    <3>3. head \in Int /\ tail \in Int /\ tail < Slots /\ 0 <= tail /\ Slots \in Int
          /\ received_buffer_count \in Int /\ 0 <= head /\ head < Slots
          /\ Busy \in Int
      BY <1>1, <2>4 DEF Places
    <3>4. received_buffer_count < Slots /\ 0 <= received_buffer_count
      BY <1>1, <1>3 DEF Room
    <3>5. Busy <= received_buffer_count
      BY DEF RingInv, Ring
    <3> HIDE DEF head, tail, q
    <3> QED
      BY <2>1, <2>4, <3>1, <3>2, <3>3, <3>4, <3>5
  <2>7. consumer = "work" => head # Before(tail) /\ Before(tail) \in Places
    <3> SUFFICES ASSUME consumer = "work"
                 PROVE  head # Before(tail) /\ Before(tail) \in Places
      OBVIOUS
    <3>1. Busy = 1
      BY DEF Busy
    <3> QED
      BY <1>1, <1>3, <3>1 DEF RingInv, Ring, Room, Before, Places
  <2>8. Ring'
    <3>1. Busy' <= received_buffer_count'
      BY <1>1, <1>3, <2>4 DEF RingInv, Ring
    <3>2. consumer' = "work" => input_samples' = q'[Before(tail')]
      <4> SUFFICES ASSUME consumer = "work" PROVE input_samples = q'[Before(tail)]
        BY <1>2, <2>3 DEF Before
      <4> QED
        BY <1>1, <1>3, <2>7 DEF RingInv, Ring
    <3> QED
      BY <2>6, <3>1, <3>2 DEF Ring, Before
  <2>9. Apart'
    <3>1. \A r, s \in Places : q'[r] = q'[s] => r = s
      BY <1>1, <1>3 DEF RingInv, Apart
    <3>2. \A t, u \in Transfers : buffer'[t] = buffer'[u] => t = u
      BY <1>1, <1>3 DEF RingInv, Apart
    <3>3. \A t \in Transfers, s \in Places : buffer'[t] # q'[s]
      BY <1>1, <1>3 DEF RingInv, Apart
    <3> QED
      BY <3>1, <3>2, <3>3 DEF Apart
  <2> QED
    BY <2>5, <2>8, <2>9 DEF RingInv
<1>4. CASE UNCHANGED <<q, buffer, head, received_buffer_count, consumer>>
  BY <1>1, <1>2, <1>4 DEF RingInv, AirspyTypeOK, Ring, Apart, Busy, Before
<1> QED
  BY <1>3, <1>4 DEF Push

LEMMA AirspyStep == RingInv /\ AirspyNext => RingInv'
<1> SUFFICES ASSUME RingInv, AirspyNext PROVE RingInv'
  OBVIOUS
<1>0. ASSUME UNCHANGED ringVars, UNCHANGED pushing, stop_requested' \in BOOLEAN,
             failed' \in BOOLEAN,
             consumer' \in {"none", "ready", "asleep", "work", "ended"},
             transfer' \in {"none", "test", "events", "push", "submit", "ended"},
             consumer' = "work" <=> consumer = "work"
      PROVE  RingInv'
  <2>1. Busy' = Busy
    BY <1>0 DEF Busy
  <2> QED
    BY <1>0, <2>1 DEF RingInv, AirspyTypeOK, Ring, Before, Apart, ringVars
<1> RingInv /\ AirspyTypeOK
  BY DEF RingInv
<1>1. CASE AirspyStart \/ AirspyStartFails
  BY <1>0, <1>1 DEF AirspyStart, AirspyStartFails, airspyVars, threadVars, AirspyTypeOK
<1>2. CASE AirspyThreads
  <2>1. 0 \in Places /\ 0 \in 0..Slots
    BY RingAssumption DEF Places
  <2>2. AirspyTypeOK'
    BY <1>2, <2>1 DEF AirspyThreads, AirspyTypeOK
  <2>3. Ring'
    BY <1>2, RingAssumption DEF AirspyThreads, Ring, Busy
  <2>4. Apart'
    BY <1>2 DEF AirspyThreads, RingInv, Apart
  <2> QED
    BY <2>2, <2>3, <2>4 DEF RingInv
<1>3. CASE Awake \/ Handle \/ Submit
  BY <1>0, <1>3 DEF Awake, Handle, Submit, AirspyTypeOK
<1>4. CASE Complete
  <2>1. /\ UNCHANGED ringVars /\ consumer' = consumer
        /\ stop_requested' = stop_requested /\ failed' = failed
    BY <1>4 DEF Complete
  <2>2. pushing' \in Transfers /\ transfer' \in {"push", "test"}
    BY <1>4 DEF Complete, AirspyTypeOK
  <2>3. Busy' = Busy
    BY <2>1 DEF Busy
  <2> QED
    BY <2>1, <2>2, <2>3 DEF RingInv, AirspyTypeOK, Ring, Before, Apart, ringVars
<1>5. CASE TransferFails
  <2>1. failed' \in BOOLEAN
    BY <1>5 DEF TransferFails
  <2> QED
    BY <1>0, <1>5, <2>1 DEF TransferFails, AirspyTypeOK
<1>6. CASE AirspyStop
  <2>1. stop_requested' \in BOOLEAN
    BY <1>6 DEF AirspyStop, AirspyTypeOK
  <2> QED
    BY <1>0, <1>6, <2>1 DEF AirspyStop, threadVars, AirspyTypeOK
<1>7. CASE AirspySignal
  BY <1>0, <1>7 DEF AirspySignal, WakeConsumer, SignalConsumer, AirspyTypeOK
<1>8. CASE AirspyJoin
  <2>1. stop_requested' \in BOOLEAN
    BY <1>8 DEF AirspyJoin
  <2> QED
    BY <1>0, <1>8, <2>1 DEF AirspyJoin, threadVars, AirspyTypeOK
<1> QED
  BY ConsumeStep, ConsumedStep, PushStep, <1>1, <1>2, <1>3, <1>4, <1>5, <1>6, <1>7, <1>8
     DEF AirspyNext, AirspyStopping

LEMMA RingStep == RingInv /\ [SessionNext]_sessionVars => RingInv'
<1>1. ASSUME RingInv, UNCHANGED airspyVars PROVE RingInv'
  <2>1. Busy' = Busy
    BY <1>1 DEF airspyVars, threadVars, Busy
  <2> QED
    BY <1>1, <2>1 DEF RingInv, AirspyTypeOK, Ring, Before, Apart, airspyVars, ringVars,
                      threadVars
<1>2. ASSUME LoopNext PROVE UNCHANGED airspyVars
  BY <1>2 DEF LoopNext, LoopThread, LoopStart, LoopFails, LoopArm, LoopTest, LoopBlock,
              LoopStop, streamVars
<1> QED
  BY <1>1, <1>2, AirspyStep
     DEF SessionNext, OnAirspy, OnHackrf, OnPluto, OnLoop, streamVars, sessionVars

(* However often the buffers are exchanged, USB and the consumer never     *)
(* have the same one, for any length of the ring.                          *)
THEOREM BuffersOwnedHolds == SessionSpec => []BuffersOwned
<1>1. RingInv => BuffersOwned
  <2> SUFFICES ASSUME RingInv, consumer = "work", NEW t \in Transfers,
                      buffer[t] = input_samples
               PROVE  FALSE
    BY DEF RingInv, Apart, BuffersOwned
  <2>1. Before(received_samples_queue_tail) \in Places
    BY RingAssumption DEF RingInv, AirspyTypeOK, Before, Places
  <2> QED
    BY <2>1 DEF RingInv, Ring, Apart
<1> QED
  BY <1>1, RingInit, RingStep, PTL DEF SessionSpec, SessionInit

----------------------------------------------------------------------------
(* The other threads.                                                      *)

LEMMA HackrfSteps ==
  /\ StopSteps[1] = "halt"
  /\ StepTo("halt") => gui = "halt" /\ gui' = "cancel"
  /\ StepTo("cancel") => gui = "cancel" /\ gui' = "drain"
  /\ StepTo("drain") => gui = "drain" /\ gui' = "future"
  /\ StepTo("future") => gui = "future" /\ gui' = "close"
<1>1. /\ StopSteps[1] = "halt" /\ StopSteps[2] = "cancel" /\ StopSteps[3] = "drain"
      /\ StopSteps[4] = "future" /\ StopSteps[5] = "close" /\ StopSteps[6] = "waiting"
  BY DEF StopSteps
<1>2. ASSUME NEW a, NEW b, Follows(a, b)
      PROVE  \/ a = "halt" /\ b = "cancel"
             \/ a = "cancel" /\ b = "drain"
             \/ a = "drain" /\ b = "future"
             \/ a = "future" /\ b = "close"
             \/ a = "close" /\ b = "waiting"
  <2>1. PICK i \in 1..5 : StopSteps[i] = a /\ StopSteps[i + 1] = b
    BY <1>2 DEF Follows
  <2>2. i = 1 \/ i = 2 \/ i = 3 \/ i = 4 \/ i = 5
    OBVIOUS
  <2> QED
    BY <1>1, <2>1, <2>2
<1>3. ASSUME NEW a, StepTo(a)
      PROVE  /\ gui = a
             /\ \/ a = "halt" /\ gui' = "cancel"
                \/ a = "cancel" /\ gui' = "drain"
                \/ a = "drain" /\ gui' = "future"
                \/ a = "future" /\ gui' = "close"
                \/ a = "close" /\ gui' = "waiting"
  BY <1>2, <1>3 DEF StepTo
<1> QED
  BY <1>1, <1>3

LifeTypeOK ==
  /\ device \in {"airspy", "hackrf", "sdrplay", "usrp", "pluto"}
  /\ gui \in {"idle", "stop", "signal", "join", "halt", "cancel", "drain", "future",
              "close", "undone", "notify", "destroy", "waiting"}
  /\ worker \in {"starting", "threads", "submitting", "arming", "started", "locking",
                 "test", "wait", "asleep", "woken", "got", "convert", "serve", "block",
                 "ended"}
  /\ {done, streaming, is_start, early} \subseteq BOOLEAN

(* Nobody starts once stop() has been called in time.                      *)
InTime == gui # "idle" /\ ~early => Under

(***************************************************************************)
(* The HackRF: a transfer that is over is still counted while its callback *)
(* runs, so that no callback is left when none is counted; and update() is *)
(* only started by a callback.                                             *)
(***************************************************************************)
HackrfInv ==
  /\ HackrfTypeOK
  /\ callback # "none" => active_transfers > 0
  /\ closed => device = "hackrf" /\ gui = "waiting"
  /\ device = "hackrf" /\ is_start /\ ~early =>
       /\ gui \in {"future", "close", "waiting"} => active_transfers = 0
       /\ gui \in {"close", "waiting"} => ~update

(***************************************************************************)
(* The PlutoSDR: when its USB thread has ended nothing makes a block ready *)
(* any more, and the worker only leaves its wait to look.                  *)
(***************************************************************************)
PlutoInv ==
  /\ PlutoTypeOK
  /\ ready => fresh \/ unset
  /\ destroyed => device = "pluto" /\ gui = "waiting"
  /\ device = "pluto" =>
       /\ usb = "none" => worker = "starting"
       /\ gui \in {"undone", "notify", "destroy", "waiting"} /\ ~early => usb = "ended"
       /\ destroyed /\ ~cut /\ ~early =>
            worker = "ended" \/ (~ready /\ worker \notin {"convert", "serve"})

ThreadsInv == LifeTypeOK /\ InTime /\ HackrfInv /\ PlutoInv

LEMMA ThreadsInit == SessionInit => ThreadsInv
<1> SUFFICES ASSUME SessionInit PROVE ThreadsInv
  OBVIOUS
<1>1. LifeTypeOK /\ InTime
  BY DEF SessionInit, LifeInit, LifeTypeOK, InTime
<1>2. update \in BOOLEAN
  BY DEF SessionInit, HackrfInit
<1>3. HackrfInv
  <2>1. /\ transfers_setup = FALSE /\ active_transfers = 0 /\ callback = "none"
        /\ closed = FALSE /\ gui = "idle"
    BY DEF SessionInit, LifeInit, HackrfInit
  <2>2. HackrfTypeOK
    <3>1. active_transfers \in 0..Count
      BY <2>1, CountAssumption
    <3>2. transfers_setup \in BOOLEAN /\ closed \in BOOLEAN
      BY <2>1, Zenon
    <3> QED
      BY <1>2, <2>1, <3>1, <3>2 DEF HackrfTypeOK
  <2> QED
    BY <2>1, <2>2 DEF HackrfInv
<1>4. PlutoInv
  BY DEF SessionInit, LifeInit, PlutoInit, PlutoInv, PlutoTypeOK
<1> QED
  BY <1>1, <1>3, <1>4 DEF ThreadsInv

LEMMA PressStep ==
  ASSUME ThreadsInv, PressStop, UNCHANGED streamVars
  PROVE  ThreadsInv'
<1>1. UNCHANGED <<device, worker, done, streaming, is_start, hackrfVars, plutoVars>>
      /\ gui = "idle" /\ gui' = "stop"
  BY DEF PressStop, streamVars
<1>2. early' \in BOOLEAN /\ (~early' => Under)
  BY DEF PressStop
<1>3. LifeTypeOK'
  BY <1>1, <1>2 DEF ThreadsInv, LifeTypeOK
<1>4. InTime'
  BY <1>1, <1>2 DEF InTime, Under
<1>5. HackrfInv'
  BY <1>1 DEF ThreadsInv, HackrfInv, HackrfTypeOK, hackrfVars
<1>6. PlutoInv'
  BY <1>1 DEF ThreadsInv, PlutoInv, PlutoTypeOK, plutoVars
<1> QED
  BY <1>3, <1>4, <1>5, <1>6 DEF ThreadsInv

LEMMA LoopThreads ==
  ASSUME ThreadsInv, LoopNext, device \in {"sdrplay", "usrp"}
  PROVE  ThreadsInv'
<1>1. UNCHANGED <<device, hackrfVars, plutoVars>> /\ early' = early
      /\ (gui' = gui \/ (gui = "stop" /\ gui' = "waiting"))
  BY DEF LoopNext, LoopThread, LoopStart, LoopFails, LoopArm, LoopTest, LoopBlock,
         LoopStop, streamVars
<1>2. /\ worker' \in {"arming", "test", "block", "ended", worker}
      /\ worker' = "arming" => worker \in {"starting", "arming"}
  BY DEF LoopNext, LoopThread, LoopStart, LoopFails, LoopArm, LoopTest, LoopBlock, LoopStop
<1>3. done' \in BOOLEAN /\ is_start' \in BOOLEAN /\ streaming' = streaming
  <2>1. CASE LoopStop
    BY <2>1 DEF LoopStop, ThreadsInv, LifeTypeOK
  <2>2. CASE LoopStart
    BY <2>2 DEF LoopStart, ThreadsInv, LifeTypeOK
  <2>3. CASE LoopFails \/ LoopArm \/ LoopTest \/ LoopBlock
    BY <2>3 DEF LoopFails, LoopArm, LoopTest, LoopBlock, ThreadsInv, LifeTypeOK
  <2> QED
    BY <2>1, <2>2, <2>3 DEF LoopNext, LoopThread
<1>4. LifeTypeOK'
  BY <1>1, <1>2, <1>3 DEF ThreadsInv, LifeTypeOK
<1>5. InTime'
  BY <1>1, <1>2 DEF ThreadsInv, InTime, Under
<1>6. HackrfInv'
  BY <1>1 DEF ThreadsInv, HackrfInv, HackrfTypeOK, hackrfVars
<1>7. PlutoInv'
  BY <1>1 DEF ThreadsInv, PlutoInv, PlutoTypeOK, plutoVars
<1> QED
  BY <1>4, <1>5, <1>6, <1>7 DEF ThreadsInv

LEMMA AirspyThreadsStep ==
  ASSUME ThreadsInv, AirspyNext, device = "airspy", UNCHANGED <<hackrfVars, plutoVars>>
  PROVE  ThreadsInv'
<1>1. /\ device' = device /\ early' = early /\ done' = done /\ is_start' = is_start
      /\ \/ gui' = gui
         \/ gui = "stop" /\ gui' \in {"signal", "waiting"}
         \/ gui = "signal" /\ gui' = "join"
         \/ gui = "join" /\ gui' = "waiting"
      /\ \/ worker' \in {worker, "started"}
         \/ worker = "starting" /\ worker' = "threads"
      /\ streaming' \in {streaming, TRUE, FALSE}
  BY DEF AirspyNext, AirspyStart, AirspyThreads, AirspyStartFails, Consume, Consumed,
         Awake, Handle, Complete, Push, Submit, TransferFails, AirspyStopping, AirspyStop,
         AirspySignal, AirspyJoin, lifeVars
<1>2. streaming' \in BOOLEAN
  BY <1>1 DEF ThreadsInv, LifeTypeOK
<1>3. LifeTypeOK'
  BY <1>1, <1>2 DEF ThreadsInv, LifeTypeOK
<1>4. InTime'
  BY <1>1 DEF ThreadsInv, InTime, Under
<1>5. HackrfInv'
  BY <1>1 DEF ThreadsInv, HackrfInv, HackrfTypeOK, hackrfVars
<1>6. PlutoInv'
  BY <1>1 DEF ThreadsInv, PlutoInv, PlutoTypeOK, plutoVars
<1> QED
  BY <1>3, <1>4, <1>5, <1>6 DEF ThreadsInv

LEMMA HackrfThreads ==
  ASSUME ThreadsInv, HackrfNext, device = "hackrf", UNCHANGED <<airspyVars, plutoVars>>
  PROVE  ThreadsInv'
<1> ThreadsInv /\ LifeTypeOK /\ InTime /\ HackrfInv /\ PlutoInv /\ HackrfTypeOK
  BY DEF ThreadsInv, HackrfInv
<1>d. device' = device /\ early' = early /\ done' = done
  BY DEF HackrfNext, HackrfReset, HackrfSubmit, HackrfStartFails, HackrfArm, Callback,
         Execute, ExecuteReset, Finish, End, Updated, HackrfStopping, HackrfStop, Halt,
         CancelTransfers, Drained, Future, CloseCancel, Close, lifeVars
<1>p. PlutoInv'
  BY <1>d DEF PlutoInv, PlutoTypeOK, plutoVars
<1>1. CASE HackrfReset \/ HackrfSubmit \/ HackrfStartFails \/ HackrfArm
  <2>1. ~Under /\ gui' = gui /\ worker' \in {"submitting", "arming", "started"}
    BY <1>1 DEF HackrfReset, HackrfSubmit, HackrfStartFails, HackrfArm, Under
  <2>2. is_start' \in BOOLEAN /\ streaming' \in BOOLEAN /\ HackrfTypeOK'
        /\ (callback' # "none" => active_transfers' > 0) /\ closed' = closed
    <3>1. CASE HackrfReset
      BY <1>1, <3>1 DEF HackrfReset, HackrfInv, HackrfTypeOK, LifeTypeOK
    <3>2. CASE HackrfSubmit
      BY <1>1, <3>2, CountAssumption DEF HackrfSubmit, HackrfInv, HackrfTypeOK, LifeTypeOK
    <3>3. CASE HackrfStartFails \/ HackrfArm
      BY <1>1, <3>3 DEF HackrfStartFails, HackrfArm, HackrfInv, HackrfTypeOK, LifeTypeOK,
                        hackrfVars
    <3> QED
      BY <1>1, <3>1, <3>2, <3>3
  <2>3. LifeTypeOK'
    BY <1>d, <2>1, <2>2 DEF LifeTypeOK
  <2>4. InTime' /\ HackrfInv'
    BY <1>d, <2>1, <2>2 DEF InTime, HackrfInv
  <2> QED
    BY <1>p, <2>3, <2>4 DEF ThreadsInv
<1>2. CASE Callback \/ Execute \/ ExecuteReset \/ Finish \/ End \/ Updated
  <2>1. gui' = gui /\ worker' = worker /\ is_start' = is_start /\ closed' = closed
        /\ transfers_setup' = transfers_setup
    BY <1>2 DEF Callback, Execute, ExecuteReset, Finish, End, Updated, lifeVars
  <2>2. streaming' \in BOOLEAN
    BY <1>2 DEF Callback, Execute, ExecuteReset, Finish, End, Updated, lifeVars, LifeTypeOK
  <2>3. /\ active_transfers' \in 0..Count /\ active_transfers' <= active_transfers
        /\ callback' \in {"none", "execute", "reset", "finish", "end"}
        /\ callback' # "none" => active_transfers' > 0
        /\ update' => update \/ active_transfers > 0
        /\ update' \in BOOLEAN
    <3>1. CASE Callback \/ Finish
      BY <1>2, <3>1, CountAssumption DEF Callback, Finish, HackrfInv, HackrfTypeOK
    <3>2. CASE Execute \/ ExecuteReset
      <4>1. update' \in BOOLEAN
        BY <3>2 DEF Execute, ExecuteReset, HackrfTypeOK
      <4> QED
        BY <3>2, <4>1, CountAssumption DEF Execute, ExecuteReset, HackrfInv, HackrfTypeOK
    <3>3. CASE End
      <4>1. active_transfers > 0
        BY <3>3 DEF End, HackrfInv
      <4> QED
        BY <3>3, <4>1, CountAssumption DEF End, HackrfTypeOK
    <3>4. CASE Updated
      <4>1. ~update' /\ update' \in BOOLEAN
        BY <3>4 DEF Updated
      <4> QED
        BY <3>4, <4>1, CountAssumption DEF Updated, HackrfInv, HackrfTypeOK
    <3> QED
      BY <1>2, <3>1, <3>2, <3>3, <3>4
  <2>4. LifeTypeOK' /\ InTime'
    BY <1>d, <2>1, <2>2 DEF LifeTypeOK, InTime, Under
  <2>5. HackrfInv'
    BY <1>d, <2>1, <2>3, CountAssumption DEF HackrfInv, HackrfTypeOK
  <2> QED
    BY <1>p, <2>4, <2>5 DEF ThreadsInv
<1>3. CASE HackrfStopping
  <2>1. /\ worker' = worker /\ is_start' = is_start /\ callback' = callback
        /\ active_transfers' = active_transfers /\ update' = update
    BY <1>3 DEF HackrfStopping, HackrfStop, Halt, CancelTransfers, Drained, Future,
       CloseCancel, Close, hackrfVars
  <2>2. streaming' \in BOOLEAN /\ transfers_setup' \in BOOLEAN /\ closed' \in BOOLEAN
    BY <1>3 DEF HackrfStopping, HackrfStop, Halt, CancelTransfers, Drained, Future,
       CloseCancel, Close, hackrfVars, LifeTypeOK, HackrfTypeOK
  <2>3. /\ \/ gui = "stop" /\ gui' = IF is_start THEN "halt" ELSE "close"
           \/ gui = "halt" /\ gui' = "cancel"
           \/ gui = "cancel" /\ gui' = "drain"
           \/ gui = "drain" /\ gui' = "future" /\ active_transfers = 0
           \/ gui = "future" /\ gui' = "close" /\ ~update
           \/ gui = "close" /\ gui' = "close"
           \/ gui = "close" /\ gui' = "waiting"
        /\ closed' => closed \/ gui' = "waiting"
    BY <1>3, HackrfSteps DEF HackrfStopping, HackrfStop, Halt, CancelTransfers, Drained,
       Future, CloseCancel, Close, hackrfVars
  <2>4. LifeTypeOK' /\ InTime'
    BY <1>d, <2>1, <2>2, <2>3 DEF LifeTypeOK, InTime, Under
  <2>5. HackrfTypeOK'
    BY <2>1, <2>2 DEF HackrfTypeOK
  <2>6. HackrfInv'
    BY <1>d, <2>1, <2>3, <2>5 DEF HackrfInv
  <2> QED
    BY <1>p, <2>4, <2>6 DEF ThreadsInv
<1> QED
  BY <1>1, <1>2, <1>3 DEF HackrfNext

LEMMA PlutoThreads ==
  ASSUME ThreadsInv, PlutoNext, device = "pluto", UNCHANGED <<airspyVars, hackrfVars>>
  PROVE  ThreadsInv'
<1> LifeTypeOK /\ InTime /\ HackrfInv /\ PlutoInv /\ PlutoTypeOK
  BY DEF ThreadsInv, PlutoInv
<1>0. PlutoStopping \/ PlutoUsb \/ UsbFails \/ Spurious \/ PlutoWorker
  BY DEF PlutoNext
<1>d. device' = device /\ early' = early /\ streaming' = streaming /\ is_start' = is_start
  BY DEF PlutoNext, PlutoWorker, Spurious, PlutoUsb, UsbFails, PlutoStopping, UsbStart,
         Arm, Lock, Test, Wait, Got, Convert, Served, Go, UsbTest, UsbTransfer, RxCallback,
         UsbNotify, GoUsb, PlutoStop, UsbJoin, PlutoUndone, PlutoNotify, Destroy, lifeVars
<1>h. ASSUME closed => gui' = "waiting" PROVE HackrfInv'
  BY <1>d, <1>h DEF HackrfInv, HackrfTypeOK, hackrfVars
<1>c. ~closed
  BY DEF HackrfInv
<1>1. CASE PlutoStopping
  <2>1. /\ usb' = usb /\ ready' = ready /\ fresh' = fresh /\ unset' = unset
        /\ \/ worker' = worker
           \/ worker = "asleep" /\ worker' = "woken"
        /\ \/ gui = "stop" /\ gui' = IF usb = "none" THEN "undone" ELSE "join"
           \/ gui = "join" /\ gui' = "undone" /\ usb = "ended"
           \/ gui = "undone" /\ gui' = "notify"
           \/ gui = "notify" /\ gui' = "destroy"
           \/ /\ gui = "destroy" /\ gui' = "waiting"
              /\ cut' = (worker # "ended" /\ (ready \/ worker \in {"convert", "serve"}))
        /\ destroyed' => destroyed \/ gui' = "waiting"
        /\ destroyed => gui' = "waiting" /\ cut' = cut
    BY <1>1 DEF PlutoStopping, PlutoStop, UsbJoin, PlutoUndone, PlutoNotify, Notified,
       Destroy, plutoVars, PlutoInv
  <2>2. {thread_stop', destroyed', cut', missed', done'} \subseteq BOOLEAN
    BY <1>1 DEF PlutoStopping, PlutoStop, UsbJoin, PlutoUndone, PlutoNotify, Destroy,
       plutoVars, PlutoTypeOK, LifeTypeOK
  <2>3. LifeTypeOK' /\ PlutoTypeOK'
    BY <1>d, <2>1, <2>2 DEF LifeTypeOK, PlutoTypeOK
  <2>4. InTime'
    BY <1>d, <2>1 DEF InTime, Under
  <2>5. PlutoInv'
    BY <1>d, <2>1, <2>3 DEF PlutoInv, InTime, Under
  <2> QED
    BY <1>c, <1>h, <2>3, <2>4, <2>5 DEF ThreadsInv
<1>2. CASE PlutoUsb \/ UsbFails
  <2>1. /\ gui' = gui /\ done' = done /\ destroyed' = destroyed /\ cut' = cut
        /\ thread_stop' = thread_stop /\ missed' = missed
        /\ usb \in {"test", "transfer", "lock", "notify"}
        /\ usb' \in {"test", "transfer", "lock", "notify", "ended"}
        /\ \/ worker' = worker
           \/ worker = "asleep" /\ worker' = "woken"
        /\ \/ ready' = ready /\ fresh' = fresh /\ unset' = unset
           \/ ready' = TRUE /\ fresh' = TRUE /\ unset' = FALSE
    BY <1>2 DEF PlutoUsb, UsbFails, UsbTest, UsbTransfer, RxCallback, UsbNotify, GoUsb,
       Notified, lifeVars
  <2>2. LifeTypeOK' /\ PlutoTypeOK'
    BY <1>d, <2>1 DEF LifeTypeOK, PlutoTypeOK
  <2>3. InTime'
    BY <1>d, <2>1 DEF InTime, Under
  <2>4. PlutoInv'
    BY <1>d, <2>1, <2>2 DEF PlutoInv
  <2> QED
    BY <1>c, <1>h, <2>2, <2>3, <2>4 DEF ThreadsInv
<1>3. CASE PlutoWorker \/ Spurious
  <2>1. /\ gui' = gui /\ destroyed' = destroyed /\ cut' = cut /\ missed' = missed
        /\ usb' = usb \/ (worker = "starting" /\ usb' = "test")
        /\ thread_stop' = thread_stop \/ thread_stop' = FALSE
        /\ done' = done \/ done' = TRUE
        /\ worker' \in {"arming", "locking", "test", "wait", "ended", "asleep", "woken",
                        "got", "convert", "serve"}
        /\ worker # "ended"
        /\ worker' = "arming" => worker = "starting"
        /\ worker' = "convert" => worker = "got" /\ ready
        /\ worker' = "serve" => worker = "convert"
        /\ worker = "starting" => usb' = "test"
        /\ \/ ready' = ready /\ fresh' = fresh /\ unset' = unset
           \/ ready' = FALSE /\ fresh' = FALSE /\ unset' = FALSE
    BY <1>3 DEF PlutoWorker, Spurious, UsbStart, Arm, Lock, Test, Wait, Got, ReadyTaken,
       Convert, Served, Go, plutoVars
  <2>2. LifeTypeOK' /\ PlutoTypeOK'
    <3>1. LifeTypeOK'
      BY <1>d, <2>1 DEF LifeTypeOK
    <3>2. PlutoTypeOK'
      BY <2>1 DEF PlutoTypeOK
    <3> QED
      BY <3>1, <3>2
  <2>3. InTime'
    BY <1>d, <2>1 DEF InTime, Under
  <2>4. PlutoInv'
    BY <1>d, <2>1, <2>2 DEF PlutoInv, InTime, Under
  <2> QED
    BY <1>c, <1>h, <2>2, <2>3, <2>4 DEF ThreadsInv
<1> QED
  BY <1>0, <1>1, <1>2, <1>3

LEMMA ThreadsStep == ThreadsInv /\ [SessionNext]_sessionVars => ThreadsInv'
<1> SUFFICES ASSUME ThreadsInv, [SessionNext]_sessionVars PROVE ThreadsInv'
  OBVIOUS
<1>1. CASE UNCHANGED sessionVars
  BY <1>1 DEF sessionVars, lifeVars, streamVars, hackrfVars, plutoVars, ThreadsInv,
     LifeTypeOK, InTime, Under, HackrfInv, HackrfTypeOK, PlutoInv, PlutoTypeOK
<1> QED
  BY <1>1, PressStep, LoopThreads, AirspyThreadsStep, HackrfThreads, PlutoThreads
     DEF SessionNext, OnAirspy, OnHackrf, OnPluto, OnLoop

(* Types, of every device's threads.                                       *)
THEOREM SessionTypeCorrect == SessionSpec => []SessionTypeOK
<1>1. RingInv /\ ThreadsInv => SessionTypeOK
  BY DEF RingInv, ThreadsInv, LifeTypeOK, HackrfInv, PlutoInv, SessionTypeOK
<1>2. SessionInit => RingInv /\ ThreadsInv
  BY RingInit, ThreadsInit DEF SessionInit
<1> QED
  BY <1>1, <1>2, RingStep, ThreadsStep, PTL DEF SessionSpec

(* No thread calls a device that stop() has closed.                        *)
THEOREM DeviceAliveHolds == SessionSpec => []DeviceAlive
<1>1. ThreadsInv => DeviceAlive
  BY DEF ThreadsInv, HackrfInv, HackrfTypeOK, PlutoInv, DeviceAlive
<1> QED
  BY <1>1, ThreadsInit, ThreadsStep, PTL DEF SessionSpec

(* The PlutoSDR's worker never converts the same block twice.              *)
THEOREM EachBlockOnceHolds == SessionSpec => EachBlockOnce
<1>1. ASSUME ThreadsInv, [SessionNext]_sessionVars
      PROVE  [worker = "got" /\ worker' = "convert" => fresh \/ unset]_worker
  <2> SUFFICES ASSUME worker = "got", worker' = "convert" PROVE ready
    BY <1>1 DEF ThreadsInv, PlutoInv
  <2> QED
    BY <1>1 DEF SessionNext, sessionVars, lifeVars, OnAirspy, OnHackrf, OnPluto, OnLoop,
       PressStop, LoopNext, LoopThread, LoopStart, LoopFails, LoopArm, LoopTest, LoopBlock,
       LoopStop, AirspyNext, AirspyStart, AirspyThreads, AirspyStartFails, Consume,
       Consumed, Awake, Handle, Complete, Push, Submit, TransferFails, AirspyStopping,
       AirspyStop, AirspySignal, AirspyJoin, HackrfNext, HackrfReset, HackrfSubmit,
       HackrfStartFails, HackrfArm, Callback, Execute, ExecuteReset, Finish, End, Updated,
       HackrfStopping, HackrfStop, Halt, CancelTransfers, Drained, Future, CloseCancel,
       Close, PlutoNext, PlutoWorker, Spurious, PlutoUsb, UsbFails, PlutoStopping,
       UsbStart, Arm, Lock, Test, Wait, Got, Convert, Served, Go, UsbTest, UsbTransfer,
       RxCallback, UsbNotify, GoUsb, PlutoStop, UsbJoin, PlutoUndone, PlutoNotify,
       Notified, Destroy
<1> QED
  BY <1>1, ThreadsInit, ThreadsStep, PTL DEF SessionSpec, EachBlockOnce

----------------------------------------------------------------------------
(***************************************************************************)
(* The stop button.  What of StopEndsStream is safety: when stop() has     *)
(* done its part, each thread has ended or has only steps to its end       *)
(* before it, without a wait for somebody who is gone; and what has ended  *)
(* does not begin again.                                                   *)
(***************************************************************************)
EndInSight ==
  /\ gui = "waiting" /\ ~(early \/ failed \/ missed) =>
       /\ device = "airspy" => AirspyQuiet
       /\ device = "hackrf" /\ is_start => HackrfQuiet
       /\ device = "pluto" => ~done /\ usb = "ended" /\ worker \notin {"wait", "asleep"}
       /\ device \in {"sdrplay", "usrp"} => ~done
  /\ device = "airspy" /\ consumer = "asleep" =>
       Going \/ gui = "signal" \/ early \/ failed

QuietForGood == [][gui # "idle" /\ ~early /\ Quiet => Quiet']_sessionVars

(***************************************************************************)
(* The AirSpy: only a failed transfer clears `streaming' before stop()     *)
(* does, after the join; so it is never skipped, and a consumer that goes  *)
(* to sleep does so before stop_requested, with the signal still to come.  *)
(***************************************************************************)
AirspyEnd ==
  device = "airspy" =>
    /\ worker \in {"starting", "threads"} => AirspyQuiet
    /\ worker = "starting" => ~streaming /\ ~stop_requested
    /\ gui \in {"signal", "join"} => stop_requested
    /\ worker # "starting" /\ gui # "waiting" => streaming \/ failed
    /\ consumer = "asleep" => Going \/ gui = "signal" \/ early \/ failed
    /\ gui = "waiting" => AirspyQuiet \/ early \/ failed

(* The PlutoSDR: after the notification a worker only meets its test.      *)
PlutoEnd ==
  device = "pluto" /\ ~early =>
    /\ gui \in {"notify", "destroy", "waiting"} => ~done
    /\ gui \in {"destroy", "waiting"} /\ ~missed => worker \notin {"wait", "asleep"}

(* The USRP's stop() clears `done' only if is_start is set.                *)
LoopEnd ==
  /\ device = "usrp" /\ worker # "starting" /\ gui \in {"idle", "stop"} => is_start
  /\ device \in {"sdrplay", "usrp"} /\ gui = "waiting" /\ ~early => ~done

EndInv == (gui = "idle" => ~early) /\ AirspyEnd /\ PlutoEnd /\ LoopEnd

LEMMA EndInit == SessionInit => EndInv
  BY DEF SessionInit, LifeInit, AirspyInit, EndInv, AirspyEnd, PlutoEnd, LoopEnd, AirspyQuiet

LEMMA AirspyEndStep ==
  ASSUME ThreadsInv, EndInv, AirspyNext, device = "airspy"
  PROVE  EndInv'
<1> InTime /\ AirspyEnd
  BY DEF ThreadsInv, EndInv
<1>1. device' = device /\ early' = early /\ is_start' = is_start /\ done' = done
      /\ (gui' = gui \/ (gui # "idle" /\ gui' # "idle"))
  BY DEF AirspyNext, AirspyStart, AirspyThreads, AirspyStartFails, Consume, Consumed,
         Awake, Handle, Complete, Push, Submit, TransferFails, AirspyStopping, AirspyStop,
         AirspySignal, AirspyJoin, lifeVars
<1>2. AirspyEnd'
  <2>1. CASE AirspyStart \/ AirspyThreads \/ AirspyStartFails
    BY <1>1, <2>1 DEF AirspyStart, AirspyThreads, AirspyStartFails, airspyVars, threadVars,
       AirspyEnd, AirspyQuiet, Going, InTime, Under
  <2>2. CASE Consume \/ Consumed \/ Awake
    BY <1>1, <2>2 DEF Consume, Consumed, Awake, lifeVars, AirspyEnd, AirspyQuiet, Going
  <2>3. CASE Handle \/ Complete \/ Push \/ Submit \/ TransferFails
    BY <1>1, <2>3 DEF Handle, Complete, Push, Submit, TransferFails, SignalConsumer,
       lifeVars, ringVars, AirspyEnd, AirspyQuiet, Going
  <2>4. CASE AirspyStopping
    BY <1>1, <2>4 DEF AirspyStopping, AirspyStop, AirspySignal, AirspyJoin, WakeConsumer,
       SignalConsumer, threadVars, AirspyEnd, AirspyQuiet, Going, InTime, Under
  <2> QED
    BY <2>1, <2>2, <2>3, <2>4 DEF AirspyNext
<1> QED
  BY <1>1, <1>2 DEF EndInv, PlutoEnd, LoopEnd

LEMMA PlutoEndStep ==
  ASSUME ThreadsInv, EndInv, PlutoNext, device = "pluto"
  PROVE  EndInv'
<1> InTime /\ PlutoEnd
  BY DEF ThreadsInv, EndInv
<1>1. device' = device /\ early' = early /\ is_start' = is_start
      /\ (gui' = gui \/ (gui # "idle" /\ gui' # "idle"))
  BY DEF PlutoNext, PlutoWorker, Spurious, PlutoUsb, UsbFails, PlutoStopping, UsbStart,
         Arm, Lock, Test, Wait, Got, Convert, Served, Go, UsbTest, UsbTransfer, RxCallback,
         UsbNotify, GoUsb, PlutoStop, UsbJoin, PlutoUndone, PlutoNotify, Destroy, lifeVars
<1>2. PlutoEnd'
  <2>1. CASE PlutoWorker \/ Spurious
    BY <1>1, <2>1 DEF PlutoWorker, Spurious, UsbStart, Arm, Lock, Test, Wait, Got, Convert,
       Served, Go, plutoVars, PlutoEnd, InTime, Under
  <2>2. CASE PlutoUsb \/ UsbFails
    BY <1>1, <2>2 DEF PlutoUsb, UsbFails, UsbTest, UsbTransfer, RxCallback, UsbNotify,
       GoUsb, Notified, lifeVars, PlutoEnd
  <2>3. CASE PlutoStopping
    BY <1>1, <2>3 DEF PlutoStopping, PlutoStop, UsbJoin, PlutoUndone, PlutoNotify, Destroy,
       Notified, plutoVars, PlutoEnd
  <2> QED
    BY <2>1, <2>2, <2>3 DEF PlutoNext
<1> QED
  BY <1>1, <1>2 DEF EndInv, AirspyEnd, LoopEnd

LEMMA LoopEndStep ==
  ASSUME ThreadsInv, EndInv, LoopNext, device \in {"sdrplay", "usrp"}
  PROVE  EndInv'
<1> InTime /\ LoopEnd
  BY DEF ThreadsInv, EndInv
<1>1. device' = device /\ early' = early /\ (gui' = gui \/ (gui # "idle" /\ gui' # "idle"))
  BY DEF LoopNext, LoopThread, LoopStart, LoopFails, LoopArm, LoopTest, LoopBlock, LoopStop
<1>2. LoopEnd'
  <2>1. CASE LoopStart
    <3>1. is_start' = (device = "usrp") /\ worker = "starting" /\ gui' = gui /\ done' = done
      BY <2>1 DEF LoopStart
    <3> QED
      BY <1>1, <3>1 DEF LoopEnd
  <2>2. CASE LoopFails \/ LoopArm \/ LoopTest \/ LoopBlock
    BY <1>1, <2>2 DEF LoopFails, LoopArm, LoopTest, LoopBlock, LoopEnd, InTime, Under
  <2>3. CASE LoopStop
    <3>1. gui = "stop" /\ gui' = "waiting" /\ worker' = worker
      BY <2>3 DEF LoopStop
    <3>2. ASSUME ~early PROVE ~done'
      <4>1. device = "usrp" => is_start
        BY <3>1, <3>2 DEF LoopEnd, InTime, Under
      <4>2. CASE device = "sdrplay"
        BY <2>3, <4>2 DEF LoopStop
      <4>3. CASE device = "usrp"
        BY <2>3, <4>1, <4>3 DEF LoopStop
      <4> QED
        BY <4>2, <4>3
    <3> QED
      BY <1>1, <3>1, <3>2 DEF LoopEnd
  <2> QED
    BY <2>1, <2>2, <2>3 DEF LoopNext, LoopThread
<1> QED
  BY <1>1, <1>2 DEF EndInv, AirspyEnd, PlutoEnd

LEMMA EndStep == ThreadsInv /\ EndInv /\ [SessionNext]_sessionVars => EndInv'
<1> SUFFICES ASSUME ThreadsInv, EndInv, [SessionNext]_sessionVars PROVE EndInv'
  OBVIOUS
<1>1. CASE PressStop /\ UNCHANGED streamVars
  BY <1>1 DEF PressStop, streamVars, airspyVars, threadVars, plutoVars, EndInv, AirspyEnd,
     PlutoEnd, LoopEnd, AirspyQuiet, Going
<1>2. CASE OnHackrf(HackrfNext)
  <2>1. device = "hackrf" /\ device' = device /\ early' = early
        /\ (gui' = gui \/ (gui # "idle" /\ gui' # "idle"))
    BY <1>2, HackrfSteps DEF OnHackrf, HackrfNext, HackrfReset, HackrfSubmit,
       HackrfStartFails, HackrfArm, Callback, Execute, ExecuteReset, Finish, End, Updated,
       HackrfStopping, HackrfStop, Halt, CancelTransfers, Drained, Future, CloseCancel,
       Close, lifeVars
  <2> QED
    BY <2>1 DEF EndInv, AirspyEnd, PlutoEnd, LoopEnd
<1>3. CASE UNCHANGED sessionVars
  BY <1>3 DEF sessionVars, lifeVars, streamVars, airspyVars, threadVars, plutoVars, EndInv,
     AirspyEnd, PlutoEnd, LoopEnd, AirspyQuiet, Going
<1> QED
  BY <1>1, <1>2, <1>3, AirspyEndStep, PlutoEndStep, LoopEndStep
     DEF SessionNext, OnAirspy, OnPluto, OnLoop

(* When stop() has done its part the threads have ended or are on the way  *)
(* to their end, and at no time does the AirSpy's consumer sleep with      *)
(* nobody left to wake it, outside the cases StopEndsStream names.         *)
THEOREM EndInSightHolds == SessionSpec => []EndInSight
<1>1. ThreadsInv /\ EndInv => EndInSight
  BY CountAssumption DEF ThreadsInv, HackrfInv, HackrfTypeOK, PlutoInv, EndInv, AirspyEnd,
     PlutoEnd, LoopEnd, LifeTypeOK, EndInSight, HackrfQuiet
<1> QED
  BY <1>1, ThreadsInit, EndInit, ThreadsStep, EndStep, PTL DEF SessionSpec

(* After the button nothing that has ended begins again: no thread is      *)
(* created, no transfer submitted and no update() started.                 *)
THEOREM QuietForGoodHolds == SessionSpec => QuietForGood
<1>1. ASSUME ThreadsInv, [SessionNext]_sessionVars
      PROVE  [gui # "idle" /\ ~early /\ Quiet => Quiet']_sessionVars
  <2> SUFFICES ASSUME gui # "idle", ~early, Quiet, SessionNext PROVE Quiet'
    BY <1>1
  <2>u. Under /\ device \in {"airspy", "hackrf", "sdrplay", "usrp", "pluto"}
    BY <1>1 DEF ThreadsInv, InTime, LifeTypeOK
  <2>1. CASE OnAirspy(AirspyNext)
    <3>1. device' = device /\ AirspyQuiet'
      BY <2>1, <2>u DEF OnAirspy, AirspyNext, AirspyStart, AirspyThreads, AirspyStartFails,
         Consume, Consumed, Awake, Handle, Complete, Push, Submit, TransferFails,
         AirspyStopping, AirspyStop, AirspySignal, AirspyJoin, WakeConsumer, SignalConsumer,
         lifeVars, airspyVars, threadVars, Under, Quiet, AirspyQuiet
    <3> QED
      BY <2>1, <3>1 DEF OnAirspy, Quiet
  <2>2. CASE OnHackrf(HackrfNext)
    <3>1. device' = device /\ HackrfQuiet'
      BY <2>2, <2>u DEF OnHackrf, HackrfNext, HackrfReset, HackrfSubmit,
         HackrfStartFails, HackrfArm, Callback, Execute, ExecuteReset, Finish, End, Updated,
         HackrfStopping, HackrfStop, Halt, CancelTransfers, Drained, Future, CloseCancel,
         Close, lifeVars, hackrfVars, Under, Quiet, HackrfQuiet
    <3> QED
      BY <2>2, <3>1 DEF OnHackrf, Quiet
  <2>3. CASE OnPluto(PlutoNext)
    <3>1. device' = device /\ PlutoQuiet'
      BY <2>3 DEF OnPluto, PlutoNext, PlutoWorker, Spurious, PlutoUsb, UsbFails,
         PlutoStopping, UsbStart, Arm, Lock, Test, Wait, Got, Convert, Served, Go, UsbTest,
         UsbTransfer, RxCallback, UsbNotify, GoUsb, PlutoStop, UsbJoin, PlutoUndone,
         PlutoNotify, Notified, Destroy, lifeVars, plutoVars, Quiet, PlutoQuiet
    <3> QED
      BY <2>3, <3>1 DEF OnPluto, Quiet
  <2>4. CASE OnLoop(LoopNext)
    BY <2>4 DEF OnLoop, LoopNext, LoopThread, LoopStart, LoopFails, LoopArm, LoopTest,
       LoopBlock, LoopStop, Quiet
  <2>5. CASE PressStop
    BY <2>5 DEF PressStop
  <2> QED
    BY <2>1, <2>2, <2>3, <2>4, <2>5 DEF SessionNext
<1> QED
  BY <1>1, ThreadsInit, ThreadsStep, PTL DEF SessionSpec, QuietForGood
=============================================================================
