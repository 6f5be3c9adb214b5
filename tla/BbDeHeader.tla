----------------------------- MODULE BbDeHeader -----------------------------
(***************************************************************************)
(* src/DVB_T2/bb_de_header.cpp in high efficiency mode: baseband frames of *)
(* any length come in, a transport stream of packets of equal length goes  *)
(* out.  The sender leaves out the sync byte of a packet and cuts the      *)
(* stream wherever a frame is full; syncd tells where the first packet     *)
(* starts in a frame.  The end of a frame, less than a packet, waits in    *)
(* `buffer' for the next one.                                              *)
(*                                                                         *)
(* A byte is named by the PLP, the packet and the place in the packet it   *)
(* comes from.  All lengths are whole bytes.                               *)
(*                                                                         *)
(* ResumeNoFill, ResumeNoCut, ResumeNoBuffer and KeptPacket are slips, for *)
(* the mutation runs that README.md describes, and no part of the model.   *)
(***************************************************************************)
EXTENDS Integers, SequencesExt

CONSTANTS
  P,         \* TRANSPORT_PACKET_LENGTH, the sync byte included
  Plps,      \* number of PLPs; their identifiers are 0..Plps-1
  Dfls,      \* data field lengths of the frames
  FirstDfl,  \* least of the first frame decoded that follows its syncd
  Ups        \* bound: packets are numbered modulo Ups

K == P - 1

ASSUME PacketAssumption ==
  /\ P \in Nat /\ P > 2 /\ Plps \in Nat \ {0} /\ Ups \in Nat \ {0}
  /\ Dfls \subseteq Nat \ {0} /\ FirstDfl \in Nat

Ids == 0..(Plps - 1)

Places == [up : 0..(Ups - 1), j : 1..K]

Sync == [plp |-> -1, up |-> 0, j |-> 0]   \* 0x47
Fill == [plp |-> -1, up |-> 0, j |-> 1]   \* 0xF0

VARIABLES
  split, idx_packet,
  buffer,            \* buffer[0 .. idx_buffer - 1]
  need_plp, info_already_set, next_plp_info,
  tx,                \* PLP -> the place of the byte the sender sends next
  packet,            \* history: the packet the output has reached, so far
  done,              \* history: the packets the last call completed
  last,              \* history: the packet completed before these, unless a
                     \* gap lies between
  gap, hadGap        \* history: since the last decoded frame one was dropped
                     \* or the PLP changed; and the same of the frame before

history == <<packet, done, last, gap, hadGap>>
infoVars == <<info_already_set, next_plp_info>>
tsVars == <<split, idx_packet, buffer>>
vars == <<tsVars, infoVars, need_plp, tx, history>>

Init ==
  /\ split = FALSE /\ idx_packet = 0 /\ buffer = <<>>
  /\ need_plp = 0 /\ info_already_set = FALSE /\ next_plp_info = 0
  /\ tx \in [Ids -> {[up |-> 0, j |-> j] : j \in 1..K}]
  /\ packet = <<>> /\ done = <<>> /\ last = <<>>
  /\ gap = FALSE /\ hadGap = FALSE

----------------------------------------------------------------------------
(* The sender.                                                             *)

Ahead(t, n) ==
  [up |-> (t.up + (t.j - 1 + n) \div K) % Ups, j |-> ((t.j - 1 + n) % K) + 1]

DataField(plp, d) ==
  [i \in 1..d |-> LET t == Ahead(tx[plp], i - 1)
                  IN  [plp |-> plp, up |-> t.up, j |-> t.j]]

Send(plp, d) == tx' = [tx EXCEPT ![plp] = Ahead(@, d)]

(* Bytes before the first packet that starts in the data field.            *)
Syncd(plp) == IF tx[plp].j = 1 THEN 0 ELSE K - (tx[plp].j - 1)

----------------------------------------------------------------------------
(* set_info(): every PLP in the order of its number, once.                 *)
SetInfo(plp) ==
  IF info_already_set \/ plp # next_plp_info THEN UNCHANGED infoVars
  ELSE /\ next_plp_info' = (plp + 1) % Plps
       /\ info_already_set' = (plp + 1 = Plps)

(* A frame of this PLP does not reach the output.                          *)
Dropped(plp) ==
  /\ gap' = (gap \/ plp = need_plp)
  /\ UNCHANGED <<tsVars, need_plp, packet, done, last, hadGap>>

(* It never got here: a stage before gave it up.                           *)
Lose(plp, d) ==
  /\ Send(plp, d) /\ Dropped(plp)
  /\ UNCHANGED infoVars

HeaderError(plp, d) ==
  /\ Send(plp, d) /\ Dropped(plp)
  /\ info_already_set' = FALSE /\ UNCHANGED next_plp_info

(* Another PLP is wanted, or no packet starts in it (syncd is 65535).      *)
Ignore(plp, d) ==
  /\ plp # need_plp \/ Syncd(plp) >= d
  /\ Send(plp, d) /\ Dropped(plp)
  /\ SetInfo(plp)

ResumeNoFill(in, syncd) ==
  LET len_split == P - idx_packet
      copied    == IF len_split < syncd THEN len_split ELSE syncd
  IN  buffer \o SubSeq(in, 1, copied)

ResumeNoCut(in, syncd) ==
  LET len_split == P - idx_packet
  IN  buffer \o SubSeq(in, 1, syncd)
      \o [i \in 1..(IF len_split > syncd THEN len_split - syncd ELSE 0) |-> Fill]

ResumeNoBuffer(in, syncd) ==
  LET len_split == P - idx_packet
      copied    == IF len_split < syncd THEN len_split ELSE syncd
  IN  SubSeq(in, 1, copied) \o [i \in 1..(len_split - copied) |-> Fill]

(* The rest of the packet begun in the frame before.  What lies before     *)
(* syncd should be just that; too much is cut, too little is filled up.    *)
Resume(in, syncd) ==
  LET len_split == P - idx_packet
      copied    == IF len_split < syncd THEN len_split ELSE syncd
  IN  buffer \o SubSeq(in, 1, copied) \o [i \in 1..(len_split - copied) |-> Fill]

(* One turn of the loop: a byte laid out, and a sync byte before it when   *)
(* the packet is full; `fresh': or not yet begun.                          *)
Turn(acc, byte, fresh) ==
  IF acc.idx = P \/ (fresh /\ acc.idx = 0)
  THEN [bytes |-> acc.bytes \o <<Sync, byte>>, idx |-> 2]
  ELSE [bytes |-> Append(acc.bytes, byte), idx |-> acc.idx + 1]

(* What is out, and idx_packet, after the first i bytes of `in'.           *)
LaidOut(in, at, fresh) ==
  LET laid[i \in 0..Len(in)] ==
        IF i = 0 THEN [bytes |-> <<>>, idx |-> at] ELSE Turn(laid[i - 1], in[i], fresh)
  IN  laid

Layout(in, at, fresh) == LaidOut(in, at, fresh)[Len(in)]

KeptPacket(in) == IF Len(in) > P THEN P ELSE Len(in)

(* Less than a packet is kept for the next frame.                          *)
Kept(in) == IF Len(in) > K THEN K ELSE Len(in)

(* The output of one call, cut into packets with what was there before.    *)
Emit(bytes) ==
  LET stream == packet \o bytes
      n      == Len(stream) \div P
  IN  /\ done' = [i \in 1..n |-> SubSeq(stream, (i - 1) * P + 1, i * P)]
      /\ packet' = SubSeq(stream, n * P + 1, Len(stream))
      /\ last' = IF hadGap THEN <<>> ELSE IF done = <<>> THEN last ELSE Last(done)
      /\ hadGap' = gap /\ gap' = FALSE

Decode(plp, d) ==
  /\ plp = need_plp /\ Syncd(plp) < d
  /\ idx_packet = 0 => d - Syncd(plp) >= FirstDfl
  /\ SetInfo(plp)
  /\ LET in     == DataField(plp, d)
         syncd  == Syncd(plp)
         resume == IF split THEN Resume(in, syncd) ELSE <<>>
         body   == SubSeq(in, syncd + 1, d)
         whole  == Len(body) - Kept(body)
         now    == Layout(SubSeq(body, 1, whole), IF split THEN P ELSE idx_packet, TRUE)
         later  == Layout(SubSeq(body, whole + 1, Len(body)), now.idx, FALSE)
     IN  /\ Emit(resume \o now.bytes)
         /\ split' = TRUE
         /\ buffer' = later.bytes /\ idx_packet' = later.idx
  /\ Send(plp, d)
  /\ UNCHANGED need_plp

(* set_out(): nothing of the packet begun for the old PLP is given up.     *)
SetOut(plp) ==
  /\ need_plp' = plp
  /\ gap' = (gap \/ plp # need_plp)
  /\ UNCHANGED <<tsVars, infoVars, tx, packet, done, last, hadGap>>

----------------------------------------------------------------------------
Frame(plp, d) == Lose(plp, d) \/ HeaderError(plp, d) \/ Ignore(plp, d) \/ Decode(plp, d)

Next == \/ \E plp \in Ids, d \in Dfls : Frame(plp, d)
        \/ \E plp \in Ids : SetOut(plp)

Spec == Init /\ [][Next]_vars

----------------------------------------------------------------------------
Bytes == [plp : Ids, up : 0..(Ups - 1), j : 1..K] \cup {Sync, Fill}

TypeOK ==
  /\ split \in BOOLEAN /\ idx_packet \in 0..P
  /\ buffer \in Seq(Bytes) /\ Len(buffer) <= P
  /\ need_plp \in Ids /\ info_already_set \in BOOLEAN /\ next_plp_info \in Ids
  /\ tx \in [Ids -> Places]
  /\ packet \in Seq(Bytes) /\ Len(packet) < P
  /\ done \in Seq(Seq(Bytes)) /\ last \in Seq(Bytes)
  /\ gap \in BOOLEAN /\ hadGap \in BOOLEAN

StartsPacket(p) == p[1] = Sync /\ \A i \in 2..Len(p) : p[i] # Sync

(***************************************************************************)
(* Whatever is lost or cut, every P-th byte put out is a sync byte and no  *)
(* other is: the player at the other end never has to look for packets.    *)
(***************************************************************************)
Aligned ==
  /\ \A i \in 1..Len(done) : StartsPacket(done[i])
  /\ packet # <<>> => StartsPacket(packet)

(* All of one packet of one PLP, in the order it was sent.                 *)
Whole(p) ==
  /\ Len(p) = P /\ p[1] = Sync
  /\ \A i \in 2..P : p[i] = [plp |-> p[2].plp, up |-> p[2].up, j |-> i - 1]

(***************************************************************************)
(* A packet is damaged only where frames are missing, and then only one:   *)
(* the one that was begun before the gap.                                  *)
(***************************************************************************)
Intact ==
  LET damaged == {i \in 1..Len(done) : ~Whole(done[i])}
  IN  /\ damaged # {} => hadGap
      /\ \A i, k \in damaged : i = k

(***************************************************************************)
(* Where no frame is missing no packet is lost or doubled, neither within  *)
(* a frame nor at the seam of two.                                         *)
(***************************************************************************)
InOrder ==
  LET run == IF last = <<>> THEN done ELSE <<last>> \o done
  IN  \A i \in 1..(Len(run) - 1) :
        ~hadGap /\ Whole(run[i]) /\ Whole(run[i + 1]) =>
          run[i + 1][2].up = (run[i][2].up + 1) % Ups
=============================================================================
