-------------------------- MODULE BbDeHeaderProofs --------------------------
(* Proofs about BbDeHeader: the output is a sequence of packets, and only  *)
(* the packet begun before a gap is damaged, for packets, frames and       *)
(* numbers of PLPs of any size.                                            *)
EXTENDS BbDeHeader, Arithmetic, SequenceTheorems

(* Byte i of the output from the beginning of packet `up' of a PLP on.     *)
Out(plp, up, i) ==
  IF (i - 1) % P = 0 THEN Sync
  ELSE [plp |-> plp, up |-> (up + (i - 1) \div P) % Ups, j |-> (i - 1) % P]

(* The place of the byte to lay out next when t bytes of it are out.       *)
Due(up, t) ==
  [up |-> (up + t \div P) % Ups, j |-> IF t % P = 0 THEN 1 ELSE t % P]

Of(plp, place) == [plp |-> plp, up |-> place.up, j |-> place.j]

Begun == packet \o buffer

Previous == IF done = <<>> THEN last ELSE Last(done)

(***************************************************************************)
(* Once a frame has been decoded, the bytes put out of the packet at hand  *)
(* and those kept are the beginning of a packet, in order, and idx_packet  *)
(* the place they reach.  As long as nothing is missing since, the sender  *)
(* is at the same place; where nothing was missing before, the packet      *)
(* follows the one completed last.                                         *)
(***************************************************************************)
StreamInv ==
  /\ ~split => /\ packet = <<>> /\ buffer = <<>> /\ idx_packet = 0
               /\ done = <<>> /\ last = <<>> /\ ~hadGap
  /\ split => /\ idx_packet \in 2..P /\ Len(Begun) > 0 /\ Len(Begun) % P = idx_packet % P
              /\ \E plp \in Ids, up \in 0..(Ups - 1) :
                   /\ \A i \in 1..Len(Begun) : Begun[i] = Out(plp, up, i)
                   /\ ~gap => plp = need_plp /\ tx[plp] = Due(up, Len(Begun))
                   /\ ~hadGap /\ Previous # <<>> => (Previous[2].up + 1) % Ups = up

Inv == TypeOK /\ Aligned /\ Intact /\ InOrder /\ StreamInv

----------------------------------------------------------------------------
(* The loop.                                                               *)

(* The recursive function is there: what it is up to one byte can be       *)
(* carried one byte further.                                               *)
LEMMA LaidOutIs ==
  ASSUME NEW in, Len(in) \in Nat, NEW at, NEW fresh
  PROVE  LaidOut(in, at, fresh) =
           [i \in 0..Len(in) |->
              IF i = 0 THEN [bytes |-> <<>>, idx |-> at]
              ELSE Turn(LaidOut(in, at, fresh)[i - 1], in[i], fresh)]
<1> DEFINE start == [bytes |-> <<>>, idx |-> at]
           Is(n, f) == f = [i \in 0..n |-> IF i = 0 THEN start
                                           ELSE Turn(f[i - 1], in[i], fresh)]
           S == {n \in 0..Len(in) : \E f : Is(n, f)}
<1> HIDE DEF start
<1>1. 0 \in S
  <2>1. Is(0, [i \in 0..0 |-> start])
    OBVIOUS
  <2> HIDE DEF Is
  <2> QED
    BY <2>1
<1>2. ASSUME NEW n \in 0..(Len(in) - 1), n \in S PROVE n + 1 \in S
  <2>1. PICK f : Is(n, f)
    BY <1>2
  <2> DEFINE g == [i \in 0..(n + 1) |-> IF i <= n THEN f[i] ELSE Turn(f[n], in[n + 1], fresh)]
  <2>2. Is(n + 1, g)
    <3>1. ASSUME NEW i \in 0..(n + 1)
          PROVE  g[i] = IF i = 0 THEN start ELSE Turn(g[i - 1], in[i], fresh)
      <4>1. CASE i = 0
        BY <2>1, <4>1
      <4>2. CASE i # 0 /\ i <= n
        <5>1. i \in 0..n /\ i - 1 \in 0..(n + 1) /\ i - 1 <= n
          BY <4>2
        <5>2. f[i] = Turn(f[i - 1], in[i], fresh)
          BY <2>1, <4>2, <5>1
        <5> QED
          BY <4>2, <5>1, <5>2
      <4>3. CASE i = n + 1
        <5>1. n \in 0..(n + 1) /\ i - 1 = n /\ ~(i <= n) /\ i # 0
          BY <4>3
        <5> QED
          BY <4>3, <5>1
      <4> QED
        BY <4>1, <4>2, <4>3
    <3> HIDE DEF g
    <3>2. g = [i \in 0..(n + 1) |-> g[i]]
      BY DEF g
    <3> QED
      BY <3>1, <3>2
  <2> HIDE DEF Is
  <2> QED
    BY <2>2
<1>3. \E f : Is(Len(in), f)
  <2> HIDE DEF S
  <2>1. 0..Len(in) \subseteq S
    BY <1>1, <1>2, Induction
  <2> QED
    BY <2>1 DEF S
<1>4. LaidOut(in, at, fresh) = CHOOSE f : Is(Len(in), f)
  BY DEF LaidOut, start
<1> HIDE DEF Is
<1>5. Is(Len(in), LaidOut(in, at, fresh))
  BY <1>3, <1>4
<1> QED
  BY <1>5 DEF Is, start

(* Bytes in, bytes out; no more than one sync byte before fewer bytes than *)
(* a packet has.                                                           *)
Sized(in, at, acc, i) ==
  /\ acc.bytes \in Seq(Bytes) /\ acc.idx \in 0..P
  /\ i = 0 => acc.idx = at /\ acc.bytes = <<>>
  /\ i > 0 => acc.idx > 0 /\ Len(acc.bytes) > 0 /\ (acc.idx > 1 \/ at = 0)
  /\ i <= K => \/ Len(acc.bytes) = i
               \/ Len(acc.bytes) = i + 1 /\ acc.idx \in 2..(i + 1)

LEMMA TurnSized ==
  ASSUME NEW at \in 0..P, NEW fresh \in BOOLEAN, NEW in \in Seq(Bytes),
         NEW i \in 0..(Len(in) - 1), NEW acc, Sized(in, at, acc, i)
  PROVE  Sized(in, at, Turn(acc, in[i + 1], fresh), i + 1)
<1>1. P \in Nat /\ P > 2 /\ K = P - 1 /\ Sync \in Bytes
  BY PacketAssumption DEF K, Bytes
<1>2. in[i + 1] \in Bytes /\ i \in Nat /\ i + 1 \in 1..Len(in)
  OBVIOUS
<1> DEFINE byte == in[i + 1]
           idx == acc.idx
           bytes == acc.bytes
<1>3. /\ bytes \in Seq(Bytes) /\ idx \in 0..P /\ Len(bytes) \in Nat
      /\ i <= K => \/ Len(bytes) = i
                   \/ Len(bytes) = i + 1 /\ idx \in 2..(i + 1)
  BY DEF Sized
<1> HIDE DEF byte, idx, bytes
<1>4. byte \in Bytes
  BY <1>2 DEF byte
<1>5. CASE idx = P \/ (fresh /\ idx = 0)
  <2> DEFINE new == bytes \o <<Sync, byte>>
  <2>1. Turn(acc, in[i + 1], fresh) = [bytes |-> new, idx |-> 2]
    BY <1>5 DEF Turn, idx, bytes, byte
  <2>2. new \in Seq(Bytes) /\ Len(new) = Len(bytes) + 2
    BY <1>1, <1>3, <1>4
  <2>3. i + 1 <= K => Len(bytes) = i
    BY <1>1, <1>2, <1>3, <1>5
  <2> HIDE DEF new
  <2> QED
    BY <1>1, <1>2, <1>3, <2>1, <2>2, <2>3 DEF Sized
<1>6. CASE ~(idx = P \/ (fresh /\ idx = 0))
  <2> DEFINE new == Append(bytes, byte)
  <2>1. Turn(acc, in[i + 1], fresh) = [bytes |-> new, idx |-> idx + 1]
    BY <1>6 DEF Turn, idx, bytes, byte
  <2>2. new \in Seq(Bytes) /\ Len(new) = Len(bytes) + 1
    BY <1>3, <1>4
  <2>3. idx + 1 \in 0..P /\ idx + 1 > 0
    BY <1>1, <1>3, <1>6
  <2>4. i + 1 <= K => \/ Len(new) = i + 1
                      \/ Len(new) = (i + 1) + 1 /\ idx + 1 \in 2..((i + 1) + 1)
    <3> HIDE DEF new
    <3> QED
      BY <1>1, <1>2, <1>3, <2>2
  <2>5. idx + 1 > 1 \/ at = 0
    <3>1. /\ i = 0 => idx = at
          /\ i > 0 => idx > 0
      BY DEF Sized, idx
    <3> QED
      BY <1>2, <1>3, <3>1
  <2> HIDE DEF new
  <2> QED
    BY <1>2, <1>3, <2>1, <2>2, <2>3, <2>4, <2>5 DEF Sized
<1> QED
  BY <1>5, <1>6

LEMMA LaidSized ==
  ASSUME NEW at \in 0..P, NEW fresh \in BOOLEAN, NEW in \in Seq(Bytes)
  PROVE  Sized(in, at, Layout(in, at, fresh), Len(in))
<1> DEFINE laid == LaidOut(in, at, fresh)
           S == {i \in 0..Len(in) : Sized(in, at, laid[i], i)}
<1>1. Len(in) \in Nat
  OBVIOUS
<1>2. \A i \in 0..Len(in) :
        laid[i] = IF i = 0 THEN [bytes |-> <<>>, idx |-> at]
                  ELSE Turn(laid[i - 1], in[i], fresh)
  BY <1>1, LaidOutIs
<1> HIDE DEF laid
<1>3. 0 \in S
  <2>1. laid[0] = [bytes |-> <<>>, idx |-> at]
    BY <1>1, <1>2
  <2>2. <<>> \in Seq(Bytes) /\ Len(<<>>) = 0
    OBVIOUS
  <2>3. Sized(in, at, laid[0], 0)
    BY <2>1, <2>2 DEF Sized
  <2> QED
    BY <1>1, <2>3
<1>4. ASSUME NEW i \in 0..(Len(in) - 1), i \in S PROVE i + 1 \in S
  <2>1. laid[i + 1] = Turn(laid[i], in[i + 1], fresh)
    BY <1>1, <1>2
  <2> QED
    BY <1>1, <1>4, <2>1, TurnSized
<1> HIDE DEF S
<1>5. 0..Len(in) \subseteq S
  BY <1>1, <1>3, <1>4, Induction
<1>6. Len(in) \in S
  BY <1>1, <1>5
<1> QED
  BY <1>6 DEF S, laid, Layout

----------------------------------------------------------------------------
(* Places.                                                                 *)

Succ(place) ==
  IF place.j = K THEN [up |-> (place.up + 1) % Ups, j |-> 1]
  ELSE [up |-> place.up, j |-> place.j + 1]

LEMMA Constants ==
  P \in Nat /\ P > 2 /\ K = P - 1 /\ K \in Nat \ {0} /\ P \in Nat \ {0} /\ Ups \in Nat \ {0}
  BY PacketAssumption DEF K

LEMMA AheadNext ==
  ASSUME NEW t \in Places, NEW n \in Nat
  PROVE  Ahead(t, n) \in Places /\ Ahead(t, n + 1) = Succ(Ahead(t, n))
<1> DEFINE a == t.j - 1 + n
           q == a \div K
<1>1. a \in Nat /\ t.j - 1 + (n + 1) = a + 1 /\ t.up \in Nat
  BY Constants DEF Places
<1>2. q \in Nat /\ a % K \in 0..(K - 1)
  BY <1>1, Divided, Constants
<1>3. /\ a % K = K - 1 => (a + 1) % K = 0 /\ (a + 1) \div K = q + 1
      /\ a % K # K - 1 => (a + 1) % K = (a % K) + 1 /\ (a + 1) \div K = q
  BY <1>1, OneMore, Constants
<1>4. /\ Ahead(t, n) = [up |-> (t.up + q) % Ups, j |-> (a % K) + 1]
      /\ Ahead(t, n + 1) = [up |-> (t.up + ((a + 1) \div K)) % Ups, j |-> ((a + 1) % K) + 1]
  BY <1>1 DEF Ahead
<1>5. t.up + q \in Nat /\ t.up + (q + 1) = (t.up + q) + 1
  BY <1>1, <1>2
<1> HIDE DEF a, q
<1>6. (t.up + q) % Ups \in 0..(Ups - 1)
  BY <1>5, Divided, Constants
<1>7. (((t.up + q) % Ups) + 1) % Ups = (t.up + (q + 1)) % Ups
  BY <1>5, Modulo, Constants
<1>8. Ahead(t, n) \in Places
  BY <1>2, <1>4, <1>6, Constants DEF Places
<1>9. CASE a % K = K - 1
  BY <1>3, <1>4, <1>7, <1>8, <1>9, Constants DEF Succ
<1>10. CASE a % K # K - 1
  BY <1>2, <1>3, <1>4, <1>8, <1>10, Constants DEF Succ
<1> QED
  BY <1>8, <1>9, <1>10

LEMMA AheadNone ==
  ASSUME NEW t \in Places
  PROVE  Ahead(t, 0) = t
<1>1. /\ t.j - 1 + 0 = t.j - 1 /\ t.j - 1 \in 0..(K - 1) /\ (t.j - 1) + 1 = t.j
      /\ t = [up |-> t.up, j |-> t.j] /\ t.up \in 0..(Ups - 1) /\ t.up + 0 = t.up
  BY Constants DEF Places
<1>2. (t.j - 1) \div K = 0 /\ (t.j - 1) % K = t.j - 1
  BY <1>1, Small, Constants
<1>4. t.up % Ups = t.up
  BY <1>1, Small, Constants
<1> QED
  BY <1>1, <1>2, <1>4 DEF Ahead

(* What stands after t bytes of the output, and what is due then.          *)
LEMMA DueIsOut ==
  ASSUME NEW plp, NEW up \in Nat, NEW t \in Nat
  PROVE  /\ t % P = 0 => /\ Out(plp, up, t + 1) = Sync
                         /\ Out(plp, up, t + 2) = Of(plp, Due(up, t))
                         /\ Due(up, t + 2) = Succ(Due(up, t))
         /\ t % P # 0 => /\ Out(plp, up, t + 1) = Of(plp, Due(up, t))
                         /\ Due(up, t + 1) = Succ(Due(up, t))
<1> DEFINE q == t \div P
<1>1. q \in Nat /\ t % P \in 0..(P - 1) /\ (t + 1) - 1 = t /\ (t + 2) - 1 = t + 1
  BY Divided, Constants
<1>2. /\ t % P = P - 1 => (t + 1) % P = 0 /\ (t + 1) \div P = q + 1
      /\ t % P # P - 1 => (t + 1) % P = (t % P) + 1 /\ (t + 1) \div P = q
  BY OneMore, Constants
<1>3. /\ (t + 1) % P # P - 1 => /\ ((t + 1) + 1) % P = ((t + 1) % P) + 1
                                /\ ((t + 1) + 1) \div P = (t + 1) \div P
      /\ (t + 1) + 1 = t + 2
  <2>1. t + 1 \in Nat /\ (t + 1) + 1 = t + 2
    OBVIOUS
  <2> QED
    BY <2>1, OneMore, Constants
<1>4. Due(up, t) = [up |-> (up + q) % Ups, j |-> IF t % P = 0 THEN 1 ELSE t % P]
  BY DEF Due
<1> HIDE DEF q
<1>5. (((up + q) % Ups) + 1) % Ups = (up + (q + 1)) % Ups
  <2>1. up + q \in Nat /\ (up + q) + 1 = up + (q + 1)
    BY <1>1
  <2> QED
    BY <2>1, Modulo, Constants
<1>6. CASE t % P = 0
  <2>1. (t + 1) % P = 1 /\ (t + 1) \div P = q /\ (t + 2) % P = 2 /\ (t + 2) \div P = q
    BY <1>2, <1>3, <1>6, Constants
  <2>2. Out(plp, up, t + 1) = Sync
    BY <1>1, <1>6 DEF Out
  <2>3. Out(plp, up, t + 2) = Of(plp, Due(up, t))
    BY <1>1, <1>4, <1>6, <2>1 DEF Out, Of
  <2>4. Due(up, t + 2) = Succ(Due(up, t))
    BY <1>4, <1>6, <2>1, Constants DEF Due, Succ
  <2> QED
    BY <1>6, <2>2, <2>3, <2>4
<1>7. CASE t % P # 0
  <2>1. Out(plp, up, t + 1) = Of(plp, Due(up, t))
    BY <1>1, <1>4, <1>7 DEF Out, Of, q
  <2>2. CASE t % P = K
    <3>1. Due(up, t + 1) = [up |-> (up + (q + 1)) % Ups, j |-> 1]
      BY <1>2, <2>2, Constants DEF Due
    <3> QED
      BY <1>4, <1>5, <1>7, <2>1, <2>2, <3>1 DEF Succ
  <2>3. CASE t % P # K
    <3>1. Due(up, t + 1) = [up |-> (up + q) % Ups, j |-> (t % P) + 1]
      BY <1>1, <1>2, <2>3, Constants DEF Due
    <3> QED
      BY <1>4, <1>7, <2>1, <2>3, <3>1 DEF Succ
  <2> QED
    BY <2>2, <2>3
<1> QED
  BY <1>6, <1>7


LEMMA Whole0 == P % P = 0 /\ 0 % P = 0
<1>1. 1 * P + 0 = P /\ 0 \in 0..(P - 1) /\ 1 \in Nat
  BY Constants
<1>2. (1 * P + 0) % P = 0
  BY <1>1, Quotient, Constants
<1> QED
  BY <1>1, <1>2, Small, Constants

LEMMA StepMod ==
  ASSUME NEW s \in Nat, NEW i \in Nat, s % P = i % P
  PROVE  (s + 1) % P = (i + 1) % P /\ (s % P = 0 => (s + 2) % P = 2 % P)
<1>1. ASSUME NEW b \in Nat PROVE ((s % P) + b) % P = (s + b) % P
  BY Modulo, Constants
<1>2. ASSUME NEW b \in Nat PROVE ((i % P) + b) % P = (i + b) % P
  BY Modulo, Constants
<1>3. ((s % P) + 1) % P = (s + 1) % P /\ ((i % P) + 1) % P = (i + 1) % P
  BY <1>1, <1>2
<1>4. s % P = 0 => (0 + 2) % P = (s + 2) % P
  BY <1>1
<1> QED
  BY <1>3, <1>4

LEMMA Joined ==
  ASSUME NEW S, NEW s \in Seq(S), NEW t \in Seq(S)
  PROVE  /\ s \o t \in Seq(S) /\ Len(s \o t) = Len(s) + Len(t)
         /\ \A i \in 1..Len(s) : (s \o t)[i] = s[i]
         /\ \A i \in 1..Len(t) : (s \o t)[Len(s) + i] = t[i]
  OBVIOUS

LEMMA TwoMore ==
  ASSUME NEW S, NEW s \in Seq(S), NEW a \in S, NEW b \in S
  PROVE  /\ s \o <<a, b>> \in Seq(S) /\ Len(s \o <<a, b>>) = Len(s) + 2
         /\ (s \o <<a, b>>)[Len(s) + 1] = a /\ (s \o <<a, b>>)[Len(s) + 2] = b
         /\ \A m \in 1..Len(s) : (s \o <<a, b>>)[m] = s[m]
  OBVIOUS

(* The data bytes of a PLP from place x after t on are laid out behind t0  *)
(* bytes of the output where these leave off.                              *)
Right(acc, i, t, x, plp, up, t0) ==
  /\ (t0 + Len(acc.bytes)) % P = acc.idx % P
  /\ Ahead(t, x + i) = Due(up, t0 + Len(acc.bytes))
  /\ \A m \in 1..Len(acc.bytes) : acc.bytes[m] = Out(plp, up, t0 + m)

LEMMA TurnRight ==
  ASSUME NEW at \in 0..P, NEW fresh \in BOOLEAN, at = 0 => fresh,
         NEW in \in Seq(Bytes), NEW i \in 0..(Len(in) - 1),
         NEW acc, Sized(in, at, acc, i),
         NEW t \in Places, NEW x \in Nat, NEW plp, NEW up \in Nat, NEW t0 \in Nat,
         in[i + 1] = Of(plp, Ahead(t, x + i)),
         Right(acc, i, t, x, plp, up, t0)
  PROVE  Right(Turn(acc, in[i + 1], fresh), i + 1, t, x, plp, up, t0)
<1> DEFINE byte == in[i + 1]
           idx == acc.idx
           bytes == acc.bytes
           n == Len(bytes)
           place == Ahead(t, x + i)
           s == t0 + n
<1>1. /\ bytes \in Seq(Bytes) /\ idx \in 0..P /\ n \in Nat /\ s \in Nat
      /\ n = Len(bytes) /\ s = t0 + n /\ (idx = 0 => fresh)
  <2>1. /\ bytes \in Seq(Bytes) /\ idx \in 0..P
        /\ i = 0 => idx = at
        /\ i > 0 => idx > 0
    BY DEF Sized
  <2>2. n \in Nat /\ (i = 0 \/ i > 0)
    BY <2>1
  <2> QED
    BY <2>1, <2>2, Constants
<1>2. /\ s % P = idx % P /\ place = Due(up, s)
      /\ \A m \in 1..n : bytes[m] = Out(plp, up, t0 + m)
  BY DEF Right
<1>3. byte \in Bytes /\ Sync \in Bytes /\ byte = Of(plp, place)
  BY DEF Bytes
<1>4. Ahead(t, x + (i + 1)) = Succ(place)
  <2>1. x + i \in Nat /\ x + (i + 1) = (x + i) + 1
    OBVIOUS
  <2> QED
    BY <2>1, AheadNext
<1>5. Turn(acc, in[i + 1], fresh) =
        IF idx = P \/ (fresh /\ idx = 0)
        THEN [bytes |-> bytes \o <<Sync, byte>>, idx |-> 2]
        ELSE [bytes |-> Append(bytes, byte), idx |-> idx + 1]
  BY DEF Turn
<1> HIDE DEF byte, idx, bytes, n, place, s
<1>6. /\ s % P = 0 => /\ Out(plp, up, s + 1) = Sync
                      /\ Out(plp, up, s + 2) = Of(plp, Due(up, s))
                      /\ Due(up, s + 2) = Succ(Due(up, s))
      /\ s % P # 0 => /\ Out(plp, up, s + 1) = Of(plp, Due(up, s))
                      /\ Due(up, s + 1) = Succ(Due(up, s))
  <2>1. s \in Nat
    BY <1>1
  <2> QED
    BY ONLY <2>1, up \in Nat, DueIsOut
<1>7. /\ idx = P \/ idx = 0 => s % P = 0
      /\ ~(idx = P \/ idx = 0) => s % P # 0
  <2>1. P % P = 0 /\ 0 % P = 0
    BY Whole0
  <2>2. ASSUME ~(idx = P \/ idx = 0) PROVE idx % P = idx
    <3>1. idx \in 0..(P - 1)
      BY <1>1, <2>2, Constants
    <3> QED
      BY <3>1, Small, Constants
  <2> QED
    BY <1>2, <2>1, <2>2
<1>8. CASE idx = P \/ idx = 0
  <2> DEFINE new == bytes \o <<Sync, byte>>
  <2>1. Turn(acc, in[i + 1], fresh) = [bytes |-> new, idx |-> 2]
    BY <1>1, <1>5, <1>8
  <2>2. /\ Len(new) = n + 2 /\ new[n + 1] = Sync /\ new[n + 2] = byte
        /\ \A m \in 1..n : new[m] = bytes[m]
    BY <1>1, <1>3, TwoMore
  <2> HIDE DEF new
  <2>3. (s + 2) % P = 2 % P
    BY <1>1, <1>7, <1>8, StepMod
  <2>4. ASSUME NEW m \in 1..(n + 2) PROVE new[m] = Out(plp, up, t0 + m)
    <3>1. m = n + 1 \/ m = n + 2 \/ m \in 1..n
      BY <1>1
    <3>2. t0 + (n + 1) = s + 1 /\ t0 + (n + 2) = s + 2
      BY <1>1
    <3> QED
      BY <1>2, <1>3, <1>6, <1>7, <1>8, <2>2, <3>1, <3>2
  <2>5. Ahead(t, x + (i + 1)) = Due(up, s + 2)
    BY <1>2, <1>4, <1>6, <1>7, <1>8
  <2>6. t0 + Len(new) = s + 2
    BY <1>1, <2>2
  <2> DEFINE acc2 == Turn(acc, in[i + 1], fresh)
  <2>7. acc2.bytes = new /\ acc2.idx = 2
    BY <2>1
  <2> HIDE DEF acc2
  <2>8. Right(acc2, i + 1, t, x, plp, up, t0)
    BY <2>2, <2>3, <2>4, <2>5, <2>6, <2>7 DEF Right
  <2> QED
    BY <2>8 DEF acc2
<1>9. CASE ~(idx = P \/ idx = 0)
  <2> DEFINE new == Append(bytes, byte)
  <2>1. Turn(acc, in[i + 1], fresh) = [bytes |-> new, idx |-> idx + 1]
    BY <1>1, <1>5, <1>9
  <2>2. /\ Len(new) = n + 1 /\ new[n + 1] = byte /\ \A m \in 1..n : new[m] = bytes[m]
    BY <1>1, <1>3
  <2> HIDE DEF new
  <2>3. (s + 1) % P = (idx + 1) % P
    BY <1>1, <1>2, StepMod
  <2>4. ASSUME NEW m \in 1..(n + 1) PROVE new[m] = Out(plp, up, t0 + m)
    <3>1. m = n + 1 \/ m \in 1..n
      BY <1>1
    <3>2. t0 + (n + 1) = s + 1
      BY <1>1
    <3> QED
      BY <1>2, <1>3, <1>6, <1>7, <1>9, <2>2, <3>1, <3>2
  <2>5. Ahead(t, x + (i + 1)) = Due(up, s + 1)
    BY <1>2, <1>4, <1>6, <1>7, <1>9
  <2>6. t0 + Len(new) = s + 1
    BY <1>1, <2>2
  <2> DEFINE acc2 == Turn(acc, in[i + 1], fresh)
  <2>7. acc2.bytes = new /\ acc2.idx = idx + 1
    BY <2>1
  <2> HIDE DEF acc2
  <2>8. Right(acc2, i + 1, t, x, plp, up, t0)
    BY <2>2, <2>3, <2>4, <2>5, <2>6, <2>7 DEF Right
  <2> QED
    BY <2>8 DEF acc2
<1> QED
  BY <1>8, <1>9

LEMMA LaidRight ==
  ASSUME NEW at \in 0..P, NEW fresh \in BOOLEAN, at = 0 => fresh, NEW in \in Seq(Bytes),
         NEW t \in Places, NEW x \in Nat, NEW plp, NEW up \in Nat, NEW t0 \in Nat,
         \A i \in 1..Len(in) : in[i] = Of(plp, Ahead(t, x + i - 1)),
         Ahead(t, x) = Due(up, t0), at % P = t0 % P
  PROVE  Right(Layout(in, at, fresh), Len(in), t, x, plp, up, t0)
<1> DEFINE laid == LaidOut(in, at, fresh)
           Good(i) == Sized(in, at, laid[i], i) /\ Right(laid[i], i, t, x, plp, up, t0)
           S == {i \in 0..Len(in) : Good(i)}
<1>1. Len(in) \in Nat
  OBVIOUS
<1>2. \A i \in 0..Len(in) :
        laid[i] = IF i = 0 THEN [bytes |-> <<>>, idx |-> at]
                  ELSE Turn(laid[i - 1], in[i], fresh)
  BY <1>1, LaidOutIs
<1> HIDE DEF laid
<1>3. Good(0)
  <2>1. laid[0] = [bytes |-> <<>>, idx |-> at]
    BY <1>1, <1>2
  <2>2. <<>> \in Seq(Bytes) /\ Len(<<>>) = 0 /\ t0 + 0 = t0 /\ x + 0 = x
    OBVIOUS
  <2>3. Sized(in, at, laid[0], 0)
    BY <2>1, <2>2 DEF Sized
  <2>4. Right(laid[0], 0, t, x, plp, up, t0)
    BY <2>1, <2>2 DEF Right
  <2> QED
    BY <2>3, <2>4
<1>4. ASSUME NEW i \in 0..(Len(in) - 1), Good(i) PROVE Good(i + 1)
  <2>1. laid[i + 1] = Turn(laid[i], in[i + 1], fresh)
    BY <1>1, <1>2
  <2>2. in[i + 1] = Of(plp, Ahead(t, x + i))
    BY <1>1
  <2>3. Sized(in, at, laid[i + 1], i + 1)
    BY <1>4, <2>1, TurnSized
  <2>4. Right(laid[i + 1], i + 1, t, x, plp, up, t0)
    BY <1>4, <2>1, <2>2, TurnRight
  <2> QED
    BY <2>3, <2>4
<1>5. 0 \in S /\ \A i \in 0..(Len(in) - 1) : i \in S => i + 1 \in S
  <2> HIDE DEF Good
  <2> QED
    BY <1>1, <1>3, <1>4
<1> HIDE DEF S
<1>6. Len(in) \in S
  <2>1. 0..Len(in) \subseteq S
    BY <1>1, <1>5, Induction
  <2> QED
    BY <1>1, <2>1
<1> QED
  BY <1>6 DEF S, laid, Layout


----------------------------------------------------------------------------
(* What Decode puts together.                                              *)

Body(plp, d) == SubSeq(DataField(plp, d), Syncd(plp) + 1, d)

LenWhole(plp, d) == Len(Body(plp, d)) - Kept(Body(plp, d))

(* What was begun, and the bytes that complete it.                         *)
Old(plp, d) == packet \o (IF split THEN Resume(DataField(plp, d), Syncd(plp)) ELSE <<>>)

NowOf(plp, d) ==
  Layout(SubSeq(Body(plp, d), 1, LenWhole(plp, d)), IF split THEN P ELSE idx_packet, TRUE)

LaterOf(plp, d) ==
  Layout(SubSeq(Body(plp, d), LenWhole(plp, d) + 1, Len(Body(plp, d))), NowOf(plp, d).idx, FALSE)

LEMMA FieldIs ==
  ASSUME tx \in [Ids -> Places], NEW plp \in Ids, NEW d \in Nat
  PROVE  /\ DataField(plp, d) \in Seq(Bytes) /\ Len(DataField(plp, d)) = d
         /\ \A i \in 1..d : DataField(plp, d)[i] = Of(plp, Ahead(tx[plp], i - 1))
<1>1. ASSUME NEW i \in 1..d
      PROVE  /\ Of(plp, Ahead(tx[plp], i - 1)) \in Bytes
             /\ Of(plp, Ahead(tx[plp], i - 1)) =
                  [plp |-> plp, up |-> Ahead(tx[plp], i - 1).up, j |-> Ahead(tx[plp], i - 1).j]
  <2>1. Ahead(tx[plp], i - 1) \in Places
    BY AheadNext
  <2> QED
    BY <2>1 DEF Of, Places, Bytes
<1>2. DataField(plp, d) = [i \in 1..d |-> Of(plp, Ahead(tx[plp], i - 1))]
  BY DEF DataField, Of
<1> DEFINE f == [i \in 1..d |-> Of(plp, Ahead(tx[plp], i - 1))]
<1>3. f \in [1..d -> Bytes]
  BY <1>1
<1>4. \A i \in 1..d : f[i] = Of(plp, Ahead(tx[plp], i - 1))
  OBVIOUS
<1> HIDE DEF f
<1>5. f \in Seq(Bytes) /\ Len(f) = d
  BY <1>3
<1> QED
  BY <1>2, <1>4, <1>5 DEF f

(* The first packet that starts in a data field starts at syncd.           *)
LEMMA SyncdIs ==
  ASSUME tx \in [Ids -> Places], NEW plp \in Ids
  PROVE  /\ Syncd(plp) \in 0..(K - 1) /\ Ahead(tx[plp], Syncd(plp)).j = 1
         /\ Ahead(tx[plp], Syncd(plp)).up =
              IF tx[plp].j = 1 THEN tx[plp].up ELSE (tx[plp].up + 1) % Ups
         /\ Syncd(plp) = IF tx[plp].j = 1 THEN 0 ELSE P - tx[plp].j
         /\ \A i \in 0..(Syncd(plp) - 1) :
              Ahead(tx[plp], i) = [up |-> tx[plp].up, j |-> tx[plp].j + i]
<1> DEFINE t == tx[plp]
<1>1. t.up \in 0..(Ups - 1) /\ t.j \in 1..K /\ t \in Places
  BY DEF Places
<1>2. t.up % Ups = t.up
  BY <1>1, Small, Constants
<1>3. CASE t.j = 1
  <2>1. Syncd(plp) = 0
    BY <1>3 DEF Syncd
  <2> QED
    BY <1>1, <1>3, <2>1, AheadNone, Constants
<1>4. CASE t.j # 1
  <2>1. Syncd(plp) = P - t.j /\ t.j - 1 + (P - t.j) = K /\ Syncd(plp) \in 0..(K - 1)
    BY <1>1, <1>4, Constants DEF Syncd
  <2>2. K \div K = 1 /\ K % K = 0
    <3>1. 1 * K + 0 = K /\ 0 \in 0..(K - 1) /\ 1 \in Nat
      BY Constants
    <3>2. (1 * K + 0) \div K = 1 /\ (1 * K + 0) % K = 0
      BY <3>1, Quotient, Constants
    <3> QED
      BY <3>1, <3>2
  <2>3. Ahead(t, Syncd(plp)) = [up |-> (t.up + 1) % Ups, j |-> 1]
    BY <2>1, <2>2 DEF Ahead
  <2>4. ASSUME NEW i \in 0..(Syncd(plp) - 1)
        PROVE  Ahead(t, i) = [up |-> t.up, j |-> t.j + i]
    <3>1. t.j - 1 + i \in 0..(K - 1) /\ (t.j - 1 + i) + 1 = t.j + i /\ t.up + 0 = t.up
      BY <1>1, <2>1, Constants
    <3>2. (t.j - 1 + i) \div K = 0 /\ (t.j - 1 + i) % K = t.j - 1 + i
      BY <3>1, Small, Constants
    <3> QED
      BY <1>2, <3>1, <3>2 DEF Ahead
  <2> QED
    BY <1>4, <2>1, <2>3, <2>4
<1> QED
  BY <1>3, <1>4

LEMMA BodyIs ==
  ASSUME tx \in [Ids -> Places], NEW plp \in Ids, NEW d \in Nat, Syncd(plp) < d
  PROVE  /\ Body(plp, d) \in Seq(Bytes) /\ Len(Body(plp, d)) = d - Syncd(plp)
         /\ \A i \in 1..(d - Syncd(plp)) :
              Body(plp, d)[i] = Of(plp, Ahead(tx[plp], Syncd(plp) + i - 1))
         /\ LenWhole(plp, d) \in 0..(d - Syncd(plp) - 1)
         /\ (d - Syncd(plp)) - LenWhole(plp, d) \in 1..K
         /\ d - Syncd(plp) >= P => LenWhole(plp, d) > 0
<1> DEFINE in == DataField(plp, d)
           x == Syncd(plp)
<1>1. /\ in \in Seq(Bytes) /\ Len(in) = d
      /\ \A i \in 1..d : in[i] = Of(plp, Ahead(tx[plp], i - 1))
  BY FieldIs
<1>2. x \in Nat /\ x < d
  BY SyncdIs, Constants
<1>3. Body(plp, d) = SubSeq(in, x + 1, d)
  BY DEF Body
<1> HIDE DEF in, x
<1>4. /\ Body(plp, d) \in Seq(Bytes) /\ Len(Body(plp, d)) = d - x
      /\ \A i \in 1..(d - x) : Body(plp, d)[i] = in[x + i]
  BY <1>1, <1>2, <1>3
<1>5. ASSUME NEW i \in 1..(d - x) PROVE Body(plp, d)[i] = Of(plp, Ahead(tx[plp], x + i - 1))
  <2>1. x + i \in 1..d
    BY <1>2
  <2>2. in[x + i] = Of(plp, Ahead(tx[plp], (x + i) - 1))
    BY <1>1, <2>1
  <2>3. Body(plp, d)[i] = in[x + i]
    BY <1>4
  <2>4. (x + i) - 1 = x + i - 1
    BY <1>2
  <2> QED
    BY <2>2, <2>3, <2>4
<1>6. LenWhole(plp, d) = IF d - x > K THEN d - x - K ELSE 0
  BY <1>2, <1>4, Constants DEF LenWhole, Kept
<1> QED
  BY <1>2, <1>4, <1>5, <1>6, Constants DEF x


LEMMA ResumeIs ==
  ASSUME TypeOK, NEW plp \in Ids, NEW d \in Nat, Syncd(plp) < d
  PROVE  LET in == DataField(plp, d)
             x == Syncd(plp)
             len == P - idx_packet
             copied == IF len < x THEN len ELSE x
             n == Len(buffer)
         IN  /\ Resume(in, x) \in Seq(Bytes) /\ Len(Resume(in, x)) = n + len
             /\ len \in Nat /\ copied \in 0..len /\ copied \in 0..d
             /\ \A i \in 1..n : Resume(in, x)[i] = buffer[i]
             /\ \A i \in 1..copied : Resume(in, x)[n + i] = in[i]
             /\ \A i \in (copied + 1)..len : Resume(in, x)[n + i] = Fill
<1> DEFINE in == DataField(plp, d)
           x == Syncd(plp)
           len == P - idx_packet
           copied == IF len < x THEN len ELSE x
           fill == [i \in 1..(len - copied) |-> Fill]
           part == SubSeq(in, 1, copied)
<1>1. tx \in [Ids -> Places] /\ idx_packet \in 0..P /\ buffer \in Seq(Bytes)
  BY DEF TypeOK
<1>2. in \in Seq(Bytes) /\ Len(in) = d /\ x \in Nat /\ x < d
  BY <1>1, FieldIs, SyncdIs, Constants
<1>3. len \in Nat /\ len - copied \in Nat /\ copied \in 0..d /\ copied \in 0..len
  BY <1>1, <1>2, Constants
<1>4. Resume(in, x) = (buffer \o part) \o fill
  BY DEF Resume
<1>5. part \in Seq(Bytes) /\ Len(part) = copied /\ \A i \in 1..copied : part[i] = in[i]
  <2> HIDE DEF in, copied
  <2> QED
    BY <1>2, <1>3
<1>6. /\ fill \in Seq(Bytes) /\ Len(fill) = len - copied
      /\ \A i \in 1..(len - copied) : fill[i] = Fill
  <2>1. fill \in [1..(len - copied) -> Bytes] /\ \A i \in 1..(len - copied) : fill[i] = Fill
    BY DEF Bytes
  <2> HIDE DEF fill, len, copied
  <2> QED
    BY <1>3, <2>1
<1> HIDE DEF part, fill, in, x, copied, len
<1> DEFINE front == buffer \o part
<1>7. /\ front \in Seq(Bytes) /\ Len(front) = Len(buffer) + copied
      /\ \A i \in 1..Len(buffer) : front[i] = buffer[i]
      /\ \A i \in 1..copied : front[Len(buffer) + i] = part[i]
  BY <1>1, <1>3, <1>5
<1> HIDE DEF front
<1>8. /\ Resume(in, x) \in Seq(Bytes) /\ Len(Resume(in, x)) = Len(buffer) + len
      /\ \A i \in 1..(Len(buffer) + copied) : Resume(in, x)[i] = front[i]
      /\ \A i \in 1..(len - copied) : Resume(in, x)[(Len(buffer) + copied) + i] = fill[i]
  <2>1. Resume(in, x) = front \o fill
    BY <1>4 DEF front
  <2>2. /\ front \o fill \in Seq(Bytes) /\ Len(front \o fill) = Len(front) + Len(fill)
        /\ \A i \in 1..Len(front) : (front \o fill)[i] = front[i]
        /\ \A i \in 1..Len(fill) : (front \o fill)[Len(front) + i] = fill[i]
    <3>1. front \in Seq(Bytes) /\ fill \in Seq(Bytes)
      BY <1>6, <1>7
    <3> QED
      BY ONLY <3>1, Joined
  <2>3. (Len(buffer) + copied) + (len - copied) = Len(buffer) + len
    BY <1>1, <1>3
  <2> QED
    BY <1>6, <1>7, <2>1, <2>2, <2>3
<1>9. \A i \in (copied + 1)..len : Resume(in, x)[Len(buffer) + i] = Fill
  <2> SUFFICES ASSUME NEW i \in (copied + 1)..len PROVE Resume(in, x)[Len(buffer) + i] = Fill
    OBVIOUS
  <2>1. i - copied \in 1..(len - copied) /\ (Len(buffer) + copied) + (i - copied) = Len(buffer) + i
    BY <1>1, <1>3
  <2> QED
    BY <1>6, <1>8, <2>1
<1>10. \A i \in 1..copied : Resume(in, x)[Len(buffer) + i] = in[i]
  <2> SUFFICES ASSUME NEW i \in 1..copied PROVE Resume(in, x)[Len(buffer) + i] = in[i]
    OBVIOUS
  <2>1. Len(buffer) + i \in 1..(Len(buffer) + copied)
    BY <1>1, <1>3
  <2> QED
    BY <1>5, <1>7, <1>8, <2>1
<1>11. \A i \in 1..Len(buffer) : Resume(in, x)[i] = buffer[i]
  BY <1>1, <1>3, <1>7, <1>8
<1> QED
  BY <1>3, <1>8, <1>9, <1>10, <1>11 DEF in, x, len, copied

(* The sizes and types of the parts.                                       *)
LEMMA PartsSized ==
  ASSUME TypeOK, NEW plp \in Ids, NEW d \in Nat, Syncd(plp) < d
  PROVE  /\ Old(plp, d) \in Seq(Bytes)
         /\ LET b == Body(plp, d)
                w == LenWhole(plp, d)
                at == IF split THEN P ELSE idx_packet
            IN  /\ SubSeq(b, 1, w) \in Seq(Bytes) /\ SubSeq(b, w + 1, Len(b)) \in Seq(Bytes)
                /\ Len(SubSeq(b, 1, w)) = w /\ Len(SubSeq(b, w + 1, Len(b))) = Len(b) - w
                /\ Sized(SubSeq(b, 1, w), at, NowOf(plp, d), w)
                /\ Sized(SubSeq(b, w + 1, Len(b)), NowOf(plp, d).idx, LaterOf(plp, d), Len(b) - w)
<1> DEFINE in == DataField(plp, d)
           x == Syncd(plp)
           b == Body(plp, d)
           w == LenWhole(plp, d)
           at == IF split THEN P ELSE idx_packet
           one == SubSeq(b, 1, w)
           two == SubSeq(b, w + 1, Len(b))
<1>1. tx \in [Ids -> Places] /\ idx_packet \in 0..P /\ packet \in Seq(Bytes) /\ buffer \in Seq(Bytes)
  BY DEF TypeOK
<1>2. in \in Seq(Bytes) /\ Len(in) = d /\ x \in Nat /\ x < d
  BY <1>1, FieldIs, SyncdIs, Constants
<1>3. b \in Seq(Bytes) /\ Len(b) \in Nat /\ w \in Nat /\ w <= Len(b)
  BY <1>1, <1>2, BodyIs, Constants
<1>4. /\ one \in Seq(Bytes) /\ Len(one) = w /\ two \in Seq(Bytes) /\ Len(two) = Len(b) - w
  <2> HIDE DEF b, w
  <2> QED
    BY <1>3
<1>5. at \in 0..P /\ TRUE \in BOOLEAN /\ FALSE \in BOOLEAN
  BY <1>1, Constants
<1>6. Sized(one, at, NowOf(plp, d), w)
  <2>1. NowOf(plp, d) = Layout(one, at, TRUE)
    BY DEF NowOf
  <2> HIDE DEF one, at
  <2> QED
    BY <1>4, <1>5, <2>1, LaidSized
<1>7. Sized(two, NowOf(plp, d).idx, LaterOf(plp, d), Len(b) - w)
  <2>1. LaterOf(plp, d) = Layout(two, NowOf(plp, d).idx, FALSE)
    BY DEF LaterOf
  <2>2. NowOf(plp, d).idx \in 0..P
    BY <1>6 DEF Sized
  <2> HIDE DEF two
  <2> QED
    BY <1>4, <1>5, <2>1, <2>2, LaidSized
<1>8. Old(plp, d) \in Seq(Bytes)
  <2>1. CASE split
    <3>1. Resume(in, x) \in Seq(Bytes)
      BY ResumeIs
    <3> QED
      BY <1>1, <2>1, <3>1 DEF Old
  <2>2. CASE ~split
    BY <1>1, <2>2 DEF Old
  <2> QED
    BY <2>1, <2>2
<1> QED
  BY <1>4, <1>6, <1>7, <1>8

(* Decode in terms of the parts.                                           *)
LEMMA DecodeIs ==
  ASSUME TypeOK, NEW plp \in Ids, NEW d \in Nat, Syncd(plp) < d, Decode(plp, d)
  PROVE  LET stream == Old(plp, d) \o NowOf(plp, d).bytes
             n == Len(stream) \div P
         IN  /\ done' = [i \in 1..n |-> SubSeq(stream, (i - 1) * P + 1, i * P)]
             /\ packet' = SubSeq(stream, n * P + 1, Len(stream))
             /\ last' = IF hadGap THEN <<>> ELSE Previous
             /\ hadGap' = gap /\ gap' = FALSE /\ split' = TRUE
             /\ buffer' = LaterOf(plp, d).bytes /\ idx_packet' = LaterOf(plp, d).idx
<1> DEFINE resume == IF split THEN Resume(DataField(plp, d), Syncd(plp)) ELSE <<>>
<1>1. /\ Emit(resume \o NowOf(plp, d).bytes) /\ split' = TRUE
      /\ buffer' = LaterOf(plp, d).bytes /\ idx_packet' = LaterOf(plp, d).idx
  BY DEF Decode, NowOf, LaterOf, Body, LenWhole
<1>2. packet \o (resume \o NowOf(plp, d).bytes) = Old(plp, d) \o NowOf(plp, d).bytes
  <2>1. packet \in Seq(Bytes) /\ buffer \in Seq(Bytes)
    BY DEF TypeOK
  <2>2. NowOf(plp, d).bytes \in Seq(Bytes)
    BY PartsSized DEF Sized
  <2>3. resume \in Seq(Bytes)
    <3>1. Resume(DataField(plp, d), Syncd(plp)) \in Seq(Bytes)
      BY ResumeIs
    <3> QED
      BY <3>1
  <2>4. Old(plp, d) = packet \o resume
    BY DEF Old
  <2> HIDE DEF resume
  <2>5. \A b \in Seq(Bytes) : packet \o (resume \o b) = (packet \o resume) \o b
    BY <2>1, <2>3, ConcatAssociative
  <2> QED
    BY <2>2, <2>4, <2>5
<1> HIDE DEF resume
<1> QED
  BY <1>1, <1>2 DEF Emit, Previous


(* A stream cut into packets.                                              *)
Cut(stream, k) == SubSeq(stream, (k - 1) * P + 1, k * P)

Rest(stream) == SubSeq(stream, (Len(stream) \div P) * P + 1, Len(stream))

LEMMA CutIs ==
  ASSUME NEW stream \in Seq(Bytes)
  PROVE  /\ Len(stream) \div P \in Nat
         /\ \A k \in 1..(Len(stream) \div P) :
              /\ Cut(stream, k) \in Seq(Bytes) /\ Len(Cut(stream, k)) = P
              /\ \A r \in 1..P : /\ (k - 1) * P + r \in 1..Len(stream)
                                 /\ Cut(stream, k)[r] = stream[(k - 1) * P + r]
         /\ Rest(stream) \in Seq(Bytes)
         /\ Len(stream) = (Len(stream) \div P) * P + Len(Rest(stream))
         /\ Len(Rest(stream)) \in 0..(P - 1)
         /\ \A i \in 1..Len(Rest(stream)) : Rest(stream)[i] = stream[(Len(stream) \div P) * P + i]
<1> DEFINE n == Len(stream) \div P
<1>1. /\ n \in Nat /\ Len(stream) \in Nat /\ n * P \in Nat
      /\ Len(stream) = n * P + (Len(stream) % P) /\ Len(stream) % P \in 0..(P - 1)
  <2>1. Len(stream) \in Nat /\ P \in Nat \ {0}
    BY Constants
  <2>2. /\ n \in Nat /\ Len(stream) % P \in 0..(P - 1)
        /\ Len(stream) = n * P + (Len(stream) % P)
    BY ONLY <2>1, Divided
  <2> HIDE DEF n
  <2>3. n * P \in Nat
    BY <2>1, <2>2
  <2> QED
    BY <2>1, <2>2, <2>3
<1> HIDE DEF n
<1>2. ASSUME NEW k \in 1..n
      PROVE  /\ Cut(stream, k) \in Seq(Bytes) /\ Len(Cut(stream, k)) = P
             /\ \A r \in 1..P : /\ (k - 1) * P + r \in 1..Len(stream)
                                /\ Cut(stream, k)[r] = stream[(k - 1) * P + r]
  <2>1. k * P <= n * P /\ k * P \in Nat
    BY <1>1, Monotone, Constants
  <2>2. (k - 1) * P \in Nat /\ k * P = (k - 1) * P + P
    BY Constants
  <2> DEFINE a == (k - 1) * P
             b == k * P
  <2> HIDE DEF a, b
  <2>3. a \in Nat /\ b = a + P /\ b <= Len(stream)
    BY <1>1, <2>1, <2>2 DEF a, b
  <2>4. SubSeq(stream, a + 1, b) \in Seq(Bytes) /\ Len(SubSeq(stream, a + 1, b)) = P
    BY <2>3, Constants
  <2>5. ASSUME NEW r \in 1..P
        PROVE  a + r \in 1..Len(stream) /\ SubSeq(stream, a + 1, b)[r] = stream[a + r]
    BY <2>3, Constants
  <2> QED
    BY <2>4, <2>5 DEF a, b, Cut
<1>3. /\ Rest(stream) \in Seq(Bytes) /\ Len(stream) = n * P + Len(Rest(stream))
      /\ Len(Rest(stream)) \in 0..(P - 1)
      /\ \A i \in 1..Len(Rest(stream)) : Rest(stream)[i] = stream[n * P + i]
  <2> DEFINE a == n * P
  <2> HIDE DEF a
  <2>1. a \in Nat /\ a <= Len(stream) /\ Len(stream) - a \in 0..(P - 1)
    BY <1>1, Constants DEF a
  <2>2. Rest(stream) = SubSeq(stream, a + 1, Len(stream))
    BY DEF Rest, a, n
  <2>3. /\ Rest(stream) \in Seq(Bytes) /\ Len(Rest(stream)) = Len(stream) - a
        /\ \A i \in 1..(Len(stream) - a) : Rest(stream)[i] = stream[a + i]
    BY <2>1, <2>2
  <2> QED
    BY <2>1, <2>3 DEF a
<1> QED
  BY <1>1, <1>2, <1>3 DEF n

----------------------------------------------------------------------------
(* Types.                                                                  *)

LEMMA TypeInit == Init => TypeOK
<1> SUFFICES ASSUME Init PROVE TypeOK
  OBVIOUS
<1>1. <<>> \in Seq(Bytes) /\ <<>> \in Seq(Seq(Bytes)) /\ Len(<<>>) = 0
  OBVIOUS
<1>2. tx \in [Ids -> Places]
  <2>1. {[up |-> 0, j |-> j] : j \in 1..K} \subseteq Places
    BY Constants DEF Places
  <2> QED
    BY <2>1 DEF Init
<1>3. 0 \in Ids
  BY PacketAssumption DEF Ids
<1> QED
  BY <1>1, <1>2, <1>3, Constants DEF Init, TypeOK

LEMMA SendTypes ==
  ASSUME TypeOK, NEW plp \in Ids, NEW d \in Nat, Send(plp, d)
  PROVE  tx' \in [Ids -> Places]
<1>1. Ahead(tx[plp], d) \in Places
  BY AheadNext DEF TypeOK
<1> QED
  BY <1>1 DEF Send, TypeOK

LEMMA SetInfoTypes ==
  ASSUME TypeOK, NEW plp \in Ids, SetInfo(plp)
  PROVE  info_already_set' \in BOOLEAN /\ next_plp_info' \in Ids
<1>1. CASE UNCHANGED infoVars
  BY <1>1 DEF infoVars, TypeOK
<1>2. CASE ~UNCHANGED infoVars
  <2>1. next_plp_info' = (plp + 1) % Plps /\ info_already_set' = (plp + 1 = Plps)
    BY <1>2 DEF SetInfo
  <2>2. plp + 1 \in Nat /\ Plps \in Nat \ {0}
    BY PacketAssumption DEF Ids
  <2>3. (plp + 1) % Plps \in Ids
    BY <2>2, Divided DEF Ids
  <2> QED
    BY <2>1, <2>3
<1> QED
  BY <1>1, <1>2

LEMMA DecodeTypes ==
  ASSUME TypeOK, NEW plp \in Ids, NEW d \in Nat, Decode(plp, d)
  PROVE  TypeOK'
<1>1. Syncd(plp) < d /\ SetInfo(plp) /\ Send(plp, d) /\ need_plp' = need_plp
  BY DEF Decode
<1>2. /\ need_plp' \in Ids /\ tx' \in [Ids -> Places]
      /\ info_already_set' \in BOOLEAN /\ next_plp_info' \in Ids
  BY <1>1, SendTypes, SetInfoTypes DEF TypeOK
<1> DEFINE stream == Old(plp, d) \o NowOf(plp, d).bytes
           n == Len(stream) \div P
<1>3. stream \in Seq(Bytes)
  BY <1>1, PartsSized DEF Sized
<1>4. /\ done' = [i \in 1..n |-> Cut(stream, i)] /\ packet' = Rest(stream)
      /\ last' = IF hadGap THEN <<>> ELSE Previous
      /\ hadGap' = gap /\ gap' = FALSE /\ split' = TRUE
      /\ buffer' = LaterOf(plp, d).bytes /\ idx_packet' = LaterOf(plp, d).idx
  BY <1>1, DecodeIs DEF Cut, Rest
<1> HIDE DEF stream
<1>5. /\ n \in Nat /\ \A k \in 1..n : Cut(stream, k) \in Seq(Bytes)
      /\ Rest(stream) \in Seq(Bytes) /\ Len(Rest(stream)) < P
  <2>1. /\ n \in Nat /\ \A k \in 1..n : Cut(stream, k) \in Seq(Bytes)
        /\ Rest(stream) \in Seq(Bytes) /\ Len(Rest(stream)) \in 0..(P - 1)
    BY ONLY <1>3, CutIs
  <2> QED
    BY <2>1, Constants
<1> HIDE DEF n
<1>6. done' \in Seq(Seq(Bytes))
  <2>1. done' \in [1..n -> Seq(Bytes)]
    BY <1>4, <1>5
  <2> QED
    BY <1>5, <2>1
<1>7. last' \in Seq(Bytes)
  <2>1. Previous \in Seq(Bytes)
    <3>1. CASE done = <<>>
      BY <3>1 DEF Previous, TypeOK
    <3>2. CASE done # <<>>
      <4>1. done \in Seq(Seq(Bytes)) /\ Len(done) \in 1..Len(done)
        BY <3>2 DEF TypeOK
      <4>2. Previous = done[Len(done)]
        BY <3>2 DEF Previous, Last
      <4> QED
        BY <4>1, <4>2, ElementOfSeq
    <3> QED
      BY <3>1, <3>2
  <2>2. <<>> \in Seq(Bytes)
    OBVIOUS
  <2> QED
    BY <1>4, <2>1, <2>2
<1>8. buffer' \in Seq(Bytes) /\ Len(buffer') <= P /\ idx_packet' \in 0..P
  <2> DEFINE i == Len(Body(plp, d)) - LenWhole(plp, d)
  <2>1. i \in 1..K
    BY <1>1, BodyIs DEF TypeOK
  <2>2. /\ LaterOf(plp, d).bytes \in Seq(Bytes) /\ LaterOf(plp, d).idx \in 0..P
        /\ i <= K => \/ Len(LaterOf(plp, d).bytes) = i
                     \/ Len(LaterOf(plp, d).bytes) = i + 1
    BY <1>1, PartsSized DEF Sized
  <2> HIDE DEF i
  <2> QED
    BY <1>4, <2>1, <2>2, Constants
<1>9. gap' \in BOOLEAN /\ hadGap' \in BOOLEAN /\ split' \in BOOLEAN
  BY <1>4 DEF TypeOK
<1> QED
  BY <1>2, <1>4, <1>5, <1>6, <1>7, <1>8, <1>9 DEF TypeOK

LEMMA TypeStep == TypeOK /\ [Next]_vars => TypeOK'
<1> SUFFICES ASSUME TypeOK, [Next]_vars PROVE TypeOK'
  OBVIOUS
<1> USE DEF TypeOK
<1>1. ASSUME NEW plp \in Ids, NEW d \in Dfls, Lose(plp, d) PROVE TypeOK'
  <2>1. d \in Nat /\ tx' \in [Ids -> Places]
    BY <1>1, SendTypes, PacketAssumption DEF Lose
  <2> QED
    BY <1>1, <2>1 DEF Lose, Dropped, tsVars, infoVars
<1>2. ASSUME NEW plp \in Ids, NEW d \in Dfls, HeaderError(plp, d) PROVE TypeOK'
  <2>1. d \in Nat /\ tx' \in [Ids -> Places]
    BY <1>2, SendTypes, PacketAssumption DEF HeaderError
  <2> QED
    BY <1>2, <2>1 DEF HeaderError, Dropped, tsVars
<1>3. ASSUME NEW plp \in Ids, NEW d \in Dfls, Ignore(plp, d) PROVE TypeOK'
  <2>1. /\ tx' \in [Ids -> Places]
        /\ info_already_set' \in BOOLEAN /\ next_plp_info' \in Ids
    <3>1. d \in Nat /\ Send(plp, d) /\ SetInfo(plp)
      BY <1>3, PacketAssumption DEF Ignore
    <3> HIDE DEF TypeOK
    <3> QED
      BY <3>1, SendTypes, SetInfoTypes
  <2> QED
    BY <1>3, <2>1 DEF Ignore, Dropped, tsVars
<1>4. ASSUME NEW plp \in Ids, NEW d \in Dfls, Decode(plp, d) PROVE TypeOK'
  BY <1>4, DecodeTypes, PacketAssumption
<1>5. ASSUME NEW plp \in Ids, SetOut(plp) PROVE TypeOK'
  BY <1>5 DEF SetOut, tsVars, infoVars
<1>6. CASE UNCHANGED vars
  BY <1>6 DEF vars, tsVars, infoVars, history
<1> QED
  BY <1>1, <1>2, <1>3, <1>4, <1>5, <1>6 DEF Next, Frame

----------------------------------------------------------------------------
(* The stream a frame begins: packet by packet what was sent.              *)

(* The bytes laid out by one call, those put out and those kept.           *)
New(plp, d) == NowOf(plp, d).bytes \o LaterOf(plp, d).bytes

(* The number of the first packet that starts in the data field.           *)
First(plp) == Ahead(tx[plp], Syncd(plp)).up

LEMMA NewRight ==
  ASSUME TypeOK, StreamInv, FirstDfl >= P, NEW plp \in Ids, NEW d \in Nat, Decode(plp, d)
  PROVE  /\ First(plp) \in 0..(Ups - 1)
         /\ New(plp, d) \in Seq(Bytes)
         /\ \A m \in 1..Len(New(plp, d)) : New(plp, d)[m] = Out(plp, First(plp), m)
         /\ Len(New(plp, d)) % P = idx_packet' % P /\ idx_packet' \in 2..P
         /\ Len(New(plp, d)) > 0 /\ tx'[plp] = Due(First(plp), Len(New(plp, d)))
         /\ ~split => NowOf(plp, d).bytes # <<>>
<1> DEFINE x == Syncd(plp)
           t == tx[plp]
           b == Body(plp, d)
           w == LenWhole(plp, d)
           at == IF split THEN P ELSE idx_packet
           one == SubSeq(b, 1, w)
           two == SubSeq(b, w + 1, Len(b))
           now == NowOf(plp, d)
           later == LaterOf(plp, d)
           up == First(plp)
<1>1. tx \in [Ids -> Places] /\ t \in Places
  BY DEF TypeOK
<1>2. x \in Nat /\ x < d /\ up \in 0..(Ups - 1) /\ Ahead(t, x) = Due(up, 0)
  <2>1. x \in Nat /\ x < d /\ Ahead(t, x).j = 1 /\ Ahead(t, x) \in Places
    BY <1>1, SyncdIs, AheadNext, Constants DEF Decode
  <2>2. up \in 0..(Ups - 1) /\ Ahead(t, x) = [up |-> up, j |-> 1]
    BY <2>1 DEF Places, First
  <2>3. 0 % P = 0 /\ 0 \div P = 0 /\ up + 0 = up
    <3>1. 0 \in 0..(P - 1)
      BY Constants
    <3> QED
      BY <2>2, <3>1, Small, Constants
  <2>4. up % Ups = up
    BY <2>2, Small, Constants
  <2> QED
    BY <2>1, <2>2, <2>3, <2>4 DEF Due
<1>3. /\ b \in Seq(Bytes) /\ Len(b) = d - x /\ w \in Nat /\ w < d - x
      /\ \A i \in 1..(d - x) : b[i] = Of(plp, Ahead(t, x + i - 1))
      /\ d - x >= P => w > 0
  <2>1. w \in 0..(d - x - 1)
    BY <1>1, <1>2, BodyIs
  <2> HIDE DEF w
  <2>2. w \in Nat /\ w < d - x
    BY <1>2, <2>1
  <2> QED
    BY <1>1, <1>2, <2>2, BodyIs DEF w
<1>4. /\ one \in Seq(Bytes) /\ Len(one) = w /\ two \in Seq(Bytes) /\ Len(two) = Len(b) - w
      /\ Sized(one, at, now, w) /\ Sized(two, now.idx, later, Len(b) - w)
  BY <1>2, PartsSized
<1>5. /\ at \in 0..P /\ at % P = 0 % P /\ (at = 0 => w > 0)
  <2>1. CASE split
    BY <2>1, Whole0, Constants
  <2>2. CASE ~split
    <3>1. idx_packet = 0
      BY <2>2 DEF StreamInv
    <3>2. d - x >= FirstDfl
      BY <3>1 DEF Decode
    <3> QED
      BY <1>2, <1>3, <2>2, <3>1, <3>2, PacketAssumption
  <2> QED
    BY <2>1, <2>2
<1>6. ASSUME NEW i \in 1..Len(one) PROVE one[i] = Of(plp, Ahead(t, x + i - 1))
  <2> HIDE DEF b, w, t, x
  <2>1. one[i] = b[i] /\ i \in 1..(d - x)
    BY <1>2, <1>3, <1>4
  <2> QED
    BY <1>3, <2>1
<1>7. now = Layout(one, at, TRUE) /\ later = Layout(two, now.idx, FALSE)
  BY DEF NowOf, LaterOf
<1> HIDE DEF x, t, b, w, at, one, two, up
<1>8. Right(now, w, t, x, plp, up, 0)
  <2>1. /\ up \in Nat /\ 0 \in Nat /\ TRUE \in BOOLEAN /\ one \in Seq(Bytes) /\ at \in 0..P
        /\ (at = 0 => TRUE) /\ at % P = 0 % P /\ Ahead(t, x) = Due(up, 0) /\ x \in Nat /\ t \in Places
        /\ \A i \in 1..Len(one) : one[i] = Of(plp, Ahead(t, x + i - 1))
    BY <1>1, <1>2, <1>4, <1>5, <1>6
  <2>2. Right(Layout(one, at, TRUE), Len(one), t, x, plp, up, 0)
    BY ONLY <2>1, LaidRight
  <2> QED
    BY <1>4, <1>7, <2>2
<1> DEFINE n == Len(now.bytes)
<1>9. /\ now.bytes \in Seq(Bytes) /\ now.idx \in 0..P /\ n \in Nat
      /\ w > 0 => now.idx > 0 /\ n > 0
      /\ w = 0 => now.idx = at
  <2>1. /\ now.bytes \in Seq(Bytes) /\ now.idx \in 0..P
        /\ w > 0 => now.idx > 0 /\ n > 0
        /\ w = 0 => now.idx = at
    BY <1>4 DEF Sized
  <2> QED
    BY <2>1
<1>10. now.idx # 0
  BY <1>3, <1>5, <1>9
<1>11. /\ n % P = now.idx % P /\ Ahead(t, x + w) = Due(up, n)
       /\ \A m \in 1..n : now.bytes[m] = Out(plp, up, m)
  <2>1. 0 + n = n /\ \A m \in 1..n : 0 + m = m
    BY <1>9
  <2> QED
    BY <1>8, <2>1 DEF Right
<1>12. Right(later, Len(b) - w, t, x + w, plp, up, n)
  <2>1. ASSUME NEW i \in 1..Len(two) PROVE two[i] = Of(plp, Ahead(t, x + w + i - 1))
    <3>1. two[i] = b[w + i] /\ w + i \in 1..(d - x) /\ x + (w + i) - 1 = x + w + i - 1
      BY <1>2, <1>3, <1>4 DEF two
    <3> QED
      BY <1>3, <3>1
  <2> DEFINE y == x + w
  <2> HIDE DEF n
  <2>2. y \in Nat
    BY <1>2, <1>3
  <2>3. \A i \in 1..Len(two) : two[i] = Of(plp, Ahead(t, y + i - 1))
    BY <2>1
  <2>4. Ahead(t, y) = Due(up, n)
    BY <1>11
  <2> HIDE DEF y
  <2>5. /\ up \in Nat /\ n \in Nat /\ FALSE \in BOOLEAN /\ two \in Seq(Bytes) /\ now.idx \in 0..P
        /\ (now.idx = 0 => FALSE) /\ now.idx % P = n % P /\ t \in Places
    BY <1>1, <1>2, <1>4, <1>9, <1>10, <1>11
  <2>6. Right(Layout(two, now.idx, FALSE), Len(two), t, y, plp, up, n)
    BY ONLY <2>2, <2>3, <2>4, <2>5, LaidRight
  <2> QED
    BY <1>4, <1>7, <2>6 DEF y
<1> DEFINE l == Len(later.bytes)
<1>13. later.bytes \in Seq(Bytes) /\ later.idx \in 2..P /\ l \in Nat /\ l > 0
  <2>1. /\ later.bytes \in Seq(Bytes) /\ later.idx \in 0..P
        /\ Len(b) - w > 0 => l > 0 /\ (later.idx > 1 \/ now.idx = 0)
    BY <1>4 DEF Sized
  <2>2. Len(b) - w > 0 /\ l \in Nat
    BY <1>2, <1>3, <2>1
  <2> QED
    BY <1>10, <2>1, <2>2, Constants
<1>14. /\ (n + l) % P = later.idx % P /\ Ahead(t, x + w + (Len(b) - w)) = Due(up, n + l)
       /\ \A m \in 1..l : later.bytes[m] = Out(plp, up, n + m)
  BY <1>12 DEF Right
<1>15. x + w + (Len(b) - w) = d
  BY <1>2, <1>3
<1>16. tx'[plp] = Ahead(t, d)
  BY <1>1 DEF Decode, Send, t
<1>17. idx_packet' = later.idx
  BY <1>2, DecodeIs DEF x
<1>18. /\ New(plp, d) \in Seq(Bytes) /\ Len(New(plp, d)) = n + l
       /\ \A m \in 1..n : New(plp, d)[m] = now.bytes[m]
       /\ \A m \in 1..l : New(plp, d)[n + m] = later.bytes[m]
  <2>1. now.bytes \in Seq(Bytes) /\ later.bytes \in Seq(Bytes)
    BY <1>9, <1>13
  <2>2. New(plp, d) = now.bytes \o later.bytes
    BY DEF New
  <2> DEFINE p == now.bytes
             q == later.bytes
  <2> HIDE DEF p, q
  <2>3. /\ p \o q \in Seq(Bytes) /\ Len(p \o q) = Len(p) + Len(q)
        /\ \A m \in 1..Len(p) : (p \o q)[m] = p[m]
        /\ \A m \in 1..Len(q) : (p \o q)[Len(p) + m] = q[m]
    <3>1. p \in Seq(Bytes) /\ q \in Seq(Bytes)
      BY <2>1 DEF p, q
    <3> QED
      BY ONLY <3>1, Joined
  <2> QED
    BY <2>2, <2>3 DEF p, q
<1> HIDE DEF n, l
<1>19. ASSUME NEW m \in 1..(n + l) PROVE New(plp, d)[m] = Out(plp, up, m)
  <2>1. CASE m <= n
    <3>1. m \in 1..n
      BY <1>9, <1>13, <2>1
    <3> QED
      BY <1>11, <1>18, <3>1
  <2>2. CASE m > n
    <3>1. m - n \in 1..l /\ n + (m - n) = m
      BY <1>9, <1>13, <2>2
    <3>2. New(plp, d)[n + (m - n)] = Out(plp, up, n + (m - n))
      BY <1>14, <1>18, <3>1
    <3> QED
      BY <3>1, <3>2
  <2> QED
    BY <1>9, <1>13, <2>1, <2>2
<1>20. ~split => NowOf(plp, d).bytes # <<>>
  <2>1. ~split => at = 0
    BY DEF at, StreamInv
  <2>2. n > 0 => NowOf(plp, d).bytes # <<>>
    BY DEF n
  <2> QED
    BY <1>5, <1>9, <2>1, <2>2
<1>21. n + l > 0
  BY <1>9, <1>13
<1> QED
  BY <1>2, <1>13, <1>14, <1>15, <1>16, <1>17, <1>18, <1>19, <1>20, <1>21 DEF up

----------------------------------------------------------------------------
(* Packets of the output.                                                  *)

LEMMA OutPacket ==
  ASSUME NEW plp, NEW up, NEW k \in Nat, NEW r \in 1..P
  PROVE  Out(plp, up, k * P + r) =
           IF r = 1 THEN Sync ELSE [plp |-> plp, up |-> (up + k) % Ups, j |-> r - 1]
<1>1. k * P \in Nat /\ (k * P + r) - 1 = k * P + (r - 1) /\ r - 1 \in 0..(P - 1)
  BY Constants
<1>2. (k * P + (r - 1)) % P = r - 1 /\ (k * P + (r - 1)) \div P = k
  BY <1>1, Quotient, Constants
<1> QED
  BY <1>1, <1>2 DEF Out

LEMMA Shifted ==
  ASSUME NEW up \in Nat, NEW n \in Nat, NEW q \in Nat
  PROVE  (((up + n) % Ups) + q) % Ups = (up + (n + q)) % Ups
<1>1. up + n \in Nat /\ (up + n) + q = up + (n + q)
  OBVIOUS
<1>2. Ups \in Nat \ {0}
  BY Constants
<1>3. (((up + n) % Ups) + q) % Ups = ((up + n) + q) % Ups
  BY ONLY <1>1, <1>2, q \in Nat, Modulo
<1> QED
  BY <1>1, <1>3

(* Whole packets later the output is that of a later packet.               *)
LEMMA OutShift ==
  ASSUME NEW plp, NEW up \in Nat, NEW n \in Nat, NEW i \in Nat \ {0}
  PROVE  Out(plp, up, n * P + i) = Out(plp, (up + n) % Ups, i)
<1>1. n * P \in Nat /\ (n * P + i) - 1 = n * P + (i - 1) /\ i - 1 \in Nat
  BY Constants
<1> DEFINE a == i - 1
           q == a \div P
<1>2. (n * P + a) % P = a % P /\ (n * P + a) \div P = n + q /\ q \in Nat
  <2>1. a \in Nat /\ P \in Nat \ {0}
    BY <1>1, Constants
  <2> HIDE DEF a
  <2>2. (n * P + a) % P = a % P /\ (n * P + a) \div P = n + (a \div P)
    BY ONLY <2>1, n \in Nat, WholeMore
  <2>3. a \div P \in Nat
    BY ONLY <2>1, Divided
  <2> QED
    BY <2>2, <2>3
<1>3. Out(plp, up, n * P + i) =
        IF a % P = 0 THEN Sync
        ELSE [plp |-> plp, up |-> (up + (n + q)) % Ups, j |-> a % P]
  BY <1>1, <1>2 DEF Out
<1>4. Out(plp, (up + n) % Ups, i) =
        IF a % P = 0 THEN Sync
        ELSE [plp |-> plp, up |-> (((up + n) % Ups) + q) % Ups, j |-> a % P]
  BY DEF Out
<1> HIDE DEF a, q
<1> QED
  BY <1>2, <1>3, <1>4, Shifted

LEMMA DueShift ==
  ASSUME NEW up \in Nat, NEW n \in Nat, NEW t \in Nat
  PROVE  Due(up, n * P + t) = Due((up + n) % Ups, t)
<1> DEFINE q == t \div P
<1>1. (n * P + t) % P = t % P /\ (n * P + t) \div P = n + q /\ q \in Nat
  <2>1. P \in Nat \ {0}
    BY Constants
  <2>2. (n * P + t) % P = t % P /\ (n * P + t) \div P = n + (t \div P)
    BY ONLY <2>1, n \in Nat, t \in Nat, WholeMore
  <2>3. t \div P \in Nat
    BY ONLY <2>1, t \in Nat, Divided
  <2> QED
    BY <2>2, <2>3
<1>2. Due(up, n * P + t) = [up |-> (up + (n + q)) % Ups, j |-> IF t % P = 0 THEN 1 ELSE t % P]
  BY <1>1 DEF Due
<1>3. Due((up + n) % Ups, t) =
        [up |-> (((up + n) % Ups) + q) % Ups, j |-> IF t % P = 0 THEN 1 ELSE t % P]
  BY DEF Due
<1> HIDE DEF q
<1> QED
  BY <1>1, <1>2, <1>3, Shifted

(* Packet k after packet `up' of the output; it is whole.                  *)
IsPacket(p, plp, up, k) ==
  Len(p) = P /\ \A r \in 1..P : p[r] = Out(plp, up, k * P + r)

LEMMA PacketWhole ==
  ASSUME NEW plp, NEW up, NEW k \in Nat, NEW p, IsPacket(p, plp, up, k)
  PROVE  Whole(p) /\ StartsPacket(p) /\ p[2].up = (up + k) % Ups
<1>1. /\ p[1] = Sync
      /\ \A r \in 2..P : p[r] = [plp |-> plp, up |-> (up + k) % Ups, j |-> r - 1]
  <2>1. ASSUME NEW r \in 1..P
        PROVE  p[r] = IF r = 1 THEN Sync
                      ELSE [plp |-> plp, up |-> (up + k) % Ups, j |-> r - 1]
    <3>1. p[r] = Out(plp, up, k * P + r)
      BY DEF IsPacket
    <3>2. Out(plp, up, k * P + r) =
            IF r = 1 THEN Sync ELSE [plp |-> plp, up |-> (up + k) % Ups, j |-> r - 1]
      BY ONLY k \in Nat, r \in 1..P, OutPacket
    <3> QED
      BY <3>1, <3>2
  <2>2. 1 \in 1..P /\ \A r \in 2..P : r \in 1..P /\ r # 1
    BY Constants
  <2> QED
    BY <2>1, <2>2
<1>2. p[2] = [plp |-> plp, up |-> (up + k) % Ups, j |-> 1]
  BY <1>1, Constants
<1>3. ASSUME NEW r \in 2..P PROVE p[r] # Sync
  <2>1. p[r] = [plp |-> plp, up |-> (up + k) % Ups, j |-> r - 1] /\ r - 1 # 0
    BY <1>1, Constants
  <2>2. p[r].j = r - 1 /\ Sync.j = 0
    BY <2>1 DEF Sync
  <2> QED
    BY <2>1, <2>2
<1> QED
  BY <1>1, <1>2, <1>3 DEF Whole, StartsPacket, IsPacket

LEMMA BeginningStarts ==
  ASSUME NEW plp, NEW up \in Nat, NEW p \in Seq(Bytes), p # <<>>, Len(p) < P,
         \A r \in 1..Len(p) : p[r] = Out(plp, up, r)
  PROVE  StartsPacket(p)
<1>1. Len(p) \in Nat /\ Len(p) > 0
  OBVIOUS
<1>2. ASSUME NEW r \in 1..Len(p)
      PROVE  p[r] = IF r = 1 THEN Sync
                    ELSE [plp |-> plp, up |-> (up + 0) % Ups, j |-> r - 1]
  <2>1. 0 * P + r = r /\ r \in 1..P /\ 0 \in Nat
    BY <1>1, Constants
  <2>2. Out(plp, up, 0 * P + r) = IF r = 1 THEN Sync
                    ELSE [plp |-> plp, up |-> (up + 0) % Ups, j |-> r - 1]
    BY <2>1, OutPacket
  <2> QED
    BY <2>1, <2>2
<1>3. ASSUME NEW r \in 2..Len(p) PROVE p[r] # Sync
  <2>1. r \in 1..Len(p) /\ r # 1 /\ r - 1 # 0
    BY <1>1
  <2>2. p[r] = [plp |-> plp, up |-> (up + 0) % Ups, j |-> r - 1]
    BY <1>2, <2>1
  <2>3. p[r].j = r - 1 /\ Sync.j = 0
    BY <2>2 DEF Sync
  <2> QED
    BY <2>1, <2>3
<1>4. p[1] = Sync
  <2>1. 1 \in 1..Len(p)
    BY <1>1
  <2> QED
    BY <1>2, <2>1
<1> QED
  BY <1>3, <1>4 DEF StartsPacket

(* How far idx_packet stands into the last packet begun.                   *)
LEMMA Reached ==
  ASSUME NEW l \in Nat, l > 0, NEW idx \in 1..P, l % P = idx % P
  PROVE  \E q \in Nat : l = q * P + idx
<1> DEFINE n == l \div P
<1>1. n \in Nat /\ l = n * P + (l % P)
  <2>1. P \in Nat \ {0}
    BY Constants
  <2> QED
    BY ONLY <2>1, l \in Nat, Divided
<1> HIDE DEF n
<1>2. CASE idx = P
  <2>1. l = n * P + 0
    BY <1>1, <1>2, Whole0
  <2>2. n # 0
    BY <2>1, Constants
  <2>3. n - 1 \in Nat /\ (n - 1) * P + P = n * P /\ n * P + 0 = n * P
    BY <1>1, <2>2, Constants
  <2> QED
    BY <1>2, <2>1, <2>3
<1>3. CASE idx # P
  <2>1. idx \in 0..(P - 1) /\ P \in Nat \ {0}
    BY <1>3, Constants
  <2>2. idx % P = idx
    BY ONLY <2>1, Small
  <2> QED
    BY <1>1, <2>2
<1> QED
  BY <1>2, <1>3

(* What the output has of the packets begun, once Decode has completed the *)
(* last of them: at each place what was begun, and then what came before   *)
(* syncd, or filling.                                                      *)
LEMMA OldIs ==
  ASSUME TypeOK, StreamInv, split, NEW plp \in Ids, NEW d \in Nat, Syncd(plp) < d
  PROVE  LET L == Len(Begun)
             x == Syncd(plp)
             len == P - idx_packet
             copied == IF len < x THEN len ELSE x
         IN  /\ L \in Nat /\ Len(Old(plp, d)) = L + len
             /\ len \in Nat /\ copied \in 0..len /\ copied \in 0..d
             /\ \A i \in 1..L : Old(plp, d)[i] = Begun[i]
             /\ \A i \in 1..copied : Old(plp, d)[L + i] = Of(plp, Ahead(tx[plp], i - 1))
             /\ \A i \in (copied + 1)..len : Old(plp, d)[L + i] = Fill
<1> DEFINE L == Len(Begun)
           x == Syncd(plp)
           len == P - idx_packet
           copied == IF len < x THEN len ELSE x
           in == DataField(plp, d)
           res == Resume(in, x)
           p == Len(packet)
           n == Len(buffer)
<1>1. packet \in Seq(Bytes) /\ buffer \in Seq(Bytes) /\ tx \in [Ids -> Places]
  BY DEF TypeOK
<1>2. \A i \in 1..d : in[i] = Of(plp, Ahead(tx[plp], i - 1))
  BY <1>1, FieldIs
<1>3. /\ res \in Seq(Bytes) /\ Len(res) = n + len
      /\ len \in Nat /\ copied \in 0..len /\ copied \in 0..d
      /\ \A i \in 1..n : res[i] = buffer[i]
      /\ \A i \in 1..copied : res[n + i] = in[i]
      /\ \A i \in (copied + 1)..len : res[n + i] = Fill
  BY ResumeIs
<1>4. Old(plp, d) = packet \o res
  BY DEF Old
<1> HIDE DEF res, in, x, len, copied
<1>5. /\ Len(packet \o res) = p + Len(res)
      /\ \A i \in 1..p : (packet \o res)[i] = packet[i]
      /\ \A i \in 1..Len(res) : (packet \o res)[p + i] = res[i]
  <2>1. packet \in Seq(Bytes) /\ res \in Seq(Bytes)
    BY <1>1, <1>3
  <2> QED
    BY ONLY <2>1, Joined
<1>6. /\ L = p + n
      /\ \A i \in 1..p : Begun[i] = packet[i]
      /\ \A i \in 1..n : Begun[p + i] = buffer[i]
  <2>1. packet \in Seq(Bytes) /\ buffer \in Seq(Bytes)
    BY <1>1
  <2>2. /\ Len(packet \o buffer) = p + n
        /\ \A i \in 1..p : (packet \o buffer)[i] = packet[i]
        /\ \A i \in 1..n : (packet \o buffer)[p + i] = buffer[i]
    BY ONLY <2>1, Joined
  <2> QED
    BY <2>2 DEF Begun
<1>7. p \in Nat /\ n \in Nat
  BY <1>1
<1> HIDE DEF L, p, n
<1>8. L \in Nat /\ Len(Old(plp, d)) = L + len
  BY <1>3, <1>4, <1>5, <1>6, <1>7
<1>9. ASSUME NEW i \in 1..L PROVE Old(plp, d)[i] = Begun[i]
  <2>1. CASE i <= p
    <3>1. i \in 1..p
      BY <1>6, <1>7, <2>1
    <3> QED
      BY <1>4, <1>5, <1>6, <3>1
  <2>2. CASE i > p
    <3>1. i - p \in 1..n /\ i - p \in 1..Len(res) /\ p + (i - p) = i
      BY <1>3, <1>6, <1>7, <2>2
    <3>2. (packet \o res)[p + (i - p)] = buffer[i - p] /\ Begun[p + (i - p)] = buffer[i - p]
      BY <1>3, <1>5, <1>6, <3>1
    <3> QED
      BY <1>4, <3>1, <3>2
  <2> QED
    BY <1>6, <1>7, <2>1, <2>2
<1>10. ASSUME NEW i \in 1..len PROVE Old(plp, d)[L + i] = res[n + i]
  <2>1. n + i \in 1..Len(res) /\ p + (n + i) = L + i
    BY <1>3, <1>6, <1>7
  <2>2. (packet \o res)[p + (n + i)] = res[n + i]
    BY <1>5, <2>1
  <2> QED
    BY <1>4, <2>1, <2>2
<1>11. ASSUME NEW i \in 1..copied PROVE Old(plp, d)[L + i] = Of(plp, Ahead(tx[plp], i - 1))
  <2>1. i \in 1..len /\ i \in 1..d
    BY <1>3
  <2> QED
    BY <1>2, <1>3, <1>10, <2>1
<1>12. ASSUME NEW i \in (copied + 1)..len PROVE Old(plp, d)[L + i] = Fill
  <2>1. i \in 1..len
    BY <1>3
  <2> QED
    BY <1>3, <1>10, <2>1
<1> QED
  BY <1>3, <1>8, <1>9, <1>11, <1>12 DEF L, x, len, copied

(* Where nothing is missing, it is the rest of the packet, and the data    *)
(* field goes on with the packet after it.                                 *)
LEMMA GapFree ==
  ASSUME TypeOK, StreamInv, split, NEW plp \in Ids, NEW d \in Nat, Syncd(plp) < d,
         NEW up \in 0..(Ups - 1), NEW q \in Nat, Len(Begun) = q * P + idx_packet,
         tx[plp] = Due(up, Len(Begun))
  PROVE  /\ First(plp) = (up + (q + 1)) % Ups
         /\ \A i \in 1..(P - idx_packet) :
              Old(plp, d)[Len(Begun) + i] = Out(plp, up, Len(Begun) + i)
<1> DEFINE L == Len(Begun)
           x == Syncd(plp)
           len == P - idx_packet
           t == tx[plp]
<1>1. idx_packet \in 2..P /\ tx \in [Ids -> Places] /\ q * P \in Nat
  BY Constants DEF TypeOK, StreamInv
<1>2. /\ First(plp) = IF t.j = 1 THEN t.up ELSE (t.up + 1) % Ups
      /\ x = IF t.j = 1 THEN 0 ELSE P - t.j
      /\ \A i \in 0..(x - 1) : Ahead(t, i) = [up |-> t.up, j |-> t.j + i]
  BY <1>1, SyncdIs DEF First
<1>3. CASE idx_packet = P
  <2>1. L = (q + 1) * P + 0 /\ q + 1 \in Nat /\ 0 \in 0..(P - 1)
    BY <1>1, <1>3, Constants
  <2>2. L \div P = q + 1 /\ L % P = 0
    <3>1. P \in Nat \ {0} /\ q + 1 \in Nat /\ 0 \in 0..(P - 1)
      BY <2>1, Constants
    <3>2. ((q + 1) * P + 0) \div P = q + 1 /\ ((q + 1) * P + 0) % P = 0
      BY ONLY <3>1, Quotient
    <3> QED
      BY <2>1, <3>2
  <2>3. t.j = 1 /\ t.up = (up + (q + 1)) % Ups
    BY <2>2 DEF Due
  <2> QED
    BY <1>2, <1>3, <2>3, Constants
<1>4. CASE idx_packet # P
  <2>1. L = q * P + idx_packet /\ idx_packet \in 0..(P - 1)
    BY <1>1, <1>4, Constants
  <2>2. L \div P = q /\ L % P = idx_packet
    <3>1. P \in Nat \ {0} /\ q \in Nat /\ idx_packet \in 0..(P - 1)
      BY <2>1, Constants
    <3>2. (q * P + idx_packet) \div P = q /\ (q * P + idx_packet) % P = idx_packet
      BY ONLY <3>1, Quotient
    <3> QED
      BY <2>1, <3>2
  <2>3. t.j = idx_packet /\ t.up = (up + q) % Ups /\ t.j # 1
    BY <1>1, <2>2 DEF Due
  <2>4. First(plp) = (up + (q + 1)) % Ups
    <3>1. up \in Nat /\ 1 \in Nat
      OBVIOUS
    <3>2. (((up + q) % Ups) + 1) % Ups = (up + (q + 1)) % Ups
      BY <3>1, Shifted
    <3> QED
      BY <1>2, <2>3, <3>2
  <2>5. ASSUME NEW i \in 1..len PROVE Old(plp, d)[L + i] = Out(plp, up, L + i)
    <3>1. x = len /\ i \in 1..x /\ i - 1 \in 0..(x - 1)
      BY <1>1, <1>2, <2>3, Constants
    <3>2. Old(plp, d)[L + i] = Of(plp, Ahead(t, i - 1))
      <4>1. \A m \in 1..(IF len < x THEN len ELSE x) :
              Old(plp, d)[L + m] = Of(plp, Ahead(t, m - 1))
        BY OldIs
      <4>2. i \in 1..(IF len < x THEN len ELSE x)
        <5> HIDE DEF x, len
        <5> QED
          BY <3>1
      <4> QED
        BY <4>1, <4>2
    <3>3. Ahead(t, i - 1) = [up |-> (up + q) % Ups, j |-> idx_packet + (i - 1)]
      BY <1>2, <2>3, <3>1
    <3> DEFINE r == idx_packet + i
    <3>4. r \in 1..P /\ r # 1 /\ L + i = q * P + r /\ idx_packet + (i - 1) = r - 1
      BY <1>1, <2>1, Constants
    <3>5. Out(plp, up, q * P + r) =
            IF r = 1 THEN Sync ELSE [plp |-> plp, up |-> (up + q) % Ups, j |-> r - 1]
      <4> HIDE DEF r
      <4> QED
        BY <3>4, OutPacket
    <3> HIDE DEF r
    <3> QED
      BY <3>2, <3>3, <3>4, <3>5 DEF Of
  <2> QED
    BY <2>4, <2>5
<1> QED
  BY <1>3, <1>4

(* Packet q, the last one begun, is completed; those before it are whole.  *)
Completed(plp, d, own, up, q) ==
  /\ Len(Old(plp, d)) = (q + 1) * P
  /\ \A k \in 1..q, r \in 1..P :
       Old(plp, d)[(k - 1) * P + r] = Out(own, up, (k - 1) * P + r)
  /\ Old(plp, d)[q * P + 1] = Sync
  /\ \A r \in 2..P : Old(plp, d)[q * P + r] # Sync
  /\ ~gap => /\ First(plp) = (up + (q + 1)) % Ups
             /\ \A i \in 1..((q + 1) * P) : Old(plp, d)[i] = Out(plp, up, i)
  /\ ~hadGap /\ Previous # <<>> => (Previous[2].up + 1) % Ups = up

LEMMA OldRight ==
  ASSUME TypeOK, StreamInv, split, NEW plp \in Ids, NEW d \in Nat, Decode(plp, d)
  PROVE  \E own \in Ids, up \in 0..(Ups - 1), q \in Nat : Completed(plp, d, own, up, q)
<1> DEFINE L == Len(Begun)
           len == P - idx_packet
           x == Syncd(plp)
           old == Old(plp, d)
           copied == IF len < x THEN len ELSE x
<1>1. /\ idx_packet \in 2..P /\ L > 0 /\ L % P = idx_packet % P
      /\ tx \in [Ids -> Places] /\ x < d /\ plp = need_plp
  BY DEF StreamInv, TypeOK, Decode
<1>2. PICK own \in Ids, up \in 0..(Ups - 1) :
        /\ \A i \in 1..L : Begun[i] = Out(own, up, i)
        /\ ~gap => own = need_plp /\ tx[own] = Due(up, L)
        /\ ~hadGap /\ Previous # <<>> => (Previous[2].up + 1) % Ups = up
  BY DEF StreamInv
<1>3. /\ L \in Nat /\ Len(old) = L + len
      /\ len \in Nat /\ copied \in 0..len /\ copied \in 0..d
      /\ \A i \in 1..L : old[i] = Begun[i]
      /\ \A i \in 1..copied : old[L + i] = Of(plp, Ahead(tx[plp], i - 1))
      /\ \A i \in (copied + 1)..len : old[L + i] = Fill
  BY <1>1, OldIs
<1>4. PICK q \in Nat : L = q * P + idx_packet
  BY <1>1, <1>3, Reached
<1>5. q * P \in Nat /\ (q + 1) * P = q * P + P /\ L + len = (q + 1) * P
  BY <1>1, <1>4, Constants
<1>6. ~gap => /\ First(plp) = (up + (q + 1)) % Ups
              /\ \A i \in 1..len : old[L + i] = Out(plp, up, L + i)
  <2> SUFFICES ASSUME ~gap PROVE /\ First(plp) = (up + (q + 1)) % Ups
                                 /\ \A i \in 1..len : old[L + i] = Out(plp, up, L + i)
    OBVIOUS
  <2>1. tx[plp] = Due(up, L)
    BY <1>1, <1>2
  <2> QED
    BY <1>1, <1>4, <2>1, GapFree
<1> HIDE DEF L, len, x, old, copied
<1>7. ASSUME NEW i \in 1..len PROVE old[L + i] # Sync
  <2>1. CASE i <= copied
    <3>1. i \in 1..copied /\ i - 1 \in Nat
      BY <1>3, <2>1
    <3>2. Ahead(tx[plp], i - 1) \in Places
      BY <1>1, <3>1, AheadNext
    <3>3. Of(plp, Ahead(tx[plp], i - 1)).j # 0 /\ Sync.j = 0
      BY <3>2 DEF Of, Places, Sync
    <3> QED
      BY <1>3, <3>1, <3>3
  <2>2. CASE i > copied
    <3>1. i \in (copied + 1)..len
      BY <1>3, <2>2
    <3>2. old[L + i] = Fill
      BY <1>3, <3>1
    <3>3. Fill.j = 1 /\ Sync.j = 0
      BY DEF Fill, Sync
    <3> QED
      BY <3>2, <3>3
  <2> QED
    BY <1>3, <2>1, <2>2
<1>8. ASSUME NEW k \in 1..q, NEW r \in 1..P
      PROVE  old[(k - 1) * P + r] = Out(own, up, (k - 1) * P + r)
  <2>1. (k - 1) * P \in Nat /\ (k - 1) * P + P = k * P /\ k * P <= q * P
    BY Monotone, Constants
  <2>2. (k - 1) * P + r \in 1..L
    BY <1>1, <1>3, <1>4, <1>5, <2>1, Constants
  <2> QED
    BY <1>2, <1>3, <2>2
<1>9. ASSUME NEW r \in 1..P
      PROVE  (r = 1 => old[q * P + r] = Sync) /\ (r # 1 => old[q * P + r] # Sync)
  <2>1. CASE r <= idx_packet
    <3>1. q * P + r \in 1..L
      BY <1>1, <1>3, <1>4, <1>5, <2>1, Constants
    <3>2. old[q * P + r] = Out(own, up, q * P + r)
      BY <1>2, <1>3, <3>1
    <3>3. Out(own, up, q * P + r) =
            IF r = 1 THEN Sync ELSE [plp |-> own, up |-> (up + q) % Ups, j |-> r - 1]
      BY OutPacket
    <3>4. r # 1 => [plp |-> own, up |-> (up + q) % Ups, j |-> r - 1].j # Sync.j
      BY Constants DEF Sync
    <3> QED
      BY <3>2, <3>3, <3>4
  <2>2. CASE r > idx_packet
    <3>1. r - idx_packet \in 1..len /\ L + (r - idx_packet) = q * P + r /\ r # 1
      BY <1>1, <1>4, <1>5, <2>2, Constants DEF len
    <3> QED
      BY <1>7, <3>1
  <2> QED
    BY <1>1, <2>1, <2>2
<1>10. ASSUME ~gap, NEW i \in 1..((q + 1) * P) PROVE old[i] = Out(plp, up, i)
  <2>1. CASE i <= L
    <3>1. i \in 1..L
      BY <1>3, <1>5, <2>1
    <3> QED
      BY <1>1, <1>2, <1>3, <1>10, <3>1
  <2>2. CASE i > L
    <3>1. i - L \in 1..len /\ L + (i - L) = i
      BY <1>3, <1>5, <2>2
    <3> QED
      BY <1>6, <1>10, <3>1
  <2> QED
    BY <1>3, <1>5, <2>1, <2>2
<1>11. old[q * P + 1] = Sync /\ \A r \in 2..P : old[q * P + r] # Sync
  <2>1. 1 \in 1..P /\ \A r \in 2..P : r \in 1..P /\ r # 1
    BY Constants
  <2> QED
    BY <1>9, <2>1
<1>12. Completed(plp, d, own, up, q)
  BY <1>2, <1>3, <1>5, <1>6, <1>8, <1>10, <1>11 DEF Completed, old
<1> QED
  BY <1>12

(* The packets a call completes: c of those begun before, and then e of    *)
(* its own; what it begins is the beginning of the packet after them.      *)
Emitted(plp, d, c, e) ==
  /\ Len(done') = c + e /\ \A k \in 1..(c + e) : Len(done'[k]) = P
  /\ \A k \in 1..c, r \in 1..P : done'[k][r] = Old(plp, d)[(k - 1) * P + r]
  /\ \A k \in 1..e, r \in 1..P : done'[c + k][r] = Out(plp, First(plp), (k - 1) * P + r)
  /\ \A i \in 1..Len(packet') : packet'[i] = Out(plp, (First(plp) + e) % Ups, i)
  /\ Len(Begun') > 0 /\ Len(Begun') % P = idx_packet' % P
  /\ \A i \in 1..Len(Begun') : Begun'[i] = Out(plp, (First(plp) + e) % Ups, i)
  /\ tx'[plp] = Due((First(plp) + e) % Ups, Len(Begun'))

LEMMA Packets ==
  ASSUME TypeOK, StreamInv, FirstDfl >= P, NEW plp \in Ids, NEW d \in Nat, Decode(plp, d),
         NEW c \in Nat, Len(Old(plp, d)) = c * P
  PROVE  \E e \in Nat : Emitted(plp, d, c, e)
<1> DEFINE old == Old(plp, d)
           now == NowOf(plp, d).bytes
           later == LaterOf(plp, d).bytes
           new == New(plp, d)
           up == First(plp)
           stream == old \o now
           n == Len(stream) \div P
           e == Len(now) \div P
           m == Len(now)
           l == Len(later)
<1>1. /\ up \in Nat /\ new \in Seq(Bytes)
      /\ \A i \in 1..Len(new) : new[i] = Out(plp, up, i)
      /\ Len(new) % P = idx_packet' % P
      /\ Len(new) > 0 /\ tx'[plp] = Due(up, Len(new))
  <2>1. up \in 0..(Ups - 1)
    BY NewRight
  <2>2. up \in Nat
    BY <2>1
  <2> QED
    BY <2>2, NewRight
<1>2. /\ old \in Seq(Bytes) /\ now \in Seq(Bytes) /\ later \in Seq(Bytes) /\ Syncd(plp) < d
      /\ l > 0
  <2>1. Syncd(plp) < d
    BY DEF Decode
  <2>2. /\ old \in Seq(Bytes) /\ now \in Seq(Bytes) /\ later \in Seq(Bytes)
        /\ Len(Body(plp, d)) - LenWhole(plp, d) > 0 => l > 0
    BY <2>1, PartsSized DEF Sized
  <2>3. Len(Body(plp, d)) - LenWhole(plp, d) \in 1..K
    BY <2>1, BodyIs DEF TypeOK
  <2> QED
    BY <2>1, <2>2, <2>3, Constants
<1>3. /\ done' = [k \in 1..n |-> Cut(stream, k)] /\ packet' = Rest(stream)
      /\ buffer' = later
  BY <1>2, DecodeIs DEF Cut, Rest
<1>4. /\ stream \in Seq(Bytes) /\ Len(stream) = c * P + m
      /\ \A i \in 1..(c * P) : stream[i] = old[i]
      /\ \A i \in 1..m : stream[c * P + i] = now[i]
  <2>1. old \in Seq(Bytes) /\ now \in Seq(Bytes)
    BY <1>2
  <2> HIDE DEF old, now
  <2>2. /\ old \o now \in Seq(Bytes) /\ Len(old \o now) = Len(old) + Len(now)
        /\ \A i \in 1..Len(old) : (old \o now)[i] = old[i]
        /\ \A i \in 1..Len(now) : (old \o now)[Len(old) + i] = now[i]
    BY ONLY <2>1, Joined
  <2>3. Len(old) = c * P
    BY DEF old
  <2> QED
    BY <2>2, <2>3
<1>5. /\ Len(new) = m + l
      /\ \A i \in 1..m : new[i] = now[i]
      /\ \A i \in 1..l : new[m + i] = later[i]
  <2>1. now \in Seq(Bytes) /\ later \in Seq(Bytes) /\ new = now \o later
    BY <1>2 DEF New
  <2> HIDE DEF now, later, new
  <2>2. /\ Len(now \o later) = Len(now) + Len(later)
        /\ \A i \in 1..Len(now) : (now \o later)[i] = now[i]
        /\ \A i \in 1..Len(later) : (now \o later)[Len(now) + i] = later[i]
    BY ONLY <2>1, Joined
  <2> QED
    BY <2>1, <2>2
<1>6. m \in Nat /\ l \in Nat /\ c * P \in Nat
  BY <1>2, Constants
<1> HIDE DEF m, l
<1>7. /\ e \in Nat /\ n = c + e /\ m = e * P + (m % P)
  <2>1. P \in Nat \ {0}
    BY Constants
  <2>2. m \div P \in Nat /\ m = (m \div P) * P + (m % P)
    BY ONLY <1>6, <2>1, Divided
  <2>3. (c * P + m) \div P = c + (m \div P)
    BY ONLY <1>6, <2>1, c \in Nat, WholeMore
  <2> QED
    BY <1>4, <2>2, <2>3 DEF m
<1>8. /\ \A k \in 1..n : /\ Len(Cut(stream, k)) = P
                         /\ \A r \in 1..P : Cut(stream, k)[r] = stream[(k - 1) * P + r]
      /\ Rest(stream) \in Seq(Bytes)
      /\ Len(stream) = n * P + Len(Rest(stream))
      /\ \A i \in 1..Len(Rest(stream)) : Rest(stream)[i] = stream[n * P + i]
  BY ONLY <1>4, CutIs
<1> HIDE DEF stream, n, e, old, now, later, new, up
<1>9. /\ Len(done') = c + e /\ \A k \in 1..(c + e) : Len(done'[k]) = P
      /\ \A k \in 1..(c + e), r \in 1..P : done'[k][r] = stream[(k - 1) * P + r]
  <2>1. n = c + e /\ n \in Nat
    BY ONLY <1>7, c \in Nat
  <2>2. done' = [k \in 1..n |-> Cut(stream, k)]
    BY <1>3
  <2>3. Len(done') = n
    BY ONLY <2>1, <2>2
  <2>4. \A k \in 1..n : done'[k] = Cut(stream, k)
    BY ONLY <2>2
  <2>5. /\ \A k \in 1..n : Len(done'[k]) = P
        /\ \A k \in 1..n, r \in 1..P : done'[k][r] = stream[(k - 1) * P + r]
    BY ONLY <1>8, <2>4
  <2> QED
    BY ONLY <2>1, <2>3, <2>5
<1>10. e * P \in Nat /\ (c + e) * P = c * P + e * P /\ e * P <= m
  <2>1. e * P \in Nat /\ (c + e) * P = c * P + e * P
    BY <1>7, Constants
  <2>2. m % P \in Nat
    BY <1>6, Constants
  <2> QED
    BY <1>7, <2>1, <2>2
<1>11. ASSUME NEW k \in 1..c, NEW r \in 1..P PROVE done'[k][r] = old[(k - 1) * P + r]
  <2>1. (k - 1) * P \in Nat /\ (k - 1) * P + P = k * P /\ k * P <= c * P
    BY Monotone, Constants
  <2>2. (k - 1) * P + r \in 1..(c * P) /\ k \in 1..(c + e)
    BY <1>6, <1>7, <2>1, Constants
  <2> QED
    BY <1>4, <1>9, <2>2
<1>12. ASSUME NEW k \in 1..e, NEW r \in 1..P
       PROVE  done'[c + k][r] = Out(plp, up, (k - 1) * P + r)
  <2>1. /\ (k - 1) * P \in Nat /\ (k - 1) * P + P = k * P /\ k * P <= e * P
        /\ ((c + k) - 1) * P = c * P + (k - 1) * P
    BY <1>7, Monotone, Constants
  <2> DEFINE i == (k - 1) * P + r
  <2>2. i \in 1..m /\ ((c + k) - 1) * P + r = c * P + i /\ c + k \in 1..(c + e)
    BY <1>6, <1>7, <1>10, <2>1, Constants
  <2>3. done'[c + k][r] = stream[((c + k) - 1) * P + r]
    BY <1>9, <2>2
  <2> HIDE DEF i
  <2>4. stream[c * P + i] = now[i] /\ new[i] = now[i] /\ i \in 1..Len(new)
    BY <1>4, <1>5, <1>6, <2>2
  <2>5. new[i] = Out(plp, up, i)
    BY <1>1, <2>4
  <2> QED
    BY <2>2, <2>3, <2>4, <2>5 DEF i
<1> DEFINE rest == packet'
           g == Len(rest)
<1>13. /\ rest \in Seq(Bytes) /\ g \in Nat /\ m = e * P + g
       /\ \A i \in 1..g : rest[i] = stream[(c + e) * P + i]
  <2>1. /\ rest \in Seq(Bytes) /\ Len(stream) = n * P + g
        /\ \A i \in 1..g : rest[i] = stream[n * P + i]
    BY <1>3, <1>8
  <2>2. g \in Nat
    BY <2>1
  <2>3. n * P = (c + e) * P
    BY <1>7
  <2> HIDE DEF g
  <2>4. c * P + m = (c * P + e * P) + g
    BY <1>4, <1>10, <2>1, <2>3
  <2>5. m = e * P + g
    BY <1>6, <1>10, <2>2, <2>4
  <2> QED
    BY <2>1, <2>2, <2>3, <2>5
<1> DEFINE b == Begun'
<1>14. /\ Len(b) = g + l
       /\ \A i \in 1..g : b[i] = rest[i]
       /\ \A i \in 1..l : b[g + i] = later[i]
  <2>1. rest \in Seq(Bytes) /\ later \in Seq(Bytes) /\ b = rest \o later /\ l = Len(later)
    BY <1>2, <1>3, <1>13 DEF Begun, l
  <2> HIDE DEF rest, b
  <2>2. /\ Len(rest \o later) = Len(rest) + Len(later)
        /\ \A i \in 1..Len(rest) : (rest \o later)[i] = rest[i]
        /\ \A i \in 1..Len(later) : (rest \o later)[Len(rest) + i] = later[i]
    BY ONLY <2>1, Joined
  <2> QED
    BY <2>1, <2>2
<1> HIDE DEF b, g, rest
<1>15. Len(new) = e * P + Len(b) /\ Len(b) \in Nat /\ Len(b) > 0
  BY <1>2, <1>5, <1>6, <1>10, <1>13, <1>14 DEF l
<1>16. ASSUME NEW i \in 1..Len(b) PROVE b[i] = new[e * P + i]
  <2>1. CASE i <= g
    <3>1. /\ i \in 1..g /\ e * P + i \in 1..m
          /\ (c + e) * P + i = c * P + (e * P + i)
      BY <1>6, <1>10, <1>13, <1>15, <2>1
    <3>2. b[i] = stream[c * P + (e * P + i)]
      BY <1>13, <1>14, <3>1
    <3> QED
      BY <1>4, <1>5, <3>1, <3>2
  <2>2. CASE i > g
    <3>1. i - g \in 1..l /\ g + (i - g) = i /\ m + (i - g) = e * P + i
      BY <1>6, <1>10, <1>13, <1>14, <1>15, <2>2
    <3> QED
      BY <1>5, <1>14, <3>1
  <2> QED
    BY <1>13, <1>15, <2>1, <2>2
<1> DEFINE up2 == (up + e) % Ups
<1>17. ASSUME NEW i \in 1..Len(b) PROVE b[i] = Out(plp, up2, i)
  <2>1. e * P + i \in 1..Len(new) /\ i \in Nat \ {0}
    BY <1>10, <1>15
  <2>2. Out(plp, up, e * P + i) = Out(plp, (up + e) % Ups, i)
    BY ONLY <1>1, <1>7, <2>1, OutShift
  <2> QED
    BY <1>1, <1>16, <2>1, <2>2
<1>18. tx'[plp] = Due(up2, Len(b)) /\ Len(b) % P = idx_packet' % P
  <2>1. P \in Nat \ {0}
    BY Constants
  <2>2. Due(up, e * P + Len(b)) = Due((up + e) % Ups, Len(b))
    BY ONLY <1>1, <1>7, <1>15, DueShift
  <2>3. (e * P + Len(b)) % P = Len(b) % P
    BY ONLY <1>7, <1>15, <2>1, WholeMore
  <2> QED
    BY <1>1, <1>15, <2>2, <2>3
<1>19. \A i \in 1..Len(packet') : packet'[i] = Out(plp, up2, i)
  <2>1. ASSUME NEW i \in 1..g PROVE rest[i] = Out(plp, up2, i)
    <3>1. i \in 1..Len(b)
      BY <1>6, <1>13, <1>14, <1>15
    <3> QED
      BY <1>14, <1>17, <3>1
  <2> QED
    BY <2>1 DEF g, rest
<1>20. Emitted(plp, d, c, e)
  BY <1>9, <1>11, <1>12, <1>15, <1>17, <1>18, <1>19 DEF Emitted, old, up, b
<1> QED
  BY <1>7, <1>20

(* All c + e of them are packets, and whole but for packet c after a gap;  *)
(* where there is none they follow each other and the one before them.     *)
Consecutive(plp, c, e, up) ==
  /\ \A k \in 1..(c + e) : StartsPacket(done'[k]) /\ (k # c \/ ~gap => Whole(done'[k]))
  /\ ~gap => /\ \A k \in 1..(c + e) : done'[k][2].up = (up + (k - 1)) % Ups
             /\ (up + (c + e)) % Ups = (First(plp) + e) % Ups
  /\ last' # <<>> => c > 0 /\ (last'[2].up + 1) % Ups = up

LEMMA Own ==
  ASSUME NEW plp \in Ids, NEW d \in Nat, NEW c \in Nat, NEW e \in Nat,
         Emitted(plp, d, c, e), NEW i \in 1..e
  PROVE  /\ Whole(done'[c + i]) /\ StartsPacket(done'[c + i])
         /\ done'[c + i][2].up = (First(plp) + (i - 1)) % Ups
<1> DEFINE p == done'[c + i]
<1>1. /\ \A k \in 1..(c + e) : Len(done'[k]) = P
      /\ \A k \in 1..e, r \in 1..P : done'[c + k][r] = Out(plp, First(plp), (k - 1) * P + r)
  BY DEF Emitted
<1>2. c + i \in 1..(c + e) /\ i - 1 \in Nat
  OBVIOUS
<1>3. IsPacket(p, plp, First(plp), i - 1)
  BY <1>1, <1>2 DEF IsPacket
<1> HIDE DEF p
<1>4. Whole(p) /\ StartsPacket(p) /\ p[2].up = (First(plp) + (i - 1)) % Ups
  BY ONLY <1>2, <1>3, PacketWhole
<1> QED
  BY <1>4 DEF p

LEMMA Resumed ==
  ASSUME TypeOK, StreamInv, FirstDfl >= P, split, NEW plp \in Ids, NEW d \in Nat, Decode(plp, d)
  PROVE  \E c \in Nat, e \in Nat, up \in 0..(Ups - 1) :
           Emitted(plp, d, c, e) /\ Consecutive(plp, c, e, up)
<1>1. PICK own \in Ids, up \in 0..(Ups - 1), q \in Nat : Completed(plp, d, own, up, q)
  BY OldRight
<1> DEFINE c == q + 1
<1>2. c \in Nat /\ Len(Old(plp, d)) = c * P
  BY <1>1 DEF Completed
<1>3. PICK e \in Nat : Emitted(plp, d, c, e)
  <2> HIDE DEF c
  <2> QED
    BY <1>2, Packets
<1>4. /\ \A k \in 1..(c + e) : Len(done'[k]) = P
      /\ \A k \in 1..c, r \in 1..P : done'[k][r] = Old(plp, d)[(k - 1) * P + r]
  BY <1>3 DEF Emitted
<1>5. up \in Nat
  OBVIOUS
<1>6. ASSUME NEW k \in 1..q
      PROVE  Whole(done'[k]) /\ StartsPacket(done'[k]) /\ done'[k][2].up = (up + (k - 1)) % Ups
  <2> DEFINE p == done'[k]
  <2>1. k \in 1..c /\ k \in 1..(c + e) /\ k - 1 \in Nat
    OBVIOUS
  <2>2. \A r \in 1..P : p[r] = Out(own, up, (k - 1) * P + r)
    BY <1>1, <1>4, <2>1 DEF Completed
  <2>3. IsPacket(p, own, up, k - 1)
    BY <1>4, <2>1, <2>2 DEF IsPacket
  <2> HIDE DEF p
  <2>4. Whole(p) /\ StartsPacket(p) /\ p[2].up = (up + (k - 1)) % Ups
    BY ONLY <2>1, <2>3, PacketWhole
  <2> QED
    BY <2>4 DEF p
<1>7. /\ StartsPacket(done'[c])
      /\ ~gap => Whole(done'[c]) /\ done'[c][2].up = (up + (c - 1)) % Ups
  <2> DEFINE p == done'[c]
  <2>1. c \in 1..c /\ c \in 1..(c + e) /\ c - 1 = q
    BY <1>2
  <2>2. Len(p) = P /\ \A r \in 1..P : p[r] = Old(plp, d)[q * P + r]
    BY <1>4, <2>1
  <2> HIDE DEF p
  <2>3. StartsPacket(p)
    <3>1. /\ Old(plp, d)[q * P + 1] = Sync
          /\ \A r \in 2..P : Old(plp, d)[q * P + r] # Sync
      BY <1>1 DEF Completed
    <3>2. 1 \in 1..P /\ \A r \in 2..P : r \in 1..P
      BY Constants
    <3> QED
      BY <2>2, <3>1, <3>2 DEF StartsPacket
  <2>4. ASSUME ~gap PROVE Whole(p) /\ p[2].up = (up + q) % Ups
    <3>1. \A i \in 1..((q + 1) * P) : Old(plp, d)[i] = Out(plp, up, i)
      BY <1>1, <2>4 DEF Completed
    <3>2. ASSUME NEW r \in 1..P PROVE p[r] = Out(plp, up, q * P + r)
      <4>1. q * P \in Nat /\ (q + 1) * P = q * P + P
        BY Constants
      <4>2. q * P + r \in 1..((q + 1) * P)
        BY <4>1, Constants
      <4> QED
        BY <2>2, <3>1, <4>2
    <3>3. IsPacket(p, plp, up, q)
      BY <2>2, <3>2 DEF IsPacket
    <3> QED
      BY ONLY <3>3, q \in Nat, PacketWhole
  <2> QED
    BY <2>1, <2>3, <2>4 DEF p
<1>8. ASSUME NEW i \in 1..e
      PROVE  /\ Whole(done'[c + i]) /\ StartsPacket(done'[c + i])
             /\ done'[c + i][2].up = (First(plp) + (i - 1)) % Ups
  <2> HIDE DEF c
  <2> QED
    BY <1>2, <1>3, Own
<1>9. ~gap => First(plp) = (up + c) % Ups
  BY <1>1 DEF Completed
<1>10. ASSUME ~gap, NEW i \in Nat PROVE (First(plp) + i) % Ups = (up + (c + i)) % Ups
  <2> HIDE DEF c
  <2>1. (((up + c) % Ups) + i) % Ups = (up + (c + i)) % Ups
    BY ONLY <1>2, <1>5, i \in Nat, Shifted
  <2> QED
    BY <1>9, <1>10, <2>1
<1>11. last' # <<>> => c > 0 /\ (last'[2].up + 1) % Ups = up
  <2>1. last' = IF hadGap THEN <<>> ELSE Previous
    BY DecodeIs DEF Decode
  <2> QED
    BY <1>1, <2>1 DEF Completed
<1> HIDE DEF c
<1>12. ASSUME NEW k \in 1..(c + e)
       PROVE  /\ StartsPacket(done'[k]) /\ (k # c \/ ~gap => Whole(done'[k]))
              /\ ~gap => done'[k][2].up = (up + (k - 1)) % Ups
  <2>1. CASE k < c
    <3>1. k \in 1..q
      BY <2>1 DEF c
    <3> QED
      BY <1>6, <3>1
  <2>2. CASE k = c
    BY <1>7, <2>2
  <2>3. CASE k > c
    <3> DEFINE i == k - c
    <3>1. i \in 1..e /\ c + i = k /\ i - 1 \in Nat /\ c + (i - 1) = k - 1
      BY <1>2, <2>3
    <3> HIDE DEF i
    <3>2. /\ Whole(done'[k]) /\ StartsPacket(done'[k])
          /\ done'[k][2].up = (First(plp) + (i - 1)) % Ups
      BY <1>8, <3>1
    <3>3. ~gap => (First(plp) + (i - 1)) % Ups = (up + (k - 1)) % Ups
      BY <1>10, <3>1
    <3> QED
      BY <3>2, <3>3
  <2> QED
    BY <1>2, <2>1, <2>2, <2>3
<1>13. Consecutive(plp, c, e, up)
  BY <1>10, <1>11, <1>12 DEF Consecutive
<1> QED
  BY <1>2, <1>3, <1>13

LEMMA Started ==
  ASSUME TypeOK, StreamInv, FirstDfl >= P, ~split, NEW plp \in Ids, NEW d \in Nat, Decode(plp, d)
  PROVE  \E e \in Nat, up \in 0..(Ups - 1) :
           Emitted(plp, d, 0, e) /\ Consecutive(plp, 0, e, up)
<1>1. packet = <<>> /\ done = <<>> /\ last = <<>>
  BY DEF StreamInv
<1>2. Len(Old(plp, d)) = 0 * P
  BY <1>1, Constants DEF Old
<1>3. PICK e \in Nat : Emitted(plp, d, 0, e)
  <2>1. 0 \in Nat
    OBVIOUS
  <2> QED
    BY <1>2, <2>1, Packets
<1>4. last' = <<>>
  BY <1>1, DecodeIs DEF Decode, Previous
<1> DEFINE up == First(plp)
<1>5. up \in 0..(Ups - 1)
  BY NewRight
<1>6. ASSUME NEW k \in 1..(0 + e)
      PROVE  /\ Whole(done'[k]) /\ StartsPacket(done'[k])
             /\ done'[k][2].up = (up + (k - 1)) % Ups
  <2>1. k \in 1..e /\ 0 + k = k /\ 0 \in Nat
    OBVIOUS
  <2>2. /\ Whole(done'[0 + k]) /\ StartsPacket(done'[0 + k])
        /\ done'[0 + k][2].up = (First(plp) + (k - 1)) % Ups
    BY <1>3, <2>1, Own
  <2> QED
    BY <2>1, <2>2
<1>7. (up + (0 + e)) % Ups = (First(plp) + e) % Ups
  <2>1. 0 + e = e
    OBVIOUS
  <2> QED
    BY <2>1
<1> HIDE DEF up
<1>8. Consecutive(plp, 0, e, up)
  BY <1>4, <1>6, <1>7 DEF Consecutive
<1> QED
  BY <1>3, <1>5, <1>8

----------------------------------------------------------------------------
(* The invariant.                                                          *)

LEMMA DecodeInv ==
  ASSUME TypeOK, TypeOK', StreamInv, FirstDfl >= P,
         NEW plp \in Ids, NEW d \in Nat, Decode(plp, d)
  PROVE  Aligned' /\ Intact' /\ InOrder' /\ StreamInv'
<1>1. PICK c \in Nat, e \in Nat, up \in 0..(Ups - 1) :
        Emitted(plp, d, c, e) /\ Consecutive(plp, c, e, up)
  <2>1. CASE split
    BY <2>1, Resumed
  <2>2. CASE ~split
    <3>1. 0 \in Nat
      OBVIOUS
    <3> QED
      BY <2>2, <3>1, Started
  <2> QED
    BY <2>1, <2>2
<1> DEFINE n == c + e
           up2 == (First(plp) + e) % Ups
<1>2. n \in Nat /\ Len(done') = n /\ hadGap' = gap /\ gap' = FALSE /\ split' = TRUE
  <2>1. Len(done') = n
    BY <1>1 DEF Emitted
  <2>2. Syncd(plp) < d
    BY DEF Decode
  <2>3. hadGap' = gap /\ gap' = FALSE /\ split' = TRUE
    BY <2>2, DecodeIs
  <2>4. n \in Nat
    OBVIOUS
  <2> QED
    BY <2>1, <2>3, <2>4
<1>3. /\ \A k \in 1..n : StartsPacket(done'[k]) /\ (k # c \/ ~gap => Whole(done'[k]))
      /\ ~gap => /\ \A k \in 1..n : done'[k][2].up = (up + (k - 1)) % Ups
                 /\ (up + n) % Ups = up2
      /\ last' # <<>> => n > 0 /\ (last'[2].up + 1) % Ups = up
  <2>1. c > 0 => n > 0
    OBVIOUS
  <2> QED
    BY <1>1, <2>1 DEF Consecutive
<1>4. /\ \A i \in 1..Len(packet') : packet'[i] = Out(plp, up2, i)
      /\ Len(Begun') > 0 /\ Len(Begun') % P = idx_packet' % P
      /\ \A i \in 1..Len(Begun') : Begun'[i] = Out(plp, up2, i)
      /\ tx'[plp] = Due(up2, Len(Begun'))
  BY <1>1 DEF Emitted
<1>5. up2 \in 0..(Ups - 1) /\ up2 \in Nat
  <2>1. First(plp) \in 0..(Ups - 1)
    BY NewRight
  <2>2. First(plp) + e \in Nat /\ Ups \in Nat \ {0}
    BY <2>1, Constants
  <2>3. (First(plp) + e) % Ups \in 0..(Ups - 1)
    BY ONLY <2>2, Divided
  <2>4. up2 \in 0..(Ups - 1)
    BY <2>3
  <2> QED
    BY <2>4
<1> HIDE DEF n, up2
<1>6. (((up + (n - 1)) % Ups) + 1) % Ups = (up + n) % Ups \/ n = 0
  <2> SUFFICES ASSUME n # 0 PROVE (((up + (n - 1)) % Ups) + 1) % Ups = (up + n) % Ups
    OBVIOUS
  <2>1. up \in Nat /\ n - 1 \in Nat /\ 1 \in Nat /\ (n - 1) + 1 = n
    BY <1>2
  <2> DEFINE m == n - 1
  <2> HIDE DEF m
  <2>2. (((up + m) % Ups) + 1) % Ups = (up + (m + 1)) % Ups
    BY <2>1, Shifted DEF m
  <2> QED
    BY <2>1, <2>2 DEF m
<1>7. Aligned'
  <2>1. packet' # <<>> => StartsPacket(packet')
    <3> DEFINE p == packet'
    <3>1. p \in Seq(Bytes) /\ Len(p) < P
      BY DEF TypeOK
    <3>2. \A i \in 1..Len(p) : p[i] = Out(plp, up2, i)
      BY <1>4
    <3> HIDE DEF p
    <3>3. p # <<>> => StartsPacket(p)
      BY <1>5, <3>1, <3>2, BeginningStarts
    <3> QED
      BY <3>3 DEF p
  <2> QED
    BY <1>2, <1>3, <2>1 DEF Aligned
<1>8. Intact'
  <2>1. ASSUME NEW k \in 1..n, ~Whole(done'[k]) PROVE k = c /\ gap
    BY <1>3, <2>1
  <2> QED
    BY <1>2, <2>1 DEF Intact
<1>9. InOrder'
  <2> SUFFICES ASSUME ~gap
               PROVE  LET run == IF last' = <<>> THEN done' ELSE <<last'>> \o done'
                      IN  \A i \in 1..(Len(run) - 1) :
                            run[i + 1][2].up = (run[i][2].up + 1) % Ups
    BY <1>2 DEF InOrder
  <2> DEFINE run == IF last' = <<>> THEN done' ELSE <<last'>> \o done'
  <2>1. ASSUME NEW k \in 1..(n - 1) PROVE done'[k + 1][2].up = (done'[k][2].up + 1) % Ups
    <3>1. k \in 1..n /\ k + 1 \in 1..n /\ (k + 1) - 1 = k /\ k - 1 \in Nat /\ (k - 1) + 1 = k
      BY <1>2
    <3>2. done'[k][2].up = (up + (k - 1)) % Ups /\ done'[k + 1][2].up = (up + k) % Ups
      <4>1. \A m \in 1..n : done'[m][2].up = (up + (m - 1)) % Ups
        BY <1>3
      <4>2. done'[k + 1][2].up = (up + ((k + 1) - 1)) % Ups
        BY <3>1, <4>1
      <4> QED
        BY <3>1, <4>1, <4>2
    <3> DEFINE m == k - 1
    <3>3. m \in Nat /\ m + 1 = k /\ up \in Nat /\ 1 \in Nat
      BY <3>1
    <3>4. done'[k][2].up = (up + m) % Ups
      BY <3>2
    <3> HIDE DEF m
    <3>5. (((up + m) % Ups) + 1) % Ups = (up + (m + 1)) % Ups
      BY <3>3, Shifted
    <3> QED
      BY <3>2, <3>3, <3>4, <3>5
  <2>2. CASE last' = <<>>
    BY <1>2, <2>1, <2>2
  <2>3. CASE last' # <<>>
    <3> DEFINE dn == done'
               ls == last'
    <3>1. dn \in Seq(Seq(Bytes)) /\ ls \in Seq(Bytes)
      BY DEF TypeOK
    <3>2. /\ Len(<<ls>> \o dn) = n + 1 /\ (<<ls>> \o dn)[1] = ls
          /\ \A k \in 1..n : (<<ls>> \o dn)[k + 1] = dn[k]
      <4>1. Len(dn) = n
        BY <1>2
      <4> HIDE DEF dn, ls
      <4> QED
        BY <1>2, <3>1, <4>1
    <3>3. dn[1][2].up = (ls[2].up + 1) % Ups
      <4>1. 1 \in 1..n /\ up + (1 - 1) = up
        BY <1>2, <1>3, <2>3
      <4>2. dn[1][2].up = (up + (1 - 1)) % Ups
        BY <1>3, <4>1
      <4>3. up % Ups = up
        BY Small, Constants
      <4> QED
        BY <1>3, <2>3, <4>1, <4>2, <4>3
    <3>4. \A k \in 1..(n - 1) : dn[k + 1][2].up = (dn[k][2].up + 1) % Ups
      BY <2>1
    <3>5. run = <<ls>> \o dn
      BY <2>3
    <3> HIDE DEF dn, ls, run
    <3> DEFINE long == <<ls>> \o dn
    <3> HIDE DEF long
    <3>6. ASSUME NEW i \in 1..n PROVE long[i + 1][2].up = (long[i][2].up + 1) % Ups
      <4>1. CASE i = 1
        BY <1>2, <3>2, <3>3, <4>1 DEF long
      <4>2. CASE i # 1
        <5> DEFINE k == i - 1
        <5>1. k \in 1..(n - 1) /\ k \in 1..n /\ k + 1 = i /\ i \in 1..n
          BY <1>2, <4>2
        <5> HIDE DEF k
        <5>2. long[k + 1] = dn[k] /\ long[i + 1] = dn[i]
          BY <3>2, <5>1 DEF long
        <5>3. dn[k + 1][2].up = (dn[k][2].up + 1) % Ups
          BY <3>4, <5>1
        <5> QED
          BY <5>1, <5>2, <5>3
      <4> QED
        BY <4>1, <4>2
    <3>7. Len(run) = n + 1 /\ run = long
      BY <3>2, <3>5 DEF long
    <3>8. \A i \in 1..(Len(run) - 1) : run[i + 1][2].up = (run[i][2].up + 1) % Ups
      BY <1>2, <3>6, <3>7
    <3> QED
      BY <3>8 DEF run
  <2> QED
    BY <2>2, <2>3
<1>10. ASSUME ~hadGap', Previous' # <<>> PROVE (Previous'[2].up + 1) % Ups = up2
  <2>1. ~gap
    BY <1>2, <1>10
  <2>2. CASE n = 0
    <3>1. done' = <<>>
      <4>1. done' \in Seq(Seq(Bytes))
        BY DEF TypeOK
      <4> QED
        BY <1>2, <2>2, <4>1
    <3>2. Previous' = last' /\ last' = <<>>
      BY <1>3, <2>2, <3>1 DEF Previous
    <3> QED
      BY <1>10, <3>2
  <2>3. CASE n # 0
    <3>1. done' # <<>> /\ n \in 1..n
      BY <1>2, <2>3
    <3>2. Previous' = done'[n]
      BY <1>2, <3>1 DEF Previous, Last
    <3>3. done'[n][2].up = (up + (n - 1)) % Ups
      BY <1>3, <2>1, <3>1
    <3> QED
      BY <1>3, <1>6, <2>1, <2>3, <3>2, <3>3
  <2> QED
    BY <2>2, <2>3
<1>11. StreamInv'
  <2>1. idx_packet' \in 2..P /\ plp = need_plp' /\ plp \in Ids
    BY NewRight DEF Decode
  <2>2. /\ \A i \in 1..Len(Begun') : Begun'[i] = Out(plp, up2, i)
        /\ ~gap' => plp = need_plp' /\ tx'[plp] = Due(up2, Len(Begun'))
        /\ ~hadGap' /\ Previous' # <<>> => (Previous'[2].up + 1) % Ups = up2
    BY <1>4, <1>10, <2>1
  <2> QED
    BY <1>2, <1>4, <1>5, <2>1, <2>2 DEF StreamInv
<1> QED
  BY <1>7, <1>8, <1>9, <1>11

(* A frame that is dropped, or another PLP: the output stands still, and   *)
(* as long as that is no gap so does what the sender has to send to it.    *)
LEMMA StandsStill ==
  ASSUME StreamInv, UNCHANGED <<tsVars, packet, done, last, hadGap>>,
         gap => gap', ~gap' => need_plp' = need_plp /\ tx'[need_plp] = tx[need_plp]
  PROVE  StreamInv'
<1>1. /\ split' = split /\ idx_packet' = idx_packet /\ buffer' = buffer
      /\ packet' = packet /\ done' = done /\ last' = last /\ hadGap' = hadGap
  BY DEF tsVars
<1>2. Begun' = Begun /\ Previous' = Previous
  BY <1>1 DEF Begun, Previous
<1>3. CASE ~split
  BY <1>1, <1>3 DEF StreamInv
<1>4. CASE split
  <2>1. PICK plp \in Ids, up \in 0..(Ups - 1) :
          /\ \A i \in 1..Len(Begun) : Begun[i] = Out(plp, up, i)
          /\ ~gap => plp = need_plp /\ tx[plp] = Due(up, Len(Begun))
          /\ ~hadGap /\ Previous # <<>> => (Previous[2].up + 1) % Ups = up
    BY <1>4 DEF StreamInv
  <2>2. ~gap' => plp = need_plp' /\ tx'[plp] = Due(up, Len(Begun'))
    BY <1>2, <2>1
  <2>3. idx_packet \in 2..P /\ Len(Begun) > 0 /\ Len(Begun) % P = idx_packet % P
    BY <1>4 DEF StreamInv
  <2> QED
    BY <1>1, <1>2, <1>4, <2>1, <2>2, <2>3 DEF StreamInv
<1> QED
  BY <1>3, <1>4

LEMMA StreamInit == Init => Aligned /\ Intact /\ InOrder /\ StreamInv
<1> SUFFICES ASSUME Init PROVE Aligned /\ Intact /\ InOrder /\ StreamInv
  OBVIOUS
<1>1. done = <<>> /\ Len(<<>>) = 0 /\ last = <<>> /\ packet = <<>>
  BY DEF Init
<1>2. 1..0 = {} /\ 1..(0 - 1) = {}
  OBVIOUS
<1>3. Aligned
  BY <1>1, <1>2 DEF Aligned
<1>4. Intact
  BY <1>1, <1>2 DEF Intact
<1>5. InOrder
  BY <1>1, <1>2 DEF InOrder
<1>6. StreamInv
  BY DEF Init, StreamInv
<1> QED
  BY <1>3, <1>4, <1>5, <1>6

(* The output itself is all that Aligned, Intact and InOrder speak of.     *)
LEMMA OutputStands ==
  ASSUME Aligned, Intact, InOrder, UNCHANGED <<packet, done, last, hadGap>>
  PROVE  Aligned' /\ Intact' /\ InOrder'
<1>1. Aligned'
  BY DEF Aligned
<1>2. Intact'
  BY DEF Intact
<1>3. InOrder'
  BY DEF InOrder
<1> QED
  BY <1>1, <1>2, <1>3

LEMMA InvStep ==
  ASSUME FirstDfl >= P
  PROVE  Inv /\ [Next]_vars => Inv'
<1> SUFFICES ASSUME Inv, [Next]_vars PROVE Inv'
  OBVIOUS
<1>1. TypeOK /\ Aligned /\ Intact /\ InOrder /\ StreamInv
  BY DEF Inv
<1>2. TypeOK'
  BY <1>1, TypeStep
<1> SUFFICES Aligned' /\ Intact' /\ InOrder' /\ StreamInv'
  BY <1>2 DEF Inv
<1>3. ASSUME NEW plp \in Ids, NEW d, Send(plp, d), Dropped(plp)
      PROVE  Aligned' /\ Intact' /\ InOrder' /\ StreamInv'
  <2>1. /\ UNCHANGED <<tsVars, packet, done, last, hadGap>> /\ need_plp' = need_plp
        /\ gap' = (gap \/ plp = need_plp)
    BY <1>3 DEF Dropped
  <2>2. ~gap' => tx'[need_plp] = tx[need_plp]
    BY <1>1, <1>3, <2>1 DEF Send, TypeOK
  <2>3. StreamInv'
    BY <1>1, <2>1, <2>2, StandsStill
  <2> QED
    BY <1>1, <2>1, <2>3, OutputStands
<1>4. ASSUME NEW plp \in Ids, NEW d \in Dfls, Lose(plp, d)
      PROVE  Aligned' /\ Intact' /\ InOrder' /\ StreamInv'
  BY <1>3, <1>4 DEF Lose
<1>5. ASSUME NEW plp \in Ids, NEW d \in Dfls, HeaderError(plp, d)
      PROVE  Aligned' /\ Intact' /\ InOrder' /\ StreamInv'
  BY <1>3, <1>5 DEF HeaderError
<1>6. ASSUME NEW plp \in Ids, NEW d \in Dfls, Ignore(plp, d)
      PROVE  Aligned' /\ Intact' /\ InOrder' /\ StreamInv'
  BY <1>3, <1>6 DEF Ignore
<1>7. ASSUME NEW plp \in Ids, NEW d \in Dfls, Decode(plp, d)
      PROVE  Aligned' /\ Intact' /\ InOrder' /\ StreamInv'
  <2>1. d \in Nat
    BY PacketAssumption
  <2> QED
    BY <1>1, <1>2, <1>7, <2>1, DecodeInv
<1>8. ASSUME NEW plp \in Ids, SetOut(plp)
      PROVE  Aligned' /\ Intact' /\ InOrder' /\ StreamInv'
  <2>1. /\ UNCHANGED <<tsVars, tx, packet, done, last, hadGap>> /\ need_plp' = plp
        /\ gap' = (gap \/ plp # need_plp)
    BY <1>8 DEF SetOut
  <2>2. StreamInv'
    BY <1>1, <2>1, StandsStill
  <2> QED
    BY <1>1, <2>1, <2>2, OutputStands
<1>9. CASE UNCHANGED vars
  <2>1. UNCHANGED <<tsVars, tx, packet, done, last, hadGap, gap, need_plp>>
    BY <1>9 DEF vars, history
  <2>2. StreamInv'
    BY <1>1, <2>1, StandsStill
  <2> QED
    BY <1>1, <2>1, <2>2, OutputStands
<1> QED
  BY <1>4, <1>5, <1>6, <1>7, <1>8, <1>9 DEF Next, Frame

----------------------------------------------------------------------------
(***************************************************************************)
(* Every variable stays in its type, whatever frames come: less than a     *)
(* packet waits unfinished in the output, and the buffer for the rest of a *)
(* frame, bb_de_header.cpp:397, never holds more than a packet.            *)
(***************************************************************************)
THEOREM TypeCorrect == Spec => []TypeOK
  BY TypeInit, TypeStep, PTL DEF Spec

(***************************************************************************)
(* The stream invariant, for packets, frames and PLPs of any size.  The    *)
(* first frame decoded must bring a whole packet behind its syncd, as the  *)
(* frames of the standard do: bb_de_header.cpp:402 finds idx_packet still  *)
(* 0 otherwise, and keeps a packet without a sync byte (run bb_short).     *)
(***************************************************************************)
THEOREM Invariance ==
  ASSUME FirstDfl >= P
  PROVE  Spec => []Inv
<1>1. Init => Inv
  BY TypeInit, StreamInit DEF Inv
<1>2. Inv /\ [Next]_vars => Inv'
  BY InvStep
<1> QED
  BY <1>1, <1>2, PTL DEF Spec

(***************************************************************************)
(* Whatever is lost or cut, the output is a sequence of packets: every     *)
(* P-th byte is a sync byte and no other is, bb_de_header.cpp:336-434.     *)
(***************************************************************************)
THEOREM AlignedHolds ==
  ASSUME FirstDfl >= P
  PROVE  Spec => []Aligned
<1>1. Inv => Aligned
  BY DEF Inv
<1> QED
  BY <1>1, Invariance, PTL

(***************************************************************************)
(* A gap costs one packet at most, the one begun before it, which is cut   *)
(* or filled up at bb_de_header.cpp:342-389: all others are whole.         *)
(***************************************************************************)
THEOREM IntactHolds ==
  ASSUME FirstDfl >= P
  PROVE  Spec => []Intact
<1>1. Inv => Intact
  BY DEF Inv
<1> QED
  BY <1>1, Invariance, PTL

(***************************************************************************)
(* Where no frame is missing no packet is lost or doubled, neither within  *)
(* a frame nor where the rest kept of one, bb_de_header.cpp:397-416, meets *)
(* the next.                                                               *)
(***************************************************************************)
THEOREM InOrderHolds ==
  ASSUME FirstDfl >= P
  PROVE  Spec => []InOrder
<1>1. Inv => InOrder
  BY DEF Inv
<1> QED
  BY <1>1, Invariance, PTL
=============================================================================
