--------------------------- MODULE CarriersProofs ---------------------------
(***************************************************************************)
(* Proofs about Carriers: no map is written outside its array, and a cell  *)
(* never waits too long for a pilot, however many symbols a frame has.     *)
(***************************************************************************)
EXTENDS Carriers, FiniteSetTheorems, TLAPS

----------------------------------------------------------------------------
(* What the proofs need of the tables.                                     *)

(* Carriers without extension.                                             *)
normal == <<853, 1705, 3409, 6817, 13633, 27265>>[level]

(* Tones of P2 stay away from both ends and from the pilots on every third *)
(* carrier.                                                                *)
LEMMA P2Table ==
  ASSUME level \in 1..6, NEW t \in p2_papr_map[level]
  PROVE  t \in 104..normal - 100 /\ t % 3 # 0
<1>1. CASE level = 1
  BY <1>1 DEF p2_papr_map, normal
<1>2. CASE level = 2
  BY <1>2 DEF p2_papr_map, normal
<1>3. CASE level = 3
  BY <1>3 DEF p2_papr_map, normal
<1>4. CASE level = 4
  BY <1>4 DEF p2_papr_map, normal
<1>5. CASE level = 5
  BY <1>5 DEF p2_papr_map, normal
<1>6. CASE level = 6
  BY <1>6 DEF p2_papr_map, normal
<1> QED
  BY <1>1, <1>2, <1>3, <1>4, <1>5, <1>6

(* Tones of data symbols have room above for their greatest shift.         *)
LEMMA ToneTable ==
  ASSUME level \in 1..6, NEW t \in tr_papr_map[level]
  PROVE  t \in 109..normal - 100
<1>1. CASE level = 1
  BY <1>1 DEF tr_papr_map, normal
<1>2. CASE level = 2
  BY <1>2 DEF tr_papr_map, normal
<1>3. CASE level = 3
  BY <1>3 DEF tr_papr_map, normal
<1>4. CASE level = 4
  BY <1>4 DEF tr_papr_map, normal
<1>5. CASE level = 5
  BY <1>5 DEF tr_papr_map, normal
<1>6. CASE level = 6
  BY <1>6 DEF tr_papr_map, normal
<1> QED
  BY <1>1, <1>2, <1>3, <1>4, <1>5, <1>6

last_32k == 27264

(* Continual pilots are carriers of a 32K symbol, ...                      *)
LEMMA PilotTable ==
  \A p \in 1..8 : \A k \in 1..6 : pp_cp[p][k] \subseteq 0..last_32k
  BY DEF last_32k, pp_cp, pp1_cp, pp2_cp, pp3_cp, pp4_cp, pp5_cp, pp6_cp, pp7_cp, pp8_cp

(* ... those of 1K, which are wrapped at 1632, of a 1K symbol, ...         *)
LEMMA PilotTable1K ==
  ASSUME NEW p \in 1..8, NEW c \in pp_cp[p][1]
  PROVE  c % 1632 \in 0..852
  BY DEF pp_cp, pp1_cp, pp2_cp, pp3_cp, pp4_cp, pp5_cp, pp6_cp, pp7_cp, pp8_cp

(* ... and what the extended mode adds is within the extension.            *)
LEMMA ExtendedTable ==
  ASSUME level \in 4..6, NEW p \in 1..8, NEW c \in pp_ext[p][level]
  PROVE  c \in 0..normal + 2 * <<0, 0, 0, 48, 144, 288>>[level] - 1
<1>4. CASE level = 4
  BY <1>4 DEF pp_ext, normal
<1>5. CASE level = 5
  BY <1>5 DEF pp_ext, normal
<1>6. CASE level = 6
  BY <1>6 DEF pp_ext, normal
<1> QED
  BY <1>4, <1>5, <1>6

----------------------------------------------------------------------------
(* Signals and sizes.                                                      *)

Known(s) == s \in Signals \cup {P2Signal}

LEMMA Fields ==
  ASSUME NEW s, Known(s)
  PROVE  s.pattern \in 1..8 /\ s.extended \in BOOLEAN /\ s.tr \in BOOLEAN
<1>1. CASE s = P2Signal
  BY <1>1 DEF P2Signal
<1>2. CASE s \in Signals
  <2>1. s \in [pattern : 1..8, extended : IF level > 3 THEN BOOLEAN ELSE {FALSE},
              tr : BOOLEAN, guard : Guards]
    BY <1>2 DEF Signals
  <2>2. CASE level > 3
    BY <2>1, <2>2
  <2>3. CASE ~(level > 3)
    BY <2>1, <2>3
  <2> QED
    BY <2>2, <2>3
<1> QED
  BY <1>1, <1>2 DEF Known

LEMMA Extension ==
  ASSUME level \in 1..6, NEW s, Known(s)
  PROVE  /\ k_ext(s) \in 0..288 /\ k_ext(s) % 6 = 0
         /\ k_total(s) = normal + 2 * k_ext(s)
         /\ normal \in Nat /\ normal >= 853 /\ normal % 3 = 1
         /\ level = 6 => normal % 6 = 1
<1>1. s.extended \in BOOLEAN
  BY Fields
<1>2. normal \in {853, 1705, 3409, 6817, 13633, 27265} /\ (level = 6 => normal = 27265)
  BY DEF normal
<1>4. normal \in Nat /\ normal >= 853 /\ normal % 3 = 1 /\ (level = 6 => normal % 6 = 1)
  BY <1>2
<1>3. k_ext(s) \in 0..288 /\ k_ext(s) % 6 = 0
  BY <1>1 DEF k_ext
<1> QED
  BY <1>3, <1>4 DEF k_total, normal

LEMMA Spacing ==
  ASSUME level \in 1..6, NEW s, Known(s)
  PROVE  /\ dx(s) \in {3, 6, 12, 24} /\ dy(s) \in {2, 4, 16}
         /\ dx(s) * (dy(s) - 1) \in 0..90
  BY Fields DEF dx, dy

LEMMA Lengths ==
  ASSUME level \in 1..6, NEW s, Known(s)
  PROVE  /\ n_p2 \in 1..16 /\ n_data(s) \in Nat \ {0} /\ len_frame(s) \in Nat
         /\ n_p2 < len_frame(s) /\ l_fc(s) \in {0, 1}
  BY Spacing, CarriersAssumption DEF n_p2, n_data, len_frame, l_fc
----------------------------------------------------------------------------
(* P2 symbols.                                                             *)

(* The next multiple of a step is no further than a step away, and within  *)
(* the symbol when the last carrier is a multiple too.                     *)
LEMMA NextMultiple ==
  ASSUME NEW d \in {3, 6, 12, 24}, NEW p \in Nat
  PROVE  \E q \in p + 1..p + d :
           q % d = 0 /\ \A l \in Nat : l % d = 0 /\ p < l => q <= l
<1> DEFINE q == p - (p % d) + d
<1>1. q \in p + 1..p + d /\ q % d = 0
  <2>1. CASE d = 3
    BY <2>1
  <2>2. CASE d = 6
    BY <2>2
  <2>3. CASE d = 12
    BY <2>3
  <2>4. CASE d = 24
    BY <2>4
  <2> QED
    BY <2>1, <2>2, <2>3, <2>4
<1>2. ASSUME NEW l \in Nat, l % d = 0, p < l PROVE q <= l
  <2>1. CASE d = 3
    BY <1>2, <2>1
  <2>2. CASE d = 6
    BY <1>2, <2>2
  <2>3. CASE d = 12
    BY <1>2, <2>3
  <2>4. CASE d = 24
    BY <1>2, <2>4
  <2> QED
    BY <2>1, <2>2, <2>3, <2>4
<1> HIDE DEF q
<1> QED
  BY <1>1, <1>2

LEMMA P2ToneBounds ==
  ASSUME level \in 1..6, NEW s, Known(s), NEW t \in P2Tones(s)
  PROVE  t \in k_ext(s) + 104..k_total(s) - k_ext(s) - 100 /\ t % 3 # 0
<1>1. PICK u \in p2_papr_map[level] : t = u + k_ext(s)
  BY DEF P2Tones
<1>2. u \in 104..normal - 100 /\ u % 3 # 0
  BY P2Table
<1> QED
  BY <1>1, <1>2, Extension

(* A map that is made for n carriers, with a pilot at both ends and at     *)
(* most `room' cells between two pilots.                                   *)
Covers(P, n, room) ==
  /\ {0, n - 1} \subseteq P
  /\ \A p \in P \ {n - 1} : \E q \in p + 1..p + room + 1 : q \in P

LEMMA P2Map ==
  ASSUME level \in 1..6, miso \in BOOLEAN, NEW s, Known(s)
  PROVE  /\ P2Pilots(s) \cup P2Tones(s) \subseteq Carriers(s)
         /\ Covers(P2Pilots(s), k_total(s), 14)
<1> DEFINE n == k_total(s)
           e == k_ext(s)
           d == p2_step
           P == P2Pilots(s)
<1>1. /\ e \in 0..288 /\ e % 6 = 0 /\ n = normal + 2 * e
      /\ normal \in Nat /\ normal >= 853 /\ normal % 3 = 1
      /\ level = 6 => normal % 6 = 1
  BY Extension
<1>2. d \in {3, 6} /\ (d = 6 => level = 6)
  BY DEF p2_step
<1>3. \A t \in P2Tones(s) : t \in e + 104..n - e - 100 /\ t % 3 # 0
  BY P2ToneBounds
<1>4. P2Tones(s) \subseteq 0..n - 1
  BY <1>1, <1>3
<1>5. BesideTones(P2Tones(s)) \subseteq 0..n - 1
  BY <1>1, <1>3 DEF BesideTones
<1>6. P \subseteq 0..n - 1
  BY <1>1, <1>5 DEF P2Pilots, Carriers
<1>7. \A c \in 0..n - 1 : c % d = 0 => c \in P
  <2>1. \A c \in Nat : c % d = 0 => c % 3 = 0
    BY <1>2
  <2> QED
    BY <1>1, <1>3, <2>1 DEF P2Pilots, Carriers
<1>8. n - 1 \in Nat /\ (n - 1) % d = 0 /\ 0 % d = 0
  BY <1>1, <1>2
<1>9. ASSUME NEW p \in P \ {n - 1}
      PROVE  \E q \in p + 1..p + 14 + 1 : q \in P
  <2>1. p \in Nat /\ p < n - 1
    BY <1>6, <1>1
  <2>2. PICK q \in p + 1..p + d :
          q % d = 0 /\ \A l \in Nat : l % d = 0 /\ p < l => q <= l
    BY <1>2, <2>1, NextMultiple
  <2>3. q \in 0..n - 1 /\ q \in p + 1..p + 14 + 1
    BY <1>2, <1>8, <2>1, <2>2
  <2> QED
    BY <1>7, <2>2, <2>3
<1>10. 0 \in P /\ n - 1 \in P
  BY <1>7, <1>8
<1> QED
  BY <1>4, <1>6, <1>9, <1>10 DEF Covers, Carriers
----------------------------------------------------------------------------
(* Data symbols, whatever their place in the frame.                        *)

LEMMA ShiftBound ==
  ASSUME level \in 1..6, NEW s, Known(s), NEW k \in Nat
  PROVE  Shift(s, k) \in 0..90
<1> DEFINE a == k + k_ext(s) \div dx(s)
<1>1. dx(s) \in {3, 6, 12, 24} /\ k_ext(s) \in Nat
  BY Spacing, Extension
<1>2. a \in Nat
  BY <1>1
<1> HIDE DEF a
<1>3. dx(s) * (a % dy(s)) \in 0..90
  <2>1. s.pattern \in 1..8
    BY Fields
  <2>2. <<dx(s), dy(s)>> \in {<<3, 4>>, <<6, 2>>, <<6, 4>>, <<12, 2>>, <<12, 4>>,
                             <<24, 2>>, <<24, 4>>, <<6, 16>>}
    BY <2>1 DEF dx, dy
  <2> QED
    BY <1>2, <2>2
<1> QED
  BY <1>3 DEF Shift, a

LEMMA DataTones ==
  ASSUME level \in 1..6, NEW s, Known(s), NEW k \in Nat,
         NEW t \in tr_papr_carriers_mapping(s, k)
  PROVE  t \in 1..k_total(s) - 10
<1>1. PICK u \in tr_papr_map[level] : t = u + Shift(s, k)
  BY DEF tr_papr_carriers_mapping
<1>2. u \in 109..normal - 100
  BY ToneTable
<1> QED
  BY <1>1, <1>2, ShiftBound, Extension

LEMMA ContinualPilots ==
  ASSUME level \in 1..6, NEW s, s \in Signals
  PROVE  cp_mappinng(s) \subseteq Carriers(s)
<1> DEFINE n == k_total(s)
           All == UNION {pp_cp[s.pattern][k] : k \in 1..6}
<1>1. s.pattern \in 1..8 /\ s.extended \in BOOLEAN /\ (s.extended => level \in 4..6)
  <2>1. s \in [pattern : 1..8, extended : IF level > 3 THEN BOOLEAN ELSE {FALSE},
              tr : BOOLEAN, guard : Guards]
    BY DEF Signals
  <2>2. CASE level > 3
    BY <2>1, <2>2
  <2>3. CASE ~(level > 3)
    BY <2>1, <2>3
  <2> QED
    BY <2>2, <2>3
<1>2. n = normal + 2 * k_ext(s) /\ k_ext(s) \in Nat /\ normal \in Nat
  BY Extension DEF Known
<1>3. ASSUME NEW k \in 1..6, NEW c \in pp_cp[s.pattern][k] PROVE c \in 0..last_32k
  BY <1>1, PilotTable
<1>12. last_32k \in Nat
  BY DEF last_32k
<1>4. ASSUME NEW c \in More(s) PROVE c \in 0..n - 1
  <2>1. s.extended /\ c \in pp_ext[s.pattern][level]
    BY DEF More
  <2>2. k_ext(s) = <<0, 0, 0, 48, 144, 288>>[level]
    BY <2>1 DEF k_ext
  <2>3. c \in 0..normal + 2 * k_ext(s) - 1
    BY <1>1, <2>1, <2>2, ExtendedTable
  <2> QED
    BY <1>2, <2>3
<1>5. ASSUME NEW m \in Nat \ {0}, NEW j \in 1..6, NEW c \in Wrapped(s, j, m), m <= normal
      PROVE  c \in 0..n - 1
  <2>1. PICK k \in 1..j : \E b \in pp_cp[s.pattern][k] : c = b % m
    BY DEF Wrapped
  <2>2. PICK b \in pp_cp[s.pattern][k] : c = b % m
    BY <2>1
  <2>3. b \in Nat
    BY <1>3, <1>5, <1>12
  <2> QED
    BY <1>2, <1>5, <2>2, <2>3
<1>6. CASE level = 1
  <2>1. ASSUME NEW c \in Wrapped(s, 1, 1632) PROVE c \in 0..852
    BY <1>1, PilotTable1K DEF Wrapped
  <2> QED
    BY <1>2, <1>6, <2>1 DEF cp_mappinng, cp_1k, Carriers, normal
<1>7. CASE level = 2
  BY <1>5, <1>7 DEF cp_mappinng, cp_2k, Carriers, normal
<1>8. CASE level = 3
  BY <1>5, <1>8 DEF cp_mappinng, cp_4k, Carriers, normal
<1>9. CASE level = 4
  BY <1>4, <1>5, <1>9 DEF cp_mappinng, cp_8k, Carriers, normal
<1>10. CASE level = 5
  BY <1>4, <1>5, <1>10 DEF cp_mappinng, cp_16k, Carriers, normal
<1>11. CASE level = 6
  <2>1. normal - 1 = last_32k
    BY <1>11 DEF normal, last_32k
  <2>2. ASSUME NEW c \in All PROVE c \in 0..normal - 1
    BY <1>3, <2>1
  <2> QED
    BY <1>2, <1>4, <1>11, <2>2 DEF cp_mappinng, cp_32k, Carriers
<1> QED
  BY <1>6, <1>7, <1>8, <1>9, <1>10, <1>11
LEMMA DataMap ==
  ASSUME level \in 1..6, NEW s, s \in Signals, NEW k \in Nat,
         NEW T, T = tr_papr_carriers_mapping(s, k),
         NEW P, P = (cp_mappinng(s) \cup sp_mappinng(s, k)) \ T
  PROVE  P \cup T \subseteq Carriers(s) /\ Edges(s) \subseteq P
<1>1. k_total(s) \in Nat /\ k_total(s) >= 853
  BY Extension DEF Known
<1>2. \A t \in T : t \in 1..k_total(s) - 10
  BY DataTones DEF Known
<1>3. cp_mappinng(s) \subseteq Carriers(s)
  BY ContinualPilots
<1>4. sp_mappinng(s, k) \subseteq Carriers(s) /\ Edges(s) \subseteq sp_mappinng(s, k)
  BY <1>1 DEF sp_mappinng, Carriers, Edges
<1>5. T \subseteq Carriers(s)
  BY <1>1, <1>2 DEF Carriers
<1>6. \A c \in Edges(s) : c \notin T
  BY <1>1, <1>2 DEF Edges
<1> QED
  BY <1>3, <1>4, <1>5, <1>6

----------------------------------------------------------------------------
(* Frame closing symbols.                                                  *)

(* The map of pilots P and tones T, with a pilot beside the last in some   *)
(* modes.                                                                  *)
FcOf(s, T, P, Some) ==
  /\ T = IF s.tr THEN P2Tones(s) ELSE {}
  /\ Some \subseteq {k_total(s) - 2}
  /\ P = (EveryDx(s) \cup Edges(s) \cup Some) \ T

LEMMA FcMap ==
  ASSUME level \in 1..6, NEW s, Known(s),
         NEW T, NEW P, NEW Some, FcOf(s, T, P, Some)
  PROVE  P \cup T \subseteq Carriers(s) /\ Covers(P, k_total(s), 64)
<1> DEFINE n == k_total(s)
           d == dx(s)
<1>1. n \in Nat /\ n >= 853 /\ k_ext(s) \in Nat
  BY Extension
<1> USE DEF FcOf
<1>2. \A t \in T : t \in 1..n - 10 /\ t % 3 # 0
  BY <1>1, P2ToneBounds
<1>3. P \cup T \subseteq 0..n - 1
  <2>1. T \subseteq 0..n - 1
    BY <1>1, <1>2
  <2>2. EveryDx(s) \subseteq 0..n - 1
    BY DEF EveryDx, Carriers
  <2>3. Edges(s) \subseteq 0..n - 1
    BY <1>1 DEF Edges
  <2>4. Some \subseteq 0..n - 1
    BY <1>1
  <2> QED
    BY <2>1, <2>2, <2>3, <2>4
<1>4. 0 \in P /\ n - 1 \in P
  BY <1>1, <1>2 DEF Edges
<1>5. d \in {3, 6, 12, 24}
  BY Spacing
<1>6. \A c \in 0..n - 1 : c % d = 0 => c \in P
  <2>1. \A c \in Nat : c % d = 0 => c % 3 = 0
    BY <1>5
  <2> QED
    BY <1>1, <1>2, <2>1 DEF EveryDx, Carriers
<1>7. ASSUME NEW p \in P \ {n - 1}
      PROVE  \E q \in p + 1..p + 64 + 1 : q \in P
  <2>1. p \in Nat /\ p < n - 1
    BY <1>1, <1>3
  <2>2. PICK q \in p + 1..p + d : q % d = 0
    BY <1>5, <2>1, NextMultiple
  <2>3. q \in p + 1..p + 64 + 1
    BY <1>5, <2>1, <2>2
  <2>4. CASE q <= n - 1
    BY <1>6, <2>1, <2>2, <2>3, <2>4
  <2>5. CASE q > n - 1
    <3>1. n - 1 \in p + 1..p + 64 + 1
      BY <1>1, <2>1, <2>3, <2>5
    <3> QED
      BY <1>4, <3>1
  <2> QED
    BY <1>1, <2>3, <2>4, <2>5
<1> QED
  BY <1>3, <1>4, <1>7 DEF Covers, Carriers

----------------------------------------------------------------------------
(* The address register.                                                   *)

LEMMA Register ==
  ASSUME level \in 1..6
  PROVE  /\ max_states \in Nat \ {0} /\ pn_mask \in Nat \ {0}
         /\ pn_mask % 2 = 1
  BY DEF max_states, pn_mask

(* The taps that see a one.                                                *)
Fed(n) == {b \in Taps : Bit(n, b) = 1}

LEMMA FedParity ==
  ASSUME level \in 1..6, NEW n
  PROVE  /\ IsFiniteSet(Fed(n)) /\ Cardinality(Fed(n)) \in Nat
         /\ Cardinality(Fed(n)) % 2 \in {0, 1}
<1>1. IsFiniteSet(Taps)
  <2>1. Taps \subseteq 0..12
    BY DEF Taps
  <2>2. IsFiniteSet(0..12)
    BY FS_Interval, 0 \in Int, 12 \in Int
  <2> QED
    BY <2>1, <2>2, FS_Subset
<1>2. IsFiniteSet(Fed(n))
  BY <1>1, FS_Subset DEF Fed
<1>3. Cardinality(Fed(n)) \in Nat
  BY <1>2, FS_CardinalityType
<1> QED
  BY <1>2, <1>3

LEMMA ResultBit ==
  ASSUME level \in 1..6
  PROVE  Result \in {0, 1}
  BY FedParity DEF Result, Fed

LEMMA Shifted ==
  ASSUME level \in 1..6, lfsr \in 0..pn_mask
  PROVE  lfsr \div 2 + Result * ((pn_mask + 1) \div 2) \in 0..pn_mask
<1>1. Result = 0 \/ Result = 1
  BY ResultBit
<1> QED
  BY <1>1, Register
----------------------------------------------------------------------------
(***************************************************************************)
(* The inductive invariant: the map of the symbol last made is right for   *)
(* the signal it was made for.                                             *)
(***************************************************************************)
MapInv ==
  /\ TypeOK
  /\ stage = "data" => signal \in Signals
  /\ stage = "data" => Edges(signal) \subseteq pilots
  /\ stage \in {"p2", "fc"} => Covers(pilots, k_total(signal), Room)

LEMMA MapInit == Init => MapInv
<1> SUFFICES ASSUME Init PROVE MapInv
  OBVIOUS
<1>1. level \in 1..6
  BY CarriersAssumption DEF Init
<1>2. Known(signal)
  BY DEF Init, Known
<1>3. len_frame(signal) \in Nat
  BY <1>1, <1>2, Lengths
<1>4. i \in 0..max_states - 1 /\ lfsr \in 0..pn_mask
  BY <1>1, Register DEF Init
<1> QED
  BY <1>1, <1>3, <1>4 DEF Init, MapInv, TypeOK

(* What depends on the FFT size alone stays, for any signal.               *)
LEMMA Same ==
  ASSUME UNCHANGED <<level, miso>>
  PROVE  /\ UNCHANGED <<max_states, pn_mask, Signals>>
         /\ (k_total(signal))' = k_total(signal')
         /\ (len_frame(signal))' = len_frame(signal')
<1>1. UNCHANGED max_states
  BY DEF max_states
<1>2. UNCHANGED pn_mask
  BY DEF pn_mask
<1>3. UNCHANGED Signals
  BY DEF Signals, Mode
<1>4. (k_total(signal))' = k_total(signal')
  BY DEF k_total, k_ext
<1>5. (len_frame(signal))' = len_frame(signal')
  BY DEF len_frame, n_p2, n_data, dy
<1> QED
  BY <1>1, <1>2, <1>3, <1>4, <1>5
LEMMA MapStep == MapInv /\ [Next]_vars => MapInv'
<1> SUFFICES ASSUME MapInv, [Next]_vars PROVE MapInv'
  OBVIOUS
<1>1. /\ level \in 1..6 /\ miso \in BOOLEAN /\ Known(signal)
      /\ UNCHANGED <<level, miso>>
  BY DEF MapInv, TypeOK, Known, Next, NextAddress, InitP2, InitData, NextData, InitFc, vars
<1>2. /\ UNCHANGED <<max_states, pn_mask, Signals>>
      /\ (k_total(signal))' = k_total(signal')
      /\ (len_frame(signal))' = len_frame(signal')
  BY <1>1, Same
<1>3. /\ max_states \in Nat \ {0} /\ pn_mask \in Nat \ {0}
      /\ i \in 0..max_states - 1 /\ lfsr \in 0..pn_mask
  BY <1>1, Register DEF MapInv, TypeOK
(* All that has to be shown when the map is made anew.                     *)
<1>4. ASSUME i' \in 0..max_states - 1, lfsr' \in 0..pn_mask,
             Known(signal'), stage' \in {"p2", "data", "fc"},
             stage' = "data" => signal' \in Signals,
             idx_symbol' \in 0..len_frame(signal'),
             pilots' \cup tones' \subseteq Carriers(signal'),
             stage' = "data" => Edges(signal') \subseteq pilots',
             stage' = "p2" => Covers(pilots', k_total(signal'), 14),
             stage' = "fc" => Covers(pilots', k_total(signal'), 64)
      PROVE  MapInv'
  BY <1>1, <1>2, <1>4 DEF MapInv, TypeOK, Known, Carriers, Edges, Covers, Room
<1>5. CASE NextAddress
  <2>1. i' \in 0..max_states - 1
    BY <1>3, <1>5 DEF NextAddress
  <2>2. lfsr' \in 0..pn_mask
    BY <1>1, <1>3, <1>5, Shifted DEF NextAddress
  <2> QED
    BY <1>1, <1>2, <1>5, <2>1, <2>2 DEF NextAddress, MapInv, TypeOK, Carriers
<1>6. CASE InitP2
  <2>1. /\ pilots' \cup tones' \subseteq Carriers(signal)
        /\ Covers(pilots', k_total(signal), 14)
    BY <1>1, <1>6, P2Map DEF InitP2
  <2>2. idx_symbol' \in 0..len_frame(signal)
    BY <1>6 DEF InitP2, MapInv, TypeOK
  <2>3. /\ stage' = "p2" /\ signal' = signal
        /\ i' \in 0..max_states - 1 /\ lfsr' \in 0..pn_mask
    BY <1>3, <1>6 DEF InitP2
  <2> QED
    BY <1>1, <1>4, <2>1, <2>2, <2>3
<1>7. CASE InitData
  <2>1. /\ signal' \in Signals /\ Known(signal') /\ stage' = "data" /\ idx_symbol' = n_p2
        /\ i' = i /\ lfsr' = lfsr
    BY <1>7 DEF InitData, DataSymbol, Known
  <2>2. n_p2 \in Nat /\ n_p2 < len_frame(signal') /\ len_frame(signal') \in Nat
    BY <1>1, <2>1, Lengths
  <2>3. pilots' \cup tones' \subseteq Carriers(signal') /\ Edges(signal') \subseteq pilots'
    BY <1>1, <1>7, <2>1, <2>2, DataMap DEF InitData, DataSymbol
  <2> QED
    BY <1>3, <1>4, <2>1, <2>2, <2>3
<1>8. CASE NextData
  <2>1. /\ signal \in Signals /\ signal' = signal /\ stage' = "data"
        /\ idx_symbol' = idx_symbol + 1
        /\ i' = i /\ lfsr' = lfsr
    BY <1>8 DEF NextData, DataSymbol, MapInv
  <2>2. idx_symbol \in Nat /\ idx_symbol' \in 0..len_frame(signal)
    BY <1>1, <1>8, <2>1, Lengths DEF NextData, MapInv, TypeOK
  <2>3. pilots' \cup tones' \subseteq Carriers(signal) /\ Edges(signal) \subseteq pilots'
    BY <1>1, <1>8, <2>1, <2>2, DataMap DEF NextData, DataSymbol
  <2> QED
    BY <1>1, <1>3, <1>4, <2>1, <2>2, <2>3
<1>9. CASE InitFc
  <2>1. /\ signal' = signal /\ stage' = "fc" /\ idx_symbol' = idx_symbol + 1
        /\ idx_symbol + 2 = len_frame(signal)
        /\ i' = i /\ lfsr' = lfsr
    BY <1>9 DEF InitFc
  <2>2. idx_symbol' \in 0..len_frame(signal)
    BY <1>1, <2>1, Lengths DEF MapInv, TypeOK
  <2> DEFINE Some == IF <<level, signal.pattern>> \in {<<1, 4>>, <<1, 5>>, <<2, 7>>}
                     THEN {k_total(signal) - 2} ELSE {}
  <2>3. FcOf(signal, tones', pilots', Some)
    BY <1>9 DEF InitFc, fc_carrier_mapping, FcOf
  <2> HIDE DEF Some
  <2>4. /\ pilots' \cup tones' \subseteq Carriers(signal)
        /\ Covers(pilots', k_total(signal), 64)
    BY <1>1, <2>3, FcMap
  <2> QED
    BY <1>1, <1>3, <1>4, <2>1, <2>2, <2>4
<1>10. CASE UNCHANGED vars
  BY <1>1, <1>2, <1>10
     DEF vars, MapInv, TypeOK, Carriers, Edges, Covers, Room
<1> QED
  BY <1>5, <1>6, <1>7, <1>8, <1>9, <1>10 DEF Next

LEMMA MapHolds == Spec => []MapInv
  BY MapInit, MapStep, PTL DEF Spec

(* No map is written outside its array, in frames of any length.           *)
THEOREM CarriersTypeCorrect == Spec => []TypeOK
<1>1. MapInv => TypeOK
  BY DEF MapInv
<1> QED
  BY <1>1, MapHolds, PTL

(* In P2 and frame closing symbols the buffer between two pilots is large  *)
(* enough, and the first and the last carrier of any symbol are pilots.    *)
THEOREM PilotInTimeHolds == Spec => []PilotInTime
<1>1. MapInv => PilotInTime
  BY DEF MapInv, TypeOK, PilotInTime, Made, Covers, Edges
<1> QED
  BY <1>1, MapHolds, PTL

----------------------------------------------------------------------------
(***************************************************************************)
(* Of AddressesOnce, what does not take a walk through all values: the     *)
(* register never runs dry, and no two values are followed by the same     *)
(* one, so that none can come again before the register has gone round.    *)
(***************************************************************************)
After(n) == n \div 2 + (Cardinality(Fed(n)) % 2) * ((pn_mask + 1) \div 2)

PowersOfTwo == {2, 4, 8, 16, 32, 64, 128, 256, 512, 1024, 2048, 4096}

(* The solver computes powers of numerals only.                            *)
LEMMA Powers ==
  ASSUME NEW b \in 1..12
  PROVE  2^b \in PowersOfTwo
<1>1. b = 1 => 2^b = 2
  OBVIOUS
<1>2. b = 2 => 2^b = 4
  OBVIOUS
<1>3. b = 3 => 2^b = 8
  OBVIOUS
<1>4. b = 4 => 2^b = 16
  OBVIOUS
<1>5. b = 5 => 2^b = 32
  OBVIOUS
<1>6. b = 6 => 2^b = 64
  OBVIOUS
<1>7. b = 7 => 2^b = 128
  OBVIOUS
<1>8. b = 8 => 2^b = 256
  OBVIOUS
<1>9. b = 9 => 2^b = 512
  OBVIOUS
<1>10. b = 10 => 2^b = 1024
  OBVIOUS
<1>11. b = 11 => 2^b = 2048
  OBVIOUS
<1>12. b = 12 => 2^b = 4096
  OBVIOUS
<1> QED
  BY <1>1, <1>2, <1>3, <1>4, <1>5, <1>6, <1>7, <1>8, <1>9, <1>10, <1>11, <1>12
     DEF PowersOfTwo

(* The bits above the lowest are those of the half.                        *)
LEMMA UpperBits ==
  ASSUME NEW m \in Nat, NEW n \in Nat, m \div 2 = n \div 2, NEW b \in 1..12
  PROVE  Bit(m, b) = Bit(n, b)
<1>1. \A k \in Nat : /\ k \div 4 = (k \div 2) \div 2 /\ k \div 8 = (k \div 2) \div 4
                     /\ k \div 16 = (k \div 2) \div 8 /\ k \div 32 = (k \div 2) \div 16
                     /\ k \div 64 = (k \div 2) \div 32 /\ k \div 128 = (k \div 2) \div 64
  OBVIOUS
<1>2. \A k \in Nat : /\ k \div 256 = (k \div 2) \div 128
                     /\ k \div 512 = (k \div 2) \div 256
                     /\ k \div 1024 = (k \div 2) \div 512
                     /\ k \div 2048 = (k \div 2) \div 1024
                     /\ k \div 4096 = (k \div 2) \div 2048
  OBVIOUS
<1>3. \A d \in {2, 4, 8, 16, 32, 64, 128} : m \div d = n \div d
  BY <1>1
<1>4. \A d \in {256, 512, 1024, 2048, 4096} : m \div d = n \div d
  BY <1>2
<1>5. \A d \in PowersOfTwo : m \div d = n \div d
  BY <1>3, <1>4 DEF PowersOfTwo
<1>6. m \div 2^b = n \div 2^b
  BY <1>5, Powers, Zenon
<1> QED
  BY <1>6, Zenon DEF Bit

LEMMA LowestBit ==
  ASSUME NEW n \in Nat
  PROVE  Bit(n, 0) = n % 2
<1>1. 2^0 = 1
  OBVIOUS
<1>2. n \div 1 = n
  OBVIOUS
<1> QED
  BY <1>1, <1>2 DEF Bit

(* An odd value and the even one before it feed back differently.          *)
LEMMA OddFeeds ==
  ASSUME level \in 1..6, NEW m \in Nat, NEW n \in Nat,
         m \div 2 = n \div 2, m % 2 = 1, n % 2 = 0
  PROVE  Cardinality(Fed(m)) = Cardinality(Fed(n)) + 1
<1>1. 0 \in Taps /\ Taps \subseteq 0..12
  BY DEF Taps
<1>2. 0 \in Fed(m) /\ 0 \notin Fed(n)
  BY <1>1, LowestBit DEF Fed
<1>3. \A b \in Taps \ {0} : b \in Fed(m) <=> b \in Fed(n)
  <2> TAKE b \in Taps \ {0}
  <2>1. b \in 1..12
    BY <1>1
  <2> QED
    BY <2>1, UpperBits DEF Fed
<1>4. Fed(m) = Fed(n) \cup {0}
  BY <1>1, <1>2, <1>3 DEF Fed
<1> QED
  BY <1>2, <1>4, FedParity, FS_AddElement

LEMMA OneToOne ==
  ASSUME level \in 1..6, NEW m \in 0..pn_mask, NEW n \in 0..pn_mask, After(m) = After(n)
  PROVE  m = n
<1> DEFINE top == (pn_mask + 1) \div 2
           p(k) == Cardinality(Fed(k)) % 2
<1>1. pn_mask \in Nat /\ top \in Nat /\ pn_mask = 2 * top - 1
  BY DEF pn_mask
<1>2. m \in Nat /\ n \in Nat /\ m \div 2 \in 0..top - 1 /\ n \div 2 \in 0..top - 1
  BY <1>1
<1>3. p(m) \in {0, 1} /\ p(n) \in {0, 1}
  BY FedParity
<1>4. m \div 2 + p(m) * top = n \div 2 + p(n) * top
  BY DEF After
<1>5. m \div 2 = n \div 2 /\ p(m) = p(n)
  <2> HIDE DEF top, p
  <2>1. p(m) * top \in {0, top} /\ p(n) * top \in {0, top}
    BY <1>1, <1>3
  <2> QED
    BY <1>1, <1>2, <1>3, <1>4, <2>1
<1>6. Cardinality(Fed(m)) \in Nat /\ Cardinality(Fed(n)) \in Nat
  BY FedParity
<1>7. ~(m % 2 = 1 /\ n % 2 = 0)
  BY <1>2, <1>5, <1>6, OddFeeds
<1>8. ~(m % 2 = 0 /\ n % 2 = 1)
  BY <1>2, <1>5, <1>6, OddFeeds
<1> QED
  BY <1>2, <1>5, <1>7, <1>8

LEMMA NotToZero ==
  ASSUME level \in 1..6, NEW n \in 1..pn_mask
  PROVE  After(n) \in 1..pn_mask
<1>1. pn_mask \in Nat /\ pn_mask % 2 = 1
  BY Register
<1>2. Cardinality(Fed(n)) % 2 \in {0, 1}
  BY FedParity
<1>3. After(n) \in 0..pn_mask
  <2> DEFINE r == Cardinality(Fed(n)) % 2
  <2>1. r = 0 \/ r = 1
    BY <1>2
  <2>2. After(n) = n \div 2 + r * ((pn_mask + 1) \div 2)
    BY DEF After
  <2> HIDE DEF r
  <2> QED
    BY <1>1, <2>1, <2>2
<1>4. After(0) = 0
  <2>1. \A b \in Taps : Bit(0, b) = 0
    <3> TAKE b \in Taps
    <3>1. b \in 0..12
      BY DEF Taps
    <3>2. CASE b = 0
      BY <3>2, LowestBit
    <3>3. CASE b \in 1..12
      <4>1. 2^b \in PowersOfTwo
        BY <3>3, Powers, Zenon
      <4>2. \A d \in PowersOfTwo : (0 \div d) % 2 = 0
        BY DEF PowersOfTwo
      <4> QED
        BY <4>1, <4>2, Zenon DEF Bit
    <3> QED
      BY <3>1, <3>2, <3>3
  <2>2. Fed(0) = {}
    BY <2>1 DEF Fed
  <2>3. Cardinality(Fed(0)) = 0
    BY <2>2, FS_EmptySet
  <2> QED
    BY <1>1, <2>3 DEF After
<1>5. After(n) # 0
  BY <1>1, <1>4, OneToOne
<1> QED
  BY <1>3, <1>5

(* Once begun the register is not zero, and where it comes from is known   *)
(* by where it is: nothing comes twice unless all that came between does.  *)
RegisterReversible ==
  [][NextAddress /\ i >= 2 =>
       /\ lfsr \in 1..pn_mask /\ lfsr' \in 1..pn_mask
       /\ \A n \in 1..pn_mask : After(n) = lfsr' => n = lfsr]_vars

Begun == stage = "address" /\ i >= 2 => lfsr \in 1..pn_mask

LEMMA BegunStep == MapInv /\ Begun /\ [Next]_vars => Begun'
<1> SUFFICES ASSUME MapInv, Begun, [Next]_vars PROVE Begun'
  OBVIOUS
<1>1. level \in 1..6 /\ i \in 0..max_states - 1 /\ max_states \in Nat /\ pn_mask \in Nat \ {0}
  BY Register DEF MapInv, TypeOK
<1>2. CASE NextAddress
  <2>1. pn_mask' = pn_mask /\ i' = i + 1
    BY <1>2 DEF NextAddress, pn_mask
  <2>2. CASE i' <= 2
    BY <1>1, <1>2, <2>1, <2>2 DEF NextAddress, Begun
  <2>3. CASE i' > 2
    <3>1. lfsr' = After(lfsr)
      BY <1>1, <1>2, <2>1, <2>3 DEF NextAddress, After, Result, Fed
    <3>2. lfsr \in 1..pn_mask
      BY <1>1, <1>2, <2>1, <2>3 DEF NextAddress, Begun
    <3> QED
      BY <1>1, <2>1, <3>1, <3>2, NotToZero DEF Begun
  <2> QED
    BY <1>1, <2>1, <2>2, <2>3
<1>3. CASE InitP2 \/ InitData \/ NextData \/ InitFc
  BY <1>3 DEF InitP2, InitData, NextData, InitFc, Begun
<1>4. CASE UNCHANGED vars
  BY <1>4 DEF vars, Begun, pn_mask
<1> QED
  BY <1>2, <1>3, <1>4 DEF Next

(* The register never stops and never joins a value it has left: what of   *)
(* AddressesOnce holds without going through all values of a register.     *)
THEOREM RegisterReversibleHolds == Spec => RegisterReversible
<1>1. ASSUME MapInv, Begun, Begun', NextAddress, i >= 2
      PROVE  /\ lfsr \in 1..pn_mask /\ lfsr' \in 1..pn_mask
             /\ \A n \in 1..pn_mask : After(n) = lfsr' => n = lfsr
  <2>1. level \in 1..6 /\ i \in Nat /\ pn_mask \in Nat /\ pn_mask' = pn_mask
    BY <1>1, Register DEF MapInv, TypeOK, NextAddress, pn_mask
  <2>2. lfsr \in 1..pn_mask /\ lfsr' \in 1..pn_mask
    BY <1>1, <2>1 DEF Begun, NextAddress
  <2>3. lfsr' = After(lfsr)
    BY <1>1, <2>1 DEF NextAddress, After, Result, Fed
  <2>4. ASSUME NEW n \in 1..pn_mask, After(n) = lfsr' PROVE n = lfsr
    <3>1. n \in 0..pn_mask /\ lfsr \in 0..pn_mask
      BY <2>1, <2>2
    <3> QED
      BY <2>1, <2>3, <2>4, <3>1, OneToOne
  <2> QED
    BY <2>2, <2>4
<1>2. Init => Begun
  BY DEF Init, Begun
<1> QED
  BY <1>1, <1>2, MapInit, MapStep, BegunStep, PTL DEF Spec, RegisterReversible

(* Each table of wires moves every bit of an address to a place of its own. *)
LEMMA EvenPermuted == level \in 1..6 => Permutes(bitperm_even[level])
<1>1. CASE level = 1
  BY <1>1 DEF Permutes, bitperm_even, pn_degree
<1>2. CASE level = 2
  BY <1>2 DEF Permutes, bitperm_even, pn_degree
<1>3. CASE level = 3
  BY <1>3 DEF Permutes, bitperm_even, pn_degree
<1>4. CASE level = 4
  BY <1>4 DEF Permutes, bitperm_even, pn_degree
<1>5. CASE level = 5
  BY <1>5 DEF Permutes, bitperm_even, pn_degree
<1>6. CASE level = 6
  BY <1>6 DEF Permutes, bitperm_even, pn_degree
<1> QED
  BY <1>1, <1>2, <1>3, <1>4, <1>5, <1>6

LEMMA OddPermuted == level \in 1..6 => Permutes(bitperm_odd[level])
<1>1. CASE level = 1
  BY <1>1 DEF Permutes, bitperm_odd, pn_degree
<1>2. CASE level = 2
  BY <1>2 DEF Permutes, bitperm_odd, pn_degree
<1>3. CASE level = 3
  BY <1>3 DEF Permutes, bitperm_odd, pn_degree
<1>4. CASE level = 4
  BY <1>4 DEF Permutes, bitperm_odd, pn_degree
<1>5. CASE level = 5
  BY <1>5 DEF Permutes, bitperm_odd, pn_degree
<1>6. CASE level = 6
  BY <1>6 DEF Permutes, bitperm_odd, pn_degree
<1> QED
  BY <1>1, <1>2, <1>3, <1>4, <1>5, <1>6

(* No two bits of an address fall on the same one, in even and odd symbols. *)
THEOREM BitsPermutedHolds ==
  Spec => [](Permutes(bitperm_even[level]) /\ Permutes(bitperm_odd[level]))
<1>1. MapInv => Permutes(bitperm_even[level]) /\ Permutes(bitperm_odd[level])
  BY EvenPermuted, OddPermuted DEF MapInv, TypeOK
<1> QED
  BY <1>1, MapHolds, PTL
=============================================================================
