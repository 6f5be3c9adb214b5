------------------------------ MODULE Carriers ------------------------------
(***************************************************************************)
(* Which carriers of a symbol are pilots, which are reserved for tones,    *)
(* and where the cells on the others go: what is made, symbol by symbol,   *)
(* when the demodulators of P2, data and frame closing symbols are         *)
(* initialised (src/DVB_T2/dvbt2_definition.cpp, pilot_generator.cpp,      *)
(* address_freq_deinterleaver.cpp).                                        *)
(*                                                                         *)
(* A carrier map is two sets, `pilots' and `tones'; data cells are on all  *)
(* other carriers.  Amplitudes and signs are left out, and with them the   *)
(* second MISO group, which init_dvbt2() never chooses and which differs   *)
(* in nothing else.  The cells of a symbol and the table that says where   *)
(* each goes are counted in different places, from some 2400 numbers typed *)
(* in by hand: CarrierTables.                                              *)
(*                                                                         *)
(* TapsShort, MoreAlways, ShiftNoWrap and EveryDxDy are slips, for the     *)
(* mutation runs that README.md describes.                                 *)
(***************************************************************************)
EXTENDS Integers, Sequences, FiniteSets, CarrierTables

CONSTANTS
  Levels,  \* FFT sizes: 1 is 1K, ..., 6 is 32K
  Guards,  \* guard intervals that are sent
  Beyond   \* bound: the data symbols of a frame, beyond one period of the
           \* scattered pilots

ASSUME CarriersAssumption == Levels \subseteq 1..6 /\ Beyond \in Nat \ {0}

VARIABLES
  level,       \* fft_mode
  miso,
  signal,      \* what L1-pre says of the frames
  stage,       \* "address", "p2", "data", "fc": what is being made
  i, lfsr,     \* of the loop over the addresses
  idx_symbol,
  pilots, tones

vars == <<level, miso, signal, stage, i, lfsr, idx_symbol, pilots, tones>>

----------------------------------------------------------------------------
(* The parameters.                                                         *)

n_p2 == <<16, 8, 4, 2, 1, 1>>[level]

c_p2 == IF miso THEN <<546, 1098, 2198, 4398, 8814, 17612>>[level]
        ELSE <<558, 1118, 2236, 4472, 8944, 22432>>[level]

k_ext(s) == IF s.extended THEN <<0, 0, 0, 48, 144, 288>>[level] ELSE 0

k_total(s) == <<853, 1705, 3409, 6817, 13633, 27265>>[level] + 2 * k_ext(s)

dx(s) == <<3, 6, 6, 12, 12, 24, 24, 6>>[s.pattern]
dy(s) == <<4, 2, 4, 2, 4, 2, 4, 16>>[s.pattern]

tone_cells == <<10, 18, 36, 72, 144, 288>>[level]

(* The numbers of data cells in the tables are those without tones.        *)
Less(n, s) == IF n = 0 \/ ~s.tr THEN n ELSE n - tone_cells

Mode(s) == IF s.extended THEN "extended" ELSE "normal"

c_data(s) == Less(cells[level][Mode(s)].c_data[s.pattern], s)

(* A frame needs no closing symbol when the last data symbol has pilots    *)
(* enough.                                                                 *)
n_fc(s) ==
  IF /\ ~miso
     /\ <<s.guard, s.pattern>>
          \in {<<"1/128", 7>>, <<"1/32", 4>>, <<"1/16", 2>>, <<"19/256", 2>>}
  THEN 0
  ELSE Less(cells[level][Mode(s)].n_fc[s.pattern], s)

l_fc(s) == IF n_fc(s) = 0 THEN 0 ELSE 1

n_data(s) == dy(s) + Beyond

len_frame(s) == n_p2 + n_data(s)

Carriers(s) == 0..k_total(s) - 1

Edges(s) == {0, k_total(s) - 1}

----------------------------------------------------------------------------
(* P2 symbols, always extended.                                            *)

p2_step == IF level = 6 /\ ~miso THEN 6 ELSE 3

P2Tones(s) == {t + k_ext(s) : t \in p2_papr_map[level]}

(* With MISO the two carriers between P2 pilots are used together: beside  *)
(* a single tone is a pilot.                                               *)
BesideTones(T) ==
  {t + 1 : t \in {u \in T : u % 3 = 1}}
    \cup {t - 1 : t \in {u \in T : u % 3 = 2}}

P2Pilots(s) ==
  LET last == k_total(s) - 1
      margins == 0..k_ext(s) - 1 \cup last - k_ext(s) + 1..last
      inner == {k_ext(s) + 1, k_ext(s) + 2,
                last - k_ext(s) - 1, last - k_ext(s) - 2}
      paired == IF miso THEN inner \cup BesideTones(P2Tones(s)) ELSE {}
      every == {c \in Carriers(s) : c % p2_step = 0}
  IN (every \cup margins \cup paired) \ P2Tones(s)

----------------------------------------------------------------------------
(* Data symbols: continual pilots, one switch branch per FFT size, ...     *)

Wrapped(s, n, m) == {c % m : c \in UNION {pp_cp[s.pattern][k] : k \in 1..n}}

MoreAlways(s) == pp_ext[s.pattern][level]

More(s) == IF s.extended THEN pp_ext[s.pattern][level] ELSE {}

cp_1k(s) == Wrapped(s, 1, 1632)
cp_2k(s) == Wrapped(s, 2, 1632)
cp_4k(s) == Wrapped(s, 3, 3264)
cp_8k(s) == Wrapped(s, 4, 6528) \cup More(s)
cp_16k(s) == Wrapped(s, 5, 13056) \cup More(s)
cp_32k(s) == (UNION {pp_cp[s.pattern][k] : k \in 1..6}) \cup More(s)

cp_mappinng(s) ==
  CASE level = 1 -> cp_1k(s) [] level = 2 -> cp_2k(s) [] level = 3 -> cp_4k(s)
    [] level = 4 -> cp_8k(s) [] level = 5 -> cp_16k(s) [] level = 6 -> cp_32k(s)

(* ... scattered pilots, which come back every dy symbols, ...             *)
sp_mappinng(s, idx) ==
  Edges(s) \cup
  {c \in Carriers(s) : (c - k_ext(s)) % (dx(s) * dy(s)) = dx(s) * (idx % dy(s))}

ShiftNoWrap(s, idx) == dx(s) * (idx + k_ext(s) \div dx(s))

(* ... and tones, which move with them.                                    *)
Shift(s, idx) == dx(s) * ((idx + k_ext(s) \div dx(s)) % dy(s))

tr_papr_carriers_mapping(s, idx) ==
  IF s.tr THEN {t + Shift(s, idx) : t \in tr_papr_map[level]} ELSE {}

DataSymbol(s, idx) ==
  /\ tones' = tr_papr_carriers_mapping(s, idx)
  /\ pilots' = (cp_mappinng(s) \cup sp_mappinng(s, idx)) \ tones'
  /\ idx_symbol' = idx

----------------------------------------------------------------------------
(* Frame closing symbols.                                                  *)

EveryDxDy(s) == {c \in Carriers(s) : c % (dx(s) * dy(s)) = 0}

EveryDx(s) == {c \in Carriers(s) : c % dx(s) = 0}

fc_carrier_mapping(s) ==
  /\ tones' = IF s.tr THEN P2Tones(s) ELSE {}
  /\ pilots' =
       (EveryDx(s) \cup Edges(s)
          \cup (IF <<level, s.pattern>> \in {<<1, 4>>, <<1, 5>>, <<2, 7>>}
                THEN {k_total(s) - 2} ELSE {})) \ tones'

----------------------------------------------------------------------------
(* The addresses: a shift register gives them in the order of the cells.   *)

TapsShort ==
  <<{0, 4}, {0, 3}, {0, 2}, {0, 1, 4, 6}, {0, 1, 4, 5, 9},
    {0, 1, 2, 12}>>[level]

(* logic1k ... logic32k.                                                   *)
Taps ==
  <<{0, 4}, {0, 3}, {0, 2}, {0, 1, 4, 6}, {0, 1, 4, 5, 9, 11},
    {0, 1, 2, 12}>>[level]

pn_degree == 8 + level
max_states == <<1024, 2048, 4096, 8192, 16384, 32768>>[level]
pn_mask == <<511, 1023, 2047, 4095, 8191, 16383>>[level]

Bit(n, b) == (n \div 2^b) % 2

Result == Cardinality({b \in Taps : Bit(lfsr, b) = 1}) % 2

NextAddress ==
  /\ stage = "address" /\ i + 1 < max_states
  /\ i' = i + 1
  /\ lfsr' = CASE i' = 1 -> 0
               [] i' = 2 -> 1
               [] OTHER -> lfsr \div 2 + Result * ((pn_mask + 1) \div 2)
  /\ UNCHANGED <<level, miso, signal, stage, idx_symbol, pilots, tones>>

----------------------------------------------------------------------------
(* Before L1-pre is known: P2 is always extended.                          *)
P2Signal == [pattern |-> 1, extended |-> TRUE, tr |-> FALSE, guard |-> "1/4"]

(* What L1-pre may say: the modes that the tables know.                    *)
Signals ==
  {s \in [pattern : 1..8, extended : IF level > 3 THEN BOOLEAN ELSE {FALSE},
          tr : BOOLEAN, guard : Guards] :
     cells[level][Mode(s)].c_data[s.pattern] # 0}

Init ==
  /\ level \in Levels /\ miso \in BOOLEAN
  /\ signal = P2Signal /\ stage = "address"
  /\ i = 0 /\ lfsr = 0 /\ idx_symbol = 0
  /\ pilots = {} /\ tones = {}

(* init_dvbt2(): the addresses, then the map of P2.                        *)
InitP2 ==
  /\ stage = "address" /\ i + 1 = max_states
  /\ stage' = "p2" /\ i' = 0 /\ lfsr' = 0
  /\ pilots' = P2Pilots(signal) /\ tones' = P2Tones(signal)
  /\ UNCHANGED <<level, miso, signal, idx_symbol>>

(* L1-pre is decoded: data_generator(), its first turn, ...                *)
InitData ==
  /\ stage = "p2" /\ stage' = "data"
  /\ signal' \in Signals
  /\ DataSymbol(signal', n_p2)
  /\ UNCHANGED <<level, miso, i, lfsr>>

(* ... the other turns, ...                                                *)
NextData ==
  /\ stage = "data"
  /\ idx_symbol + 1 < len_frame(signal) - l_fc(signal)
  /\ DataSymbol(signal, idx_symbol + 1)
  /\ UNCHANGED <<level, miso, signal, stage, i, lfsr>>

(* ... and the frame closing symbol, if frames have one.                   *)
InitFc ==
  /\ stage = "data" /\ l_fc(signal) = 1
  /\ idx_symbol + 2 = len_frame(signal)
  /\ stage' = "fc" /\ idx_symbol' = idx_symbol + 1
  /\ fc_carrier_mapping(signal)
  /\ UNCHANGED <<level, miso, signal, i, lfsr>>

Next == NextAddress \/ InitP2 \/ InitData \/ NextData \/ InitFc

Spec == Init /\ [][Next]_vars

----------------------------------------------------------------------------
Made == stage # "address"

(* No map is written outside its array.                                    *)
TypeOK ==
  /\ level \in 1..6 /\ miso \in BOOLEAN
  /\ signal \in Signals \cup {P2Signal}
  /\ stage \in {"address", "p2", "data", "fc"}
  /\ i \in 0..max_states - 1 /\ lfsr \in 0..pn_mask
  /\ idx_symbol \in 0..len_frame(signal)
  /\ pilots \cup tones \subseteq Carriers(signal)

(***************************************************************************)
(* Every address is used once, so that no cell of a symbol is lost or put  *)
(* over another: behind its two zeros the register goes through all        *)
(* 2^pn_degree - 1 other values before it is back at 1, which is an odd    *)
(* number, so that the even turns (the lower half of the addresses) and    *)
(* the odd turns (the upper half) each meet every value once, and the bits *)
(* are only permuted.                                                      *)
(***************************************************************************)
Permutes(b) == {b[k] : k \in 1..Len(b)} = 0..pn_degree - 1

AddressesOnce ==
  /\ i >= 2 => (lfsr = 1 <=> (i - 2) % pn_mask = 0)
  /\ Permutes(bitperm_even[level]) /\ Permutes(bitperm_odd[level])

(***************************************************************************)
(* A symbol has as many data cells as the table of addresses and the       *)
(* buffers made for it (data_symbol.cpp, p2_symbol.cpp and fc_symbol.cpp   *)
(* count cells by the map, and never look at the size).  It holds but for  *)
(* 16K extended with PP1: pp1_16k says 3636 where the other tables have    *)
(* 13636.  Carrier 3636 is a scattered pilot in one symbol of four anyway; *)
(* these symbols have a cell too many, for which no address was ever set,  *)
(* and in the others the cells between the two carriers are out by one.    *)
(***************************************************************************)
Size ==
  CASE stage = "p2" -> c_p2
    [] stage = "data" -> c_data(signal)
    [] stage = "fc" -> n_fc(signal)

Misprinted ==
  /\ level = 5 /\ stage = "data" /\ signal.extended /\ signal.pattern = 1
  /\ 3636 \in sp_mappinng(signal, idx_symbol)

CellsFit ==
  Made => k_total(signal) - Cardinality(pilots \cup tones)
            = Size + (IF Misprinted THEN 1 ELSE 0)

(***************************************************************************)
(* Cells wait for the pilot behind them in a buffer of fixed size          *)
(* (buffer_cell[14] and [64]): there is always a pilot in time, and one at *)
(* both ends, so that the first cell finds an estimate and the last one is *)
(* not left behind.                                                        *)
(***************************************************************************)
Room == IF stage = "p2" THEN 14 ELSE 64

PilotInTime ==
  Made => /\ Edges(signal) \subseteq pilots
          /\ stage # "data" =>
               \A p \in pilots \ {k_total(signal) - 1} :
                 \E q \in p + 1..p + Room + 1 : q \in pilots
=============================================================================
