------------------------ MODULE DecoderChainProofs ------------------------
(* Proofs about DecoderChain, for every width of a batch.                  *)
EXTENDS DecoderChain, SequenceTheorems, Arithmetic

(***************************************************************************)
(* No constellation writes beyond its batch: where the next word goes is   *)
(* never ahead of the count, even in QPSK, where it may be behind.         *)
(***************************************************************************)
SlotInv ==
  /\ \A m \in Mods : out[m].slot <= blocks[m]
  /\ bch_fec.slot = 0

LEMMA Ranges ==
  /\ 0 \in Ids /\ 0 \in Slots
  /\ \A i : i \in Slots <=> i \in Int /\ 0 <= i /\ i < Simd
  /\ \A k \in Int : k % Numbers \in 0..(Numbers - 1)
  BY ChainAssumption DEF Ids, Slots

LEMMA SlotRange ==
  ASSUME NEW i \in Int, 0 <= i, i < Simd
  PROVE  i \in Slots
  BY ChainAssumption DEF Slots

LEMMA SideType == \A swap : Side(swap) \in Sides
  BY DEF Side, Sides

LEMMA TypeInit == Init => TypeOK /\ SlotInv
<1>1. 0 \in 0..(Numbers - 1) /\ -1 \in -1..(Numbers - 1) /\ 0 \in 0..Simd /\ 0 \in 0..MaxFec
  BY ChainAssumption
<1> QED
  BY <1>1, Ranges DEF Init, TypeOK, SlotInv, Memory, Sides, Blank

(* What both actions that take in a code word do to the types.             *)
LEMMA WriteType ==
  ASSUME TypeOK, SlotInv, Write
  PROVE  /\ M \in Mods
         /\ plp_id' \in Ids /\ left' \in 0..MaxFec
         /\ idx_plp_simd' \in [Slots -> Ids]
         /\ buffer' \in [Sides -> [Slots -> Words \cup {Blank}]]
         /\ next' \in 0..(Numbers - 1)
         /\ UNCHANGED <<ldpc_swap, bch_fec, ldpc_buffer, bch_swap, bch_out, bch_buffer,
                        last, n, turn>>
<1>1. M \in Mods /\ blocks[M] \in Slots
  BY ChainAssumption DEF TypeOK, M
<1>2. out[M].side \in Sides /\ out[M].slot \in Slots
  BY <1>1 DEF TypeOK
<1>3. [plp |-> plp_id, n |-> next] \in Words
  BY DEF TypeOK, Words
<1>4. buffer' \in [Sides -> [Slots -> Words \cup {Blank}]]
  BY <1>2, <1>3 DEF TypeOK, Write
<1>5. idx_plp_simd' \in [Slots -> Ids]
  BY <1>1 DEF TypeOK, Write
<1>6. next' \in 0..(Numbers - 1)
  BY Ranges DEF TypeOK, Write
<1>7. left' \in 0..MaxFec
  BY ChainAssumption DEF TypeOK, Write
<1> QED
  BY <1>1, <1>4, <1>5, <1>6, <1>7 DEF TypeOK, Write, ldpcVars, bchVars

LEMMA TypeStep == TypeOK /\ SlotInv /\ [Next]_vars => TypeOK' /\ SlotInv'
<1> SUFFICES ASSUME TypeOK, SlotInv, [Next]_vars PROVE TypeOK' /\ SlotInv'
  OBVIOUS
<1>1. ASSUME NEW p \in Ids, NEW fecs \in 1..MaxFec, Execute(p, fecs)
      PROVE  TypeOK' /\ SlotInv'
  <2>1. idx_plp_simd' \in [Slots -> Ids] /\ Mod[p] \in Mods
    BY <1>1, ChainAssumption DEF TypeOK, Execute
  <2>2. [side |-> Side(swap_buffer), slot |-> 0] \in [side : Sides, slot : Slots]
    BY Ranges, SideType
  <2>3. out' \in [Mods -> [side : Sides, slot : Slots]]
    BY <1>1, <2>1, <2>2 DEF TypeOK, Execute
  <2>4. ASSUME NEW m \in Mods PROVE out'[m].slot <= blocks[m]
    <3>1. blocks[m] \in Slots /\ out[m].slot <= blocks[m]
      BY DEF TypeOK, SlotInv
    <3> QED
      BY <1>1, <2>1, <3>1, Ranges DEF TypeOK, Execute
  <2>5. left' \in 0..MaxFec
    BY <1>1, ChainAssumption DEF Execute
  <2> QED
    BY <1>1, <2>1, <2>3, <2>4, <2>5 DEF TypeOK, SlotInv, Execute, ldpcVars, bchVars
<1>2. CASE Demap
  <2> USE <1>2, WriteType DEF Demap
  <2>1. blocks[M] \in Slots /\ out[M].slot \in Slots /\ out[M].slot <= blocks[M]
    BY DEF TypeOK, SlotInv
  <2>2. blocks[M] + 1 \in Slots /\ out[M].slot + 1 \in Slots
    BY <2>1, Ranges, ChainAssumption
  <2>3. blocks' \in [Mods -> Slots] /\ out' \in [Mods -> [side : Sides, slot : Slots]]
    BY <2>2 DEF TypeOK
  <2>4. ASSUME NEW m \in Mods PROVE out'[m].slot <= blocks'[m]
    <3>1. CASE m = M
      BY <2>1, <3>1, Ranges DEF TypeOK
    <3>2. CASE m # M
      BY <3>2 DEF TypeOK, SlotInv
    <3> QED
      BY <3>1, <3>2
  <2> QED
    BY <2>3, <2>4 DEF TypeOK, SlotInv
<1>3. CASE DemapLast
  <2> USE <1>3, WriteType DEF DemapLast
  <2>1. blocks' \in [Mods -> Slots] /\ out' \in [Mods -> [side : Sides, slot : Slots]]
    BY Ranges, SideType DEF TypeOK, Count
  <2>2. ASSUME NEW m \in Mods PROVE out'[m].slot <= blocks'[m]
    <3>1. CASE m = M
      BY <3>1 DEF TypeOK, Count
    <3>2. CASE m # M
      BY <3>2 DEF TypeOK, SlotInv, Count
    <3> QED
      BY <3>1, <3>2
  <2>3. given' \in Sides /\ swap_buffer' \in BOOLEAN
    BY SideType DEF TypeOK
  <2> QED
    BY <2>1, <2>2, <2>3 DEF TypeOK, SlotInv
<1>4. CASE Return
  BY <1>4 DEF TypeOK, SlotInv, Return, demapVars, ldpcVars, bchVars
<1>5. CASE Decode
  <2>1. given \in Sides /\ bch_fec.slot = 0 /\ bch_fec.side \in Sides
    BY DEF TypeOK, SlotInv
  <2>2. ASSUME NEW s \in Slots PROVE buffer[given][s - bch_fec.slot] \in Words \cup {Blank}
    BY <2>1, Ranges DEF TypeOK
  <2>3. ldpc_buffer' \in [Sides -> [Slots -> Words \cup {Blank}]]
    BY <1>5, <2>1, <2>2, Ranges DEF TypeOK, Decode, Put
  <2>4. bch_fec' \in [side : Sides, slot : 0..Simd] /\ bch_fec'.slot = 0 /\ given' \in Sides
    BY <1>5, SideType, ChainAssumption DEF Decode
  <2> QED
    BY <1>5, <2>3, <2>4, Ranges DEF TypeOK, SlotInv, Decode, demapVars, bchVars
<1>6. CASE Fail
  <2>1. turn + Simd \in Int
    BY ChainAssumption DEF TypeOK
  <2>2. turn' \in 0..(Numbers - 1)
    BY <1>6, <2>1, Ranges DEF Fail
  <2> QED
    BY <1>6, <2>2 DEF TypeOK, SlotInv, Fail, Reject, demapVars, ldpcVars, bchVars
<1>7. CASE HandOn
  <2>1. ldpc_buffer[given][n] \in Words \cup {Blank}
    BY DEF TypeOK
  <2>2. bch_buffer' \in [Sides -> Words \cup {Blank}] /\ bch_out' \in Sides
    BY <1>7, <2>1, SideType DEF TypeOK, HandOn, Descramble
  <2>3. bch_buffer'[Side(bch_swap)].n \in -1..(Numbers - 1)
    BY <2>2, SideType, ChainAssumption DEF Words, Blank
  <2>4. last' \in [plp : Ids \cup {-1}, n : -1..(Numbers - 1)]
    BY <1>7, <2>3 DEF TypeOK, HandOn
  <2>5. n' \in Slots
    BY <1>7, Ranges DEF TypeOK, HandOn
  <2>6. turn + 1 \in Int
    BY ChainAssumption DEF TypeOK
  <2>7. turn' \in 0..(Numbers - 1)
    BY <1>7, <2>6, Ranges DEF HandOn
  <2> QED
    BY <1>7, <2>2, <2>4, <2>5, <2>7 DEF TypeOK, SlotInv, HandOn, demapVars, ldpcVars
<1>8. CASE UNCHANGED vars
  BY <1>8 DEF TypeOK, SlotInv, vars, demapVars, ldpcVars, bchVars
<1> QED
  BY <1>1, <1>2, <1>3, <1>4, <1>5, <1>6, <1>7, <1>8 DEF Next

(* The counts, pointers and flags of all three stages stay in their        *)
(* ranges, whatever PLPs of whatever constellations come.                  *)
THEOREM TypeCorrect == Spec => []TypeOK
  BY TypeInit, TypeStep, PTL DEF Spec

----------------------------------------------------------------------------
(* Batches as sequences.                                                   *)

Entries == [plp : Ids, n : Int]

Memories == [Slots -> Words \cup {Blank}]

Entry(memory, ids, s) == [plp |-> ids[s], n |-> memory[s].n]

LEMMA EntryType ==
  ASSUME NEW memory \in Memories, NEW ids \in [Slots -> Ids], NEW s \in Slots
  PROVE  Entry(memory, ids, s) \in Entries
<1>1. memory[s].n \in Int
  BY ChainAssumption DEF Memories, Words, Blank
<1> QED
  BY <1>1 DEF Entry, Entries

LEMMA ContentsSeq ==
  ASSUME NEW memory \in Memories, NEW ids \in [Slots -> Ids],
         NEW from \in 0..Simd, NEW to \in from..Simd
  PROVE  LET c == Contents(memory, ids, from, to)
         IN  /\ c \in Seq(Entries) /\ Len(c) = to - from
             /\ \A i \in 1..(to - from) : c[i] = Entry(memory, ids, from + i - 1)
<1> DEFINE c == Contents(memory, ids, from, to)
<1>1. to - from \in Nat
  BY ChainAssumption
<1>2. ASSUME NEW i \in 1..(to - from) PROVE Entry(memory, ids, from + i - 1) \in Entries
  <2>1. from + i - 1 \in Slots
    BY SlotRange, ChainAssumption
  <2> QED
    BY <2>1, EntryType
<1>3. c = [i \in 1..(to - from) |-> Entry(memory, ids, from + i - 1)]
  BY DEF Contents, Entry
<1>4. c \in [1..(to - from) -> Entries]
  BY <1>2, <1>3
<1> HIDE DEF c
<1>5. c \in Seq(Entries)
  BY <1>1, <1>4, SeqDef
<1>6. Len(c) = to - from
  BY <1>1, <1>4, <1>5, LenProperties
<1> QED
  BY <1>3, <1>5, <1>6 DEF c

LEMMA ContentsEmpty ==
  ASSUME NEW memory \in Memories, NEW ids \in [Slots -> Ids], NEW k \in 0..Simd
  PROVE  Contents(memory, ids, k, k) = <<>>
<1>1. k \in k..Simd
  BY ChainAssumption
<1>2. /\ Contents(memory, ids, k, k) \in Seq(Entries)
      /\ Len(Contents(memory, ids, k, k)) = 0
  BY <1>1, ContentsSeq, ChainAssumption
<1> QED
  BY <1>2, EmptySeq

(* Two batches with the same PLPs and numbers are the same.                *)
LEMMA ContentsSame ==
  ASSUME NEW memory1 \in Memories, NEW memory2 \in Memories, NEW ids \in [Slots -> Ids],
         NEW from \in 0..Simd, NEW to \in from..Simd,
         \A s \in Slots : memory1[s].n = memory2[s].n
  PROVE  Contents(memory1, ids, from, to) = Contents(memory2, ids, from, to)
<1>1. ASSUME NEW i \in 1..(to - from) PROVE memory1[from + i - 1].n = memory2[from + i - 1].n
  <2>1. from + i - 1 \in Slots
    BY SlotRange, ChainAssumption
  <2> QED
    BY <2>1
<1> QED
  BY <1>1 DEF Contents

(* A word more at the end.                                                 *)
LEMMA ContentsAppend ==
  ASSUME NEW memory1 \in Memories, NEW memory2 \in Memories,
         NEW ids1 \in [Slots -> Ids], NEW ids2 \in [Slots -> Ids], NEW k \in Slots,
         \A s \in Slots : s < k => memory1[s] = memory2[s] /\ ids1[s] = ids2[s]
  PROVE  Contents(memory2, ids2, 0, k + 1)
           = Append(Contents(memory1, ids1, 0, k), Entry(memory2, ids2, k))
<1> DEFINE c1 == Contents(memory1, ids1, 0, k)
           c2 == Contents(memory2, ids2, 0, k + 1)
           e  == Entry(memory2, ids2, k)
<1>1. /\ k \in Nat /\ 0 \in 0..Simd /\ k \in 0..Simd /\ k + 1 \in 0..Simd
  BY ChainAssumption DEF Slots
<1>2. /\ c1 \in Seq(Entries) /\ Len(c1) = k
      /\ \A i \in 1..k : c1[i] = Entry(memory1, ids1, i - 1)
  <2>1. /\ c1 \in Seq(Entries) /\ Len(c1) = k - 0
        /\ \A i \in 1..(k - 0) : c1[i] = Entry(memory1, ids1, 0 + i - 1)
    BY <1>1, ContentsSeq
  <2> QED
    BY <1>1, <2>1
<1>3. /\ c2 \in Seq(Entries) /\ Len(c2) = k + 1
      /\ \A i \in 1..(k + 1) : c2[i] = Entry(memory2, ids2, i - 1)
  <2>1. /\ c2 \in Seq(Entries) /\ Len(c2) = (k + 1) - 0
        /\ \A i \in 1..((k + 1) - 0) : c2[i] = Entry(memory2, ids2, 0 + i - 1)
    BY <1>1, ContentsSeq
  <2> QED
    BY <1>1, <2>1
<1>4. e \in Entries
  BY EntryType
<1>5. ASSUME NEW i \in 1..k PROVE c1[i] = c2[i]
  <2>1. i - 1 \in Slots /\ i - 1 < k
    BY <1>1, SlotRange, ChainAssumption DEF Slots
  <2>2. i \in 1..(k + 1)
    BY <1>1
  <2> QED
    BY <1>2, <1>3, <2>1, <2>2 DEF Entry
<1>6. c2[k + 1] = e
  BY <1>1, <1>3
<1> HIDE DEF c1, c2, e
<1>7. /\ Append(c1, e) \in Seq(Entries) /\ Len(Append(c1, e)) = k + 1
      /\ \A i \in 1..k : Append(c1, e)[i] = c1[i]
      /\ Append(c1, e)[k + 1] = e
  BY <1>1, <1>2, <1>4
<1>8. ASSUME NEW i \in 1..(k + 1) PROVE c2[i] = Append(c1, e)[i]
  BY <1>1, <1>5, <1>6, <1>7
<1>9. c2 = Append(c1, e)
  BY <1>1, <1>3, <1>7, <1>8, SeqEqual
<1> QED
  BY <1>9 DEF c1, c2, e

(* The first word off.                                                     *)
LEMMA ContentsTail ==
  ASSUME NEW memory \in Memories, NEW ids \in [Slots -> Ids], NEW k \in Slots
  PROVE  LET c == Contents(memory, ids, k, Simd)
         IN  /\ Head(c) = Entry(memory, ids, k)
             /\ Tail(c) = Contents(memory, ids, k + 1, Simd)
             /\ Len(c) = Simd - k
<1> DEFINE c == Contents(memory, ids, k, Simd)
           d == Contents(memory, ids, k + 1, Simd)
<1>1. /\ k \in Nat /\ k \in 0..Simd /\ k + 1 \in 0..Simd /\ Simd - k \in Nat \ {0}
      /\ Simd \in k..Simd /\ Simd \in (k + 1)..Simd
  BY ChainAssumption DEF Slots
<1>2. /\ c \in Seq(Entries) /\ Len(c) = Simd - k
      /\ \A i \in 1..(Simd - k) : c[i] = Entry(memory, ids, k + i - 1)
  BY <1>1, ContentsSeq
<1>3. /\ d \in Seq(Entries) /\ Len(d) = Simd - (k + 1)
      /\ \A i \in 1..(Simd - (k + 1)) : d[i] = Entry(memory, ids, k + 1 + i - 1)
  BY <1>1, ContentsSeq
<1>4. c[1] = Entry(memory, ids, k)
  BY <1>1, <1>2
<1>5. ASSUME NEW i \in 1..(Simd - (k + 1)) PROVE d[i] = c[i + 1]
  <2>1. i + 1 \in 1..(Simd - k) /\ k + 1 + i - 1 = k + (i + 1) - 1
    BY <1>1, ChainAssumption
  <2> QED
    BY <1>2, <1>3, <2>1
<1> HIDE DEF c, d
<1>6. /\ Tail(c) \in Seq(Entries) /\ Len(Tail(c)) = Simd - (k + 1)
      /\ \A i \in 1..(Simd - (k + 1)) : Tail(c)[i] = c[i + 1]
  BY <1>1, <1>2, ChainAssumption
<1>7. Tail(c) = d
  BY <1>3, <1>5, <1>6, SeqEqual
<1> QED
  BY <1>1, <1>2, <1>4, <1>7 DEF c, d

----------------------------------------------------------------------------
(* The chain is a queue when all PLPs have one constellation, not QPSK,    *)
(* and the local array outlives the call.                                  *)

OneConstellation == Mod[0] # "QPSK" /\ \A p \in Ids : Mod[p] = Mod[0]

(***************************************************************************)
(* Flags, pointers and counts of the three stages, at every place in the   *)
(* code: while a batch is begun or a call served, the next word goes       *)
(* behind those of the batch, on the side that will be handed over; while  *)
(* a stage behind works there is no batch begun.                           *)
(***************************************************************************)
BatchInv ==
  /\ \A m \in Mods : m # Mod[0] => blocks[m] = 0
  /\ pc # "idle" \/ blocks[Mod[0]] > 0 =>
       out[Mod[0]] = [side |-> Side(swap_buffer), slot |-> blocks[Mod[0]]]
  /\ pc \in {"ldpc", "bch"} => blocks[Mod[0]] = 0
  /\ bch_fec = [side |-> Side(ldpc_swap), slot |-> 0]
  /\ bch_out = Side(bch_swap)

LEMMA BatchInit == Init => BatchInv
  BY ChainAssumption, Ranges DEF Init, BatchInv, Side

LEMMA BatchStep ==
  ASSUME OneConstellation
  PROVE  TypeOK /\ BatchInv /\ [Next]_vars => BatchInv'
<1> SUFFICES ASSUME TypeOK, BatchInv, [Next]_vars PROVE BatchInv'
  OBVIOUS
<1>m. Mod[0] \in Mods /\ M = Mod[0] /\ blocks[Mod[0]] \in Nat
  BY ChainAssumption, Ranges DEF OneConstellation, TypeOK, M, Slots
<1>1. ASSUME NEW p \in Ids, NEW fecs \in 1..MaxFec, Execute(p, fecs) PROVE BatchInv'
  <2>1. Mod[p] = Mod[0] /\ (FirstSlot(Mod[p]) <=> blocks[Mod[0]] = 0)
    BY DEF OneConstellation, FirstSlot
  <2>2. out'[Mod[0]] = [side |-> Side(swap_buffer), slot |-> blocks[Mod[0]]]
    <3>1. CASE blocks[Mod[0]] = 0
      BY <1>1, <1>m, <2>1, <3>1 DEF TypeOK, Execute
    <3>2. CASE blocks[Mod[0]] # 0
      BY <1>1, <1>m, <2>1, <3>2 DEF BatchInv, Execute
    <3> QED
      BY <3>1, <3>2
  <2> QED
    BY <1>1, <2>2 DEF BatchInv, Execute, ldpcVars, bchVars
<1>2. CASE Demap
  <2> USE <1>2, <1>m DEF Demap, Write
  <2>1. out'[Mod[0]] = [side |-> Side(swap_buffer), slot |-> blocks'[Mod[0]]]
    <3>1. out[Mod[0]] = [side |-> Side(swap_buffer), slot |-> blocks[Mod[0]]]
      BY DEF BatchInv
    <3>2. out'[Mod[0]] = [out[Mod[0]] EXCEPT !.slot = @ + 1]
      BY DEF TypeOK
    <3>3. blocks'[Mod[0]] = blocks[Mod[0]] + 1
      BY DEF TypeOK
    <3> QED
      BY ONLY <3>1, <3>2, <3>3
  <2>2. \A m \in Mods : m # Mod[0] => blocks'[m] = 0
    BY DEF TypeOK, BatchInv
  <2> QED
    BY <2>1, <2>2 DEF BatchInv, ldpcVars, bchVars
<1>3. CASE DemapLast
  <2> USE <1>3, <1>m DEF DemapLast, Write, Count
  <2>1. /\ blocks'[Mod[0]] = 0
        /\ out'[Mod[0]] = [side |-> Side(swap_buffer'), slot |-> blocks'[Mod[0]]]
    BY DEF TypeOK
  <2>2. \A m \in Mods : m # Mod[0] => blocks'[m] = 0
    BY DEF TypeOK, BatchInv
  <2> QED
    BY <2>1, <2>2 DEF BatchInv, ldpcVars, bchVars
<1>4. CASE Return
  BY <1>4 DEF BatchInv, Return, demapVars, ldpcVars, bchVars
<1>5. CASE Decode
  BY <1>5 DEF BatchInv, Decode, demapVars, bchVars
<1>6. CASE Fail
  BY <1>6 DEF BatchInv, Fail, Reject, demapVars, ldpcVars, bchVars
<1>7. CASE HandOn
  BY <1>7 DEF BatchInv, HandOn, demapVars, ldpcVars
<1>8. CASE UNCHANGED vars
  BY <1>8 DEF BatchInv, vars, demapVars, ldpcVars, bchVars
<1> QED
  BY <1>1, <1>2, <1>3, <1>4, <1>5, <1>6, <1>7, <1>8 DEF Next

(* The word that comes in goes behind those of the batch.                  *)
LEMMA Written ==
  ASSUME OneConstellation, TypeOK, TypeOK', SlotInv, BatchInv, Write
  PROVE  LET k == blocks[Mod[0]]
             side == Side(swap_buffer)
             w == [plp |-> plp_id, n |-> next]
         IN  /\ w \in Words
             /\ Contents(buffer'[side], idx_plp_simd', 0, k + 1)
                  = Append(Contents(buffer[side], idx_plp_simd, 0, k), w)
<1> DEFINE k == blocks[Mod[0]]
           side == Side(swap_buffer)
           w == [plp |-> plp_id, n |-> next]
<1>1. Mod[0] \in Mods /\ M = Mod[0] /\ k \in Slots /\ side \in Sides
  BY ChainAssumption, Ranges, SideType DEF OneConstellation, TypeOK, M
<1>2. w \in Words
  BY DEF TypeOK, Words
<1>3. out[M].side = side /\ out[M].slot = k
  BY <1>1 DEF Write, BatchInv
<1>4. /\ buffer'[side][k] = w
      /\ \A s \in Slots : s < k => buffer'[side][s] = buffer[side][s]
  BY <1>1, <1>3, Ranges DEF Write, TypeOK
<1>5. /\ idx_plp_simd'[k] = plp_id
      /\ \A s \in Slots : s < k => idx_plp_simd'[s] = idx_plp_simd[s]
  BY <1>1, Ranges DEF Write, TypeOK
<1>6. Entry(buffer'[side], idx_plp_simd', k) = w
  BY <1>4, <1>5 DEF Entry
<1>7. /\ buffer[side] \in Memories /\ buffer'[side] \in Memories
      /\ idx_plp_simd \in [Slots -> Ids] /\ idx_plp_simd' \in [Slots -> Ids]
  BY <1>1 DEF TypeOK, Memories
<1> HIDE DEF k, side, w
<1>8. \A s \in Slots : s < k => /\ buffer[side][s] = buffer'[side][s]
                                 /\ idx_plp_simd[s] = idx_plp_simd'[s]
  BY <1>4, <1>5
<1>9. Contents(buffer'[side], idx_plp_simd', 0, k + 1)
        = Append(Contents(buffer[side], idx_plp_simd, 0, k), w)
  BY <1>1, <1>6, <1>7, <1>8, ContentsAppend
<1> QED
  BY <1>2, <1>9 DEF k, side, w

LEMMA StepRefines ==
  ASSUME OneConstellation, Kept
  PROVE  /\ TypeOK /\ TypeOK' /\ SlotInv /\ BatchInv /\ BatchInv' /\ [Next]_vars
           => [Queue!Next]_<<Waiting, Turn, last>>
<1> SUFFICES ASSUME TypeOK, TypeOK', SlotInv, BatchInv, BatchInv', [Next]_vars
             PROVE  [Queue!Next]_<<Waiting, Turn, last>>
  OBVIOUS
<1>m. Mod[0] \in Mods /\ M = Mod[0] /\ M' = Mod[0] /\ blocks[Mod[0]] \in Slots
  BY ChainAssumption, Ranges DEF OneConstellation, TypeOK, M
<1>t. /\ \A side \in Sides : buffer[side] \in Memories /\ buffer'[side] \in Memories
      /\ \A side \in Sides : ldpc_buffer[side] \in Memories /\ ldpc_buffer'[side] \in Memories
      /\ idx_plp_simd \in [Slots -> Ids] /\ idx_plp_simd' \in [Slots -> Ids]
      /\ given \in Sides /\ given' \in Sides
  BY DEF TypeOK, Memories
<1>r. 0 \in 0..Simd /\ Simd \in 0..Simd /\ Simd \in Nat \ {0} /\ 0 \in Slots
  BY ChainAssumption, Ranges
<1>1. ASSUME NEW p \in Ids, NEW fecs \in 1..MaxFec, Execute(p, fecs)
      PROVE  UNCHANGED <<Waiting, Turn, last>>
  BY <1>1, <1>m DEF Execute, Waiting, Turn, bchVars
<1>2. ASSUME Demap PROVE Queue!Next
  <2>1. Waiting = Contents(buffer[Side(swap_buffer)], idx_plp_simd, 0, blocks[Mod[0]])
    BY <1>2, <1>m DEF Demap, Write, Waiting
  <2>2. Waiting' = Contents(buffer'[Side(swap_buffer)], idx_plp_simd', 0, blocks[Mod[0]] + 1)
    BY <1>2, <1>m DEF Demap, Write, Waiting, TypeOK
  <2>3. Write /\ UNCHANGED <<Turn, last>>
    BY <1>2 DEF Demap, Write, Turn, bchVars
  <2> QED
    BY <2>1, <2>2, <2>3, Written DEF Queue!Next, Queue!Put
<1>3. ASSUME DemapLast PROVE Queue!Next
  <2>1. Waiting = Contents(buffer[Side(swap_buffer)], idx_plp_simd, 0, blocks[Mod[0]])
    BY <1>3, <1>m DEF DemapLast, Write, Waiting
  <2>2. Waiting' = Contents(buffer'[Side(swap_buffer)], idx_plp_simd', 0, blocks[Mod[0]] + 1)
    BY <1>3, <1>m DEF DemapLast, Waiting
  <2>3. Write /\ UNCHANGED <<Turn, last>>
    BY <1>3 DEF DemapLast, Write, Turn, bchVars
  <2> QED
    BY <2>1, <2>2, <2>3, Written DEF Queue!Next, Queue!Put
<1>4. ASSUME Return PROVE UNCHANGED <<Waiting, Turn, last>>
  BY <1>4, <1>m DEF Return, Waiting, Turn, demapVars, bchVars
<1>5. ASSUME Decode PROVE UNCHANGED <<Waiting, Turn, last>>
  <2>1. ASSUME NEW s \in Slots PROVE ldpc_buffer'[given'][s].n = buffer[given][s].n
    <3>1. s >= 0 /\ s - 0 = s /\ bch_fec.slot = 0 /\ bch_fec.side = given'
      BY <1>5, Ranges DEF Decode, BatchInv
    <3>2. ldpc_buffer'[given'] = [i \in Slots |-> IF i >= 0 THEN buffer[given][i - 0]
                                                  ELSE ldpc_buffer[given'][i]]
      BY <1>5, <1>t, <3>1 DEF Decode, Put, TypeOK
    <3> QED
      BY <3>1, <3>2
  <2>2. /\ Waiting = Contents(buffer[given], idx_plp_simd, 0, Simd)
        /\ Waiting' = Contents(ldpc_buffer'[given'], idx_plp_simd, 0, Simd)
    BY <1>5 DEF Decode, Waiting, demapVars
  <2>3. Waiting = Waiting'
    BY <1>t, <1>r, <2>1, <2>2, ContentsSame
  <2> QED
    BY <1>5, <2>3 DEF Decode, Turn, bchVars
<1>6. ASSUME Fail PROVE Queue!Next
  <2>1. Waiting = Contents(buffer[given], idx_plp_simd, 0, Simd)
    BY <1>6 DEF Fail, Waiting
  <2>2. Waiting \in Seq(Entries) /\ Len(Waiting) = Simd
    <3>1. /\ buffer[given] \in Memories /\ idx_plp_simd \in [Slots -> Ids]
          /\ 0 \in 0..Simd /\ Simd \in 0..Simd /\ Simd - 0 = Simd
      BY <1>t, <1>r
    <3>2. /\ Contents(buffer[given], idx_plp_simd, 0, Simd) \in Seq(Entries)
          /\ Len(Contents(buffer[given], idx_plp_simd, 0, Simd)) = Simd - 0
      BY <3>1, ContentsSeq
    <3> QED
      BY <2>1, <3>1, <3>2
  <2>3. Waiting' = Contents(buffer'[Side(swap_buffer')], idx_plp_simd', 0, 0)
    BY <1>6, <1>m DEF Fail, Waiting, BatchInv, demapVars
  <2>4. Waiting' = <<>>
    BY <1>t, <1>r, <2>3, SideType, ContentsEmpty
  <2>5. SubSeq(Waiting, Simd + 1, Len(Waiting)) = <<>>
    BY <1>r, <2>2
  <2>6. Turn = 0 /\ Turn' = 0 /\ last' = last
    BY <1>6 DEF Fail, Turn, bchVars
  <2> QED
    BY <1>r, <2>2, <2>4, <2>5, <2>6 DEF Queue!Next, Queue!Lose
<1>7. ASSUME HandOn PROVE Queue!Next
  <2>1. Waiting = Contents(ldpc_buffer[given], idx_plp_simd, n, Simd) /\ Turn = n /\ n \in Slots
    BY <1>7 DEF HandOn, Waiting, Turn, TypeOK
  <2>2. /\ Head(Waiting) = Entry(ldpc_buffer[given], idx_plp_simd, n)
        /\ Tail(Waiting) = Contents(ldpc_buffer[given], idx_plp_simd, n + 1, Simd)
        /\ Len(Waiting) = Simd - n
    BY <1>t, <2>1, ContentsTail
  <2>3. last' = Head(Waiting)
    <3>1. bch_buffer'[Side(bch_swap)] = ldpc_buffer[given][n]
      BY <1>7, SideType DEF HandOn, Descramble, BatchInv, TypeOK
    <3> QED
      BY <1>7, <2>2, <3>1 DEF HandOn, Entry
  <2>4. Waiting' = Tail(Waiting) /\ Turn' = (Turn + 1) % Simd
    <3>1. CASE n + 1 < Simd
      <4>1. Waiting' = Contents(ldpc_buffer[given], idx_plp_simd, n + 1, Simd) /\ Turn' = n + 1
        BY <1>7, <3>1 DEF HandOn, Waiting, Turn, demapVars, ldpcVars
      <4>2. (n + 1) % Simd = n + 1
        BY <1>r, <2>1, <3>1, Ranges
      <4> QED
        BY <2>1, <2>2, <4>1, <4>2
    <3>2. CASE ~(n + 1 < Simd)
      <4>1. n + 1 = Simd
        BY <1>r, <2>1, <3>2, Ranges
      <4>2. Waiting' = Contents(buffer'[Side(swap_buffer')], idx_plp_simd', 0, 0) /\ Turn' = 0
        BY <1>7, <1>m, <3>2 DEF HandOn, Waiting, Turn, BatchInv, demapVars
      <4>3. Waiting' = <<>>
        BY <1>t, <1>r, <4>2, SideType, ContentsEmpty
      <4>4. Contents(ldpc_buffer[given], idx_plp_simd, n + 1, Simd) = <<>>
        BY <1>t, <1>r, <4>1, ContentsEmpty
      <4>5. Simd % Simd = 0
        BY <1>r
      <4> QED
        BY <2>1, <2>2, <4>1, <4>2, <4>3, <4>4, <4>5
    <3> QED
      BY <3>1, <3>2
  <2>5. Turn + Len(Waiting) >= Simd
    BY <1>r, <2>1, <2>2, Ranges
  <2> QED
    BY <2>3, <2>4, <2>5 DEF Queue!Next, Queue!Hand
<1>8. ASSUME UNCHANGED vars PROVE UNCHANGED <<Waiting, Turn, last>>
  BY <1>8, <1>m DEF vars, Waiting, Turn, demapVars, ldpcVars, bchVars
<1> QED
  BY <1>1, <1>2, <1>3, <1>4, <1>5, <1>6, <1>7, <1>8 DEF Next

LEMMA InitRefines == Init => Queue!Init
<1> SUFFICES ASSUME Init PROVE Queue!Init
  OBVIOUS
<1>1. TypeOK /\ 0 \in 0..Simd
  BY TypeInit, ChainAssumption
<1>2. Waiting = Contents(buffer["a"], idx_plp_simd, 0, 0)
  BY ChainAssumption, Ranges DEF Init, Waiting, Side, M
<1>3. Waiting = <<>>
  BY <1>1, <1>2, ContentsEmpty DEF TypeOK, Memories, Sides
<1> QED
  BY <1>3 DEF Init, Turn, Queue!Init

(* For every width of a batch and any number of PLPs of one constellation, *)
(* the three stages hand on what comes in, in order and each word under    *)
(* its own PLP, and lose nothing but whole batches.                        *)
THEOREM Implements ==
  ASSUME OneConstellation, Kept
  PROVE  Spec => CodeWordsSpec
<1>1. TypeOK /\ BatchInv /\ [Next]_vars => BatchInv'
  BY BatchStep
<1>2. /\ TypeOK /\ TypeOK' /\ SlotInv /\ BatchInv /\ BatchInv' /\ [Next]_vars
        => [Queue!Next]_<<Waiting, Turn, last>>
  BY StepRefines
<1> QED
  BY <1>1, <1>2, TypeInit, TypeStep, BatchInit, InitRefines, PTL DEF Spec, CodeWordsSpec, Queue!Spec

(* Under the same conditions the flags and pointers of the stages agree.   *)
THEOREM PointersAgreeHolds ==
  ASSUME OneConstellation
  PROVE  Spec => []PointersAgree
<1>1. TypeOK /\ BatchInv /\ [Next]_vars => BatchInv'
  BY BatchStep
<1>2. TypeOK /\ BatchInv => PointersAgree
  BY DEF BatchInv, PointersAgree
<1> QED
  BY <1>1, <1>2, TypeInit, TypeStep, BatchInit, PTL DEF Spec
----------------------------------------------------------------------------
(* The words inside follow each other, and the first of them is the one    *)
(* whose turn it is.                                                       *)

Inside ==
  CASE pc = "ldpc" -> Simd
    [] pc = "bch" -> Simd - n
    [] pc \in {"idle", "demap"} -> blocks[Mod[0]]

(* Word k after the one whose turn it is.                                  *)
Nth(k) == (turn + k) % Numbers

OrderInv ==
  /\ next = Nth(Inside)
  /\ pc \in {"idle", "demap"} =>
       \A s \in Slots : s < blocks[Mod[0]] => buffer[Side(swap_buffer)][s].n = Nth(s)
  /\ pc = "ldpc" => \A s \in Slots : buffer[given][s].n = Nth(s)
  /\ pc = "bch" => \A s \in Slots : s >= n => ldpc_buffer[given][s].n = Nth(s - n)
  /\ InTurn

(* What comes k words after one that comes a words after number t.         *)
LEMMA Counted ==
  ASSUME NEW t \in 0..(Numbers - 1), NEW a \in Nat, NEW k \in Nat
  PROVE  (((t + a) % Numbers) + k) % Numbers = (t + (a + k)) % Numbers
<1>1. t + a \in Nat /\ Numbers \in Nat \ {0} /\ (t + a) + k = t + (a + k)
  BY ChainAssumption
<1>2. (((t + a) % Numbers) + k) % Numbers = ((t + a) + k) % Numbers
  BY <1>1, Modulo
<1> QED
  BY <1>1, <1>2

LEMMA CountedNone ==
  ASSUME NEW t \in 0..(Numbers - 1)
  PROVE  (t + 0) % Numbers = t
<1>1. t + 0 = t /\ Numbers \in Nat \ {0}
  BY ChainAssumption
<1> QED
  BY <1>1, Small

(* The number before the one that follows t.                               *)
LEMMA CountedBack ==
  ASSUME NEW t \in 0..(Numbers - 1)
  PROVE  (((t + 1) % Numbers) - 1) % Numbers = t
<1>1. Numbers \in Nat \ {0}
  BY ChainAssumption
<1>2. CASE t = Numbers - 1
  <2>1. (t + 1) % Numbers = 0
    <3>1. Numbers = 1 * Numbers + 0 /\ 0 \in 0..(Numbers - 1) /\ t + 1 = Numbers
      BY <1>1, <1>2
    <3> QED
      BY <1>1, <3>1, Quotient
  <2>2. (0 - 1) % Numbers = Numbers - 1
    <3>1. (0 - 1) % Numbers \in 0..(Numbers - 1)
      BY <1>1
    <3>2. 0 - 1 = ((0 - 1) \div Numbers) * Numbers + ((0 - 1) % Numbers)
      BY <1>1
    <3>3. (0 - 1) \div Numbers \in Int
      BY <1>1
    <3>4. (-1) * Numbers + (Numbers - 1) = 0 - 1 /\ Numbers - 1 \in 0..(Numbers - 1)
      BY <1>1
    <3> QED
      BY <1>1, <3>1, <3>2, <3>3, <3>4, Unique
  <2> QED
    BY <1>2, <2>1, <2>2
<1>3. CASE t # Numbers - 1
  <2>1. t + 1 \in 0..(Numbers - 1) /\ t + 1 - 1 = t
    BY <1>1, <1>3
  <2>2. (t + 1) % Numbers = t + 1 /\ t % Numbers = t
    BY <1>1, <2>1, Small
  <2> QED
    BY <2>1, <2>2
<1> QED
  BY <1>2, <1>3

LEMMA OrderInit == Init => OrderInv
<1> SUFFICES ASSUME Init PROVE OrderInv
  OBVIOUS
<1>1. Mod[0] \in Mods /\ 0 \in 0..(Numbers - 1)
  BY ChainAssumption, Ranges
<1>2. pc = "idle" /\ next = 0 /\ turn = 0 /\ blocks[Mod[0]] = 0
  BY <1>1 DEF Init
<1>3. Inside = 0
  BY <1>2 DEF Inside
<1>4. Nth(0) = 0
  BY <1>1, <1>2, CountedNone DEF Nth
<1>5. \A s \in Slots : ~(s < 0)
  BY Ranges
<1> QED
  BY <1>2, <1>3, <1>4, <1>5 DEF OrderInv, InTurn

(* The word that comes in continues the batch.                             *)
LEMMA OrderWrite ==
  ASSUME OneConstellation, TypeOK, BatchInv, OrderInv, Write
  PROVE  LET k == blocks[Mod[0]]
         IN  /\ next' = Nth(k + 1)
             /\ \A s \in Slots : s <= k => buffer'[Side(swap_buffer)][s].n = Nth(s)
<1> DEFINE k == blocks[Mod[0]]
           side == Side(swap_buffer)
<1>1. /\ Mod[0] \in Mods /\ M = Mod[0] /\ k \in Slots /\ side \in Sides /\ k \in Nat
      /\ turn \in 0..(Numbers - 1)
  BY ChainAssumption, Ranges, SideType DEF OneConstellation, TypeOK, M, Slots
<1>2. out[M].side = side /\ out[M].slot = k
  BY <1>1 DEF Write, BatchInv
<1>3. next = Nth(k) /\ \A s \in Slots : s < k => buffer[side][s].n = Nth(s)
  BY DEF Write, OrderInv, Inside
<1>4. /\ buffer'[side][k].n = next
      /\ \A s \in Slots : s # k => buffer'[side][s] = buffer[side][s]
  BY <1>1, <1>2 DEF Write, TypeOK
<1>5. next' = (Nth(k) + 1) % Numbers
  BY <1>3 DEF Write
<1> HIDE DEF k, side
<1>6. next' = Nth(k + 1)
  BY <1>1, <1>5, Counted DEF Nth
<1>7. ASSUME NEW s \in Slots, s <= k PROVE buffer'[side][s].n = Nth(s)
  <2>1. s = k \/ (s < k /\ s # k)
    BY <1>1, <1>7, Ranges
  <2> QED
    BY <1>3, <1>4, <2>1
<1> QED
  BY <1>6, <1>7 DEF k, side
LEMMA OrderStep ==
  ASSUME OneConstellation
  PROVE  TypeOK /\ SlotInv /\ BatchInv /\ OrderInv /\ [Next]_vars => OrderInv'
<1> SUFFICES ASSUME TypeOK, SlotInv, BatchInv, OrderInv, [Next]_vars PROVE OrderInv'
  OBVIOUS
<1>m. /\ Mod[0] \in Mods /\ M = Mod[0] /\ blocks[Mod[0]] \in Slots
      /\ turn \in 0..(Numbers - 1) /\ n \in Slots /\ Simd \in Nat \ {0}
      /\ given \in Sides /\ blocks[Mod[0]] \in Nat /\ n \in Nat
  BY ChainAssumption, Ranges DEF OneConstellation, TypeOK, M, Slots
<1>1. ASSUME NEW p \in Ids, NEW fecs \in 1..MaxFec, Execute(p, fecs) PROVE OrderInv'
  BY <1>1 DEF Execute, OrderInv, Inside, Nth, InTurn, ldpcVars, bchVars
<1>2. CASE Demap
  <2>1. /\ next' = Nth(blocks[Mod[0]] + 1)
        /\ \A s \in Slots : s <= blocks[Mod[0]] => buffer'[Side(swap_buffer)][s].n = Nth(s)
    BY <1>2, OrderWrite DEF Demap
  <2>2. /\ pc = "demap" /\ pc' = "demap" /\ swap_buffer' = swap_buffer /\ turn' = turn
        /\ blocks'[Mod[0]] = blocks[Mod[0]] + 1
    BY <1>2, <1>m DEF Demap, Write, TypeOK
  <2>3. \A s \in Slots : s < blocks'[Mod[0]] => s <= blocks[Mod[0]]
    BY <1>m, <2>2, Ranges
  <2> QED
    BY <2>1, <2>2, <2>3 DEF OrderInv, Inside, Nth, InTurn
<1>3. CASE DemapLast
  <2>1. /\ next' = Nth(blocks[Mod[0]] + 1)
        /\ \A s \in Slots : s <= blocks[Mod[0]] => buffer'[Side(swap_buffer)][s].n = Nth(s)
    BY <1>3, OrderWrite DEF DemapLast
  <2>2. /\ pc' = "ldpc" /\ given' = Side(swap_buffer) /\ turn' = turn
        /\ blocks[Mod[0]] + 1 = Simd
    BY <1>3, <1>m DEF DemapLast, Write
  <2>3. \A s \in Slots : s <= blocks[Mod[0]]
    BY <1>m, <2>2, Ranges
  <2> QED
    BY <2>1, <2>2, <2>3 DEF OrderInv, Inside, Nth, InTurn
<1>4. CASE Return
  BY <1>4 DEF Return, OrderInv, Inside, Nth, InTurn, demapVars, ldpcVars, bchVars
<1>5. CASE Decode
  <2>1. /\ pc = "ldpc" /\ pc' = "bch" /\ n' = 0 /\ turn' = turn /\ next' = next
        /\ given' = Side(ldpc_swap)
    BY <1>5 DEF Decode, demapVars
  <2>2. bch_fec = [side |-> Side(ldpc_swap), slot |-> 0] /\ Side(ldpc_swap) \in Sides
    BY SideType DEF BatchInv
  <2>3. ASSUME NEW s \in Slots PROVE ldpc_buffer'[given'][s] = buffer[given][s]
    <3>1. ldpc_buffer'[Side(ldpc_swap)][s] = buffer[given][s - 0]
      BY <1>5, <2>2, Ranges DEF Decode, Put, TypeOK
    <3> QED
      BY <2>1, <3>1, Ranges
  <2>4. ASSUME NEW s \in Slots PROVE ldpc_buffer'[given'][s].n = Nth(s - 0)
    BY <2>1, <2>3, Ranges DEF OrderInv
  <2>5. next = Nth(Simd - 0)
    BY <1>m, <2>1 DEF OrderInv, Inside
  <2> QED
    BY <2>1, <2>4, <2>5 DEF OrderInv, Inside, Nth, InTurn
<1>6. CASE Fail
  <2>1. /\ pc' = "demap" /\ turn' = (turn + Simd) % Numbers /\ next' = next
        /\ next = (turn + Simd) % Numbers /\ blocks'[Mod[0]] = 0
    BY <1>6 DEF Fail, demapVars, OrderInv, Inside, Nth, BatchInv
  <2>2. turn' \in 0..(Numbers - 1)
    BY <1>m, <2>1, Ranges
  <2>3. (turn' + 0) % Numbers = turn'
    BY <2>2, CountedNone
  <2>4. \A s \in Slots : ~(s < 0)
    BY Ranges
  <2> QED
    BY <2>1, <2>3, <2>4 DEF OrderInv, Inside, Nth, InTurn
<1>7. CASE HandOn
  <2>1. /\ pc = "bch" /\ turn' = (turn + 1) % Numbers /\ next' = next /\ blocks' = blocks
        /\ ldpc_buffer' = ldpc_buffer /\ given' = given /\ blocks[Mod[0]] = 0
    BY <1>7 DEF HandOn, demapVars, ldpcVars, BatchInv
  <2>2. /\ next = Nth(Simd - n)
        /\ \A s \in Slots : s >= n => ldpc_buffer[given][s].n = Nth(s - n)
    BY <2>1 DEF OrderInv, Inside
  <2>3. last'.n = turn
    <3>1. last'.n = bch_buffer'[Side(bch_swap)].n
      BY <1>7 DEF HandOn
    <3>2. bch_buffer'[Side(bch_swap)] = ldpc_buffer[given][n]
      BY <1>7, SideType DEF HandOn, Descramble, BatchInv, TypeOK
    <3>3. ldpc_buffer[given][n].n = Nth(0)
      <4>1. n >= n /\ n - n = 0
        BY <1>m
      <4> QED
        BY <1>m, <2>2, <4>1
    <3> QED
      BY <1>m, <3>1, <3>2, <3>3, CountedNone DEF Nth
  <2>4. last'.n = (turn' - 1) % Numbers
    BY <1>m, <2>1, <2>3, CountedBack
  <2>5. ASSUME NEW k \in Nat PROVE Nth(k + 1) = (turn' + k) % Numbers
    <3>1. (((turn + 1) % Numbers) + k) % Numbers = (turn + (1 + k)) % Numbers
      BY <1>m, Counted
    <3> QED
      BY <1>m, <2>1, <3>1 DEF Nth
  <2>6. CASE n + 1 < Simd
    <3>1. n' = n + 1 /\ pc' = "bch"
      BY <1>7, <2>1, <2>6 DEF HandOn
    <3>2. next' = (turn' + (Simd - n')) % Numbers
      <4>1. Simd - n' \in Nat /\ Simd - n = (Simd - n') + 1
        BY <1>m, <2>6, <3>1
      <4> QED
        BY <2>1, <2>2, <2>5, <4>1
    <3>3. ASSUME NEW s \in Slots, s >= n'
          PROVE  ldpc_buffer'[given'][s].n = (turn' + (s - n')) % Numbers
      <4>1. s - n' \in Nat /\ s - n = (s - n') + 1 /\ s >= n
        BY <1>m, <3>1, <3>3, Ranges
      <4> QED
        BY <2>1, <2>2, <2>5, <4>1
    <3> QED
      BY <2>4, <3>1, <3>2, <3>3 DEF OrderInv, Inside, Nth, InTurn
  <2>7. CASE ~(n + 1 < Simd)
    <3>1. pc' = "demap" /\ Simd - n = 0 + 1
      BY <1>7, <1>m, <2>7, Ranges DEF HandOn
    <3>2. next' = (turn' + 0) % Numbers
      BY <2>1, <2>2, <2>5, <3>1
    <3>3. \A s \in Slots : ~(s < 0)
      BY Ranges
    <3> QED
      BY <2>1, <3>1, <3>2, <3>3 DEF OrderInv, Inside, Nth, InTurn
  <2> QED
    BY <2>6, <2>7
<1>8. CASE UNCHANGED vars
  BY <1>8 DEF vars, OrderInv, Inside, Nth, InTurn, demapVars, ldpcVars, bchVars
<1> QED
  BY <1>1, <1>2, <1>3, <1>4, <1>5, <1>6, <1>7, <1>8 DEF Next

(* For every width of a batch, with PLPs of one constellation other than   *)
(* QPSK, every word handed on is the one whose turn it is.  Finding 3 of   *)
(* README.md is thus qpsk()'s alone.                                       *)
THEOREM InTurnHolds ==
  ASSUME OneConstellation
  PROVE  Spec => []InTurn
<1>1. TypeOK /\ BatchInv /\ [Next]_vars => BatchInv'
  BY BatchStep
<1>2. TypeOK /\ SlotInv /\ BatchInv /\ OrderInv /\ [Next]_vars => OrderInv'
  BY OrderStep
<1>3. OrderInv => InTurn
  BY DEF OrderInv
<1> QED
  BY <1>1, <1>2, <1>3, TypeInit, TypeStep, BatchInit, OrderInit, PTL DEF Spec
=============================================================================
