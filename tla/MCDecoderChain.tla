--------------------------- MODULE MCDecoderChain ---------------------------
(* Instances of DecoderChain for TLC.                                      *)
EXTENDS DecoderChain

(* Two PLPs of one constellation and code rate.                            *)
SameMod == [p \in {0, 1} |-> "QAM16"]
SameCode == [p \in {0, 1} |-> "C2_3"]

(* One PLP in QPSK.                                                        *)
QpskMod == [p \in {0} |-> "QPSK"]
QpskCode == [p \in {0} |-> "C1_2"]
=============================================================================
