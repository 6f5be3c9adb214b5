--------------------------- MODULE MCDemodulator ---------------------------
(* Instance of Demodulator for TLC: symbols of a few samples, the real     *)
(* order of the guard intervals.                                           *)
EXTENDS Demodulator

AllGIs == <<"GI_1_32", "GI_1_16", "GI_1_8", "GI_1_4", "GI_1_128", "GI_19_128",
            "GI_19_256">>

AllSizes == [g \in {AllGIs[i] : i \in 1..Len(AllGIs)} |->
               IF g = "GI_1_4" THEN 1 ELSE 0]

(* The last mode the search comes to, with a frame closing symbol, and an  *)
(* early one without.                                                      *)
AllFrames == {[gi |-> "GI_19_256", len |-> 3, fc |-> 1],
              [gi |-> "GI_1_16", len |-> 3, fc |-> 0]}
=============================================================================
