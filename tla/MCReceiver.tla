---------------------------- MODULE MCReceiver ----------------------------
(* Instances of Receiver for TLC: the shortest symbols and frames, a tuner *)
(* that is off by 2, beyond what a P1 tolerates.                           *)
EXTENDS Receiver

OneGI == <<"GI_1_4">>

OneSize == [g \in {"GI_1_4"} |-> 0]

OneFrame == {[gi |-> "GI_1_4", len |-> 2, fc |-> 0]}

(* Three modes to search, one of them the longest, for the liveness run.   *)
FewGIs == <<"GI_1_32", "GI_1_4", "GI_1_128">>

FewSizes == [g \in {FewGIs[i] : i \in 1..Len(FewGIs)} |->
               IF g = "GI_1_4" THEN 1 ELSE 0]

LastFrame == {[gi |-> "GI_1_128", len |-> 2, fc |-> 0]}

FewOffsets == {-2, 0, 2}

FarOffsets == {-2, 2}

FewTunings == {0, 2, 4}
=============================================================================
