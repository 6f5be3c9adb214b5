------------------------ MODULE MCTimeDeinterleaver ------------------------
(* Instances of TimeDeinterleaver for TLC: FEC blocks of four cells.       *)
EXTENDS TimeDeinterleaver

(* One FEC block in place, the next one turned, and so on: blocks of n     *)
(* cells, m of them, the cells of block i turned by i * s.                 *)
Turned(n, m, s) ==
  [d \in 0..(n * m - 1) |-> (d \div n) * n + ((d + s * (d \div n)) % n)]

(* As above, with two cells of each block exchanged first.                 *)
Crossed(n, m, s) ==
  [d \in 0..(n * m - 1) |->
     LET e == CASE d % n = 1 -> d + 1 [] d % n = 2 -> d - 1 [] OTHER -> d
     IN  Turned(n, m, s)[e]]

(* Two PLPs, in either order, of three and one or of two and two blocks.   *)
TwoRows == [p \in {0, 1} |-> 2]
TwoNTi == [p \in {0, 1} |-> IF p = 0 THEN 2 ELSE 1]
TwoPerms == [p \in {0, 1} |-> IF p = 0 THEN Crossed(4, 3, 1) ELSE Turned(4, 2, 3)]
Pair(s0, n0, s1, n1) ==
  [p \in {0, 1} |-> IF p = 0 THEN [start |-> s0, num_blocks |-> n0]
                     ELSE [start |-> s1, num_blocks |-> n1]]
TwoLayouts == {Pair(0, 3, 12, 1), Pair(4, 3, 0, 1), Pair(0, 2, 8, 2), Pair(8, 2, 0, 2)}
=============================================================================
