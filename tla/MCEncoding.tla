----------------------------- MODULE MCEncoding -----------------------------
(* Instances of Encoding for TLC: registers whose low bits stand for no base,*)
(* no index or no SIB (4, 5, 12, 13, 20, 21), of each width, and numbers on *)
(* both sides of each limit.                                               *)
EXTENDS Encoding, Instructions

Term(reg, scale) == [reg |-> reg, scale |-> scale]
MCAddrTerms ==
  {Term(Gp(4, 64), 1), Term(Gp(5, 64), 2), Term(Gp(13, 64), 1), Term(Gp(20, 64), 4), Term(Gp(21, 64), 1),
   Term(Gp(12, 32), 1), Term(Gp(20, 32), 2), Term(Vec(4, 128), 2), Term(Vec(20, 128), 1), Term(Vec(28, 512), 8)}
MCOffsets == {8, 128, 8192, Half32}
MCPointers == {Here + 100, Half32 + 5}
MCGps ==
  {Gp(0, 8), Gp(4, 8), Ext8(6), Gp(0, 16), Gp(25, 16), Gp(0, 32), Gp(9, 32), Gp(0, 64), Gp(20, 64), Gp(29, 8)}
MCVecs == {Vec(1, 128), Vec(9, 128), Vec(20, 128), Vec(12, 256), Vec(26, 512)}
Plain == [broadcast |-> FALSE, mask |-> 0, zero |-> FALSE, rnd |-> 0, onMem |-> FALSE]
Masked == [Plain EXCEPT !.mask = 1]
MCMemAttrs == {Plain, [Plain EXCEPT !.broadcast = TRUE], Masked, [Masked EXCEPT !.zero = TRUE], [Masked EXCEPT !.onMem = TRUE]}
MCRegAttrs == {a \in Attrs : ~a.broadcast /\ ~a.onMem /\ a.mask < 2}
MCImms == {-128, 128, 32768, 65536, 2 * Half32 - 1, -Half32 - 1}

\* A client writes an instruction of module Encoding or a row of the tables.
MCInit == Init /\ TableInit
MCNext ==
  \/ line = NoLine /\ Next /\ UNCHANGED line
  \/ Idle /\ TableNext /\ UNCHANGED vars
MCSpec == MCInit /\ [][MCNext]_<<vars, line>>
=============================================================================
