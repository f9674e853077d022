---------------------------- MODULE MCOffLattice ----------------------------
(* Off-lattice runs for TLC: two processes with four sectors each, one     *)
(* process with four, and one without sectors.                             *)
EXTENDS OffLattice

TwoProcs == [px |-> 2, py |-> 1, sx |-> 6, sy |-> 6, nsector |-> 4]
OneProc == [px |-> 1, py |-> 1, sx |-> 6, sy |-> 6, nsector |-> 4]
NoSectors == [px |-> 1, py |-> 1, sx |-> 9, sy |-> 9, nsector |-> 1]
AllLayouts == {TwoProcs, OneProc, NoSectors}

(* Sites at a corner where bins of all processes meet, or beside each      *)
(* other in one bin, and one site further off.                             *)
SomeStarts(L) == {<<<<0, 0>>, <<0, 2>>, <<L.px * L.sx - 2, L.sy - 1>>>>,
                  <<<<0, 1>>, <<0, 2>>, <<L.px * L.sx - 2, L.sy - 1>>>>}
TwoMoves == {<<1, 0>>, <<-1, -1>>}
=============================================================================
