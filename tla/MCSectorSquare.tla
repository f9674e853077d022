--------------------------- MODULE MCSectorSquare ---------------------------
(* An NX x NY lattice on PX x PY processes, four sectors each, for TLC.    *)
EXTENDS SectorKMC, Decomposition

CONSTANTS NX, NY, PX, PY

MCSite == SquareSites(NX, NY)
MCProc == 0 .. PX * PY - 1
MCNbr == SquareNbr(NX, NY)
MCOwner == SquareOwner(NX, NY, PX, PY)
MCSectorOf == SquareSector(NX, NY, PX, PY)

(* A square domain across the lines where processes meet, and a single odd *)
(* site.                                                                   *)
SomeSpins ==
    {[i \in MCSite |-> IF i[1] \in {1, 2} /\ i[2] \in {1, 2} THEN 2 ELSE 1],
     [i \in MCSite |-> IF i = <<1, 1>> THEN 2 ELSE 1]}
=============================================================================
