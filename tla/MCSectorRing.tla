---------------------------- MODULE MCSectorRing ----------------------------
(* A line of NX sites on PX processes, two sectors each, for TLC.          *)
EXTENDS SectorKMC, Decomposition

CONSTANTS NX, PX

MCSite == LineSites(NX)
MCProc == 0 .. PX - 1
MCNbr == LineNbr(NX)
MCOwner == LineOwner(NX, PX)
MCSectorOf == LineSector(NX, PX)

(* Starting lattices for the ring: a wall in the                           *)
(* middle of a sub-domain, one odd site, and alternating spins.            *)
SomeSpins ==
    {[i \in MCSite |-> IF i < NX \div 2 THEN 1 ELSE 2],
     [i \in MCSite |-> IF i = 0 THEN 1 ELSE 2],
     [i \in MCSite |-> (i % 2) + 1]}
=============================================================================
