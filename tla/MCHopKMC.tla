------------------------------ MODULE MCHopKMC ------------------------------
(* Hops on a row for TLC: one process with sites away from every border,   *)
(* and two and three processes with sectors as narrow as is legal.         *)
EXTENDS HopKMC

OneProc == [nx |-> 14, px |-> 1, kmc |-> TRUE, sweeps |-> 2]
TwoProcs == [nx |-> 12, px |-> 2, kmc |-> TRUE, sweeps |-> 2]
ThreeProcs == [nx |-> 18, px |-> 3, kmc |-> TRUE, sweeps |-> 1]
Rejection == [nx |-> 12, px |-> 2, kmc |-> FALSE, sweeps |-> 2]
OneLayout == {TwoProcs}
AllLayouts == {OneProc, TwoProcs, ThreeProcs, Rejection}

(* Atoms beside the lines where sectors and sub-domains meet.              *)
SomeStarts(L) == CASE L.px = 1 -> {{3, 4, 7}}
                   [] L.px = 2 -> {{0, 2, 3}, {0, 6}}
                   [] L.px = 3 -> {{5, 12}}

(* A trajectory that meets the sub-domains of all processes.               *)
SomePaths(L) == CASE L.px = 3 -> {<<13, 4, 6, 1>>}
                  [] OTHER    -> {<<L.nx - 1, 4, 1>>}
=============================================================================
