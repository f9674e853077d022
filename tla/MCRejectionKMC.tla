--------------------------- MODULE MCRejectionKMC ---------------------------
(* Sweeps for TLC: every style, on one process and on two.                 *)
EXTENDS RejectionKMC

Run(nx, ny, py, nsector, style, masked, hot) ==
    [nx |-> nx, ny |-> ny, px |-> 1, py |-> py, nsector |-> nsector, style |-> style,
     mask |-> masked, warm |-> hot]

StrictSweep == Run(4, 4, 2, 1, "color/strict", FALSE, TRUE)
StrictFour == [StrictSweep EXCEPT !.px = 2]
StrictMasked == [StrictFour EXCEPT !.mask = TRUE, !.warm = FALSE]
MaskedSectors == Run(4, 8, 2, 4, "raster", TRUE, FALSE)
RandomSectors == Run(3, 3, 1, 4, "random", TRUE, FALSE)
MaskedRaster == Run(4, 4, 1, 1, "raster", TRUE, FALSE)
ColoredSectors == Run(4, 4, 2, 4, "color", FALSE, FALSE)
Colors == Run(4, 4, 2, 1, "color", TRUE, FALSE)

AllRuns == {StrictSweep, StrictFour, StrictMasked, MaskedSectors, RandomSectors, MaskedRaster,
            ColoredSectors, Colors}

(* A square of spin 2 across the lines where processes meet.               *)
SomeLattices(L) ==
    LET Middle(n) == {n \div 2 - 1, n \div 2}
    IN  {[i \in SquareSites(L.nx, L.ny) |-> IF i \in Middle(L.nx) \X Middle(L.ny) THEN 2 ELSE 1]}

SomeStreams(L) ==
    {[i \in SquareSites(L.nx, L.ny) |-> IF (i[1] + 2 * i[2]) % 3 = k THEN <<2, 1, 1>> ELSE <<1, 2>>] :
        k \in 0 .. 2}
=============================================================================
