--------------------------- MODULE Decomposition ---------------------------
(***************************************************************************)
(* How sites are dealt out to processes and to sectors (Domain, Create-    *)
(* Sites, AppLattice::create_set) for a lattice with unit spacing in a box *)
(* [0, nx) or [0, nx) x [0, ny): "line/2n" and "sq/4n".  A dimension is    *)
(* periodic if it has three sites or more; one of fewer is a boundary n,   *)
(* since across a periodic boundary the code would list the one neighbour  *)
(* there is twice.  All comparisons are those of the code with the         *)
(* denominators cleared.                                                   *)
(***************************************************************************)
EXTENDS Integers

(* The column ip of the process grid with subxlo <= x < subxhi, where the  *)
(* sub-domain is [ip * nx / px, (ip + 1) * nx / px).                       *)
Column(x, nx, px) == (x * px) \div nx

(* iwhich: 0 below xmid = (subxlo + subxhi) / 2, else 1.                   *)
Half(x, nx, px) ==
    IF 2 * px * x < (2 * Column(x, nx, px) + 1) * nx THEN 0 ELSE 1

(* Nearest neighbours of x on a line of nx sites, periodic from three      *)
(* sites on; of two sites without a periodic boundary each has the other.  *)
Beside(x, nx) == {(x + 1) % nx, (x + nx - 1) % nx} \ {x}

(* One-dimensional runs: nsector = 2.                                      *)
LineSites(nx) == 0 .. nx - 1
LineNbr(nx) == [x \in LineSites(nx) |-> Beside(x, nx)]
LineOwner(nx, px) == [x \in LineSites(nx) |-> Column(x, nx, px)]
LineSector(nx, px) == [x \in LineSites(nx) |-> Half(x, nx, px)]

(* Two-dimensional runs: nsector = 4, process ipy * px + ipx, sector       *)
(* 2 * jwhich + iwhich.  Sites are pairs <<x, y>>.                         *)
SquareSites(nx, ny) == (0 .. nx - 1) \X (0 .. ny - 1)
SquareNbr(nx, ny) ==
    [i \in SquareSites(nx, ny) |->
        {<<x, i[2]>> : x \in Beside(i[1], nx)} \cup
        {<<i[1], y>> : y \in Beside(i[2], ny)}]
SquareOwner(nx, ny, px, py) ==
    [i \in SquareSites(nx, ny) |-> Column(i[2], ny, py) * px + Column(i[1], nx, px)]
SquareSector(nx, ny, px, py) ==
    [i \in SquareSites(nx, ny) |-> 2 * Half(i[2], ny, py) + Half(i[1], nx, px)]
=============================================================================
