----------------------------- MODULE LatticeKMC -----------------------------
(***************************************************************************)
(* What a kinetic Monte Carlo run promises about the lattice, whatever the *)
(* number of processes and whatever the application: the lattice changes   *)
(* one event at a time, and only by an event whose propensity, evaluated   *)
(* on the lattice as it is at that moment, is positive.  It is the loop of *)
(* AppLattice::iterate_kmc_global() seen from the lattice.                 *)
(***************************************************************************)
EXTENDS Naturals

CONSTANTS
    Site,               \* the lattice sites
    InitLattices,       \* the lattices a run may start from
    SitePropensity(_,_),\* SitePropensity(v, i): of site i on the lattice v
    SiteEvent(_,_)      \* SiteEvent(v, i): the lattice v after i's event

VARIABLE lattice

Init == lattice \in InitLattices

Flip(i) ==
    /\ SitePropensity(lattice, i) > 0
    /\ lattice' = SiteEvent(lattice, i)

Next == \E i \in Site : Flip(i)

Spec == Init /\ [][Next]_lattice
=============================================================================
