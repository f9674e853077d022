------------------------------- MODULE Ising -------------------------------
(***************************************************************************)
(* The two-state on-lattice application (src/src/app_ising.cpp): the       *)
(* energy of a site, the propensity of its one KMC event (a spin flip) and *)
(* the flip itself.  It is the smallest application with delpropensity = 1 *)
(* and delevent = 0: the propensity of a site reads the site and its       *)
(* lattice neighbours, and an event changes only the site itself.          *)
(*                                                                         *)
(* A propensity is a natural number that names one of the values           *)
(* site_propensity() can return: 0 stands for 0.0, 1 for 1.0 and k + 1 for *)
(* the Boltzmann factor exp(-k/T).  The coding is injective, so two        *)
(* propensities are equal in the model exactly when they are in the code,  *)
(* and a propensity is positive exactly when its code is.                  *)
(***************************************************************************)
EXTENDS Integers, FiniteSets

CONSTANTS
    Site,             \* the lattice sites, named by their global IDs
    Nbr,              \* Nbr[i] = the sites in the neighbor list of site i
    ZeroTemperature   \* TRUE when the "temperature" command left T = 0.0

(* The lattice is finite and its neighbor lists are symmetric, with no     *)
(* site a neighbor of itself (offsets of app_lattice's stencils come in    *)
(* +/- pairs).                                                             *)
ASSUME LatticeAssumption ==
    /\ IsFiniteSet(Site)
    /\ Nbr \in [Site -> SUBSET Site]
    /\ \A i \in Site : i \notin Nbr[i]
    /\ \A i, j \in Site : j \in Nbr[i] => i \in Nbr[j]

ASSUME TemperatureAssumption == ZeroTemperature \in BOOLEAN

Spin == {1, 2}

(* Variant: the flip forgets that spins run from 1 to 2.                   *)
NextSpin(s) == s + 1

Flipped(s) == 3 - s

(* Number of unlike neighbours site i would have, were its spin s.         *)
SiteEnergy(v, i, s) == Cardinality({j \in Nbr[i] : v[j] # s})

(* Variant: the test for a zero temperature is missing.                    *)
WarmPropensity(v, i) ==
    LET rise == SiteEnergy(v, i, Flipped(v[i])) - SiteEnergy(v, i, v[i])
    IN  IF rise <= 0 THEN 1 ELSE rise + 1

SitePropensity(v, i) ==
    LET einitial == SiteEnergy(v, i, v[i])
        efinal   == SiteEnergy(v, i, Flipped(v[i]))
    IN  IF efinal <= einitial THEN 1
        ELSE IF ZeroTemperature THEN 0
        ELSE (efinal - einitial) + 1

(* The lattice after the event of site i.                                  *)
SiteEvent(v, i) == [v EXCEPT ![i] = Flipped(v[i])]

(* Twice the number of unlike neighbour pairs (diag_energy.cpp sums        *)
(* site_energy over the sites).                                            *)
UnlikePairs(v) ==
    {e \in Site \X Site : e[2] \in Nbr[e[1]] /\ v[e[1]] # v[e[2]]}

TotalEnergy(v) == Cardinality(UnlikePairs(v))
=============================================================================
