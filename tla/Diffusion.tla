----------------------------- MODULE Diffusion -----------------------------
(***************************************************************************)
(* The events of app_style diffusion on a lattice l with neighbours nb:    *)
(* energy style linear, hops to nearest neighbours (app_diffusion.cpp).    *)
(***************************************************************************)
EXTENDS Integers, FiniteSets

CONSTANT Warm       \* temperature > 0.0

ASSUME WarmAssumption == Warm \in BOOLEAN

VACANT == 1
OCCUPIED == 2

delpropensity == 2
delevent == 1

(* site_energy(): the broken bonds of an atom.                             *)
SiteEnergy(l, nb, i) ==
    IF l[i] = OCCUPIED THEN Cardinality({j \in nb[i] : l[j] = VACANT}) ELSE 0

(* ncoord(): its neighbours.                                               *)
Coordination(l, nb, i) == Cardinality({j \in nb[i] : l[j] = OCCUPIED})

Hopped(l, i, j) == [l EXCEPT ![i] = VACANT, ![j] = OCCUPIED]

EnergyChange(l, nb, i, j) == SiteEnergy(Hopped(l, i, j), nb, j) - SiteEnergy(l, nb, i)

(* The hops of the atom at i that have a propensity (or may be accepted),  *)
(* as sites to hop to: uphill ones only at positive temperature.           *)
Targets(l, nb, i) ==
    {j \in nb[i] : l[i] = OCCUPIED /\ l[j] = VACANT /\ (Warm \/ EnergyChange(l, nb, i, j) <= 0)}

(* site_propensity_linear(): the event list of site i.  The propensity of  *)
(* a hop is 1 or exp(-2 * cost / kT).                                      *)
SiteEvents(l, nb, i) ==
    {[to |-> j, cost |-> LET c == EnergyChange(l, nb, i, j) IN IF c <= 0 THEN 0 ELSE c] :
        j \in Targets(l, nb, i)}
=============================================================================
