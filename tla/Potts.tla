------------------------------- MODULE Potts -------------------------------
(***************************************************************************)
(* app_style potts: spins 1 .. nspins, an energy of one for every unlike   *)
(* neighbor, and attempts to take a random spin that the temperature       *)
(* accepts or rejects (app_potts.cpp).                                     *)
(***************************************************************************)
EXTENDS Integers, FiniteSets

CONSTANT nspins

ASSUME SpinAssumption == nspins \in Nat \ {0}

Spin == 1 .. nspins

(* site_energy() of site i of lattice l with neighbors nb, if it had spin s. *)
SiteEnergy(l, nb, i, s) == Cardinality({j \in nb[i] : l[j] # s})

Uphill(l, nb, i, s) == SiteEnergy(l, nb, i, s) > SiteEnergy(l, nb, i, l[i])

(* site_event_rejection(): the spin i has after it was offered s; lucky is *)
(* the outcome of the second draw, made only uphill at T > 0.              *)
Offered(l, nb, i, s, warm, lucky) ==
    IF Uphill(l, nb, i, s) /\ ~(warm /\ lucky) THEN l[i] ELSE s

(* "site could not have changed": more than half of the neighbors like it. *)
MostlyAlike(l, nb, i) == 2 * SiteEnergy(l, nb, i, l[i]) < Cardinality(nb[i])
=============================================================================
