------------------------------ MODULE Hopping ------------------------------
(***************************************************************************)
(* What app_style diffusion promises, however many processes run it: one   *)
(* atom at a time hops to a vacant neighbour, at an energy cost that the   *)
(* temperature allows, and atoms are deposited on vacant sites.            *)
(***************************************************************************)
EXTENDS Diffusion

VARIABLES
    lattice,        \* lattice[i]: VACANT or OCCUPIED
    nbr             \* nbr[i]: the neighbours of site i

vars == <<lattice, nbr>>

Init == lattice \in [DOMAIN nbr -> {VACANT, OCCUPIED}]

Hop == \E i \in DOMAIN nbr : \E j \in Targets(lattice, nbr, i) :
          lattice' = Hopped(lattice, i, j)

Deposit == \E m \in DOMAIN nbr :
              /\ lattice[m] = VACANT
              /\ lattice' = [lattice EXCEPT ![m] = OCCUPIED]

Next == (Hop \/ Deposit) /\ UNCHANGED nbr

Spec == Init /\ [][Next]_vars
=============================================================================
