----------------------------- MODULE Relaxation -----------------------------
(***************************************************************************)
(* What app_relax promises, however many processes run it: one site at a   *)
(* time is displaced, and at temperature zero only if its energy, with all *)
(* the others where they are at that moment, does not rise                 *)
(* (AppRelax::site_event_rejection).  The box is periodic.                 *)
(***************************************************************************)
EXTENDS Integers, FiniteSets

CONSTANTS
    Id,         \* identities of the sites
    Reach,      \* cutoff of the potential
    Moves       \* the displacements of a site

VARIABLES
    where,      \* where[n]: the position of site n
    box         \* the lengths of the box

vars == <<where, box>>

(* The distance between the nearest images of a and b along one axis.      *)
Apart(a, b, len) == LET d == (a - b) % len IN IF 2 * d <= len THEN d ELSE len - d

Near(x, y) ==
    LET dx == Apart(x[1], y[1], box[1])
        dy == Apart(x[2], y[2], box[2])
    IN  dx * dx + dy * dy <= Reach * Reach

Energy(n, x) == Cardinality({k \in Id \ {n} : Near(x, where[k])})

Init ==
    /\ box \in Nat \X Nat
    /\ where \in [Id -> (0 .. box[1] - 1) \X (0 .. box[2] - 1)]

Displace(n, d) ==
    LET x == <<(where[n][1] + d[1]) % box[1], (where[n][2] + d[2]) % box[2]>>
    IN  /\ where' = [where EXCEPT ![n] = x]
        /\ Energy(n, x) <= Energy(n, where[n])
        /\ UNCHANGED box

Next == \E n \in Id, d \in Moves : Displace(n, d)

Spec == Init /\ [][Next]_vars
=============================================================================
