----------------------------- MODULE GroupBins -----------------------------
(***************************************************************************)
(* The groups of solve_style group: which group a propensity belongs to,   *)
(* and the upper bound that group's members are accepted against           *)
(* (Groups::partition, Groups::find_group).  Propensities are integers of  *)
(* 0 .. hi; the last group, number ngroups, holds those that are 0.        *)
(***************************************************************************)
EXTENDS Integers

(* ngroups = 0 in the input: groups cascade down from hi by powers of 2.   *)
(* frexp(x / hi) is the exponent e with 2^(e-1) <= x / hi < 2^e; the group *)
(* is -e, with hi itself put in group 0.                                   *)
CascadeGroup(x, hi) ==
    CHOOSE g \in 0 .. hi : /\ x * 2^(g + 1) >= hi
                           /\ g = 0 \/ x * 2^g < hi
CascadeCount(hi, lo) == CascadeGroup(lo, hi) + 1
CascadeGroupOf(hi, lo) ==
    [x \in 0 .. hi |-> IF x = 0 THEN CascadeCount(hi, lo)
                       ELSE IF x < lo THEN CascadeCount(hi, lo) - 1
                       ELSE CascadeGroup(x, hi)]
CascadeBound(hi, lo) == [g \in 0 .. CascadeCount(hi, lo) - 1 |-> hi \div 2^g]

(* ngroups = n in the input: n groups of equal extent.  EPSILON makes the  *)
(* bins a trifle wide, so a value on a boundary falls in the lower bin.    *)
EqualGroupOf(hi, lo, n) ==
    [x \in 0 .. hi |-> IF x = 0 THEN n
                       ELSE IF x <= lo THEN 0
                       ELSE ((x - lo) * n - 1) \div (hi - lo)]
EqualBound(hi, lo, n) == [g \in 0 .. n - 1 |-> lo + ((g + 1) * (hi - lo)) \div n]
=============================================================================
