----------------------------- MODULE SolveGroup -----------------------------
(***************************************************************************)
(* solve_style group (solve_group.cpp, groups.cpp): composition and        *)
(* rejection.  Events are kept in lists, one per group of propensities of  *)
(* about the same size; a draw picks a group by its total, a member of it  *)
(* evenly, and accepts the member by its share of the group's upper bound. *)
(*                                                                         *)
(* Propensities are natural numbers, so the running sums are exact; in     *)
(* floating point they drift.  thresh = psum * uniform() is a real that is *)
(* only compared with integers, and is modelled by its integer part.       *)
(***************************************************************************)
EXTENDS Sums

CONSTANTS
    NEvents,       \* nevents
    Weight,        \* the values a propensity of the application may take
    Lo, Hi,        \* the bounds of the solve_style command
    NGroups,       \* ngroups, not counting the group of zero propensities
    GroupOf,       \* find_group: a function on 0 .. Hi
    Bound,         \* ghibound: a function on 0 .. NGroups - 1
    MaxBatch       \* bound: the most propensities one update() call is given

ASSUME SizeAssumption ==
    /\ NEvents \in Nat
    /\ NGroups \in Nat \ {0}
    /\ Weight \subseteq Nat
    /\ Lo \in Nat \ {0} /\ Hi \in Nat /\ Lo < Hi

ASSUME GroupAssumption ==
    /\ GroupOf \in [0 .. Hi -> 0 .. NGroups]
    /\ Bound \in [0 .. NGroups - 1 -> Nat \ {0}]
    /\ \A x \in 0 .. Hi : GroupOf[x] = NGroups <=> x = 0
    /\ \A x \in Lo .. Hi : x <= Bound[GroupOf[x]]

VARIABLES
    propensity,    \* the propensity array of the application
    p,             \* the solver's own copy, within bounds
    num_active,    \* number of active events, as counted
    sum,           \* total propensity, as accumulated
    p2g,           \* p2g[e]: the group e is in
    p2g_index,     \* p2g_index[e]: its place in the list of the group
    g2p,           \* g2p[g]: the array that holds the list of group g
    gcount,        \* gcount[g]: length of that list
    gmaxsize,      \* gmaxsize[g]: length of that array
    gpsum,         \* gpsum[g]: total propensity of the group
    psum,          \* total propensity of all groups
    pc,            \* the loop the solver is in
    todo,          \* indices of the update() call that are not yet done
    answer         \* what the last event() returned

lists  == <<p2g, p2g_index, g2p, gcount, gmaxsize>>
groups == <<lists, gpsum, psum>>
vars   == <<propensity, p, num_active, sum, groups, pc, todo, answer>>

NoEvent == -1
None == -2
Junk == -3       \* in a slot past the end of its list

EventIds == 0 .. NEvents - 1
Groups == 0 .. NGroups

(* Non-zero propensities are moved within the bounds.                      *)
Bounded(x) ==
    IF x = 0 THEN 0 ELSE IF x < Lo THEN Lo ELSE IF x > Hi THEN Hi ELSE x

Members(q, g) == {e \in EventIds : GroupOf[q[e]] = g}

(* Initial length of a list: one and a half times the average.             *)
AveSize ==
    LET ave == IF NGroups = 1 THEN NEvents ELSE (3 * NEvents) \div (2 * NGroups)
    IN  IF ave = 0 THEN 1 ELSE ave

(* partition(): the lists of the propensities q, in the order of the       *)
(* indices.                                                                *)
Place(q, e) == Cardinality({d \in Members(q, GroupOf[q[e]]) : d < e})

(* The groups as partition() builds them for the propensities q.           *)
Partitioned(q) ==
    LET count(g) == Cardinality(Members(q, g))
        size(g)  == IF count(g) > AveSize THEN count(g) ELSE AveSize
    IN  [p2g       |-> [e \in EventIds |-> GroupOf[q[e]]],
         p2g_index |-> [e \in EventIds |-> Place(q, e)],
         g2p       |-> [g \in Groups |-> [k \in 0 .. size(g) - 1 |->
                          IF k < count(g)
                          THEN CHOOSE e \in Members(q, g) : Place(q, e) = k
                          ELSE Junk]],
         gcount    |-> [g \in Groups |-> count(g)],
         gmaxsize  |-> [g \in Groups |-> size(g)],
         gpsum     |-> [g \in Groups |-> SumOver(q, Members(q, g))]]

(* init(): count, sums and groups for the propensities q.                  *)
Build(q) ==
    LET built == Partitioned(q)
    IN  /\ p' = q
        /\ num_active' = Cardinality({e \in EventIds : q[e] > 0})
        /\ sum' = SumOver(q, EventIds)
        /\ p2g' = built.p2g /\ p2g_index' = built.p2g_index
        /\ g2p' = built.g2p /\ gcount' = built.gcount /\ gmaxsize' = built.gmaxsize
        /\ gpsum' = built.gpsum
        /\ psum' = SumOver(q, EventIds)

NoWeights == [e \in EventIds |-> 0]

(* Before the first init().                                                *)
Init ==
    /\ propensity \in [EventIds -> Weight]
    /\ p = NoWeights /\ num_active = 0 /\ sum = 0
    /\ LET built == Partitioned(p) IN
          /\ p2g = built.p2g /\ p2g_index = built.p2g_index
          /\ g2p = built.g2p /\ gcount = built.gcount /\ gmaxsize = built.gmaxsize
          /\ gpsum = built.gpsum
    /\ psum = 0
    /\ pc = "init" /\ todo = {} /\ answer = None

(* setup() of a new run: all propensities are computed afresh, then init() *)
(* releases what the solver had.                                           *)
StartInit ==
    /\ pc = "idle"
    /\ Build(NoWeights)
    /\ propensity' \in [EventIds -> Weight]
    /\ pc' = "init"
    /\ answer' = None
    /\ UNCHANGED todo

InitDone ==
    /\ pc = "init"
    /\ Build([e \in EventIds |-> Bounded(propensity[e])])
    /\ pc' = "idle"
    /\ UNCHANGED <<propensity, todo, answer>>

(* The application has computed the propensities of S, calls update().     *)
StartUpdate(S) ==
    /\ pc = "idle"
    /\ \E w \in [S -> Weight] :
          propensity' = [e \in EventIds |-> IF e \in S THEN w[e] ELSE propensity[e]]
    /\ todo' = S
    /\ pc' = "update"
    /\ answer' = None
    /\ UNCHANGED <<p, num_active, sum, groups>>

(* Variant: the total of the group is not adjusted.                        *)
StayInGroupOnly(n, new) ==
    /\ p2g[n] = GroupOf[new]
    /\ UNCHANGED <<lists, gpsum>>

(* alter_element(), when the group of n stays the same.                    *)
StayInGroup(n, new) ==
    /\ p2g[n] = GroupOf[new]
    /\ gpsum' = [gpsum EXCEPT ![p2g[n]] = @ + new - p[n]]
    /\ UNCHANGED lists

(* Variant: the place of the event that fills the gap is not recorded.     *)
PlacesWithoutFill(n, last, index, new) == [p2g_index EXCEPT ![n] = new]

(* The event last fills the gap at index; n goes to the place new of its   *)
(* new list.                                                               *)
PlacesAfter(n, last, index, new) == [p2g_index EXCEPT ![last] = index, ![n] = new]

(* Variant: the array never grows.                                         *)
SizeAsBefore(g) == gmaxsize[g]

(* grow_group() when the list is full.                                     *)
SizeWithRoom(g) == IF gcount[g] = gmaxsize[g] THEN 2 * gmaxsize[g] ELSE gmaxsize[g]

(* alter_element(), when n changes groups: the last event of the old list  *)
(* fills the gap, n goes to the end of the new list, which grows if full.  *)
MoveToGroup(n, new) ==
    LET old   == p2g[n]
        to    == GroupOf[new]
        index == p2g_index[n]
        last  == g2p[old][gcount[old] - 1]
        size  == SizeWithRoom(to)
    IN  /\ old # to
        /\ p2g' = [p2g EXCEPT ![n] = to]
        /\ p2g_index' = PlacesAfter(n, last, index, gcount[to])
        /\ gmaxsize' = [gmaxsize EXCEPT ![to] = size]
        /\ g2p' = [g2p EXCEPT
              ![old] = [@ EXCEPT ![index] = last, ![gcount[old] - 1] = Junk],
              ![to]  = [k \in 0 .. size - 1 |->
                           IF k = gcount[to] THEN n
                           ELSE IF k < gmaxsize[to] THEN @[k] ELSE Junk]]
        /\ gcount' = [gcount EXCEPT ![old] = @ - 1, ![to] = @ + 1]
        /\ gpsum' = [gpsum EXCEPT ![old] = @ - p[n], ![to] = @ + new]

(* One iteration of update() for an event whose propensity is not the one  *)
(* on record.                                                              *)
AlterElement(n) ==
    LET new == Bounded(propensity[n])
    IN  /\ pc = "update"
        /\ n \in todo
        /\ p[n] # propensity[n]
        /\ num_active' = num_active + (IF p[n] = 0 THEN 1 ELSE 0)
                                    - (IF propensity[n] = 0 THEN 1 ELSE 0)
        /\ StayInGroup(n, new) \/ MoveToGroup(n, new)
        /\ psum' = psum + new - p[n]
        /\ p' = [p EXCEPT ![n] = new]
        /\ sum' = sum - p[n] + new
        /\ todo' = todo \ {n}
        /\ UNCHANGED <<propensity, pc, answer>>

SkipElement(n) ==
    /\ pc = "update"
    /\ n \in todo
    /\ p[n] = propensity[n]
    /\ todo' = todo \ {n}
    /\ UNCHANGED <<propensity, p, num_active, sum, groups, pc, answer>>

UpdateDone ==
    /\ pc = "update"
    /\ todo = {}
    /\ pc' = "idle"
    /\ UNCHANGED <<propensity, p, num_active, sum, groups, todo, answer>>

(* event() when nothing can happen.                                        *)
NoneActive ==
    /\ pc = "idle"
    /\ num_active = 0
    /\ sum' = 0
    /\ answer' = NoEvent
    /\ UNCHANGED <<propensity, p, num_active, groups, pc, todo>>

StartSample ==
    /\ pc = "idle"
    /\ num_active # 0
    /\ pc' = "sample"
    /\ UNCHANGED <<propensity, p, num_active, sum, groups, todo, answer>>

(* Variant: the comparison lets an empty first group in.                   *)
GroupAtOrAbove(t) ==
    LET hit == {g \in 0 .. NGroups - 1 : SumOver(gpsum, 0 .. g) >= t}
    IN  IF hit = {} THEN NGroups - 1 ELSE Min(hit)

(* linear_select_group(): the first group at which the running total       *)
(* exceeds t, or the last.                                                 *)
GroupAt(t) ==
    LET hit == {g \in 0 .. NGroups - 1 : SumOver(gpsum, 0 .. g) > t}
    IN  IF hit = {} THEN NGroups - 1 ELSE Min(hit)

(* The events sample_with_rejection() may look at; in an empty group, what *)
(* is in the slot past the end of the list.                                *)
Candidates(g) ==
    IF gcount[g] = 0 THEN {g2p[g][0]} ELSE {g2p[g][k] : k \in 0 .. gcount[g] - 1}

(* One round of sample(): a group, a member, and the member is accepted    *)
(* (p > ghibound * r for some r of [0, 1)) or everything is drawn again.   *)
Trial ==
    /\ pc = "sample"
    /\ \E g \in {GroupAt(t) : t \in 0 .. psum - 1} :
          \E e \in Candidates(g) :
             \/ /\ e = Junk \/ p[e] > 0
                /\ answer' = e
                /\ pc' = "idle"
             \/ /\ e = Junk \/ p[e] < Bound[g]
                /\ UNCHANGED <<answer, pc>>
    /\ UNCHANGED <<propensity, p, num_active, sum, groups, todo>>

Next ==
    \/ StartInit \/ InitDone
    \/ \E S \in SUBSET EventIds : Cardinality(S) <= MaxBatch /\ StartUpdate(S)
    \/ \E n \in EventIds : AlterElement(n) \/ SkipElement(n)
    \/ UpdateDone
    \/ NoneActive \/ StartSample \/ Trial

Spec == Init /\ [][Next]_vars

-----------------------------------------------------------------------------
(* Properties.                                                             *)

(* Every variable holds a value of its kind; every list fits its array.    *)
TypeOK ==
    /\ propensity \in [EventIds -> Weight]
    /\ p \in [EventIds -> 0 .. Hi]
    /\ p2g \in [EventIds -> Groups]
    /\ p2g_index \in [EventIds -> Nat]
    /\ gcount \in [Groups -> Nat]
    /\ gmaxsize \in [Groups -> Nat \ {0}]
    /\ DOMAIN g2p = Groups
    /\ \A g \in Groups : /\ gcount[g] <= gmaxsize[g]
                         /\ g2p[g] \in [0 .. gmaxsize[g] - 1 -> EventIds \cup {Junk}]
    /\ pc \in {"init", "idle", "update", "sample"}
    /\ todo \subseteq EventIds
    /\ answer \in EventIds \cup {NoEvent, None, Junk}

(* The lists and the two index arrays are inverse to each other, and every *)
(* event is in the list of its propensity's group, whatever the history of *)
(* swaps with the last member (the sanity_check() the code has disabled).  *)
ListsAreInverse ==
    /\ \A e \in EventIds :
          /\ p2g[e] = GroupOf[p[e]]
          /\ p2g_index[e] < gcount[p2g[e]]
          /\ g2p[p2g[e]][p2g_index[e]] = e
    /\ \A g \in Groups : \A k \in 0 .. gcount[g] - 1 :
          /\ g2p[g][k] \in EventIds
          /\ p2g[g2p[g][k]] = g
          /\ p2g_index[g2p[g][k]] = k

(* The running sums and the count agree with the propensities they stand   *)
(* for, and a group without members has no weight, so that a draw never    *)
(* lands in it.                                                            *)
SumsAreExact ==
    /\ \A g \in Groups : gpsum[g] = SumOver(p, {e \in EventIds : p2g[e] = g})
    /\ psum = SumOver(p, EventIds) /\ sum = psum
    /\ num_active = Cardinality({e \in EventIds : p[e] > 0})

(* The group solver keeps the promise of a solver, although it goes by its *)
(* own copy of the propensities.                                           *)
Contract == INSTANCE Solver WITH known <- pc \in {"idle", "sample"}

SolverContract == Contract!Spec

(* The chance of e to be the outcome of one round of sample() is the       *)
(* product of three: of its group, gpsum / psum; of e in its list,         *)
(* 1 / gcount; and to be accepted, p / ghibound.  "The propensity can be   *)
(* thought of as the relative probability of a site performing a KMC       *)
(* event" (doc/diag_propensity.txt) asks for chances proportional to p:    *)
(* gpsum / (gcount * ghibound) must be the same for all active groups.     *)
EventsByPropensity ==
    pc = "sample" =>
        \A d, e \in {c \in EventIds : p[c] > 0} :
            gpsum[p2g[d]] * gcount[p2g[e]] * Bound[p2g[e]]
                = gpsum[p2g[e]] * gcount[p2g[d]] * Bound[p2g[d]]
=============================================================================
