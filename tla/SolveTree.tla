------------------------------ MODULE SolveTree ------------------------------
(***************************************************************************)
(* solve_style tree (solve_tree.cpp): the propensities are the leaves of a *)
(* binary tree, kept in an array, each inner node of which holds the sum   *)
(* of its two children.  An update walks from a leaf to the root, a        *)
(* selection walks from the root to a leaf.  Each iteration of a loop is   *)
(* one action, so that the tree can be looked at half-way.                 *)
(*                                                                         *)
(* Propensities are natural numbers, so sums are exact: tree sums are      *)
(* recomputed from the children, never adjusted by differences, and        *)
(* accumulate no rounding error.  A draw r2*sum is a real number of        *)
(* (0, sum]; it is modelled by the integer v with v - 1 < r2*sum <= v,     *)
(* which every comparison and subtraction of find() treats alike.  A local *)
(* variable goes back to its initial value when its function returns, and  *)
(* answer does when the application acts on it.                            *)
(***************************************************************************)
EXTENDS Integers, FiniteSets

CONSTANTS
    NEvents,       \* nevents
    Weight,        \* the values a propensity may take
    MaxBatch       \* bound: the most propensities one update() call is given

ASSUME NEventsAssumption == NEvents \in Nat
ASSUME WeightAssumption == Weight \subseteq Nat

VARIABLES
    propensity,    \* the propensity array of the application
    tree,          \* tree[0 .. 2 * offset]
    offset,        \* where the leaves start
    sum,           \* total propensity, as last recorded
    num_active,    \* number of active events, as last recorded
    pc,            \* the loop the solver is in
    nround,        \* local of init()
    i,             \* local of sum_tree(), set() and find(): a node
    todo,          \* indices of the update() call that are not yet set
    value,         \* local of find()
    drawn,         \* r2*sum of the event() call
    answer         \* what the last event() returned

vars == <<propensity, tree, offset, sum, num_active, pc, nround, i, todo,
          value, drawn, answer>>
caller == <<propensity, answer>>
totals == <<sum, num_active>>

NoEvent == -1
None == -2

EventIds == 0 .. NEvents - 1
Inner == 0 .. offset - 1
Leaves == offset .. 2 * offset
Nodes == 0 .. 2 * offset

Left(k)   == 2 * k + 1
Right(k)  == 2 * k + 2
Parent(k) == (k - 1) \div 2
Sibling(k) == IF k % 2 = 1 THEN k + 1 ELSE k - 1

Init ==
    /\ propensity \in [EventIds -> Weight]
    /\ tree = [k \in {0} |-> 0]
    /\ offset = 0
    /\ sum = 0 /\ num_active = 0
    /\ pc = "round" /\ nround = 1
    /\ i = 0 /\ todo = {} /\ value = 0 /\ drawn = 0
    /\ answer = None

(* init(), called by setup() at the start of every run.                    *)
StartInit ==
    /\ pc = "idle"
    /\ propensity' \in [EventIds -> Weight]
    /\ nround' = 1
    /\ pc' = "round"
    /\ answer' = None
    /\ UNCHANGED <<tree, offset, totals, i, todo, value, drawn>>

(* Variant: the power is squared.                                          *)
SquareRound ==
    /\ pc = "round"
    /\ nround < NEvents
    /\ nround' = nround * nround
    /\ UNCHANGED <<caller, tree, offset, totals, pc, i, todo, value, drawn>>

(* nround becomes the least power of 2 that is not below nevents.          *)
DoubleRound ==
    /\ pc = "round"
    /\ nround < NEvents
    /\ nround' = 2 * nround
    /\ UNCHANGED <<caller, tree, offset, totals, pc, i, todo, value, drawn>>

(* Variant: one leaf too few.                                              *)
FillTreeShort ==
    /\ pc = "round"
    /\ nround >= NEvents
    /\ offset' = nround - 1
    /\ tree' = [k \in 0 .. 2 * offset' |->
                  IF k - offset' \in 0 .. NEvents - 2 THEN propensity[k - offset'] ELSE 0]
    /\ i' = offset' - 1
    /\ pc' = "sum"
    /\ UNCHANGED <<caller, totals, nround, todo, value, drawn>>

(* The leaves beyond the last event are padding and stay 0.                *)
FillTree ==
    /\ pc = "round"
    /\ nround >= NEvents
    /\ offset' = nround - 1
    /\ tree' = [k \in 0 .. 2 * offset' |->
                  IF k - offset' \in EventIds THEN propensity[k - offset'] ELSE 0]
    /\ i' = offset' - 1
    /\ pc' = "sum"
    /\ UNCHANGED <<caller, totals, nround, todo, value, drawn>>

(* sum_tree(): from the last inner node to the root.                       *)
SumNode ==
    /\ pc = "sum"
    /\ i >= 0
    /\ tree' = [tree EXCEPT ![i] = tree[Left(i)] + tree[Right(i)]]
    /\ i' = i - 1
    /\ UNCHANGED <<caller, offset, totals, pc, nround, todo, value, drawn>>

ActiveLeaves == {k \in Leaves : tree[k] > 0}

SumDone ==
    /\ pc = "sum"
    /\ i < 0
    /\ sum' = tree[0]
    /\ num_active' = Cardinality(ActiveLeaves)
    /\ i' = 0 /\ nround' = 1
    /\ pc' = "idle"
    /\ UNCHANGED <<caller, tree, offset, todo, value, drawn>>

(* The application has computed the propensities of S afresh (those of a   *)
(* site and its neighbours, or of the border of a sector), calls update(). *)
StartUpdate(S) ==
    /\ pc = "idle"
    /\ \E w \in [S -> Weight] :
          propensity' = [e \in EventIds |-> IF e \in S THEN w[e] ELSE propensity[e]]
    /\ todo' = S
    /\ pc' = "update"
    /\ answer' = None
    /\ UNCHANGED <<tree, offset, totals, nround, i, value, drawn>>

(* Variant: an event that dies is not subtracted from the count.           *)
CountSet(old, new) == num_active + (IF new > 0 /\ old = 0 THEN 1 ELSE 0)

(* set(): the count of active events after a leaf goes from old to new.    *)
CountAfter(old, new) ==
    num_active - (IF old > 0 THEN 1 ELSE 0) + (IF new > 0 THEN 1 ELSE 0)

SetLeaf(e) ==
    /\ pc = "update"
    /\ e \in todo
    /\ num_active' = CountAfter(tree[offset + e], propensity[e])
    /\ tree' = [tree EXCEPT ![offset + e] = propensity[e]]
    /\ i' = offset + e
    /\ todo' = todo \ {e}
    /\ pc' = "climb"
    /\ UNCHANGED <<caller, offset, sum, nround, value, drawn>>

Climb ==
    /\ pc = "climb"
    /\ i > 0
    /\ tree' = [tree EXCEPT ![Parent(i)] = tree[i] + tree[Sibling(i)]]
    /\ i' = Parent(i)
    /\ UNCHANGED <<caller, offset, totals, pc, nround, todo, value, drawn>>

AtRoot ==
    /\ pc = "climb"
    /\ i = 0
    /\ sum' = tree[0]
    /\ pc' = "update"
    /\ UNCHANGED <<caller, tree, offset, num_active, nround, i, todo, value, drawn>>

UpdateDone ==
    /\ pc = "update"
    /\ todo = {}
    /\ pc' = "idle"
    /\ UNCHANGED <<caller, tree, offset, totals, nround, i, todo, value, drawn>>

(* event() when nothing can happen.                                        *)
NoneActive ==
    /\ pc = "idle"
    /\ sum = 0
    /\ answer' = NoEvent
    /\ UNCHANGED <<propensity, tree, offset, totals, pc, nround, i, todo, value, drawn>>

(* event() draws, and calls find().                                        *)
Draw ==
    /\ pc = "idle"
    /\ sum # 0
    /\ \E v \in 1 .. sum : value' = v /\ drawn' = v
    /\ i' = 0
    /\ pc' = "find"
    /\ UNCHANGED <<caller, tree, offset, totals, nround, todo>>

(* Variant: the value is not reduced by what lies to the left.             *)
DescendSameValue ==
    /\ pc = "find"
    /\ i < offset
    /\ i' = IF value <= tree[Left(i)] THEN Left(i) ELSE Right(i)
    /\ UNCHANGED <<caller, tree, offset, totals, pc, nround, todo, value, drawn>>

Descend ==
    /\ pc = "find"
    /\ i < offset
    /\ IF value <= tree[Left(i)]
       THEN i' = Left(i) /\ value' = value
       ELSE i' = Right(i) /\ value' = value - tree[Left(i)]
    /\ UNCHANGED <<caller, tree, offset, totals, pc, nround, todo, drawn>>

Found ==
    /\ pc = "find"
    /\ i >= offset
    /\ answer' = i - offset
    /\ i' = 0 /\ value' = 0 /\ drawn' = 0
    /\ pc' = "idle"
    /\ UNCHANGED <<propensity, tree, offset, totals, nround, todo>>

Step ==
    \/ DoubleRound \/ FillTree \/ SumNode \/ SumDone
    \/ (\E e \in EventIds : SetLeaf(e)) \/ Climb \/ AtRoot \/ UpdateDone
    \/ Descend \/ Found

Next ==
    \/ StartInit
    \/ \E S \in SUBSET EventIds : Cardinality(S) <= MaxBatch /\ StartUpdate(S)
    \/ NoneActive \/ Draw
    \/ Step

Spec == Init /\ [][Next]_vars
FairSpec == Spec /\ WF_vars(Step)

-----------------------------------------------------------------------------
(* Properties.                                                             *)

(* Every variable holds a value of its kind, and no loop leaves the array. *)
TypeOK ==
    /\ propensity \in [EventIds -> Weight]
    /\ offset \in Nat
    /\ tree \in [Nodes -> Nat]
    /\ sum \in Nat /\ num_active \in Int
    /\ pc \in {"round", "sum", "idle", "update", "climb", "find"}
    /\ nround \in Nat \ {0}
    /\ i \in Int
    /\ pc = "sum" => i \in -1 .. offset - 1
    /\ pc \in {"climb", "find"} => i \in Nodes
    /\ todo \subseteq EventIds
    /\ value \in Nat /\ drawn \in Nat
    /\ answer \in EventIds \cup {NoEvent, None}

SumsAt(k) == tree[k] = tree[Left(k)] + tree[Right(k)]

(* Whenever no call is running the tree is a tree of sums over the present *)
(* propensities, whatever the order in which the batches of updates hit    *)
(* it, and the total and the count, which dt_kmc is computed from          *)
(* (app_lattice.cpp:567), are those of the present propensities.           *)
TreeIsExact ==
    pc = "idle" =>
        /\ \A k \in Inner : SumsAt(k)
        /\ \A k \in Leaves : tree[k] = (IF k - offset \in EventIds
                                        THEN propensity[k - offset] ELSE 0)
        /\ sum = tree[0]
        /\ num_active = Cardinality({e \in EventIds : propensity[e] > 0})

(* Total propensity of the events before e.                                *)
Before[e \in 0 .. NEvents] ==
    IF e = 0 THEN 0 ELSE Before[e - 1] + propensity[e - 1]

(* An event is chosen for exactly propensity[e] of the sum equally likely  *)
(* values of the draw, those of its own interval: "relative probability of *)
(* a site performing a KMC event" (doc/diag_propensity.txt).               *)
DrawHitsItsEvent ==
    [][pc = "find" /\ pc' = "idle" =>
          /\ answer' \in EventIds
          /\ Before[answer'] < drawn
          /\ drawn <= Before[answer' + 1]
          /\ sum = Before[NEvents]]_vars

(* The tree solver keeps the promise of a solver.                          *)
Contract == INSTANCE Solver WITH known <- pc \in {"idle", "find"}

SolverContract == Contract!Spec

(* Every call returns.                                                     *)
CallsReturn == pc # "idle" ~> pc = "idle"
=============================================================================
