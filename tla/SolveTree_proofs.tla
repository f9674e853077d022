-------------------------- MODULE SolveTree_proofs --------------------------
(***************************************************************************)
(* Proofs about SolveTree for every number of events and every set of      *)
(* propensities.                                                           *)
(*                                                                         *)
(* The argument.  While set() climbs from a node, the sum can be wrong at  *)
(* the parent of that node only; while find() descends, the value lies in  *)
(* 1 .. tree[i], so it never enters a subtree without an active event and  *)
(* in particular never ends on a padding leaf.  That event() answers -1    *)
(* only when nothing is active needs that a tree of sums with a zero root  *)
(* is zero: a positive node of least index would have a zero parent.       *)
(*                                                                         *)
(* A node of the tree spans 2^k leaves in a row and holds their sum, so    *)
(* what find() subtracts on its way down are the sums of all the leaves to *)
(* the left of where it ends.                                              *)
(***************************************************************************)
EXTENDS SolveTree, DataLemmas, FiniteSetTheorems, TLAPS

-----------------------------------------------------------------------------
(* The invariant.                                                          *)

Ready == pc \notin {"round", "sum"}

(* All the events have a leaf, once the tree is built.                     *)
RoomForLeaves == pc # "round" => NEvents <= offset + 1

(* What the leaves hold: the propensities, but for those still to be set.  *)
LeavesHold ==
    pc # "round" =>
        \A k \in Leaves :
            IF k - offset \in EventIds
            THEN k - offset \notin todo => tree[k] = propensity[k - offset]
            ELSE tree[k] = 0

(* Where the sums hold.                                                    *)
SumsHold ==
    /\ pc = "sum" => \A k \in Inner : k > i => SumsAt(k)
    /\ pc = "climb" => \A k \in Inner : (i > 0 /\ k = Parent(i)) \/ SumsAt(k)
    /\ pc \in {"idle", "update", "find"} => (\A k \in Inner : SumsAt(k)) /\ sum = tree[0]

CountHolds == Ready => num_active = Cardinality(ActiveLeaves)

TodoHolds == todo # {} => pc \in {"update", "climb"}

ValueInSubtree == pc = "find" => 0 < value /\ value <= tree[i]

IInv ==
    /\ TypeOK
    /\ RoomForLeaves
    /\ LeavesHold
    /\ SumsHold
    /\ CountHolds
    /\ TodoHolds
    /\ ValueInSubtree

-----------------------------------------------------------------------------
(* Lemmas about the array.                                                 *)

(* Parent, Sibling, Left and Right fit together.                           *)
LEMMA TreeIndex ==
    ASSUME NEW k \in Nodes, k > 0, offset \in Nat
    PROVE  /\ Parent(k) \in Inner
           /\ Parent(k) < k
           /\ Sibling(k) \in Nodes
           /\ \/ k = Left(Parent(k)) /\ Sibling(k) = Right(Parent(k))
              \/ k = Right(Parent(k)) /\ Sibling(k) = Left(Parent(k))
BY DEF Nodes, Inner, Parent, Sibling, Left, Right

(* The children of an inner node are nodes, and an inner node has them to  *)
(* itself.                                                                 *)
LEMMA Children ==
    ASSUME NEW k \in Inner, offset \in Nat
    PROVE  /\ Left(k) \in Nodes /\ Right(k) \in Nodes
           /\ Left(k) > 0 /\ Right(k) > 0
           /\ k \in Nodes /\ k \notin Leaves
           /\ Parent(Left(k)) = k /\ Parent(Right(k)) = k
           /\ Left(k) # k /\ Right(k) # k
BY DEF Nodes, Inner, Leaves, Parent, Left, Right

(* Every node is an inner node or a leaf.                                  *)
LEMMA NodesAreInnerOrLeaves ==
    ASSUME offset \in Nat
    PROVE  /\ Leaves \subseteq Nodes
           /\ Nodes = Inner \cup Leaves
           /\ Inner \cap Leaves = {}
           /\ 0 \in Nodes
BY DEF Nodes, Inner, Leaves

(* The leaves can be counted.                                              *)
LEMMA FiniteLeaves ==
    ASSUME offset \in Nat, NEW S \in SUBSET Leaves
    PROVE  IsFiniteSet(S)
<1>1. offset \in Int /\ 2 * offset \in Int
  OBVIOUS
<1>2. IsFiniteSet(Leaves)
  BY <1>1, FS_Interval DEF Leaves
<1> QED BY <1>2, FS_Subset

(* A tree of sums with a zero root is zero.                                *)
LEMMA ZeroTree ==
    ASSUME offset \in Nat, tree \in [Nodes -> Nat],
           \A k \in Inner : SumsAt(k),
           tree[0] = 0
    PROVE  \A k \in Nodes : tree[k] = 0
<1> DEFINE T == {k \in Nodes : tree[k] # 0}
<1>1. SUFFICES ASSUME T # {} PROVE FALSE
  OBVIOUS
<1>2. T \in SUBSET Nat
  BY DEF Nodes
<1>4. PICK x \in T : \A y \in T : x <= y
  <2> HIDE DEF T
  <2> QED BY <1>1, <1>2, LeastElement
<1>5. x \in Nodes /\ x > 0 /\ tree[x] # 0
  BY <1>2 DEF Nodes
<1>6. Parent(x) \in Inner /\ Parent(x) < x
  BY <1>5, TreeIndex
<1>7. Parent(x) \in Nodes /\ tree[Parent(x)] = 0
  <2>1. Parent(x) \in Nodes /\ Parent(x) \in Nat /\ x \in Nat
    BY <1>5, <1>6, Children DEF Inner, Nodes
  <2> QED BY <1>4, <1>6, <2>1
<1>8. tree[Left(Parent(x))] + tree[Right(Parent(x))] = 0
  BY <1>6, <1>7 DEF SumsAt
<1>9. Left(Parent(x)) \in Nodes /\ Right(Parent(x)) \in Nodes
  BY <1>6, Children
<1>10. tree[Left(Parent(x))] = 0 /\ tree[Right(Parent(x))] = 0
  BY <1>8, <1>9
<1> QED BY <1>5, <1>10, TreeIndex

-----------------------------------------------------------------------------
(* The invariant is inductive.                                             *)

LEMMA InitIInv == Init => IInv
<1> SUFFICES ASSUME Init PROVE IInv
  OBVIOUS
<1> QED BY WeightAssumption, NEventsAssumption
        DEF Init, IInv, TypeOK, RoomForLeaves, LeavesHold, SumsHold, CountHolds,
            TodoHolds, ValueInSubtree, Ready, Nodes, Inner, Leaves, EventIds, None

(* Steps that leave the tree and the batch alone.                          *)
LEMMA QuietSteps ==
    ASSUME IInv,
           StartInit \/ DoubleRound \/ NoneActive \/ Draw \/ UpdateDone
    PROVE  IInv'
<1> USE DEF IInv
<1>0. ActiveLeaves' = ActiveLeaves /\ Nodes' = Nodes /\ Inner' = Inner /\ Leaves' = Leaves
  BY DEF StartInit, DoubleRound, NoneActive, Draw, UpdateDone,
         ActiveLeaves, Nodes, Inner, Leaves, totals, caller
<1> USE DEF TypeOK
<1>1. CASE StartInit
  BY <1>0, <1>1 DEF StartInit, RoomForLeaves, LeavesHold, SumsHold, CountHolds, TodoHolds,
     ValueInSubtree, Ready, totals, caller, None
<1>2. CASE DoubleRound
  BY <1>0, <1>2 DEF DoubleRound, RoomForLeaves, LeavesHold, SumsHold, CountHolds, TodoHolds,
     ValueInSubtree, Ready, totals, caller
<1>3. CASE NoneActive
  BY <1>0, <1>3 DEF NoneActive, RoomForLeaves, LeavesHold, SumsHold, SumsAt, CountHolds, TodoHolds,
     ValueInSubtree, Ready, totals, caller, NoEvent
<1>4. CASE Draw
  BY <1>0, <1>4, NodesAreInnerOrLeaves DEF Draw, RoomForLeaves, LeavesHold, SumsHold, SumsAt, CountHolds, TodoHolds,
     ValueInSubtree, Ready, totals, caller
<1>5. CASE UpdateDone
  BY <1>0, <1>5 DEF UpdateDone, RoomForLeaves, LeavesHold, SumsHold, SumsAt, CountHolds, TodoHolds,
     ValueInSubtree, Ready, totals, caller
<1> QED BY <1>1, <1>2, <1>3, <1>4, <1>5

(* The loops of init().                                                    *)
LEMMA BuildSteps ==
    ASSUME IInv, FillTree \/ SumNode \/ SumDone
    PROVE  IInv'
<1> USE DEF IInv, TypeOK
<1>1. CASE FillTree
  <2>1. /\ offset' = nround - 1 /\ offset' \in Nat
        /\ NEvents <= offset' + 1
        /\ todo = {} /\ todo' = {}
        /\ pc' = "sum" /\ i' = offset' - 1
        /\ UNCHANGED <<propensity, sum, num_active, nround, value, drawn, answer>>
    BY <1>1, NEventsAssumption DEF FillTree, TodoHolds, caller, totals
  <2>2. tree' = [k \in Nodes' |->
                  IF k - offset' \in EventIds THEN propensity[k - offset'] ELSE 0]
    BY <1>1 DEF FillTree, Nodes
  <2>3. tree' \in [Nodes' -> Nat]
    BY <2>2, WeightAssumption
  <2>4. TypeOK'
    BY <2>1, <2>3
  <2>5. LeavesHold'
    BY <2>1, <2>2, NodesAreInnerOrLeaves DEF LeavesHold, Leaves, Nodes
  <2> QED BY <2>1, <2>4, <2>5
          DEF RoomForLeaves, SumsHold, CountHolds, TodoHolds, ValueInSubtree, Ready, Inner
<1>2. CASE SumNode
  <2>1. /\ pc = "sum" /\ pc' = "sum"
        /\ i \in Inner /\ i' = i - 1
        /\ tree' = [tree EXCEPT ![i] = tree[Left(i)] + tree[Right(i)]]
        /\ UNCHANGED <<propensity, offset, sum, num_active, nround, todo, value, drawn, answer>>
    BY <1>2 DEF SumNode, caller, totals, Inner
  <2>2. /\ Left(i) \in Nodes /\ Right(i) \in Nodes /\ i \in Nodes /\ i \notin Leaves
        /\ Left(i) # i /\ Right(i) # i
        /\ Parent(Left(i)) = i /\ Parent(Right(i)) = i
    BY <2>1, Children
  <2>3. /\ tree' \in [Nodes -> Nat]
        /\ tree'[i] = tree[Left(i)] + tree[Right(i)]
        /\ \A k \in Nodes : k # i => tree'[k] = tree[k]
    <3>1. tree[Left(i)] \in Nat /\ tree[Right(i)] \in Nat
      BY <2>2
    <3>2. tree[Left(i)] + tree[Right(i)] \in Nat
      BY <3>1
    <3> QED BY <2>1, <2>2, <3>2
  <2>4. Nodes' = Nodes /\ Inner' = Inner /\ Leaves' = Leaves
    BY <2>1 DEF Nodes, Inner, Leaves
  <2>5. TypeOK'
    BY <2>1, <2>3, <2>4 DEF Inner
  <2>6. LeavesHold'
    BY <2>1, <2>2, <2>3, <2>4, NodesAreInnerOrLeaves DEF LeavesHold
  <2>7. ASSUME NEW k \in Inner, k > i' PROVE SumsAt(k)'
    <3>1. Left(k) \in Nodes /\ Right(k) \in Nodes /\ Left(k) > k /\ Right(k) > k
      <4>1. Left(k) \in Nodes /\ Right(k) \in Nodes
        BY Children
      <4>2. k \in Nat
        BY DEF Inner
      <4> QED BY <4>1, <4>2 DEF Left, Right
    <3>2. Left(k) # i /\ Right(k) # i
      BY <2>1, <2>7, <3>1 DEF Inner, Nodes
    <3>3. CASE k = i
      BY <2>2, <2>3, <3>3 DEF SumsAt
    <3>4. CASE k # i
      <4>1. SumsAt(k)
        BY <2>1, <2>7, <3>4 DEF SumsHold, Inner
      <4> QED BY <2>3, <3>1, <3>2, <3>4, <4>1, Children DEF SumsAt
    <3> QED BY <3>3, <3>4
  <2> QED BY <2>1, <2>4, <2>5, <2>6, <2>7
          DEF RoomForLeaves, SumsHold, CountHolds, TodoHolds, ValueInSubtree, Ready
<1>3. CASE SumDone
  <2>1. /\ pc = "sum" /\ pc' = "idle" /\ i < 0 /\ i' = 0 /\ nround' = 1
        /\ sum' = tree[0] /\ num_active' = Cardinality(ActiveLeaves)
        /\ UNCHANGED <<propensity, tree, offset, todo, value, drawn, answer>>
    BY <1>3 DEF SumDone, caller
  <2>2. ActiveLeaves' = ActiveLeaves /\ Nodes' = Nodes /\ Inner' = Inner /\ Leaves' = Leaves
    BY <2>1 DEF ActiveLeaves, Nodes, Inner, Leaves
  <2>3. IsFiniteSet(ActiveLeaves)
    BY FiniteLeaves DEF ActiveLeaves
  <2>4. num_active' \in Nat
    BY <2>1, <2>3, FS_CardinalityType
  <2>5. sum' \in Nat
    BY <2>1, NodesAreInnerOrLeaves
  <2>6. TypeOK'
    BY <2>1, <2>2, <2>4, <2>5
  <2>7. SumsHold'
    BY <2>1, <2>2 DEF SumsHold, SumsAt, Inner
  <2> QED BY <2>1, <2>2, <2>6, <2>7
          DEF RoomForLeaves, LeavesHold, CountHolds, TodoHolds, ValueInSubtree, Ready
<1> QED BY <1>1, <1>2, <1>3

(* The loops of update() and set().                                        *)
LEMMA StartUpdateStep ==
    ASSUME IInv, NEW S \in SUBSET EventIds, StartUpdate(S)
    PROVE  IInv'
<1> USE DEF IInv, TypeOK
<1>1. /\ pc = "idle" /\ pc' = "update" /\ todo' = S /\ todo = {} /\ answer' = None
      /\ UNCHANGED <<tree, offset, sum, num_active, nround, i, value, drawn>>
  BY DEF StartUpdate, TodoHolds, totals
<1>2. PICK w \in [S -> Weight] :
        propensity' = [e \in EventIds |-> IF e \in S THEN w[e] ELSE propensity[e]]
  BY DEF StartUpdate
<1>3. propensity' \in [EventIds -> Weight]
  BY <1>2
<1>4. ActiveLeaves' = ActiveLeaves /\ Nodes' = Nodes /\ Inner' = Inner /\ Leaves' = Leaves
  BY <1>1 DEF ActiveLeaves, Nodes, Inner, Leaves
<1>5. TypeOK'
  BY <1>1, <1>3, <1>4
<1>6. LeavesHold'
  BY <1>1, <1>2, <1>4 DEF LeavesHold
<1>7. SumsHold'
  BY <1>1, <1>4 DEF SumsHold, SumsAt
<1> QED BY <1>1, <1>4, <1>5, <1>6, <1>7
        DEF RoomForLeaves, CountHolds, TodoHolds, ValueInSubtree, Ready

(* set() writes a leaf and adjusts the count.                              *)
LEMMA SetLeafStep ==
    ASSUME IInv, NEW e \in EventIds, SetLeaf(e)
    PROVE  IInv'
<1> USE DEF IInv, TypeOK
<1> DEFINE L == offset + e
           new == propensity[e]
<1>1. /\ pc = "update" /\ pc' = "climb" /\ e \in todo /\ todo' = todo \ {e} /\ i' = L
      /\ num_active' = CountAfter(tree[L], new)
      /\ tree' = [tree EXCEPT ![L] = new]
      /\ UNCHANGED <<propensity, offset, sum, nround, value, drawn, answer>>
  BY DEF SetLeaf, caller
<1>2. L \in Leaves /\ L \in Nodes /\ L \notin Inner /\ L - offset = e
  BY <1>1, NEventsAssumption DEF RoomForLeaves, EventIds, Leaves, Nodes, Inner
<1>3. new \in Nat
  BY WeightAssumption
<1>4. /\ tree' \in [Nodes -> Nat]
      /\ tree'[L] = new
      /\ \A k \in Nodes : k # L => tree'[k] = tree[k]
  BY <1>1, <1>2, <1>3
<1>5. Nodes' = Nodes /\ Inner' = Inner /\ Leaves' = Leaves
  BY <1>1 DEF Nodes, Inner, Leaves
<1>6. CountHolds' /\ num_active' \in Int
  <2>1. num_active = Cardinality(ActiveLeaves)
    BY <1>1 DEF CountHolds, Ready
  <2>2. IsFiniteSet(ActiveLeaves) /\ IsFiniteSet(ActiveLeaves \cup {L})
    BY FiniteLeaves, <1>2 DEF ActiveLeaves
  <2>3. Cardinality(ActiveLeaves) \in Int
    BY <2>2, FS_CardinalityType
  <2>4. L \in ActiveLeaves <=> tree[L] > 0
    BY <1>2 DEF ActiveLeaves
  <2>5. CASE new > 0
    <3>1. ActiveLeaves' = ActiveLeaves \cup {L}
      BY <1>2, <1>4, <1>5, <2>5, NodesAreInnerOrLeaves DEF ActiveLeaves
    <3>2. Cardinality(ActiveLeaves') =
            IF L \in ActiveLeaves THEN Cardinality(ActiveLeaves) ELSE Cardinality(ActiveLeaves) + 1
      BY <2>2, <3>1, FS_AddElement
    <3> QED BY <1>1, <2>1, <2>3, <2>4, <2>5, <3>2 DEF CountHolds, CountAfter
  <2>6. CASE ~ (new > 0)
    <3>1. ActiveLeaves' = ActiveLeaves \ {L}
      BY <1>2, <1>4, <1>5, <2>6, NodesAreInnerOrLeaves DEF ActiveLeaves
    <3>2. Cardinality(ActiveLeaves') =
            IF L \in ActiveLeaves THEN Cardinality(ActiveLeaves) - 1 ELSE Cardinality(ActiveLeaves)
      BY <2>2, <3>1, FS_RemoveElement
    <3> QED BY <1>1, <2>1, <2>3, <2>4, <2>6, <3>2 DEF CountHolds, CountAfter
  <2> QED BY <2>5, <2>6
<1>7. TypeOK'
  BY <1>1, <1>2, <1>4, <1>5, <1>6 DEF Nodes
<1>8. LeavesHold'
  <2>1. SUFFICES ASSUME NEW k \in Leaves
                 PROVE  IF k - offset \in EventIds
                        THEN k - offset \notin todo' => tree'[k] = propensity[k - offset]
                        ELSE tree'[k] = 0
    BY <1>1, <1>5 DEF LeavesHold
  <2>2. k \in Nodes
    BY NodesAreInnerOrLeaves
  <2>3. IF k - offset \in EventIds
        THEN k - offset \notin todo => tree[k] = propensity[k - offset]
        ELSE tree[k] = 0
    BY <1>1 DEF LeavesHold
  <2>4. k # L => k - offset # e
    BY DEF Leaves, EventIds
  <2> QED BY <1>1, <1>2, <1>4, <2>2, <2>3, <2>4
<1>9. ASSUME NEW k \in Inner PROVE (L > 0 /\ k = Parent(L)) \/ SumsAt(k)'
  <2>1. SumsAt(k)
    BY <1>1 DEF SumsHold
  <2>2. /\ Left(k) \in Nodes /\ Right(k) \in Nodes /\ k \in Nodes
        /\ Parent(Left(k)) = k /\ Parent(Right(k)) = k
        /\ Left(k) > 0 /\ Right(k) > 0
    BY Children
  <2> QED BY <1>2, <1>4, <2>1, <2>2 DEF SumsAt
<1> QED BY <1>1, <1>5, <1>6, <1>7, <1>8, <1>9
        DEF RoomForLeaves, SumsHold, TodoHolds, ValueInSubtree

(* set() climbs: it mends the parent, and may break the grandparent.       *)
LEMMA ClimbStep ==
    ASSUME IInv, Climb
    PROVE  IInv'
<1> USE DEF IInv, TypeOK
<1> DEFINE P == Parent(i)
<1>1. /\ pc = "climb" /\ pc' = "climb" /\ i \in Nodes /\ i > 0 /\ i' = P
      /\ tree' = [tree EXCEPT ![P] = tree[i] + tree[Sibling(i)]]
      /\ UNCHANGED <<propensity, offset, sum, num_active, nround, todo, value, drawn, answer>>
  BY DEF Climb, caller, totals
<1>2. /\ P \in Inner /\ P < i /\ Sibling(i) \in Nodes
      /\ \/ i = Left(P) /\ Sibling(i) = Right(P)
         \/ i = Right(P) /\ Sibling(i) = Left(P)
  BY <1>1, TreeIndex
<1>3. P \in Nodes /\ P \notin Leaves
  BY <1>2, Children
<1>4. /\ tree' \in [Nodes -> Nat]
      /\ tree'[P] = tree[i] + tree[Sibling(i)]
      /\ \A k \in Nodes : k # P => tree'[k] = tree[k]
  <2>1. tree[i] \in Nat /\ tree[Sibling(i)] \in Nat
    BY <1>1, <1>2
  <2>2. tree[i] + tree[Sibling(i)] \in Nat
    BY <2>1
  <2> QED BY <1>1, <1>3, <2>2
<1>5. Nodes' = Nodes /\ Inner' = Inner /\ Leaves' = Leaves
  BY <1>1 DEF Nodes, Inner, Leaves
<1>6. ActiveLeaves' = ActiveLeaves
  BY <1>3, <1>4, <1>5, NodesAreInnerOrLeaves DEF ActiveLeaves
<1>7. TypeOK'
  BY <1>1, <1>3, <1>4, <1>5 DEF Nodes
<1>8. LeavesHold'
  BY <1>1, <1>3, <1>4, <1>5, NodesAreInnerOrLeaves DEF LeavesHold
<1>9. ASSUME NEW k \in Inner PROVE (P > 0 /\ k = Parent(P)) \/ SumsAt(k)'
  <2>1. /\ Left(k) \in Nodes /\ Right(k) \in Nodes /\ k \in Nodes
        /\ Parent(Left(k)) = k /\ Parent(Right(k)) = k
        /\ Left(k) # k /\ Right(k) # k
        /\ Left(k) > 0 /\ Right(k) > 0
    BY Children
  <2>2. CASE k = P
    <3>1. tree'[k] = tree[Left(k)] + tree[Right(k)]
      <4>1. tree[Left(k)] \in Nat /\ tree[Right(k)] \in Nat
        BY <2>1
      <4> QED BY <1>2, <1>4, <2>2, <4>1
    <3> QED BY <1>4, <2>1, <2>2, <3>1 DEF SumsAt
  <2>3. CASE k # P
    <3>1. SumsAt(k)
      BY <1>1, <2>3 DEF SumsHold
    <3> QED BY <1>4, <2>1, <2>3, <3>1 DEF SumsAt
  <2> QED BY <2>2, <2>3
<1> QED BY <1>1, <1>5, <1>6, <1>7, <1>8, <1>9
        DEF RoomForLeaves, SumsHold, CountHolds, Ready, TodoHolds, ValueInSubtree

(* At the root no parent is left to be wrong.                              *)
LEMMA AtRootStep ==
    ASSUME IInv, AtRoot
    PROVE  IInv'
<1> USE DEF IInv, TypeOK
<1>1. /\ pc = "climb" /\ pc' = "update" /\ i = 0 /\ sum' = tree[0]
      /\ UNCHANGED <<propensity, tree, offset, num_active, nround, i, todo, value, drawn, answer>>
  BY DEF AtRoot, caller
<1>2. ActiveLeaves' = ActiveLeaves /\ Nodes' = Nodes /\ Inner' = Inner /\ Leaves' = Leaves
  BY <1>1 DEF ActiveLeaves, Nodes, Inner, Leaves
<1>3. sum' \in Nat
  BY <1>1, NodesAreInnerOrLeaves
<1>4. \A k \in Inner : SumsAt(k)
  BY <1>1 DEF SumsHold
<1>5. SumsHold'
  BY <1>1, <1>2, <1>4 DEF SumsHold, SumsAt
<1> QED BY <1>1, <1>2, <1>3, <1>5
        DEF RoomForLeaves, LeavesHold, CountHolds, Ready, TodoHolds, ValueInSubtree

(* find() descends into the child that holds the value.                    *)
LEMMA DescendStep ==
    ASSUME IInv, Descend
    PROVE  IInv'
<1> USE DEF IInv, TypeOK
<1>1. /\ pc = "find" /\ pc' = "find" /\ i < offset
      /\ UNCHANGED <<propensity, tree, offset, sum, num_active, nround, todo, drawn, answer>>
  BY DEF Descend, caller, totals
<1>2. i \in Inner
  BY <1>1 DEF Nodes, Inner
<1>3. Left(i) \in Nodes /\ Right(i) \in Nodes /\ i \in Nodes
  BY <1>2, Children
<1>4. tree[Left(i)] \in Nat /\ tree[Right(i)] \in Nat /\ tree[i] = tree[Left(i)] + tree[Right(i)]
  BY <1>1, <1>2, <1>3 DEF SumsHold, SumsAt
<1>5. i' \in Nodes /\ value' \in Nat /\ 0 < value' /\ value' <= tree[i']
  BY <1>1, <1>3, <1>4 DEF Descend, ValueInSubtree
<1>6. ActiveLeaves' = ActiveLeaves /\ Nodes' = Nodes /\ Inner' = Inner /\ Leaves' = Leaves
  BY <1>1 DEF ActiveLeaves, Nodes, Inner, Leaves
<1>7. TypeOK'
  BY <1>1, <1>5, <1>6 DEF Nodes
<1>8. SumsHold'
  BY <1>1, <1>6 DEF SumsHold, SumsAt
<1> QED BY <1>1, <1>5, <1>6, <1>7, <1>8
        DEF RoomForLeaves, LeavesHold, CountHolds, Ready, TodoHolds, ValueInSubtree

(* The leaf find() ends on is that of an active event.                     *)
LEMMA FoundIsActive ==
    ASSUME IInv, Found
    PROVE  answer' \in EventIds /\ propensity[answer'] > 0
<1> USE DEF IInv, TypeOK
<1>1. pc = "find" /\ i \in Leaves /\ answer' = i - offset /\ todo = {}
  BY DEF Found, Nodes, Leaves, TodoHolds
<1>2. tree[i] > 0
  <2>1. tree[i] \in Nat /\ 0 < value /\ value <= tree[i]
    BY <1>1, NodesAreInnerOrLeaves DEF ValueInSubtree
  <2> QED BY <2>1
<1> QED BY <1>1, <1>2 DEF LeavesHold

LEMMA FoundStep ==
    ASSUME IInv, Found
    PROVE  IInv'
<1> USE DEF IInv, TypeOK
<1>1. /\ pc = "find" /\ pc' = "idle" /\ i' = 0 /\ value' = 0 /\ drawn' = 0
      /\ UNCHANGED <<propensity, tree, offset, sum, num_active, nround, todo>>
  BY DEF Found, totals
<1>2. ActiveLeaves' = ActiveLeaves /\ Nodes' = Nodes /\ Inner' = Inner /\ Leaves' = Leaves
  BY <1>1 DEF ActiveLeaves, Nodes, Inner, Leaves
<1>3. TypeOK'
  BY <1>1, <1>2, FoundIsActive
<1>4. SumsHold'
  BY <1>1, <1>2 DEF SumsHold, SumsAt
<1> QED BY <1>1, <1>2, <1>3, <1>4
        DEF RoomForLeaves, LeavesHold, CountHolds, Ready, TodoHolds, ValueInSubtree

(* Every step preserves the invariant.                                     *)
LEMMA StepIInv == IInv /\ [Next]_vars => IInv'
<1> SUFFICES ASSUME IInv, [Next]_vars PROVE IInv'
  OBVIOUS
<1>1. CASE StartInit \/ DoubleRound \/ NoneActive \/ Draw \/ UpdateDone
  BY <1>1, QuietSteps
<1>2. CASE FillTree \/ SumNode \/ SumDone
  BY <1>2, BuildSteps
<1>3. CASE \E S \in SUBSET EventIds : Cardinality(S) <= MaxBatch /\ StartUpdate(S)
  BY <1>3, StartUpdateStep
<1>4. CASE \E e \in EventIds : SetLeaf(e)
  BY <1>4, SetLeafStep
<1>5. CASE Climb
  BY <1>5, ClimbStep
<1>6. CASE AtRoot
  BY <1>6, AtRootStep
<1>7. CASE Descend
  BY <1>7, DescendStep
<1>8. CASE Found
  BY <1>8, FoundStep
<1>9. CASE UNCHANGED vars
  <2>1. /\ ActiveLeaves' = ActiveLeaves /\ Nodes' = Nodes /\ Inner' = Inner /\ Leaves' = Leaves
        /\ UNCHANGED <<propensity, tree, offset, sum, num_active, pc, nround, i, todo,
                        value, drawn, answer>>
    BY <1>9 DEF vars, ActiveLeaves, Nodes, Inner, Leaves
  <2> QED BY <2>1 DEF IInv, TypeOK, RoomForLeaves, LeavesHold, SumsHold, SumsAt, CountHolds,
             Ready, TodoHolds, ValueInSubtree
<1> QED BY <1>1, <1>2, <1>3, <1>4, <1>5, <1>6, <1>7, <1>8, <1>9 DEF Next, Step

(* The inductive invariant holds in every reachable state.                 *)
THEOREM Invariance == Spec => []IInv
BY InitIInv, StepIInv, PTL DEF Spec

-----------------------------------------------------------------------------
(* What follows.                                                           *)

(* Every variable keeps its kind and no loop leaves the tree array, for    *)
(* every number of events, powers of two or not.                           *)
THEOREM TypeCorrect == Spec => []TypeOK
<1>1. IInv => TypeOK
  BY DEF IInv
<1> QED BY <1>1, Invariance, PTL

(* When no call is running, the leaves are the active propensities, one    *)
(* for one.                                                                *)
LEMMA CountOfLeaves ==
    ASSUME IInv, pc \in {"idle", "find"}
    PROVE  num_active = Cardinality({e \in EventIds : propensity[e] > 0})
<1> USE DEF IInv, TypeOK
<1> DEFINE A == {e \in EventIds : propensity[e] > 0}
           f == [k \in ActiveLeaves |-> k - offset]
<1>1. todo = {} /\ NEvents <= offset + 1
  BY DEF TodoHolds, RoomForLeaves
<1>2. \A k \in ActiveLeaves : k - offset \in A
  <2>1. SUFFICES ASSUME NEW k \in ActiveLeaves PROVE k - offset \in A
    OBVIOUS
  <2>2. k \in Leaves /\ tree[k] > 0
    BY DEF ActiveLeaves
  <2> QED BY <1>1, <2>2 DEF LeavesHold
<1>3. \A e \in A : offset + e \in ActiveLeaves
  <2>1. SUFFICES ASSUME NEW e \in A PROVE offset + e \in ActiveLeaves
    OBVIOUS
  <2>2. offset + e \in Leaves /\ (offset + e) - offset = e
    BY <1>1, NEventsAssumption DEF Leaves, EventIds
  <2> QED BY <1>1, <2>2 DEF LeavesHold, ActiveLeaves
<1>4. f \in Bijection(ActiveLeaves, A)
  <2>1. f \in [ActiveLeaves -> A]
    BY <1>2
  <2>2. \A k, l \in ActiveLeaves : f[k] = f[l] => k = l
    BY DEF ActiveLeaves, Leaves
  <2>3. \A e \in A : \E k \in ActiveLeaves : f[k] = e
    <3>1. SUFFICES ASSUME NEW e \in A PROVE f[offset + e] = e
      BY <1>3
    <3> QED BY <1>3 DEF EventIds
  <2> HIDE DEF f, A
  <2> QED BY <2>1, <2>2, <2>3 DEF Bijection, Injection, Surjection, IsInjective
<1>5. IsFiniteSet(ActiveLeaves)
  BY FiniteLeaves DEF ActiveLeaves
<1>6. ExistsBijection(ActiveLeaves, A)
  BY <1>4 DEF ExistsBijection
<1>7. Cardinality(A) = Cardinality(ActiveLeaves)
  <2> HIDE DEF A
  <2> QED BY <1>5, <1>6, FS_Bijection
<1> QED BY <1>7 DEF CountHolds, Ready

(* The tree, the total and the count are those of the present propensities *)
(* whenever no call is running.                                            *)
THEOREM TreeStaysExact == Spec => []TreeIsExact
<1>1. IInv => TreeIsExact
  <2> SUFFICES ASSUME IInv, pc = "idle"
               PROVE  /\ \A k \in Inner : SumsAt(k)
                      /\ \A k \in Leaves : tree[k] = (IF k - offset \in EventIds
                                                     THEN propensity[k - offset] ELSE 0)
                      /\ sum = tree[0]
                      /\ num_active = Cardinality({e \in EventIds : propensity[e] > 0})
    BY DEF TreeIsExact
  <2>1. todo = {}
    BY DEF IInv, TypeOK, TodoHolds
  <2>2. num_active = Cardinality({e \in EventIds : propensity[e] > 0})
    BY CountOfLeaves
  <2> QED BY <2>1, <2>2 DEF IInv, SumsHold, LeavesHold
<1> QED BY <1>1, Invariance, PTL

(* A zero total means that no event is active.                             *)
LEMMA ZeroMeansNone ==
    ASSUME IInv, pc = "idle"
    PROVE  sum = 0 => \A e \in EventIds : ~ (propensity[e] > 0)
<1> USE DEF IInv, TypeOK
<1>1. /\ todo = {} /\ NEvents <= offset + 1 /\ sum = tree[0]
      /\ \A k \in Inner : SumsAt(k)
  BY DEF TodoHolds, RoomForLeaves, SumsHold
<1>2. ASSUME NEW e \in EventIds
      PROVE  offset + e \in Leaves /\ tree[offset + e] = propensity[e]
  <2>1. offset + e \in Leaves /\ (offset + e) - offset = e
    BY <1>1, NEventsAssumption DEF Leaves, EventIds
  <2> QED BY <1>1, <2>1 DEF LeavesHold
<1>3. ASSUME sum = 0 PROVE \A e \in EventIds : ~ (propensity[e] > 0)
  <2>1. \A k \in Nodes : tree[k] = 0
    BY <1>1, <1>3, ZeroTree
  <2> QED BY <1>2, <2>1, NodesAreInnerOrLeaves
<1> QED BY <1>3

(* The tree solver implements the contract of a solver: its event() gives  *)
(* an active event of the present propensities, or -1 when there is none.  *)
THEOREM ImplementsSolver == Spec => SolverContract
<1> DEFINE known == pc \in {"idle", "find"}
<1>1. Init => Contract!Init
  BY DEF Init, Contract!Init, Contract!EventIds, EventIds, None, Contract!None
<1>2. IInv /\ [Next]_vars => [Contract!Next]_<<propensity, known, answer>>
  <2> SUFFICES ASSUME IInv, [Next]_vars
               PROVE  Contract!Next \/ UNCHANGED <<propensity, known, answer>>
    OBVIOUS
  <2> USE DEF Contract!Next, Contract!EventIds, EventIds, Contract!None, None,
              Contract!NoEvent, NoEvent, Contract!Active
  <2>1. CASE StartInit
    BY <2>1 DEF StartInit, Contract!Change
  <2>2. CASE \E S \in SUBSET EventIds : Cardinality(S) <= MaxBatch /\ StartUpdate(S)
    <3>1. PICK S \in SUBSET EventIds : StartUpdate(S)
      BY <2>2
    <3>2. PICK w \in [S -> Weight] :
            propensity' = [e \in EventIds |-> IF e \in S THEN w[e] ELSE propensity[e]]
      BY <3>1 DEF StartUpdate
    <3>3. propensity' \in [EventIds -> Weight]
      BY <3>2 DEF IInv, TypeOK
    <3> QED BY <3>1, <3>3 DEF StartUpdate, Contract!Change
  <2>3. CASE SumDone \/ UpdateDone
    BY <2>3 DEF SumDone, UpdateDone, caller, Contract!Learn
  <2>4. CASE NoneActive
    <3>1. \A e \in EventIds : ~ (propensity[e] > 0)
      BY <2>4, ZeroMeansNone DEF NoneActive
    <3> QED BY <2>4, <3>1 DEF NoneActive, Contract!Choose
  <2>5. CASE Found
    <3>1. answer' \in EventIds /\ propensity[answer'] > 0
      BY <2>5, FoundIsActive
    <3> QED BY <2>5, <3>1 DEF Found, Contract!Choose
  <2>6. CASE DoubleRound \/ FillTree \/ SumNode \/ (\E e \in EventIds : SetLeaf(e))
             \/ Climb \/ AtRoot \/ Draw \/ Descend \/ UNCHANGED vars
    BY <2>6 DEF DoubleRound, FillTree, SumNode, SetLeaf, Climb, AtRoot, Draw, Descend,
                vars, caller
  <2> QED BY <2>1, <2>2, <2>3, <2>4, <2>5, <2>6 DEF Next, Step
<1> QED BY <1>1, <1>2, Invariance, PTL DEF Spec, SolverContract, Contract!Spec

-----------------------------------------------------------------------------
(* Which event a draw hits.  A node has below it 2^d neighbouring leaves,  *)
(* its sum is the propensity of their events, and what find() has taken    *)
(* from the draw on its way is the propensity of the events before them.   *)

(* The powers of 2 are the least set with 1 and the double of each member. *)
Power(n) ==
    \A S \in SUBSET Nat : 1 \in S /\ (\A x \in S : 2 * x \in S) => n \in S

LEMMA PowerOne == Power(1)
BY DEF Power

LEMMA PowerDouble == ASSUME NEW n, Power(n) PROVE Power(2 * n)
BY DEF Power

LEMMA PowerHalf ==
    ASSUME NEW n, Power(n)
    PROVE  /\ n \in Nat \ {0}
           /\ n = 1 \/ \E m \in Nat \ {0} : Power(m) /\ n = 2 * m
<1> DEFINE S == {x \in Nat \ {0} : Power(x) /\ (x = 1 \/ \E m \in Nat \ {0} : Power(m) /\ x = 2 * m)}
<1>1. S \in SUBSET Nat /\ 1 \in S
  BY PowerOne
<1>2. ASSUME NEW x \in S PROVE 2 * x \in S
  <2>1. x \in Nat \ {0} /\ Power(x)
    OBVIOUS
  <2>2. 2 * x \in Nat \ {0} /\ Power(2 * x)
    BY <2>1, PowerDouble
  <2> QED BY <2>1, <2>2
<1>3. n \in S
  <2> HIDE DEF S
  <2> QED BY <1>1, <1>2 DEF Power
<1> QED BY <1>3

(* Before is well defined.                                                 *)
LEMMA BeforeOf ==
    ASSUME propensity \in [EventIds -> Nat]
    PROVE  /\ Before[0] = 0
           /\ \A e \in EventIds : Before[e + 1] = Before[e] + propensity[e]
           /\ \A e \in 0 .. NEvents : Before[e] \in Nat
<1> DEFINE step == [z \in Nat \X Nat |-> z[2] + IF z[1] \in EventIds THEN propensity[z[1]] ELSE 0]
           Is(g) == g = [e \in 0 .. NEvents |-> IF e = 0 THEN 0 ELSE g[e - 1] + propensity[e - 1]]
<1>1. step \in [Nat \X Nat -> Nat]
  OBVIOUS
<1>2. PICK f : Recurs(f, 0, step, Nat)
  <2> HIDE DEF step
  <2> QED BY <1>1, RecursionOnNat
<1> DEFINE h == [e \in 0 .. NEvents |-> f[e]]
<1>3. Is(h)
  <2>1. ASSUME NEW e \in 0 .. NEvents
        PROVE  h[e] = IF e = 0 THEN 0 ELSE h[e - 1] + propensity[e - 1]
    <3>1. CASE e = 0
      BY <1>2, <3>1 DEF Recurs
    <3>2. CASE e # 0
      <4>1. e - 1 \in Nat /\ e - 1 \in EventIds /\ e - 1 \in 0 .. NEvents /\ (e - 1) + 1 = e
        BY <3>2, NEventsAssumption DEF EventIds
      <4>2. f[(e - 1) + 1] = step[<<e - 1, f[e - 1]>>] /\ f[e - 1] \in Nat
        <5> HIDE DEF step
        <5> QED BY <1>2, <4>1 DEF Recurs
      <4>3. step[<<e - 1, f[e - 1]>>] = f[e - 1] + propensity[e - 1]
        BY <4>1, <4>2
      <4> QED BY <3>2, <4>1, <4>2, <4>3
    <3> QED BY <3>1, <3>2
  <2>2. h = [e \in 0 .. NEvents |-> h[e]]
    OBVIOUS
  <2> HIDE DEF h
  <2> QED BY <2>1, <2>2
<1> HIDE DEF h, step
<1>4. Is(Before)
  <2>1. Before = CHOOSE g : Is(g)
    BY DEF Before
  <2> HIDE DEF Is
  <2> QED BY <1>3, <2>1
<1>5. Before[0] = 0 /\ \A e \in EventIds : Before[e + 1] = Before[e] + propensity[e]
  <2>1. 0 \in 0 .. NEvents
    BY NEventsAssumption
  <2>2. ASSUME NEW e \in EventIds PROVE Before[e + 1] = Before[e] + propensity[e]
    <3>1. e + 1 \in 0 .. NEvents /\ e + 1 # 0 /\ (e + 1) - 1 = e
      BY NEventsAssumption DEF EventIds
    <3>2. Before[e + 1] = Before[(e + 1) - 1] + propensity[(e + 1) - 1]
      <4> HIDE DEF Before
      <4> QED BY <1>4, <3>1
    <3> QED BY <3>1, <3>2
  <2>3. Before[0] = 0
    <3> HIDE DEF Before
    <3> QED BY <1>4, <2>1
  <2> QED BY <2>2, <2>3
<1> DEFINE D == {e \in 0 .. NEvents : Before[e] \notin Nat}
<1>6. ASSUME D # {} PROVE FALSE
  <2>1. PICK e \in D : \A d \in D : e <= d
    <3>1. D \in SUBSET Nat
      OBVIOUS
    <3> HIDE DEF D
    <3> QED BY <1>6, <3>1, LeastElement
  <2>2. e \in 0 .. NEvents /\ e # 0 /\ Before[e] \notin Nat
    BY <1>5
  <2>3. e - 1 \in EventIds /\ e - 1 \in 0 .. NEvents /\ (e - 1) + 1 = e /\ ~ (e <= e - 1)
    BY <2>2, NEventsAssumption DEF EventIds
  <2>4. Before[e - 1] \in Nat
    BY <2>1, <2>3
  <2>5. Before[e] = Before[e - 1] + propensity[e - 1]
    BY <1>5, <2>3
  <2> QED BY <2>2, <2>3, <2>4, <2>5
<1> QED BY <1>5, <1>6

(* The same with the padding: its propensity is 0.                         *)
Share(n) == IF n \in EventIds THEN propensity[n] ELSE 0
Prefix(n) == Before[IF n <= NEvents THEN n ELSE NEvents]

LEMMA PrefixOf ==
    ASSUME propensity \in [EventIds -> Nat]
    PROVE  /\ Prefix(0) = 0
           /\ \A n \in Nat : Prefix(n) \in Nat /\ Prefix(n + 1) = Prefix(n) + Share(n)
<1>1. Prefix(0) = 0
  BY BeforeOf, NEventsAssumption DEF Prefix
<1>2. ASSUME NEW n \in Nat PROVE Prefix(n) \in Nat
  <2>1. (IF n <= NEvents THEN n ELSE NEvents) \in 0 .. NEvents
    BY NEventsAssumption
  <2> QED BY <2>1, BeforeOf DEF Prefix
<1>3. ASSUME NEW n \in Nat PROVE Prefix(n + 1) = Prefix(n) + Share(n)
  <2>1. CASE n \in EventIds
    <3>1. n + 1 <= NEvents /\ n <= NEvents
      BY <2>1, NEventsAssumption DEF EventIds
    <3> QED BY <2>1, <3>1, BeforeOf DEF Prefix, Share
  <2>2. CASE n \notin EventIds
    <3>1. n >= NEvents
      BY <2>2, NEventsAssumption DEF EventIds
    <3>2. Prefix(n + 1) = Before[NEvents] /\ Prefix(n) = Before[NEvents]
      BY <3>1, NEventsAssumption DEF Prefix
    <3>3. Prefix(n) \in Nat
      BY <1>2
    <3> QED BY <2>2, <3>2, <3>3 DEF Share
  <2> QED BY <2>1, <2>2
<1> QED BY <1>1, <1>2, <1>3

(* Node k has s leaves below it, from number First(k, s) to before         *)
(* First(k + 1, s).                                                        *)
First(k, s) == (k + 1) * s - (offset + 1)

Spans(k, s) ==
    /\ k \in Nat /\ Power(s)
    /\ First(k, s) >= 0
    /\ First(k + 1, s) <= offset + 1

(* Half of them are below each child.                                      *)
LEMMA SpanHalves ==
    ASSUME offset \in Nat, NEW k, NEW m \in Nat \ {0}, Power(m), Spans(k, 2 * m)
    PROVE  /\ k \in Inner
           /\ Spans(Left(k), m) /\ Spans(Right(k), m)
           /\ First(Left(k), m) = First(k, 2 * m)
           /\ First(Left(k) + 1, m) = First(Right(k), m)
           /\ First(Right(k) + 1, m) = First(k + 1, 2 * m)
           /\ First(k, 2 * m) \in Nat /\ First(Right(k), m) \in Nat /\ First(k + 1, 2 * m) \in Nat
<1> DEFINE a == (k + 1) * (2 * m)
<1>1. k \in Nat
  BY DEF Spans
<1>2. /\ a \in Nat /\ a >= m
      /\ (Left(k) + 1) * m = a
      /\ (Left(k) + 1 + 1) * m = a + m
      /\ (Right(k) + 1) * m = a + m
      /\ (Right(k) + 1 + 1) * m = a + 2 * m
      /\ (k + 1 + 1) * (2 * m) = a + 2 * m
  <2>1. Left(k) + 1 = 2 * k + 2 /\ Right(k) + 1 = 2 * k + 3
    BY <1>1 DEF Left, Right
  <2>2. /\ (2 * k + 2) * m = a /\ (2 * k + 3) * m = a + m /\ (2 * k + 4) * m = a + 2 * m
        /\ (k + 2) * (2 * m) = a + 2 * m
    BY <1>1
  <2>3. a \in Nat /\ a >= m
    <3>1. a = 2 * (k * m) + 2 * m /\ k * m \in Nat
      BY <1>1
    <3> HIDE DEF a
    <3> QED BY <3>1
  <2>4. Left(k) + 1 + 1 = 2 * k + 3 /\ Right(k) + 1 + 1 = 2 * k + 4 /\ k + 1 + 1 = k + 2
    BY <1>1, <2>1
  <2> HIDE DEF a
  <2> QED BY <2>1, <2>2, <2>3, <2>4
<1>3. a >= offset + 1 /\ a + 2 * m <= 2 * (offset + 1)
  <2>1. First(k, 2 * m) = a - (offset + 1)
    BY DEF First
  <2>2. First(k + 1, 2 * m) = a + 2 * m - (offset + 1)
    <3> HIDE DEF a
    <3> QED BY <1>2 DEF First
  <2> HIDE DEF a
  <2> QED BY <1>2, <2>1, <2>2 DEF Spans
<1>4. k < offset
  <2>1. a + 2 * m >= 2 * (k + 2)
    <3>1. \A x, y \in Nat : y > 0 => x * y >= x
      OBVIOUS
    <3>2. (k + 2) * m >= k + 2
      BY <1>1, <3>1
    <3>3. a + 2 * m = 2 * ((k + 2) * m)
      BY <1>1
    <3>4. (k + 2) * m \in Nat
      BY <1>1
    <3> HIDE DEF a
    <3> QED BY <1>1, <3>2, <3>3, <3>4
  <2> HIDE DEF a
  <2> QED BY <1>1, <1>2, <1>3, <2>1
<1>5. /\ First(k, 2 * m) = a - (offset + 1)
      /\ First(k + 1, 2 * m) = a + 2 * m - (offset + 1)
      /\ First(Left(k), m) = a - (offset + 1)
      /\ First(Left(k) + 1, m) = a + m - (offset + 1)
      /\ First(Right(k), m) = a + m - (offset + 1)
      /\ First(Right(k) + 1, m) = a + 2 * m - (offset + 1)
  <2>1. First(k, 2 * m) = a - (offset + 1)
    BY DEF First
  <2> HIDE DEF a
  <2> QED BY <1>2, <2>1 DEF First
<1>6. Left(k) \in Nat /\ Right(k) \in Nat /\ k \in Inner
  BY <1>1, <1>4 DEF Left, Right, Inner
<1> HIDE DEF a
<1> QED BY <1>2, <1>3, <1>5, <1>6 DEF Spans

(* The sum at a node is that of the leaves below it.                       *)
LEMMA SubtreeSums ==
    ASSUME offset \in Nat, tree \in [Nodes -> Nat], propensity \in [EventIds -> Nat],
           \A k \in Inner : SumsAt(k),
           \A k \in Leaves : tree[k] = Share(k - offset),
           NEW k, NEW s, Spans(k, s)
    PROVE  tree[k] = Prefix(First(k + 1, s)) - Prefix(First(k, s))
<1> DEFINE Wrong(r) == \E l \in Nat : Spans(l, r) /\ tree[l] # Prefix(First(l + 1, r)) - Prefix(First(l, r))
           D == {r \in Nat : Wrong(r)}
<1>1. s \in Nat /\ k \in Nat
  BY PowerHalf DEF Spans
<1>2. SUFFICES ASSUME D # {} PROVE FALSE
  BY <1>1
<1>3. PICK r \in D : \A x \in D : r <= x
  <2>1. D \in SUBSET Nat
    OBVIOUS
  <2> HIDE DEF D
  <2> QED BY <1>2, <2>1, LeastElement
<1>4. PICK l \in Nat : Spans(l, r) /\ tree[l] # Prefix(First(l + 1, r)) - Prefix(First(l, r))
  OBVIOUS
<1>5. ASSUME NEW m \in Nat, NEW j \in Nat, m < r, Spans(j, m)
      PROVE  tree[j] = Prefix(First(j + 1, m)) - Prefix(First(j, m))
  <2>1. r \in Nat
    OBVIOUS
  <2>2. m \notin D
    BY <1>3, <1>5, <2>1
  <2> QED BY <1>5, <2>2
<1> HIDE DEF D, Wrong
<1>6. CASE r = 1
  <2>1. l + 1 - (offset + 1) >= 0 /\ l + 1 + 1 - (offset + 1) <= offset + 1
    BY <1>4, <1>6 DEF Spans, First
  <2>2. l \in Leaves /\ l - offset \in Nat
    BY <2>1 DEF Leaves
  <2>3. First(l, r) = l - offset /\ First(l + 1, r) = (l - offset) + 1
    BY <1>6 DEF First
  <2>4. tree[l] = Share(l - offset) /\ tree[l] \in Nat
    BY <2>2, NodesAreInnerOrLeaves
  <2>5. Prefix((l - offset) + 1) = Prefix(l - offset) + Share(l - offset) /\ Prefix(l - offset) \in Nat
    BY <2>2, PrefixOf
  <2> QED BY <1>4, <2>3, <2>4, <2>5
<1>7. ASSUME NEW m \in Nat \ {0}, Power(m), r = 2 * m PROVE FALSE
  <2>1. /\ l \in Inner
        /\ Spans(Left(l), m) /\ Spans(Right(l), m)
        /\ First(Left(l), m) = First(l, r)
        /\ First(Left(l) + 1, m) = First(Right(l), m)
        /\ First(Right(l) + 1, m) = First(l + 1, r)
        /\ First(l, r) \in Nat /\ First(Right(l), m) \in Nat /\ First(l + 1, r) \in Nat
    BY <1>4, <1>7, SpanHalves
  <2>2. m < r /\ m \in Nat /\ Left(l) \in Nat /\ Right(l) \in Nat
    BY <1>7 DEF Left, Right
  <2>3. /\ tree[Left(l)] = Prefix(First(Right(l), m)) - Prefix(First(l, r))
        /\ tree[Right(l)] = Prefix(First(l + 1, r)) - Prefix(First(Right(l), m))
    BY <1>5, <2>1, <2>2
  <2>4. /\ Prefix(First(Right(l), m)) \in Nat /\ Prefix(First(l, r)) \in Nat
        /\ Prefix(First(l + 1, r)) \in Nat
    BY <2>1, PrefixOf
  <2>5. tree[l] = tree[Left(l)] + tree[Right(l)]
    BY <2>1 DEF SumsAt
  <2> QED BY <1>4, <2>3, <2>4, <2>5
<1> QED BY <1>4, <1>6, <1>7, PowerHalf DEF Spans

(* Where find() is.                                                        *)
PowersHold == Power(nround) /\ Power(offset + 1)

FindPlaced ==
    pc = "find" => \E s \in Nat : Spans(i, s) /\ value = drawn - Prefix(First(i, s))

Placed == PowersHold /\ FindPlaced

(* What the tree holds while find() runs.                                  *)
LEMMA FindTree ==
    ASSUME IInv, pc = "find" \/ pc = "idle"
    PROVE  /\ offset \in Nat /\ tree \in [Nodes -> Nat] /\ propensity \in [EventIds -> Nat]
           /\ \A k \in Inner : SumsAt(k)
           /\ \A k \in Leaves : tree[k] = Share(k - offset)
<1>1. todo = {} /\ TypeOK
  BY DEF IInv, TodoHolds
<1>2. propensity \in [EventIds -> Nat]
  BY <1>1, WeightAssumption DEF TypeOK
<1> QED BY <1>1, <1>2 DEF IInv, TypeOK, SumsHold, LeavesHold, Share

LEMMA InitPlaced == Init => Placed
<1>1. 0 + 1 = 1
  OBVIOUS
<1> QED BY <1>1, PowerOne DEF Init, Placed, PowersHold, FindPlaced

(* find() starts at the root, which has all the leaves below it.           *)
LEMMA DrawPlaced ==
    ASSUME IInv, Placed, Draw
    PROVE  Placed'
<1> DEFINE s == offset + 1
<1>1. /\ pc' = "find" /\ i' = 0 /\ value' = drawn' /\ value' \in 1 .. sum /\ pc = "idle"
      /\ UNCHANGED <<propensity, offset, nround>>
  BY DEF Draw, caller
<1>2. offset \in Nat /\ sum \in Nat /\ propensity \in [EventIds -> Nat] /\ Power(s)
  BY <1>1, FindTree DEF Placed, PowersHold, IInv, TypeOK
<1>3. (0 + 1) * s = s /\ (0 + 1 + 1) * s = s + s
  BY <1>2
<1>4. First(0, s)' = 0 /\ First(0 + 1, s)' = s
  <2>1. First(0, s)' = (0 + 1) * s - s /\ First(0 + 1, s)' = (0 + 1 + 1) * s - s
    BY <1>1 DEF First
  <2>2. s \in Nat
    BY <1>2
  <2> HIDE DEF s
  <2> QED BY <1>3, <2>1, <2>2
<1>5. Prefix(0)' = 0
  BY <1>1, <1>2, PrefixOf DEF Prefix, Before
<1>6. Spans(0, s)'
  BY <1>1, <1>2, <1>4 DEF Spans
<1>7. value' = drawn' - Prefix(First(0, s))' /\ s \in Nat
  <2>1. Prefix(First(0, s))' = Prefix(0)'
    BY <1>4
  <2> QED BY <1>1, <1>2, <1>5, <2>1
<1>8. FindPlaced'
  BY <1>1, <1>6, <1>7 DEF FindPlaced
<1> QED BY <1>1, <1>8 DEF Placed, PowersHold

(* find() goes to a child, which has half of them.                         *)
LEMMA DescendPlaced ==
    ASSUME IInv, Placed, Descend
    PROVE  Placed'
<1>1. /\ pc = "find" /\ pc' = "find" /\ i < offset /\ i \in Nat
      /\ UNCHANGED <<propensity, tree, offset, nround, drawn>>
      /\ IF value <= tree[Left(i)]
         THEN i' = Left(i) /\ value' = value
         ELSE i' = Right(i) /\ value' = value - tree[Left(i)]
  BY DEF Descend, caller, totals, IInv, TypeOK, Nodes
<1>2. PICK s \in Nat : Spans(i, s) /\ value = drawn - Prefix(First(i, s))
  BY <1>1 DEF Placed, FindPlaced
<1>3. /\ offset \in Nat /\ tree \in [Nodes -> Nat] /\ propensity \in [EventIds -> Nat]
      /\ \A k \in Inner : SumsAt(k)
      /\ \A k \in Leaves : tree[k] = Share(k - offset)
  BY <1>1, FindTree
<1>4. s # 1
  BY <1>1, <1>2, <1>3 DEF Spans, First
<1>5. PICK m \in Nat \ {0} : Power(m) /\ s = 2 * m
  BY <1>2, <1>4, PowerHalf DEF Spans
<1>6. /\ Spans(Left(i), m) /\ Spans(Right(i), m)
      /\ First(Left(i), m) = First(i, s)
      /\ First(Left(i) + 1, m) = First(Right(i), m)
      /\ First(i, s) \in Nat /\ First(Right(i), m) \in Nat
  BY <1>2, <1>3, <1>5, SpanHalves
<1>7. tree[Left(i)] = Prefix(First(Right(i), m)) - Prefix(First(i, s))
  BY <1>3, <1>6, SubtreeSums
<1>8. Prefix(First(Right(i), m)) \in Nat /\ Prefix(First(i, s)) \in Nat /\ drawn \in Nat
  BY <1>3, <1>6, PrefixOf DEF IInv, TypeOK
<1>9. /\ Spans(i', m)
      /\ value' = drawn - Prefix(First(i', m))
  <2>1. CASE value <= tree[Left(i)]
    BY <1>1, <1>2, <1>6, <2>1
  <2>2. CASE ~ (value <= tree[Left(i)])
    BY <1>1, <1>2, <1>6, <1>7, <1>8, <2>2
  <2> QED BY <2>1, <2>2
<1>10. \A k, r : /\ First(k, r)' = First(k, r)
                 /\ Prefix(k)' = Prefix(k)
  BY <1>1 DEF First, Prefix, Before
<1>11. FindPlaced'
  BY <1>1, <1>5, <1>9, <1>10 DEF FindPlaced, Spans
<1> QED BY <1>1, <1>11 DEF Placed, PowersHold

LEMMA StepPlaced == IInv /\ Placed /\ [Next]_vars => Placed'
<1> SUFFICES ASSUME IInv, Placed, [Next]_vars PROVE Placed'
  OBVIOUS
<1>1. CASE Draw
  BY <1>1, DrawPlaced
<1>2. CASE Descend
  BY <1>2, DescendPlaced
<1>3. CASE StartInit \/ SumDone
  BY <1>3, PowerOne DEF StartInit, SumDone, Placed, PowersHold, FindPlaced, totals, caller
<1>4. CASE DoubleRound
  BY <1>4, PowerDouble DEF DoubleRound, Placed, PowersHold, FindPlaced, totals, caller
<1>5. CASE FillTree
  <2>1. nround \in Nat /\ offset' = nround - 1 /\ nround' = nround /\ pc' # "find"
    BY <1>5 DEF FillTree, IInv, TypeOK
  <2>2. offset' + 1 = nround
    BY <2>1
  <2> QED BY <2>1, <2>2 DEF Placed, PowersHold, FindPlaced
<1>6. CASE \/ \E S \in SUBSET EventIds : Cardinality(S) <= MaxBatch /\ StartUpdate(S)
           \/ NoneActive \/ SumNode \/ (\E e \in EventIds : SetLeaf(e)) \/ Climb \/ AtRoot
           \/ UpdateDone \/ Found
  <2>1. offset' = offset /\ nround' = nround /\ pc' # "find"
    BY <1>6 DEF StartUpdate, NoneActive, SumNode, SetLeaf, Climb, AtRoot, UpdateDone, Found,
                totals, caller
  <2> QED BY <2>1 DEF Placed, PowersHold, FindPlaced
<1>7. CASE UNCHANGED vars
  BY <1>7 DEF vars, Placed, PowersHold, FindPlaced, Spans, First, Prefix, Before
<1> QED BY <1>1, <1>2, <1>3, <1>4, <1>5, <1>6, <1>7 DEF Next, Step

(* When find() is at a leaf, the draw is in the interval of its event.     *)
LEMMA FoundHits ==
    ASSUME IInv, Placed, Found
    PROVE  /\ answer' \in EventIds
           /\ Before[answer'] < drawn
           /\ drawn <= Before[answer' + 1]
           /\ sum = Before[NEvents]
<1>1. pc = "find" /\ i >= offset /\ i \in Nodes /\ answer' = i - offset
  BY DEF Found, IInv, TypeOK
<1>2. /\ offset \in Nat /\ tree \in [Nodes -> Nat] /\ propensity \in [EventIds -> Nat]
      /\ \A k \in Inner : SumsAt(k)
      /\ \A k \in Leaves : tree[k] = Share(k - offset)
  BY <1>1, FindTree
<1>3. PICK s \in Nat : Spans(i, s) /\ value = drawn - Prefix(First(i, s))
  BY <1>1 DEF Placed, FindPlaced
<1>4. s = 1
  <2>1. ASSUME NEW m \in Nat \ {0}, Power(m), s = 2 * m PROVE FALSE
    <3>1. i \in Inner
      BY <1>2, <1>3, <2>1, SpanHalves
    <3> QED BY <1>1, <1>2, <3>1 DEF Inner
  <2> QED BY <1>3, <2>1, PowerHalf DEF Spans
<1>5. answer' \in EventIds
  BY FoundIsActive
<1>6. value = drawn - Before[answer'] /\ 0 < value /\ value <= propensity[answer']
  <2>1. First(i, s) = answer' /\ answer' <= NEvents
    BY <1>1, <1>2, <1>4, <1>5, NEventsAssumption DEF First, Nodes, EventIds
  <2>2. i \in Leaves
    BY <1>1, <1>2 DEF Leaves, Nodes
  <2>3. tree[i] = propensity[answer']
    BY <1>1, <1>2, <1>5, <2>2 DEF Share
  <2> QED BY <1>1, <1>3, <2>1, <2>3 DEF Prefix, IInv, ValueInSubtree
<1>7. sum = Before[NEvents]
  <2>1. sum = tree[0] /\ NEvents <= offset + 1 /\ Power(offset + 1)
    BY <1>1 DEF IInv, SumsHold, RoomForLeaves, Placed, PowersHold
  <2>2. First(0, offset + 1) = 0 /\ First(0 + 1, offset + 1) = offset + 1
    <3>1. (0 + 1) * (offset + 1) = offset + 1 /\ (0 + 1 + 1) * (offset + 1) = (offset + 1) + (offset + 1)
      BY <1>2
    <3> QED BY <1>2, <3>1 DEF First
  <2>3. Spans(0, offset + 1)
    BY <1>2, <2>1, <2>2 DEF Spans
  <2>4. tree[0] = Prefix(First(0 + 1, offset + 1)) - Prefix(First(0, offset + 1))
    BY <1>2, <2>3, SubtreeSums
  <2>5. tree[0] = Prefix(offset + 1) - Prefix(0)
    BY <2>2, <2>4
  <2>6. Prefix(offset + 1) = Before[NEvents]
    BY <1>2, <2>1, NEventsAssumption DEF Prefix
  <2>7. Prefix(0) = 0 /\ Prefix(offset + 1) \in Nat
    BY <1>2, PrefixOf
  <2> QED BY <2>1, <2>5, <2>6, <2>7
<1>8. /\ Before[answer' + 1] = Before[answer'] + propensity[answer']
      /\ Before[answer'] \in Nat /\ propensity[answer'] \in Nat /\ drawn \in Nat
  BY <1>2, <1>5, BeforeOf, NEventsAssumption DEF EventIds, IInv, TypeOK
<1> QED BY <1>5, <1>6, <1>7, <1>8

(* find() returns event e for exactly those draws that lie in the interval *)
(* of length propensity[e] that belongs to e, for every number of events   *)
(* and every propensities: an event is chosen with the probability it has. *)
THEOREM DrawsHitTheirEvents == Spec => DrawHitsItsEvent
<1> DEFINE Hit == pc = "find" /\ pc' = "idle" =>
                    /\ answer' \in EventIds
                    /\ Before[answer'] < drawn
                    /\ drawn <= Before[answer' + 1]
                    /\ sum = Before[NEvents]
<1>1. IInv /\ Placed /\ [Next]_vars => [Hit]_vars
  <2> SUFFICES ASSUME IInv, Placed, [Next]_vars, pc = "find", pc' = "idle"
               PROVE  /\ answer' \in EventIds
                      /\ Before[answer'] < drawn
                      /\ drawn <= Before[answer' + 1]
                      /\ sum = Before[NEvents]
    OBVIOUS
  <2>1. Found
    BY DEF Next, Step, StartInit, StartUpdate, NoneActive, Draw, DoubleRound, FillTree, SumNode,
           SumDone, SetLeaf, Climb, AtRoot, UpdateDone, Descend, vars
  <2> QED BY <2>1, FoundHits
<1> QED BY <1>1, InitPlaced, StepPlaced, Invariance, PTL DEF Spec, DrawHitsItsEvent
=============================================================================
