-------------------------- MODULE SolveGroup_proofs --------------------------
(***************************************************************************)
(* Proofs about SolveGroup for every number of events and groups, every    *)
(* assignment of propensities to groups and every history of updates: the  *)
(* lists of the groups and the two arrays that point into them stay        *)
(* inverse to each other, no list outgrows its array, the totals that are  *)
(* adjusted by differences stay exact, and what a draw picks can happen.   *)
(*                                                                         *)
(* The lists start out right because the place of an event, the number of  *)
(* members of its group with a smaller index, numbers the members of the   *)
(* group 0, 1, 2, ... without gaps.  A move then disturbs two places only: *)
(* that of the event that moves and that of the last event of its old      *)
(* list.                                                                   *)
(*                                                                         *)
(* The totals are sums over sets of events; what such a sum is, and how it *)
(* changes with one value or one member, is proved first.  The totals of   *)
(* the groups add up to the total, so a draw below it ends in a group with *)
(* weight, hence with members, and never reads the slot of an empty list:  *)
(* the solver keeps the contract of Solver.                                *)
(***************************************************************************)
EXTENDS SolveGroup, DataLemmas, FiniteSetTheorems, TLAPS

IInv == TypeOK /\ ListsAreInverse

-----------------------------------------------------------------------------
(* The lists that partition() builds.                                      *)

(* The events are finitely many.                                           *)
LEMMA FiniteEvents ==
    ASSUME NEW S \in SUBSET EventIds
    PROVE  IsFiniteSet(S) /\ Cardinality(S) \in Nat
<1>1. IsFiniteSet(EventIds)
  BY SizeAssumption, FS_Interval DEF EventIds
<1>2. IsFiniteSet(S)
  BY <1>1, FS_Subset
<1> QED BY <1>2, FS_CardinalityType

(* A member of a proper subset less.                                       *)
LEMMA SmallerSubset ==
    ASSUME NEW S \in SUBSET EventIds, NEW T \in SUBSET S, NEW x \in S, x \notin T
    PROVE  Cardinality(T) < Cardinality(S)
<1>1. IsFiniteSet(S) /\ Cardinality(S) \in Nat /\ Cardinality(T) \in Nat
  BY FiniteEvents
<1>2. Cardinality(T) <= Cardinality(S) /\ (Cardinality(S) = Cardinality(T) => S = T)
  BY <1>1, FS_Subset
<1> QED BY <1>1, <1>2

(* The places of the members of a group are 0 .. count - 1, one each.      *)
LEMMA PlacesNumberTheGroup ==
    ASSUME NEW q \in [EventIds -> 0 .. Hi], NEW g \in Groups
    PROVE  LET n == Cardinality(Members(q, g)) IN
           /\ n \in Nat
           /\ \A e \in Members(q, g) : Place(q, e) \in 0 .. n - 1
           /\ \A d, e \in Members(q, g) : Place(q, d) = Place(q, e) => d = e
           /\ \A k \in 0 .. n - 1 : \E e \in Members(q, g) : Place(q, e) = k
<1> DEFINE M == Members(q, g)
           n == Cardinality(M)
           Under(e) == {d \in M : d < e}
           f == [e \in M |-> Place(q, e)]
<1>1. M \in SUBSET EventIds
  BY DEF Members
<1>2. IsFiniteSet(M) /\ n \in Nat
  BY <1>1, FiniteEvents
<1>3. \A e \in M : Place(q, e) = Cardinality(Under(e)) /\ Place(q, e) \in Nat
  <2>1. SUFFICES ASSUME NEW e \in M
                 PROVE  Place(q, e) = Cardinality(Under(e)) /\ Cardinality(Under(e)) \in Nat
    OBVIOUS
  <2>2. GroupOf[q[e]] = g
    BY DEF Members
  <2>3. Under(e) \in SUBSET EventIds
    BY <1>1
  <2>4. Cardinality(Under(e)) \in Nat
    BY <2>3, FiniteEvents
  <2> QED BY <2>2, <2>4 DEF Place
<1>4. \A e \in M : Place(q, e) \in 0 .. n - 1
  <2>1. SUFFICES ASSUME NEW e \in M PROVE Place(q, e) \in 0 .. n - 1
    OBVIOUS
  <2>2. Under(e) \in SUBSET M /\ e \notin Under(e)
    BY <1>1 DEF EventIds
  <2>3. Cardinality(Under(e)) < Cardinality(M)
    <3> HIDE DEF M, Under
    <3> QED BY <1>1, <2>2, SmallerSubset
  <2>4. Place(q, e) \in Nat /\ Place(q, e) < n
    BY <1>3, <2>3
  <2> QED BY <1>2, <2>4
<1>5. \A d, e \in M : d < e => Place(q, d) < Place(q, e)
  <2>1. SUFFICES ASSUME NEW d \in M, NEW e \in M, d < e
                 PROVE  Cardinality(Under(d)) < Cardinality(Under(e))
    BY <1>3
  <2>2. Under(d) \in SUBSET Under(e) /\ d \in Under(e) /\ d \notin Under(d)
    BY <1>1, <2>1 DEF EventIds
  <2>3. Under(e) \in SUBSET EventIds
    BY <1>1
  <2> HIDE DEF Under, M
  <2> QED BY <2>2, <2>3, SmallerSubset
<1>6. \A d, e \in M : Place(q, d) = Place(q, e) => d = e
  <2>1. SUFFICES ASSUME NEW d \in M, NEW e \in M, d # e PROVE Place(q, d) # Place(q, e)
    OBVIOUS
  <2>2. d < e \/ e < d
    BY <1>1, <2>1 DEF EventIds
  <2>3. Place(q, d) \in Nat /\ Place(q, e) \in Nat
    BY <1>3
  <2> QED BY <1>5, <2>2, <2>3
<1>7. f \in Injection(M, 0 .. n - 1)
  <2>1. f \in [M -> 0 .. n - 1]
    BY <1>4
  <2> QED BY <1>6, <2>1 DEF Injection, IsInjective
<1>8. IsFiniteSet(0 .. n - 1) /\ Cardinality(0 .. n - 1) = n
  BY <1>2, FS_Interval
<1>9. f \in Surjection(M, 0 .. n - 1)
  <2> HIDE DEF f, M, n
  <2>1. Cardinality(M) = Cardinality(0 .. n - 1)
    BY <1>8 DEF n
  <2> QED BY <1>7, <1>8, <2>1, FS_Injection
<1>10. \A k \in 0 .. n - 1 : \E e \in M : Place(q, e) = k
  BY <1>9 DEF Surjection
<1> QED BY <1>2, <1>4, <1>6, <1>10

(* The five lists of a record b are in order for the propensities q.       *)
Fit(b) ==
    /\ b.p2g \in [EventIds -> Groups]
    /\ b.p2g_index \in [EventIds -> Nat]
    /\ b.gcount \in [Groups -> Nat]
    /\ b.gmaxsize \in [Groups -> Nat \ {0}]
    /\ DOMAIN b.g2p = Groups
    /\ \A g \in Groups : /\ b.gcount[g] <= b.gmaxsize[g]
                         /\ b.g2p[g] \in [0 .. b.gmaxsize[g] - 1 -> EventIds \cup {Junk}]

InOrder(q, b) ==
    /\ \A e \in EventIds :
          /\ b.p2g[e] = GroupOf[q[e]]
          /\ b.p2g_index[e] < b.gcount[b.p2g[e]]
          /\ b.g2p[b.p2g[e]][b.p2g_index[e]] = e
    /\ \A g \in Groups : \A k \in 0 .. b.gcount[g] - 1 :
          /\ b.g2p[g][k] \in EventIds
          /\ b.p2g[b.g2p[g][k]] = g
          /\ b.p2g_index[b.g2p[g][k]] = k

(* What partition() leaves behind is in order.                             *)
LEMMA PartitionIsInOrder ==
    ASSUME NEW q \in [EventIds -> 0 .. Hi]
    PROVE  Fit(Partitioned(q)) /\ InOrder(q, Partitioned(q))
<1> DEFINE count(g) == Cardinality(Members(q, g))
           size(g)  == IF count(g) > AveSize THEN count(g) ELSE AveSize
           list(g)  == [k \in 0 .. size(g) - 1 |->
                           IF k < count(g)
                           THEN CHOOSE e \in Members(q, g) : Place(q, e) = k
                           ELSE Junk]
           b == Partitioned(q)
<1>1. /\ b.p2g = [e \in EventIds |-> GroupOf[q[e]]]
      /\ b.p2g_index = [e \in EventIds |-> Place(q, e)]
      /\ b.g2p = [g \in Groups |-> list(g)]
      /\ b.gcount = [g \in Groups |-> count(g)]
      /\ b.gmaxsize = [g \in Groups |-> size(g)]
  BY DEF Partitioned
<1>2. AveSize \in Nat \ {0}
  BY SizeAssumption DEF AveSize
<1>3. ASSUME NEW g \in Groups
      PROVE  /\ count(g) \in Nat
             /\ \A e \in Members(q, g) : Place(q, e) \in 0 .. count(g) - 1
             /\ \A d, e \in Members(q, g) : Place(q, d) = Place(q, e) => d = e
             /\ \A k \in 0 .. count(g) - 1 : \E e \in Members(q, g) : Place(q, e) = k
  BY PlacesNumberTheGroup
<1>4. \A e \in EventIds : GroupOf[q[e]] \in Groups /\ e \in Members(q, GroupOf[q[e]])
  BY GroupAssumption DEF Members, Groups
<1>5. ASSUME NEW g \in Groups, NEW k \in 0 .. count(g) - 1
      PROVE  list(g)[k] \in Members(q, g) /\ Place(q, list(g)[k]) = k
  <2>1. k \in 0 .. size(g) - 1 /\ k < count(g)
    BY <1>2, <1>3
  <2>2. list(g)[k] = CHOOSE e \in Members(q, g) : Place(q, e) = k
    BY <2>1
  <2>3. \E e \in Members(q, g) : Place(q, e) = k
    BY <1>3
  <2> HIDE DEF list
  <2> QED BY <2>2, <2>3
<1>6. ASSUME NEW g \in Groups
      PROVE  /\ size(g) \in Nat \ {0} /\ count(g) <= size(g)
             /\ list(g) \in [0 .. size(g) - 1 -> EventIds \cup {Junk}]
  <2>1. size(g) \in Nat \ {0} /\ count(g) <= size(g)
    BY <1>2, <1>3
  <2>2. ASSUME NEW k \in 0 .. size(g) - 1 PROVE list(g)[k] \in EventIds \cup {Junk}
    <3>1. CASE k < count(g)
      <4>1. k \in 0 .. count(g) - 1
        BY <1>3, <2>1, <3>1
      <4>2. list(g)[k] \in Members(q, g)
        BY <1>5, <4>1
      <4> QED BY <4>2 DEF Members
    <3>2. CASE ~ (k < count(g))
      <4>1. list(g)[k] = Junk
        BY <3>2
      <4> QED BY <4>1
    <3> QED BY <3>1, <3>2
  <2> QED BY <2>1, <2>2
<1>7. \A e \in EventIds : Place(q, e) \in Nat
  BY <1>3, <1>4
<1> HIDE DEF count, size, list, b
<1>8. Fit(b)
  <2>1. b.p2g \in [EventIds -> Groups] /\ b.p2g_index \in [EventIds -> Nat]
    BY <1>1, <1>4, <1>7
  <2>2. b.gcount \in [Groups -> Nat] /\ b.gmaxsize \in [Groups -> Nat \ {0}]
    BY <1>1, <1>3, <1>6
  <2>3. \A g \in Groups : /\ b.gcount[g] <= b.gmaxsize[g]
                          /\ b.g2p[g] \in [0 .. b.gmaxsize[g] - 1 -> EventIds \cup {Junk}]
    BY <1>1, <1>6
  <2> QED BY <1>1, <2>1, <2>2, <2>3 DEF Fit
<1>9. InOrder(q, b)
  <2>1. ASSUME NEW e \in EventIds
        PROVE  /\ b.p2g[e] = GroupOf[q[e]]
               /\ b.p2g_index[e] < b.gcount[b.p2g[e]]
               /\ b.g2p[b.p2g[e]][b.p2g_index[e]] = e
    <3> DEFINE g == GroupOf[q[e]]
               k == Place(q, e)
    <3>1. g \in Groups /\ e \in Members(q, g) /\ k \in 0 .. count(g) - 1
      BY <1>3, <1>4
    <3>2. list(g)[k] = e
      BY <1>3, <1>5, <3>1
    <3>3. b.p2g[e] = g /\ b.p2g_index[e] = k /\ b.gcount[g] = count(g) /\ b.g2p[g] = list(g)
      BY <1>1, <3>1
    <3>4. k < count(g)
      BY <1>3, <3>1
    <3> QED BY <1>1, <3>2, <3>3, <3>4
  <2>2. ASSUME NEW g \in Groups, NEW k \in 0 .. b.gcount[g] - 1
        PROVE  /\ b.g2p[g][k] \in EventIds
               /\ b.p2g[b.g2p[g][k]] = g
               /\ b.p2g_index[b.g2p[g][k]] = k
    <3>1. k \in 0 .. count(g) - 1 /\ b.g2p[g] = list(g)
      BY <1>1, <2>2
    <3>2. list(g)[k] \in Members(q, g) /\ Place(q, list(g)[k]) = k
      BY <1>5, <3>1
    <3> QED BY <1>1, <3>1, <3>2 DEF Members
  <2> QED BY <2>1, <2>2 DEF InOrder
<1> QED BY <1>8, <1>9 DEF b

-----------------------------------------------------------------------------
(* The invariant is inductive.                                             *)

(* The solver's copy is within bounds.                                     *)
LEMMA BoundedType ==
    ASSUME NEW x \in Weight
    PROVE  /\ Bounded(x) \in 0 .. Hi
           /\ GroupOf[Bounded(x)] \in Groups
<1>1. Bounded(x) \in 0 .. Hi
  BY SizeAssumption DEF Bounded
<1> QED BY <1>1, GroupAssumption DEF Groups

LEMMA InitIInv == Init => IInv
<1> SUFFICES ASSUME Init PROVE IInv
  OBVIOUS
<1>1. p \in [EventIds -> 0 .. Hi]
  BY SizeAssumption DEF Init, NoWeights
<1>2. Fit(Partitioned(p)) /\ InOrder(p, Partitioned(p))
  BY <1>1, PartitionIsInOrder
<1>3. /\ p2g = Partitioned(p).p2g /\ p2g_index = Partitioned(p).p2g_index
      /\ g2p = Partitioned(p).g2p /\ gcount = Partitioned(p).gcount
      /\ gmaxsize = Partitioned(p).gmaxsize
  BY DEF Init
<1> QED BY <1>1, <1>2, <1>3 DEF Init, IInv, TypeOK, ListsAreInverse, Fit, InOrder

(* init() builds everything anew.                                          *)
LEMMA BuildSteps ==
    ASSUME IInv, StartInit \/ InitDone
    PROVE  IInv'
<1>1. PICK q \in [EventIds -> 0 .. Hi] : Build(q)
  <2>1. CASE StartInit
    BY <2>1, SizeAssumption DEF StartInit, NoWeights
  <2>2. CASE InitDone
    <3>1. [e \in EventIds |-> Bounded(propensity[e])] \in [EventIds -> 0 .. Hi]
      BY BoundedType DEF IInv, TypeOK
    <3> QED BY <2>2, <3>1 DEF InitDone
  <2> QED BY <2>1, <2>2
<1>2. Fit(Partitioned(q)) /\ InOrder(q, Partitioned(q))
  BY PartitionIsInOrder
<1>3. /\ p2g' = Partitioned(q).p2g /\ p2g_index' = Partitioned(q).p2g_index
      /\ g2p' = Partitioned(q).g2p /\ gcount' = Partitioned(q).gcount
      /\ gmaxsize' = Partitioned(q).gmaxsize /\ p' = q
  BY <1>1 DEF Build
<1>4. /\ propensity' \in [EventIds -> Weight] /\ pc' \in {"init", "idle"}
      /\ todo' \subseteq EventIds /\ answer' \in EventIds \cup {NoEvent, None, Junk}
  BY DEF StartInit, InitDone, IInv, TypeOK
<1>5. TypeOK'
  BY <1>2, <1>3, <1>4 DEF TypeOK, Fit
<1>6. ListsAreInverse'
  BY <1>2, <1>3 DEF ListsAreInverse, InOrder
<1> QED BY <1>5, <1>6 DEF IInv

(* Steps that leave the lists alone.                                       *)
LEMMA QuietSteps ==
    ASSUME IInv,
           \/ \E S \in SUBSET EventIds : StartUpdate(S)
           \/ \E n \in EventIds : SkipElement(n)
           \/ UpdateDone \/ NoneActive \/ StartSample \/ UNCHANGED vars
    PROVE  IInv'
<1>1. UNCHANGED <<p, lists>>
  BY DEF StartUpdate, SkipElement, UpdateDone, NoneActive, StartSample, vars, groups
<1>2. ListsAreInverse'
  BY <1>1 DEF IInv, ListsAreInverse, lists
<1>3. propensity' \in [EventIds -> Weight]
  BY DEF IInv, TypeOK, StartUpdate, SkipElement, UpdateDone, NoneActive, StartSample, vars
<1>4. /\ pc' \in {"init", "idle", "update", "sample"}
      /\ todo' \subseteq EventIds /\ answer' \in EventIds \cup {NoEvent, None, Junk}
  BY DEF IInv, TypeOK, StartUpdate, SkipElement, UpdateDone, NoneActive, StartSample, vars
<1> QED BY <1>1, <1>2, <1>3, <1>4 DEF IInv, TypeOK, lists

(* A draw ends on an event or reads the slot of an empty list.             *)
LEMMA TrialStep ==
    ASSUME IInv, Trial
    PROVE  IInv'
<1>1. UNCHANGED <<p, lists, propensity, todo>>
  BY DEF Trial, groups
<1>2. \A t : GroupAt(t) \in 0 .. NGroups - 1
  <2>1. SUFFICES ASSUME NEW t PROVE GroupAt(t) \in 0 .. NGroups - 1
    OBVIOUS
  <2> DEFINE hit == {g \in 0 .. NGroups - 1 : SumOver(gpsum, 0 .. g) > t}
  <2>2. CASE hit = {}
    BY <2>2, SizeAssumption DEF GroupAt
  <2>3. CASE hit # {}
    <3>1. hit \in SUBSET Nat
      OBVIOUS
    <3>2. \E x \in hit : \A y \in hit : x <= y
      <4> HIDE DEF hit
      <4> QED BY <2>3, <3>1, LeastElement
    <3>3. Min(hit) \in hit
      <4> HIDE DEF hit
      <4> QED BY <3>2 DEF Min
    <3> QED BY <2>3, <3>3 DEF GroupAt
  <2> QED BY <2>2, <2>3
<1>3. \A g \in 0 .. NGroups - 1 : Candidates(g) \subseteq EventIds \cup {Junk}
  <2>1. SUFFICES ASSUME NEW g \in 0 .. NGroups - 1
                 PROVE  Candidates(g) \subseteq EventIds \cup {Junk}
    OBVIOUS
  <2>2. g \in Groups
    BY SizeAssumption DEF Groups
  <2>3. /\ gmaxsize[g] \in Nat \ {0}
        /\ g2p[g] \in [0 .. gmaxsize[g] - 1 -> EventIds \cup {Junk}]
    BY <2>2 DEF IInv, TypeOK
  <2>4. g2p[g][0] \in EventIds \cup {Junk}
    BY <2>3
  <2>5. \A k \in 0 .. gcount[g] - 1 : g2p[g][k] \in EventIds
    BY <2>2 DEF IInv, ListsAreInverse
  <2> QED BY <2>4, <2>5 DEF Candidates
<1>4. answer' \in EventIds \cup {NoEvent, None, Junk} /\ pc' \in {"idle", "sample"}
  <2>1. PICK t \in 0 .. psum - 1 : \E e \in Candidates(GroupAt(t)) :
              answer' \in {answer, e} /\ pc' \in {"idle", pc}
    BY DEF Trial
  <2> QED BY <1>2, <1>3, <2>1 DEF IInv, TypeOK, Trial
<1>5. ListsAreInverse'
  BY <1>1 DEF IInv, ListsAreInverse, lists
<1> QED BY <1>1, <1>4, <1>5 DEF IInv, TypeOK, lists

(* alter_element() when the event stays in its group.                      *)
LEMMA StayStep ==
    ASSUME IInv, NEW n \in EventIds, AlterElement(n),
           StayInGroup(n, Bounded(propensity[n]))
    PROVE  IInv'
<1> DEFINE new == Bounded(propensity[n])
<1>1. /\ UNCHANGED <<lists, propensity, pc, answer>>
      /\ p' = [p EXCEPT ![n] = new]
      /\ todo' \subseteq EventIds
      /\ p2g[n] = GroupOf[new]
  BY DEF AlterElement, StayInGroup, IInv, TypeOK
<1>2. new \in 0 .. Hi
  BY BoundedType DEF IInv, TypeOK
<1>3. /\ p' \in [EventIds -> 0 .. Hi]
      /\ \A e \in EventIds : GroupOf[p'[e]] = p2g[e]
  BY <1>1, <1>2 DEF IInv, TypeOK, ListsAreInverse
<1>4. ListsAreInverse'
  BY <1>1, <1>3 DEF IInv, ListsAreInverse, lists
<1> QED BY <1>1, <1>3, <1>4 DEF IInv, TypeOK, lists

(* alter_element() when the event changes groups: the event last takes its *)
(* place, and n goes to the end of another list.                           *)
LEMMA MoveStep ==
    ASSUME IInv, NEW n \in EventIds, AlterElement(n),
           MoveToGroup(n, Bounded(propensity[n]))
    PROVE  IInv'
<1> DEFINE new   == Bounded(propensity[n])
           old   == p2g[n]
           to    == GroupOf[new]
           index == p2g_index[n]
           end   == gcount[old] - 1
           last  == g2p[old][end]
           top   == gcount[to]
           size  == SizeWithRoom(to)
           oldlist == [g2p[old] EXCEPT ![index] = last, ![end] = Junk]
           newlist == [k \in 0 .. size - 1 |->
                          IF k = top THEN n
                          ELSE IF k < gmaxsize[to] THEN g2p[to][k] ELSE Junk]
<1>1. /\ old # to
      /\ p2g' = [p2g EXCEPT ![n] = to]
      /\ p2g_index' = [p2g_index EXCEPT ![last] = index, ![n] = top]
      /\ gmaxsize' = [gmaxsize EXCEPT ![to] = size]
      /\ g2p' = [g2p EXCEPT ![old] = oldlist, ![to] = newlist]
      /\ gcount' = [gcount EXCEPT ![old] = @ - 1, ![to] = @ + 1]
  BY DEF MoveToGroup, PlacesAfter
<1>2. /\ p' = [p EXCEPT ![n] = new] /\ UNCHANGED <<propensity, pc, answer>>
      /\ todo' \subseteq EventIds
  BY DEF AlterElement, IInv, TypeOK
<1>3. new \in 0 .. Hi /\ to \in Groups
  BY BoundedType DEF IInv, TypeOK
<1>4. /\ old \in Groups
      /\ index \in Nat /\ gcount[old] \in Nat /\ index <= end /\ end \in Nat
      /\ end < gmaxsize[old] /\ gmaxsize[old] \in Nat
      /\ g2p[old] \in [0 .. gmaxsize[old] - 1 -> EventIds \cup {Junk}]
      /\ g2p[old][index] = n
  BY DEF IInv, TypeOK, ListsAreInverse
<1>5. last \in EventIds /\ p2g[last] = old /\ p2g_index[last] = end
  <2>1. end \in 0 .. gcount[old] - 1
    BY <1>4
  <2> QED BY <1>4, <2>1 DEF IInv, ListsAreInverse
<1>6. /\ top \in Nat /\ gmaxsize[to] \in Nat \ {0} /\ top <= gmaxsize[to]
      /\ g2p[to] \in [0 .. gmaxsize[to] - 1 -> EventIds \cup {Junk}]
  BY <1>3 DEF IInv, TypeOK
<1>7. size \in Nat \ {0} /\ top < size /\ gmaxsize[to] <= size
  BY <1>6 DEF SizeWithRoom
<1>8. oldlist \in [0 .. gmaxsize[old] - 1 -> EventIds \cup {Junk}]
  BY <1>4, <1>5
<1>9. newlist \in [0 .. size - 1 -> EventIds \cup {Junk}]
  BY <1>6
<1>10. /\ \A k \in 0 .. end - 1 : oldlist[k] = IF k = index THEN last ELSE g2p[old][k]
       /\ newlist[top] = n
       /\ \A k \in 0 .. top - 1 : newlist[k] = g2p[to][k]
  <2>1. ASSUME NEW k \in 0 .. end - 1
        PROVE  oldlist[k] = IF k = index THEN last ELSE g2p[old][k]
    <3>1. k \in 0 .. gmaxsize[old] - 1 /\ k # end /\ index \in 0 .. gmaxsize[old] - 1
          /\ end \in 0 .. gmaxsize[old] - 1
      BY <1>4
    <3> QED BY <1>4, <3>1
  <2>2. newlist[top] = n
    BY <1>6, <1>7
  <2>3. ASSUME NEW k \in 0 .. top - 1 PROVE newlist[k] = g2p[to][k]
    BY <1>6, <1>7
  <2> QED BY <2>1, <2>2, <2>3
<1> HIDE DEF oldlist, newlist, size, new
<1>11. /\ \A g \in Groups : gcount'[g] = IF g = old THEN end ELSE IF g = to THEN top + 1
                                          ELSE gcount[g]
       /\ \A g \in Groups : g2p'[g] = IF g = old THEN oldlist ELSE IF g = to THEN newlist
                                       ELSE g2p[g]
       /\ \A g \in Groups : gmaxsize'[g] = IF g = to THEN size ELSE gmaxsize[g]
       /\ gcount' \in [Groups -> Nat] /\ gmaxsize' \in [Groups -> Nat \ {0}]
       /\ DOMAIN g2p' = Groups
  <2>1. gcount \in [Groups -> Nat] /\ gmaxsize \in [Groups -> Nat \ {0}]
    BY DEF IInv, TypeOK
  <2>2. \A g \in Groups : gcount'[g] = IF g = old THEN end ELSE IF g = to THEN top + 1
                                          ELSE gcount[g]
    BY <1>1, <1>3, <1>4, <2>1
  <2>3. DOMAIN g2p = Groups
    BY DEF IInv, TypeOK
  <2>4. /\ \A g \in Groups : g2p'[g] = IF g = old THEN oldlist ELSE IF g = to THEN newlist
                                       ELSE g2p[g]
        /\ DOMAIN g2p' = Groups
    <3> HIDE DEF old, to
    <3> QED BY <1>1, <2>3
  <2>5. \A g \in Groups : gmaxsize'[g] = IF g = to THEN size ELSE gmaxsize[g]
    BY <1>1, <2>1
  <2>6. gcount' \in [Groups -> Nat]
    <3>1. \A g \in Groups : gcount'[g] \in Nat
      <4>1. end \in Nat /\ top + 1 \in Nat /\ \A g \in Groups : gcount[g] \in Nat
        BY <1>4, <1>6, <2>1
      <4> HIDE DEF old, to, end, top
      <4> QED BY <2>2, <4>1
    <3>2. gcount' = [g \in Groups |-> gcount'[g]]
      BY <1>1, <2>1
    <3> QED BY <3>1, <3>2
  <2>7. gmaxsize' \in [Groups -> Nat \ {0}]
    <3> HIDE DEF to
    <3> QED BY <1>1, <1>7, <2>1
  <2> QED BY <2>2, <2>4, <2>5, <2>6, <2>7
<1>12. /\ p2g' \in [EventIds -> Groups]
       /\ p2g_index' \in [EventIds -> Nat]
       /\ p2g'[n] = to /\ p2g_index'[n] = top
       /\ \A e \in EventIds \ {n} :
             /\ p2g'[e] = p2g[e]
             /\ p2g_index'[e] = IF e = last THEN index ELSE p2g_index[e]
  BY <1>1, <1>3, <1>4, <1>5, <1>6 DEF IInv, TypeOK
<1>13. p' \in [EventIds -> 0 .. Hi] /\ p'[n] = new /\ \A e \in EventIds \ {n} : p'[e] = p[e]
  BY <1>2, <1>3 DEF IInv, TypeOK
<1>14. TypeOK'
  <2>1. ASSUME NEW g \in Groups
        PROVE  /\ gcount'[g] <= gmaxsize'[g]
               /\ g2p'[g] \in [0 .. gmaxsize'[g] - 1 -> EventIds \cup {Junk}]
    <3>1. CASE g = old
      <4>1. gcount'[g] = end /\ g2p'[g] = oldlist /\ gmaxsize'[g] = gmaxsize[old]
        BY <1>1, <1>11, <3>1
      <4> QED BY <1>4, <1>8, <4>1
    <3>2. CASE g = to
      <4>1. gcount'[g] = top + 1 /\ g2p'[g] = newlist /\ gmaxsize'[g] = size
        BY <1>1, <1>11, <3>2
      <4> QED BY <1>6, <1>7, <1>9, <4>1
    <3>3. CASE g # old /\ g # to
      BY <1>11, <3>3 DEF IInv, TypeOK
    <3> QED BY <3>1, <3>2, <3>3
  <2> QED BY <1>2, <1>11, <1>12, <1>13, <2>1 DEF IInv, TypeOK
<1>15. ASSUME NEW e \in EventIds
       PROVE  /\ p2g'[e] = GroupOf[p'[e]]
              /\ p2g_index'[e] < gcount'[p2g'[e]]
              /\ g2p'[p2g'[e]][p2g_index'[e]] = e
  <2>1. CASE e = n
    <3>1. p2g'[e] = to /\ p2g_index'[e] = top /\ GroupOf[p'[e]] = to
      BY <1>12, <1>13, <2>1
    <3>2. gcount'[to] = top + 1 /\ g2p'[to] = newlist
      BY <1>1, <1>3, <1>11
    <3> QED BY <1>6, <1>10, <2>1, <3>1, <3>2
  <2>2. CASE e # n
    <3> DEFINE g == p2g[e]
               k == p2g_index[e]
    <3>1. /\ g \in Groups /\ k \in Nat /\ g = GroupOf[p[e]] /\ k < gcount[g] /\ g2p[g][k] = e
          /\ gcount[g] \in Nat
      BY DEF IInv, TypeOK, ListsAreInverse
    <3>2. p2g'[e] = g /\ p'[e] = p[e] /\ p2g_index'[e] = IF e = last THEN index ELSE k
      BY <1>12, <1>13, <2>2
    <3>3. CASE g = old /\ e = last
      <4>1. index # end
        BY <1>4, <2>2, <3>3
      <4>2. index \in 0 .. end - 1
        BY <1>4, <4>1
      <4>3. oldlist[index] = last
        BY <1>10, <4>2
      <4> QED BY <1>4, <1>11, <3>1, <3>2, <3>3, <4>2, <4>3
    <3>4. CASE g = old /\ e # last
      <4>1. k # end /\ k # index
        BY <1>4, <2>2, <3>1, <3>4
      <4>2. k \in 0 .. end - 1
        BY <1>4, <3>1, <3>4, <4>1
      <4>3. oldlist[k] = e
        BY <1>10, <3>1, <3>4, <4>1, <4>2
      <4> QED BY <1>11, <3>1, <3>2, <3>4, <4>2, <4>3
    <3>5. CASE g = to
      <4>1. e # last /\ g # old /\ k \in 0 .. top - 1
        BY <1>1, <1>5, <3>1, <3>5
      <4> QED BY <1>6, <1>10, <1>11, <3>1, <3>2, <3>5, <4>1
    <3>6. CASE g # old /\ g # to
      <4>1. e # last
        BY <1>5, <3>6
      <4> QED BY <1>11, <3>1, <3>2, <3>6, <4>1
    <3> QED BY <3>3, <3>4, <3>5, <3>6
  <2> QED BY <2>1, <2>2
<1>16. ASSUME NEW g \in Groups, NEW k \in 0 .. gcount'[g] - 1
       PROVE  /\ g2p'[g][k] \in EventIds
              /\ p2g'[g2p'[g][k]] = g
              /\ p2g_index'[g2p'[g][k]] = k
  <2>1. \A h \in Groups : \A j \in 0 .. gcount[h] - 1 :
           g2p[h][j] \in EventIds /\ p2g[g2p[h][j]] = h /\ p2g_index[g2p[h][j]] = j
    BY DEF IInv, ListsAreInverse
  <2>2. CASE g = old
    <3>1. k \in 0 .. end - 1 /\ g2p'[g][k] = oldlist[k]
      BY <1>11, <2>2
    <3>2. CASE k = index
      <4>1. g2p'[g][k] = last /\ last # n
        BY <1>4, <1>5, <1>10, <3>1, <3>2
      <4> QED BY <1>5, <1>12, <2>2, <3>2, <4>1
    <3>3. CASE k # index
      <4>1. k \in 0 .. gcount[old] - 1 /\ k # end
        BY <1>4, <3>1
      <4> DEFINE e == g2p[old][k]
      <4>2. e \in EventIds /\ p2g[e] = old /\ p2g_index[e] = k
        BY <1>4, <2>1, <4>1
      <4>3. e # n /\ e # last
        BY <1>5, <3>3, <4>1, <4>2
      <4>4. g2p'[g][k] = e
        BY <1>10, <3>1, <3>3
      <4> QED BY <1>12, <2>2, <4>2, <4>3, <4>4
    <3> QED BY <3>2, <3>3
  <2>3. CASE g = to
    <3>1. k \in 0 .. top /\ g2p'[g][k] = newlist[k]
      <4>1. gcount'[g] = top + 1 /\ g2p'[g] = newlist
        BY <1>1, <1>3, <1>11, <2>3
      <4> QED BY <1>6, <4>1
    <3>2. CASE k = top
      BY <1>10, <1>12, <2>3, <3>1, <3>2
    <3>3. CASE k # top
      <4>1. k \in 0 .. top - 1
        BY <1>6, <3>1, <3>3
      <4> DEFINE e == g2p[to][k]
      <4>2. e \in EventIds /\ p2g[e] = to /\ p2g_index[e] = k
        BY <1>3, <2>1, <4>1
      <4>3. e # n /\ e # last
        BY <1>1, <1>5, <4>2
      <4>4. g2p'[g][k] = e
        BY <1>10, <3>1, <4>1
      <4> QED BY <1>12, <2>3, <4>2, <4>3, <4>4
    <3> QED BY <3>2, <3>3
  <2>4. CASE g # old /\ g # to
    <3> DEFINE e == g2p[g][k]
    <3>1. k \in 0 .. gcount[g] - 1 /\ g2p'[g][k] = e
      BY <1>11, <2>4
    <3>2. e \in EventIds /\ p2g[e] = g /\ p2g_index[e] = k
      BY <2>1, <3>1
    <3>3. e # n /\ e # last
      BY <1>5, <2>4, <3>2
    <3> QED BY <1>12, <3>1, <3>2, <3>3
  <2> QED BY <2>2, <2>3, <2>4
<1> QED BY <1>14, <1>15, <1>16 DEF IInv, ListsAreInverse

(* Every step preserves the invariant.                                     *)
LEMMA StepIInv == IInv /\ [Next]_vars => IInv'
<1> SUFFICES ASSUME IInv, [Next]_vars PROVE IInv'
  OBVIOUS
<1>1. CASE StartInit \/ InitDone
  BY <1>1, BuildSteps
<1>2. CASE \E S \in SUBSET EventIds : Cardinality(S) <= MaxBatch /\ StartUpdate(S)
  BY <1>2, QuietSteps
<1>3. ASSUME NEW n \in EventIds, AlterElement(n) PROVE IInv'
  BY <1>3, StayStep, MoveStep DEF AlterElement
<1>4. CASE \E n \in EventIds : SkipElement(n)
  BY <1>4, QuietSteps
<1>5. CASE UpdateDone \/ NoneActive \/ StartSample \/ UNCHANGED vars
  BY <1>5, QuietSteps
<1>6. CASE Trial
  BY <1>6, TrialStep
<1> QED BY <1>1, <1>2, <1>3, <1>4, <1>5, <1>6 DEF Next

(* Every variable keeps its kind and every list fits its array.            *)
THEOREM TypeCorrect == Spec => []TypeOK
<1>1. IInv => TypeOK
  BY DEF IInv
<1> QED BY <1>1, InitIInv, StepIInv, PTL DEF Spec

(* The lists and the arrays that point into them are inverse to each other *)
(* for ever, so removing an event from its group never removes another.    *)
THEOREM ListsStayInverse == Spec => []ListsAreInverse
<1>1. IInv => ListsAreInverse
  BY DEF IInv
<1> QED BY <1>1, InitIInv, StepIInv, PTL DEF Spec

-----------------------------------------------------------------------------
(* The running sums and the count.                                         *)

(* Summing by groups gives the total: k says which group, of K, each       *)
(* member of S is in.                                                      *)
LEMMA SumByGroups ==
    ASSUME NEW f, NEW S, IsFiniteSet(S), \A x \in S : f[x] \in Nat,
           NEW K, IsFiniteSet(K), NEW k, \A x \in S : k[x] \in K
    PROVE  SumOver(f, S) = SumOver([g \in K |-> SumOver(f, {x \in S : k[x] = g})], K)
<1> DEFINE part(T) == [g \in K |-> SumOver(f, {x \in T : k[x] = g})]
           D == {T \in SUBSET S : SumOver(f, T) # SumOver(part(T), K)}
<1>1. SUFFICES ASSUME D # {} PROVE FALSE
  OBVIOUS
<1>2. PICK T \in D : \A U \in D : U \subseteq T => U = T
  <2>1. D \in SUBSET SUBSET S
    OBVIOUS
  <2> HIDE DEF D
  <2> QED BY <1>1, <2>1, Smallest
<1>3. T \in SUBSET S /\ IsFiniteSet(T)
  BY FS_Subset
<1>4. ASSUME NEW U \in SUBSET S, NEW g \in K
      PROVE  IsFiniteSet({x \in U : k[x] = g}) /\ part(U)[g] \in Nat
  <2>1. IsFiniteSet({x \in U : k[x] = g}) /\ {x \in U : k[x] = g} \in SUBSET S
    BY FS_Subset
  <2>2. SumOver(f, {x \in U : k[x] = g}) \in Nat
    BY <2>1, SumType
  <2> QED BY <2>1, <2>2
<1>5. T # {}
  <2>1. SUFFICES ASSUME T = {} PROVE FALSE
    OBVIOUS
  <2>2. \A g \in K : part(T)[g] = 0
    <3>1. SUFFICES ASSUME NEW g \in K PROVE SumOver(f, {x \in T : k[x] = g}) = 0
      OBVIOUS
    <3>2. {x \in T : k[x] = g} = {}
      BY <2>1
    <3>3. IsFiniteSet({})
      BY FS_EmptySet
    <3> QED BY <3>2, <3>3, SumUnfolds
  <2>3. SumOver(part(T), K) = 0
    <3> HIDE DEF part
    <3> QED BY <2>2, SumBounds
  <2> QED BY <1>3, <2>1, <2>3, SumUnfolds
<1>6. PICK x \in T : TRUE
  BY <1>5
<1> DEFINE U == T \ {x}
           g == k[x]
<1>7. SumOver(f, U) = SumOver(part(U), K)
  <2>1. U \in SUBSET S /\ U \subseteq T /\ U # T
    BY <1>3
  <2>2. U \notin D
    BY <1>2, <2>1
  <2> HIDE DEF U, part
  <2> QED BY <2>1, <2>2
<1>8. SumOver(f, T) = f[x] + SumOver(f, U) /\ f[x] \in Nat
  BY <1>3, SumWithout
<1>9. g \in K /\ part(T)[g] = f[x] + part(U)[g]
  <2> DEFINE Tg == {y \in T : k[y] = g}
             Ug == {y \in U : k[y] = g}
  <2>1. g \in K /\ x \in Tg /\ Tg \ {x} = Ug
    BY <1>3
  <2>2. IsFiniteSet(Tg) /\ \A y \in Tg : f[y] \in Nat
    BY <1>3, <1>4, <2>1
  <2>3. part(T)[g] = SumOver(f, Tg) /\ part(U)[g] = SumOver(f, Ug)
    BY <2>1
  <2> HIDE DEF Tg, Ug, part
  <2> QED BY <2>1, <2>2, <2>3, SumWithout
<1>10. \A h \in K \ {g} : part(T)[h] = part(U)[h]
  <2>1. SUFFICES ASSUME NEW h \in K \ {g} PROVE part(T)[h] = part(U)[h]
    OBVIOUS
  <2>2. {y \in T : k[y] = h} = {y \in U : k[y] = h}
    BY <2>1
  <2> QED BY <2>2
<1>11. \A h \in K : part(U)[h] \in Nat /\ part(T)[h] \in Nat
  BY <1>3, <1>4
<1> HIDE DEF U, g
<1>12. /\ SumOver(part(T), K) = SumOver(part(U), K) - part(U)[g] + part(T)[g]
       /\ SumOver(part(U), K) \in Nat
  <2> HIDE DEF part
  <2> QED BY <1>9, <1>10, <1>11, SumChanged
<1>13. SumOver(f, T) # SumOver(part(T), K)
  OBVIOUS
<1> HIDE DEF part
<1> QED BY <1>7, <1>8, <1>9, <1>11, <1>12, <1>13

(* The totals of the groups with weight add up to the total of all.        *)
LEMMA GroupTotals ==
    ASSUME NEW q \in [EventIds -> 0 .. Hi], NEW k \in [EventIds -> Groups],
           \A e \in EventIds : k[e] = GroupOf[q[e]],
           NEW t, \A g \in Groups : t[g] = SumOver(q, {e \in EventIds : k[e] = g})
    PROVE  /\ SumOver(q, EventIds) = SumOver(t, 0 .. NGroups - 1)
           /\ \A g \in Groups : t[g] \in Nat
<1> DEFINE part == [g \in Groups |-> SumOver(q, {e \in EventIds : k[e] = g})]
<1>1. /\ IsFiniteSet(EventIds) /\ \A e \in EventIds : q[e] \in Nat
      /\ \A g \in Groups : IsFiniteSet({e \in EventIds : k[e] = g})
  BY FiniteEvents
<1>2. /\ IsFiniteSet(Groups) /\ NGroups \in Groups /\ NGroups \in Nat
      /\ Groups \ {NGroups} = 0 .. NGroups - 1
  <2>1. NGroups \in Nat
    BY SizeAssumption
  <2>2. Groups = 0 .. NGroups /\ IsFiniteSet(Groups)
    BY <2>1, FS_Interval DEF Groups
  <2>3. Groups \ {NGroups} = 0 .. NGroups - 1 /\ NGroups \in Groups
    BY <2>1, <2>2
  <2> QED BY <2>1, <2>2, <2>3
<1>3. \A g \in Groups : t[g] \in Nat
  <2>1. SUFFICES ASSUME NEW g \in Groups PROVE t[g] \in Nat
    OBVIOUS
  <2> DEFINE E == {e \in EventIds : k[e] = g}
  <2>2. t[g] = SumOver(q, E)
    OBVIOUS
  <2>3. IsFiniteSet(E) /\ \A e \in E : q[e] \in Nat
    BY <1>1
  <2> HIDE DEF E
  <2> QED BY <2>2, <2>3, SumType
<1>4. SumOver(q, EventIds) = SumOver(part, Groups)
  BY <1>1, <1>2, SumByGroups
<1>5. SumOver(part, Groups) = SumOver(t, Groups)
  <2>1. \A g \in Groups : part[g] = t[g]
    OBVIOUS
  <2> HIDE DEF part
  <2> QED BY <1>2, <2>1, SumSame
<1>6. t[NGroups] = 0
  <2>1. \A e \in EventIds : k[e] = NGroups => q[e] = 0
    BY GroupAssumption
  <2>2. SumOver(q, {e \in EventIds : k[e] = NGroups}) = 0
    BY <1>1, <1>2, <2>1, SumBounds
  <2> QED BY <1>2, <2>2
<1>7. SumOver(t, Groups) = t[NGroups] + SumOver(t, 0 .. NGroups - 1)
  <2>1. SumOver(t, Groups) = t[NGroups] + SumOver(t, Groups \ {NGroups})
    BY <1>2, <1>3, SumWithout
  <2> QED BY <1>2, <2>1
<1>8. SumOver(t, 0 .. NGroups - 1) \in Nat
  <2>1. IsFiniteSet(0 .. NGroups - 1) /\ \A g \in 0 .. NGroups - 1 : t[g] \in Nat
    BY <1>2, <1>3, FS_Subset
  <2> QED BY <2>1, SumType
<1> QED BY <1>3, <1>4, <1>5, <1>6, <1>7, <1>8

(* The sums are those of the propensities q, k being the group of each     *)
(* event: g the totals of the groups, n the number of active events.       *)
Exact(q, k, g, t, n) ==
    /\ \A h \in Groups : g[h] = SumOver(q, {e \in EventIds : k[e] = h})
    /\ t = SumOver(q, EventIds)
    /\ n = Cardinality({e \in EventIds : q[e] > 0})

LEMMA ExactSums == SumsAreExact <=> Exact(p, p2g, gpsum, psum, num_active) /\ sum = psum
BY DEF SumsAreExact, Exact

(* The count of active events when one propensity changes.                 *)
LEMMA ActiveChanged ==
    ASSUME NEW q \in [EventIds -> 0 .. Hi], NEW n \in EventIds, NEW new \in 0 .. Hi
    PROVE  Cardinality({e \in EventIds : [q EXCEPT ![n] = new][e] > 0}) =
             Cardinality({e \in EventIds : q[e] > 0}) + (IF q[n] = 0 THEN 1 ELSE 0)
                                                      - (IF new = 0 THEN 1 ELSE 0)
<1> DEFINE r == [q EXCEPT ![n] = new]
           on(f) == {e \in EventIds : f[e] > 0}
           rest == on(q) \ {n}
<1>1. /\ IsFiniteSet(rest) /\ Cardinality(rest) \in Nat /\ n \notin rest
      /\ IsFiniteSet(on(q)) /\ IsFiniteSet(on(r))
  BY FiniteEvents
<1>2. Cardinality(on(q)) = Cardinality(rest) + (IF q[n] = 0 THEN 0 ELSE 1)
  <2>1. CASE q[n] = 0
    <3>1. on(q) = rest
      BY <2>1
    <3> HIDE DEF on, rest
    <3> QED BY <1>1, <2>1, <3>1
  <2>2. CASE q[n] # 0
    <3>1. on(q) = rest \cup {n}
      BY <2>2
    <3> HIDE DEF on, rest
    <3> QED BY <1>1, <2>2, <3>1, FS_AddElement
  <2> QED BY <2>1, <2>2
<1>3. Cardinality(on(r)) = Cardinality(rest) + (IF new = 0 THEN 0 ELSE 1)
  <2>1. CASE new = 0
    <3>1. on(r) = rest
      BY <2>1
    <3> HIDE DEF on, rest
    <3> QED BY <1>1, <2>1, <3>1
  <2>2. CASE new # 0
    <3>1. on(r) = rest \cup {n}
      BY <2>2
    <3> HIDE DEF on, rest
    <3> QED BY <1>1, <2>2, <3>1, FS_AddElement
  <2> QED BY <2>1, <2>2
<1> HIDE DEF on, rest
<1>4. Cardinality(on(r)) = Cardinality(on(q)) + (IF q[n] = 0 THEN 1 ELSE 0)
                                              - (IF new = 0 THEN 1 ELSE 0)
  BY <1>1, <1>2, <1>3
<1> QED BY <1>4 DEF on

(* The group totals and the total after event n changed, in its group or   *)
(* to another.                                                             *)
LEMMA ExactChanged ==
    ASSUME NEW q \in [EventIds -> 0 .. Hi], NEW k \in [EventIds -> Groups],
           NEW g, DOMAIN g = Groups, NEW t, NEW c, Exact(q, k, g, t, c),
           NEW n \in EventIds, NEW new \in 0 .. Hi, NEW to \in Groups,
           NEW h, h = IF to = k[n] THEN [g EXCEPT ![to] = @ + new - q[n]]
                      ELSE [g EXCEPT ![k[n]] = @ - q[n], ![to] = @ + new]
    PROVE  Exact([q EXCEPT ![n] = new], [k EXCEPT ![n] = to], h, t + new - q[n],
                 c + (IF q[n] = 0 THEN 1 ELSE 0) - (IF new = 0 THEN 1 ELSE 0))
<1> DEFINE r == [q EXCEPT ![n] = new]
           l == [k EXCEPT ![n] = to]
           of(m, j) == {e \in EventIds : m[e] = j}
           old == k[n]
<1>1. /\ \A e \in EventIds : q[e] \in Nat /\ r[e] \in Nat
      /\ \A e \in EventIds \ {n} : r[e] = q[e] /\ l[e] = k[e]
      /\ r[n] = new /\ new \in Nat /\ q[n] \in Nat /\ l[n] = to /\ old \in Groups
  OBVIOUS
<1>2. ASSUME NEW m, NEW j PROVE IsFiniteSet(of(m, j)) /\ of(m, j) \subseteq EventIds
  BY FiniteEvents
<1>3. IsFiniteSet(EventIds)
  BY FiniteEvents
<1>4. t \in Nat /\ SumOver(r, EventIds) = t + new - q[n]
  <2>1. t = SumOver(q, EventIds)
    BY DEF Exact
  <2> HIDE DEF r
  <2>2. SumOver(r, EventIds) = SumOver(q, EventIds) - q[n] + r[n] /\ SumOver(q, EventIds) \in Nat
    BY <1>1, <1>3, SumChanged
  <2> QED BY <1>1, <2>1, <2>2
<1>5. ASSUME NEW j \in Groups PROVE g[j] = SumOver(q, of(k, j)) /\ g[j] \in Nat
  <2>1. g[j] = SumOver(q, of(k, j))
    BY DEF Exact
  <2> HIDE DEF of
  <2>2. IsFiniteSet(of(k, j)) /\ \A e \in of(k, j) : q[e] \in Nat
    BY <1>1, <1>2
  <2> QED BY <2>1, <2>2, SumType
<1>6. ASSUME NEW j \in Groups PROVE h[j] = SumOver(r, of(l, j))
  <2>1. /\ IsFiniteSet(of(k, j)) /\ IsFiniteSet(of(l, j))
        /\ \A e \in of(k, j) : q[e] \in Nat
        /\ \A e \in of(l, j) : q[e] \in Nat /\ r[e] \in Nat
        /\ \A e \in of(k, j) \ {n} : r[e] = q[e]
    <3> HIDE DEF of, r, l
    <3> QED BY <1>1, <1>2
  <2>2. CASE j # old /\ j # to
    <3>1. of(l, j) = of(k, j) /\ n \notin of(k, j)
      BY <1>1, <2>2
    <3>2. h[j] = g[j]
      BY <2>2
    <3> HIDE DEF of, r, l
    <3>3. SumOver(r, of(k, j)) = SumOver(q, of(k, j))
      BY <2>1, <3>1, SumSame
    <3> QED BY <1>5, <3>1, <3>2, <3>3
  <2>3. CASE j = old /\ j = to
    <3>1. of(l, j) = of(k, j) /\ n \in of(k, j)
      BY <1>1, <2>3
    <3>2. h[j] = g[j] + new - q[n]
      BY <2>3
    <3> HIDE DEF of, r, l
    <3>3. SumOver(r, of(k, j)) = SumOver(q, of(k, j)) - q[n] + r[n]
      BY <1>1, <2>1, <3>1, SumChanged
    <3> QED BY <1>1, <1>5, <3>1, <3>2, <3>3
  <2>4. CASE j = old /\ j # to
    <3>1. of(l, j) = of(k, j) \ {n} /\ n \in of(k, j)
      BY <1>1, <2>4
    <3>2. h[j] = g[j] - q[n]
      BY <2>4
    <3> HIDE DEF of, r, l
    <3>3. SumOver(q, of(k, j)) = q[n] + SumOver(q, of(l, j))
      BY <2>1, <3>1, SumWithout
    <3>4. SumOver(r, of(l, j)) = SumOver(q, of(l, j)) /\ SumOver(q, of(l, j)) \in Nat
      BY <2>1, <3>1, SumSame, SumType
    <3> QED BY <1>1, <1>5, <3>2, <3>3, <3>4
  <2>5. CASE j # old /\ j = to
    <3>1. of(k, j) = of(l, j) \ {n} /\ n \in of(l, j)
      BY <1>1, <2>5
    <3>2. h[j] = g[j] + new
      BY <2>5
    <3> HIDE DEF of, r, l
    <3>3. SumOver(r, of(l, j)) = r[n] + SumOver(r, of(k, j))
      BY <2>1, <3>1, SumWithout
    <3>4. SumOver(r, of(k, j)) = SumOver(q, of(k, j))
      BY <2>1, <3>1, SumSame
    <3> QED BY <1>1, <1>5, <3>2, <3>3, <3>4
  <2> QED BY <2>2, <2>3, <2>4, <2>5
<1>7. Cardinality({e \in EventIds : r[e] > 0})
        = c + (IF q[n] = 0 THEN 1 ELSE 0) - (IF new = 0 THEN 1 ELSE 0)
  <2>1. c = Cardinality({e \in EventIds : q[e] > 0})
    BY DEF Exact
  <2> QED BY <2>1, ActiveChanged
<1> HIDE DEF r, l
<1>8. Exact(r, l, h, t + new - q[n],
            c + (IF q[n] = 0 THEN 1 ELSE 0) - (IF new = 0 THEN 1 ELSE 0))
  BY <1>4, <1>6, <1>7 DEF Exact
<1> QED BY <1>8 DEF r, l

(* What update() has been told of, its copy has: an event can happen for   *)
(* the solver when it can for the application.                             *)
Told ==
    /\ pc # "update" => todo = {}
    /\ pc # "init" => \A e \in EventIds \ todo : p[e] = 0 <=> propensity[e] = 0

(* The lists, the sums, and what the copy is of.                           *)
SumInv ==
    /\ IInv
    /\ SumsAreExact
    /\ DOMAIN gpsum = Groups
    /\ Told

LEMMA BoundedZero == ASSUME NEW x \in Weight PROVE Bounded(x) = 0 <=> x = 0
BY SizeAssumption DEF Bounded

(* partition() sums what it puts in the lists.                             *)
LEMMA BuiltSums ==
    ASSUME NEW q \in [EventIds -> 0 .. Hi]
    PROVE  LET b == Partitioned(q)
           IN  /\ Exact(q, b.p2g, b.gpsum, SumOver(q, EventIds),
                        Cardinality({e \in EventIds : q[e] > 0}))
               /\ DOMAIN b.gpsum = Groups
<1> DEFINE b == Partitioned(q)
<1>1. /\ b.p2g = [e \in EventIds |-> GroupOf[q[e]]]
      /\ b.gpsum = [g \in Groups |-> SumOver(q, Members(q, g))]
  BY DEF Partitioned
<1>2. \A g \in Groups : Members(q, g) = {e \in EventIds : b.p2g[e] = g}
  BY <1>1 DEF Members
<1> HIDE DEF b
<1>3. \A g \in Groups : b.gpsum[g] = SumOver(q, {e \in EventIds : b.p2g[e] = g})
  BY <1>1, <1>2
<1> QED BY <1>1, <1>3 DEF b, Exact

LEMMA NothingWeighs ==
    ASSUME NEW q \in [EventIds -> 0 .. Hi],
           Cardinality({e \in EventIds : q[e] > 0}) = 0
    PROVE  (\A e \in EventIds : q[e] = 0) /\ SumOver(q, EventIds) = 0
<1>1. IsFiniteSet({e \in EventIds : q[e] > 0}) /\ IsFiniteSet(EventIds)
  BY FiniteEvents
<1>2. {e \in EventIds : q[e] > 0} = {}
  BY <1>1, FS_EmptySet
<1>3. \A e \in EventIds : q[e] = 0 /\ q[e] \in Nat
  BY <1>2
<1> QED BY <1>1, <1>3, SumBounds

LEMMA InitSumInv == Init => SumInv
<1> SUFFICES ASSUME Init PROVE SumInv
  OBVIOUS
<1>1. IInv /\ p \in [EventIds -> 0 .. Hi] /\ \A e \in EventIds : p[e] = 0
  BY InitIInv DEF Init, IInv, TypeOK, NoWeights
<1>2. p2g = Partitioned(p).p2g /\ gpsum = Partitioned(p).gpsum /\ psum = 0 /\ num_active = 0
      /\ sum = 0
  BY DEF Init
<1>3. SumOver(p, EventIds) = 0
  <2>1. IsFiniteSet(EventIds)
    BY FiniteEvents
  <2> QED BY <1>1, <2>1, SumBounds
<1>4. Cardinality({e \in EventIds : p[e] > 0}) = 0
  <2>1. {e \in EventIds : p[e] > 0} = {}
    BY <1>1
  <2> QED BY <2>1, FS_EmptySet
<1>5. Exact(p, p2g, gpsum, psum, num_active) /\ DOMAIN gpsum = Groups
  BY <1>1, <1>2, <1>3, <1>4, BuiltSums
<1>6. Told
  BY DEF Init, Told
<1> QED BY <1>1, <1>2, <1>5, <1>6, ExactSums DEF SumInv

(* init().                                                                 *)
LEMMA BuildSums ==
    ASSUME SumInv, StartInit \/ InitDone
    PROVE  SumInv'
<1>1. PICK q \in [EventIds -> 0 .. Hi] :
         Build(q) /\ (InitDone => q = [e \in EventIds |-> Bounded(propensity[e])])
  <2>1. CASE StartInit
    <3>1. NoWeights \in [EventIds -> 0 .. Hi] /\ Build(NoWeights) /\ ~ InitDone
      BY <2>1, SizeAssumption DEF StartInit, InitDone, NoWeights
    <3> QED BY <3>1
  <2>2. CASE InitDone
    <3>1. [e \in EventIds |-> Bounded(propensity[e])] \in [EventIds -> 0 .. Hi]
      BY BoundedType DEF SumInv, IInv, TypeOK
    <3> QED BY <2>2, <3>1 DEF InitDone
  <2> QED BY <2>1, <2>2
<1>2. /\ p' = q /\ p2g' = Partitioned(q).p2g /\ gpsum' = Partitioned(q).gpsum
      /\ psum' = SumOver(q, EventIds) /\ sum' = SumOver(q, EventIds)
      /\ num_active' = Cardinality({e \in EventIds : q[e] > 0})
  BY <1>1 DEF Build
<1>3. Exact(q, p2g', gpsum', psum', num_active') /\ DOMAIN gpsum' = Groups
  BY <1>2, BuiltSums
<1>4. SumsAreExact'
  BY <1>2, <1>3 DEF SumsAreExact, Exact
<1>5. Told'
  <2>1. CASE StartInit
    BY <2>1 DEF StartInit, SumInv, Told
  <2>2. CASE InitDone
    <3>1. \A e \in EventIds : p'[e] = Bounded(propensity[e]) /\ propensity[e] \in Weight
      BY <1>1, <1>2, <2>2 DEF SumInv, IInv, TypeOK
    <3>2. pc = "init" /\ todo = {} /\ UNCHANGED <<propensity, todo>> /\ pc' = "idle"
      BY <2>2 DEF InitDone, SumInv, Told
    <3> QED BY <3>1, <3>2, BoundedZero DEF Told
  <2> QED BY <2>1, <2>2
<1>6. IInv'
  BY BuildSteps DEF SumInv
<1> QED BY <1>3, <1>4, <1>5, <1>6 DEF SumInv

(* Steps that leave the copy and the sums alone.                           *)
LEMMA QuietSums ==
    ASSUME SumInv,
           \/ \E S \in SUBSET EventIds : StartUpdate(S)
           \/ \E n \in EventIds : SkipElement(n)
           \/ UpdateDone \/ StartSample \/ Trial \/ UNCHANGED vars
    PROVE  SumInv'
<1>1. UNCHANGED <<p, p2g, gpsum, psum, sum, num_active>>
  BY DEF StartUpdate, SkipElement, UpdateDone, StartSample, Trial, vars, groups, lists
<1>2. SumsAreExact' /\ DOMAIN gpsum' = Groups
  BY <1>1 DEF SumInv, SumsAreExact
<1>3. IInv'
  BY QuietSteps, TrialStep DEF SumInv
<1>4. Told'
  <2>1. ASSUME NEW S \in SUBSET EventIds, StartUpdate(S) PROVE Told'
    <3>1. /\ pc = "idle" /\ todo = {} /\ pc' = "update" /\ todo' = S
          /\ \A e \in EventIds \ S : propensity'[e] = propensity[e]
      BY <2>1 DEF StartUpdate, SumInv, Told
    <3> QED BY <1>1, <3>1 DEF SumInv, Told
  <2>2. ASSUME NEW n \in EventIds, SkipElement(n) PROVE Told'
    BY <1>1, <2>2 DEF SkipElement, SumInv, Told
  <2>3. CASE UpdateDone \/ StartSample
    BY <1>1, <2>3 DEF UpdateDone, StartSample, SumInv, Told
  <2>4. CASE Trial
    <3>1. pc = "sample" /\ pc' \in {"sample", "idle"} /\ UNCHANGED <<propensity, todo>>
      BY <2>4 DEF Trial
    <3> QED BY <1>1, <3>1 DEF SumInv, Told
  <2>5. CASE UNCHANGED vars
    BY <2>5 DEF vars, SumInv, Told
  <2> QED BY <2>1, <2>2, <2>3, <2>4, <2>5
<1> QED BY <1>2, <1>3, <1>4 DEF SumInv

(* event() when nothing can happen sets the total to zero, which it is.    *)
LEMMA NoneSums ==
    ASSUME SumInv, NoneActive
    PROVE  SumInv' /\ \A e \in EventIds : propensity[e] = 0
<1>1. /\ UNCHANGED <<p, p2g, gpsum, psum, num_active, propensity, pc, todo>>
      /\ sum' = 0 /\ num_active = 0 /\ pc = "idle"
  BY DEF NoneActive, groups, lists
<1>2. /\ p \in [EventIds -> 0 .. Hi]
      /\ psum = SumOver(p, EventIds) /\ num_active = Cardinality({e \in EventIds : p[e] > 0})
  BY DEF SumInv, IInv, TypeOK, SumsAreExact
<1>3. psum = 0 /\ \A e \in EventIds : p[e] = 0
  BY <1>1, <1>2, NothingWeighs
<1>4. SumsAreExact'
  BY <1>1, <1>3 DEF SumInv, SumsAreExact
<1>5. IInv'
  BY QuietSteps DEF SumInv
<1>6. \A e \in EventIds : propensity[e] = 0
  BY <1>1, <1>3 DEF SumInv, Told
<1>7. Told'
  BY <1>1 DEF SumInv, Told
<1> QED BY <1>1, <1>4, <1>5, <1>6, <1>7 DEF SumInv

(* One iteration of update().                                              *)
LEMMA AlterSums ==
    ASSUME SumInv, NEW n \in EventIds, AlterElement(n)
    PROVE  SumInv'
<1> DEFINE new == Bounded(propensity[n])
           to  == GroupOf[new]
<1>1. /\ p \in [EventIds -> 0 .. Hi] /\ p2g \in [EventIds -> Groups]
      /\ DOMAIN gpsum = Groups /\ IInv /\ sum = psum
      /\ Exact(p, p2g, gpsum, psum, num_active)
  BY ExactSums DEF SumInv, IInv, TypeOK
<1>2. new \in 0 .. Hi /\ to \in Groups /\ (new = 0 <=> propensity[n] = 0)
  BY <1>1, BoundedType, BoundedZero DEF IInv, TypeOK
<1>3. /\ p' = [p EXCEPT ![n] = new] /\ psum' = psum + new - p[n]
      /\ sum' = sum - p[n] + new /\ todo' = todo \ {n} /\ UNCHANGED <<propensity, pc>>
      /\ num_active' = num_active + (IF p[n] = 0 THEN 1 ELSE 0)
                                  - (IF new = 0 THEN 1 ELSE 0)
      /\ pc = "update"
      /\ StayInGroup(n, new) \/ MoveToGroup(n, new)
  BY <1>2 DEF AlterElement
<1>4. IInv'
  BY <1>1, <1>3, StayStep, MoveStep
<1>5. /\ p2g' = [p2g EXCEPT ![n] = to]
      /\ gpsum' = IF to = p2g[n] THEN [gpsum EXCEPT ![to] = @ + new - p[n]]
                  ELSE [gpsum EXCEPT ![p2g[n]] = @ - p[n], ![to] = @ + new]
  <2> HIDE DEF new
  <2>1. CASE StayInGroup(n, new)
    <3>1. to = p2g[n] /\ p2g' = p2g /\ gpsum' = [gpsum EXCEPT ![to] = @ + new - p[n]]
      BY <2>1 DEF StayInGroup, lists
    <3>2. p2g = [p2g EXCEPT ![n] = to]
      BY <1>1, <3>1
    <3> QED BY <3>1, <3>2
  <2>2. CASE MoveToGroup(n, new)
    BY <2>2 DEF MoveToGroup
  <2> QED BY <1>3, <2>1, <2>2
<1> HIDE DEF new, to
<1>6. Exact(p', p2g', gpsum', psum', num_active')
  BY <1>1, <1>2, <1>3, <1>5, ExactChanged
<1>7. sum' = psum'
  <2>1. IsFiniteSet(EventIds) /\ \A e \in EventIds : p[e] \in Nat
    BY <1>1, FiniteEvents
  <2>2. psum \in Nat
    BY <1>1, <2>1, SumType DEF Exact
  <2>3. p[n] \in Nat /\ new \in Nat
    BY <1>1, <1>2
  <2> QED BY <1>1, <1>3, <2>2, <2>3
<1>8. SumsAreExact' /\ DOMAIN gpsum' = Groups
  BY <1>1, <1>5, <1>6, <1>7 DEF SumsAreExact, Exact
<1>9. Told'
  <2>1. p'[n] = 0 <=> propensity'[n] = 0
    BY <1>1, <1>2, <1>3
  <2>2. \A e \in EventIds \ {n} : p'[e] = p[e]
    BY <1>1, <1>3
  <2> QED BY <1>3, <2>1, <2>2 DEF SumInv, Told
<1> QED BY <1>4, <1>8, <1>9 DEF SumInv

LEMMA StepSumInv == SumInv /\ [Next]_vars => SumInv'
<1> SUFFICES ASSUME SumInv, [Next]_vars PROVE SumInv'
  OBVIOUS
<1>1. CASE StartInit \/ InitDone
  BY <1>1, BuildSums
<1>2. CASE \E S \in SUBSET EventIds : Cardinality(S) <= MaxBatch /\ StartUpdate(S)
  BY <1>2, QuietSums
<1>3. ASSUME NEW n \in EventIds, AlterElement(n) PROVE SumInv'
  BY <1>3, AlterSums
<1>4. CASE \E n \in EventIds : SkipElement(n)
  BY <1>4, QuietSums
<1>5. CASE NoneActive
  BY <1>5, NoneSums
<1>6. CASE UpdateDone \/ StartSample \/ Trial \/ UNCHANGED vars
  BY <1>6, QuietSums
<1> QED BY <1>1, <1>2, <1>3, <1>4, <1>5, <1>6 DEF Next

(* The totals of the groups, the total and the count of active events,     *)
(* which alter_element() and update() adjust by differences, are at all    *)
(* times those of the propensities the solver goes by.                     *)
THEOREM SumsStayExact == Spec => []SumsAreExact
<1>1. SumInv => SumsAreExact
  BY DEF SumInv
<1> QED BY <1>1, InitSumInv, StepSumInv, PTL DEF Spec

-----------------------------------------------------------------------------
(* The contract.                                                           *)

(* linear_select_group() picks a group that has weight.                    *)
LEMMA PickedGroupHasWeight ==
    ASSUME SumInv, NEW t \in 0 .. psum - 1
    PROVE  GroupAt(t) \in 0 .. NGroups - 1 /\ gpsum[GroupAt(t)] > 0
<1> DEFINE upto(g) == SumOver(gpsum, 0 .. g)
           hit == {g \in 0 .. NGroups - 1 : upto(g) > t}
<1>1. /\ p \in [EventIds -> 0 .. Hi] /\ p2g \in [EventIds -> Groups]
      /\ \A e \in EventIds : p2g[e] = GroupOf[p[e]]
      /\ \A g \in Groups : gpsum[g] = SumOver(p, {e \in EventIds : p2g[e] = g})
      /\ psum = SumOver(p, EventIds)
  BY DEF SumInv, IInv, TypeOK, ListsAreInverse, SumsAreExact
<1>2. psum = upto(NGroups - 1) /\ \A g \in Groups : gpsum[g] \in Nat
  BY <1>1, GroupTotals
<1>3. NGroups \in Nat \ {0} /\ \A g \in 0 .. NGroups - 1 : gpsum[g] \in Nat
  BY <1>2, SizeAssumption DEF Groups
<1>4. \A g \in 0 .. NGroups - 1 : upto(g) \in Nat
  <2>1. SUFFICES ASSUME NEW g \in 0 .. NGroups - 1 PROVE upto(g) \in Nat
    OBVIOUS
  <2>2. IsFiniteSet(0 .. g) /\ \A h \in 0 .. g : gpsum[h] \in Nat
    BY <1>3, FS_Interval
  <2> QED BY <2>2, SumType
<1>5. NGroups - 1 \in hit
  <2>1. NGroups - 1 \in 0 .. NGroups - 1
    BY <1>3
  <2> HIDE DEF upto
  <2>2. psum \in Nat
    BY <1>2, <1>4, <2>1
  <2> QED BY <1>2, <2>1, <2>2
<1>6. GroupAt(t) = Min(hit)
  BY <1>5 DEF GroupAt
<1>7. Min(hit) \in hit /\ \A g \in hit : Min(hit) <= g
  <2>1. hit \in SUBSET Nat /\ hit # {}
    BY <1>5
  <2> HIDE DEF hit
  <2>2. \E x \in hit : \A y \in hit : x <= y
    BY <2>1, LeastElement
  <2> QED BY <2>2 DEF Min
<1> DEFINE m == Min(hit)
<1>8. m \in 0 .. NGroups - 1 /\ upto(m) > t
  BY <1>7
<1> HIDE DEF m
<1>9. m = 0 \/ ~ (upto(m - 1) > t)
  <2>1. SUFFICES ASSUME m # 0, upto(m - 1) > t PROVE FALSE
    OBVIOUS
  <2>2. m - 1 \in 0 .. NGroups - 1
    BY <1>3, <1>8, <2>1
  <2>3. m - 1 \in hit
    BY <2>1, <2>2
  <2>4. m <= m - 1
    BY <1>7, <2>3 DEF m
  <2> QED BY <1>8, <2>4
<1>10. upto(m) = gpsum[m] + SumOver(gpsum, 0 .. m - 1)
  <2>1. IsFiniteSet(0 .. m) /\ m \in 0 .. m /\ (0 .. m) \ {m} = 0 .. m - 1
        /\ \A h \in 0 .. m : gpsum[h] \in Nat
    <3>1. m \in Nat /\ m <= NGroups - 1
      BY <1>3, <1>8
    <3>2. IsFiniteSet(0 .. m)
      BY <3>1, FS_Interval
    <3> HIDE DEF upto
    <3> QED BY <1>3, <3>1, <3>2
  <2> QED BY <2>1, SumWithout
<1>11. SumOver(gpsum, 0 .. m - 1) <= t /\ SumOver(gpsum, 0 .. m - 1) \in Nat
  <2>1. CASE m = 0
    <3>1. 0 .. m - 1 = {} /\ IsFiniteSet({})
      BY <2>1, FS_EmptySet
    <3>2. SumOver(gpsum, 0 .. m - 1) = 0
      BY <3>1, SumUnfolds
    <3> QED BY <3>2
  <2>2. CASE m # 0
    <3>1. m - 1 \in 0 .. NGroups - 1
      BY <1>3, <1>8, <2>2
    <3>2. upto(m - 1) \in Nat
      BY <1>4, <3>1
    <3> QED BY <1>9, <2>2, <3>2
  <2> QED BY <2>1, <2>2
<1>12. gpsum[m] > 0
  <2>1. gpsum[m] \in Nat
    BY <1>3, <1>8
  <2> HIDE DEF upto
  <2> QED BY <1>8, <1>10, <1>11, <2>1
<1> QED BY <1>6, <1>8, <1>12 DEF m

(* So a trial never looks at the slot of an empty list, and what it        *)
(* accepts can happen.                                                     *)
LEMMA AcceptedIsActive ==
    ASSUME SumInv, Trial
    PROVE  \/ UNCHANGED <<answer, pc>>
           \/ pc' = "idle" /\ answer' \in EventIds /\ propensity[answer'] > 0
<1>1. PICK t \in 0 .. psum - 1 : \E e \in Candidates(GroupAt(t)) :
         \/ (e = Junk \/ p[e] > 0) /\ answer' = e /\ pc' = "idle"
         \/ UNCHANGED <<answer, pc>>
  BY DEF Trial
<1>2. PICK e \in Candidates(GroupAt(t)) :
         \/ (e = Junk \/ p[e] > 0) /\ answer' = e /\ pc' = "idle"
         \/ UNCHANGED <<answer, pc>>
  BY <1>1
<1> DEFINE g == GroupAt(t)
<1>3. g \in 0 .. NGroups - 1 /\ gpsum[g] > 0
  BY PickedGroupHasWeight
<1> HIDE DEF g
<1>4. /\ g \in Groups /\ gcount[g] \in Nat
      /\ gpsum[g] = SumOver(p, {d \in EventIds : p2g[d] = g})
  BY <1>3, SizeAssumption DEF Groups, SumInv, SumsAreExact, IInv, TypeOK
<1>5. gcount[g] # 0
  <2>1. PICK d \in EventIds : p2g[d] = g
    <3>1. SUFFICES ASSUME {d \in EventIds : p2g[d] = g} = {} PROVE FALSE
      OBVIOUS
    <3>2. SumOver(p, {}) = 0
      BY FS_EmptySet, SumUnfolds
    <3> QED BY <1>3, <1>4, <3>1, <3>2
  <2>2. p2g_index[d] \in Nat /\ p2g_index[d] < gcount[g]
    BY <2>1 DEF SumInv, IInv, TypeOK, ListsAreInverse
  <2> QED BY <1>4, <2>2
<1>6. e \in EventIds
  <2>1. e \in {g2p[g][k] : k \in 0 .. gcount[g] - 1}
    BY <1>2, <1>5 DEF Candidates, g
  <2> QED BY <1>4, <2>1 DEF SumInv, IInv, ListsAreInverse
<1>7. e # Junk
  BY <1>6, SizeAssumption DEF EventIds, Junk
<1>8. p[e] > 0 => propensity[e] > 0
  <2>1. pc = "sample" /\ propensity[e] \in Nat
    BY <1>6, SizeAssumption DEF Trial, SumInv, IInv, TypeOK
  <2>2. p[e] = 0 <=> propensity[e] = 0
    BY <1>6, <2>1 DEF SumInv, Told
  <2> QED BY <2>1, <2>2
<1> QED BY <1>2, <1>6, <1>7, <1>8

(* The group solver picks an event that can happen, and none exactly when  *)
(* there is none, by the propensities of the application and not by its    *)
(* own copy, whatever updates and deletions came before.                   *)
THEOREM ImplementsSolver == Spec => SolverContract
<1> DEFINE known == pc \in {"idle", "sample"}
<1>1. Init => Contract!Init
  BY DEF Init, Contract!Init, Contract!EventIds, EventIds, None, Contract!None
<1>2. SumInv /\ [Next]_vars => [Contract!Next]_<<propensity, known, answer>>
  <2> SUFFICES ASSUME SumInv, [Next]_vars
               PROVE  Contract!Next \/ UNCHANGED <<propensity, known, answer>>
    OBVIOUS
  <2> USE DEF Contract!Next, Contract!EventIds, EventIds, Contract!None, None,
              Contract!NoEvent, NoEvent, Contract!Active
  <2>1. CASE StartInit
    BY <2>1 DEF StartInit, Contract!Change
  <2>2. CASE \E S \in SUBSET EventIds : Cardinality(S) <= MaxBatch /\ StartUpdate(S)
    <3>1. PICK S \in SUBSET EventIds : StartUpdate(S)
      BY <2>2
    <3>2. PICK w \in [S -> Weight] :
            propensity' = [e \in EventIds |-> IF e \in S THEN w[e] ELSE propensity[e]]
      BY <3>1 DEF StartUpdate
    <3>3. propensity' \in [EventIds -> Weight]
      BY <3>2 DEF SumInv, IInv, TypeOK
    <3> QED BY <3>1, <3>3 DEF StartUpdate, Contract!Change
  <2>3. CASE InitDone \/ UpdateDone
    BY <2>3 DEF InitDone, UpdateDone, Contract!Learn
  <2>4. CASE NoneActive
    <3>1. \A e \in EventIds : propensity[e] = 0
      BY <2>4, NoneSums
    <3> QED BY <2>4, <3>1 DEF NoneActive, Contract!Choose
  <2>5. CASE Trial
    <3>1. CASE UNCHANGED <<answer, pc>>
      BY <2>5, <3>1 DEF Trial
    <3>2. CASE pc' = "idle" /\ answer' \in EventIds /\ propensity[answer'] > 0
      BY <2>5, <3>2 DEF Trial, Contract!Choose
    <3> QED BY <2>5, <3>1, <3>2, AcceptedIsActive
  <2>6. CASE (\E n \in EventIds : AlterElement(n) \/ SkipElement(n)) \/ StartSample
             \/ UNCHANGED vars
    BY <2>6 DEF AlterElement, SkipElement, StartSample, vars
  <2> QED BY <2>1, <2>2, <2>3, <2>4, <2>5, <2>6 DEF Next
<1> QED BY <1>1, <1>2, InitSumInv, StepSumInv, PTL DEF Spec, SolverContract, Contract!Spec
=============================================================================
