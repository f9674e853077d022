--------------------------- MODULE HopKMC_proofs ---------------------------
(***************************************************************************)
(* What holds of HopKMC for every lattice, number of processes, length of  *)
(* a run and choice of starts and trajectories: a sector's event lists are *)
(* those of the whole lattice, and the parallel run is a serial run of     *)
(* hops and depositions.                                                   *)
(*                                                                         *)
(* Two hypotheses are made.  WideEnough: where there are several processes *)
(* half a sub-domain has at least the three sites that delpropensity and   *)
(* delevent add up to; the code does not ask for it, and with fewer,       *)
(* sectors of different processes see each other's hops.  StopBatch <= 1,  *)
(* for what depositions do: two of one sweep may be given the same site.   *)
(*                                                                         *)
(* Processes do not wait for each other but for messages, so the invariant *)
(* numbers what each sends and receives.  A process sends and receives     *)
(* before each sector (a leg) and after it (another); Holds says that the  *)
(* messages on the way are those of the legs sent and not yet received, in *)
(* that order.  A site that one process may change is then nowhere else on *)
(* its way (AwayInRound), so that the value that counts is well defined    *)
(* (TruthOf), and what a sector sees of it is that value (SeenIsTrue).     *)
(***************************************************************************)
EXTENDS HopKMC, DataLemmas, FiniteSetTheorems, TLAPS

-----------------------------------------------------------------------------
(* Reach on a lattice.                                                     *)

(* What Within adds in one step.                                           *)
Spread(nb, S, T) == S \cup (T \cap UNION {nb[i] : i \in S})

(* Within is the recursive function it is defined by.                      *)
LEMMA WithinUnfolds ==
    ASSUME NEW nb, NEW S, NEW T
    PROVE  /\ Within(nb, S, T, 0) = S
           /\ \A n \in Nat : Within(nb, S, T, n + 1) = Spread(nb, Within(nb, S, T, n), T)
<1> DEFINE X == SUBSET (S \cup T)
           step == [x \in Nat \X X |-> Spread(nb, x[2], T)]
           Is(f) == f = [k \in Nat |-> IF k = 0 THEN S
                                       ELSE f[k - 1] \cup (T \cap UNION {nb[i] : i \in f[k - 1]})]
<1>1. S \in X /\ step \in [Nat \X X -> X]
  BY DEF Spread
<1>2. PICK f : Recurs(f, S, step, X)
  <2> HIDE DEF step, X
  <2> QED BY <1>1, RecursionOnNat
<1>3. \A n \in Nat : step[<<n, f[n]>>] = Spread(nb, f[n], T)
  <2> HIDE DEF X
  <2>1. \A n \in Nat : <<n, f[n]>> \in Nat \X X
    BY <1>2 DEF Recurs
  <2> QED BY <2>1
<1> HIDE DEF step
<1>4. Is(f)
  <2>1. ASSUME NEW k \in Nat, k # 0
        PROVE  f[k] = f[k - 1] \cup (T \cap UNION {nb[i] : i \in f[k - 1]})
    <3>1. k - 1 \in Nat /\ (k - 1) + 1 = k
      BY <2>1
    <3> QED BY <1>2, <1>3, <3>1 DEF Spread, Recurs
  <2>2. f = [k \in Nat |-> f[k]]
    BY <1>2 DEF Recurs
  <2> QED BY <1>2, <2>1, <2>2 DEF Recurs
<1> DEFINE g == CHOOSE h : Is(h)
<1>5. Is(g)
  BY <1>4
<1>6. \A n : Within(nb, S, T, n) = g[n]
  BY DEF Within
<1> HIDE DEF g
<1>7. g[0] = S
  BY <1>5
<1>8. ASSUME NEW n \in Nat PROVE g[n + 1] = Spread(nb, g[n], T)
  <2>1. n + 1 \in Nat /\ n + 1 # 0 /\ (n + 1) - 1 = n
    OBVIOUS
  <2>2. g[n + 1] = g[(n + 1) - 1] \cup (T \cap UNION {nb[i] : i \in g[(n + 1) - 1]})
    BY <1>5, <2>1
  <2> QED BY <2>1, <2>2 DEF Spread
<1> QED BY <1>6, <1>7, <1>8

(* One, two and three steps of it.                                         *)
LEMMA WithinSteps ==
    ASSUME NEW nb, NEW S, NEW T
    PROVE  /\ Within(nb, S, T, 1) = Spread(nb, S, T)
           /\ Within(nb, S, T, 2) = Spread(nb, Within(nb, S, T, 1), T)
           /\ Within(nb, S, T, 3) = Spread(nb, Within(nb, S, T, 2), T)
<1>1. 0 + 1 = 1 /\ 1 + 1 = 2 /\ 2 + 1 = 3 /\ 0 \in Nat /\ 1 \in Nat /\ 2 \in Nat
  OBVIOUS
<1>2. \A n, m \in Nat : m = n + 1 => Within(nb, S, T, m) = Spread(nb, Within(nb, S, T, n), T)
  BY WithinUnfolds, SMTT(30)
<1>3. Within(nb, S, T, 0) = S
  BY WithinUnfolds
<1> QED BY <1>1, <1>2, <1>3

(* What Within reaches from the sites in S.                                *)
LEMMA WithinReach ==
    ASSUME NEW nb, NEW S, NEW T, NEW j
    PROVE  /\ j \in Within(nb, S, T, 1) <=> j \in S \/ (j \in T /\ \E i \in S : j \in nb[i])
           /\ j \in Within(nb, S, T, 2) <=>
                \/ j \in Within(nb, S, T, 1)
                \/ j \in T /\ \E i \in Within(nb, S, T, 1) : j \in nb[i]
           /\ j \in Within(nb, S, T, 3) <=>
                \/ j \in Within(nb, S, T, 2)
                \/ j \in T /\ \E i \in Within(nb, S, T, 2) : j \in nb[i]
<1>1. \A W : j \in Spread(nb, W, T) <=> j \in W \/ (j \in T /\ \E i \in W : j \in nb[i])
  BY DEF Spread
<1> QED BY <1>1, WithinSteps

-----------------------------------------------------------------------------
(* The lattice, the sectors and what is exchanged for them.                *)

(* Where sub-domains are divided, each half of one has three sites.        *)
WideEnough == \A L \in Layouts : L.px > 1 => 6 * L.px <= L.nx

SectorSet(p, s) == Geometry[layout].set[p][s]
Forward(p, s) == Geometry[layout].forward[p][s]
Backward(p, s) == Geometry[layout].reverse[p][s]

(* Sites at most one, two and three steps away.                            *)
Near(i) == {i} \cup Nbr[i]
Near2(i) == UNION {Near(j) : j \in Near(i)}
Near3(i) == UNION {Near(j) : j \in Near2(i)}

(* What the parameters of a layout are.                                    *)
LEMMA LayoutOf ==
    ASSUME layout \in Layouts
    PROVE  /\ layout.nx \in Nat \ {0} /\ layout.px \in Nat \ {0}
           /\ layout.sweeps \in Nat \ {0} /\ layout.kmc \in BOOLEAN
BY HopAssumption

(* The tables of the lattice that do not depend on a process, ...          *)
LEMMA GeometryOf ==
    ASSUME layout \in Layouts
    PROVE  /\ Nbr = LineNbr(layout.nx) /\ Site = LineSites(layout.nx)
           /\ Owner = LineOwner(layout.nx, layout.px)
           /\ SectorOf = LineSector(layout.nx, layout.px)
<1>1. Geometry[layout] = Tables(layout)
  BY DEF Geometry
<1>2. Nbr = LineNbr(layout.nx)
  BY <1>1 DEF Tables, Nbr
<1>3. Owner = LineOwner(layout.nx, layout.px)
  BY <1>1 DEF Tables, Owner
<1>4. SectorOf = LineSector(layout.nx, layout.px)
  BY <1>1 DEF Tables, SectorOf
<1>5. Site = LineSites(layout.nx)
  BY <1>2 DEF Site, LineNbr
<1> QED BY <1>2, <1>3, <1>4, <1>5

(* ... and those of a process and a sector.                                *)
LEMMA TablesOf ==
    ASSUME layout \in Layouts, NEW p \in Proc, NEW s \in Sectors
    PROVE  /\ SectorSet(p, s) = {i \in Site : Owner[i] = p /\ SectorOf[i] = s}
           /\ Forward(p, s) = Within(Nbr, SectorSet(p, s), Site \ Mine(p), 2) \ Mine(p)
           /\ Backward(p, s) = Within(Nbr, SectorSet(p, s), Site \ Mine(p), 1) \ Mine(p)
           /\ Border(p, s) = {i \in SectorSet(p, s) :
                                ~ (Within(Nbr, {i}, Site, 3) \subseteq SectorSet(p, s))}
<1>1. Geometry[layout] = Tables(layout)
  BY DEF Geometry
<1>2. {i \in Mine(p) : SectorOf[i] = s} = {i \in Site : Owner[i] = p /\ SectorOf[i] = s}
  BY DEF Mine
<1>3. SectorSet(p, s) = {i \in Mine(p) : SectorOf[i] = s}
  BY <1>1, GeometryOf DEF Tables, SectorSet, Proc, Mine
<1>4. Forward(p, s) = Within(Nbr, SectorSet(p, s), Site \ Mine(p), delghost) \ Mine(p)
  BY <1>1, <1>3, GeometryOf DEF Tables, Forward, Proc, Mine
<1>5. Backward(p, s) = Within(Nbr, SectorSet(p, s), Site \ Mine(p), delreverse) \ Mine(p)
  BY <1>1, <1>3, GeometryOf DEF Tables, Backward, Proc, Mine
<1>6. Border(p, s) = {i \in SectorSet(p, s) :
                        ~ (Within(Nbr, {i}, Site, BorderLayers) \subseteq SectorSet(p, s))}
  BY <1>1, <1>3, GeometryOf DEF Tables, Border, Proc, Mine
<1>7. delghost = 2 /\ delreverse = 1 /\ BorderLayers = 3
  BY DEF delghost, delreverse, BorderLayers, delpropensity, delevent
<1> QED BY <1>2, <1>3, <1>4, <1>5, <1>6, <1>7

(* The members of a sector.                                                *)
LEMMA InSector ==
    ASSUME layout \in Layouts, NEW p \in Proc, NEW s \in Sectors, NEW i
    PROVE  i \in SectorSet(p, s) <=> i \in Site /\ Owner[i] = p /\ SectorOf[i] = s
<1>1. SectorSet(p, s) = {k \in Site : Owner[k] = p /\ SectorOf[k] = s}
  BY TablesOf
<1> QED BY <1>1

(* Neighbors are sites, finitely many, and neighbors of each other; every  *)
(* site has an owner and a sector.                                         *)
LEMMA LatticeOf ==
    ASSUME layout \in Layouts
    PROVE  /\ IsFiniteSet(Site) /\ IsFiniteSet(Proc) /\ 0 \in Proc
           /\ DOMAIN Nbr = Site
           /\ \A i \in Site : /\ i \notin Nbr[i] /\ Nbr[i] \subseteq Site
                              /\ \A j \in Nbr[i] : i \in Nbr[j]
                              /\ Owner[i] \in Proc /\ SectorOf[i] \in Sectors
<1> DEFINE n == layout.nx
           m == layout.px
<1>1. n \in Nat \ {0} /\ m \in Nat \ {0} /\ n - 1 \in Int /\ m - 1 \in Int
  BY LayoutOf
<1>2. Site = 0 .. n - 1 /\ Proc = 0 .. m - 1
  BY GeometryOf DEF LineSites, Proc, Procs
<1>3. IsFiniteSet(Site) /\ IsFiniteSet(Proc) /\ 0 \in Proc
  <2>1. IsFiniteSet(0 .. n - 1) /\ IsFiniteSet(0 .. m - 1)
    <3>1. \A a, b \in Int : IsFiniteSet(a .. b)
      BY FS_Interval
    <3> QED BY <1>1, <3>1
  <2>2. 0 \in 0 .. m - 1
    BY <1>1
  <2> QED BY <1>2, <2>1, <2>2
<1>4. \A i \in Site : /\ Nbr[i] = Beside(i, n)
                      /\ Owner[i] = Column(i, n, m) /\ SectorOf[i] = Half(i, n, m)
  BY GeometryOf DEF LineNbr, LineOwner, LineSector
<1>5. ASSUME NEW i \in Site
      PROVE  /\ i \notin Nbr[i] /\ Nbr[i] \subseteq Site
             /\ \A j \in Nbr[i] : i \in Nbr[j]
             /\ Owner[i] \in Proc /\ SectorOf[i] \in Sectors
  <2>1. i \in 0 .. n - 1
    BY <1>2
  <2>2. Beside(i, n) \subseteq Site /\ \A j \in Beside(i, n) : i \in Beside(j, n)
    BY <1>1, <1>2, <2>1, BesideOf
  <2>3. Column(i, n, m) \in Proc /\ Half(i, n, m) \in Sectors
    BY <1>1, <1>2, <2>1, ColumnOf DEF Sectors
  <2>4. i \notin Beside(i, n)
    BY DEF Beside
  <2> QED BY <1>4, <2>2, <2>3, <2>4
<1>6. DOMAIN Nbr = Site
  BY DEF Site
<1> QED BY <1>3, <1>5, <1>6

(* Nearness is mutual and adds up.                                         *)
LEMMA NearOf ==
    ASSUME layout \in Layouts, NEW i \in Site
    PROVE  /\ i \in Near(i) /\ Near(i) \subseteq Near2(i) /\ Near2(i) \subseteq Near3(i)
           /\ Near3(i) \subseteq Site
           /\ \A j \in Near(i) : i \in Near(j) /\ Near(j) \subseteq Near2(i)
                                 /\ Near2(j) \subseteq Near3(i)
           /\ \A j \in Near2(i) : i \in Near2(j) /\ Near(j) \subseteq Near3(i)
           /\ \A j \in Near3(i) : i \in Near3(j)
<1>1. \A k \in Site : k \in Near(k) /\ Near(k) \subseteq Site /\ \A j \in Near(k) : k \in Near(j)
  BY LatticeOf DEF Near
<1>2. \A k : \A j : j \in Near2(k) <=> \E h \in Near(k) : j \in Near(h)
  BY DEF Near2
<1>3. \A k : \A j : j \in Near3(k) <=> \E h \in Near2(k) : j \in Near(h)
  BY DEF Near3
<1>4. Near(i) \subseteq Near2(i) /\ \A j \in Near(i) : i \in Near(j) /\ Near(j) \subseteq Near2(i)
  BY <1>1, <1>2
<1>5. \A k \in Site : Near2(k) \subseteq Site /\ \A j \in Near2(k) : k \in Near2(j)
  BY <1>1, <1>2
<1>6. Near2(i) \subseteq Near3(i) /\ Near3(i) \subseteq Site
  BY <1>1, <1>3, <1>5
<1>7. \A j \in Near(i) : Near2(j) \subseteq Near3(i)
  BY <1>1, <1>2, <1>3
<1>8. \A j \in Near2(i) : i \in Near2(j) /\ Near(j) \subseteq Near3(i)
  BY <1>3, <1>5
<1>9. ASSUME NEW j \in Near3(i) PROVE i \in Near3(j)
  <2>1. PICK h \in Near2(i) : j \in Near(h)
    BY <1>3
  <2>2. h \in Site /\ h \in Near(j) /\ i \in Near2(h)
    BY <1>1, <1>5, <2>1
  <2>3. PICK g \in Near(h) : i \in Near(g)
    BY <1>2, <2>2
  <2>4. g \in Near2(j)
    BY <1>2, <2>2, <2>3
  <2> QED BY <1>3, <2>3, <2>4
<1> QED BY <1>1, <1>4, <1>6, <1>7, <1>8, <1>9

(* On a row of n sites with periodic ends, x and y are at most w apart.    *)
Close(n, x, y, w) == y - x \in -w .. w \/ y - x >= n - w \/ x - y >= n - w

(* A site beside one that is w apart is w + 1 apart.                       *)
LEMMA CloseAdds ==
    ASSUME NEW n \in Nat \ {0}, NEW x \in 0 .. n - 1, NEW y \in 0 .. n - 1, NEW z \in 0 .. n - 1,
           NEW w \in Nat, Close(n, x, y, w), Close(n, y, z, 1)
    PROVE  Close(n, x, z, w + 1)
<1>1. y - x \in -w .. w \/ y - x >= n - w \/ x - y >= n - w
  BY DEF Close
<1>2. z - y \in {-1, 0, 1} \/ z - y >= n - 1 \/ y - z >= n - 1
  BY DEF Close
<1>3. CASE z - y \in {-1, 0, 1}
  BY <1>1, <1>3 DEF Close
<1>4. CASE z - y >= n - 1
  <2>1. z = n - 1 /\ y = 0
    BY <1>4
  <2> QED BY <1>1, <2>1 DEF Close
<1>5. CASE y - z >= n - 1
  <2>1. y = n - 1 /\ z = 0
    BY <1>5
  <2> QED BY <1>1, <2>1 DEF Close
<1> QED BY <1>2, <1>3, <1>4, <1>5

(* Sites within three steps are at most three apart.                       *)
LEMMA NearIsClose ==
    ASSUME layout \in Layouts, NEW i \in Site, NEW j \in Near3(i)
    PROVE  Close(layout.nx, i, j, 3)
<1> DEFINE n == layout.nx
<1>1. n \in Nat \ {0} /\ Site = 0 .. n - 1
  BY LayoutOf, GeometryOf DEF LineSites
<1>2. ASSUME NEW x \in Site, NEW y \in Near(x)
      PROVE  y \in Site /\ Close(n, x, y, 1)
  <2>1. CASE y = x
    BY <1>1, <1>2, <2>1 DEF Close
  <2>2. CASE y \in Nbr[x]
    <3>1. x \in 0 .. n - 1 /\ y \in Beside(x, n)
      BY <1>1, <2>2, GeometryOf DEF LineNbr
    <3>2. y = x + 1 \/ x = y + 1 \/ (x = n - 1 /\ y = 0) \/ (y = n - 1 /\ x = 0)
      BY <1>1, <3>1, BesideOf
    <3>3. y \in 0 .. n - 1
      BY <1>1, <3>1, BesideOf
    <3> QED BY <1>1, <3>1, <3>2, <3>3 DEF Close
  <2> QED BY <1>2, <2>1, <2>2 DEF Near
<1>3. ASSUME NEW x \in Site, NEW y \in Site, NEW z \in Site, NEW w \in Nat,
             Close(n, x, y, w), Close(n, y, z, 1)
      PROVE  Close(n, x, z, w + 1)
  BY <1>1, <1>3, CloseAdds
<1>4. PICK h \in Near2(i) : j \in Near(h)
  BY DEF Near3
<1>5. PICK g \in Near(i) : h \in Near(g)
  BY DEF Near2
<1>6. g \in Site /\ h \in Site /\ j \in Site
  BY <1>2, <1>4, <1>5
<1>7. Close(n, i, g, 1) /\ Close(n, g, h, 1) /\ Close(n, h, j, 1)
  BY <1>2, <1>4, <1>5, <1>6
<1>8. Close(n, i, h, 1 + 1)
  BY <1>3, <1>6, <1>7
<1>9. 1 + 1 = 2 /\ 2 + 1 = 3
  OBVIOUS
<1>10. Close(n, i, j, 2 + 1)
  BY <1>3, <1>6, <1>7, <1>8, <1>9
<1> QED BY <1>9, <1>10

(* The interval of a sector, with the denominators cleared.                *)
LEMMA SectorInterval ==
    ASSUME NEW n \in Nat \ {0}, NEW m \in Nat \ {0}, NEW x \in 0 .. n - 1
    PROVE  LET c == n * Column(x, n, m)
               s == Half(x, n, m)
           IN  /\ 2 * c + s * n <= 2 * (x * m) /\ 2 * (x * m) < 2 * c + s * n + n
               /\ s \in {0, 1} /\ c \in Nat /\ Column(x, n, m) \in 0 .. m - 1
<1> DEFINE k == Column(x, n, m)
           c == n * k
           a == x * m
           s == Half(x, n, m)
<1>1. a \in Nat /\ k \in 0 .. m - 1 /\ c <= a /\ a < c + n /\ s \in {0, 1}
  BY ColumnOf
<1>2. c \in Nat /\ (2 * k + 1) * n = 2 * c + n /\ 2 * m * x = 2 * a
  BY <1>1
<1>3. s = IF 2 * a < 2 * c + n THEN 0 ELSE 1
  BY <1>2 DEF Half
<1>4. s * n = IF 2 * a < 2 * c + n THEN 0 ELSE n
  BY <1>3
<1> HIDE DEF c, a, k, s
<1>5. 2 * c + s * n <= 2 * a /\ 2 * a < 2 * c + s * n + n
  BY <1>1, <1>2, <1>4
<1> QED BY <1>1, <1>2, <1>5 DEF c, a, k, s

(* More than three times m is a multiple of m larger than 3.               *)
LEMMA Multiple ==
    ASSUME NEW m \in Nat \ {0}, NEW d \in Int, 2 * (d * m) > 6 * m
    PROVE  d > 3
<1>1. CASE d <= 3
  <2>1. (3 - d) * m >= 0
    BY <1>1
  <2>2. (3 - d) * m = 3 * m - d * m /\ d * m \in Int
    OBVIOUS
  <2> QED BY <2>1, <2>2
<1> QED BY <1>1

(* Sectors of one number of different processes are more than three steps  *)
(* apart.                                                                  *)
LEMMA SectorsFarApart ==
    ASSUME layout \in Layouts, WideEnough, NEW p \in Proc, NEW q \in Proc, p # q,
           NEW s \in Sectors, NEW i \in SectorSet(p, s), NEW j \in SectorSet(q, s)
    PROVE  j \notin Near3(i)
<1> DEFINE n == layout.nx
           m == layout.px
<1>1. n \in Nat \ {0} /\ m \in Nat \ {0} /\ Site = 0 .. n - 1 /\ Proc = 0 .. m - 1
  BY LayoutOf, GeometryOf DEF LineSites, Proc, Procs
<1>2. m > 1 /\ 6 * m <= n
  <2>1. m > 1
    BY <1>1
  <2> QED BY <2>1 DEF WideEnough
<1>3. /\ i \in 0 .. n - 1 /\ Column(i, n, m) = p /\ Half(i, n, m) = s
      /\ j \in 0 .. n - 1 /\ Column(j, n, m) = q /\ Half(j, n, m) = s
  <2>1. i \in Site /\ Owner[i] = p /\ SectorOf[i] = s /\ j \in Site /\ Owner[j] = q /\ SectorOf[j] = s
    <3>1. SectorSet(p, s) = {x \in Site : Owner[x] = p /\ SectorOf[x] = s}
      BY TablesOf
    <3>2. SectorSet(q, s) = {x \in Site : Owner[x] = q /\ SectorOf[x] = s}
      BY TablesOf
    <3> QED BY <3>1, <3>2
  <2>2. \A x \in Site : Owner[x] = Column(x, n, m) /\ SectorOf[x] = Half(x, n, m)
    BY GeometryOf DEF LineOwner, LineSector
  <2> QED BY <1>1, <2>1, <2>2
<1>4. \A d \in Int : 2 * (d * m) > 6 * m => d > 3
  BY <1>1, Multiple
(* Of two such sites, those of x in the lower column.                      *)
<1>5. ASSUME NEW x \in 0 .. n - 1, NEW y \in 0 .. n - 1,
             Column(x, n, m) < Column(y, n, m), Half(x, n, m) = s, Half(y, n, m) = s
      PROVE  y - x > 3 /\ x + n - y > 3
  <2> DEFINE u == Column(x, n, m)
             v == Column(y, n, m)
             b == n * u
             c == n * v
             a == x * m
             e == y * m
             w == s * n
             t == n * m
  <2>1. /\ 2 * b + w <= 2 * a /\ 2 * a < 2 * b + w + n /\ b \in Nat /\ u \in 0 .. m - 1
        /\ 2 * c + w <= 2 * e /\ 2 * e < 2 * c + w + n /\ c \in Nat /\ v \in 0 .. m - 1
    BY <1>1, <1>5, SectorInterval
  <2>2. b + n <= c /\ c + n <= t
    <3>1. PICK f \in Nat : f = u
      BY <1>1, <2>1
    <3>2. PICK g \in Nat : g = v
      BY <1>1, <2>1
    <3>3. f + 1 <= g /\ g + 1 <= m
      <4>1. u < v /\ u \in 0 .. m - 1 /\ v \in 0 .. m - 1
        BY <1>5, <2>1
      <4> HIDE DEF u, v
      <4> QED BY <1>1, <3>1, <3>2, <4>1
    <3>4. \A h, k \in Nat : h + 1 <= k => n * h + n <= n * k
      <4>1. ASSUME NEW h \in Nat, NEW k \in Nat, h + 1 <= k PROVE n * h + n <= n * k
        <5>1. n * (k - (h + 1)) >= 0
          BY <1>1, <4>1
        <5>2. n * (k - (h + 1)) = n * k - n * h - n
          BY <1>1
        <5>3. PICK hn, kn \in Int : hn = n * h /\ kn = n * k
          BY <1>1, SMTT(30)
        <5>4. kn - hn - n >= 0
          BY <5>1, <5>2, <5>3
        <5>5. hn + n <= kn
          BY <1>1, <5>4
        <5> QED BY <5>3, <5>5
      <4> QED BY <4>1
    <3>5. n * f + n <= n * g /\ n * g + n <= n * m
      BY <1>1, <3>3, <3>4
    <3> QED BY <3>1, <3>2, <3>5
  <2>3. /\ (y - x) * m = e - a /\ (x + n - y) * m = a + t - e
        /\ a \in Nat /\ e \in Nat /\ t \in Nat
    <3>1. x \in Nat /\ y \in Nat /\ m \in Nat /\ n \in Nat
      BY <1>1
    <3> HIDE DEF n, m
    <3>2. (y - x) * m = y * m - x * m /\ (x + n - y) * m = x * m + n * m - y * m
      BY <3>1
    <3>3. y * m \in Nat /\ x * m \in Nat /\ n * m \in Nat
      BY <3>1
    <3> QED BY <3>2, <3>3
  <2>4. w \in Nat
    BY <1>1 DEF Sectors
  <2> HIDE DEF a, b, c, e, t, u, v, w, n, m
  <2>5. 2 * (e - a) > n /\ 2 * (a + t - e) > n
    BY <1>1, <2>1, <2>2, <2>3, <2>4
  <2>6. 2 * ((y - x) * m) > 6 * m /\ 2 * ((x + n - y) * m) > 6 * m
    BY <1>1, <1>2, <2>3, <2>5
  <2> QED BY <1>1, <1>4, <2>6
<1>6. ~ Close(n, i, j, 3)
  <2>1. CASE p < q
    <3>1. j - i > 3 /\ i + n - j > 3
      BY <1>3, <1>5, <2>1
    <3> QED BY <1>1, <1>3, <3>1 DEF Close
  <2>2. CASE q < p
    <3>1. i - j > 3 /\ j + n - i > 3
      BY <1>3, <1>5, <2>2
    <3> QED BY <1>1, <1>3, <3>1 DEF Close
  <2> QED BY <1>1, <2>1, <2>2
<1>7. i \in Site
  BY <1>1, <1>3
<1> QED BY <1>6, <1>7, NearIsClose

-----------------------------------------------------------------------------
(* What is exchanged for a sector.                                         *)

(* What is sent back are the other processes' neighbors of the sector, ... *)
LEMMA ReverseOf ==
    ASSUME layout \in Layouts, NEW p \in Proc, NEW s \in Sectors, NEW j
    PROVE  j \in Backward(p, s) <=>
             j \in Site /\ Owner[j] # p /\ \E i \in SectorSet(p, s) : j \in Nbr[i]
<1>1. j \in Backward(p, s) <=>
        j \in Within(Nbr, SectorSet(p, s), Site \ Mine(p), 1) /\ j \notin Mine(p)
  <2>1. Backward(p, s) = Within(Nbr, SectorSet(p, s), Site \ Mine(p), 1) \ Mine(p)
    BY TablesOf
  <2> QED BY <2>1
<1>2. \A i \in SectorSet(p, s) : i \in Site /\ Owner[i] = p
  BY InSector
<1> QED BY <1>1, <1>2, WithinReach DEF Mine

(* ... what is received for it, these and their neighbors there.           *)
LEMMA ForwardOf ==
    ASSUME layout \in Layouts, NEW p \in Proc, NEW s \in Sectors, NEW j
    PROVE  j \in Forward(p, s) <=>
             /\ j \in Site /\ Owner[j] # p
             /\ j \in Backward(p, s) \/ \E k \in Backward(p, s) : j \in Nbr[k]
<1> DEFINE S == SectorSet(p, s)
           T == Site \ Mine(p)
<1>1. j \in Forward(p, s) <=> j \in Within(Nbr, S, T, 2) /\ j \notin Mine(p)
  <2>1. Forward(p, s) = Within(Nbr, S, T, 2) \ Mine(p)
    BY TablesOf
  <2> QED BY <2>1
<1>2. \A i \in S : i \in Site /\ Owner[i] = p /\ i \notin T
  BY InSector DEF Mine
<1>3. \A i : i \in T <=> i \in Site /\ Owner[i] # p
  BY DEF Mine
<1> HIDE DEF S, T
<1>4. \A i : i \in Within(Nbr, S, T, 1) <=> i \in S \/ (i \in T /\ \E h \in S : i \in Nbr[h])
  BY WithinReach
<1>5. \A i : i \in Backward(p, s) <=> i \in T /\ \E h \in S : i \in Nbr[h]
  BY <1>3, ReverseOf DEF S
<1>6. j \in Within(Nbr, S, T, 2) <=>
        \/ j \in Within(Nbr, S, T, 1)
        \/ j \in T /\ \E i \in Within(Nbr, S, T, 1) : j \in Nbr[i]
  BY WithinReach
<1>7. j \in Within(Nbr, S, T, 2) <=>
        \/ j \in S \/ j \in Backward(p, s)
        \/ j \in T /\ \E i \in Backward(p, s) : j \in Nbr[i]
  BY <1>4, <1>5, <1>6
<1>8. j \in Mine(p) <=> j \in Site /\ Owner[j] = p
  BY DEF Mine
<1> QED BY <1>1, <1>2, <1>3, <1>5, <1>7, <1>8

(* Sites within two and within three steps of a set.                       *)
LEMMA ReachOf ==
    ASSUME layout \in Layouts, NEW S \in SUBSET Site, NEW j
    PROVE  /\ j \in Within(Nbr, S, Site, 2) <=> \E i \in S : j \in Near2(i)
           /\ j \in Within(Nbr, S, Site, 3) <=> \E i \in S : j \in Near3(i)
<1>1. \A k : k \in Site => Nbr[k] \subseteq Site
  BY LatticeOf
<1>2. \A k : k \in Within(Nbr, S, Site, 1) <=> \E i \in S : k \in Near(i)
  BY <1>1, WithinReach DEF Near
<1>3. \A k : k \in Within(Nbr, S, Site, 1) => k \in Site
  BY <1>1, <1>2 DEF Near
<1>4. \A k : k \in Within(Nbr, S, Site, 2) <=>
               \E h \in Within(Nbr, S, Site, 1) : k \in Near(h)
  <2>1. \A k : k \in Within(Nbr, S, Site, 2) <=>
                 \/ k \in Within(Nbr, S, Site, 1)
                 \/ k \in Site /\ \E h \in Within(Nbr, S, Site, 1) : k \in Nbr[h]
    BY WithinReach
  <2> QED BY <1>1, <1>3, <2>1 DEF Near
<1>5. \A k : k \in Within(Nbr, S, Site, 2) => k \in Site
  BY <1>1, <1>3, <1>4 DEF Near
<1>6. \A k : k \in Within(Nbr, S, Site, 3) <=>
               \E h \in Within(Nbr, S, Site, 2) : k \in Near(h)
  <2>1. \A k : k \in Within(Nbr, S, Site, 3) <=>
                 \/ k \in Within(Nbr, S, Site, 2)
                 \/ k \in Site /\ \E h \in Within(Nbr, S, Site, 2) : k \in Nbr[h]
    BY WithinReach
  <2> QED BY <1>1, <1>5, <2>1 DEF Near
<1>7. \A k : k \in Within(Nbr, S, Site, 2) <=> \E i \in S : k \in Near2(i)
  BY <1>2, <1>4 DEF Near2
<1> QED BY <1>6, <1>7 DEF Near3

(* A site that is not on the border of its sector has all sites within     *)
(* three steps in it.                                                      *)
LEMMA InteriorOf ==
    ASSUME layout \in Layouts, NEW p \in Proc, NEW s \in Sectors,
           NEW i \in SectorSet(p, s), i \notin Border(p, s)
    PROVE  Near3(i) \subseteq SectorSet(p, s)
<1>1. Within(Nbr, {i}, Site, 3) \subseteq SectorSet(p, s)
  <2>1. Border(p, s) = {k \in SectorSet(p, s) : ~ (Within(Nbr, {k}, Site, 3) \subseteq SectorSet(p, s))}
    BY TablesOf
  <2> QED BY <2>1
<1>2. i \in Site
  BY InSector
<1>3. \A j : j \in Within(Nbr, {i}, Site, 3) <=> j \in Near3(i)
  BY <1>2, ReachOf
<1> QED BY <1>1, <1>3

(* Sites within reach of a sector, from another process.                   *)
LEMMA ExchangedNear ==
    ASSUME layout \in Layouts, NEW p \in Proc, NEW s \in Sectors
    PROVE  /\ \A j \in Backward(p, s) : j \in Forward(p, s)
           /\ \A j \in Backward(p, s) : \E i \in SectorSet(p, s) : j \in Near(i)
           /\ \A j \in Forward(p, s) : /\ j \in Site /\ Owner[j] # p
                                       /\ j \in AllGhosts(p)
                                       /\ \E i \in SectorSet(p, s) : j \in Near2(i)
<1>1. \A i \in SectorSet(p, s) : i \in Site /\ Owner[i] = p
  BY InSector
<1>2. \A j \in Backward(p, s) : j \in Forward(p, s)
  BY ReverseOf, ForwardOf
<1>3. \A j \in Backward(p, s) : \E i \in SectorSet(p, s) : j \in Near(i)
  BY ReverseOf DEF Near
<1>4. ASSUME NEW j \in Forward(p, s)
      PROVE  j \in Site /\ Owner[j] # p /\ \E i \in SectorSet(p, s) : j \in Near2(i)
  <2>1. \E k \in Backward(p, s) : j \in Near(k)
    BY <1>4, ForwardOf DEF Near
  <2>2. \E i \in SectorSet(p, s) : j \in Near2(i)
    BY <1>3, <2>1 DEF Near2
  <2> QED BY <1>4, <2>2, ForwardOf
<1>5. ASSUME NEW j \in Forward(p, s) PROVE j \in AllGhosts(p)
  <2>1. PICK i \in SectorSet(p, s) : j \in Near2(i)
    BY <1>4, <1>5
  <2>2. i \in Mine(p) /\ Mine(p) \subseteq Site
    BY <1>1 DEF Mine
  <2>3. j \in Within(Nbr, Mine(p), Site, 2)
    BY <2>1, <2>2, ReachOf
  <2>4. j \notin Mine(p)
    BY <1>4, <1>5 DEF Mine
  <2> QED BY <2>3, <2>4 DEF AllGhosts, delghost, delpropensity
<1> QED BY <1>2, <1>3, <1>4, <1>5

(* All ghosts within two steps of a sector are received for it, though     *)
(* create_swap_sector() looks for them through ghosts only.                *)
LEMMA SeenIsReceived ==
    ASSUME layout \in Layouts, WideEnough, NEW p \in Proc, NEW s \in Sectors,
           NEW i \in SectorSet(p, s), NEW j \in Near2(i), Owner[j] # p
    PROVE  j \in Forward(p, s)
<1>1. i \in Site /\ Owner[i] = p
  BY InSector
<1>2. PICK k \in Near(i) : j \in Near(k)
  BY DEF Near2
<1>3. k \in Site /\ j \in Site /\ j \in Near3(i) /\ j \in Near3(k) /\ Owner[j] \in Proc
  BY <1>1, <1>2, LatticeOf, NearOf
<1>4. CASE Owner[k] # p
  <2>1. k \in Backward(p, s)
    BY <1>1, <1>2, <1>3, <1>4, ReverseOf DEF Near
  <2> QED BY <1>2, <1>3, <2>1, ForwardOf DEF Near
<1>5. CASE Owner[k] = p
  <2>1. j \in Nbr[k]
    BY <1>2, <1>5 DEF Near
  <2>2. CASE SectorOf[k] = s
    <3>1. k \in SectorSet(p, s)
      BY <1>3, <1>5, <2>2, InSector
    <3>2. j \in Backward(p, s)
      BY <1>3, <2>1, <3>1, ReverseOf
    <3> QED BY <3>2, ExchangedNear
  <2>3. CASE SectorOf[k] # s
    <3>1. PICK x \in Sectors : SectorOf[j] = x
      BY <1>3, LatticeOf
    <3>2. j \in SectorSet(Owner[j], x)
      BY <1>3, <3>1, InSector
    <3>3. x # s
      BY <1>3, <3>2, SectorsFarApart
    <3>4. SectorOf[k] = x
      BY <1>3, <2>3, <3>3, LatticeOf DEF Sectors
    <3>5. k \in SectorSet(p, x)
      BY <1>3, <1>5, <3>4, InSector
    <3> QED BY <1>3, <3>2, <3>5, SectorsFarApart
  <2> QED BY <2>2, <2>3
<1> QED BY <1>4, <1>5

(* What an event in a sector of p changes is not sent for the sector of    *)
(* the same number of another process.                                     *)
LEMMA HopApart ==
    ASSUME layout \in Layouts, WideEnough, NEW p \in Proc, NEW r \in Proc, p # r,
           NEW s \in Sectors, NEW i \in SectorSet(p, s), NEW j \in Near(i)
    PROVE  j \notin Forward(r, s)
<1>1. SUFFICES ASSUME j \in Forward(r, s) PROVE FALSE
  OBVIOUS
<1>2. PICK k \in SectorSet(r, s) : j \in Near2(k)
  BY <1>1, ExchangedNear
<1>3. i \in Site /\ k \in Site
  BY InSector
<1>4. i \in Near(j) /\ Near(j) \subseteq Near3(k)
  BY <1>2, <1>3, NearOf
<1> QED BY <1>2, <1>4, SectorsFarApart

(* Nor is what is sent back for it.                                        *)
LEMMA ReverseApart ==
    ASSUME layout \in Layouts, WideEnough, NEW p \in Proc, NEW r \in Proc, p # r,
           NEW s \in Sectors, NEW j \in Backward(p, s)
    PROVE  j \notin Forward(r, s) /\ j \notin Backward(r, s)
<1>1. PICK i \in SectorSet(p, s) : j \in Near(i)
  BY ExchangedNear
<1>2. j \notin Forward(r, s)
  BY <1>1, HopApart
<1> QED BY <1>2, ExchangedNear

(* A process that sends ghosts to another for a sector is sent some back.  *)
LEMMA AnswerDue ==
    ASSUME layout \in Layouts, WideEnough, NEW p \in Proc, NEW q \in Proc, NEW s \in Sectors,
           Forward(p, s) \cap Mine(q) # {}
    PROVE  Backward(p, s) \cap Mine(q) # {}
<1>1. PICK j \in Forward(p, s) : j \in Site /\ Owner[j] = q
  BY DEF Mine
<1>2. CASE j \in Backward(p, s)
  BY <1>1, <1>2 DEF Mine
<1>3. CASE j \notin Backward(p, s)
  <2>1. PICK k \in Backward(p, s) : j \in Nbr[k]
    BY <1>1, <1>3, ForwardOf
  <2>2. PICK i \in SectorSet(p, s) : k \in Nbr[i]
    BY <2>1, ReverseOf
  <2>3. /\ i \in Site /\ k \in Site /\ Owner[k] # p /\ Owner[k] \in Proc /\ q # p
        /\ i \in Near3(k) /\ j \in Near3(k) /\ j \in Near3(i)
    <3>1. i \in Site /\ k \in Site /\ Owner[k] # p /\ q # p
      BY <1>1, <2>1, InSector, ReverseOf, ForwardOf
    <3>2. k \in Near(i) /\ j \in Near(k) /\ j \in Near2(i)
      BY <2>1, <2>2 DEF Near, Near2
    <3>3. i \in Near(k) /\ Near(k) \subseteq Near3(k)
      BY <3>1, <3>2, NearOf
    <3>4. j \in Near3(i)
      BY <3>1, <3>2, NearOf
    <3> QED BY <3>1, <3>2, <3>3, <3>4, LatticeOf
  <2>4. Owner[k] = q
    <3>1. SUFFICES ASSUME Owner[k] # q PROVE FALSE
      OBVIOUS
    <3>2. PICK x \in Sectors : SectorOf[k] = x
      BY <2>3, LatticeOf
    <3>3. PICK y \in Sectors : SectorOf[j] = y
      BY <1>1, LatticeOf
    <3>4. k \in SectorSet(Owner[k], x) /\ j \in SectorSet(q, y)
      BY <1>1, <2>3, <3>2, <3>3, InSector
    <3>5. x # s
      BY <2>3, <3>4, SectorsFarApart
    <3>6. x # y
      BY <2>3, <3>1, <3>4, SectorsFarApart
    <3>7. y = s
      BY <3>5, <3>6 DEF Sectors
    <3> QED BY <2>3, <3>4, <3>7, SectorsFarApart
  <2> QED BY <2>1, <2>3, <2>4 DEF Mine
<1> QED BY <1>2, <1>3

-----------------------------------------------------------------------------
(* The invariant.                                                          *)

Atom == {VACANT, OCCUPIED}

(* Number the sectors that processes go through 0, 1, 2, ...  For sector t *)
(* messages are sent before it, as leg 2t, and after it, as leg 2t + 1.    *)
Round(p) == IF pc[p] \in {"update", "done"} THEN 2 * sweep[p] ELSE 2 * (sweep[p] - 1) + iset[p]

(* The legs for which p has sent, and received, its messages.              *)
Out(p) == IF pc[p] = "reverse" THEN 2 * Round(p) + 2
          ELSE IF pc[p] \in {"acquire", "events"} THEN 2 * Round(p) + 1 ELSE 2 * Round(p)
In(p) == IF pc[p] \in {"events", "reverse"} THEN 2 * Round(p) + 1 ELSE 2 * Round(p)

(* What q sends to p on leg h.                                             *)
Traffic(q, p, h) == IF h % 2 = 0 THEN Forward(p, (h \div 2) % 2) \cap Mine(q)
                                 ELSE Backward(q, (h \div 2) % 2) \cap Mine(p)

Types ==
    /\ layout \in Layouts
    /\ lat \in [Proc -> [Site -> {Unknown, VACANT, OCCUPIED}]]
    /\ \A p \in Proc : \A i \in Site :
          lat[p][i] \in IF i \in Mine(p) \cup AllGhosts(p) THEN Atom ELSE {Unknown}
    /\ pc \in [Proc -> {"forward", "acquire", "events", "reverse", "update", "done"}]
    /\ iset \in [Proc -> Sectors]
    /\ sweep \in [Proc -> 1 .. layout.sweeps]
    /\ done \in [Proc -> 0 .. StopEvents]
    /\ nbatch \in [Proc -> 0 .. StopBatch]
    /\ ndeposit \in Nat

(* With a solver all processes are in the same sweep, and each sweep that  *)
(* is over has deposited no more than was asked for.                       *)
RunBounded ==
    /\ \A p \in Proc : /\ pc[p] = "update" => iset[p] = 0 /\ layout.kmc
                       /\ pc[p] = "done" => iset[p] = 0 /\ sweep[p] = layout.sweeps
    /\ SumOver(nbatch, Proc) <= StopBatch
    /\ layout.kmc =>
          \A p, q \in Proc : /\ sweep[p] = sweep[q]
                             /\ pc[p] = "done" => pc[q] = "done"
                             /\ ndeposit <= StopBatch * (IF pc[p] = "done" THEN sweep[p]
                                                         ELSE sweep[p] - 1)
    /\ ~ layout.kmc => ndeposit = 0

(* What a process has received has been sent.                              *)
Causal ==
    \A p, q \in Proc : \A h \in Nat :
        h < In(q) /\ Traffic(p, q, h) # {} => h < Out(p)

(* The messages of q to p are all that q has sent and p has not received.  *)
TrafficTo(q, p) == [h \in Nat |-> Traffic(q, p, h)]
Carries(q, p, st) == Holds(chan[q][p], st, In(p), Out(q), TrafficTo(q, p), Atom)

Messages == UNION {[D -> Atom] : D \in SUBSET Site}

(* Those sent before a sector hold what their sender, the owner, still has.*)
Current(q, p, st) ==
    \A a \in 1 .. Len(st) : st[a] % 2 = 0 =>
        \A j \in Traffic(q, p, st[a]) : chan[q][p][a][j] = lat[q][j]

InTransit ==
    /\ DOMAIN chan = Proc
    /\ \A q \in Proc : /\ DOMAIN chan[q] = Proc
                       /\ \A p \in Proc : chan[q][p] \in Seq(Messages)
    /\ \A q, p \in Proc : \E st \in Seq(Nat) : Carries(q, p, st) /\ Current(q, p, st)

(* While p runs a sector the ghosts of it are as their owners have them,   *)
(* but for those that p may change and sends back.                         *)
GhostsCurrent ==
    \A p \in Proc : pc[p] = "events" =>
        \A j \in ForwardSites(p) \ ReverseSites(p) : lat[p][j] = lat[Owner[j]][j]

(* The event lists of sites that are never refreshed are true at all times.*)
InteriorTrue ==
    layout.kmc =>
        \A p \in Proc, s \in Sectors : \A i \in SectorSet(p, s) \ Border(p, s) :
            events[i] = SiteEvents(Truth, Nbr, i)

Protocol == Types /\ RunBounded /\ Causal /\ InTransit /\ GhostsCurrent

Lists == InteriorTrue /\ EventsTrue

IInv == Protocol /\ Lists

-----------------------------------------------------------------------------
(* Consequences of the definitions.                                        *)

(* The layout stays, and with it all that depends on nothing else.         *)
LEMMA Fixed ==
    ASSUME layout' = layout
    PROVE  /\ Proc' = Proc /\ Nbr' = Nbr /\ Site' = Site /\ Owner' = Owner /\ SectorOf' = SectorOf
           /\ \A p : Mine(p)' = Mine(p) /\ AllGhosts(p)' = AllGhosts(p)
           /\ \A p, s : /\ SectorSet(p, s)' = SectorSet(p, s) /\ Forward(p, s)' = Forward(p, s)
                        /\ Backward(p, s)' = Backward(p, s) /\ Border(p, s)' = Border(p, s)
           /\ \A q, p, h : Traffic(q, p, h)' = Traffic(q, p, h)
           /\ \A q, p : TrafficTo(q, p)' = TrafficTo(q, p)
           /\ Messages' = Messages
<1>1. Proc' = Proc /\ Nbr' = Nbr /\ Owner' = Owner /\ SectorOf' = SectorOf
  BY DEF Proc, Nbr, Owner, SectorOf
<1>2. Site' = Site
  BY <1>1 DEF Site
<1>3. \A p : Mine(p)' = Mine(p) /\ AllGhosts(p)' = AllGhosts(p)
  BY <1>1, <1>2 DEF Mine, AllGhosts
<1>4. \A p, s : /\ SectorSet(p, s)' = SectorSet(p, s) /\ Forward(p, s)' = Forward(p, s)
                /\ Backward(p, s)' = Backward(p, s) /\ Border(p, s)' = Border(p, s)
  BY DEF SectorSet, Forward, Backward, Border
<1>5. \A q, p, h : Traffic(q, p, h)' = Traffic(q, p, h)
  BY <1>3, <1>4 DEF Traffic
<1>6. \A q, p : TrafficTo(q, p)' = TrafficTo(q, p)
  BY <1>5 DEF TrafficTo
<1>7. Messages' = Messages
  BY <1>2 DEF Messages
<1> QED BY <1>1, <1>2, <1>3, <1>4, <1>5, <1>6, <1>7

(* The sets of the sector a process is in.                                 *)
LEMMA CurrentSets ==
    ASSUME NEW p
    PROVE  /\ SetSites(p) = SectorSet(p, iset[p])
           /\ ForwardSites(p) = Forward(p, iset[p]) /\ ReverseSites(p) = Backward(p, iset[p])
BY DEF SetSites, ForwardSites, ReverseSites, SectorSet, Forward, Backward

(* Legs are those before and those after a sector.                         *)
LEMMA LegIs ==
    ASSUME NEW h \in Nat
    PROVE  \E t \in Nat : (h % 2 = 0 /\ h = 2 * t) \/ (h % 2 = 1 /\ h = 2 * t + 1)
<1>1. h \div 2 \in Nat /\ 2 * (h \div 2) <= h /\ h < 2 * (h \div 2) + 2
  BY Division
<1>2. PICK t \in Nat : 2 * t <= h /\ h < 2 * t + 2
  BY <1>1
<1>3. h = 2 * t \/ h = 2 * t + 1
  BY <1>2
<1>4. (2 * t) % 2 = 0 /\ (2 * t + 1) % 2 = 1
  OBVIOUS
<1> QED BY <1>3, <1>4

(* The messages of the first leg of a sector ...                           *)
LEMMA LegBefore ==
    ASSUME NEW t \in Nat, NEW h, h = 2 * t, NEW q, NEW p
    PROVE  /\ t % 2 \in Sectors /\ h \in Nat /\ h % 2 = 0
           /\ Traffic(q, p, h) = Forward(p, t % 2) \cap Mine(q)
<1>1. t % 2 \in {0, 1} /\ h \in Nat
  OBVIOUS
<1>2. h % 2 = 0
  OBVIOUS
<1>3. h \div 2 = t
  BY <1>1, Division
<1> QED BY <1>1, <1>2, <1>3 DEF Traffic, Sectors

(* ... and of the second.                                                  *)
LEMMA LegAfter ==
    ASSUME NEW t \in Nat, NEW h, h = 2 * t + 1, NEW q, NEW p
    PROVE  /\ t % 2 \in Sectors /\ h \in Nat /\ h % 2 = 1
           /\ Traffic(q, p, h) = Backward(q, t % 2) \cap Mine(p)
<1>1. t % 2 \in {0, 1} /\ h \in Nat
  OBVIOUS
<1>2. h % 2 = 1
  OBVIOUS
<1>3. h \div 2 = t
  BY <1>1, Division
<1> QED BY <1>1, <1>2, <1>3 DEF Traffic, Sectors

(* Where a process is.                                                     *)
LEMMA CountsOf ==
    ASSUME Types, RunBounded, NEW p \in Proc
    PROVE  /\ layout \in Layouts /\ Round(p) \in Nat /\ iset[p] \in Sectors
           /\ Round(p) % 2 = iset[p]
           /\ In(p) \in Nat /\ Out(p) \in Nat
           /\ In(p) \in {2 * Round(p), 2 * Round(p) + 1} /\ In(p) <= Out(p)
           /\ Out(p) \in {2 * Round(p), 2 * Round(p) + 1, 2 * Round(p) + 2}
           /\ (In(p) = 2 * Round(p) + 1 <=> pc[p] \in {"events", "reverse"})
           /\ (Out(p) = 2 * Round(p) <=> pc[p] \in {"forward", "update", "done"})
           /\ (Out(p) = 2 * Round(p) + 2 <=> pc[p] = "reverse")
<1>1. /\ layout \in Layouts /\ iset[p] \in {0, 1} /\ sweep[p] \in Nat \ {0}
      /\ pc[p] \in {"forward", "acquire", "events", "reverse", "update", "done"}
      /\ pc[p] \in {"update", "done"} => iset[p] = 0
  BY LayoutOf DEF Types, Sectors, RunBounded
<1>2. Round(p) \in Nat /\ Round(p) % 2 = iset[p]
  <2>1. CASE pc[p] \in {"update", "done"}
    <3>1. Round(p) = 2 * sweep[p]
      BY <2>1 DEF Round
    <3> QED BY <1>1, <2>1, <3>1
  <2>2. CASE pc[p] \notin {"update", "done"}
    <3>1. Round(p) = 2 * (sweep[p] - 1) + iset[p]
      BY <2>2 DEF Round
    <3> QED BY <1>1, <3>1
  <2> QED BY <2>1, <2>2
<1> QED BY <1>1, <1>2 DEF In, Out, Sectors

(* A site of a message is one of its leg.                                  *)
LEMMA TrafficOf ==
    ASSUME layout \in Layouts, NEW q \in Proc, NEW p \in Proc, NEW h \in Nat,
           NEW j \in Traffic(q, p, h)
    PROVE  /\ j \in Site /\ q # p
           /\ IF h % 2 = 0 THEN Owner[j] = q /\ j \in AllGhosts(p)
                           ELSE Owner[j] = p /\ j \in AllGhosts(q)
<1>1. PICK t \in Nat : (h % 2 = 0 /\ h = 2 * t) \/ (h % 2 = 1 /\ h = 2 * t + 1)
  BY LegIs
<1>2. CASE h % 2 = 0 /\ h = 2 * t
  <2>1. t % 2 \in Sectors /\ j \in Forward(p, t % 2) /\ j \in Mine(q)
    BY <1>2, LegBefore
  <2> QED BY <1>2, <2>1, ExchangedNear DEF Mine
<1>3. CASE h % 2 = 1 /\ h = 2 * t + 1
  <2>1. t % 2 \in Sectors /\ j \in Backward(q, t % 2) /\ j \in Mine(p)
    BY <1>3, LegAfter
  <2> QED BY <1>3, <2>1, ExchangedNear DEF Mine
<1> QED BY <1>1, <1>2, <1>3

(* What a queue carries, in the terms of the processes.                    *)
LEMMA CarriesOf ==
    ASSUME NEW q \in Proc, NEW p \in Proc, NEW st \in Seq(Nat), Carries(q, p, st)
    PROVE  /\ Len(st) = Len(chan[q][p])
           /\ \A a \in 1 .. Len(st) :
                 /\ st[a] \in Nat /\ In(p) <= st[a] /\ st[a] < Out(q)
                 /\ Traffic(q, p, st[a]) # {}
                 /\ chan[q][p][a] \in [Traffic(q, p, st[a]) -> Atom]
           /\ \A a, b \in 1 .. Len(st) : a < b => st[a] < st[b]
<1>1. \A a \in 1 .. Len(st) : st[a] \in Nat /\ TrafficTo(q, p)[st[a]] = Traffic(q, p, st[a])
  BY DEF TrafficTo
<1> HIDE DEF TrafficTo
<1> QED BY <1>1 DEF Carries, Holds

-----------------------------------------------------------------------------
(* Consequences of the invariant: who has what.                            *)

(* The sites a process has returned for a sector, it has been sent again.  *)
LEMMA OldLegsTaken ==
    ASSUME WideEnough, Types, RunBounded, Causal, NEW p \in Proc, NEW r \in Proc,
           NEW t \in Nat, 2 * t + 1 < In(p), Traffic(p, r, 2 * t) # {}
    PROVE  2 * t < In(r)
<1>1. layout \in Layouts
  BY DEF Types
<1>2. t % 2 \in Sectors /\ Forward(r, t % 2) \cap Mine(p) # {}
  BY LegBefore
<1>3. Backward(r, t % 2) \cap Mine(p) # {}
  BY <1>1, <1>2, AnswerDue
<1>4. PICK h \in Nat : h = 2 * t + 1
  OBVIOUS
<1>5. Traffic(r, p, h) # {}
  BY <1>3, <1>4, LegAfter
<1>6. h < Out(r)
  BY <1>4, <1>5 DEF Causal
<1>7. /\ Round(r) \in Nat /\ In(r) \in {2 * Round(r), 2 * Round(r) + 1}
      /\ Out(r) \in {2 * Round(r), 2 * Round(r) + 1, 2 * Round(r) + 2}
      /\ (In(r) = 2 * Round(r) + 1 <=> pc[r] \in {"events", "reverse"})
      /\ (Out(r) = 2 * Round(r) + 2 <=> pc[r] = "reverse")
  BY CountsOf
<1> QED BY <1>4, <1>6, <1>7

(* While p runs a sector, the owners of its ghosts are in the same round.  *)
LEMMA SameRound ==
    ASSUME WideEnough, Types, RunBounded, Causal, NEW p \in Proc, pc[p] = "events",
           NEW j \in Forward(p, iset[p])
    PROVE  /\ j \in Site /\ Owner[j] \in Proc /\ Owner[j] # p
           /\ Round(Owner[j]) = Round(p) /\ iset[Owner[j]] = iset[p]
           /\ pc[Owner[j]] \in {"acquire", "events", "reverse"}
<1> DEFINE o == Owner[j]
           t == Round(p)
           s == iset[p]
<1>1. /\ layout \in Layouts /\ t \in Nat /\ s \in Sectors /\ t % 2 = s
      /\ In(p) = 2 * t + 1 /\ Out(p) = 2 * t + 1
  BY CountsOf
<1>2. j \in Site /\ o # p /\ o \in Proc
  BY <1>1, ExchangedNear, LatticeOf
<1>3. PICK g \in Nat : g = 2 * t
  BY <1>1
<1>4. PICK h \in Nat : h = 2 * t + 1
  BY <1>1
<1>5. Forward(p, s) \cap Mine(o) # {}
  BY <1>2 DEF Mine
<1>6. Backward(p, s) \cap Mine(o) # {}
  BY <1>1, <1>2, <1>5, AnswerDue
<1> HIDE DEF o, t, s
<1>7. Traffic(o, p, g) # {}
  BY <1>1, <1>3, <1>5, LegBefore
<1>8. Traffic(p, o, h) # {}
  <2>1. t \in Nat
    BY <1>1
  <2>2. Traffic(p, o, h) = Backward(p, t % 2) \cap Mine(o)
    BY <1>4, <2>1, LegAfter
  <2> QED BY <1>1, <1>6, <2>2
<1>9. g < Out(o) /\ ~ (h < In(o))
  BY <1>1, <1>2, <1>3, <1>4, <1>7, <1>8 DEF Causal
<1>10. /\ Round(o) \in Nat /\ Round(o) % 2 = iset[o]
       /\ In(o) \in {2 * Round(o), 2 * Round(o) + 1}
       /\ Out(o) \in {2 * Round(o), 2 * Round(o) + 1, 2 * Round(o) + 2}
       /\ (Out(o) = 2 * Round(o) <=> pc[o] \in {"forward", "update", "done"})
       /\ pc[o] \in {"forward", "acquire", "events", "reverse", "update", "done"}
  BY <1>2, CountsOf DEF Types
<1>11. Round(o) = t /\ pc[o] \in {"acquire", "events", "reverse"}
  BY <1>1, <1>3, <1>4, <1>9, <1>10
<1> QED BY <1>1, <1>2, <1>10, <1>11 DEF o, t, s

(* Process p, which does not own site i, has the value v of it that counts:*)
(* its running sector may change it, or it is on the way to the owner.     *)
Away(p, i, v) ==
    \/ pc[p] = "events" /\ i \in ReverseSites(p) /\ v = lat[p][i]
    \/ /\ p # Owner[i]
       /\ \E k \in DOMAIN chan[p][Owner[i]] :
             i \in DOMAIN chan[p][Owner[i]][k] /\ v = chan[p][Owner[i]][k][i]

(* A message back to the owner is of the leg after the sector the owner is *)
(* in.                                                                     *)
LEMMA BackInRound ==
    ASSUME WideEnough, Types, RunBounded, Causal, InTransit,
           NEW i \in Site, NEW p \in Proc, p # Owner[i],
           NEW st \in Seq(Nat), Carries(p, Owner[i], st),
           NEW k \in DOMAIN chan[p][Owner[i]], i \in DOMAIN chan[p][Owner[i]][k]
    PROVE  /\ k \in 1 .. Len(st) /\ st[k] = 2 * Round(Owner[i]) + 1 /\ st[k] < Out(p)
           /\ pc[Owner[i]] \in {"acquire", "events", "reverse"}
           /\ i \in Backward(p, iset[Owner[i]])
           /\ 2 * Round(Owner[i]) < In(p)
<1> DEFINE o == Owner[i]
<1>1. layout \in Layouts /\ o \in Proc /\ chan[p][o] \in Seq(Messages)
  BY LatticeOf DEF Types, InTransit
<1>2. k \in 1 .. Len(st)
  BY <1>1, CarriesOf
<1>3. PICK h \in Nat : h = st[k] /\ In(o) <= h /\ h < Out(p) /\ i \in Traffic(p, o, h)
  BY <1>1, <1>2, CarriesOf
<1>4. PICK t \in Nat : (h % 2 = 0 /\ h = 2 * t) \/ (h % 2 = 1 /\ h = 2 * t + 1)
  BY LegIs
<1>5. h = 2 * t + 1
  BY <1>1, <1>3, <1>4, TrafficOf
<1>6. t % 2 \in Sectors /\ i \in Backward(p, t % 2)
  <2>1. t % 2 \in Sectors /\ Traffic(p, o, h) = Backward(p, t % 2) \cap Mine(o)
    BY <1>5, LegAfter, SMTT(30)
  <2> QED BY <1>3, <2>1
<1>7. i \in Forward(p, t % 2) /\ i \in Mine(o)
  BY <1>1, <1>6, ExchangedNear DEF Mine
<1>8. PICK g \in Nat : g = 2 * t
  OBVIOUS
<1>9. Traffic(o, p, g) # {}
  <2>1. Traffic(o, p, g) = Forward(p, t % 2) \cap Mine(o)
    BY <1>8, LegBefore
  <2> QED BY <1>7, <2>1
<1>10. /\ Round(p) \in Nat /\ In(p) \in {2 * Round(p), 2 * Round(p) + 1}
       /\ Out(p) \in {2 * Round(p), 2 * Round(p) + 1, 2 * Round(p) + 2}
       /\ (In(p) = 2 * Round(p) + 1 <=> pc[p] \in {"events", "reverse"})
       /\ (Out(p) = 2 * Round(p) + 2 <=> pc[p] = "reverse")
  BY CountsOf
<1>11. g < In(p)
  BY <1>3, <1>5, <1>8, <1>10
<1>12. g < Out(o)
  BY <1>1, <1>9, <1>11 DEF Causal
<1>13. /\ Round(o) \in Nat /\ Round(o) % 2 = iset[o]
       /\ In(o) \in {2 * Round(o), 2 * Round(o) + 1}
       /\ Out(o) \in {2 * Round(o), 2 * Round(o) + 1, 2 * Round(o) + 2}
       /\ (Out(o) = 2 * Round(o) <=> pc[o] \in {"forward", "update", "done"})
       /\ pc[o] \in {"forward", "acquire", "events", "reverse", "update", "done"}
  BY <1>1, CountsOf DEF Types
<1> HIDE DEF o
<1>14. Round(o) = t /\ pc[o] \in {"acquire", "events", "reverse"}
  BY <1>3, <1>5, <1>8, <1>12, <1>13
<1> QED BY <1>2, <1>3, <1>5, <1>6, <1>8, <1>11, <1>13, <1>14 DEF o

(* If it is away the owner is in the round of the sector it is away for.   *)
LEMMA AwayInRound ==
    ASSUME WideEnough, Types, RunBounded, Causal, InTransit,
           NEW i \in Site, NEW p \in Proc, NEW v, Away(p, i, v)
    PROVE  /\ Owner[i] \in Proc /\ Owner[i] # p
           /\ pc[Owner[i]] \in {"acquire", "events", "reverse"}
           /\ i \in Backward(p, iset[Owner[i]])
           /\ 2 * Round(Owner[i]) < In(p)
<1> DEFINE o == Owner[i]
<1>1. layout \in Layouts /\ o \in Proc
  BY LatticeOf DEF Types
<1>2. CASE pc[p] = "events" /\ i \in ReverseSites(p)
  <2>1. i \in Backward(p, iset[p]) /\ iset[p] \in Sectors
    BY <1>2, CurrentSets, CountsOf
  <2>2. i \in Forward(p, iset[p])
    BY <1>1, <2>1, ExchangedNear
  <2>3. Round(p) \in Nat /\ In(p) = 2 * Round(p) + 1
    BY <1>2, CountsOf
  <2>4. /\ o # p /\ Round(o) = Round(p) /\ iset[o] = iset[p]
        /\ pc[o] \in {"acquire", "events", "reverse"}
    BY <1>2, <2>2, SameRound
  <2> QED BY <1>1, <2>1, <2>3, <2>4
<1>3. CASE p # o /\ \E k \in DOMAIN chan[p][o] : i \in DOMAIN chan[p][o][k]
  <2>1. PICK k \in DOMAIN chan[p][o] : i \in DOMAIN chan[p][o][k]
    BY <1>3
  <2>2. PICK st \in Seq(Nat) : Carries(p, o, st)
    BY <1>1 DEF InTransit
  <2> QED BY <1>1, <1>3, <2>1, <2>2, BackInRound
<1> QED BY <1>2, <1>3 DEF Away

(* Only one message has it ...                                             *)
LEMMA BackOnce ==
    ASSUME WideEnough, Types, RunBounded, Causal, InTransit,
           NEW i \in Site, NEW p \in Proc, p # Owner[i],
           NEW k \in DOMAIN chan[p][Owner[i]], i \in DOMAIN chan[p][Owner[i]][k],
           NEW l \in DOMAIN chan[p][Owner[i]], i \in DOMAIN chan[p][Owner[i]][l]
    PROVE  k = l /\ k \in Nat
<1>1. Owner[i] \in Proc
  BY LatticeOf DEF Types
<1>2. PICK st \in Seq(Nat) : Carries(p, Owner[i], st)
  BY <1>1 DEF InTransit
<1>3. k \in 1 .. Len(st) /\ l \in 1 .. Len(st) /\ st[k] = st[l] /\ st[k] \in Nat
  <2>1. Round(Owner[i]) \in Nat
    BY <1>1, CountsOf
  <2> QED BY <1>2, <2>1, BackInRound
<1>4. \A a, b \in 1 .. Len(st) : a < b => st[a] < st[b]
  BY <1>1, <1>2, CarriesOf
<1> QED BY <1>3, <1>4

(* ... and only one process, and one value of it.                          *)
LEMMA AwayOnce ==
    ASSUME WideEnough, Types, RunBounded, Causal, InTransit, NEW i \in Site,
           NEW p \in Proc, NEW v, Away(p, i, v), NEW r \in Proc, NEW w, Away(r, i, w)
    PROVE  p = r /\ v = w
<1> DEFINE o == Owner[i]
<1>1. layout \in Layouts
  BY DEF Types
<1>2. /\ o \in Proc /\ o # p /\ iset[o] \in Sectors
      /\ i \in Backward(p, iset[o]) /\ i \in Backward(r, iset[o])
  BY AwayInRound, CountsOf
<1>3. p = r
  BY <1>1, <1>2, ReverseApart
<1>4. PICK st \in Seq(Nat) : Carries(p, o, st)
  BY <1>2 DEF InTransit
<1>5. \A k \in DOMAIN chan[p][o] : i \in DOMAIN chan[p][o][k] =>
         st[k] = 2 * Round(o) + 1 /\ st[k] < Out(p)
  BY <1>2, <1>4, BackInRound
<1>6. \A k, l \in DOMAIN chan[p][o] :
         i \in DOMAIN chan[p][o][k] /\ i \in DOMAIN chan[p][o][l] => k = l
  BY <1>2, BackOnce
(* p does not run the sector any more when the message is under way.       *)
<1>7. ASSUME pc[p] = "events", i \in ReverseSites(p) PROVE \A k \in DOMAIN chan[p][o] : i \notin DOMAIN chan[p][o][k]
  <2>1. i \in Backward(p, iset[p]) /\ iset[p] \in Sectors
    BY <1>7, CurrentSets, CountsOf
  <2>2. i \in Forward(p, iset[p])
    BY <1>1, <2>1, ExchangedNear
  <2>3. Round(o) = Round(p) /\ Round(p) \in Nat /\ Out(p) = 2 * Round(p) + 1
    BY <1>7, <2>2, SameRound, CountsOf
  <2> QED BY <1>5, <2>3
<1> QED BY <1>3, <1>6, <1>7 DEF Away

(* What Truth says of a site.                                              *)
LEMMA TruthOf ==
    ASSUME WideEnough, Types, RunBounded, Causal, InTransit, NEW i \in Site
    PROVE  /\ \A p \in Proc : \A v : Away(p, i, v) => Truth[i] = v
           /\ (\A p \in Proc : \A v : ~ Away(p, i, v)) => Truth[i] = lat[Owner[i]][i]
<1> DEFINE o == Owner[i]
           guests == {p \in Proc : pc[p] = "events" /\ i \in ReverseSites(p)}
           sent == {p \in Proc \ {o} : \E k \in DOMAIN chan[p][o] : i \in DOMAIN chan[p][o][k]}
           c == chan[CHOOSE p \in sent : TRUE][o]
           k0 == CHOOSE k \in DOMAIN c :
                   i \in DOMAIN c[k] /\ \A n \in DOMAIN c : i \in DOMAIN c[n] => n <= k
<1>1. Truth[i] = IF guests # {} THEN lat[CHOOSE p \in guests : TRUE][i]
                 ELSE IF sent # {} THEN c[k0][i] ELSE lat[o][i]
  BY DEF Truth, TruthAt
<1>2. ASSUME guests # {}
      PROVE  \E p \in Proc : Away(p, i, Truth[i])
  <2>1. (CHOOSE p \in guests : TRUE) \in guests
    BY <1>2
  <2> QED BY <1>1, <1>2, <2>1 DEF Away
<1>3. ASSUME guests = {}, sent # {}
      PROVE  \E p \in Proc : Away(p, i, Truth[i])
  <2>1. PICK p \in sent : p = CHOOSE q \in sent : TRUE
    BY <1>3
  <2>2. p \in Proc /\ p # o /\ c = chan[p][o]
    BY <2>1
  <2>3. PICK k \in DOMAIN chan[p][o] : i \in DOMAIN chan[p][o][k]
    BY <2>1
  <2>4. \A n \in DOMAIN chan[p][o] : i \in DOMAIN chan[p][o][n] => n <= k
    <3>1. ASSUME NEW n \in DOMAIN chan[p][o], i \in DOMAIN chan[p][o][n]
          PROVE  n = k /\ n \in Nat
      BY <2>2, <2>3, <3>1, BackOnce
    <3> QED BY <3>1
  <2>5. k0 \in DOMAIN c /\ i \in DOMAIN c[k0]
    <3>1. \E n \in DOMAIN c : /\ i \in DOMAIN c[n]
                              /\ \A l \in DOMAIN c : i \in DOMAIN c[l] => l <= n
      BY <2>2, <2>3, <2>4
    <3> HIDE DEF c
    <3> QED BY <3>1
  <2>6. Truth[i] = c[k0][i]
    BY <1>1, <1>3
  <2> HIDE DEF c, k0, sent, guests
  <2> QED BY <2>2, <2>5, <2>6 DEF Away
<1>4. ASSUME guests = {}, sent = {}
      PROVE  Truth[i] = lat[o][i]
  BY <1>1, <1>4
<1>5. Truth[i] = lat[o][i] \/ \E p \in Proc : Away(p, i, Truth[i])
  BY <1>2, <1>3, <1>4
<1> HIDE DEF guests, sent, c, k0
<1>6. (guests = {} /\ sent = {}) \/ \E p \in Proc : Away(p, i, Truth[i])
  BY <1>2, <1>3
<1>7. ASSUME guests = {}, sent = {} PROVE \A p \in Proc : \A v : ~ Away(p, i, v)
  BY <1>7 DEF Away, guests, sent
<1> QED BY <1>4, <1>5, <1>6, <1>7, AwayOnce

(* The value that is away is that of an atom or of none.                   *)
LEMMA AwayAtom ==
    ASSUME WideEnough, Types, RunBounded, InTransit,
           NEW i \in Site, NEW p \in Proc, NEW v, Away(p, i, v)
    PROVE  v \in Atom
<1> DEFINE o == Owner[i]
<1>1. layout \in Layouts /\ o \in Proc
  BY LatticeOf DEF Types
<1>2. CASE pc[p] = "events" /\ i \in ReverseSites(p) /\ v = lat[p][i]
  <2>1. i \in Backward(p, iset[p]) /\ iset[p] \in Sectors
    BY <1>2, CurrentSets, CountsOf
  <2>2. i \in AllGhosts(p)
    BY <1>1, <2>1, ExchangedNear
  <2> QED BY <1>2, <2>2 DEF Types
<1>3. CASE \E k \in DOMAIN chan[p][o] : i \in DOMAIN chan[p][o][k] /\ v = chan[p][o][k][i]
  <2>1. PICK k \in DOMAIN chan[p][o] : i \in DOMAIN chan[p][o][k] /\ v = chan[p][o][k][i]
    BY <1>3
  <2>2. chan[p][o] \in Seq(Messages)
    BY <1>1 DEF InTransit
  <2>3. chan[p][o][k] \in Messages
    BY <2>1, <2>2
  <2>4. PICK D \in SUBSET Site : chan[p][o][k] \in [D -> Atom]
    BY <2>3 DEF Messages
  <2> QED BY <2>1, <2>4
<1> QED BY <1>2, <1>3 DEF Away

(* Every site holds an atom or none.                                       *)
LEMMA TruthType ==
    ASSUME WideEnough, Types, RunBounded, Causal, InTransit
    PROVE  Truth \in [Site -> Atom]
<1>1. ASSUME NEW i \in Site PROVE Truth[i] \in Atom
  <2>1. CASE \E p \in Proc : \E v : Away(p, i, v)
    BY <2>1, TruthOf, AwayAtom
  <2>2. CASE \A p \in Proc : \A v : ~ Away(p, i, v)
    <3>1. Truth[i] = lat[Owner[i]][i]
      BY <2>2, TruthOf
    <3>2. Owner[i] \in Proc /\ i \in Mine(Owner[i])
      BY LatticeOf DEF Types, Mine
    <3> QED BY <3>1, <3>2 DEF Types
  <2> QED BY <2>1, <2>2
<1>2. Truth = [i \in Site |-> Truth[i]]
  BY DEF Truth
<1> QED BY <1>1, <1>2

(* No other process has a site away that an event of p may depend on.      *)
LEMMA Custody ==
    ASSUME WideEnough, Types, RunBounded, Causal, InTransit,
           NEW p \in Proc, pc[p] = "events", NEW i \in SetSites(p), NEW j \in Near2(i),
           NEW r \in Proc, NEW v, Away(r, j, v)
    PROVE  r = p
<1> DEFINE s == iset[p]
           o == Owner[j]
<1>1. layout \in Layouts /\ s \in Sectors /\ i \in SectorSet(p, s)
  BY CurrentSets, CountsOf
<1>2. i \in Site /\ j \in Site
  BY <1>1, InSector, NearOf
<1>3. o \in Proc /\ j \in Backward(r, iset[o])
  BY <1>2, AwayInRound
<1>4. iset[o] = s
  <2>1. CASE o = p
    BY <2>1
  <2>2. CASE o # p
    <3>1. j \in Forward(p, s)
      BY <1>1, <2>2, SeenIsReceived
    <3> QED BY <3>1, SameRound
  <2> QED BY <2>1, <2>2
<1>5. PICK k \in SectorSet(r, s) : j \in Near(k)
  BY <1>1, <1>3, <1>4, ExchangedNear
<1>6. k \in Site
  BY <1>1, <1>5, InSector
<1>7. k \in Near(j) /\ Near(j) \subseteq Near3(i)
  BY <1>1, <1>2, <1>5, <1>6, NearOf
<1> QED BY <1>1, <1>5, <1>7, SectorsFarApart

(* What p sees when it draws an event or lists those of a site is true.    *)
LEMMA SeenIsTrue ==
    ASSUME WideEnough, Types, RunBounded, Causal, InTransit, GhostsCurrent,
           NEW p \in Proc, pc[p] = "events", NEW i \in SetSites(p), NEW j \in Near2(i)
    PROVE  j \in Site /\ lat[p][j] = Truth[j]
<1> DEFINE s == iset[p]
           o == Owner[j]
<1>1. layout \in Layouts /\ s \in Sectors /\ i \in SectorSet(p, s)
  BY CurrentSets, CountsOf
<1>2. j \in Site
  BY <1>1, InSector, NearOf
<1>3. CASE j \in ReverseSites(p)
  <2>1. Away(p, j, lat[p][j])
    BY <1>3 DEF Away
  <2> QED BY <1>2, <2>1, TruthOf
<1>4. CASE j \notin ReverseSites(p)
  <2>1. lat[p][j] = lat[o][j]
    <3>1. CASE o # p
      <4>1. j \in Forward(p, s)
        BY <1>1, <3>1, SeenIsReceived
      <4>2. j \in ForwardSites(p) \ ReverseSites(p)
        BY <1>4, <4>1, CurrentSets
      <4> QED BY <4>2 DEF GhostsCurrent
    <3> QED BY <3>1
  <2>2. ASSUME NEW r \in Proc, NEW v, Away(r, j, v) PROVE FALSE
    <3>1. r = p
      BY <2>2, Custody
    <3>2. j \in Backward(p, iset[o]) /\ o # p /\ o \in Proc
      BY <1>2, <2>2, <3>1, AwayInRound
    <3>3. j \in Forward(p, s)
      BY <1>1, <3>2, SeenIsReceived
    <3>4. iset[o] = s
      BY <3>3, SameRound
    <3> QED BY <1>4, <3>2, <3>4, CurrentSets
  <2>3. Truth[j] = lat[o][j]
    BY <1>2, <2>2, TruthOf
  <2> QED BY <1>2, <2>1, <2>3
<1> QED BY <1>3, <1>4

(* The events of a site depend on the sites at most two steps away.        *)
LEMMA EventsLocal ==
    ASSUME layout \in Layouts, NEW i \in Site, NEW l, NEW m, DOMAIN l = Site, DOMAIN m = Site,
           \A j \in Near2(i) : l[j] = m[j]
    PROVE  Targets(l, Nbr, i) = Targets(m, Nbr, i) /\ SiteEvents(l, Nbr, i) = SiteEvents(m, Nbr, i)
<1>1. /\ i \in Near2(i) /\ \A j \in Nbr[i] : j \in Near2(i) /\ j # i /\ j \in Site
      /\ \A j \in Nbr[i] : \A k \in Nbr[j] : k \in Near2(i) /\ k \in Site
  <2>1. i \in Near(i) /\ \A j \in Nbr[i] : j \in Near(i) /\ j \in Site /\ j # i
    BY LatticeOf DEF Near
  <2>2. \A j \in Nbr[i] : \A k \in Nbr[j] : k \in Near(j) /\ k \in Site
    BY <2>1, LatticeOf DEF Near
  <2> QED BY <2>1, <2>2, NearOf DEF Near2
<1>2. SiteEnergy(l, Nbr, i) = SiteEnergy(m, Nbr, i)
  <2>1. {j \in Nbr[i] : l[j] = VACANT} = {j \in Nbr[i] : m[j] = VACANT} /\ l[i] = m[i]
    BY <1>1
  <2> QED BY <2>1 DEF SiteEnergy
<1>3. ASSUME NEW j \in Nbr[i] PROVE EnergyChange(l, Nbr, i, j) = EnergyChange(m, Nbr, i, j)
  <2> DEFINE a == Hopped(l, i, j)
             b == Hopped(m, i, j)
  <2>1. \A k \in Near2(i) : k \in Site => a[k] = b[k]
    BY DEF Hopped
  <2>2. a[j] = b[j] /\ {k \in Nbr[j] : a[k] = VACANT} = {k \in Nbr[j] : b[k] = VACANT}
    BY <1>1, <2>1
  <2> HIDE DEF a, b
  <2>3. SiteEnergy(a, Nbr, j) = SiteEnergy(b, Nbr, j)
    BY <2>2 DEF SiteEnergy
  <2> QED BY <1>2, <2>3 DEF EnergyChange, a, b
<1>4. Targets(l, Nbr, i) = Targets(m, Nbr, i)
  BY <1>1, <1>3 DEF Targets
<1>5. \A j \in Targets(l, Nbr, i) : j \in Nbr[i]
  BY DEF Targets
<1> QED BY <1>3, <1>4, <1>5 DEF SiteEvents

(* Processes that run sectors at the same time change nothing that the     *)
(* events of the other depend on.                                          *)
LEMMA EventsApart ==
    ASSUME WideEnough, Types, RunBounded, Causal,
           NEW p \in Proc, pc[p] = "events", NEW q \in Proc, pc[q] = "events", p # q,
           NEW h \in SetSites(p), NEW j \in Near(h), NEW i \in SetSites(q)
    PROVE  j \notin Near2(i)
<1> DEFINE s == iset[p]
           t == iset[q]
           o == Owner[j]
<1>1. SUFFICES ASSUME j \in Near2(i) PROVE FALSE
  OBVIOUS
<1>2. /\ layout \in Layouts /\ s \in Sectors /\ t \in Sectors
      /\ h \in SectorSet(p, s) /\ i \in SectorSet(q, t)
  BY CurrentSets, CountsOf
<1>3. h \in Site /\ Owner[h] = p /\ i \in Site /\ j \in Site /\ o \in Proc
  <2>1. h \in Site /\ Owner[h] = p /\ i \in Site
    BY <1>2, InSector
  <2>2. j \in Site
    BY <1>2, <2>1, NearOf
  <2> QED BY <1>2, <2>1, <2>2, LatticeOf
<1>4. h \in Near3(i) /\ j \in Near2(h)
  BY <1>1, <1>2, <1>3, NearOf
<1>5. o # q => iset[o] = t
  <2>1. o # q => j \in Forward(q, t)
    BY <1>1, <1>2, SeenIsReceived
  <2> QED BY <2>1, SameRound
<1>6. o # p => iset[o] = s
  <2>1. o # p => j \in Forward(p, s)
    BY <1>2, <1>4, SeenIsReceived
  <2> QED BY <2>1, SameRound
<1>7. s = t
  BY <1>5, <1>6
<1> QED BY <1>2, <1>4, <1>7, SectorsFarApart

-----------------------------------------------------------------------------
(* Messages are sent and taken.                                            *)

(* Legs are counted by the place in the loop alone.                        *)
LEMMA CountsSame ==
    ASSUME NEW q, pc'[q] = pc[q], iset'[q] = iset[q], sweep'[q] = sweep[q]
    PROVE  Round(q)' = Round(q) /\ In(q)' = In(q) /\ Out(q)' = Out(q)
<1>1. Round(q)' = Round(q)
  BY DEF Round
<1> QED BY <1>1 DEF In, Out

(* Process p packs the messages of its next leg.                           *)
LEMMA SendsLeg ==
    ASSUME WideEnough, Types, RunBounded, Causal, InTransit, NEW p \in Proc,
           NEW part, part = [q \in Proc |-> Traffic(p, q, Out(p))], chan' = Sent(p, part),
           lat' = lat, layout' = layout, Out(p)' = Out(p) + 1,
           \A q \in Proc : In(q)' = In(q) /\ (q # p => Out(q)' = Out(q))
    PROVE  Causal' /\ InTransit'
<1> DEFINE t == Out(p)
           To(r) == Traffic(p, r, t)
           Packed(r) == [i \in To(r) |-> lat[p][i]]
<1>1. /\ layout \in Layouts /\ t \in Nat
      /\ \A q \in Proc : Out(q) \in Nat /\ In(q) \in Nat
  BY CountsOf
<1>2. chan' = [chan EXCEPT ![p] = [r \in Proc |->
                 IF To(r) = {} THEN chan[p][r] ELSE Append(chan[p][r], Packed(r))]]
  BY DEF Sent, InTransit
<1>3. /\ DOMAIN chan' = Proc /\ \A q \in Proc : q # p => chan'[q] = chan[q]
      /\ DOMAIN chan'[p] = Proc
      /\ \A r \in Proc : chan'[p][r] =
            IF To(r) = {} THEN chan[p][r] ELSE Append(chan[p][r], Packed(r))
  <2> DEFINE row == [r \in Proc |->
                       IF To(r) = {} THEN chan[p][r] ELSE Append(chan[p][r], Packed(r))]
  <2>1. DOMAIN chan = Proc
    BY DEF InTransit
  <2>2. DOMAIN row = Proc
    OBVIOUS
  <2>3. \A r \in Proc : row[r] =
            IF To(r) = {} THEN chan[p][r] ELSE Append(chan[p][r], Packed(r))
    OBVIOUS
  <2> HIDE DEF row
  <2>4. /\ DOMAIN chan' = Proc /\ chan'[p] = row
        /\ \A q \in Proc : q # p => chan'[q] = chan[q]
    BY <1>2, <2>1 DEF row
  <2> HIDE DEF To, Packed
  <2> QED BY <2>2, <2>3, <2>4
<1>4. \A r \in Proc : Packed(r) \in [To(r) -> Atom] /\ Packed(r) \in Messages
  <2>1. SUFFICES ASSUME NEW r \in Proc PROVE Packed(r) \in [To(r) -> Atom] /\ To(r) \subseteq Site
    BY DEF Messages
  <2>2. \A i \in To(r) : i \in Site /\ (Owner[i] = p \/ i \in AllGhosts(p))
    BY <1>1, <2>1, TrafficOf
  <2>3. \A i \in To(r) : i \in Site /\ i \in Mine(p) \cup AllGhosts(p)
    BY <2>2 DEF Mine
  <2> HIDE DEF To
  <2> QED BY <2>3 DEF Types
<1>5. Causal'
  <2>1. SUFFICES ASSUME NEW q \in Proc, NEW r \in Proc, NEW u \in Nat,
                        u < In(r), Traffic(q, r, u) # {}
                 PROVE  u < Out(q)'
    BY Fixed DEF Causal
  <2>2. u < Out(q)
    BY <2>1 DEF Causal
  <2>3. Out(q)' = Out(q) \/ Out(q)' = Out(q) + 1
    BY <2>1
  <2> QED BY <1>1, <2>2, <2>3
<1>6. \A r \in Proc : To(r) # {} => In(r) <= t
  <2>1. SUFFICES ASSUME NEW r \in Proc, To(r) # {}, t < In(r) PROVE FALSE
    BY <1>1
  <2>2. t < Out(p)
    BY <1>1, <2>1 DEF Causal
  <2> QED BY <1>1, <2>2
(* The messages to r now.                                                  *)
<1>7. ASSUME NEW r \in Proc, NEW st \in Seq(Nat), Carries(p, r, st), Current(p, r, st)
      PROVE  \E su \in Seq(Nat) : Carries(p, r, su)' /\ Current(p, r, su)'
  <2> DEFINE tr == TrafficTo(p, r)
  <2>1. chan[p][r] \in Seq(Messages) /\ Holds(chan[p][r], st, In(r), t, tr, Atom)
    BY <1>7 DEF Carries, InTransit
  <2>2. tr[t] = To(r)
    BY <1>1 DEF TrafficTo
  <2>3. \A su : Carries(p, r, su)' <=> Holds(chan'[p][r], su, In(r), t + 1, tr, Atom)
    BY Fixed DEF Carries, Atom
  <2> HIDE DEF t, tr, To, Packed
  <2>4. \A h : Traffic(p, r, h)' = Traffic(p, r, h)
    BY Fixed
  <2>5. CASE To(r) = {}
    <3>1. Holds(chan[p][r], st, In(r), t + 1, tr, Atom)
      BY <1>1, <2>1, <2>2, <2>5, HoldsNoMore
    <3>2. Carries(p, r, st)'
      BY <1>3, <2>3, <2>5, <3>1
    <3>3. chan'[p][r] = chan[p][r]
      BY <1>3, <2>5
    <3>4. Current(p, r, st)'
      BY <1>7, <2>4, <3>3 DEF Current
    <3> QED BY <3>2, <3>4
  <2>6. CASE To(r) # {}
    <3>1. /\ Append(st, t) \in Seq(Nat)
          /\ Holds(Append(chan[p][r], Packed(r)), Append(st, t), In(r), t + 1, tr, Atom)
      BY <1>1, <1>4, <1>6, <2>1, <2>2, <2>6, HoldsOneMore
    <3>2. PICK su \in Seq(Nat) : su = Append(st, t)
      BY <3>1
    <3>3. Carries(p, r, su)'
      BY <1>3, <2>3, <2>6, <3>1, <3>2
    <3>4. Current(p, r, su)'
      <4>1. SUFFICES ASSUME NEW a \in 1 .. Len(su), NEW j \in Traffic(p, r, su[a]), su[a] % 2 = 0
                     PROVE  chan'[p][r][a][j] = lat[p][j]
        BY <2>4 DEF Current
      <4>2. /\ Len(st) \in Nat /\ Len(su) = Len(st) + 1 /\ su[Len(st) + 1] = t
            /\ \A b \in 1 .. Len(st) : su[b] = st[b]
        BY <1>1, <3>2
      <4>3. Len(chan[p][r]) = Len(st)
        BY <2>1 DEF Holds
      <4>4. /\ chan'[p][r][Len(st) + 1] = Packed(r)
            /\ \A b \in 1 .. Len(st) : chan'[p][r][b] = chan[p][r][b]
        <5>1. \A c \in Seq(Messages) : \A m \in Messages :
                /\ Append(c, m)[Len(c) + 1] = m
                /\ \A b \in 1 .. Len(c) : Append(c, m)[b] = c[b]
          BY SMTT(30)
        <5>2. chan'[p][r] = Append(chan[p][r], Packed(r)) /\ Packed(r) \in Messages
          BY <1>3, <1>4, <2>6
        <5>3. chan[p][r] \in Seq(Messages)
          BY <2>1
        <5>4. /\ Append(chan[p][r], Packed(r))[Len(chan[p][r]) + 1] = Packed(r)
              /\ \A b \in 1 .. Len(chan[p][r]) :
                    Append(chan[p][r], Packed(r))[b] = chan[p][r][b]
          BY <5>1, <5>2, <5>3
        <5> QED BY <4>3, <5>2, <5>4
      <4>5. CASE a \in 1 .. Len(st)
        <5>1. chan'[p][r][a] = chan[p][r][a] /\ su[a] = st[a]
          BY <4>2, <4>5, <4>4
        <5> QED BY <1>7, <4>1, <4>5, <5>1 DEF Current
      <4>6. CASE a = Len(st) + 1
        <5>1. chan'[p][r][a] = Packed(r) /\ j \in To(r)
          BY <4>1, <4>2, <4>6, <4>4 DEF To
        <5> QED BY <5>1 DEF Packed
      <4> QED BY <4>1, <4>2, <4>5, <4>6
    <3> QED BY <3>2, <3>3, <3>4
  <2> QED BY <2>5, <2>6
<1>8. ASSUME NEW q \in Proc, q # p, NEW r \in Proc, NEW st \in Seq(Nat)
      PROVE  /\ Carries(q, r, st)' <=> Carries(q, r, st)
             /\ Current(q, r, st)' <=> Current(q, r, st)
  BY <1>3, <1>8, Fixed DEF Carries, Current, Atom
<1>9. ASSUME NEW q \in Proc
      PROVE  DOMAIN chan'[q] = Proc /\ \A r \in Proc : chan'[q][r] \in Seq(Messages)
  <2>1. DOMAIN chan'[q] = Proc
    BY <1>3 DEF InTransit
  <2>2. ASSUME NEW r \in Proc PROVE chan'[q][r] \in Seq(Messages)
    <3>1. chan[q][r] \in Seq(Messages)
      BY DEF InTransit
    <3> HIDE DEF Packed, To
    <3>2. Append(chan[q][r], Packed(r)) \in Seq(Messages)
      BY <1>4, <3>1
    <3>3. chan'[q][r] = chan[q][r] \/ chan'[q][r] = Append(chan[q][r], Packed(r))
      BY <1>3
    <3> QED BY <3>1, <3>2, <3>3
  <2> QED BY <2>1, <2>2
<1>10. \A q, r \in Proc : \E st \in Seq(Nat) : Carries(q, r, st)' /\ Current(q, r, st)'
  <2>1. SUFFICES ASSUME NEW q \in Proc, NEW r \in Proc
                 PROVE  \E st \in Seq(Nat) : Carries(q, r, st)' /\ Current(q, r, st)'
    OBVIOUS
  <2>2. PICK st \in Seq(Nat) : Carries(q, r, st) /\ Current(q, r, st)
    BY <2>1 DEF InTransit
  <2> QED BY <1>7, <1>8, <2>2
<1> HIDE DEF Packed, To
<1>11. InTransit'
  BY <1>3, <1>9, <1>10, Fixed DEF InTransit
<1> QED BY <1>5, <1>11

(* The oldest message of q is the one p waits for.                         *)
LEMMA Oldest ==
    ASSUME Types, RunBounded, InTransit, NEW p \in Proc, NEW q \in Proc,
           Traffic(q, p, In(p)) # {}, chan[q][p] # <<>>, NEW st \in Seq(Nat), Carries(q, p, st)
    PROVE  /\ In(p) < Out(q) /\ 1 \in 1 .. Len(st) /\ st[1] = In(p)
           /\ 1 \in DOMAIN chan[q][p] /\ Head(chan[q][p]) = chan[q][p][1]
           /\ chan[q][p][1] \in [Traffic(q, p, In(p)) -> Atom]
           /\ Tail(chan[q][p]) \in Seq(Messages) /\ Tail(st) \in Seq(Nat)
           /\ \A a \in 1 .. Len(Tail(st)) : /\ a + 1 \in 1 .. Len(st)
                                            /\ Tail(st)[a] = st[a + 1]
                                            /\ Tail(chan[q][p])[a] = chan[q][p][a + 1]
           /\ Holds(Tail(chan[q][p]), Tail(st), In(p) + 1, Out(q), TrafficTo(q, p), Atom)
<1> DEFINE t == In(p)
           tr == TrafficTo(q, p)
           c == chan[q][p]
<1>1. t \in Nat /\ Out(q) \in Nat /\ c \in Seq(Messages) /\ c # <<>>
  BY CountsOf DEF InTransit
<1>2. Holds(c, st, t, Out(q), tr, Atom)
  BY DEF Carries
<1>3. tr[t] = Traffic(q, p, t) /\ tr[t] # {}
  BY <1>1 DEF TrafficTo
<1> HIDE DEF t, tr, c
<1>4. /\ t < Out(q) /\ 1 \in 1 .. Len(st) /\ st[1] = t
      /\ Head(c) = c[1] /\ c[1] \in [tr[t] -> Atom]
      /\ Tail(c) \in Seq(Messages) /\ Tail(st) \in Seq(Nat)
      /\ \A a \in 1 .. Len(Tail(st)) : /\ a + 1 \in 1 .. Len(st)
                                       /\ Tail(st)[a] = st[a + 1]
                                       /\ Tail(c)[a] = c[a + 1]
      /\ Holds(Tail(c), Tail(st), t + 1, Out(q), tr, Atom)
  BY <1>1, <1>2, <1>3, HoldsOneLess
<1>5. 1 \in DOMAIN c
  BY <1>1
<1> QED BY <1>3, <1>4, <1>5 DEF t, tr, c

(* What p has in memory of sites it has sent before a sector and that are  *)
(* not yet received.                                                       *)
StillSent(p, j) ==
    \E r \in Proc : \E h \in Nat :
        h % 2 = 0 /\ In(r) <= h /\ h < Out(p) /\ j \in Traffic(p, r, h)

(* Process p takes the messages of the leg it waits for.                   *)
LEMMA TakesLeg ==
    ASSUME WideEnough, Types, RunBounded, Causal, InTransit, NEW p \in Proc,
           NEW part, part = [q \in Proc |-> Traffic(q, p, In(p))],
           Arrived(p, part), chan' = Taken(p, part), layout' = layout, In(p)' = In(p) + 1,
           \A q \in Proc : Out(q)' = Out(q) /\ (q # p => In(q)' = In(q) /\ lat'[q] = lat[q]),
           \A j : StillSent(p, j) => lat'[p][j] = lat[p][j]
    PROVE  Causal' /\ InTransit'
<1> DEFINE t == In(p)
           From(q) == Traffic(q, p, t)
<1>1. /\ layout \in Layouts /\ t \in Nat
      /\ \A q \in Proc : Out(q) \in Nat /\ In(q) \in Nat
  BY CountsOf
<1>2. /\ \A q \in Proc : From(q) # {} => chan[q][p] # <<>>
      /\ DOMAIN chan' = Proc /\ \A q \in Proc : DOMAIN chan'[q] = Proc
      /\ \A q, r \in Proc : chan'[q][r] = IF r # p \/ From(q) = {} THEN chan[q][r]
                                          ELSE Tail(chan[q][r])
  <2>1. \A q \in Proc : DOMAIN chan[q] = Proc
    BY DEF InTransit
  <2> HIDE DEF From
  <2>2. \A q \in Proc : part[q] = From(q)
    BY DEF From
  <2>3. chan' = [q \in Proc |-> [chan[q] EXCEPT ![p] = IF part[q] = {} THEN @ ELSE Tail(@)]]
    BY DEF Taken
  <2>4. ASSUME NEW q \in Proc
        PROVE  /\ DOMAIN chan'[q] = Proc
               /\ chan'[q][p] = IF part[q] = {} THEN chan[q][p] ELSE Tail(chan[q][p])
               /\ \A r \in Proc : r # p => chan'[q][r] = chan[q][r]
    <3>1. chan'[q] = [chan[q] EXCEPT ![p] = IF part[q] = {} THEN chan[q][p] ELSE Tail(chan[q][p])]
      BY <2>3
    <3> QED BY <2>1, <3>1
  <2>5. \A q \in Proc : From(q) # {} => chan[q][p] # <<>>
    BY <2>2 DEF Arrived
  <2>6. DOMAIN chan' = Proc
    BY <2>3
  <2>7. ASSUME NEW q \in Proc, NEW r \in Proc
        PROVE  chan'[q][r] = IF r # p \/ From(q) = {} THEN chan[q][r] ELSE Tail(chan[q][r])
    BY <2>2, <2>4
  <2>8. \A q \in Proc : DOMAIN chan'[q] = Proc
    BY <2>4
  <2> QED BY <2>5, <2>6, <2>7, <2>8
<1>3. Causal'
  <2>1. SUFFICES ASSUME NEW q \in Proc, NEW r \in Proc, NEW u \in Nat,
                        u < In(r)', Traffic(q, r, u) # {}
                 PROVE  u < Out(q)
    BY Fixed DEF Causal
  <2>2. CASE u < In(r)
    BY <2>1, <2>2 DEF Causal
  <2>3. CASE ~ (u < In(r))
    <3>1. r = p /\ u = t
      BY <1>1, <2>1, <2>3
    <3>2. PICK st \in Seq(Nat) : Carries(q, p, st)
      BY DEF InTransit
    <3> QED BY <1>2, <2>1, <3>1, <3>2, Oldest
  <2> QED BY <2>2, <2>3
(* The messages of p that are still under way hold what p has.             *)
<1>4. ASSUME NEW q \in Proc, NEW r \in Proc, NEW st \in Seq(Nat), Carries(q, r, st),
             NEW a \in 1 .. Len(st), st[a] % 2 = 0, NEW j \in Traffic(q, r, st[a])
      PROVE  lat'[q][j] = lat[q][j]
  <2>1. CASE q = p
    <3>1. st[a] \in Nat /\ In(r) <= st[a] /\ st[a] < Out(p)
      BY <1>4, <2>1, CarriesOf
    <3>2. StillSent(p, j)
      BY <1>4, <2>1, <3>1 DEF StillSent
    <3> QED BY <2>1, <3>2
  <2> QED BY <2>1
<1>5. \A q, r, h : Traffic(q, r, h)' = Traffic(q, r, h) /\ TrafficTo(q, r)' = TrafficTo(q, r)
  BY Fixed
<1>6. ASSUME NEW q \in Proc, NEW r \in Proc, NEW st \in Seq(Nat), Carries(q, r, st), Current(q, r, st)
      PROVE  /\ chan'[q][r] \in Seq(Messages)
             /\ \E su \in Seq(Nat) : Carries(q, r, su)' /\ Current(q, r, su)'
  <2>1. chan[q][r] \in Seq(Messages) /\ Holds(chan[q][r], st, In(r), Out(q), TrafficTo(q, r), Atom)
    BY <1>6 DEF Carries, InTransit
  <2>2. \A su : Carries(q, r, su)' <=>
                  Holds(chan'[q][r], su, In(r)', Out(q), TrafficTo(q, r), Atom)
    BY <1>5 DEF Carries, Atom
  <2> HIDE DEF t, From
  <2>3. CASE r # p \/ From(q) = {}
    <3>1. chan'[q][r] = chan[q][r]
      BY <1>2, <2>3
    <3>2. Holds(chan[q][r], st, In(r)', Out(q), TrafficTo(q, r), Atom)
      <4>1. CASE r # p
        BY <2>1, <4>1
      <4>2. CASE r = p
        <5>1. TrafficTo(q, r)[t] = {} /\ Holds(chan[q][r], st, t, Out(q), TrafficTo(q, r), Atom)
          BY <1>1, <2>1, <2>3, <4>2 DEF TrafficTo, From, t
        <5>2. Holds(chan[q][r], st, t + 1, Out(q), TrafficTo(q, r), Atom)
          BY <1>1, <5>1, HoldsNoLess
        <5> QED BY <4>2, <5>2 DEF t
      <4> QED BY <4>1, <4>2
    <3>3. Carries(q, r, st)'
      BY <2>2, <3>1, <3>2
    <3>4. Current(q, r, st)'
      <4>1. SUFFICES ASSUME NEW a \in 1 .. Len(st), st[a] % 2 = 0, NEW j \in Traffic(q, r, st[a])
                     PROVE  chan'[q][r][a][j] = lat'[q][j]
        BY <1>5 DEF Current
      <4>2. chan[q][r][a][j] = lat[q][j]
        BY <1>6, <4>1 DEF Current
      <4> QED BY <1>4, <1>6, <3>1, <4>1, <4>2
    <3> QED BY <2>1, <3>1, <3>3, <3>4
  <2>4. CASE r = p /\ From(q) # {}
    <3>1. chan[q][p] # <<>> /\ chan'[q][p] = Tail(chan[q][p])
      BY <1>2, <2>4
    <3>2. /\ Tail(chan[q][p]) \in Seq(Messages) /\ Tail(st) \in Seq(Nat)
          /\ \A a \in 1 .. Len(Tail(st)) : /\ a + 1 \in 1 .. Len(st)
                                           /\ Tail(st)[a] = st[a + 1]
                                           /\ Tail(chan[q][p])[a] = chan[q][p][a + 1]
          /\ Holds(Tail(chan[q][p]), Tail(st), In(p) + 1, Out(q), TrafficTo(q, p), Atom)
      BY <1>6, <2>4, <3>1, Oldest DEF From, t
    <3>3. PICK su \in Seq(Nat) : su = Tail(st)
      BY <3>2
    <3>4. Carries(q, r, su)'
      BY <2>2, <2>4, <3>1, <3>2, <3>3
    <3>5. Current(q, r, su)'
      <4>1. SUFFICES ASSUME NEW a \in 1 .. Len(su), su[a] % 2 = 0, NEW j \in Traffic(q, r, su[a])
                     PROVE  chan'[q][r][a][j] = lat'[q][j]
        BY <1>5 DEF Current
      <4>2. PICK b \in 1 .. Len(st) : b = a + 1 /\ su[a] = st[b] /\ chan'[q][r][a] = chan[q][r][b]
        BY <2>4, <3>1, <3>2, <3>3, <4>1
      <4>3. st[b] % 2 = 0 /\ j \in Traffic(q, r, st[b])
        BY <4>1, <4>2
      <4>4. chan[q][r][b][j] = lat[q][j]
        BY <1>6, <4>3 DEF Current
      <4> QED BY <1>4, <1>6, <4>2, <4>3, <4>4
    <3> QED BY <2>4, <3>1, <3>2, <3>4, <3>5
  <2> QED BY <2>3, <2>4
<1>7. ASSUME NEW q \in Proc, NEW r \in Proc
      PROVE  /\ chan'[q][r] \in Seq(Messages)
             /\ \E su \in Seq(Nat) : Carries(q, r, su)' /\ Current(q, r, su)'
  <2>1. PICK st \in Seq(Nat) : Carries(q, r, st) /\ Current(q, r, st)
    BY DEF InTransit
  <2> QED BY <1>6, <2>1
<1> HIDE DEF From, t
<1>8. InTransit'
  BY <1>2, <1>7, Fixed DEF InTransit
<1> QED BY <1>3, <1>8

-----------------------------------------------------------------------------
(* The steps of a process keep the protocol.                               *)

(* A step from one place in a sector to another.                           *)
LEMMA MovesInSector ==
    ASSUME Types, RunBounded, NEW p \in Proc, pc[p] \notin {"update", "done"},
           NEW x \in {"acquire", "events", "reverse"}, pc' = [pc EXCEPT ![p] = x],
           UNCHANGED <<layout, iset, sweep, nbatch, ndeposit>>
    PROVE  /\ RunBounded' /\ Proc' = Proc /\ pc'[p] = x
           /\ \A q \in Proc : /\ Round(q)' = Round(q)
                              /\ q # p => pc'[q] = pc[q] /\ In(q)' = In(q) /\ Out(q)' = Out(q)
           /\ pc' \in [Proc -> {"forward", "acquire", "events", "reverse", "update", "done"}]
<1>1. /\ Proc' = Proc /\ pc'[p] = x /\ \A q \in Proc : q # p => pc'[q] = pc[q]
      /\ pc' \in [Proc -> {"forward", "acquire", "events", "reverse", "update", "done"}]
  BY Fixed DEF Types
<1>2. \A q \in Proc : q # p => Round(q)' = Round(q) /\ In(q)' = In(q) /\ Out(q)' = Out(q)
  BY <1>1, CountsSame
<1>3. Round(p)' = Round(p)
  BY <1>1 DEF Round
<1>4. \A q \in Proc : /\ pc'[q] = "update" => pc[q] = "update"
                      /\ pc'[q] = "done" => pc[q] = "done"
  BY <1>1
<1>5. layout.kmc => \A q \in Proc : pc[q] # "done"
  BY DEF RunBounded
<1>6. layout.kmc => \A q \in Proc : pc'[q] # "done"
  BY <1>4, <1>5
<1>7. RunBounded'
  <2>1. /\ \A q \in Proc : /\ pc'[q] = "update" => iset[q] = 0 /\ layout.kmc
                           /\ pc'[q] = "done" => iset[q] = 0 /\ sweep[q] = layout.sweeps
        /\ SumOver(nbatch, Proc) <= StopBatch
        /\ ~ layout.kmc => ndeposit = 0
    BY <1>4 DEF RunBounded
  <2>2. ASSUME layout.kmc, NEW q \in Proc, NEW r \in Proc
        PROVE  /\ sweep[q] = sweep[r]
               /\ pc'[q] = "done" => pc'[r] = "done"
               /\ ndeposit <= StopBatch * (IF pc'[q] = "done" THEN sweep[q] ELSE sweep[q] - 1)
    <3>1. pc[q] # "done" /\ pc'[q] # "done"
      BY <1>5, <1>6, <2>2
    <3>2. /\ sweep[q] = sweep[r]
          /\ ndeposit <= StopBatch * (IF pc[q] = "done" THEN sweep[q] ELSE sweep[q] - 1)
      BY <2>2 DEF RunBounded
    <3> QED BY <3>1, <3>2
  <2> QED BY <1>1, <2>1, <2>2 DEF RunBounded
<1> QED BY <1>1, <1>2, <1>3, <1>7

(* SendForward keeps the protocol.                                         *)
LEMMA SendForwardKeeps ==
    ASSUME WideEnough, Protocol, NEW p \in Proc, SendForward(p)
    PROVE  Protocol'
<1>1. /\ Types /\ RunBounded /\ Causal /\ InTransit /\ GhostsCurrent
      /\ pc[p] = "forward" /\ pc' = [pc EXCEPT ![p] = "acquire"]
      /\ UNCHANGED <<layout, lat, events, iset, sweep, done, nbatch, ndeposit>>
      /\ layout' = layout /\ lat' = lat
  BY DEF Protocol, SendForward
<1>2. /\ RunBounded' /\ Proc' = Proc /\ pc'[p] = "acquire"
      /\ \A q \in Proc : /\ Round(q)' = Round(q)
                         /\ q # p => pc'[q] = pc[q] /\ In(q)' = In(q) /\ Out(q)' = Out(q)
      /\ pc' \in [Proc -> {"forward", "acquire", "events", "reverse", "update", "done"}]
  BY <1>1, MovesInSector
<1>3. Types'
  BY <1>1, <1>2, Fixed DEF Types, Atom
<1>4. PICK t \in Nat : t = Round(p) /\ t % 2 = iset[p] /\ Out(p) = 2 * t /\ In(p) = 2 * t
  BY <1>1, CountsOf DEF In
<1>5. Out(p)' = Out(p) + 1 /\ In(p)' = In(p)
  BY <1>2, <1>4 DEF In, Out
<1>6. PICK h \in Nat : h = 2 * t
  BY <1>4
<1>7. \A q : Traffic(p, q, h) = Forward(q, iset[p]) \cap Mine(p)
  BY <1>4, <1>6, LegBefore
<1>8. PICK part : part = [q \in Proc |-> Traffic(p, q, Out(p))]
  OBVIOUS
<1>9. chan' = Sent(p, part)
  <2>1. part = [q \in Proc |-> Geometry[layout].forward[q][iset[p]] \cap Mine(p)]
    BY <1>4, <1>6, <1>7, <1>8 DEF Forward
  <2> QED BY <2>1 DEF SendForward
<1>10. Causal' /\ InTransit'
  BY <1>1, <1>2, <1>5, <1>8, <1>9, SendsLeg
<1>11. GhostsCurrent'
  BY <1>1, <1>2, Fixed DEF GhostsCurrent, ForwardSites, ReverseSites
<1> QED BY <1>2, <1>3, <1>10, <1>11 DEF Protocol

(* EndSector keeps the protocol.                                           *)
LEMMA EndSectorKeeps ==
    ASSUME WideEnough, Protocol, NEW p \in Proc, EndSector(p)
    PROVE  Protocol'
<1>1. /\ Types /\ RunBounded /\ Causal /\ InTransit /\ GhostsCurrent
      /\ pc[p] = "events" /\ pc' = [pc EXCEPT ![p] = "reverse"]
      /\ UNCHANGED <<layout, lat, events, iset, sweep, nbatch, ndeposit>>
      /\ layout' = layout /\ lat' = lat /\ done' = [done EXCEPT ![p] = 0]
  BY DEF Protocol, EndSector
<1>2. /\ RunBounded' /\ Proc' = Proc /\ pc'[p] = "reverse"
      /\ \A q \in Proc : /\ Round(q)' = Round(q)
                         /\ q # p => pc'[q] = pc[q] /\ In(q)' = In(q) /\ Out(q)' = Out(q)
      /\ pc' \in [Proc -> {"forward", "acquire", "events", "reverse", "update", "done"}]
  BY <1>1, MovesInSector
<1>3. done' \in [Proc -> 0 .. StopEvents]
  BY <1>1, HopAssumption DEF Types
<1>4. Types'
  BY <1>1, <1>2, <1>3, Fixed DEF Types, Atom
<1>5. PICK t \in Nat : t = Round(p) /\ t % 2 = iset[p] /\ Out(p) = 2 * t + 1 /\ In(p) = 2 * t + 1
  BY <1>1, CountsOf DEF Out
<1>6. Out(p)' = Out(p) + 1 /\ In(p)' = In(p)
  BY <1>2, <1>5 DEF In, Out
<1>7. PICK h \in Nat : h = 2 * t + 1
  BY <1>5
<1>8. \A q : Traffic(p, q, h) = Backward(p, iset[p]) \cap Mine(q)
  <2>1. \A q : Traffic(p, q, h) = Backward(p, t % 2) \cap Mine(q)
    BY <1>7, LegAfter
  <2> QED BY <1>5, <2>1
<1>9. PICK part : part = [q \in Proc |-> Traffic(p, q, Out(p))]
  OBVIOUS
<1>10. chan' = Sent(p, part)
  <2>1. part = [q \in Proc |-> ReverseSites(p) \cap Mine(q)]
    BY <1>5, <1>7, <1>8, <1>9, CurrentSets
  <2> QED BY <2>1 DEF EndSector
<1>11. Causal' /\ InTransit'
  BY <1>1, <1>2, <1>6, <1>9, <1>10, SendsLeg
<1>12. GhostsCurrent'
  BY <1>1, <1>2, Fixed DEF GhostsCurrent, ForwardSites, ReverseSites
<1> QED BY <1>2, <1>4, <1>11, <1>12 DEF Protocol

(* Tally keeps the protocol.                                               *)
LEMMA TallyKeeps ==
    ASSUME Protocol, NEW p \in Proc, Tally(p)
    PROVE  Protocol'
<1>1. /\ Types /\ RunBounded /\ Causal /\ InTransit /\ GhostsCurrent
      /\ UNCHANGED <<layout, lat, events, pc, iset, sweep, done, chan, ndeposit>>
      /\ layout' = layout /\ nbatch' = [nbatch EXCEPT ![p] = @ + 1]
      /\ SumOver(nbatch, Proc) < StopBatch
  BY DEF Protocol, Tally
<1>2. IsFiniteSet(Proc) /\ StopBatch \in Nat
  BY <1>1, LatticeOf, HopAssumption DEF Types
<1>3. \A q \in Proc : nbatch[q] \in Nat /\ nbatch'[q] = IF q = p THEN nbatch[q] + 1 ELSE nbatch[q]
  BY <1>1, <1>2 DEF Types
<1>4. SumOver(nbatch', Proc) = SumOver(nbatch, Proc) + 1 /\ SumOver(nbatch, Proc) \in Nat
  <2>1. /\ SumOver(nbatch', Proc) = SumOver(nbatch, Proc) - nbatch[p] + nbatch'[p]
        /\ SumOver(nbatch, Proc) \in Nat
    BY <1>2, <1>3, SumChanged
  <2> QED BY <1>3, <2>1
<1>5. \A q \in Proc : nbatch'[q] <= SumOver(nbatch', Proc)
  BY <1>2, <1>3, SumBounds
<1>6. SumOver(nbatch', Proc) <= StopBatch
  BY <1>1, <1>2, <1>4
<1>7. nbatch' \in [Proc -> 0 .. StopBatch]
  <2>1. \A q \in Proc : nbatch'[q] \in 0 .. StopBatch
    BY <1>2, <1>3, <1>4, <1>5, <1>6
  <2>2. nbatch' = [q \in Proc |-> nbatch'[q]]
    BY <1>1 DEF Types
  <2> QED BY <2>1, <2>2
<1>8. Types'
  BY <1>1, <1>7, Fixed DEF Types, Atom
<1>9. RunBounded'
  BY <1>1, <1>6, Fixed DEF RunBounded
<1>10. \A q \in Proc : Round(q)' = Round(q) /\ In(q)' = In(q) /\ Out(q)' = Out(q)
  BY <1>1, CountsSame
<1>11. Causal'
  BY <1>1, <1>10, Fixed DEF Causal
<1>12. \A q, r : \A st : /\ q \in Proc /\ r \in Proc => (Carries(q, r, st)' <=> Carries(q, r, st))
                         /\ Current(q, r, st)' <=> Current(q, r, st)
  BY <1>1, <1>10, Fixed DEF Carries, Current, Atom
<1>13. InTransit'
  BY <1>1, <1>12, Fixed DEF InTransit
<1>14. GhostsCurrent'
  BY <1>1, Fixed DEF GhostsCurrent, ForwardSites, ReverseSites
<1> QED BY <1>8, <1>9, <1>11, <1>13, <1>14 DEF Protocol

(* What is unpacked for a site.                                            *)
LEMMA UnpackedOf ==
    ASSUME NEW p, NEW part, NEW i \in Site
    PROVE  /\ \A q \in Proc : i \in part[q] /\ (\A r \in Proc : i \in part[r] => r = q)
                 => Unpacked(p, part)[i] = Head(chan[q][p])[i]
           /\ (\A q \in Proc : i \notin part[q]) => Unpacked(p, part)[i] = lat[p][i]
<1>1. Unpacked(p, part)[i] =
        IF \E q \in Proc : i \in part[q]
        THEN Head(chan[CHOOSE q \in Proc : i \in part[q]][p])[i] ELSE lat[p][i]
  BY DEF Unpacked
<1>2. ASSUME NEW q \in Proc, i \in part[q], \A r \in Proc : i \in part[r] => r = q
      PROVE  (CHOOSE r \in Proc : i \in part[r]) = q
  BY <1>2
<1> QED BY <1>1, <1>2

(* Process p receives the ghosts of its sector as their owners have them.  *)
LEMMA AcquireGets ==
    ASSUME WideEnough, Protocol, NEW p \in Proc, Acquire(p)
    PROVE  /\ Arrived(p, [q \in Proc |-> Traffic(q, p, In(p))])
           /\ chan' = Taken(p, [q \in Proc |-> Traffic(q, p, In(p))])
           /\ lat' = [lat EXCEPT ![p] = lat'[p]] /\ lat'[p] \in [Site -> {Unknown, VACANT, OCCUPIED}]
           /\ \A j \in Site : lat'[p][j] =
                 IF j \in Forward(p, iset[p]) THEN lat[Owner[j]][j] ELSE lat[p][j]
           /\ \A j \in Forward(p, iset[p]) : lat'[p][j] \in Atom /\ 2 * Round(p) < Out(Owner[j])
<1> DEFINE part == [q \in Proc |-> Traffic(q, p, In(p))]
<1>1. /\ Types /\ RunBounded /\ Causal /\ InTransit /\ GhostsCurrent /\ layout \in Layouts
      /\ pc[p] = "acquire" /\ iset[p] \in Sectors
  BY CountsOf DEF Protocol, Acquire
<1>2. PICK t \in Nat : t = Round(p) /\ t % 2 = iset[p] /\ In(p) = 2 * t
  BY <1>1, CountsOf DEF In
<1>3. PICK h \in Nat : h = 2 * t /\ h = In(p) /\ h % 2 = 0
  <2>1. (2 * t) % 2 = 0 /\ 2 * t \in Nat
    OBVIOUS
  <2> QED BY <1>2, <2>1
<1>4. \A q : Traffic(q, p, h) = Forward(p, iset[p]) \cap Mine(q)
  <2>1. \A q : Traffic(q, p, h) = Forward(p, t % 2) \cap Mine(q)
    BY <1>3, LegBefore
  <2> QED BY <1>2, <2>1
<1>5. part = [q \in Proc |-> ForwardSites(p) \cap Mine(q)]
  BY <1>3, <1>4, CurrentSets
<1>6. Arrived(p, part) /\ chan' = Taken(p, part) /\ lat' = [lat EXCEPT ![p] = Unpacked(p, part)]
  BY <1>5 DEF Acquire
<1>7. \A q \in Proc : part[q] = Forward(p, iset[p]) \cap Mine(q)
  BY <1>5, CurrentSets
<1> HIDE DEF part
<1>8. lat'[p] = Unpacked(p, part)
  BY <1>1, <1>6 DEF Types
<1>9. ASSUME NEW j \in Forward(p, iset[p])
      PROVE  /\ lat'[p][j] = lat[Owner[j]][j] /\ lat'[p][j] \in Atom
             /\ 2 * Round(p) < Out(Owner[j])
  <2>1. j \in Site /\ Owner[j] # p /\ Owner[j] \in Proc
    BY <1>1, <1>9, ExchangedNear, LatticeOf
  <2>2. PICK o \in Proc : o = Owner[j]
    BY <2>1
  <2>3. \A q \in Proc : j \in part[q] <=> q = o
    BY <1>7, <1>9, <2>1, <2>2 DEF Mine
  <2>4. lat'[p][j] = Head(chan[o][p])[j]
    BY <1>8, <2>1, <2>3, UnpackedOf
  <2>5. j \in Traffic(o, p, h) /\ chan[o][p] # <<>>
    BY <1>4, <1>6, <1>7, <2>3 DEF Arrived
  <2>6. PICK st \in Seq(Nat) : Carries(o, p, st) /\ Current(o, p, st)
    BY <1>1 DEF InTransit
  <2>7. /\ In(p) < Out(o) /\ 1 \in 1 .. Len(st) /\ st[1] = In(p)
        /\ Head(chan[o][p]) = chan[o][p][1]
        /\ chan[o][p][1] \in [Traffic(o, p, In(p)) -> Atom]
    BY <1>1, <1>3, <2>5, <2>6, Oldest
  <2>8. chan[o][p][1][j] = lat[o][j]
    BY <1>3, <2>5, <2>6, <2>7 DEF Current
  <2>9. chan[o][p][1][j] \in Atom
    BY <1>3, <2>5, <2>7
  <2> QED BY <1>2, <2>2, <2>4, <2>7, <2>8, <2>9
<1>10. ASSUME NEW j \in Site, j \notin Forward(p, iset[p]) PROVE lat'[p][j] = lat[p][j]
  <2>1. \A q \in Proc : j \notin part[q]
    BY <1>7, <1>10
  <2> QED BY <1>8, <2>1, UnpackedOf
<1>11. lat'[p] \in [Site -> {Unknown, VACANT, OCCUPIED}]
  <2>1. \A j \in Site : lat'[p][j] \in {Unknown, VACANT, OCCUPIED}
    BY <1>1, <1>9, <1>10 DEF Types, Atom
  <2>2. lat'[p] = [j \in Site |-> lat'[p][j]]
    BY <1>8 DEF Unpacked
  <2> QED BY <2>1, <2>2
<1>12. lat' = [lat EXCEPT ![p] = lat'[p]]
  BY <1>6, <1>8
<1> QED BY <1>6, <1>9, <1>10, <1>11, <1>12 DEF part

(* Acquire keeps the protocol.                                             *)
LEMMA AcquireKeeps ==
    ASSUME WideEnough, Protocol, NEW p \in Proc, Acquire(p)
    PROVE  Protocol'
<1> DEFINE s == iset[p]
<1>1. /\ Types /\ RunBounded /\ Causal /\ InTransit /\ GhostsCurrent /\ layout \in Layouts
      /\ pc[p] = "acquire" /\ pc' = [pc EXCEPT ![p] = "events"] /\ s \in Sectors
      /\ UNCHANGED <<layout, iset, sweep, done, nbatch, ndeposit>> /\ layout' = layout
  BY CountsOf DEF Protocol, Acquire
<1>2. /\ RunBounded' /\ Proc' = Proc /\ pc'[p] = "events"
      /\ \A q \in Proc : /\ Round(q)' = Round(q)
                         /\ q # p => pc'[q] = pc[q] /\ In(q)' = In(q) /\ Out(q)' = Out(q)
      /\ pc' \in [Proc -> {"forward", "acquire", "events", "reverse", "update", "done"}]
  BY <1>1, MovesInSector
<1>3. /\ lat' = [lat EXCEPT ![p] = lat'[p]] /\ lat'[p] \in [Site -> {Unknown, VACANT, OCCUPIED}]
      /\ \A j \in Site : lat'[p][j] =
            IF j \in Forward(p, s) THEN lat[Owner[j]][j] ELSE lat[p][j]
      /\ \A j \in Forward(p, s) : lat'[p][j] \in Atom
  BY AcquireGets
<1>4. lat' \in [Proc -> [Site -> {Unknown, VACANT, OCCUPIED}]] /\ \A q \in Proc : q # p => lat'[q] = lat[q]
  BY <1>1, <1>3 DEF Types
<1>5. \A j \in Forward(p, s) : j \in Site /\ Owner[j] # p /\ j \in AllGhosts(p)
  BY <1>1, ExchangedNear
<1>6. ASSUME NEW q \in Proc, NEW j \in Site
      PROVE  lat'[q][j] \in IF j \in Mine(q) \cup AllGhosts(q) THEN Atom ELSE {Unknown}
  <2>1. lat[q][j] \in IF j \in Mine(q) \cup AllGhosts(q) THEN Atom ELSE {Unknown}
    BY <1>1 DEF Types
  <2>2. CASE q = p /\ j \in Forward(p, s)
    BY <1>3, <1>5, <2>2
  <2>3. CASE q # p \/ j \notin Forward(p, s)
    BY <1>3, <1>4, <2>1, <2>3
  <2> QED BY <2>2, <2>3
<1>7. Types'
  BY <1>1, <1>2, <1>4, <1>6, Fixed DEF Types, Atom
<1>8. PICK t \in Nat : t = Round(p) /\ Out(p) = 2 * t + 1 /\ In(p) = 2 * t
  BY <1>1, CountsOf DEF In, Out
<1>9. In(p)' = In(p) + 1 /\ Out(p)' = Out(p)
  BY <1>2, <1>8 DEF In, Out
(* What a process owns stays.                                              *)
<1>10. \A j \in Site : Owner[j] \in Proc /\ lat'[Owner[j]][j] = lat[Owner[j]][j]
  <2>1. SUFFICES ASSUME NEW j \in Site PROVE Owner[j] \in Proc /\ lat'[Owner[j]][j] = lat[Owner[j]][j]
    OBVIOUS
  <2>2. Owner[j] \in Proc
    BY <1>1, LatticeOf
  <2>3. CASE Owner[j] = p
    BY <1>3, <1>5, <2>1, <2>3
  <2>4. CASE Owner[j] # p
    BY <1>4, <2>2, <2>4
  <2> QED BY <2>2, <2>3, <2>4
<1>11. \A j : StillSent(p, j) => lat'[p][j] = lat[p][j]
  <2>1. SUFFICES ASSUME NEW r \in Proc, NEW h \in Nat, h % 2 = 0, NEW j \in Traffic(p, r, h)
                 PROVE  lat'[p][j] = lat[p][j]
    BY DEF StillSent
  <2>2. j \in Site /\ Owner[j] = p
    BY <1>1, <2>1, TrafficOf
  <2> QED BY <1>10, <2>2
<1>12. PICK part : part = [q \in Proc |-> Traffic(q, p, In(p))]
  OBVIOUS
<1>13. Arrived(p, part) /\ chan' = Taken(p, part)
  BY <1>12, AcquireGets
<1>14. Causal' /\ InTransit'
  <2>1. \A q \in Proc : Out(q)' = Out(q) /\ (q # p => In(q)' = In(q) /\ lat'[q] = lat[q])
    BY <1>2, <1>4, <1>9
  <2> QED BY <1>1, <1>9, <1>11, <1>12, <1>13, <2>1, TakesLeg
<1>15. GhostsCurrent'
  <2>1. SUFFICES ASSUME NEW q \in Proc, pc'[q] = "events",
                        NEW j \in Forward(q, iset[q]), j \notin Backward(q, iset[q])
                 PROVE  lat'[q][j] = lat'[Owner[j]][j]
    <3>1. \A q \in Proc : /\ ForwardSites(q)' = Forward(q, iset[q])
                          /\ ReverseSites(q)' = Backward(q, iset[q])
      BY <1>1, Fixed, CurrentSets DEF ForwardSites, ReverseSites
    <3> QED BY <2>1, <3>1, <1>1, Fixed DEF GhostsCurrent
  <2>2. iset[q] \in Sectors
    BY <1>1, CountsOf
  <2>3. j \in Site
    BY <1>1, <2>2, ExchangedNear
  <2>4. CASE q = p
    BY <1>3, <1>10, <2>1, <2>3, <2>4
  <2>5. CASE q # p
    <3>1. pc[q] = "events" /\ lat'[q] = lat[q]
      BY <1>2, <1>4, <2>1, <2>5
    <3>2. lat[q][j] = lat[Owner[j]][j]
      BY <1>1, <2>1, <3>1, CurrentSets DEF GhostsCurrent
    <3> QED BY <1>10, <2>3, <3>1, <3>2
  <2> QED BY <2>4, <2>5
<1> QED BY <1>2, <1>7, <1>14, <1>15 DEF Protocol

(* A sector with sites to send back was received: what has been sent for   *)
(* it before is under way only for sectors of the present round.           *)
LEMMA StillSentNow ==
    ASSUME WideEnough, Types, RunBounded, Causal, NEW p \in Proc, pc[p] \in {"events", "reverse"},
           NEW j, StillSent(p, j)
    PROVE  \E r \in Proc : /\ r # p /\ j \in Forward(r, iset[p]) /\ j \in Site /\ Owner[j] = p
                           /\ In(r) <= 2 * Round(p)
<1>1. PICK r \in Proc, h \in Nat :
         h % 2 = 0 /\ In(r) <= h /\ h < Out(p) /\ j \in Traffic(p, r, h)
  BY DEF StillSent
<1>2. layout \in Layouts /\ j \in Site /\ Owner[j] = p /\ r # p
  BY <1>1, TrafficOf DEF Types
<1>3. PICK t \in Nat : h = 2 * t
  BY <1>1, LegIs
<1>4. t % 2 \in Sectors /\ j \in Forward(r, t % 2)
  BY <1>1, <1>3, LegBefore
<1>5. PICK n \in Nat : n = Round(p) /\ n % 2 = iset[p] /\ In(p) = 2 * n + 1 /\ Out(p) <= 2 * n + 2
  BY CountsOf
<1>6. In(r) \in Nat
  BY CountsOf
<1>7. t = n
  <2>1. t <= n
    <3>1. Out(p) \in Nat
      BY CountsOf
    <3> QED BY <1>1, <1>3, <1>5, <3>1
  <2>2. ASSUME t < n PROVE FALSE
    <3>1. 2 * t + 1 < In(p)
      BY <1>5, <2>2
    <3>2. Traffic(p, r, 2 * t) # {}
      BY <1>1, <1>3
    <3>3. 2 * t < In(r)
      BY <3>1, <3>2, OldLegsTaken
    <3> QED BY <1>1, <1>3, <1>6, <3>3
  <2> QED BY <1>5, <2>1, <2>2
<1> QED BY <1>1, <1>2, <1>3, <1>4, <1>5, <1>7

(* An event changes nothing that is still under way to others.             *)
LEMMA HopAvoids ==
    ASSUME WideEnough, Types, RunBounded, Causal, NEW p \in Proc, pc[p] = "events",
           NEW i \in SetSites(p), NEW j \in Near(i)
    PROVE  ~ StillSent(p, j)
<1>1. layout \in Layouts /\ iset[p] \in Sectors /\ i \in SectorSet(p, iset[p])
  BY CurrentSets, CountsOf
<1>2. SUFFICES ASSUME NEW r \in Proc, r # p, j \in Forward(r, iset[p]) PROVE FALSE
  BY StillSentNow
<1> QED BY <1>1, <1>2, HopApart

(* Nor does what is sent back, once it has arrived.                        *)
LEMMA CollectAvoids ==
    ASSUME WideEnough, Types, RunBounded, Causal, NEW p \in Proc, pc[p] = "reverse",
           NEW q \in Proc, NEW j \in Backward(q, iset[p]), 2 * Round(p) + 1 < Out(q)
    PROVE  ~ StillSent(p, j)
<1>1. SUFFICES ASSUME NEW r \in Proc, r # p, j \in Forward(r, iset[p]), In(r) <= 2 * Round(p)
               PROVE  FALSE
  BY StillSentNow
<1>2. layout \in Layouts /\ iset[p] \in Sectors /\ Round(p) \in Nat
  BY CountsOf
<1>3. q = r
  BY <1>1, <1>2, ReverseApart
<1>4. /\ Round(q) \in Nat /\ In(q) \in {2 * Round(q), 2 * Round(q) + 1}
      /\ Out(q) \in {2 * Round(q), 2 * Round(q) + 1, 2 * Round(q) + 2}
      /\ (In(q) = 2 * Round(q) + 1 <=> pc[q] \in {"events", "reverse"})
      /\ (Out(q) = 2 * Round(q) + 2 <=> pc[q] = "reverse")
  BY CountsOf
<1> QED BY <1>1, <1>2, <1>3, <1>4

(* An event that takes an atom from i to j.                                *)
Moves(p, i, j) ==
    /\ pc[p] = "events" /\ i \in SetSites(p) /\ j \in Nbr[i]
    /\ lat' = [lat EXCEPT ![p] = Hopped(lat[p], i, j)]
    /\ done[p] < StopEvents /\ done' = [done EXCEPT ![p] = @ + 1]
    /\ UNCHANGED <<layout, pc, iset, sweep, chan, nbatch, ndeposit>>

(* A hop, however it is chosen, keeps the protocol.                        *)
LEMMA ChangesKeep ==
    ASSUME WideEnough, Protocol, NEW p \in Proc, NEW i, NEW j, Moves(p, i, j)
    PROVE  /\ Protocol' /\ layout' = layout
           /\ i \in Site /\ Owner[i] = p /\ j \in Site /\ j # i
           /\ i \in Near(i) /\ j \in Near(i)
           /\ \A q \in Proc : q # p => lat'[q] = lat[q]
           /\ lat'[p][i] = VACANT /\ lat'[p][j] = OCCUPIED
           /\ \A k \in Site : k # i /\ k # j => lat'[p][k] = lat[p][k]
           /\ j \in Mine(p) \/ j \in ReverseSites(p)
<1> DEFINE s == iset[p]
<1>0. /\ pc[p] = "events" /\ i \in SetSites(p) /\ j \in Nbr[i]
      /\ lat' = [lat EXCEPT ![p] = Hopped(lat[p], i, j)]
      /\ done[p] < StopEvents /\ done' = [done EXCEPT ![p] = @ + 1]
      /\ UNCHANGED <<layout, pc, iset, sweep, chan, nbatch, ndeposit>>
  BY DEF Moves
<1> USE <1>0
<1>1. /\ Types /\ RunBounded /\ Causal /\ InTransit /\ GhostsCurrent /\ layout \in Layouts
      /\ s \in Sectors /\ layout' = layout
      /\ UNCHANGED <<layout, pc, iset, sweep, chan, nbatch, ndeposit>>
  BY CountsOf DEF Protocol
<1>2. i \in SectorSet(p, s) /\ i \in Site /\ Owner[i] = p
  BY <1>1, CurrentSets, InSector
<1>3. j \in Site /\ j # i /\ i \in Near(i) /\ j \in Near(i)
  BY <1>1, <1>2, LatticeOf DEF Near
<1>4. j \in Mine(p) \/ j \in Backward(p, s)
  BY <1>1, <1>2, <1>3, ReverseOf DEF Mine
<1>5. j \in Mine(p) \cup AllGhosts(p) /\ i \in Mine(p)
  BY <1>1, <1>2, <1>4, ExchangedNear DEF Mine
<1>6. /\ lat' \in [Proc -> [Site -> {Unknown, VACANT, OCCUPIED}]]
      /\ \A q \in Proc : q # p => lat'[q] = lat[q]
      /\ lat'[p][i] = VACANT /\ lat'[p][j] = OCCUPIED
      /\ \A k \in Site : k # i /\ k # j => lat'[p][k] = lat[p][k]
  <2>1. lat[p] \in [Site -> {Unknown, VACANT, OCCUPIED}] /\ lat'[p] = Hopped(lat[p], i, j)
    BY <1>1 DEF Types
  <2>2. /\ lat'[p] \in [Site -> {Unknown, VACANT, OCCUPIED}]
        /\ lat'[p][i] = VACANT /\ lat'[p][j] = OCCUPIED
        /\ \A k \in Site : k # i /\ k # j => lat'[p][k] = lat[p][k]
    BY <1>2, <1>3, <2>1 DEF Hopped
  <2> QED BY <1>1, <2>2 DEF Types
<1>7. ASSUME NEW q \in Proc, NEW k \in Site
      PROVE  lat'[q][k] \in IF k \in Mine(q) \cup AllGhosts(q) THEN Atom ELSE {Unknown}
  <2>1. lat[q][k] \in IF k \in Mine(q) \cup AllGhosts(q) THEN Atom ELSE {Unknown}
    BY <1>1 DEF Types
  <2>2. CASE q = p /\ k \in {i, j}
    BY <1>5, <1>6, <2>2 DEF Atom
  <2>3. CASE q # p \/ k \notin {i, j}
    BY <1>6, <2>1, <2>3
  <2> QED BY <2>2, <2>3
<1>8. done' \in [Proc -> 0 .. StopEvents]
  BY <1>1, HopAssumption DEF Types
<1>9. Types'
  BY <1>1, <1>6, <1>7, <1>8, Fixed DEF Types, Atom
<1>10. RunBounded'
  BY <1>1, Fixed DEF RunBounded
<1>11. \A q \in Proc : Round(q)' = Round(q) /\ In(q)' = In(q) /\ Out(q)' = Out(q)
  BY <1>1, CountsSame
<1>12. Causal'
  BY <1>1, <1>11, Fixed DEF Causal
<1>13. \A q, r \in Proc : \A st : Carries(q, r, st)' <=> Carries(q, r, st)
  BY <1>1, <1>11, Fixed DEF Carries, Atom
<1>14. ~ StillSent(p, i) /\ ~ StillSent(p, j)
  BY <1>1, <1>3, HopAvoids
<1>15. ASSUME NEW q \in Proc, NEW r \in Proc, NEW st \in Seq(Nat), Carries(q, r, st), Current(q, r, st)
       PROVE  Current(q, r, st)'
  <2>1. SUFFICES ASSUME NEW a \in 1 .. Len(st), st[a] % 2 = 0, NEW k \in Traffic(q, r, st[a])
                 PROVE  chan[q][r][a][k] = lat'[q][k]
    BY <1>1, Fixed DEF Current
  <2>2. chan[q][r][a][k] = lat[q][k]
    BY <1>15, <2>1 DEF Current
  <2>3. st[a] \in Nat /\ In(r) <= st[a] /\ st[a] < Out(q)
    BY <1>15, CarriesOf
  <2>4. k \in Site
    BY <1>1, <2>1, <2>3, TrafficOf
  <2>5. q = p => StillSent(p, k)
    BY <2>1, <2>3 DEF StillSent
  <2> QED BY <1>6, <1>14, <2>2, <2>4, <2>5
<1>16. InTransit'
  <2>1. \A q, r \in Proc : \E st \in Seq(Nat) : Carries(q, r, st)' /\ Current(q, r, st)'
    BY <1>1, <1>13, <1>15 DEF InTransit
  <2> QED BY <1>1, <2>1, Fixed DEF InTransit
<1>17. GhostsCurrent'
  <2>1. SUFFICES ASSUME NEW q \in Proc, pc[q] = "events",
                        NEW k \in Forward(q, iset[q]), k \notin Backward(q, iset[q])
                 PROVE  lat'[q][k] = lat'[Owner[k]][k]
    <3>1. \A q \in Proc : /\ ForwardSites(q)' = Forward(q, iset[q])
                          /\ ReverseSites(q)' = Backward(q, iset[q])
      BY <1>1, Fixed, CurrentSets DEF ForwardSites, ReverseSites
    <3> QED BY <2>1, <3>1, <1>1, Fixed DEF GhostsCurrent
  <2>2. iset[q] \in Sectors /\ lat[q][k] = lat[Owner[k]][k]
    BY <1>1, <2>1, CurrentSets, CountsOf DEF GhostsCurrent
  <2>3. /\ k \in Site /\ Owner[k] \in Proc /\ Owner[k] # q
        /\ iset[Owner[k]] = iset[q]
    BY <1>1, <2>1, SameRound
  <2>4. CASE q = p
    <3>1. k # i /\ k # j
      BY <1>2, <1>4, <2>1, <2>3, <2>4 DEF Mine
    <3> QED BY <1>6, <2>2, <2>3, <2>4, <3>1
  <2>5. CASE q # p /\ Owner[k] = p
    <3>1. k \notin Near(i)
      BY <1>1, <1>2, <2>1, <2>3, <2>5, HopApart
    <3> QED BY <1>3, <1>6, <2>2, <2>3, <2>5, <3>1
  <2>6. CASE q # p /\ Owner[k] # p
    BY <1>6, <2>2, <2>3, <2>6
  <2> QED BY <2>4, <2>5, <2>6
<1>18. Protocol'
  BY <1>9, <1>10, <1>12, <1>16, <1>17 DEF Protocol
<1> QED BY <1>1, <1>2, <1>3, <1>4, <1>6, <1>18, CurrentSets

(* Process p receives, of its own sites, what others may have changed.     *)
LEMMA CollectGets ==
    ASSUME WideEnough, Protocol, NEW p \in Proc, Collect(p)
    PROVE  /\ Arrived(p, [q \in Proc |-> Traffic(q, p, In(p))])
           /\ chan' = Taken(p, [q \in Proc |-> Traffic(q, p, In(p))])
           /\ lat' = [lat EXCEPT ![p] = lat'[p]] /\ lat'[p] \in [Site -> {Unknown, VACANT, OCCUPIED}]
           /\ \A q \in Proc : \A j \in Backward(q, iset[p]) \cap Mine(p) :
                 /\ 2 * Round(p) + 1 < Out(q) /\ 1 \in DOMAIN chan[q][p]
                 /\ j \in DOMAIN chan[q][p][1]
                 /\ lat'[p][j] = chan[q][p][1][j] /\ lat'[p][j] \in Atom
           /\ \A j \in Site : j \notin Mine(p) \/ (\A q \in Proc : j \notin Backward(q, iset[p]))
                 => lat'[p][j] = lat[p][j]
<1> DEFINE part == [q \in Proc |-> Traffic(q, p, In(p))]
<1>1. /\ Types /\ RunBounded /\ Causal /\ InTransit /\ layout \in Layouts
      /\ pc[p] = "reverse" /\ iset[p] \in Sectors
  BY CountsOf DEF Protocol, Collect
<1>2. PICK t \in Nat : t = Round(p) /\ t % 2 = iset[p] /\ In(p) = 2 * t + 1
  BY <1>1, CountsOf DEF In
<1>3. PICK h \in Nat : h = 2 * t + 1 /\ h = In(p)
  <2>1. 2 * t + 1 \in Nat
    OBVIOUS
  <2> QED BY <1>2, <2>1
<1>4. \A q : Traffic(q, p, h) = Backward(q, iset[p]) \cap Mine(p)
  <2>1. \A q : Traffic(q, p, h) = Backward(q, t % 2) \cap Mine(p)
    BY <1>3, LegAfter
  <2> QED BY <1>2, <2>1
<1>5. part = [q \in Proc |-> Geometry[layout].reverse[q][iset[p]] \cap Mine(p)]
  BY <1>3, <1>4 DEF Backward
<1>6. Arrived(p, part) /\ chan' = Taken(p, part) /\ lat' = [lat EXCEPT ![p] = Unpacked(p, part)]
  BY <1>5 DEF Collect
<1>7. \A q \in Proc : part[q] = Backward(q, iset[p]) \cap Mine(p)
  BY <1>5 DEF Backward
<1> HIDE DEF part
<1>8. lat'[p] = Unpacked(p, part)
  BY <1>1, <1>6 DEF Types
<1>9. ASSUME NEW q \in Proc, NEW j \in Backward(q, iset[p]) \cap Mine(p)
      PROVE  /\ 2 * Round(p) + 1 < Out(q) /\ 1 \in DOMAIN chan[q][p]
             /\ j \in DOMAIN chan[q][p][1]
             /\ lat'[p][j] = chan[q][p][1][j] /\ lat'[p][j] \in Atom
  <2>1. j \in Site /\ j \in part[q]
    BY <1>7, <1>9 DEF Mine
  <2>2. ASSUME NEW r \in Proc, j \in part[r] PROVE r = q
    BY <1>1, <1>7, <1>9, <2>2, ReverseApart
  <2>3. lat'[p][j] = Head(chan[q][p])[j]
    BY <1>8, <2>1, <2>2, UnpackedOf
  <2>4. j \in Traffic(q, p, h) /\ chan[q][p] # <<>>
    BY <1>4, <1>6, <1>7, <2>1 DEF Arrived
  <2>5. PICK st \in Seq(Nat) : Carries(q, p, st)
    BY <1>1 DEF InTransit
  <2>6. /\ In(p) < Out(q) /\ 1 \in DOMAIN chan[q][p]
        /\ Head(chan[q][p]) = chan[q][p][1]
        /\ chan[q][p][1] \in [Traffic(q, p, In(p)) -> Atom]
    BY <1>1, <1>3, <2>4, <2>5, Oldest
  <2>7. j \in DOMAIN chan[q][p][1] /\ chan[q][p][1][j] \in Atom
    BY <1>3, <2>4, <2>6
  <2> QED BY <1>2, <2>3, <2>6, <2>7
<1>10. ASSUME NEW j \in Site, j \notin Mine(p) \/ \A q \in Proc : j \notin Backward(q, iset[p])
       PROVE  lat'[p][j] = lat[p][j]
  <2>1. \A q \in Proc : j \notin part[q]
    BY <1>7, <1>10
  <2> QED BY <1>8, <2>1, UnpackedOf
<1>11. lat'[p] \in [Site -> {Unknown, VACANT, OCCUPIED}]
  <2>1. ASSUME NEW j \in Site PROVE lat'[p][j] \in {Unknown, VACANT, OCCUPIED}
    <3>1. CASE \E q \in Proc : j \in Backward(q, iset[p]) \cap Mine(p)
      BY <1>9, <3>1 DEF Atom
    <3>2. CASE ~ \E q \in Proc : j \in Backward(q, iset[p]) \cap Mine(p)
      <4>1. lat'[p][j] = lat[p][j]
        BY <1>10, <3>2
      <4> QED BY <1>1, <4>1 DEF Types
    <3> QED BY <3>1, <3>2
  <2>2. lat'[p] = [j \in Site |-> lat'[p][j]]
    BY <1>8 DEF Unpacked
  <2> QED BY <2>1, <2>2
<1>12. lat' = [lat EXCEPT ![p] = lat'[p]]
  BY <1>6, <1>8
<1> QED BY <1>6, <1>9, <1>10, <1>11, <1>12 DEF part

(* Where p goes on.                                                        *)
LEMMA CollectMoves ==
    ASSUME WideEnough, Types, RunBounded, NEW p \in Proc, Collect(p)
    PROVE  /\ layout' = layout /\ Proc' = Proc /\ pc[p] = "reverse"
           /\ pc'[p] \in {"forward", "update", "done"}
           /\ pc' \in [Proc -> {"forward", "acquire", "events", "reverse", "update", "done"}]
           /\ iset' \in [Proc -> Sectors] /\ sweep' \in [Proc -> 1 .. layout.sweeps]
           /\ In(p)' = In(p) + 1 /\ Out(p)' = Out(p)
           /\ \A q \in Proc : q # p => /\ pc'[q] = pc[q] /\ iset'[q] = iset[q]
                                       /\ sweep'[q] = sweep[q]
                                       /\ In(q)' = In(q) /\ Out(q)' = Out(q)
           /\ RunBounded'
<1> DEFINE x == IF iset[p] # 1 THEN "forward" ELSE IF layout.kmc THEN "update" ELSE NextSweep(p)
<1>1. /\ layout' = layout /\ pc[p] = "reverse" /\ layout \in Layouts
      /\ pc' = [pc EXCEPT ![p] = x] /\ iset' = [iset EXCEPT ![p] = 1 - @]
      /\ UNCHANGED <<nbatch, ndeposit>>
  <2>1. pc' = [pc EXCEPT ![p] = IF ~ (iset[p] = 1) THEN "forward"
                                ELSE IF layout.kmc THEN "update" ELSE NextSweep(p)]
    BY DEF Collect
  <2> QED BY <2>1 DEF Collect, Types
<1>2. iset[p] \in {0, 1} /\ sweep[p] \in 1 .. layout.sweeps /\ layout.sweeps \in Nat \ {0}
  BY <1>1, LayoutOf DEF Types, Sectors
<1>3. x \in {"forward", "update", "done"}
  BY DEF NextSweep
<1>4. pc'[p] = x /\ \A q \in Proc : q # p => pc'[q] = pc[q]
  BY <1>1 DEF Types
<1>5. iset'[p] = 1 - iset[p] /\ \A q \in Proc : q # p => iset'[q] = iset[q]
  BY <1>1 DEF Types
<1>6. sweep' = IF iset[p] = 1 /\ ~ layout.kmc /\ x = "forward"
               THEN [sweep EXCEPT ![p] = @ + 1] ELSE sweep
  <2>1. sweep' = IF iset[p] = 1 /\ ~ layout.kmc /\ pc'[p] = "forward"
                 THEN [sweep EXCEPT ![p] = @ + 1] ELSE sweep
    BY DEF Collect
  <2> QED BY <1>4, <2>1
<1>7. /\ sweep'[p] = IF iset[p] = 1 /\ ~ layout.kmc /\ x = "forward" THEN sweep[p] + 1 ELSE sweep[p]
      /\ \A q \in Proc : q # p => sweep'[q] = sweep[q]
  BY <1>6 DEF Types
<1>8. x = "forward" /\ iset[p] = 1 => sweep[p] # layout.sweeps
  BY DEF NextSweep
<1>9. sweep' \in [Proc -> 1 .. layout.sweeps]
  <2>1. sweep'[p] \in 1 .. layout.sweeps
    BY <1>2, <1>7, <1>8
  <2> QED BY <1>6, <1>7, <2>1 DEF Types
<1>10. iset' \in [Proc -> Sectors]
  BY <1>1, <1>2 DEF Types, Sectors
<1>11. pc' \in [Proc -> {"forward", "acquire", "events", "reverse", "update", "done"}]
  BY <1>1, <1>3 DEF Types
<1>12. Round(p)' = Round(p) + 1
  <2>1. Round(p) = 2 * (sweep[p] - 1) + iset[p]
    BY <1>1 DEF Round
  <2>2. Round(p)' = IF x \in {"update", "done"} THEN 2 * sweep'[p]
                    ELSE 2 * (sweep'[p] - 1) + iset'[p]
    BY <1>4 DEF Round
  <2>3. CASE iset[p] = 0
    BY <1>2, <1>5, <1>7, <2>1, <2>2, <2>3
  <2>4. CASE iset[p] = 1 /\ x \in {"update", "done"}
    BY <1>2, <1>7, <2>1, <2>2, <2>4
  <2>5. CASE iset[p] = 1 /\ x = "forward"
    <3>1. ~ layout.kmc
      BY <2>5
    <3>2. sweep'[p] = sweep[p] + 1 /\ iset'[p] = 0
      BY <1>2, <1>5, <1>7, <2>5, <3>1
    <3>3. Round(p)' = 2 * (sweep'[p] - 1) + iset'[p]
      BY <2>2, <2>5
    <3> QED BY <1>2, <2>1, <2>5, <3>2, <3>3
  <2> QED BY <1>2, <1>3, <2>3, <2>4, <2>5
<1> HIDE DEF x
<1>13. Round(p) \in Nat /\ In(p) = 2 * Round(p) + 1 /\ Out(p) = 2 * Round(p) + 2
  BY <1>1, CountsOf DEF In, Out
<1>14. In(p)' = 2 * Round(p)' /\ Out(p)' = 2 * Round(p)'
  BY <1>3, <1>4 DEF In, Out
<1>15. In(p)' = In(p) + 1 /\ Out(p)' = Out(p)
  BY <1>12, <1>13, <1>14
<1>16. \A q \in Proc : q # p => In(q)' = In(q) /\ Out(q)' = Out(q)
  BY <1>4, <1>5, <1>7, CountsSame
<1>17. RunBounded'
  <2>1. ASSUME NEW q \in Proc
        PROVE  /\ pc'[q] = "update" => iset'[q] = 0 /\ layout.kmc
               /\ pc'[q] = "done" => iset'[q] = 0 /\ sweep'[q] = layout.sweeps
    <3>1. CASE q # p
      BY <1>4, <1>5, <1>7, <3>1 DEF RunBounded
    <3>2. CASE q = p
      <4>1. CASE iset[p] # 1
        BY <1>4, <3>2, <4>1 DEF x
      <4>2. CASE iset[p] = 1
        BY <1>4, <1>5, <1>7, <3>2, <4>2 DEF x, NextSweep
      <4> QED BY <4>1, <4>2
    <3> QED BY <3>1, <3>2
  <2>2. ASSUME layout.kmc PROVE sweep' = sweep /\ \A q \in Proc : pc[q] # "done" /\ pc'[q] # "done"
    <3>1. \A q \in Proc : pc[q] # "done"
      BY <1>1, <2>2 DEF RunBounded
    <3>2. x # "done"
      BY <2>2 DEF x
    <3> QED BY <1>4, <1>6, <2>2, <3>1, <3>2
  <2>3. ASSUME layout.kmc, NEW q \in Proc, NEW r \in Proc
        PROVE  /\ sweep'[q] = sweep'[r]
               /\ pc'[q] = "done" => pc'[r] = "done"
               /\ ndeposit <= StopBatch * (IF pc'[q] = "done" THEN sweep'[q] ELSE sweep'[q] - 1)
    <3>1. pc[q] # "done" /\ pc'[q] # "done" /\ sweep' = sweep
      BY <2>2, <2>3
    <3>2. /\ sweep[q] = sweep[r]
          /\ ndeposit <= StopBatch * (IF pc[q] = "done" THEN sweep[q] ELSE sweep[q] - 1)
      BY <2>3 DEF RunBounded
    <3> QED BY <3>1, <3>2
  <2>4. SumOver(nbatch, Proc) <= StopBatch /\ (~ layout.kmc => ndeposit = 0)
    BY DEF RunBounded
  <2> QED BY <1>1, <2>1, <2>3, <2>4, Fixed DEF RunBounded
<1> QED BY <1>1, <1>3, <1>4, <1>5, <1>7, <1>9, <1>10, <1>11, <1>15, <1>16, <1>17, Fixed

(* Collect keeps the protocol.                                             *)
LEMMA CollectKeeps ==
    ASSUME WideEnough, Protocol, NEW p \in Proc, Collect(p)
    PROVE  Protocol'
<1> DEFINE s == iset[p]
           Mail(j) == j \in Mine(p) /\ \E q \in Proc : j \in Backward(q, s)
<1>1. /\ Types /\ RunBounded /\ Causal /\ InTransit /\ GhostsCurrent /\ layout \in Layouts
      /\ UNCHANGED <<layout, done, nbatch, ndeposit>> /\ s \in Sectors
  BY CountsOf DEF Protocol, Collect
<1>2. /\ layout' = layout /\ Proc' = Proc /\ pc[p] = "reverse"
      /\ pc'[p] \in {"forward", "update", "done"}
      /\ pc' \in [Proc -> {"forward", "acquire", "events", "reverse", "update", "done"}]
      /\ iset' \in [Proc -> Sectors] /\ sweep' \in [Proc -> 1 .. layout.sweeps]
      /\ In(p)' = In(p) + 1 /\ Out(p)' = Out(p)
      /\ \A q \in Proc : q # p => /\ pc'[q] = pc[q] /\ iset'[q] = iset[q]
                                  /\ sweep'[q] = sweep[q]
                                  /\ In(q)' = In(q) /\ Out(q)' = Out(q)
      /\ RunBounded'
  BY <1>1, CollectMoves
<1>3. /\ lat' = [lat EXCEPT ![p] = lat'[p]] /\ lat'[p] \in [Site -> {Unknown, VACANT, OCCUPIED}]
      /\ \A j : Mail(j) => lat'[p][j] \in Atom
      /\ \A q \in Proc : \A j \in Backward(q, s) \cap Mine(p) : 2 * Round(p) + 1 < Out(q)
      /\ \A j \in Site : ~ Mail(j) => lat'[p][j] = lat[p][j]
  BY CollectGets
<1>4. lat' \in [Proc -> [Site -> {Unknown, VACANT, OCCUPIED}]] /\ \A q \in Proc : q # p => lat'[q] = lat[q]
  BY <1>1, <1>3 DEF Types
<1>5. ASSUME NEW q \in Proc, NEW j \in Site
      PROVE  lat'[q][j] \in IF j \in Mine(q) \cup AllGhosts(q) THEN Atom ELSE {Unknown}
  <2>1. lat[q][j] \in IF j \in Mine(q) \cup AllGhosts(q) THEN Atom ELSE {Unknown}
    BY <1>1 DEF Types
  <2>2. CASE q = p /\ Mail(j)
    BY <1>3, <2>2
  <2>3. CASE q # p \/ ~ Mail(j)
    BY <1>3, <1>4, <2>1, <2>3
  <2> QED BY <2>2, <2>3
<1>6. Types'
  BY <1>1, <1>2, <1>4, <1>5, Fixed DEF Types, Atom
<1>7. \A j : StillSent(p, j) => lat'[p][j] = lat[p][j]
  <2>1. SUFFICES ASSUME NEW j, StillSent(p, j) PROVE lat'[p][j] = lat[p][j]
    OBVIOUS
  <2>2. j \in Site
    BY <1>1, <1>2, <2>1, StillSentNow
  <2>3. ~ Mail(j)
    BY <1>1, <1>2, <1>3, <2>1, CollectAvoids
  <2> QED BY <1>3, <2>2, <2>3
<1>8. PICK part : part = [q \in Proc |-> Traffic(q, p, In(p))]
  OBVIOUS
<1>9. Arrived(p, part) /\ chan' = Taken(p, part)
  BY <1>8, CollectGets
<1>10. Causal' /\ InTransit'
  <2>1. \A q \in Proc : Out(q)' = Out(q) /\ (q # p => In(q)' = In(q) /\ lat'[q] = lat[q])
    BY <1>2, <1>4
  <2> QED BY <1>1, <1>2, <1>7, <1>8, <1>9, <2>1, TakesLeg
<1>11. GhostsCurrent'
  <2>1. SUFFICES ASSUME NEW q \in Proc, pc'[q] = "events",
                        NEW j \in ForwardSites(q)', j \notin ReverseSites(q)'
                 PROVE  lat'[q][j] = lat'[Owner[j]][j]
    BY <1>1, Fixed DEF GhostsCurrent
  <2>2. q # p /\ pc[q] = "events" /\ iset'[q] = iset[q]
    BY <1>2, <2>1
  <2>3. j \in Forward(q, iset[q]) /\ j \notin Backward(q, iset[q])
    BY <1>1, <2>1, <2>2, Fixed, CurrentSets DEF ForwardSites, ReverseSites, Forward, Backward
  <2>4. lat[q][j] = lat[Owner[j]][j]
    BY <1>1, <2>2, <2>3, CurrentSets DEF GhostsCurrent
  <2>5. j \in Site /\ Owner[j] \in Proc /\ iset[Owner[j]] = iset[q]
    BY <1>1, <2>2, <2>3, SameRound
  <2>6. CASE Owner[j] = p
    <3>1. ASSUME NEW r \in Proc, j \in Backward(r, s) PROVE FALSE
      <4>1. r # q
        BY <2>3, <2>5, <2>6, <3>1
      <4> QED BY <1>1, <2>3, <2>5, <2>6, <3>1, <4>1, ReverseApart
    <3>2. lat'[p][j] = lat[p][j]
      BY <1>3, <2>5, <3>1
    <3> QED BY <1>4, <2>2, <2>4, <2>6, <3>2
  <2>7. CASE Owner[j] # p
    BY <1>4, <2>2, <2>4, <2>5, <2>7
  <2> QED BY <2>6, <2>7
<1> QED BY <1>2, <1>6, <1>10, <1>11 DEF Protocol

(* At the start everything is received and nothing is under way.           *)
LEMMA InitProtocol ==
    ASSUME Init
    PROVE  Protocol
<1>1. /\ layout \in Layouts
      /\ pc = [p \in Proc |-> "forward"] /\ iset = [p \in Proc |-> 0]
      /\ sweep = [p \in Proc |-> 1] /\ done = [p \in Proc |-> 0]
      /\ chan = [q \in Proc |-> [p \in Proc |-> <<>>]]
      /\ nbatch = [p \in Proc |-> 0] /\ ndeposit = 0
  BY DEF Init
<1>2. PICK atoms : lat = [p \in Proc |-> [i \in Site |->
                     IF i \in Mine(p) \cup AllGhosts(p) THEN Value(layout, atoms)[i] ELSE Unknown]]
  BY DEF Init
<1>3. \A i \in Site : Value(layout, atoms)[i] \in Atom
  BY <1>1, GeometryOf DEF Value, Atom
<1>4. /\ layout.sweeps \in Nat \ {0} /\ StopEvents \in Nat \ {0} /\ StopBatch \in Nat
      /\ IsFiniteSet(Proc)
  BY <1>1, LayoutOf, LatticeOf, HopAssumption
<1>5. Types
  <2>1. lat \in [Proc -> [Site -> {Unknown, VACANT, OCCUPIED}]]
    BY <1>2, <1>3 DEF Atom
  <2>2. \A p \in Proc : \A i \in Site :
           lat[p][i] \in IF i \in Mine(p) \cup AllGhosts(p) THEN Atom ELSE {Unknown}
    BY <1>2, <1>3
  <2>3. /\ iset \in [Proc -> Sectors] /\ sweep \in [Proc -> 1 .. layout.sweeps]
        /\ done \in [Proc -> 0 .. StopEvents] /\ nbatch \in [Proc -> 0 .. StopBatch]
        /\ ndeposit \in Nat
    BY <1>1, <1>4 DEF Sectors
  <2>4. pc \in [Proc -> {"forward", "acquire", "events", "reverse", "update", "done"}]
    BY <1>1
  <2> QED BY <1>1, <2>1, <2>2, <2>3, <2>4 DEF Types
<1>6. RunBounded
  <2>1. \A p \in Proc : nbatch[p] = 0 /\ nbatch[p] \in Nat
    BY <1>1
  <2>2. SumOver(nbatch, Proc) = 0
    BY <1>4, <2>1, SumBounds
  <2>3. \A p \in Proc : pc[p] = "forward" /\ sweep[p] = 1
    BY <1>1
  <2>4. StopBatch * 0 = 0 /\ 1 - 1 = 0 /\ 0 <= 0 /\ 0 <= StopBatch
    BY <1>4
  <2> QED BY <1>1, <2>2, <2>3, <2>4 DEF RunBounded
<1>7. \A p \in Proc : In(p) = 0 /\ Out(p) = 0
  <2>1. \A p \in Proc : Round(p) = 2 * (1 - 1) + 0
    BY <1>1 DEF Round
  <2> QED BY <1>1, <2>1 DEF In, Out
<1>8. Causal
  BY <1>7 DEF Causal
<1>9. InTransit
  <2>1. PICK st \in Seq(Nat) : st = <<>> /\ Len(st) = 0
    <3>1. <<>> \in Seq(Nat) /\ Len(<<>>) = 0
      OBVIOUS
    <3> QED BY <3>1
  <2>2. ASSUME NEW q \in Proc, NEW p \in Proc PROVE Carries(q, p, st) /\ Current(q, p, st)
    <3>1. chan[q][p] = <<>> /\ 1 .. Len(st) = {}
      BY <1>1, <2>1
    <3>2. Holds(<<>>, st, 0, 0, TrafficTo(q, p), Atom)
      BY <2>1, <3>1 DEF Holds
    <3> QED BY <1>7, <3>1, <3>2 DEF Carries, Current
  <2>3. <<>> \in Seq(Messages)
    OBVIOUS
  <2> QED BY <1>1, <2>2, <2>3 DEF InTransit
<1>10. GhostsCurrent
  BY <1>1 DEF GhostsCurrent
<1> QED BY <1>5, <1>6, <1>8, <1>9, <1>10 DEF Protocol

-----------------------------------------------------------------------------
(* Depositions.                                                            *)

(* What is put down where, and whose events are listed anew.               *)
Hits(path) == {n \in DOMAIN path : Merged(path[n]).site # Nowhere}
Put(path) == {Merged(path[n]).site : n \in Hits(path)}
After(path) == [i \in Site |-> IF i \in Put(path) THEN OCCUPIED ELSE lat[Owner[i]][i]]
Stale(path) ==
    {i \in Site :
        \/ i \in Border(Owner[i], SectorOf[i])
        \/ \E m \in Put(path) : /\ Owner[m] = Owner[i] /\ SectorOf[m] = SectorOf[i]
                                /\ i \in Within(Nbr, {m}, Site, 2)}

(* An update, with what it changes named.                                  *)
LEMMA UpdateIs ==
    ASSUME AppUpdate
    PROVE  \E path \in [1 .. SumOver(nbatch, Proc) -> Paths(layout)] :
              /\ lat' = [p \in Proc |-> [i \in Site |->
                    IF i \in Mine(p) \cup AllGhosts(p) THEN After(path)[i] ELSE lat[p][i]]]
              /\ events' = Refreshed(events, Stale(path), After(path))
              /\ ndeposit' = ndeposit + Cardinality(Hits(path))
<1>1. PICK path \in [1 .. SumOver(nbatch, Proc) -> Paths(layout)] :
         LET found == [n \in DOMAIN path |-> Merged(path[n])]
             hits  == {n \in DOMAIN path : found[n].site # Nowhere}
             atoms == {found[n].site : n \in hits}
             l     == [i \in Site |-> IF i \in atoms THEN OCCUPIED ELSE lat[Owner[i]][i]]
             stale == {i \in Site :
                         \/ i \in Border(Owner[i], SectorOf[i])
                         \/ \E m \in atoms : /\ Owner[m] = Owner[i] /\ SectorOf[m] = SectorOf[i]
                                              /\ i \in Within(Nbr, {m}, Site, 2)}
         IN  /\ lat' = [p \in Proc |-> [i \in Site |->
                           IF i \in Mine(p) \cup AllGhosts(p) THEN l[i] ELSE lat[p][i]]]
             /\ events' = Refreshed(events, stale, l)
             /\ ndeposit' = ndeposit + Cardinality(hits)
  BY DEF AppUpdate
<1> DEFINE found == [n \in DOMAIN path |-> Merged(path[n])]
           hits  == {n \in DOMAIN path : found[n].site # Nowhere}
           atoms == {found[n].site : n \in hits}
           l     == [i \in Site |-> IF i \in atoms THEN OCCUPIED ELSE lat[Owner[i]][i]]
<1>2. hits = Hits(path)
  BY DEF Hits
<1>3. atoms = Put(path)
  <2>1. \A n \in hits : found[n].site = Merged(path[n]).site
    OBVIOUS
  <2> QED BY <1>2, <2>1 DEF Put
<1>4. l = After(path)
  <2> HIDE DEF atoms
  <2> QED BY <1>3 DEF After
<1> HIDE DEF l, atoms, hits, found
<1>5. /\ lat' = [p \in Proc |-> [i \in Site |->
                    IF i \in Mine(p) \cup AllGhosts(p) THEN l[i] ELSE lat[p][i]]]
      /\ ndeposit' = ndeposit + Cardinality(hits)
      /\ events' = Refreshed(events, {i \in Site :
             \/ i \in Border(Owner[i], SectorOf[i])
             \/ \E m \in atoms : /\ Owner[m] = Owner[i] /\ SectorOf[m] = SectorOf[i]
                                  /\ i \in Within(Nbr, {m}, Site, 2)}, l)
  BY <1>1 DEF l, atoms, hits, found
<1> QED BY <1>2, <1>3, <1>4, <1>5 DEF Stale

(* At a deposition nothing is under way.                                   *)
LEMMA UpdateQuiet ==
    ASSUME WideEnough, Protocol, AppUpdate
    PROVE  /\ layout \in Layouts /\ layout.kmc
           /\ \A p \in Proc : iset[p] = 0 /\ pc[p] = "update" /\ sweep[p] = sweep[0]
           /\ \A q, p \in Proc : chan[q][p] = <<>> /\ \A st \in Seq(Nat) : Carries(q, p, st) => Len(st) = 0
           /\ \A p \in Proc : In(p) = 4 * sweep[0] /\ Out(p) = 4 * sweep[0]
<1>1. /\ Types /\ RunBounded /\ InTransit /\ layout \in Layouts /\ 0 \in Proc
      /\ \A p \in Proc : pc[p] = "update"
  BY LatticeOf DEF Protocol, Types, AppUpdate
<1>2. layout.kmc /\ \A p \in Proc : iset[p] = 0 /\ sweep[p] = sweep[0] /\ sweep[p] \in Nat
  BY <1>1, LayoutOf DEF RunBounded, Types
<1>3. \A p \in Proc : In(p) = 4 * sweep[0] /\ Out(p) = 4 * sweep[0]
  <2>1. SUFFICES ASSUME NEW p \in Proc PROVE In(p) = 4 * sweep[0] /\ Out(p) = 4 * sweep[0]
    OBVIOUS
  <2>2. In(p) = 2 * (2 * sweep[p]) /\ Out(p) = 2 * (2 * sweep[p])
    BY <1>1 DEF In, Out, Round
  <2> QED BY <1>2, <2>2
<1>4. ASSUME NEW q \in Proc, NEW p \in Proc, NEW st \in Seq(Nat), Carries(q, p, st) PROVE Len(st) = 0
  <2>1. \A a \in 1 .. Len(st) : st[a] \in Nat /\ In(p) <= st[a] /\ st[a] < Out(q)
    BY <1>4, CarriesOf
  <2>2. \A a \in 1 .. Len(st) : FALSE
    BY <1>1, <1>2, <1>3, <2>1
  <2> QED BY <2>2
<1>5. ASSUME NEW q \in Proc, NEW p \in Proc PROVE chan[q][p] = <<>>
  <2>1. PICK st \in Seq(Nat) : Carries(q, p, st)
    BY <1>1 DEF InTransit
  <2>2. Len(chan[q][p]) = 0 /\ chan[q][p] \in Seq(Messages)
    BY <1>1, <1>4, <2>1, CarriesOf DEF InTransit
  <2> QED BY <2>2
<1> QED BY <1>1, <1>2, <1>3, <1>4, <1>5

(* AppUpdate keeps the protocol.                                           *)
LEMMA AppUpdateKeeps ==
    ASSUME WideEnough, Protocol, AppUpdate
    PROVE  Protocol'
<1>1. /\ Types /\ RunBounded /\ Causal /\ InTransit /\ layout \in Layouts
      /\ layout' = layout /\ UNCHANGED <<layout, iset, done, chan>>
      /\ nbatch' = [p \in Proc |-> 0] /\ pc' = [p \in Proc |-> NextSweep(p)]
      /\ sweep' = [p \in Proc |-> IF NextSweep(p) = "done" THEN sweep[p] ELSE sweep[p] + 1]
  BY UpdateQuiet DEF Protocol, AppUpdate
<1>2. /\ layout.kmc /\ \A p \in Proc : iset[p] = 0 /\ pc[p] = "update" /\ sweep[p] = sweep[0]
      /\ \A q, p \in Proc : chan[q][p] = <<>> /\ \A st \in Seq(Nat) : Carries(q, p, st) => Len(st) = 0
      /\ \A p \in Proc : In(p) = 4 * sweep[0] /\ Out(p) = 4 * sweep[0]
  BY UpdateQuiet
<1>3. PICK path \in [1 .. SumOver(nbatch, Proc) -> Paths(layout)] :
         /\ lat' = [p \in Proc |-> [i \in Site |->
               IF i \in Mine(p) \cup AllGhosts(p) THEN After(path)[i] ELSE lat[p][i]]]
         /\ ndeposit' = ndeposit + Cardinality(Hits(path))
  BY UpdateIs
<1>4. /\ 0 \in Proc /\ IsFiniteSet(Proc) /\ StopBatch \in Nat
      /\ layout.sweeps \in Nat \ {0} /\ sweep[0] \in 1 .. layout.sweeps
  BY <1>1, LatticeOf, LayoutOf, HopAssumption DEF Types
<1>5. \A i \in Site : After(path)[i] \in Atom
  <2>1. SUFFICES ASSUME NEW i \in Site PROVE After(path)[i] \in Atom
    OBVIOUS
  <2>2. Owner[i] \in Proc /\ i \in Mine(Owner[i])
    BY <1>1, LatticeOf DEF Mine
  <2>3. lat[Owner[i]][i] \in Atom
    BY <1>1, <2>2 DEF Types
  <2> QED BY <2>3 DEF After, Atom
<1>6. /\ lat' \in [Proc -> [Site -> {Unknown, VACANT, OCCUPIED}]]
      /\ \A p \in Proc : \A i \in Site :
            lat'[p][i] \in IF i \in Mine(p) \cup AllGhosts(p) THEN Atom ELSE {Unknown}
  <2>1. ASSUME NEW p \in Proc, NEW i \in Site
        PROVE  lat'[p][i] \in IF i \in Mine(p) \cup AllGhosts(p) THEN Atom ELSE {Unknown}
    <3>1. lat'[p][i] = IF i \in Mine(p) \cup AllGhosts(p) THEN After(path)[i] ELSE lat[p][i]
      BY <1>3
    <3>2. lat[p][i] \in IF i \in Mine(p) \cup AllGhosts(p) THEN Atom ELSE {Unknown}
      BY <1>1 DEF Types
    <3> QED BY <1>5, <3>1, <3>2
  <2>2. \A p \in Proc : \A i \in Site : lat'[p][i] \in {Unknown, VACANT, OCCUPIED}
    BY <2>1 DEF Atom
  <2>3. lat' = [p \in Proc |-> [i \in Site |-> lat'[p][i]]]
    BY <1>3
  <2> QED BY <2>1, <2>2, <2>3
<1>7. \A p \in Proc : NextSweep(p) = IF sweep[0] = layout.sweeps THEN "done" ELSE "forward"
  BY <1>2 DEF NextSweep
<1>8. \A p \in Proc : /\ pc'[p] = IF sweep[0] = layout.sweeps THEN "done" ELSE "forward"
                      /\ sweep'[p] = IF sweep[0] = layout.sweeps THEN sweep[0] ELSE sweep[0] + 1
                      /\ nbatch'[p] = 0
  BY <1>1, <1>2, <1>7
<1>9. Cardinality(Hits(path)) \in Nat /\ Cardinality(Hits(path)) <= StopBatch
  <2>1. \A p \in Proc : nbatch[p] \in Nat
    BY <1>1, <1>4 DEF Types
  <2>2. PICK n \in Nat : n = SumOver(nbatch, Proc) /\ n <= StopBatch
    BY <1>1, <1>4, <2>1, SumBounds DEF RunBounded
  <2>3. Hits(path) \subseteq 1 .. n
    BY <2>2 DEF Hits
  <2>4. IsFiniteSet(1 .. n) /\ Cardinality(1 .. n) = n
    <3>1. \A a, b \in Int : IsFiniteSet(a .. b) /\ Cardinality(a .. b) = IF a > b THEN 0 ELSE b - a + 1
      BY FS_Interval
    <3>2. Cardinality(1 .. n) = IF 1 > n THEN 0 ELSE n - 1 + 1
      BY <3>1
    <3> QED BY <3>1, <3>2
  <2>5. Cardinality(Hits(path)) <= n /\ Cardinality(Hits(path)) \in Nat
    BY <2>3, <2>4, FS_Subset, FS_CardinalityType
  <2> QED BY <1>4, <2>2, <2>5
<1>10. Types'
  <2>1. /\ pc' \in [Proc -> {"forward", "acquire", "events", "reverse", "update", "done"}]
        /\ sweep' \in [Proc -> 1 .. layout.sweeps] /\ nbatch' \in [Proc -> 0 .. StopBatch]
    BY <1>1, <1>4, <1>8
  <2>2. ndeposit' \in Nat
    BY <1>1, <1>3, <1>9 DEF Types
  <2> QED BY <1>1, <1>6, <2>1, <2>2, Fixed DEF Types, Atom
<1>11. RunBounded'
  <2>1. SumOver(nbatch', Proc) = 0
    BY <1>4, <1>8, SumBounds
  <2>2. ndeposit <= StopBatch * (sweep[0] - 1) /\ ndeposit \in Nat
    <3>1. ndeposit <= StopBatch * (IF pc[0] = "done" THEN sweep[0] ELSE sweep[0] - 1)
      BY <1>1, <1>2, <1>4 DEF RunBounded
    <3> QED BY <1>1, <1>2, <1>4, <3>1 DEF Types
  <2>3. ndeposit' <= StopBatch * sweep[0]
    <3>1. StopBatch * (sweep[0] - 1) = StopBatch * sweep[0] - StopBatch
          /\ StopBatch * sweep[0] \in Nat
      BY <1>4
    <3> QED BY <1>3, <1>4, <1>9, <2>2, <3>1
  <2>4. \A p \in Proc :
           /\ pc'[p] # "update" /\ (pc'[p] = "done" => sweep'[p] = layout.sweeps)
           /\ ndeposit' <= StopBatch * (IF pc'[p] = "done" THEN sweep'[p] ELSE sweep'[p] - 1)
    <3>1. (sweep[0] + 1) - 1 = sweep[0]
      BY <1>4
    <3> QED BY <1>8, <2>3, <3>1
  <2>5. \A p, q \in Proc : sweep'[p] = sweep'[q] /\ pc'[p] = pc'[q]
    BY <1>8
  <2> QED BY <1>1, <1>2, <1>4, <2>1, <2>4, <2>5, Fixed DEF RunBounded
<1>12. \A p \in Proc : In(p)' = In(p) /\ Out(p)' = Out(p)
  <2>1. SUFFICES ASSUME NEW p \in Proc PROVE In(p)' = 4 * sweep[0] /\ Out(p)' = 4 * sweep[0]
    BY <1>2
  <2>2. Round(p)' = 2 * sweep[0]
    <3>1. iset'[p] = 0
      BY <1>1, <1>2
    <3>2. CASE sweep[0] = layout.sweeps
      BY <1>8, <3>2 DEF Round
    <3>3. CASE sweep[0] # layout.sweeps
      <4>1. pc'[p] = "forward" /\ sweep'[p] = sweep[0] + 1
        BY <1>8, <3>3
      <4>2. Round(p)' = 2 * (sweep'[p] - 1) + iset'[p]
        BY <4>1 DEF Round
      <4> QED BY <1>4, <3>1, <4>1, <4>2
    <3> QED BY <3>2, <3>3
  <2>3. In(p)' = 2 * Round(p)' /\ Out(p)' = 2 * Round(p)'
    BY <1>8 DEF In, Out
  <2> QED BY <1>4, <2>2, <2>3
<1>13. Causal'
  BY <1>1, <1>12, Fixed DEF Causal
<1>14. InTransit'
  <2>1. ASSUME NEW q \in Proc, NEW r \in Proc
        PROVE  \E st \in Seq(Nat) : Carries(q, r, st)' /\ Current(q, r, st)'
    <3>1. PICK st \in Seq(Nat) : Carries(q, r, st)
      BY <1>1 DEF InTransit
    <3>2. Carries(q, r, st)'
      BY <1>1, <1>12, <3>1, Fixed DEF Carries, Atom
    <3>3. 1 .. Len(st) = {}
      BY <1>2, <3>1
    <3>4. Current(q, r, st)'
      BY <3>3 DEF Current
    <3> QED BY <3>2, <3>4
  <2> QED BY <1>1, <2>1, Fixed DEF InTransit
<1>15. GhostsCurrent'
  BY <1>1, <1>8, Fixed DEF GhostsCurrent
<1> QED BY <1>10, <1>11, <1>13, <1>14, <1>15 DEF Protocol

(* The lattice depends on the memories, the loops and the messages alone.  *)
LEMMA TruthFixed ==
    ASSUME layout' = layout, lat' = lat, pc' = pc, iset' = iset, chan' = chan
    PROVE  Truth' = Truth
<1>1. Proc' = Proc /\ Site' = Site /\ Owner' = Owner
  BY Fixed
<1>2. ASSUME NEW i PROVE TruthAt(i)' = TruthAt(i)
  <2> DEFINE o == Owner[i]
             guests == {p \in Proc : pc[p] = "events" /\ i \in ReverseSites(p)}
             sent == {p \in Proc \ {o} : \E k \in DOMAIN chan[p][o] : i \in DOMAIN chan[p][o][k]}
             Queue(S) == chan[CHOOSE p \in S : TRUE][o]
             Latest(c) == CHOOSE k \in DOMAIN c :
                          i \in DOMAIN c[k] /\ \A n \in DOMAIN c : i \in DOMAIN c[n] => n <= k
  <2>1. TruthAt(i) = IF guests # {} THEN lat[CHOOSE p \in guests : TRUE][i]
                     ELSE IF sent # {} THEN Queue(sent)[Latest(Queue(sent))][i] ELSE lat[o][i]
    BY DEF TruthAt
  <2>2. TruthAt(i)' = IF guests' # {} THEN lat'[CHOOSE p \in guests' : TRUE][i]
                      ELSE IF sent' # {} THEN Queue(sent)'[Latest(Queue(sent)')][i] ELSE lat'[o'][i]
    BY DEF TruthAt
  <2>3. \A p : ReverseSites(p)' = ReverseSites(p)
    BY DEF ReverseSites
  <2>4. guests' = guests
    BY <1>1, <2>3
  <2>5. o' = o
    BY <1>1
  <2>6. sent' = sent
    BY <1>1, <2>5
  <2>7. Queue(sent)' = Queue(sent)
    BY <2>5, <2>6
  <2> HIDE DEF guests, sent, Queue, Latest, o
  <2> QED BY <2>1, <2>2, <2>4, <2>5, <2>6, <2>7
<1> QED BY <1>1, <1>2 DEF Truth

(* The protocol is kept by every step.                                     *)
LEMMA Unchanged ==
    ASSUME Protocol, UNCHANGED vars
    PROVE  /\ Protocol' /\ Truth' = Truth
           /\ layout' = layout /\ events' = events /\ pc' = pc /\ iset' = iset /\ ndeposit' = ndeposit
<1>1. UNCHANGED <<layout, lat, events, pc, iset, sweep, done, chan, nbatch, ndeposit>> /\ layout' = layout
  BY DEF vars
<1>2. \A q : Round(q)' = Round(q) /\ In(q)' = In(q) /\ Out(q)' = Out(q)
  BY <1>1, CountsSame
<1>3. Types' /\ RunBounded' /\ Causal' /\ GhostsCurrent'
  BY <1>1, <1>2, Fixed, SMTT(30)
  DEF Protocol, Types, RunBounded, Causal, GhostsCurrent, Atom, ForwardSites, ReverseSites
<1>4. \A q, r : \A st : /\ Carries(q, r, st)' <=> Carries(q, r, st)
                        /\ Current(q, r, st)' <=> Current(q, r, st)
  BY <1>1, <1>2, Fixed DEF Carries, Current, Atom
<1>5. InTransit'
  BY <1>1, <1>4, Fixed DEF Protocol, InTransit
<1>6. Truth' = Truth
  BY <1>1, TruthFixed
<1> QED BY <1>1, <1>3, <1>5, <1>6 DEF Protocol

-----------------------------------------------------------------------------
(* The lattice as a whole, before and after a step.                        *)

(* What Truth says of a site, by whom it is away.                          *)
TruthIs ==
    \A i \in Site : /\ \A p \in Proc : \A v : Away(p, i, v) => Truth[i] = v
                    /\ (\A p \in Proc : \A v : ~ Away(p, i, v)) => Truth[i] = lat[Owner[i]][i]

AwayIs ==
    \A i \in Site, p \in Proc : \A v : Away(p, i, v) =>
        /\ Owner[i] \in Proc /\ Owner[i] # p
        /\ pc[Owner[i]] \in {"acquire", "events", "reverse"}
        /\ i \in Backward(p, iset[Owner[i]])
        /\ 2 * Round(Owner[i]) < In(p)

SeenTrue ==
    \A p \in Proc : pc[p] = "events" =>
        \A i \in SetSites(p) : \A j \in Near2(i) :
            /\ j \in Site /\ lat[p][j] = Truth[j]
            /\ \A r \in Proc : \A v : Away(r, j, v) => r = p

LatticeIs == TruthIs /\ AwayIs /\ SeenTrue /\ Truth \in [Site -> Atom]

(* All that the protocol says of the lattice holds before a step ...       *)
LEMMA LatticeNow ==
    ASSUME WideEnough
    PROVE  Protocol => LatticeIs
<1>1. SUFFICES ASSUME Protocol PROVE LatticeIs
  OBVIOUS
<1>2. Types /\ RunBounded /\ Causal /\ InTransit /\ GhostsCurrent
  BY <1>1 DEF Protocol
<1>3. TruthIs
  BY <1>2, TruthOf DEF TruthIs
<1>4. AwayIs
  BY <1>2, AwayInRound DEF AwayIs
<1>5. SeenTrue
  BY <1>2, SeenIsTrue, Custody DEF SeenTrue
<1>6. Truth \in [Site -> Atom]
  BY <1>2, TruthType
<1> QED BY <1>3, <1>4, <1>5, <1>6 DEF LatticeIs

(* ... and after it.                                                       *)
LEMMA LatticeNext ==
    ASSUME WideEnough
    PROVE  Protocol' => LatticeIs'
<1>1. Protocol => LatticeIs
  BY LatticeNow
<1> QED BY <1>1, PTL

(* The value of a site is found again after a step that keeps the layout.  *)
LEMMA TruthAfter ==
    ASSUME WideEnough, Protocol', layout' = layout, NEW i \in Site
    PROVE  /\ \A p \in Proc : \A v : Away(p, i, v)' => Truth'[i] = v
           /\ (\A p \in Proc : \A v : ~ Away(p, i, v)') => Truth'[i] = lat'[Owner[i]][i]
<1>1. TruthIs'
  BY LatticeNext DEF LatticeIs
<1>2. \A j \in Site' : /\ \A p \in Proc' : \A v : Away(p, j, v)' => Truth'[j] = v
                       /\ (\A p \in Proc' : \A v : ~ Away(p, j, v)') => Truth'[j] = lat'[Owner'[j]][j]
  BY <1>1 DEF TruthIs
<1>3. Site' = Site /\ Proc' = Proc /\ Owner' = Owner
  BY Fixed
<1> QED BY <1>2, <1>3

(* The two ways in which p has the value of a site, before and after.      *)
LEMMA AwayWays ==
    ASSUME layout' = layout, NEW p, NEW i, NEW v
    PROVE  /\ Away(p, i, v) <=>
                \/ pc[p] = "events" /\ i \in Backward(p, iset[p]) /\ v = lat[p][i]
                \/ /\ p # Owner[i]
                   /\ \E k \in DOMAIN chan[p][Owner[i]] :
                         i \in DOMAIN chan[p][Owner[i]][k] /\ v = chan[p][Owner[i]][k][i]
           /\ Away(p, i, v)' <=>
                \/ pc'[p] = "events" /\ i \in Backward(p, iset'[p]) /\ v = lat'[p][i]
                \/ /\ p # Owner[i]
                   /\ \E k \in DOMAIN chan'[p][Owner[i]] :
                         i \in DOMAIN chan'[p][Owner[i]][k] /\ v = chan'[p][Owner[i]][k][i]
<1>1. ReverseSites(p) = Backward(p, iset[p])
  BY CurrentSets
<1>2. ReverseSites(p)' = Backward(p, iset'[p])
  BY DEF ReverseSites, Backward
<1>3. Owner' = Owner
  BY Fixed
<1> QED BY <1>1, <1>2, <1>3 DEF Away

(* A step that takes no value away but that of the owner changes no truth. *)
LEMMA TruthKept ==
    ASSUME WideEnough, Protocol, Protocol', layout' = layout, NEW i \in Site,
           \A p \in Proc : \A v : Away(p, i, v) => Away(p, i, v)',
           \A p \in Proc : \A v : Away(p, i, v)' => v = lat[Owner[i]][i] \/ \E w : Away(p, i, w),
           lat'[Owner[i]][i] = lat[Owner[i]][i]
    PROVE  Truth'[i] = Truth[i]
<1>1. /\ \A p \in Proc : \A v : Away(p, i, v) => Truth[i] = v
      /\ (\A p \in Proc : \A v : ~ Away(p, i, v)) => Truth[i] = lat[Owner[i]][i]
  BY LatticeNow DEF LatticeIs, TruthIs
<1>2. /\ \A p \in Proc : \A v : Away(p, i, v)' => Truth'[i] = v
      /\ (\A p \in Proc : \A v : ~ Away(p, i, v)') => Truth'[i] = lat'[Owner[i]][i]
  BY TruthAfter
<1>3. CASE \E p \in Proc : \E v : Away(p, i, v)
  BY <1>1, <1>2, <1>3
<1>4. CASE \A p \in Proc : \A v : ~ Away(p, i, v)
  <2>1. Truth[i] = lat[Owner[i]][i]
    BY <1>1, <1>4
  <2>2. CASE \E p \in Proc : \E v : Away(p, i, v)'
    <3>1. PICK p \in Proc : \E v : Away(p, i, v)'
      BY <2>2
    <3>2. PICK v : Away(p, i, v)'
      BY <3>1
    <3>3. v = lat[Owner[i]][i]
      BY <1>4, <3>2
    <3> QED BY <1>2, <2>1, <3>2, <3>3
  <2>3. CASE \A p \in Proc : \A v : ~ Away(p, i, v)'
    BY <1>2, <2>1, <2>3
  <2> QED BY <2>2, <2>3
<1> QED BY <1>3, <1>4

(* All sites alike.                                                        *)
LEMMA TruthSame ==
    ASSUME layout' = layout, \A i \in Site : Truth'[i] = Truth[i]
    PROVE  Truth' = Truth
<1>1. Site' = Site
  BY Fixed
<1>2. Truth = [i \in Site |-> Truth[i]] /\ Truth' = [i \in Site |-> Truth'[i]]
  BY <1>1 DEF Truth
<1> QED BY <1>2

(* What is in the queues after p has sent.                                 *)
LEMMA SentOf ==
    ASSUME InTransit, NEW p \in Proc, NEW part, DOMAIN part = Proc, chan' = Sent(p, part)
    PROVE  /\ \A q \in Proc : q # p => chan'[q] = chan[q]
           /\ \A r \in Proc :
                 /\ \A k \in DOMAIN chan[p][r] : k \in DOMAIN chan'[p][r] /\ chan'[p][r][k] = chan[p][r][k]
                 /\ \A k \in DOMAIN chan'[p][r] :
                       \/ k \in DOMAIN chan[p][r] /\ chan'[p][r][k] = chan[p][r][k]
                       \/ part[r] # {} /\ chan'[p][r][k] = [i \in part[r] |-> lat[p][i]]
                 /\ part[r] # {} => \E k \in DOMAIN chan'[p][r] :
                                       chan'[p][r][k] = [i \in part[r] |-> lat[p][i]]
<1> DEFINE M(r) == [i \in part[r] |-> lat[p][i]]
           row == [r \in Proc |-> IF part[r] = {} THEN chan[p][r] ELSE Append(chan[p][r], M(r))]
<1>1. chan' = [chan EXCEPT ![p] = row]
  BY DEF Sent, InTransit
<1>2. \A r \in Proc : row[r] = IF part[r] = {} THEN chan[p][r] ELSE Append(chan[p][r], M(r))
  OBVIOUS
<1> HIDE DEF row, M
<1>3. chan'[p] = row /\ \A q \in Proc : q # p => chan'[q] = chan[q]
  BY <1>1 DEF InTransit
<1>4. ASSUME NEW r \in Proc
      PROVE  /\ \A k \in DOMAIN chan[p][r] : k \in DOMAIN chan'[p][r] /\ chan'[p][r][k] = chan[p][r][k]
             /\ \A k \in DOMAIN chan'[p][r] :
                   \/ k \in DOMAIN chan[p][r] /\ chan'[p][r][k] = chan[p][r][k]
                   \/ part[r] # {} /\ chan'[p][r][k] = M(r)
             /\ part[r] # {} => \E k \in DOMAIN chan'[p][r] : chan'[p][r][k] = M(r)
  <2>1. CASE part[r] = {}
    BY <1>2, <1>3, <2>1
  <2>2. CASE part[r] # {}
    <3>1. chan'[p][r] = Append(chan[p][r], M(r))
      BY <1>2, <1>3, <2>2
    <3>2. chan[p][r] \in Seq(Messages)
      BY DEF InTransit
    <3>3. PICK c : c = chan[p][r]
      OBVIOUS
    <3>4. PICK m : m = M(r)
      OBVIOUS
    <3>5. c \in Seq(Messages) /\ DOMAIN c = 1 .. Len(c) /\ Len(c) \in Nat
      BY <3>2, <3>3
    <3>6. /\ DOMAIN Append(c, m) = 1 .. Len(c) + 1
          /\ \A k \in 1 .. Len(c) : Append(c, m)[k] = c[k]
          /\ Append(c, m)[Len(c) + 1] = m
      BY <3>5
    <3>7. \A k \in 1 .. Len(c) + 1 : k \in 1 .. Len(c) \/ k = Len(c) + 1
      BY <3>5
    <3>8. Len(c) + 1 \in 1 .. Len(c) + 1 /\ \A k \in 1 .. Len(c) : k \in 1 .. Len(c) + 1
      BY <3>5
    <3> QED BY <2>2, <3>1, <3>3, <3>4, <3>5, <3>6, <3>7, <3>8
  <2> QED BY <2>1, <2>2
<1> QED BY <1>3, <1>4 DEF M

(* SendForward changes no site of the lattice.                             *)
LEMMA SendForwardTruth ==
    ASSUME WideEnough, Protocol, NEW p \in Proc, SendForward(p)
    PROVE  Truth' = Truth
<1> DEFINE part == [q \in Proc |-> Geometry[layout].forward[q][iset[p]] \cap Mine(p)]
<1>1. /\ layout' = layout /\ lat' = lat /\ iset' = iset
      /\ pc[p] = "forward" /\ pc' = [pc EXCEPT ![p] = "acquire"] /\ chan' = Sent(p, part)
  BY DEF SendForward
<1>2. Protocol' /\ InTransit /\ pc'[p] = "acquire" /\ \A q \in Proc : q # p => pc'[q] = pc[q]
  BY <1>1, SendForwardKeeps DEF Protocol, Types
<1>3. DOMAIN part = Proc /\ \A r \in Proc : \A i \in part[r] : Owner[i] = p
  BY DEF Mine
<1> HIDE DEF part
<1>4. /\ \A q \in Proc : q # p => chan'[q] = chan[q]
      /\ \A r \in Proc :
            /\ \A k \in DOMAIN chan[p][r] : k \in DOMAIN chan'[p][r] /\ chan'[p][r][k] = chan[p][r][k]
            /\ \A k \in DOMAIN chan'[p][r] :
                  \/ k \in DOMAIN chan[p][r] /\ chan'[p][r][k] = chan[p][r][k]
                  \/ part[r] # {} /\ chan'[p][r][k] = [i \in part[r] |-> lat[p][i]]
  BY <1>1, <1>2, <1>3, SentOf
<1>5. ASSUME NEW i \in Site PROVE Truth'[i] = Truth[i]
  <2>1. Owner[i] \in Proc
    BY <1>1, LatticeOf DEF Protocol, Types
  <2>2. ASSUME NEW r \in Proc, NEW v, Away(r, i, v) PROVE Away(r, i, v)'
    <3>1. CASE r = p
      BY <1>1, <1>4, <2>1, <2>2, <3>1, AwayWays
    <3>2. CASE r # p
      BY <1>1, <1>2, <1>4, <2>1, <2>2, <3>2, AwayWays
    <3> QED BY <3>1, <3>2
  <2>3. ASSUME NEW r \in Proc, NEW v, Away(r, i, v)' PROVE Away(r, i, v)
    <3>1. CASE r = p
      <4>1. PICK k \in DOMAIN chan'[p][Owner[i]] :
               i \in DOMAIN chan'[p][Owner[i]][k] /\ v = chan'[p][Owner[i]][k][i] /\ p # Owner[i]
        BY <1>1, <1>2, <2>3, <3>1, AwayWays
      <4>2. k \in DOMAIN chan[p][Owner[i]] /\ chan'[p][Owner[i]][k] = chan[p][Owner[i]][k]
        <5>1. SUFFICES ASSUME chan'[p][Owner[i]][k] = [j \in part[Owner[i]] |-> lat[p][j]] PROVE FALSE
          BY <1>4, <2>1, <4>1
        <5>2. i \in part[Owner[i]]
          BY <4>1, <5>1
        <5> QED BY <1>3, <2>1, <4>1, <5>2
      <4> QED BY <1>1, <3>1, <4>1, <4>2, AwayWays
    <3>2. CASE r # p
      BY <1>1, <1>2, <1>4, <2>1, <2>3, <3>2, AwayWays
    <3> QED BY <3>1, <3>2
  <2> QED BY <1>1, <1>2, <2>2, <2>3, TruthKept
<1> QED BY <1>1, <1>5, TruthSame

(* EndSector changes no site of the lattice.                               *)
LEMMA EndSectorTruth ==
    ASSUME WideEnough, Protocol, NEW p \in Proc, EndSector(p)
    PROVE  Truth' = Truth
<1> DEFINE part == [q \in Proc |-> ReverseSites(p) \cap Mine(q)]
<1>1. /\ layout' = layout /\ lat' = lat /\ iset' = iset
      /\ pc[p] = "events" /\ pc' = [pc EXCEPT ![p] = "reverse"] /\ chan' = Sent(p, part)
  BY DEF EndSector
<1>2. /\ Protocol' /\ InTransit /\ layout \in Layouts /\ iset[p] \in Sectors
      /\ pc'[p] = "reverse" /\ \A q \in Proc : q # p => pc'[q] = pc[q]
  BY <1>1, EndSectorKeeps, CountsOf DEF Protocol, Types
<1>3. DOMAIN part = Proc /\ \A r \in Proc : \A i : i \in part[r] <=> i \in Backward(p, iset[p]) /\ i \in Mine(r)
  BY CurrentSets
<1> HIDE DEF part
<1>4. /\ \A q \in Proc : q # p => chan'[q] = chan[q]
      /\ \A r \in Proc :
            /\ \A k \in DOMAIN chan[p][r] : k \in DOMAIN chan'[p][r] /\ chan'[p][r][k] = chan[p][r][k]
            /\ \A k \in DOMAIN chan'[p][r] :
                  \/ k \in DOMAIN chan[p][r] /\ chan'[p][r][k] = chan[p][r][k]
                  \/ part[r] # {} /\ chan'[p][r][k] = [i \in part[r] |-> lat[p][i]]
            /\ part[r] # {} => \E k \in DOMAIN chan'[p][r] :
                                  chan'[p][r][k] = [i \in part[r] |-> lat[p][i]]
  BY <1>1, <1>2, <1>3, SentOf, SMTT(30)
<1>5. ASSUME NEW i \in Site PROVE Truth'[i] = Truth[i]
  <2>1. Owner[i] \in Proc /\ i \in Mine(Owner[i])
    BY <1>1, LatticeOf DEF Protocol, Types, Mine
  <2>2. ASSUME NEW r \in Proc, NEW v, Away(r, i, v) PROVE Away(r, i, v)'
    <3>1. CASE r = p /\ i \in Backward(p, iset[p]) /\ v = lat[p][i]
      <4>1. i \in part[Owner[i]] /\ Owner[i] # p
        BY <1>2, <1>3, <2>1, <3>1, ReverseOf
      <4>2. PICK k \in DOMAIN chan'[p][Owner[i]] :
               chan'[p][Owner[i]][k] = [j \in part[Owner[i]] |-> lat[p][j]]
        BY <1>4, <2>1, <4>1
      <4>3. i \in DOMAIN chan'[p][Owner[i]][k] /\ v = chan'[p][Owner[i]][k][i]
        BY <3>1, <4>1, <4>2
      <4> QED BY <1>1, <3>1, <4>1, <4>3, AwayWays
    <3>2. CASE r = p /\ ~ (i \in Backward(p, iset[p]) /\ v = lat[p][i])
      BY <1>1, <1>4, <2>1, <2>2, <3>2, AwayWays
    <3>3. CASE r # p
      BY <1>1, <1>2, <1>4, <2>1, <2>2, <3>3, AwayWays
    <3> QED BY <3>1, <3>2, <3>3
  <2>3. ASSUME NEW r \in Proc, NEW v, Away(r, i, v)' PROVE Away(r, i, v)
    <3>1. CASE r = p
      <4>1. PICK k \in DOMAIN chan'[p][Owner[i]] :
               i \in DOMAIN chan'[p][Owner[i]][k] /\ v = chan'[p][Owner[i]][k][i] /\ p # Owner[i]
        BY <1>1, <1>2, <2>3, <3>1, AwayWays
      <4>2. CASE k \in DOMAIN chan[p][Owner[i]] /\ chan'[p][Owner[i]][k] = chan[p][Owner[i]][k]
        BY <1>1, <3>1, <4>1, <4>2, AwayWays
      <4>3. CASE chan'[p][Owner[i]][k] = [j \in part[Owner[i]] |-> lat[p][j]]
        <5>1. i \in part[Owner[i]] /\ v = lat[p][i]
          BY <4>1, <4>3
        <5>2. i \in Backward(p, iset[p])
          BY <1>3, <2>1, <5>1
        <5> QED BY <1>1, <3>1, <5>1, <5>2, AwayWays
      <4> QED BY <1>4, <2>1, <4>1, <4>2, <4>3
    <3>2. CASE r # p
      BY <1>1, <1>2, <1>4, <2>1, <2>3, <3>2, AwayWays
    <3> QED BY <3>1, <3>2
  <2> QED BY <1>1, <1>2, <2>2, <2>3, TruthKept
<1> QED BY <1>1, <1>5, TruthSame

(* Tally changes no site of the lattice.                                   *)
LEMMA TallyTruth ==
    ASSUME NEW p \in Proc, Tally(p)
    PROVE  Truth' = Truth
BY TruthFixed DEF Tally

(* What is in the queues after p has received.                             *)
LEMMA TakenOf ==
    ASSUME InTransit, NEW p \in Proc, NEW part, Arrived(p, part), chan' = Taken(p, part),
           NEW q \in Proc
    PROVE  /\ \A r \in Proc : r # p => chan'[q][r] = chan[q][r]
           /\ part[q] = {} => chan'[q][p] = chan[q][p]
           /\ part[q] # {} =>
                /\ \A k \in DOMAIN chan'[q][p] :
                      k + 1 \in DOMAIN chan[q][p] /\ chan'[q][p][k] = chan[q][p][k + 1]
                /\ \A k \in DOMAIN chan[q][p] : k # 1 =>
                      k - 1 \in DOMAIN chan'[q][p] /\ chan'[q][p][k - 1] = chan[q][p][k]
<1>1. chan'[q] = [chan[q] EXCEPT ![p] = IF part[q] = {} THEN @ ELSE Tail(@)]
  BY DEF Taken
<1>2. /\ \A r \in Proc : r # p => chan'[q][r] = chan[q][r]
      /\ chan'[q][p] = IF part[q] = {} THEN chan[q][p] ELSE Tail(chan[q][p])
  BY <1>1 DEF InTransit
<1>3. PICK c : c = chan[q][p]
  OBVIOUS
<1>4. c \in Seq(Messages) /\ (part[q] # {} => c # <<>>)
  BY <1>3 DEF InTransit, Arrived
<1>5. ASSUME c # <<>>
      PROVE  /\ \A k \in DOMAIN Tail(c) : k + 1 \in DOMAIN c /\ Tail(c)[k] = c[k + 1]
             /\ \A k \in DOMAIN c : k # 1 => k - 1 \in DOMAIN Tail(c) /\ Tail(c)[k - 1] = c[k]
  <2>1. DOMAIN c = 1 .. Len(c) /\ Len(c) \in Nat \ {0} /\ DOMAIN Tail(c) = 1 .. Len(c) - 1
    BY <1>4, <1>5
  <2>2. \A k \in 1 .. Len(c) - 1 : Tail(c)[k] = c[k + 1]
    BY <1>4, <1>5
  <2>3. \A k \in 1 .. Len(c) - 1 : k + 1 \in 1 .. Len(c)
    BY <2>1
  <2>4. \A k \in 1 .. Len(c) : k # 1 => k - 1 \in 1 .. Len(c) - 1 /\ (k - 1) + 1 = k
    BY <2>1
  <2> QED BY <2>1, <2>2, <2>3, <2>4
<1> QED BY <1>2, <1>3, <1>4, <1>5

(* Acquire changes no site of the lattice.                                 *)
LEMMA AcquireTruth ==
    ASSUME WideEnough, Protocol, NEW p \in Proc, Acquire(p)
    PROVE  Truth' = Truth
<1>1. PICK part : part = [q \in Proc |-> Traffic(q, p, In(p))]
  OBVIOUS
<1>2. /\ layout' = layout /\ iset' = iset /\ pc[p] = "acquire"
      /\ pc' = [pc EXCEPT ![p] = "events"] /\ chan' = Taken(p, part) /\ Arrived(p, part)
  BY <1>1, AcquireGets DEF Acquire
<1>3. /\ Protocol' /\ Types /\ RunBounded /\ InTransit /\ layout \in Layouts
      /\ iset[p] \in Sectors /\ pc'[p] = "events" /\ \A q \in Proc : q # p => pc'[q] = pc[q]
  BY <1>2, AcquireKeeps, CountsOf DEF Protocol, Types
<1>4. /\ \A j \in Site : lat'[p][j] = IF j \in Forward(p, iset[p]) THEN lat[Owner[j]][j] ELSE lat[p][j]
      /\ \A q \in Proc : q # p => lat'[q] = lat[q]
  <2>1. lat' = [lat EXCEPT ![p] = lat'[p]]
    BY AcquireGets
  <2> QED BY <1>3, <2>1, AcquireGets DEF Types
<1>5. \A q \in Proc :
        /\ \A r \in Proc : r # p => chan'[q][r] = chan[q][r]
        /\ part[q] = {} => chan'[q][p] = chan[q][p]
        /\ part[q] # {} =>
              /\ \A k \in DOMAIN chan'[q][p] :
                    k + 1 \in DOMAIN chan[q][p] /\ chan'[q][p][k] = chan[q][p][k + 1]
              /\ \A k \in DOMAIN chan[q][p] : k # 1 =>
                    k - 1 \in DOMAIN chan'[q][p] /\ chan'[q][p][k - 1] = chan[q][p][k]
  BY <1>2, <1>3, TakenOf
(* What is received is not on its way back.                                *)
<1>6. ASSUME NEW q \in Proc, part[q] # {}, NEW i \in DOMAIN chan[q][p][1]
      PROVE  Owner[i] = q
  <2>1. Traffic(q, p, In(p)) # {} /\ chan[q][p] # <<>>
    BY <1>1, <1>2, <1>6 DEF Arrived
  <2>2. PICK st \in Seq(Nat) : Carries(q, p, st)
    BY <1>3 DEF InTransit
  <2>3. chan[q][p][1] \in [Traffic(q, p, In(p)) -> Atom]
    BY <1>3, <2>1, <2>2, Oldest
  <2>4. PICK h \in Nat : h = In(p) /\ h = 2 * Round(p) /\ Round(p) \in Nat
    BY <1>2, <1>3, CountsOf
  <2>5. h % 2 = 0 /\ i \in Traffic(q, p, h)
    BY <1>6, <2>3, <2>4, LegBefore
  <2> QED BY <1>3, <2>5, TrafficOf
<1>7. ASSUME NEW i \in Site PROVE Truth'[i] = Truth[i]
  <2>1. Owner[i] \in Proc
    BY <1>3, LatticeOf
  <2>2. PICK o \in Proc : o = Owner[i]
    BY <2>1
  <2>3. ASSUME NEW r \in Proc, r # o, NEW v
        PROVE  (\E k \in DOMAIN chan[r][o] : i \in DOMAIN chan[r][o][k] /\ v = chan[r][o][k][i]) <=>
               (\E k \in DOMAIN chan'[r][o] : i \in DOMAIN chan'[r][o][k] /\ v = chan'[r][o][k][i])
    <3>1. CASE o # p \/ part[r] = {}
      BY <1>5, <3>1
    <3>2. CASE o = p /\ part[r] # {}
      <4>1. i \notin DOMAIN chan[r][p][1]
        BY <1>6, <2>2, <2>3, <3>2
      <4> QED BY <1>5, <3>2, <4>1
    <3> QED BY <3>1, <3>2
  <2>4. ASSUME NEW r \in Proc, NEW v, Away(r, i, v) PROVE Away(r, i, v)'
    <3>1. CASE r # p /\ pc[r] = "events" /\ i \in Backward(r, iset[r]) /\ v = lat[r][i]
      BY <1>2, <1>3, <1>4, <3>1, AwayWays
    <3>2. CASE ~ (pc[r] = "events" /\ i \in Backward(r, iset[r]) /\ v = lat[r][i])
      BY <1>2, <2>2, <2>3, <2>4, <3>2, AwayWays, SMTT(30)
    <3> QED BY <1>2, <3>1, <3>2
  <2>5. ASSUME NEW r \in Proc, NEW v, Away(r, i, v)' PROVE v = lat[o][i] \/ Away(r, i, v)
    <3>1. CASE r # o /\ \E k \in DOMAIN chan'[r][o] : i \in DOMAIN chan'[r][o][k] /\ v = chan'[r][o][k][i]
      BY <1>2, <2>2, <2>3, <3>1, AwayWays
    <3>2. CASE r # p /\ pc'[r] = "events" /\ i \in Backward(r, iset'[r]) /\ v = lat'[r][i]
      BY <1>2, <1>3, <1>4, <3>2, AwayWays
    <3>3. CASE r = p /\ i \in Backward(p, iset'[p]) /\ v = lat'[p][i]
      <4>1. i \in Forward(p, iset[p])
        BY <1>2, <1>3, <3>3, ExchangedNear
      <4> QED BY <1>4, <2>2, <3>3, <4>1
    <3> QED BY <1>2, <2>2, <2>5, <3>1, <3>2, <3>3, AwayWays
  <2>6. lat'[o][i] = lat[o][i]
    BY <1>3, <1>4, <2>2, ForwardOf
  <2> QED BY <1>2, <1>3, <2>2, <2>4, <2>5, <2>6, TruthKept
<1> QED BY <1>2, <1>7, TruthSame

(* Nearness and the sets of a sector do not change within it.              *)
LEMMA FixedNear ==
    ASSUME layout' = layout
    PROVE  /\ \A i : Near(i)' = Near(i) /\ Near2(i)' = Near2(i) /\ Near3(i)' = Near3(i)
           /\ \A p : iset'[p] = iset[p] =>
                 SetSites(p)' = SetSites(p) /\ ReverseSites(p)' = ReverseSites(p)
<1>1. Nbr' = Nbr
  BY Fixed
<1>2. \A i : Near(i)' = Near(i)
  BY <1>1 DEF Near
<1>3. \A i : Near2(i)' = Near2(i)
  BY <1>2 DEF Near2
<1>4. \A i : Near3(i)' = Near3(i)
  BY <1>2, <1>3 DEF Near3
<1> QED BY <1>2, <1>3, <1>4 DEF SetSites, ReverseSites

(* What a process that runs a sector sees is true.                         *)
LEMMA SeenBefore ==
    ASSUME WideEnough, Protocol, NEW p \in Proc, pc[p] = "events", NEW i \in SetSites(p)
    PROVE  /\ i \in Site /\ Owner[i] = p
           /\ \A j \in Near2(i) : /\ j \in Site /\ lat[p][j] = Truth[j]
                                  /\ \A r \in Proc : \A v : Away(r, j, v) => r = p
<1>1. layout \in Layouts /\ iset[p] \in Sectors /\ i \in SectorSet(p, iset[p])
  BY CurrentSets, CountsOf DEF Protocol
<1>2. i \in Site /\ Owner[i] = p
  BY <1>1, InSector
<1> QED BY <1>2, LatticeNow DEF LatticeIs, SeenTrue

(* And so it is after a step within the sector.                            *)
LEMMA SeenAfter ==
    ASSUME WideEnough, Protocol', layout' = layout, NEW p \in Proc, pc'[p] = "events",
           iset'[p] = iset[p], NEW i \in SetSites(p)
    PROVE  \A j \in Near2(i) : /\ lat'[p][j] = Truth'[j]
                               /\ \A r \in Proc : \A v : Away(r, j, v)' => r = p /\ Owner[j] # p
<1>1. SeenTrue' /\ AwayIs'
  BY LatticeNext DEF LatticeIs
<1>2. Proc' = Proc /\ Site' = Site /\ Owner' = Owner
  BY Fixed
<1>3. SetSites(p)' = SetSites(p) /\ \A k : Near2(k)' = Near2(k)
  BY FixedNear
<1>4. /\ \A q \in Proc' : pc'[q] = "events" =>
            \A h \in SetSites(q)' : \A j \in Near2(h)' :
                /\ j \in Site' /\ lat'[q][j] = Truth'[j]
                /\ \A r \in Proc' : \A v : Away(r, j, v)' => r = q
  BY <1>1 DEF SeenTrue
<1>5. \A j \in Site', r \in Proc' : \A v : Away(r, j, v)' => Owner'[j] # r
  BY <1>1 DEF AwayIs
<1>6. \A j \in Near2(i) : /\ j \in Site /\ lat'[p][j] = Truth'[j]
                          /\ \A r \in Proc : \A v : Away(r, j, v)' => r = p
  BY <1>2, <1>3, <1>4
<1> QED BY <1>2, <1>5, <1>6

(* A hop of a process is a hop on the lattice as a whole.                  *)
LEMMA HopTruth ==
    ASSUME WideEnough, Protocol, NEW p \in Proc, NEW i, NEW j, Moves(p, i, j)
    PROVE  Truth' = Hopped(Truth, i, j)
<1>1. /\ Protocol' /\ pc[p] = "events" /\ i \in SetSites(p)
      /\ layout' = layout /\ layout \in Layouts /\ pc' = pc /\ iset' = iset /\ chan' = chan
      /\ i \in Site /\ Owner[i] = p /\ j \in Site /\ j # i
      /\ i \in Near(i) /\ j \in Near(i) /\ Near(i) \subseteq Near2(i)
      /\ \A q \in Proc : q # p => lat'[q] = lat[q]
      /\ lat'[p][i] = VACANT /\ lat'[p][j] = OCCUPIED
      /\ \A k \in Site : k # i /\ k # j => lat'[p][k] = lat[p][k]
  <2>1. /\ Protocol' /\ layout' = layout /\ i \in Site
        /\ Owner[i] = p /\ j \in Site /\ j # i /\ i \in Near(i) /\ j \in Near(i)
        /\ \A q \in Proc : q # p => lat'[q] = lat[q]
        /\ lat'[p][i] = VACANT /\ lat'[p][j] = OCCUPIED
        /\ \A k \in Site : k # i /\ k # j => lat'[p][k] = lat[p][k]
    BY ChangesKeep
  <2>2. layout \in Layouts
    BY DEF Protocol, Types
  <2>3. Near(i) \subseteq Near2(i)
    BY <2>1, <2>2, NearOf
  <2> QED BY <2>1, <2>2, <2>3 DEF Moves
<1>2. \A k \in Near2(i) : lat'[p][k] = Truth'[k]
  BY <1>1, SeenAfter
<1>3. Truth'[i] = VACANT /\ Truth'[j] = OCCUPIED
  BY <1>1, <1>2
<1>4. ASSUME NEW k \in Site, k # i, k # j PROVE Truth'[k] = Truth[k]
  <2>1. \A q \in Proc : lat'[q][k] = lat[q][k]
    BY <1>1, <1>4
  <2>2. \A q \in Proc : \A v : Away(q, k, v) <=> Away(q, k, v)'
    BY <1>1, <2>1, AwayWays
  <2>3. Owner[k] \in Proc
    BY <1>1, LatticeOf
  <2> QED BY <1>1, <2>1, <2>2, <2>3, TruthKept
<1>5. Truth = [k \in Site |-> Truth[k]] /\ Truth' = [k \in Site |-> Truth'[k]]
  BY <1>1, Fixed DEF Truth
<1> QED BY <1>1, <1>3, <1>4, <1>5 DEF Hopped

(* The truth of sites that nobody can have away.                           *)
LEMMA TruthHome ==
    ASSUME WideEnough, Protocol, NEW i \in Site,
           pc[Owner[i]] \notin {"acquire", "events", "reverse"}
    PROVE  Truth[i] = lat[Owner[i]][i]
<1>1. \A p \in Proc : \A v : ~ Away(p, i, v)
  BY LatticeNow DEF LatticeIs, AwayIs
<1> QED BY <1>1, LatticeNow DEF LatticeIs, TruthIs

(* ... and after it.                                                       *)
LEMMA TruthHomeAfter ==
    ASSUME WideEnough, Protocol', layout' = layout, NEW i \in Site,
           pc'[Owner[i]] \notin {"acquire", "events", "reverse"}
    PROVE  Truth'[i] = lat'[Owner[i]][i]
<1>1. Proc' = Proc /\ Site' = Site /\ Owner' = Owner
  BY Fixed
<1>2. AwayIs'
  BY LatticeNext DEF LatticeIs
<1>3. \A p \in Proc : \A v : ~ Away(p, i, v)'
  BY <1>1, <1>2 DEF AwayIs
<1> QED BY <1>3, TruthAfter

(* Collect changes no site of the lattice.                                 *)
LEMMA CollectTruth ==
    ASSUME WideEnough, Protocol, NEW p \in Proc, Collect(p)
    PROVE  Truth' = Truth
<1>1. PICK part : part = [q \in Proc |-> Traffic(q, p, In(p))]
  OBVIOUS
<1>2. Types /\ RunBounded /\ InTransit /\ layout \in Layouts /\ Protocol'
  BY CollectKeeps DEF Protocol, Types
<1>3. /\ layout' = layout /\ pc[p] = "reverse" /\ pc'[p] \in {"forward", "update", "done"}
      /\ \A q \in Proc : q # p => pc'[q] = pc[q] /\ iset'[q] = iset[q]
  BY <1>2, CollectMoves
<1>4. /\ chan' = Taken(p, part) /\ Arrived(p, part) /\ lat' = [lat EXCEPT ![p] = lat'[p]]
      /\ \A q \in Proc : \A j \in Backward(q, iset[p]) \cap Mine(p) :
            1 \in DOMAIN chan[q][p] /\ j \in DOMAIN chan[q][p][1] /\ lat'[p][j] = chan[q][p][1][j]
      /\ \A j \in Site : j \notin Mine(p) \/ (\A q \in Proc : j \notin Backward(q, iset[p]))
            => lat'[p][j] = lat[p][j]
  BY <1>1, CollectGets
<1>5. \A q \in Proc : q # p => lat'[q] = lat[q]
  BY <1>2, <1>4 DEF Types
<1>6. \A q, r \in Proc : r # p => chan'[q][r] = chan[q][r]
  BY <1>2, <1>4, TakenOf
<1>7. ASSUME NEW i \in Site PROVE Truth'[i] = Truth[i]
  <2>1. Owner[i] \in Proc
    BY <1>2, LatticeOf
  <2>2. CASE Owner[i] # p
    <3>1. \A r \in Proc : \A v : Away(r, i, v) <=> Away(r, i, v)'
      <4>1. SUFFICES ASSUME NEW r \in Proc, NEW v PROVE Away(r, i, v) <=> Away(r, i, v)'
        OBVIOUS
      <4>2. CASE r = p
        BY <1>3, <1>6, <2>1, <2>2, <4>2, AwayWays
      <4>3. CASE r # p
        BY <1>3, <1>5, <1>6, <2>1, <2>2, <4>3, AwayWays, SMTT(30)
      <4> QED BY <4>2, <4>3
    <3> QED BY <1>2, <1>3, <1>5, <2>1, <2>2, <3>1, TruthKept
  <2>3. CASE Owner[i] = p
    <3>1. Truth'[i] = lat'[p][i]
      BY <1>2, <1>3, <2>3, TruthHomeAfter
    <3>2. CASE \E q \in Proc : i \in Backward(q, iset[p])
      <4>1. PICK q \in Proc : i \in Backward(q, iset[p])
        BY <3>2
      <4>2. i \in Mine(p) /\ q # p
        BY <1>2, <2>3, <4>1, ReverseOf, CountsOf DEF Mine
      <4>3. Away(q, i, lat'[p][i])
        BY <1>3, <1>4, <2>3, <4>1, <4>2, AwayWays, SMTT(30)
      <4>4. Truth[i] = lat'[p][i]
        BY <4>3, LatticeNow DEF LatticeIs, TruthIs
      <4> QED BY <3>1, <4>4
    <3>3. CASE \A q \in Proc : i \notin Backward(q, iset[p])
      <4>1. \A q \in Proc : \A v : ~ Away(q, i, v)
        BY <2>3, <3>3, LatticeNow DEF LatticeIs, AwayIs
      <4>2. Truth[i] = lat[p][i]
        BY <2>3, <4>1, LatticeNow DEF LatticeIs, TruthIs
      <4> QED BY <1>4, <3>1, <3>3, <4>2
    <3> QED BY <3>2, <3>3
  <2> QED BY <2>2, <2>3
<1> QED BY <1>3, <1>7, TruthSame

(* An update puts the atoms down on the lattice as a whole.                *)
LEMMA UpdateTruth ==
    ASSUME WideEnough, Protocol, AppUpdate, NEW path,
           lat' = [p \in Proc |-> [i \in Site |->
               IF i \in Mine(p) \cup AllGhosts(p) THEN After(path)[i] ELSE lat[p][i]]]
    PROVE  /\ Truth = [i \in Site |-> lat[Owner[i]][i]]
           /\ Truth' = After(path)
           /\ After(path) = [i \in Site |-> IF i \in Put(path) THEN OCCUPIED ELSE Truth[i]]
<1>1. /\ layout' = layout /\ layout \in Layouts /\ \A p \in Proc : pc[p] = "update"
      /\ pc' = [p \in Proc |-> NextSweep(p)]
  BY DEF AppUpdate, Protocol, Types
<1>2. Protocol'
  BY AppUpdateKeeps
<1>3. \A i \in Site : Owner[i] \in Proc /\ i \in Mine(Owner[i])
  BY <1>1, LatticeOf DEF Mine
<1>4. \A p \in Proc : pc'[p] \in {"done", "forward"}
  BY <1>1 DEF NextSweep
<1>5. \A i \in Site : Truth[i] = lat[Owner[i]][i]
  BY <1>1, <1>3, TruthHome
<1>6. \A i \in Site : Truth'[i] = After(path)[i]
  <2>1. SUFFICES ASSUME NEW i \in Site PROVE Truth'[i] = After(path)[i]
    OBVIOUS
  <2>2. Truth'[i] = lat'[Owner[i]][i]
    BY <1>1, <1>2, <1>3, <1>4, TruthHomeAfter
  <2> QED BY <1>3, <2>2
<1>7. Truth = [i \in Site |-> Truth[i]] /\ Truth' = [i \in Site |-> Truth'[i]]
  BY <1>1, Fixed DEF Truth
<1>8. Truth' = After(path)
  BY <1>6, <1>7 DEF After
<1>9. After(path) = [i \in Site |-> IF i \in Put(path) THEN OCCUPIED ELSE Truth[i]]
  BY <1>5 DEF After
<1>10. Truth = [i \in Site |-> lat[Owner[i]][i]]
  BY <1>5, <1>7
<1> QED BY <1>8, <1>9, <1>10

-----------------------------------------------------------------------------
(* Event lists.                                                            *)

(* A list made anew is true where the memory it is made of is.             *)
LEMMA RefreshedOf ==
    ASSUME NEW S, NEW l, NEW i \in Site
    PROVE  Refreshed(events, S, l)[i] = IF i \in S THEN SiteEvents(l, Nbr, i) ELSE events[i]
BY DEF Refreshed

(* No list changes, and nobody starts a sector.                            *)
LEMMA ListsStay ==
    ASSUME Lists, layout' = layout, events' = events, Truth' = Truth,
           \A p \in Proc : pc'[p] = "events" => pc[p] = "events" /\ iset'[p] = iset[p]
    PROVE  Lists'
<1>1. /\ Proc' = Proc /\ Nbr' = Nbr
      /\ \A p, s : SectorSet(p, s)' = SectorSet(p, s) /\ Border(p, s)' = Border(p, s)
  BY Fixed
<1>2. \A p : iset'[p] = iset[p] => SetSites(p)' = SetSites(p)
  BY FixedNear
<1>3. InteriorTrue'
  BY <1>1 DEF Lists, InteriorTrue
<1>4. EventsTrue'
  BY <1>1, <1>2 DEF Lists, EventsTrue
<1> QED BY <1>3, <1>4 DEF Lists

(* The lists of sites, as they follow from the lattice before and after.   *)
LEMMA ListsAre ==
    ASSUME layout' = layout, layout.kmc,
           \A p \in Proc, s \in Sectors : \A i \in SectorSet(p, s) \ Border(p, s) :
               events'[i] = SiteEvents(Truth', Nbr, i),
           \A p \in Proc : pc'[p] = "events" =>
               \A i \in SectorSet(p, iset'[p]) : events'[i] = SiteEvents(Truth', Nbr, i)
    PROVE  Lists'
<1>1. /\ Proc' = Proc /\ Nbr' = Nbr
      /\ \A p, s : SectorSet(p, s)' = SectorSet(p, s) /\ Border(p, s)' = Border(p, s)
  BY Fixed
<1>2. \A p : SetSites(p)' = SectorSet(p, iset'[p])
  BY DEF SetSites, SectorSet
<1>3. InteriorTrue'
  BY <1>1 DEF InteriorTrue
<1>4. EventsTrue'
  BY <1>1, <1>2 DEF EventsTrue
<1> QED BY <1>3, <1>4 DEF Lists

(* The lists as they are, sector by sector.                                *)
LEMMA ListsOf ==
    ASSUME Lists, layout.kmc
    PROVE  /\ \A p \in Proc, s \in Sectors : \A i \in SectorSet(p, s) \ Border(p, s) :
                 events[i] = SiteEvents(Truth, Nbr, i)
           /\ \A p \in Proc : pc[p] = "events" =>
                 \A i \in SectorSet(p, iset[p]) : events[i] = SiteEvents(Truth, Nbr, i)
BY CurrentSets DEF Lists, InteriorTrue, EventsTrue

(* Without a solver there are none.                                        *)
LEMMA ListsUnused ==
    ASSUME ~ layout.kmc, layout' = layout
    PROVE  Lists'
BY DEF Lists, InteriorTrue, EventsTrue

(* Before a sector starts the lists of its border are made anew.           *)
LEMMA AcquireLists ==
    ASSUME WideEnough, Protocol, Lists, NEW p \in Proc, Acquire(p), layout.kmc
    PROVE  Lists'
<1> DEFINE s == iset[p]
<1>1. /\ layout' = layout /\ iset' = iset /\ layout \in Layouts /\ s \in Sectors
      /\ pc' = [pc EXCEPT ![p] = "events"]
      /\ events' = Refreshed(events, Border(p, s), lat'[p])
  BY CountsOf DEF Protocol, Acquire
<1>2. /\ Protocol' /\ Truth' = Truth /\ pc'[p] = "events"
      /\ \A q \in Proc : q # p => pc'[q] = pc[q]
  BY <1>1, AcquireKeeps, AcquireTruth DEF Protocol, Types
<1>3. DOMAIN lat'[p] = Site /\ DOMAIN Truth = Site
  BY AcquireGets DEF Truth
<1>4. \A q \in Proc, t \in Sectors : \A i \in SectorSet(q, t) :
         i \in Site /\ (i \in Border(p, s) => q = p /\ t = s)
  <2>1. SUFFICES ASSUME NEW q \in Proc, NEW t \in Sectors, NEW i \in SectorSet(q, t)
                 PROVE  i \in Site /\ (i \in Border(p, s) => q = p /\ t = s)
    OBVIOUS
  <2>2. i \in Site /\ Owner[i] = q /\ SectorOf[i] = t
    BY <1>1, InSector
  <2>3. Border(p, s) \subseteq SectorSet(p, s)
    <3>1. Border(p, s) = {k \in SectorSet(p, s) : ~ (Within(Nbr, {k}, Site, 3) \subseteq SectorSet(p, s))}
      BY <1>1, TablesOf
    <3> HIDE DEF s
    <3> QED BY <3>1
  <2>4. i \in Border(p, s) => Owner[i] = p /\ SectorOf[i] = s
    BY <1>1, <2>3, InSector
  <2> QED BY <2>2, <2>4
<1>5. ASSUME NEW q \in Proc, NEW t \in Sectors, NEW i \in SectorSet(q, t), i \notin Border(q, t)
      PROVE  events'[i] = SiteEvents(Truth', Nbr, i)
  <2>1. i \in Site /\ i \notin Border(p, s)
    BY <1>4, <1>5
  <2>2. events'[i] = events[i]
    BY <1>1, <2>1, RefreshedOf
  <2> QED BY <1>2, <1>5, <2>2, ListsOf
<1>6. ASSUME NEW q \in Proc, pc'[q] = "events", NEW i \in SectorSet(q, iset[q])
      PROVE  events'[i] = SiteEvents(Truth', Nbr, i)
  <2>1. iset[q] \in Sectors /\ i \in Site
    BY <1>4, <1>6, CountsOf DEF Protocol
  <2>2. CASE i \notin Border(p, s)
    <3>1. CASE q = p
      BY <1>5, <1>6, <2>1, <2>2, <3>1
    <3>2. CASE q # p
      <4>1. events[i] = SiteEvents(Truth, Nbr, i)
        BY <1>2, <1>6, <3>2, ListsOf
      <4>2. events'[i] = events[i]
        BY <1>1, <2>1, <2>2, RefreshedOf
      <4> QED BY <1>2, <4>1, <4>2
    <3> QED BY <3>1, <3>2
  <2>3. CASE i \in Border(p, s)
    <3>1. q = p /\ i \in SetSites(p)
      BY <1>4, <1>6, <2>1, <2>3, CurrentSets
    <3>2. \A j \in Near2(i) : lat'[p][j] = Truth'[j]
      BY <1>1, <1>2, <3>1, SeenAfter
    <3>3. SiteEvents(lat'[p], Nbr, i) = SiteEvents(Truth, Nbr, i)
      BY <1>1, <1>2, <1>3, <2>1, <3>2, EventsLocal
    <3>4. events'[i] = SiteEvents(lat'[p], Nbr, i)
      BY <1>1, <2>1, <2>3, RefreshedOf
    <3> QED BY <1>2, <3>3, <3>4
  <2> QED BY <2>2, <2>3
<1> QED BY <1>1, <1>5, <1>6, ListsAre

(* A hop changes events of sites near it only.                             *)
LEMMA HopLocal ==
    ASSUME layout \in Layouts, NEW i \in Site, NEW j \in Site, NEW k \in Site,
           NEW l, DOMAIN l = Site, i \notin Near2(k), j \notin Near2(k)
    PROVE  SiteEvents(Hopped(l, i, j), Nbr, k) = SiteEvents(l, Nbr, k)
<1>1. DOMAIN Hopped(l, i, j) = Site
  BY DEF Hopped
<1>2. \A h \in Near2(k) : Hopped(l, i, j)[h] = l[h]
  <2>1. SUFFICES ASSUME NEW h \in Near2(k) PROVE Hopped(l, i, j)[h] = l[h]
    OBVIOUS
  <2>2. h \in Site /\ h # i /\ h # j
    BY NearOf
  <2> QED BY <2>2 DEF Hopped
<1> QED BY <1>1, <1>2, EventsLocal

(* The lists of the sector are renewed around a hop.                       *)
LEMMA HopLists ==
    ASSUME WideEnough, Protocol, Lists, layout.kmc, NEW p \in Proc, NEW i, NEW j, Moves(p, i, j),
           events' = Refreshed(events, SetSites(p) \cap Within(Nbr, {i, j}, Site, 2), lat'[p])
    PROVE  Lists'
<1> DEFINE s == iset[p]
           W == Within(Nbr, {i, j}, Site, 2)
<1>1. /\ pc[p] = "events" /\ i \in SetSites(p) /\ layout \in Layouts /\ pc' = pc /\ iset' = iset
      /\ DOMAIN lat[p] = Site /\ lat' = [lat EXCEPT ![p] = Hopped(lat[p], i, j)]
      /\ s \in Sectors /\ SetSites(p) = SectorSet(p, s)
      /\ Types /\ RunBounded /\ Causal
  BY CountsOf, CurrentSets DEF Moves, Protocol, Types
<1>2. /\ Protocol' /\ layout' = layout /\ Truth' = Hopped(Truth, i, j)
      /\ i \in Site /\ Owner[i] = p /\ j \in Site /\ i \in Near(i) /\ j \in Near(i)
  BY ChangesKeep, HopTruth
<1>3. DOMAIN Truth = Site /\ DOMAIN Truth' = Site /\ DOMAIN lat'[p] = Site
  <2>1. DOMAIN Truth = Site
    BY DEF Truth
  <2>2. lat'[p] = Hopped(lat[p], i, j)
    BY <1>1 DEF Protocol, Types
  <2> QED BY <1>1, <1>2, <2>1, <2>2 DEF Hopped
<1>4. \A k \in Site : k \in W <=> i \in Near2(k) \/ j \in Near2(k)
  <2>1. SUFFICES ASSUME NEW k \in Site PROVE k \in W <=> i \in Near2(k) \/ j \in Near2(k)
    OBVIOUS
  <2>2. {i, j} \in SUBSET Site
    BY <1>2
  <2>3. k \in W <=> \E h \in {i, j} : k \in Near2(h)
    BY <1>1, <2>2, ReachOf
  <2>4. k \in W <=> k \in Near2(i) \/ k \in Near2(j)
    <3> HIDE DEF W
    <3> QED BY <2>3
  <2>5. (k \in Near2(i) <=> i \in Near2(k)) /\ (k \in Near2(j) <=> j \in Near2(k))
    BY <1>1, <1>2, NearOf
  <2> HIDE DEF W
  <2> QED BY <2>4, <2>5
<1> HIDE DEF W
(* Away from the hop.                                                      *)
<1>5. ASSUME NEW k \in Site, i \notin Near2(k), j \notin Near2(k),
             events[k] = SiteEvents(Truth, Nbr, k)
      PROVE  events'[k] = SiteEvents(Truth', Nbr, k)
  <2>1. events'[k] = events[k]
    BY <1>4, <1>5, RefreshedOf DEF W
  <2>2. SiteEvents(Truth', Nbr, k) = SiteEvents(Truth, Nbr, k)
    BY <1>1, <1>2, <1>3, <1>5, HopLocal
  <2> QED BY <1>5, <2>1, <2>2
(* In the sector.                                                          *)
<1>6. ASSUME NEW k \in SetSites(p) PROVE events'[k] = SiteEvents(Truth', Nbr, k)
  <2>1. k \in Site /\ k \in SectorSet(p, s)
    BY <1>1, <1>6, InSector
  <2>2. CASE k \in W
    <3>1. \A h \in Near2(k) : lat'[p][h] = Truth'[h]
      BY <1>1, <1>2, <1>6, SeenAfter
    <3>2. SiteEvents(lat'[p], Nbr, k) = SiteEvents(Truth', Nbr, k)
      BY <1>1, <1>3, <2>1, <3>1, EventsLocal
    <3>3. events'[k] = SiteEvents(lat'[p], Nbr, k)
      <4>1. PICK S : S = SetSites(p) \cap W
        OBVIOUS
      <4>2. events' = Refreshed(events, S, lat'[p])
        BY <4>1 DEF W
      <4>3. k \in S
        BY <1>6, <2>2, <4>1
      <4> QED BY <2>1, <4>2, <4>3, RefreshedOf
    <3> QED BY <3>2, <3>3
  <2>3. CASE k \notin W
    <3>1. i \notin Near2(k) /\ j \notin Near2(k)
      BY <1>4, <2>1, <2>3
    <3>2. events[k] = SiteEvents(Truth, Nbr, k)
      BY <1>1, <2>1, ListsOf
    <3> QED BY <1>5, <2>1, <3>1, <3>2
  <2> QED BY <2>2, <2>3
<1>7. ASSUME NEW q \in Proc, NEW t \in Sectors, NEW k \in SectorSet(q, t), k \notin Border(q, t)
      PROVE  events'[k] = SiteEvents(Truth', Nbr, k)
  <2>1. k \in Site /\ Near3(k) \subseteq SectorSet(q, t)
    BY <1>1, <1>7, InSector, InteriorOf
  <2>2. CASE i \in Near3(k)
    <3>1. q = p /\ t = SectorOf[i] /\ s = SectorOf[i]
      <4>1. i \in SectorSet(q, t) /\ i \in SectorSet(p, s)
        BY <1>1, <2>1, <2>2
      <4> QED BY <1>1, <4>1, InSector
    <3>2. k \in SetSites(p)
      BY <1>1, <1>7, <3>1
    <3> QED BY <1>6, <3>2
  <2>3. CASE i \notin Near3(k)
    <3>1. i \notin Near2(k)
      BY <1>1, <2>1, <2>3, NearOf
    <3>2. j \notin Near2(k)
      BY <1>1, <1>2, <2>1, <2>3, NearOf
    <3>3. events[k] = SiteEvents(Truth, Nbr, k)
      BY <1>7, ListsOf
    <3> QED BY <1>5, <2>1, <3>1, <3>2, <3>3
  <2> QED BY <2>2, <2>3
<1>8. ASSUME NEW q \in Proc, pc'[q] = "events", NEW k \in SectorSet(q, iset[q])
      PROVE  events'[k] = SiteEvents(Truth', Nbr, k)
  <2>1. CASE q = p
    BY <1>1, <1>6, <1>8, <2>1
  <2>2. CASE q # p
    <3>1. k \in SetSites(q) /\ pc[q] = "events" /\ k \in Site
      BY <1>1, <1>8, CurrentSets, InSector, CountsOf
    <3>2. i \notin Near2(k) /\ j \notin Near2(k)
      BY <1>1, <1>2, <2>2, <3>1, EventsApart
    <3>3. events[k] = SiteEvents(Truth, Nbr, k)
      BY <1>8, <3>1, ListsOf
    <3> QED BY <1>5, <3>1, <3>2, <3>3
  <2> QED BY <2>1, <2>2
<1> QED BY <1>1, <1>2, <1>7, <1>8, ListsAre

(* After depositions the lists of borders and around new atoms are true.   *)
LEMMA UpdateLists ==
    ASSUME WideEnough, Protocol, Lists, AppUpdate
    PROVE  Lists'
<1>1. PICK path \in [1 .. SumOver(nbatch, Proc) -> Paths(layout)] :
         /\ lat' = [p \in Proc |-> [i \in Site |->
               IF i \in Mine(p) \cup AllGhosts(p) THEN After(path)[i] ELSE lat[p][i]]]
         /\ events' = Refreshed(events, Stale(path), After(path))
  BY UpdateIs
<1>2. /\ layout' = layout /\ layout \in Layouts /\ layout.kmc
      /\ pc' = [p \in Proc |-> NextSweep(p)]
  BY UpdateQuiet DEF AppUpdate
<1>3. /\ Truth' = After(path)
      /\ After(path) = [i \in Site |-> IF i \in Put(path) THEN OCCUPIED ELSE Truth[i]]
  BY <1>1, UpdateTruth
<1>4. DOMAIN Truth = Site /\ DOMAIN Truth' = Site
  BY <1>3 DEF Truth
<1>5. \A p \in Proc : pc'[p] # "events"
  BY <1>2 DEF NextSweep
<1>6. ASSUME NEW p \in Proc, NEW s \in Sectors, NEW i \in SectorSet(p, s), i \notin Border(p, s)
      PROVE  events'[i] = SiteEvents(Truth', Nbr, i)
  <2>1. i \in Site /\ Owner[i] = p /\ SectorOf[i] = s /\ Near3(i) \subseteq SectorSet(p, s)
    BY <1>2, <1>6, InSector, InteriorOf
  <2>2. CASE i \in Stale(path)
    BY <1>1, <1>3, <2>1, <2>2, RefreshedOf
  <2>3. CASE i \notin Stale(path)
    <3>1. ASSUME NEW j \in Near2(i) PROVE j \in Site /\ j \notin Put(path)
      <4>1. j \in SectorSet(p, s) /\ i \in Near2(j)
        BY <1>2, <2>1, <3>1, NearOf
      <4>2. j \in Site /\ Owner[j] = p /\ SectorOf[j] = s
        BY <1>2, <4>1, InSector
      <4>3. i \in Within(Nbr, {j}, Site, 2)
        <5>1. {j} \in SUBSET Site
          BY <4>2
        <5> QED BY <1>2, <4>1, <5>1, ReachOf
      <4> QED BY <2>1, <2>3, <4>2, <4>3 DEF Stale
    <3>2. \A j \in Near2(i) : Truth'[j] = Truth[j]
      BY <1>3, <3>1
    <3>3. SiteEvents(Truth', Nbr, i) = SiteEvents(Truth, Nbr, i)
      BY <1>2, <1>4, <2>1, <3>2, EventsLocal
    <3>4. events'[i] = events[i]
      BY <1>1, <2>1, <2>3, RefreshedOf
    <3>5. events[i] = SiteEvents(Truth, Nbr, i)
      BY <1>2, <1>6, ListsOf
    <3> QED BY <3>3, <3>4, <3>5
  <2> QED BY <2>2, <2>3
<1> QED BY <1>2, <1>5, <1>6, ListsAre

(* All lists are true at the start.                                        *)
LEMMA InitLists ==
    ASSUME WideEnough, Init
    PROVE  Lists
<1>1. Protocol /\ layout \in Layouts
  BY InitProtocol DEF Init
<1>2. PICK atoms \in Starts(layout) :
         /\ lat = [p \in Proc |-> [i \in Site |->
               IF i \in Mine(p) \cup AllGhosts(p) THEN Value(layout, atoms)[i] ELSE Unknown]]
         /\ events = [i \in Site |-> IF layout.kmc THEN SiteEvents(Value(layout, atoms), Nbr, i) ELSE {}]
  BY DEF Init
<1>3. \A p \in Proc : pc[p] = "forward"
  BY DEF Init
<1>4. \A i \in Site : Owner[i] \in Proc /\ i \in Mine(Owner[i])
  BY <1>1, LatticeOf DEF Mine
<1>5. \A i \in Site : Truth[i] = Value(layout, atoms)[i]
  <2>1. SUFFICES ASSUME NEW i \in Site PROVE Truth[i] = Value(layout, atoms)[i]
    OBVIOUS
  <2>2. Truth[i] = lat[Owner[i]][i]
    BY <1>1, <1>3, <1>4, TruthHome
  <2> QED BY <1>2, <1>4, <2>2
<1>6. Truth = Value(layout, atoms)
  <2>1. Truth = [i \in Site |-> Truth[i]]
    BY DEF Truth
  <2>2. Value(layout, atoms) = [i \in Site |-> Value(layout, atoms)[i]]
    BY <1>1, GeometryOf DEF Value
  <2> QED BY <1>5, <2>1, <2>2
<1>7. InteriorTrue
  <2>1. \A p \in Proc, s \in Sectors : \A i \in SectorSet(p, s) : i \in Site
    BY <1>1, InSector
  <2> QED BY <1>2, <1>6, <2>1 DEF InteriorTrue
<1>8. EventsTrue
  BY <1>3 DEF EventsTrue
<1> QED BY <1>7, <1>8 DEF Lists

-----------------------------------------------------------------------------
(* Every step, on the lattice as a whole.                                  *)

(* A hop of a process takes an atom where one may go on the whole lattice. *)
LEMMA HopIs ==
    ASSUME WideEnough, Protocol, Lists, NEW p \in Proc, Hop(p)
    PROVE  \E i, j : /\ Moves(p, i, j) /\ j \in Targets(Truth, Nbr, i) /\ layout.kmc
                     /\ events' = Refreshed(events, SetSites(p) \cap Within(Nbr, {i, j}, Site, 2), lat'[p])
<1>1. /\ pc[p] = "events" /\ layout.kmc /\ done[p] < StopEvents
      /\ done' = [done EXCEPT ![p] = @ + 1]
      /\ UNCHANGED <<layout, pc, iset, sweep, chan, nbatch, ndeposit>>
  BY DEF Hop
<1>2. PICK i \in SetSites(p) : \E e \in events[i] :
         /\ lat' = [lat EXCEPT ![p] = Hopped(lat[p], i, e.to)]
         /\ events' = Refreshed(events, SetSites(p) \cap Within(Nbr, {i, e.to}, Site, 2),
                                Hopped(lat[p], i, e.to))
  BY DEF Hop
<1>3. PICK e \in events[i] :
         /\ lat' = [lat EXCEPT ![p] = Hopped(lat[p], i, e.to)]
         /\ events' = Refreshed(events, SetSites(p) \cap Within(Nbr, {i, e.to}, Site, 2),
                                Hopped(lat[p], i, e.to))
  BY <1>2
<1>4. events[i] = SiteEvents(Truth, Nbr, i)
  BY <1>1 DEF Lists, EventsTrue
<1>5. PICK j \in Targets(Truth, Nbr, i) : e.to = j
  BY <1>3, <1>4 DEF SiteEvents
<1>6. j \in Nbr[i] /\ lat'[p] = Hopped(lat[p], i, j)
  BY <1>3, <1>5 DEF Targets, Protocol, Types
<1>7. Moves(p, i, j)
  BY <1>1, <1>3, <1>5, <1>6 DEF Moves
<1>8. events' = Refreshed(events, SetSites(p) \cap Within(Nbr, {i, j}, Site, 2), lat'[p])
  BY <1>3, <1>5, <1>6
<1> QED BY <1>1, <1>5, <1>7, <1>8

(* And so does one of the rejection solver.                                *)
LEMMA TryHopIs ==
    ASSUME WideEnough, Protocol, NEW p \in Proc, TryHop(p)
    PROVE  \E i, j : Moves(p, i, j) /\ j \in Targets(Truth, Nbr, i) /\ ~ layout.kmc
<1>1. /\ pc[p] = "events" /\ ~ layout.kmc /\ done[p] < StopEvents
      /\ done' = [done EXCEPT ![p] = @ + 1]
      /\ UNCHANGED <<layout, pc, iset, sweep, chan, nbatch, ndeposit>>
  BY DEF TryHop
<1>2. PICK i \in SetSites(p) : \E j \in Targets(lat[p], Nbr, i) :
         lat' = [lat EXCEPT ![p] = Hopped(lat[p], i, j)]
  BY DEF TryHop
<1>3. PICK j \in Targets(lat[p], Nbr, i) : lat' = [lat EXCEPT ![p] = Hopped(lat[p], i, j)]
  BY <1>2
<1>4. /\ i \in Site /\ layout \in Layouts /\ DOMAIN lat[p] = Site /\ DOMAIN Truth = Site
      /\ \A k \in Near2(i) : lat[p][k] = Truth[k]
  <2>1. /\ i \in Site /\ \A k \in Near2(i) : lat[p][k] = Truth[k]
    BY <1>1, SeenBefore
  <2>2. layout \in Layouts /\ DOMAIN lat[p] = Site
    BY DEF Protocol, Types
  <2>3. DOMAIN Truth = Site
    BY DEF Truth
  <2> QED BY <2>1, <2>2, <2>3
<1>5. Targets(lat[p], Nbr, i) = Targets(Truth, Nbr, i)
  BY <1>4, EventsLocal
<1>6. j \in Nbr[i]
  BY DEF Targets
<1> QED BY <1>1, <1>3, <1>5, <1>6 DEF Moves

(* What a step of no deposition does to the lattice.                       *)
Hops == \E i \in Site : \E j \in Targets(Truth, Nbr, i) : Truth' = Hopped(Truth, i, j)

(* A move that the lattice allows is a hop on the lattice.                 *)
LEMMA MovesHops ==
    ASSUME WideEnough, Protocol, NEW p \in Proc, NEW i, NEW j, Moves(p, i, j),
           j \in Targets(Truth, Nbr, i)
    PROVE  Hops
<1>1. i \in Site /\ Truth' = Hopped(Truth, i, j)
  BY ChangesKeep, HopTruth
<1> QED BY <1>1 DEF Hops

(* The invariant is kept by every step, and each is a hop, a deposition or *)
(* nothing on the whole lattice.                                           *)
LEMMA StepIs ==
    ASSUME WideEnough, IInv, [Next]_vars
    PROVE  /\ IInv' /\ layout' = layout
           /\ AppUpdate \/ ((Truth' = Truth \/ Hops) /\ ndeposit' = ndeposit)
<1>1. Protocol /\ Lists
  BY DEF IInv
<1>2. CASE AppUpdate
  BY <1>1, <1>2, AppUpdateKeeps, UpdateLists DEF IInv, AppUpdate
<1>3. CASE UNCHANGED vars
  BY <1>1, <1>3, Unchanged, ListsStay DEF IInv
<1>4. ASSUME NEW p \in Proc, SendForward(p)
      PROVE  IInv' /\ layout' = layout /\ Truth' = Truth /\ ndeposit' = ndeposit
  <2>1. Protocol' /\ Truth' = Truth
    BY <1>1, <1>4, SendForwardKeeps, SendForwardTruth
  <2>2. \A q \in Proc : pc'[q] = "events" => pc[q] = "events"
    BY <1>1, <1>4 DEF SendForward, Protocol, Types
  <2>3. /\ layout' = layout /\ iset' = iset /\ events' = events /\ ndeposit' = ndeposit
    BY <1>4 DEF SendForward
  <2> QED BY <1>1, <2>1, <2>2, <2>3, ListsStay DEF IInv
<1>5. ASSUME NEW p \in Proc, Acquire(p)
      PROVE  IInv' /\ layout' = layout /\ Truth' = Truth /\ ndeposit' = ndeposit
  <2>1. Protocol' /\ Truth' = Truth /\ layout' = layout /\ ndeposit' = ndeposit
    BY <1>1, <1>5, AcquireKeeps, AcquireTruth DEF Acquire
  <2>2. Lists'
    BY <1>1, <1>5, <2>1, AcquireLists, ListsUnused
  <2> QED BY <2>1, <2>2 DEF IInv
<1>6. ASSUME NEW p \in Proc, Hop(p)
      PROVE  IInv' /\ layout' = layout /\ Hops /\ ndeposit' = ndeposit
  <2>1. PICK i, j :
           /\ Moves(p, i, j) /\ j \in Targets(Truth, Nbr, i) /\ layout.kmc
           /\ events' = Refreshed(events, SetSites(p) \cap Within(Nbr, {i, j}, Site, 2), lat'[p])
    BY <1>1, <1>6, HopIs
  <2>2. Protocol' /\ layout' = layout /\ Hops /\ ndeposit' = ndeposit
    BY <1>1, <2>1, ChangesKeep, MovesHops DEF Moves
  <2>3. Lists'
    BY <1>1, <2>1, HopLists
  <2> QED BY <2>2, <2>3 DEF IInv
<1>7. ASSUME NEW p \in Proc, TryHop(p)
      PROVE  IInv' /\ layout' = layout /\ Hops /\ ndeposit' = ndeposit
  <2>1. PICK i, j : Moves(p, i, j) /\ j \in Targets(Truth, Nbr, i) /\ ~ layout.kmc
    BY <1>1, <1>7, TryHopIs
  <2>2. Protocol' /\ layout' = layout /\ Hops /\ ndeposit' = ndeposit
    BY <1>1, <2>1, ChangesKeep, MovesHops DEF Moves
  <2> QED BY <2>1, <2>2, ListsUnused DEF IInv
<1>8. ASSUME NEW p \in Proc, Tally(p)
      PROVE  IInv' /\ layout' = layout /\ Truth' = Truth /\ ndeposit' = ndeposit
  <2>1. Protocol' /\ Truth' = Truth
    BY <1>1, <1>8, TallyKeeps, TallyTruth
  <2>2. /\ layout' = layout /\ pc' = pc /\ iset' = iset /\ events' = events /\ ndeposit' = ndeposit
    BY <1>8 DEF Tally
  <2> QED BY <1>1, <2>1, <2>2, ListsStay DEF IInv
<1>9. ASSUME NEW p \in Proc, EndSector(p)
      PROVE  IInv' /\ layout' = layout /\ Truth' = Truth /\ ndeposit' = ndeposit
  <2>1. Protocol' /\ Truth' = Truth
    BY <1>1, <1>9, EndSectorKeeps, EndSectorTruth
  <2>2. \A q \in Proc : pc'[q] = "events" => pc[q] = "events"
    BY <1>1, <1>9 DEF EndSector, Protocol, Types
  <2>3. /\ layout' = layout /\ iset' = iset /\ events' = events /\ ndeposit' = ndeposit
    BY <1>9 DEF EndSector
  <2> QED BY <1>1, <2>1, <2>2, <2>3, ListsStay DEF IInv
<1>10. ASSUME NEW p \in Proc, Collect(p)
       PROVE  IInv' /\ layout' = layout /\ Truth' = Truth /\ ndeposit' = ndeposit
  <2>1. Protocol' /\ Truth' = Truth
    BY <1>1, <1>10, CollectKeeps, CollectTruth
  <2>2. /\ layout' = layout /\ pc'[p] \in {"forward", "update", "done"}
        /\ \A q \in Proc : q # p => pc'[q] = pc[q] /\ iset'[q] = iset[q]
    BY <1>1, <1>10, CollectMoves DEF Protocol
  <2>3. events' = events /\ ndeposit' = ndeposit
    BY <1>10 DEF Collect
  <2>4. \A q \in Proc : pc'[q] = "events" => pc[q] = "events" /\ iset'[q] = iset[q]
    BY <2>2
  <2> QED BY <1>1, <2>1, <2>2, <2>3, <2>4, ListsStay DEF IInv
<1> QED BY <1>2, <1>3, <1>4, <1>5, <1>6, <1>7, <1>8, <1>9, <1>10 DEF Next, Finished

(* The invariant holds throughout.                                         *)
LEMMA Inductive ==
    ASSUME WideEnough
    PROVE  Spec => []IInv
<1>1. Init => IInv
  BY InitProtocol, InitLists DEF IInv
<1>2. IInv /\ [Next]_vars => IInv'
  BY StepIs
<1> QED BY <1>1, <1>2, PTL DEF Spec

(* Every variable holds a value of its kind: what process p receives for a *)
(* sector lies within its ghosts, no more is deposited than was asked for. *)
THEOREM TypeCorrect ==
    ASSUME WideEnough
    PROVE  Spec => []TypeOK
<1>1. IInv => TypeOK
  <2>1. SUFFICES ASSUME IInv PROVE TypeOK
    OBVIOUS
  <2>2. Types /\ RunBounded /\ InTransit /\ layout \in Layouts
    BY <2>1 DEF IInv, Protocol, Types
  <2>3. \A p \in Proc : \A i \in Site :
           lat[p][i] \in IF i \in Mine(p) \cup AllGhosts(p) THEN {VACANT, OCCUPIED} ELSE {Unknown}
    BY <2>2 DEF Types, Atom
  <2>4. \A p \in Proc :
           /\ pc[p] \in {"forward", "acquire", "events", "reverse", "update", "done"}
           /\ iset[p] \in Sectors /\ sweep[p] \in 1 .. layout.sweeps /\ done[p] \in 0 .. StopEvents
           /\ nbatch[p] \in 0 .. StopBatch
    BY <2>2 DEF Types
  <2>5. ASSUME NEW p \in Proc, NEW q \in Proc, NEW k, k \in DOMAIN chan[q][p]
        PROVE  DOMAIN chan[q][p][k] \subseteq Site
    <3>1. chan[q][p] \in Seq(Messages)
      BY <2>2 DEF InTransit
    <3>2. chan[q][p][k] \in Messages
      BY <2>5, <3>1
    <3> QED BY <3>2 DEF Messages
  <2>6. ndeposit \in 0 .. StopBatch * layout.sweeps
    <3>1. /\ 0 \in Proc /\ StopBatch \in Nat /\ ndeposit \in Nat /\ layout.kmc \in BOOLEAN
          /\ layout.sweeps \in Nat /\ sweep[0] \in 1 .. layout.sweeps
      BY <2>2, <2>4, LatticeOf, LayoutOf, HopAssumption DEF Types
    <3>2. \A n \in 0 .. layout.sweeps : StopBatch * n <= StopBatch * layout.sweeps
      BY <3>1
    <3>3. PICK n \in 0 .. layout.sweeps : layout.kmc => ndeposit <= StopBatch * n
      <4>1. PICK n : n = IF pc[0] = "done" THEN sweep[0] ELSE sweep[0] - 1
        OBVIOUS
      <4>2. n \in 0 .. layout.sweeps
        BY <3>1, <4>1
      <4>3. layout.kmc => ndeposit <= StopBatch * n
        BY <2>2, <3>1, <4>1 DEF RunBounded
      <4> QED BY <4>2, <4>3
    <3>4. StopBatch * n \in Nat /\ StopBatch * layout.sweeps \in Nat
      BY <3>1, <3>3
    <3>5. ~ layout.kmc => ndeposit = 0
      BY <2>2 DEF RunBounded
    <3> QED BY <3>1, <3>2, <3>3, <3>4, <3>5
  <2> QED BY <2>2, <2>3, <2>4, <2>5, <2>6 DEF TypeOK
<1> QED BY <1>1, Inductive, PTL

(* A sector draws its events from lists that are those of the whole        *)
(* lattice at that moment: no hop across the edge of another sector or     *)
(* sub-domain and no deposition leaves one stale.                          *)
THEOREM EventsStayTrue ==
    ASSUME WideEnough
    PROVE  Spec => []EventsTrue
<1>1. IInv => EventsTrue
  BY DEF IInv, Lists
<1> QED BY <1>1, Inductive, PTL

-----------------------------------------------------------------------------
(* What is deposited where.                                                *)

(* What a process proposes is the first of its sites on the path.          *)
LEMMA CandidateOf ==
    ASSUME NEW p, NEW path \in Seq(Site)
    PROVE  LET c == Candidate(p, path)
           IN  /\ c.distance \in 1 .. Len(path) + 1
               /\ \A k \in 1 .. Len(path) : path[k] \in Eligible(p) => c.distance <= k
               /\ c.distance = Len(path) + 1 => c.site = Nowhere
               /\ c.distance \in 1 .. Len(path) =>
                     c.site = path[c.distance] /\ c.site \in Eligible(p)
<1> DEFINE near == {k \in DOMAIN path : path[k] \in Eligible(p)}
           c == Candidate(p, path)
           best == CHOOSE k \in near : \A n \in near : k <= n
<1>1. DOMAIN path = 1 .. Len(path) /\ Len(path) \in Nat
  OBVIOUS
<1>2. c = IF near = {} THEN [proc |-> p, site |-> Nowhere, distance |-> Len(path) + 1]
          ELSE [proc |-> p, site |-> path[best], distance |-> best]
  BY DEF Candidate
<1>3. CASE near = {}
  <2>1. c.distance = Len(path) + 1 /\ c.site = Nowhere
    BY <1>2, <1>3
  <2>2. \A k \in 1 .. Len(path) : path[k] \notin Eligible(p)
    BY <1>1, <1>3
  <2> HIDE DEF c
  <2> QED BY <1>1, <2>1, <2>2 DEF c
<1>4. CASE near # {}
  <2>1. near \in SUBSET Nat
    BY <1>1
  <2>2. \E k \in near : \A n \in near : k <= n
    <3> HIDE DEF near
    <3> QED BY <1>4, <2>1, LeastElement
  <2>3. best \in near /\ \A n \in near : best <= n
    <3> HIDE DEF near
    <3> QED BY <2>2
  <2>4. c.distance = best /\ c.site = path[best]
    BY <1>2, <1>4, SMTT(30)
  <2>5. best \in 1 .. Len(path) /\ path[best] \in Eligible(p)
    BY <1>1, <2>3
  <2>6. \A k \in 1 .. Len(path) : path[k] \in Eligible(p) => k \in near
    BY <1>1
  <2> HIDE DEF c, best, near
  <2> QED BY <1>1, <2>3, <2>4, <2>5, <2>6 DEF c
<1> QED BY <1>3, <1>4

(* What the reduction makes, at nsplit = n, of what it has at 2 * n.       *)
Reduced(path, f, n) ==
    IF ~ Split(n) THEN [p \in Proc |-> Candidate(p, path)]
    ELSE [p \in Proc |-> IF p < n /\ p + n \in Proc
                         THEN Closer(f[2 * n][p], f[2 * n][p + n])
                         ELSE f[2 * n][p]]

Reduces(path, f) == f = [n \in Nat \ {0} |-> Reduced(path, f, n)]

(* The reduction is defined: nsplit doubles until it is out of range.      *)
LEMMA ReductionExists ==
    ASSUME layout \in Layouts, NEW path
    PROVE  \E f : Reduces(path, f)
<1> DEFINE C == {Candidate(p, path) : p \in Proc}
           X == [Nat \ {0} -> [Proc -> C]]
           base == [n \in Nat \ {0} |-> [p \in Proc |-> Candidate(p, path)]]
           step == [x \in Nat \X X |-> [n \in Nat \ {0} |-> Reduced(path, x[2], n)]]
           px == layout.px
<1>1. px \in Nat \ {0}
  BY LayoutOf
<1>2. base \in X
  OBVIOUS
<1>3. ASSUME NEW f \in X, NEW n \in Nat \ {0} PROVE Reduced(path, f, n) \in [Proc -> C]
  <2>1. \A p \in Proc : Candidate(p, path) \in C
    OBVIOUS
  <2>2. f[2 * n] \in [Proc -> C]
    <3> HIDE DEF C
    <3>1. 2 * n \in Nat \ {0}
      OBVIOUS
    <3> QED BY <3>1
  <2> HIDE DEF C
  <2>3. \A a, b \in C : Closer(a, b) \in C
    BY DEF Closer
  <2> QED BY <2>1, <2>2, <2>3 DEF Reduced
<1> HIDE DEF C, base, px
<1>4. step \in [Nat \X X -> X]
  <2>1. ASSUME NEW x \in Nat \X X PROVE [n \in Nat \ {0} |-> Reduced(path, x[2], n)] \in X
    BY <1>3
  <2> HIDE DEF X
  <2> QED BY <2>1
<1>5. PICK G : Recurs(G, base, step, X)
  <2> HIDE DEF step, X
  <2> QED BY <1>2, <1>4, RecursionOnNat
<1>6. \A k \in Nat : G[k] \in X /\ G[k + 1] = [n \in Nat \ {0} |-> Reduced(path, G[k], n)]
  <2>1. SUFFICES ASSUME NEW k \in Nat
                 PROVE  G[k] \in X /\ G[k + 1] = [n \in Nat \ {0} |-> Reduced(path, G[k], n)]
    OBVIOUS
  <2>2. G[k] \in X /\ G[k + 1] = step[<<k, G[k]>>]
    <3> HIDE DEF step, X
    <3> QED BY <1>5 DEF Recurs
  <2>3. <<k, G[k]>> \in Nat \X X
    BY <2>2
  <2>4. step[<<k, G[k]>>] = [n \in Nat \ {0} |-> Reduced(path, G[k], n)]
    <3> HIDE DEF X
    <3> QED BY <2>3
  <2> QED BY <2>2, <2>4
<1>7. G[0] = base
  <2> HIDE DEF step, X
  <2> QED BY <1>5 DEF Recurs
<1> HIDE DEF step, X
<1>8. \A k \in Nat : \A n \in Nat \ {0} : G[k + 1][n] = Reduced(path, G[k], n)
  BY <1>6
(* After as many steps as it takes nothing changes any more.               *)
<1>9. \A k \in Nat : \A n \in Nat \ {0} : n + k >= px => G[k + 1][n] = G[k][n]
  <2> DEFINE Bad == {k \in Nat : \E n \in Nat \ {0} : n + k >= px /\ G[k + 1][n] # G[k][n]}
  <2>1. SUFFICES ASSUME Bad # {} PROVE FALSE
    OBVIOUS
  <2>2. Bad \in SUBSET Nat
    OBVIOUS
  <2>3. PICK k \in Bad : \A h \in Bad : k <= h
    <3> HIDE DEF Bad
    <3> QED BY <2>1, <2>2, LeastElement
  <2>4. PICK n \in Nat \ {0} : n + k >= px /\ G[k + 1][n] # G[k][n]
    OBVIOUS
  <2>5. Split(n) <=> n < px
    BY DEF Split, px
  <2>6. CASE k = 0
    <3>1. ~ Split(n)
      BY <1>1, <2>4, <2>5, <2>6
    <3>2. G[0 + 1][n] = [p \in Proc |-> Candidate(p, path)]
      BY <1>8, <3>1 DEF Reduced
    <3> QED BY <1>7, <2>4, <2>6, <3>2 DEF base
  <2>7. CASE k # 0
    <3>1. PICK h \in Nat : k = h + 1
      <4>1. k - 1 \in Nat /\ k = (k - 1) + 1
        BY <2>7
      <4> QED BY <4>1
    <3>2. h \notin Bad
      BY <2>3, <3>1
    <3>3. 2 * n \in Nat \ {0} /\ (n < px => 2 * n + h >= px)
      BY <1>1, <2>4, <3>1
    <3>4. n < px => G[h + 1][2 * n] = G[h][2 * n]
      <4>1. PICK m \in Nat \ {0} : m = 2 * n
        BY <3>3
      <4> QED BY <3>2, <3>3, <4>1
    <3>5. G[k + 1][n] = Reduced(path, G[k], n) /\ G[k][n] = Reduced(path, G[h], n)
      BY <1>8, <3>1
    <3>6. Reduced(path, G[k], n) = Reduced(path, G[h], n)
      BY <2>5, <3>1, <3>4 DEF Reduced
    <3> QED BY <2>4, <3>5, <3>6
  <2> QED BY <2>6, <2>7
<1>10. \A n \in Nat \ {0} : Reduced(path, G[px], n) = G[px][n]
  <2>1. SUFFICES ASSUME NEW n \in Nat \ {0} PROVE Reduced(path, G[px], n) = G[px][n]
    OBVIOUS
  <2>2. n + px >= px
    BY <1>1
  <2> QED BY <1>1, <1>8, <1>9, <2>2
<1>11. G[px] = [n \in Nat \ {0} |-> G[px][n]]
  BY <1>1, <1>6 DEF X
<1> QED BY <1>10, <1>11 DEF Reduces

(* The reduction, for any number of processes, ends with a candidate that  *)
(* is no farther than any other.                                           *)
LEMMA MergedOf ==
    ASSUME layout \in Layouts, NEW path \in Seq(Site)
    PROVE  \E q \in Proc : /\ Merged(path) = Candidate(q, path)
                           /\ \A r \in Proc : Merged(path).distance <= Candidate(r, path).distance
<1> DEFINE C(q) == Candidate(q, path)
           px == layout.px
           Is(f) == f = [n \in Nat \ {0} |->
                          IF ~ Split(n) THEN [p \in Proc |-> Candidate(p, path)]
                          ELSE [p \in Proc |-> IF p < n /\ p + n \in Proc
                                               THEN Closer(f[2 * n][p], f[2 * n][p + n])
                                               ELSE f[2 * n][p]]]
           info == CHOOSE f : Is(f)
(* What holds of the candidates that are left at nsplit = n.               *)
           Left(n) == /\ \A p \in Proc : \E q \in Proc : info[n][p] = C(q)
                      /\ \A q \in Proc : \E p \in Proc :
                            p < n /\ info[n][p].distance <= C(q).distance
<1>1. px \in Nat \ {0} /\ Proc = 0 .. px - 1
  BY LayoutOf DEF Proc, Procs
<1>2. Is(info)
  <2>1. \E f : Is(f)
    <3>1. PICK f : Reduces(path, f)
      BY ReductionExists
    <3>2. Is(f)
      BY <3>1 DEF Reduces, Reduced
    <3> HIDE DEF Is
    <3> QED BY <3>2
  <2> HIDE DEF Is
  <2> QED BY <2>1
<1>3. Merged(path) = info[1][0]
  BY DEF Merged
<1>4. \A n \in Nat \ {0} :
         info[n] = IF ~ Split(n) THEN [p \in Proc |-> C(p)]
                   ELSE [p \in Proc |-> IF p < n /\ p + n \in Proc
                                        THEN Closer(info[2 * n][p], info[2 * n][p + n])
                                        ELSE info[2 * n][p]]
  <2> HIDE DEF info
  <2> QED BY <1>2
<1> HIDE DEF info, Is, px
<1>5. \A q \in Proc : /\ C(q).distance \in 1 .. Len(path) + 1
                      /\ C(q).distance = Len(path) + 1 => C(q).site = Nowhere
                      /\ C(q).site = Nowhere => C(q).distance = Len(path) + 1
  <2>1. SUFFICES ASSUME NEW q \in Proc
                 PROVE  /\ C(q).distance \in 1 .. Len(path) + 1
                        /\ C(q).distance = Len(path) + 1 => C(q).site = Nowhere
                        /\ C(q).site = Nowhere => C(q).distance = Len(path) + 1
    OBVIOUS
  <2>2. /\ C(q).distance \in 1 .. Len(path) + 1
        /\ C(q).distance = Len(path) + 1 => C(q).site = Nowhere
        /\ C(q).distance \in 1 .. Len(path) => C(q).site \in Eligible(q)
    BY CandidateOf
  <2>3. Nowhere \notin Eligible(q)
    <3>1. \A i \in Site : i \in Nat
      BY LayoutOf, GeometryOf DEF LineSites
    <3> QED BY <3>1 DEF Eligible, Mine, Nowhere
  <2>4. Len(path) \in Nat
    OBVIOUS
  <2> HIDE DEF C
  <2> QED BY <2>2, <2>3, <2>4
<1> HIDE DEF C
<1>6. \A a, b : (\E q \in Proc : a = C(q)) /\ (\E q \in Proc : b = C(q)) =>
         /\ Closer(a, b) = a \/ Closer(a, b) = b
         /\ Closer(a, b).distance <= a.distance /\ Closer(a, b).distance <= b.distance
  <2>1. SUFFICES ASSUME NEW a, NEW b, NEW q \in Proc, a = C(q), NEW r \in Proc, b = C(r)
                 PROVE  /\ Closer(a, b) = a \/ Closer(a, b) = b
                        /\ Closer(a, b).distance <= a.distance /\ Closer(a, b).distance <= b.distance
    OBVIOUS
  <2>2. Len(path) \in Nat
    OBVIOUS
  <2>3. /\ a.distance \in 1 .. Len(path) + 1 /\ b.distance \in 1 .. Len(path) + 1
        /\ b.site = Nowhere => b.distance = Len(path) + 1
    BY <1>5, <2>1
  <2> QED BY <2>2, <2>3 DEF Closer
<1>7. \A n \in Nat \ {0} : n >= px => Left(n)
  <2>1. SUFFICES ASSUME NEW n \in Nat \ {0}, n >= px PROVE Left(n)
    OBVIOUS
  <2>2. info[n] = [p \in Proc |-> C(p)]
    <3>1. ~ Split(n)
      BY <1>1, <2>1 DEF Split, px
    <3> QED BY <1>4, <3>1
  <2>3. \A q \in Proc : q < n /\ C(q).distance <= C(q).distance
    BY <1>1, <1>5, <2>1
  <2> QED BY <2>2, <2>3
<1>8. \A n \in Nat \ {0} : n < px /\ Left(2 * n) => Left(n)
  <2>1. SUFFICES ASSUME NEW n \in Nat \ {0}, n < px, Left(2 * n) PROVE Left(n)
    OBVIOUS
  <2> DEFINE old == info[2 * n]
  <2>2. \A p \in Proc : info[n][p] = IF p < n /\ p + n \in Proc THEN Closer(old[p], old[p + n])
                                     ELSE old[p]
    <3>1. Split(n)
      BY <2>1 DEF Split, px
    <3>2. info[n] = [p \in Proc |-> IF p < n /\ p + n \in Proc THEN Closer(old[p], old[p + n])
                                   ELSE old[p]]
      BY <1>4, <3>1
    <3> QED BY <3>2
  <2>3. \A p \in Proc : \E q \in Proc : old[p] = C(q)
    BY <2>1
  <2>4. \A q \in Proc : \E p \in Proc : p < 2 * n /\ old[p].distance <= C(q).distance
    BY <2>1
  <2> HIDE DEF old
  <2>5. ASSUME NEW p \in Proc PROVE \E q \in Proc : info[n][p] = C(q)
    <3>1. CASE p < n /\ p + n \in Proc
      <4>1. info[n][p] = old[p] \/ info[n][p] = old[p + n]
        BY <1>6, <2>2, <2>3, <3>1
      <4> QED BY <2>3, <3>1, <4>1
    <3>2. CASE ~ (p < n /\ p + n \in Proc)
      BY <2>2, <2>3, <3>2
    <3> QED BY <3>1, <3>2
  <2>6. ASSUME NEW q \in Proc
        PROVE  \E p \in Proc : p < n /\ info[n][p].distance <= C(q).distance
    <3>1. PICK b \in Proc : b < 2 * n /\ old[b].distance <= C(q).distance
      BY <2>4
    <3>2. PICK p \in Proc : p < n /\ info[n][p].distance <= old[b].distance
      <4>1. old[b].distance \in Nat
        BY <1>5, <2>3
      <4>2. CASE b < n
        <5>1. info[n][b].distance <= old[b].distance
          <6>1. CASE b + n \in Proc
            BY <1>6, <2>2, <2>3, <4>2, <6>1
          <6>2. CASE b + n \notin Proc
            BY <2>2, <4>1, <6>2
          <6> QED BY <6>1, <6>2
        <5> QED BY <4>2, <5>1
      <4>3. CASE ~ (b < n)
        <5>1. b - n \in Proc /\ b - n < n /\ (b - n) + n = b
          <6>1. b \in 0 .. px - 1 /\ b < 2 * n /\ ~ (b < n)
            BY <1>1, <3>1, <4>3
          <6> QED BY <1>1, <6>1
        <5>2. PICK p \in Proc : p < n /\ p + n = b
          BY <5>1
        <5>3. info[n][p] = Closer(old[p], old[b])
          BY <2>2, <5>2
        <5>4. info[n][p].distance <= old[b].distance
          BY <1>6, <2>3, <5>3
        <5> QED BY <5>2, <5>4
      <4> QED BY <4>2, <4>3
    <3>3. info[n][p].distance \in Nat /\ old[b].distance \in Nat /\ C(q).distance \in Nat
      <4>1. \A r \in Proc : C(r).distance \in Nat
        BY <1>5
      <4> QED BY <2>3, <2>5, <4>1
    <3> QED BY <3>1, <3>2, <3>3
  <2> QED BY <2>5, <2>6
<1>9. Left(1)
  <2> DEFINE Bad == {k \in Nat : \E n \in Nat \ {0} : n + k >= px /\ ~ Left(n)}
  <2> HIDE DEF Left
  <2>1. SUFFICES ASSUME ~ Left(1) PROVE FALSE
    OBVIOUS
  <2>2. Bad \in SUBSET Nat
    OBVIOUS
  <2>3. px \in Bad
    <3>1. 1 + px >= px /\ 1 \in Nat \ {0} /\ px \in Nat
      BY <1>1
    <3> QED BY <2>1, <3>1
  <2>4. PICK k \in Bad : \A h \in Bad : k <= h
    <3> HIDE DEF Bad
    <3> QED BY <2>2, <2>3, LeastElement
  <2>5. PICK n \in Nat \ {0} : n + k >= px /\ ~ Left(n)
    OBVIOUS
  <2>6. n < px
    BY <1>1, <1>7, <2>5
  <2>7. PICK h \in Nat : k = h + 1
    <3>1. k \in Nat /\ k # 0
      BY <1>1, <2>5, <2>6
    <3>2. k - 1 \in Nat /\ k = (k - 1) + 1
      BY <3>1
    <3> QED BY <3>2
  <2>8. h \notin Bad
    <3> HIDE DEF Bad
    <3> QED BY <2>4, <2>7
  <2>9. PICK m \in Nat \ {0} : m = 2 * n
    OBVIOUS
  <2>10. m + h >= px
    BY <1>1, <2>5, <2>7, <2>9
  <2>11. Left(m)
    BY <2>8, <2>10
  <2> QED BY <1>8, <2>5, <2>6, <2>9, <2>11
<1>10. PICK q \in Proc : info[1][0] = C(q)
  BY <1>1, <1>9
<1>11. ASSUME NEW r \in Proc PROVE info[1][0].distance <= C(r).distance
  <2>1. PICK p \in Proc : p < 1 /\ info[1][p].distance <= C(r).distance
    BY <1>9
  <2>2. p = 0
    BY <1>1, <2>1
  <2> QED BY <2>1, <2>2
<1> QED BY <1>3, <1>10, <1>11 DEF C

(* With depositions one at a time each is on the eligible site nearest to  *)
(* the start of its path.                                                  *)
Deposits ==
    \E path \in Paths(layout) : \E k \in 1 .. Len(path) :
        /\ path[k] \in Site /\ Truth[path[k]] = VACANT
        /\ \E q \in Proc : path[k] \in Eligible(q)
        /\ \A n \in 1 .. k - 1 : \A q \in Proc : path[n] \notin Eligible(q)
        /\ Truth' = [Truth EXCEPT ![path[k]] = OCCUPIED]
        /\ ndeposit' = ndeposit + 1

(* With one deposition at a time, an update deposits the closest or none.  *)
LEMMA DepositIs ==
    ASSUME WideEnough, StopBatch <= 1, IInv, AppUpdate
    PROVE  (Truth' = Truth /\ ndeposit' = ndeposit) \/ Deposits
<1>1. Protocol /\ layout \in Layouts /\ RunBounded /\ Types /\ StopBatch \in Nat
  BY HopAssumption DEF IInv, Protocol, Types
<1>2. PICK runs \in [1 .. SumOver(nbatch, Proc) -> Paths(layout)] :
         /\ lat' = [p \in Proc |-> [i \in Site |->
               IF i \in Mine(p) \cup AllGhosts(p) THEN After(runs)[i] ELSE lat[p][i]]]
         /\ ndeposit' = ndeposit + Cardinality(Hits(runs))
  BY UpdateIs
<1>3. /\ \A i \in Site : Truth[i] = lat[Owner[i]][i]
      /\ Truth' = [i \in Site |-> IF i \in Put(runs) THEN OCCUPIED ELSE Truth[i]]
  <2>1. /\ Truth = [i \in Site |-> lat[Owner[i]][i]] /\ Truth' = After(runs)
        /\ After(runs) = [i \in Site |-> IF i \in Put(runs) THEN OCCUPIED ELSE Truth[i]]
    BY <1>1, <1>2, UpdateTruth
  <2> QED BY <2>1
<1>4. DOMAIN runs \subseteq {1} /\ \A n \in DOMAIN runs : runs[n] \in Paths(layout)
  <2>1. \A p \in Proc : nbatch[p] \in Nat
    BY <1>1 DEF Types
  <2>2. PICK n \in Nat : n = SumOver(nbatch, Proc) /\ n <= StopBatch
    BY <1>1, <2>1, SumBounds, LatticeOf DEF RunBounded
  <2>3. 1 .. n \subseteq {1}
    BY <1>1, <2>2
  <2> QED BY <2>2, <2>3
<1>5. Truth = [i \in Site |-> Truth[i]] /\ ndeposit \in Nat
  BY <1>1 DEF Truth, Types
<1>6. CASE Hits(runs) = {}
  <2>1. Put(runs) = {}
    BY <1>6 DEF Put
  <2>2. Truth' = [i \in Site |-> Truth[i]]
    BY <1>3, <2>1
  <2>3. Cardinality(Hits(runs)) = 0
    BY <1>6, FS_EmptySet
  <2> QED BY <1>2, <1>5, <2>2, <2>3
<1>7. CASE Hits(runs) # {}
  <2>1. PICK path \in Paths(layout) : path = runs[1]
    BY <1>4, <1>7 DEF Hits
  <2>2. Hits(runs) = {1} /\ Merged(path).site # Nowhere
    BY <1>4, <1>7, <2>1 DEF Hits
  <2>3. Put(runs) = {Merged(path).site}
    BY <2>1, <2>2 DEF Put
  <2>4. path \in Seq(Site) /\ Len(path) \in Nat
    BY <1>1, GeometryOf, HopAssumption
  <2>5. PICK q \in Proc : /\ Merged(path) = Candidate(q, path)
                          /\ \A r \in Proc : Merged(path).distance <= Candidate(r, path).distance
    BY <1>1, <2>4, MergedOf
  <2>6. PICK k : k = Candidate(q, path).distance
    OBVIOUS
  <2>7. k \in 1 .. Len(path) /\ Merged(path).site = path[k] /\ path[k] \in Eligible(q)
    <3>1. /\ k \in 1 .. Len(path) + 1
          /\ k = Len(path) + 1 => Candidate(q, path).site = Nowhere
          /\ k \in 1 .. Len(path) => /\ Candidate(q, path).site = path[k]
                                     /\ Candidate(q, path).site \in Eligible(q)
      BY <2>4, <2>6, CandidateOf
    <3>2. k # Len(path) + 1
      BY <2>2, <2>5, <3>1
    <3>3. k \in 1 .. Len(path)
      BY <2>4, <3>1, <3>2
    <3> QED BY <2>5, <3>1, <3>3
  <2>8. ASSUME NEW n \in 1 .. k - 1, NEW r \in Proc, path[n] \in Eligible(r) PROVE FALSE
    <3>1. /\ Candidate(r, path).distance \in 1 .. Len(path) + 1
          /\ n \in 1 .. Len(path) => Candidate(r, path).distance <= n
      BY <2>4, <2>8, CandidateOf
    <3>2. k <= Candidate(r, path).distance
      BY <2>5, <2>6
    <3> QED BY <2>4, <2>7, <2>8, <3>1, <3>2
  <2>9. path[k] \in Site /\ Truth[path[k]] = VACANT
    BY <1>3, <2>7 DEF Eligible, Mine
  <2>10. Truth' = [Truth EXCEPT ![path[k]] = OCCUPIED]
    BY <1>3, <1>5, <2>3, <2>7
  <2>11. ndeposit' = ndeposit + 1
    <3>1. Cardinality({1}) = 1
      BY FS_Singleton
    <3> QED BY <1>2, <2>2, <3>1
  <2> QED BY <2>7, <2>8, <2>9, <2>10, <2>11 DEF Deposits
<1> QED BY <1>6, <1>7

(* A step with depositions one at a time.                                  *)
LEMMA OneStep ==
    ASSUME WideEnough, StopBatch <= 1, IInv, [Next]_vars
    PROVE  /\ IInv' /\ layout' = layout
           /\ \/ (Truth' = Truth \/ Hops) /\ ndeposit' = ndeposit
              \/ Deposits
BY StepIs, DepositIs

-----------------------------------------------------------------------------
(* The serial run and what is deposited.                                   *)

(* The lattice as a whole: a finite one on which no site is its own        *)
(* neighbor, with an atom or none on every site.                           *)
LEMMA WholeLattice ==
    ASSUME WideEnough, IInv
    PROVE  /\ Truth \in [Site -> {VACANT, OCCUPIED}] /\ DOMAIN Nbr = Site /\ IsFiniteSet(Site)
           /\ \A i \in Site : Nbr[i] \subseteq Site \ {i}
<1>1. layout \in Layouts /\ LatticeIs
  BY LatticeNow DEF IInv, Protocol, Types
<1>2. Truth \in [Site -> {VACANT, OCCUPIED}]
  BY <1>1 DEF LatticeIs, Atom
<1> QED BY <1>1, <1>2, LatticeOf

(* The abstract specification means the same by a hop.                     *)
LEMMA SameHops ==
    ASSUME NEW l, NEW nb, NEW i, NEW j
    PROVE  Serial!Targets(l, nb, i) = Targets(l, nb, i) /\ Serial!Hopped(l, i, j) = Hopped(l, i, j)
<1> USE DEF Serial!VACANT, Serial!OCCUPIED, VACANT, OCCUPIED
<1>1. \A k, m : Serial!Hopped(l, k, m) = Hopped(l, k, m)
  BY DEF Serial!Hopped, Hopped
<1>2. \A m, k : Serial!SiteEnergy(m, nb, k) = SiteEnergy(m, nb, k)
  BY DEF Serial!SiteEnergy, SiteEnergy, Serial!Cardinality, Cardinality
<1>3. \A k, m : Serial!EnergyChange(l, nb, k, m) = EnergyChange(l, nb, k, m)
  BY <1>1, <1>2 DEF Serial!EnergyChange, EnergyChange
<1>4. Serial!Targets(l, nb, i) = Targets(l, nb, i)
  BY <1>3 DEF Serial!Targets, Targets
<1> QED BY <1>1, <1>4

(* The parallel run is a serial run of hops and depositions, as long as a  *)
(* sweep deposits no more than one atom.                                   *)
THEOREM ImplementsHopping ==
    ASSUME WideEnough, StopBatch <= 1
    PROVE  Spec => SerialHops
<1>1. IInv => Serial!Init
  <2>1. SUFFICES ASSUME IInv PROVE Serial!Init
    OBVIOUS
  <2> QED BY <2>1, WholeLattice DEF Serial!Init, Serial!VACANT, Serial!OCCUPIED, VACANT, OCCUPIED
<1>2. IInv /\ [Next]_vars => [Serial!Next]_<<Truth, Nbr>>
  <2>1. SUFFICES ASSUME IInv, [Next]_vars PROVE Serial!Next \/ UNCHANGED <<Truth, Nbr>>
    OBVIOUS
  <2>2. layout' = layout /\ (Truth' = Truth \/ Hops \/ Deposits)
    BY <2>1, OneStep
  <2>3. Nbr' = Nbr /\ DOMAIN Nbr = Site
    BY <2>1, <2>2, Fixed, WholeLattice
  <2>4. ASSUME Hops PROVE Serial!Hop
    <3>1. PICK i \in Site : \E j \in Targets(Truth, Nbr, i) : Truth' = Hopped(Truth, i, j)
      BY <2>4 DEF Hops
    <3>2. PICK j \in Targets(Truth, Nbr, i) : Truth' = Hopped(Truth, i, j)
      BY <3>1
    <3>3. j \in Serial!Targets(Truth, Nbr, i) /\ Truth' = Serial!Hopped(Truth, i, j)
      BY <3>2, SameHops
    <3> QED BY <2>3, <3>3 DEF Serial!Hop
  <2>5. ASSUME Deposits PROVE Serial!Deposit
    <3>1. PICK path \in Paths(layout) :
            \E k \in 1 .. Len(path) : /\ path[k] \in Site /\ Truth[path[k]] = VACANT
                                      /\ Truth' = [Truth EXCEPT ![path[k]] = OCCUPIED]
      BY <2>5 DEF Deposits
    <3>2. PICK k \in 1 .. Len(path) : /\ path[k] \in Site /\ Truth[path[k]] = VACANT
                                      /\ Truth' = [Truth EXCEPT ![path[k]] = OCCUPIED]
      BY <3>1
    <3> QED BY <2>3, <3>2 DEF Serial!Deposit, Serial!VACANT, Serial!OCCUPIED, VACANT, OCCUPIED
  <2> QED BY <2>2, <2>3, <2>4, <2>5 DEF Serial!Next
<1>3. Init => IInv
  BY InitProtocol, InitLists DEF IInv
<1>4. Spec => Serial!Init /\ [][Serial!Next]_<<Truth, Nbr>>
  BY <1>1, <1>2, <1>3, Inductive, PTL DEF Spec
<1> QED BY <1>4 DEF SerialHops, Serial!Spec, Serial!vars

(* A deposition goes to the site nearest to the start of its path of all   *)
(* that are eligible to any process, as long as a sweep deposits one atom. *)
THEOREM ClosestIsDeposited ==
    ASSUME WideEnough, StopBatch <= 1
    PROVE  Spec => ClosestDeposited
<1> DEFINE open == UNION {Eligible(p) : p \in Proc}
           Closest == ndeposit' # ndeposit =>
             \E path \in Paths(layout), k \in 1 .. Cardinality(Site) :
                /\ k \in DOMAIN path /\ path[k] \in open
                /\ \A n \in 1 .. k - 1 : path[n] \notin open
                /\ Truth' = [Truth EXCEPT ![path[k]] = OCCUPIED]
<1>1. IInv /\ [Next]_vars => [Closest]_vars
  <2>1. SUFFICES ASSUME IInv, [Next]_vars, ndeposit' # ndeposit PROVE Closest
    OBVIOUS
  <2>2. Deposits /\ layout \in Layouts
    BY <2>1, OneStep DEF IInv, Protocol, Types
  <2>3. PICK path \in Paths(layout) : \E k \in 1 .. Len(path) :
           /\ \E q \in Proc : path[k] \in Eligible(q)
           /\ \A n \in 1 .. k - 1 : \A q \in Proc : path[n] \notin Eligible(q)
           /\ Truth' = [Truth EXCEPT ![path[k]] = OCCUPIED]
    BY <2>2 DEF Deposits
  <2>4. PICK k \in 1 .. Len(path) :
           /\ \E q \in Proc : path[k] \in Eligible(q)
           /\ \A n \in 1 .. k - 1 : \A q \in Proc : path[n] \notin Eligible(q)
           /\ Truth' = [Truth EXCEPT ![path[k]] = OCCUPIED]
    BY <2>3
  <2>5. k \in DOMAIN path /\ k \in 1 .. Cardinality(Site)
    <3>1. /\ layout.nx \in Nat \ {0} /\ Site = 0 .. layout.nx - 1
          /\ path \in Seq(LineSites(layout.nx)) /\ Len(path) <= layout.nx
      BY <2>2, HopAssumption, GeometryOf DEF LineSites
    <3>2. Cardinality(Site) = layout.nx
      <4>1. \A a, b \in Int : Cardinality(a .. b) = IF a > b THEN 0 ELSE b - a + 1
        BY FS_Interval
      <4>2. 0 \in Int /\ layout.nx - 1 \in Int /\ ~ (0 > layout.nx - 1)
        BY <3>1
      <4>3. Cardinality(0 .. layout.nx - 1) = (layout.nx - 1) - 0 + 1
        BY <4>1, <4>2
      <4> QED BY <3>1, <4>3
    <3> QED BY <3>1, <3>2
  <2>6. path[k] \in open /\ \A n \in 1 .. k - 1 : path[n] \notin open
    BY <2>4
  <2> QED BY <2>4, <2>5, <2>6
<1>2. Spec => [][Closest]_vars
  BY <1>1, Inductive, PTL DEF Spec
<1> QED BY <1>2 DEF ClosestDeposited

(* A hop empties one site and fills another.                               *)
LEMMA HopKeepsAtoms ==
    ASSUME WideEnough, IInv, layout' = layout, Hops
    PROVE  Atoms' = Atoms /\ Atoms \in Nat
<1> DEFINE S == {i \in Site : Truth[i] = OCCUPIED}
           T == {i \in Site : Truth'[i] = OCCUPIED}
<1>1. /\ Truth \in [Site -> {VACANT, OCCUPIED}] /\ IsFiniteSet(Site)
      /\ \A i \in Site : Nbr[i] \subseteq Site \ {i}
  BY WholeLattice
<1>2. PICK i \in Site : \E j \in Targets(Truth, Nbr, i) : Truth' = Hopped(Truth, i, j)
  BY DEF Hops
<1>3. PICK j \in Targets(Truth, Nbr, i) : Truth' = Hopped(Truth, i, j)
  BY <1>2
<1>4. j \in Site /\ j # i /\ Truth[i] = OCCUPIED /\ Truth[j] = VACANT /\ VACANT # OCCUPIED
  BY <1>1, <1>3 DEF Targets, VACANT, OCCUPIED
<1>5. IsFiniteSet(S) /\ i \in S /\ j \notin S /\ j \notin S \ {i}
  BY <1>1, <1>4, FS_Subset
<1>6. T = (S \ {i}) \cup {j}
  BY <1>1, <1>3, <1>4 DEF Hopped
<1> HIDE DEF S, T
<1>7. IsFiniteSet(S \ {i}) /\ Cardinality(S \ {i}) = Cardinality(S) - 1
  BY <1>5, FS_RemoveElement
<1>8. Cardinality((S \ {i}) \cup {j}) = Cardinality(S \ {i}) + 1
  BY <1>5, <1>7, FS_AddElement
<1>9. Cardinality(S) \in Nat
  BY <1>5, FS_CardinalityType
<1>10. Atoms = Cardinality(S) /\ Atoms' = Cardinality(T)
  BY Fixed DEF Atoms, S, T
<1> QED BY <1>6, <1>7, <1>8, <1>9, <1>10

(* A deposition fills a vacant site.                                       *)
LEMMA DepositAddsAtom ==
    ASSUME WideEnough, IInv, layout' = layout, Deposits
    PROVE  Atoms' = Atoms + 1 /\ Atoms \in Nat
<1> DEFINE S == {i \in Site : Truth[i] = OCCUPIED}
           T == {i \in Site : Truth'[i] = OCCUPIED}
<1>1. Truth \in [Site -> {VACANT, OCCUPIED}] /\ IsFiniteSet(Site)
  BY WholeLattice
<1>2. PICK m \in Site : Truth[m] = VACANT /\ Truth' = [Truth EXCEPT ![m] = OCCUPIED]
  BY DEF Deposits
<1>3. VACANT # OCCUPIED
  BY DEF VACANT, OCCUPIED
<1>4. IsFiniteSet(S) /\ m \notin S
  BY <1>1, <1>2, <1>3, FS_Subset
<1>5. T = S \cup {m}
  BY <1>1, <1>2
<1> HIDE DEF S, T
<1>6. Cardinality(S \cup {m}) = Cardinality(S) + 1
  BY <1>4, FS_AddElement
<1>7. Cardinality(S) \in Nat
  BY <1>4, FS_CardinalityType
<1>8. Atoms = Cardinality(S) /\ Atoms' = Cardinality(T)
  BY Fixed DEF Atoms, S, T
<1> QED BY <1>5, <1>6, <1>7, <1>8

(* No atom is lost or doubled on its way between processes, and each       *)
(* deposition that is counted adds one, as long as a sweep deposits one.   *)
THEOREM AtomsAreKept ==
    ASSUME WideEnough, StopBatch <= 1
    PROVE  Spec => AtomsKept
<1>1. IInv /\ [Next]_vars => [Atoms' - Atoms = ndeposit' - ndeposit]_vars
  <2>1. SUFFICES ASSUME IInv, [Next]_vars PROVE Atoms' - Atoms = ndeposit' - ndeposit
    OBVIOUS
  <2>2. layout' = layout /\ ndeposit \in Nat
    BY <2>1, OneStep DEF IInv, Protocol, Types
  <2>3. CASE Truth' = Truth /\ ndeposit' = ndeposit
    <3>1. Atoms' = Atoms
      BY <2>2, <2>3, Fixed DEF Atoms
    <3>2. Atoms \in Nat
      <4>1. IsFiniteSet({i \in Site : Truth[i] = OCCUPIED})
        BY <2>1, WholeLattice, FS_Subset
      <4> QED BY <4>1, FS_CardinalityType DEF Atoms
    <3> QED BY <2>2, <2>3, <3>1, <3>2
  <2>4. CASE Hops /\ ndeposit' = ndeposit
    BY <2>1, <2>2, <2>4, HopKeepsAtoms
  <2>5. CASE Deposits
    <3>1. ndeposit' = ndeposit + 1
      BY <2>5 DEF Deposits
    <3> QED BY <2>1, <2>2, <2>5, <3>1, DepositAddsAtom
  <2> QED BY <2>1, <2>3, <2>4, <2>5, OneStep
<1> QED BY <1>1, Inductive, PTL DEF Spec, AtomsKept
=============================================================================
