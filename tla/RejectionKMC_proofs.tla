------------------------ MODULE RejectionKMC_proofs ------------------------
(***************************************************************************)
(* Proofs about RejectionKMC and Potts, for every lattice, every number of *)
(* processes, every style of sweep, every number of spins and every length *)
(* of a run.                                                               *)
(*                                                                         *)
(* The only hypothesis is WideEnough: with sectors, a process has two rows *)
(* and two columns of sites where it shares them with others.  Then        *)
(* neighbors of different processes are in sets of different numbers       *)
(* (Apart): in other sectors, because a sub-domain that is divided has a   *)
(* site in both halves, or of another color, because a colored lattice has *)
(* even sides.                                                             *)
(*                                                                         *)
(* The argument.  Number the sets a process goes through 0, 1, 2, ...      *)
(* Queues hold what has been sent and not received, in order (InTransit),  *)
(* so the oldest message is the one for the set being received.  A process *)
(* sweeps its t-th set only when each neighbor that owns ghosts of it has  *)
(* sent for its own t-th set (Causal), and neighbors owe each other        *)
(* messages, so neither gets to a set the other still reads (SweepsApart). *)
(* Hence a process sees the neighbors of its sites as they are.            *)
(*                                                                         *)
(* Masks: a masked site is mostly among its like in the memory of its      *)
(* owner while the owner sweeps its set, and at all times if all of its    *)
(* neighbors are in its set.  Between the two a border site may be wrong,  *)
(* since a neighbor in another process may have changed;                   *)
(* boundary_clear_mask() takes those masks away before they are read.      *)
(*                                                                         *)
(* color/strict: neighbors differ in color, so it does not matter in which *)
(* order the sites of a color are tried, and one process alone computes a  *)
(* run R[0], R[1], ... of which a set is one step (History).  A site of a  *)
(* process that has been through n sets is as in R[n], and the ghosts next *)
(* to a site it tries are too, whether their owner is in the same set or   *)
(* has already done with it (Follows).  Every site of a color has          *)
(* neighbors of the other, so all masks are cleared and none is passed     *)
(* over: each uses as many random numbers as alone.                        *)
(***************************************************************************)
EXTENDS RejectionKMC, DataLemmas, FiniteSetTheorems, TLAPS

-----------------------------------------------------------------------------
(* Energies (app_potts.cpp, site_event_rejection()).                       *)

(* The neighbors of site i that have spin s, and those that have not.      *)
Like(l, nb, i, s) == {j \in nb[i] : l[j] = s}
Unlike(l, nb, i, s) == {j \in nb[i] : l[j] # s}

(* Together they are all neighbors.                                        *)
LEMMA LikeAndUnlike ==
    ASSUME NEW l, NEW nb, NEW i, NEW s, IsFiniteSet(nb[i])
    PROVE  /\ IsFiniteSet(Like(l, nb, i, s)) /\ IsFiniteSet(Unlike(l, nb, i, s))
           /\ Cardinality(Like(l, nb, i, s)) \in Nat
           /\ SiteEnergy(l, nb, i, s) \in Nat
           /\ Cardinality(nb[i]) = Cardinality(Like(l, nb, i, s)) + SiteEnergy(l, nb, i, s)
<1> DEFINE like   == Like(l, nb, i, s)
           unlike == Unlike(l, nb, i, s)
<1>1. like \subseteq nb[i] /\ unlike \subseteq nb[i]
  BY DEF Like, Unlike
<1>2. IsFiniteSet(like) /\ IsFiniteSet(unlike)
  BY <1>1, FS_Subset
<1>3. like \cup unlike = nb[i] /\ like \cap unlike = {}
  BY DEF Like, Unlike
<1>4. Cardinality(like) \in Nat /\ Cardinality(unlike) \in Nat /\ Cardinality({}) = 0
  BY <1>2, FS_CardinalityType, FS_EmptySet
<1> HIDE DEF like, unlike
<1>5. Cardinality(like \cup unlike)
        = Cardinality(like) + Cardinality(unlike) - Cardinality(like \cap unlike)
  BY <1>2, FS_Union
<1>6. Cardinality(nb[i]) = Cardinality(like) + Cardinality(unlike)
  <2>1. /\ Cardinality(like \cup unlike) = Cardinality(nb[i])
        /\ Cardinality(like \cap unlike) = 0
    BY <1>3, <1>4, Zenon
  <2>2. \A a, b \in Nat : a + b - 0 = a + b
    OBVIOUS
  <2> QED BY <1>4, <1>5, <2>1, <2>2
<1>7. SiteEnergy(l, nb, i, s) = Cardinality(unlike)
  BY DEF SiteEnergy, unlike, Unlike
<1> QED BY <1>2, <1>4, <1>6, <1>7 DEF like, unlike

(* A site whose neighbors are mostly alike has no other spin that does not *)
(* cost energy: the neighbors of the other spin are among those unlike its *)
(* own, which are less than half.                                          *)
THEOREM MaskedSpinsAreFrozen ==
    ASSUME NEW l, NEW nb, NEW i, IsFiniteSet(nb[i]), MostlyAlike(l, nb, i),
           NEW s, s # l[i]
    PROVE  Uphill(l, nb, i, s)
<1> DEFINE like == Like(l, nb, i, s)
           cost == SiteEnergy(l, nb, i, s)
           own  == SiteEnergy(l, nb, i, l[i])
<1>1. /\ own \in Nat /\ IsFiniteSet(Unlike(l, nb, i, l[i]))
      /\ own = Cardinality(Unlike(l, nb, i, l[i]))
  <2>1. own \in Nat /\ IsFiniteSet(Unlike(l, nb, i, l[i]))
    BY LikeAndUnlike
  <2>2. own = Cardinality(Unlike(l, nb, i, l[i]))
    BY DEF SiteEnergy, Unlike
  <2> QED BY <2>1, <2>2
<1>2. /\ IsFiniteSet(like) /\ Cardinality(like) \in Nat /\ cost \in Nat
      /\ Cardinality(nb[i]) = Cardinality(like) + cost
  BY LikeAndUnlike
<1>3. like \subseteq Unlike(l, nb, i, l[i])
  BY DEF Like, Unlike
<1>4. Cardinality(like) <= own
  BY <1>1, <1>2, <1>3, FS_Subset
<1>5. 2 * own < Cardinality(nb[i])
  BY DEF MostlyAlike
<1> HIDE DEF like, cost, own
<1>6. cost > own
  BY <1>1, <1>2, <1>4, <1>5
<1> QED BY <1>6 DEF Uphill, cost, own

(* What the sweep skips at temperature zero: whatever spin a masked site   *)
(* is offered, and whatever is drawn, it keeps its own.                    *)
THEOREM MaskedSitesKeepTheirSpin ==
    ASSUME NEW l, NEW nb, NEW i, IsFiniteSet(nb[i]), MostlyAlike(l, nb, i),
           NEW s, NEW lucky \in BOOLEAN
    PROVE  Offered(l, nb, i, s, FALSE, lucky) = l[i]
<1>1. CASE s = l[i]
  BY <1>1 DEF Offered
<1>2. CASE s # l[i]
  BY <1>2, MaskedSpinsAreFrozen DEF Offered
<1> QED BY <1>1, <1>2

-----------------------------------------------------------------------------
(* How sites are dealt out (Decomposition).                                *)

(* Where the column changes, it changes from an upper to a lower half, if  *)
(* a process has two columns or more.                                      *)
LEMMA HalvesStep ==
    ASSUME NEW n \in Nat \ {0}, NEW m \in Nat \ {0}, 2 * m <= n,
           NEW x \in 0 .. n - 1, NEW y \in 0 .. n - 1, y = x + 1,
           Column(x, n, m) # Column(y, n, m)
    PROVE  Half(x, n, m) = 1 /\ Half(y, n, m) = 0
<1> DEFINE c == Column(x, n, m)
           d == Column(y, n, m)
           a == x * m
           b == n * c
           e == n * d
<1>1. /\ a \in Nat /\ c \in Nat /\ d \in Nat /\ b <= a /\ a < b + n
      /\ e <= y * m /\ y * m < e + n
  BY ColumnOf
<1>2. y * m = a + m
  OBVIOUS
<1>3. b \in Nat /\ e \in Nat
  BY <1>1
<1>4. (c < d => b + n <= e) /\ (d < c => e + n <= b)
  <2>1. \A u, v \in Nat : u < v => n * u + n <= n * v
    OBVIOUS
  <2> QED BY <1>1, <2>1
<1>5. 2 * m * x = 2 * a /\ 2 * m * y = 2 * a + 2 * m
  BY <1>2
<1>6. (2 * c + 1) * n = 2 * b + n /\ (2 * d + 1) * n = 2 * e + n
  BY <1>1
<1>7. c # d
  OBVIOUS
<1> HIDE DEF a, b, c, d, e
<1>8. b + n <= e
  BY <1>1, <1>2, <1>3, <1>4, <1>7
<1>9. ~ (2 * a < 2 * b + n) /\ 2 * a + 2 * m < 2 * e + n
  BY <1>1, <1>2, <1>3, <1>8
<1> QED BY <1>5, <1>6, <1>9 DEF Half, c, d

(* The last column is an upper half, the first a lower one.                *)
LEMMA HalvesWrap ==
    ASSUME NEW n \in Nat \ {0}, NEW m \in Nat \ {0}, 2 * m <= n
    PROVE  Half(n - 1, n, m) = 1 /\ Half(0, n, m) = 0
<1> DEFINE c == Column(n - 1, n, m)
           b == n * c
           a == (n - 1) * m
<1>1. c \in 0 .. m - 1 /\ b <= a /\ a < b + n /\ Column(0, n, m) \in 0 .. m - 1
  BY ColumnOf
<1>2. a = n * m - m
  OBVIOUS
<1>3. b <= n * m - n
  <2>1. \A u \in Nat : u + 1 <= m => n * u + n <= n * m
    OBVIOUS
  <2> QED BY <1>1, <2>1
<1>4. 2 * m * (n - 1) = 2 * a /\ (2 * c + 1) * n = 2 * b + n
  BY <1>1
<1>5. n * m \in Nat /\ b \in Nat
  BY <1>1
<1>6. Half(0, n, m) = 0
  <2>1. \A u \in Nat : 0 < (2 * u + 1) * n
    OBVIOUS
  <2>2. 2 * m * 0 = 0
    OBVIOUS
  <2> QED BY <1>1, <2>1, <2>2 DEF Half
<1> HIDE DEF a, b, c
<1>7. ~ (2 * a < 2 * b + n)
  BY <1>2, <1>3, <1>5
<1>8. Half(n - 1, n, m) = 1
  BY <1>4, <1>7 DEF Half, c
<1> QED BY <1>6, <1>8

(* Sites beside each other in different columns are in different halves.   *)
LEMMA HalvesApart ==
    ASSUME NEW n \in Nat \ {0}, NEW m \in Nat \ {0}, m > 1 => 2 * m <= n,
           NEW x \in 0 .. n - 1, NEW y \in Beside(x, n),
           Column(x, n, m) # Column(y, n, m)
    PROVE  Half(x, n, m) # Half(y, n, m)
<1>1. y \in 0 .. n - 1
  BY DEF Beside
<1>2. m > 1
  <2>1. Column(x, n, m) \in 0 .. m - 1 /\ Column(y, n, m) \in 0 .. m - 1
    BY <1>1, ColumnOf
  <2> QED BY <2>1
<1>3. 2 * m <= n
  BY <1>2
<1>4. y = x + 1 \/ x = y + 1 \/ (x = n - 1 /\ y = 0) \/ (y = n - 1 /\ x = 0)
  BY BesideOf
<1>5. CASE y = x + 1
  BY <1>1, <1>3, <1>5, HalvesStep
<1>6. CASE x = y + 1
  BY <1>1, <1>3, <1>6, HalvesStep
<1>7. CASE (x = n - 1 /\ y = 0) \/ (y = n - 1 /\ x = 0)
  BY <1>3, <1>7, HalvesWrap
<1> QED BY <1>4, <1>5, <1>6, <1>7

(* Domain and create_set() on a square lattice: sectors of one number of   *)
(* different processes do not touch if every sub-domain that is divided    *)
(* has two rows and two columns or more.                                   *)
THEOREM SquareSectorsApart ==
    ASSUME NEW nx \in Nat \ {0}, NEW ny \in Nat \ {0},
           NEW px \in Nat \ {0}, NEW py \in Nat \ {0},
           px > 1 => 2 * px <= nx, py > 1 => 2 * py <= ny,
           NEW i \in SquareSites(nx, ny), NEW j \in SquareNbr(nx, ny)[i],
           SquareOwner(nx, ny, px, py)[j] # SquareOwner(nx, ny, px, py)[i]
    PROVE  SquareSector(nx, ny, px, py)[j] # SquareSector(nx, ny, px, py)[i]
<1>1. /\ i[1] \in 0 .. nx - 1 /\ i[2] \in 0 .. ny - 1 /\ i = <<i[1], i[2]>>
  BY DEF SquareSites
<1>2. \/ j = <<j[1], i[2]>> /\ j[1] \in Beside(i[1], nx)
      \/ j = <<i[1], j[2]>> /\ j[2] \in Beside(i[2], ny)
  BY DEF SquareNbr
<1>3. /\ j[1] \in 0 .. nx - 1 /\ j[2] \in 0 .. ny - 1 /\ j \in SquareSites(nx, ny)
  BY <1>1, <1>2, BesideOf DEF SquareSites
<1>4. /\ SquareOwner(nx, ny, px, py)[i] = Column(i[2], ny, py) * px + Column(i[1], nx, px)
      /\ SquareOwner(nx, ny, px, py)[j] = Column(j[2], ny, py) * px + Column(j[1], nx, px)
      /\ SquareSector(nx, ny, px, py)[i] = 2 * Half(i[2], ny, py) + Half(i[1], nx, px)
      /\ SquareSector(nx, ny, px, py)[j] = 2 * Half(j[2], ny, py) + Half(j[1], nx, px)
  BY <1>3 DEF SquareOwner, SquareSector
<1>5. \A k \in {i, j} : Half(k[1], nx, px) \in {0, 1} /\ Half(k[2], ny, py) \in {0, 1}
  BY <1>1, <1>3, ColumnOf
<1>6. CASE j = <<j[1], i[2]>> /\ j[1] \in Beside(i[1], nx)
  <2>1. j[2] = i[2]
    BY <1>6
  <2>2. Column(i[1], nx, px) # Column(j[1], nx, px)
    BY <1>4, <2>1
  <2>3. Half(i[1], nx, px) # Half(j[1], nx, px)
    BY <1>1, <1>6, <2>2, HalvesApart
  <2> QED BY <1>4, <1>5, <2>1, <2>3
<1>7. CASE j = <<i[1], j[2]>> /\ j[2] \in Beside(i[2], ny)
  <2>1. j[1] = i[1]
    BY <1>7
  <2>2. Column(i[2], ny, py) # Column(j[2], ny, py)
    BY <1>4, <2>1
  <2>3. Half(i[2], ny, py) # Half(j[2], ny, py)
    BY <1>1, <1>7, <2>2, HalvesApart
  <2> QED BY <1>4, <1>5, <2>1, <2>3
<1> QED BY <1>2, <1>6, <1>7

-----------------------------------------------------------------------------
(* The lattice and the sets of the run (create_set, find_border_sites).    *)

(* With sectors, a process has two rows and two columns of sites or more   *)
(* in every direction it shares with others.                               *)
WideEnough ==
    \A L \in Layouts :
        L.nsector > 1 => (L.px > 1 => 2 * L.px <= L.nx) /\ (L.py > 1 => 2 * L.py <= L.ny)

(* The set of its owner that site i is in.                                 *)
Which(i) ==
    IF layout.nsector > 1
    THEN SquareSector(layout.nx, layout.ny, layout.px, layout.py)[i]
    ELSE IF Colored(layout) THEN Color(i) ELSE 0

SetNumbers == 0 .. SetCount(layout) - 1

LEMMA LayoutOf ==
    ASSUME layout \in Layouts
    PROVE  /\ layout.nx \in Nat \ {0} /\ layout.ny \in Nat \ {0}
           /\ layout.px \in Nat \ {0} /\ layout.py \in Nat \ {0}
           /\ layout.nsector \in {1, 4} /\ layout.mask \in BOOLEAN /\ layout.warm \in BOOLEAN
           /\ SetCount(layout) \in Nat \ {0}
BY LayoutAssumption DEF SetCount

LEMMA GeometryOf ==
    ASSUME layout \in Layouts
    PROVE  /\ Nbr = SquareNbr(layout.nx, layout.ny)
           /\ Site = SquareSites(layout.nx, layout.ny)
           /\ Owner = SquareOwner(layout.nx, layout.ny, layout.px, layout.py)
<1>1. Geometry[layout] = Tables(layout)
  BY DEF Geometry
<1>2. Nbr = SquareNbr(layout.nx, layout.ny)
  BY <1>1 DEF Tables, Nbr
<1>3. Owner = SquareOwner(layout.nx, layout.ny, layout.px, layout.py)
  BY <1>1 DEF Tables, Owner
<1>4. Site = SquareSites(layout.nx, layout.ny)
  BY <1>2 DEF Site, SquareNbr
<1> QED BY <1>2, <1>3, <1>4

LEMMA SetsOf ==
    ASSUME layout \in Layouts, NEW p \in Proc, NEW s \in SetNumbers
    PROVE  /\ Geometry[layout].set[p][s] = {i \in Site : Owner[i] = p /\ Which(i) = s}
           /\ Geometry[layout].border[p][s] =
                {i \in Geometry[layout].set[p][s] : ~ (Nbr[i] \subseteq Geometry[layout].set[p][s])}
           /\ Ghosts(p, s) =
                (UNION {Nbr[i] : i \in IF layout.nsector > 1 THEN Geometry[layout].set[p][s]
                                       ELSE Mine(p)}) \ Mine(p)
<1>1. Geometry[layout] = Tables(layout)
  BY DEF Geometry
<1>2. Geometry[layout].set[p][s] = {i \in Site : Owner[i] = p /\ Which(i) = s}
  BY <1>1, GeometryOf DEF Tables, Which, Proc, SetNumbers
<1>3. Geometry[layout].border[p][s] =
         {i \in Geometry[layout].set[p][s] : ~ (Nbr[i] \subseteq Geometry[layout].set[p][s])}
  BY <1>1, GeometryOf, SMTT(60) DEF Tables, Proc, SetNumbers, BorderOf
<1>4. Ghosts(p, s) =
         (UNION {Nbr[i] : i \in IF layout.nsector > 1 THEN Geometry[layout].set[p][s]
                                ELSE Mine(p)}) \ Mine(p)
  BY <1>1, GeometryOf, SMTT(60) DEF Tables, Proc, SetNumbers, Ghosts, Mine
<1> QED BY <1>2, <1>3, <1>4

(* Neighbors are sites, finitely many, and neighbors of each other; every  *)
(* site has an owner and a set.                                            *)
LEMMA LatticeOf ==
    ASSUME layout \in Layouts
    PROVE  /\ IsFiniteSet(Site)
           /\ \A i \in Site : /\ Nbr[i] \subseteq Site /\ IsFiniteSet(Nbr[i])
                              /\ \A j \in Nbr[i] : i \in Nbr[j]
                              /\ Owner[i] \in Proc
                              /\ Which(i) \in SetNumbers
<1> DEFINE nx == layout.nx
           ny == layout.ny
<1>1. Site = (0 .. nx - 1) \X (0 .. ny - 1)
  BY GeometryOf DEF SquareSites
<1>2. IsFiniteSet(Site)
  <2>1. IsFiniteSet(0 .. nx - 1) /\ IsFiniteSet(0 .. ny - 1)
    <3>1. nx - 1 \in Int /\ ny - 1 \in Int
      BY LayoutOf
    <3> QED BY <3>1, FS_Interval
  <2> QED BY <1>1, <2>1, FS_Product
<1>3. \A i \in Site : Nbr[i] = {<<x, i[2]>> : x \in Beside(i[1], nx)} \cup
                               {<<i[1], y>> : y \in Beside(i[2], ny)}
  BY GeometryOf DEF SquareNbr
<1>4. \A i \in Site : i[1] \in 0 .. nx - 1 /\ i[2] \in 0 .. ny - 1 /\ i = <<i[1], i[2]>>
  BY <1>1
<1>5. \A i \in Site : Nbr[i] \subseteq Site
  BY <1>1, <1>3, <1>4, BesideOf, LayoutOf
<1>6. \A i \in Site : IsFiniteSet(Nbr[i])
  BY <1>2, <1>5, FS_Subset
<1>7. ASSUME NEW i \in Site, NEW j \in Nbr[i] PROVE i \in Nbr[j]
  <2>1. j \in Site
    BY <1>5, <1>7
  <2>2. CASE \E x \in Beside(i[1], nx) : j = <<x, i[2]>>
    <3>1. PICK x \in Beside(i[1], nx) : j = <<x, i[2]>>
      BY <2>2
    <3>2. i[1] \in Beside(x, nx)
      BY <1>4, <3>1, BesideOf, LayoutOf
    <3>3. i = <<i[1], j[2]>> /\ i[1] \in Beside(j[1], nx)
      BY <1>4, <3>1, <3>2
    <3> QED BY <1>3, <2>1, <3>3
  <2>3. CASE \E y \in Beside(i[2], ny) : j = <<i[1], y>>
    <3>1. PICK y \in Beside(i[2], ny) : j = <<i[1], y>>
      BY <2>3
    <3>2. i[2] \in Beside(y, ny)
      BY <1>4, <3>1, BesideOf, LayoutOf
    <3>3. i = <<j[1], i[2]>> /\ i[2] \in Beside(j[2], ny)
      BY <1>4, <3>1, <3>2
    <3> QED BY <1>3, <2>1, <3>3
  <2> QED BY <1>3, <1>7, <2>2, <2>3
<1>8. ASSUME NEW i \in Site PROVE Owner[i] \in Proc /\ Which(i) \in SetNumbers
  <2> DEFINE cx == Column(i[1], nx, layout.px)
             cy == Column(i[2], ny, layout.py)
             hx == Half(i[1], nx, layout.px)
             hy == Half(i[2], ny, layout.py)
  <2>1. cx \in 0 .. layout.px - 1 /\ cy \in 0 .. layout.py - 1 /\ hx \in {0, 1} /\ hy \in {0, 1}
    BY <1>4, ColumnOf, LayoutOf
  <2>2. Owner[i] = cy * layout.px + cx
    BY GeometryOf DEF SquareOwner
  <2>3. i \in SquareSites(nx, ny)
    BY GeometryOf
  <2>4. SquareSector(nx, ny, layout.px, layout.py)[i] = 2 * hy + hx
    BY <2>3 DEF SquareSector
  <2>5. Color(i) \in {0, 1}
    BY <1>4 DEF Color
  <2>6. cy * layout.px + cx \in 0 .. layout.px * layout.py - 1
    <3> HIDE DEF cx, cy
    <3>1. \A m, n \in Nat \ {0} : \A u \in 0 .. n - 1, v \in 0 .. m - 1 :
            u * m + v \in 0 .. m * n - 1
      <4> SUFFICES ASSUME NEW m \in Nat \ {0}, NEW n \in Nat \ {0},
                          NEW u \in 0 .. n - 1, NEW v \in 0 .. m - 1
                   PROVE  u * m + v \in 0 .. m * n - 1
        OBVIOUS
      <4>1. u * m + m <= m * n
        <5>1. \A w \in Nat : u + 1 <= w => u * m + m <= m * w
          OBVIOUS
        <5> QED BY <5>1
      <4>2. u * m \in Nat
        OBVIOUS
      <4> QED BY <4>1, <4>2
    <3> QED BY <2>1, <3>1, LayoutOf
  <2> HIDE DEF cx, cy, hx, hy
  <2>7. Which(i) \in SetNumbers
    BY <2>1, <2>4, <2>5, LayoutOf DEF Which, SetNumbers, SetCount
  <2> QED BY <2>2, <2>6, <2>7 DEF Proc, Procs
<1> QED BY <1>2, <1>5, <1>6, <1>7, <1>8

(* A colored lattice has even sides, so neighbors differ in color.         *)
LEMMA ColorsApart ==
    ASSUME layout \in Layouts, Colored(layout), NEW i \in Site
    PROVE  /\ Color(i) \in {0, 1}
           /\ Nbr[i] # {}
           /\ \A j \in Nbr[i] : Color(j) # Color(i) /\ Color(j) \in {0, 1}
<1> DEFINE nx == layout.nx
           ny == layout.ny
<1>1. /\ nx \in Nat \ {0} /\ ny \in Nat \ {0} /\ nx % 2 = 0 /\ ny % 2 = 0
      /\ i \in SquareSites(nx, ny)
  BY LayoutOf, GeometryOf, LayoutAssumption DEF Colored
<1>2. i[1] \in 0 .. nx - 1 /\ i[2] \in 0 .. ny - 1
  BY <1>1 DEF SquareSites
<1>3. Color(i) \in {0, 1}
  BY <1>2 DEF Color
<1>4. ASSUME NEW j \in Nbr[i] PROVE Color(j) # Color(i) /\ Color(j) \in {0, 1}
  <2>1. j \in SquareSites(nx, ny)
    BY LatticeOf, GeometryOf
  <2>2. j[1] \in 0 .. nx - 1 /\ j[2] \in 0 .. ny - 1
    BY <2>1 DEF SquareSites
  <2>3. \/ j[2] = i[2] /\ j[1] \in Beside(i[1], nx)
        \/ j[1] = i[1] /\ j[2] \in Beside(i[2], ny)
    BY <1>1, GeometryOf DEF SquareNbr
  <2>4. \A a, b, c \in Nat : (a + c) % 2 = (b + c) % 2 => a % 2 = b % 2
    OBVIOUS
  <2>5. CASE j[2] = i[2] /\ j[1] \in Beside(i[1], nx)
    <3>1. j[1] % 2 # i[1] % 2
      BY <1>1, <1>2, <2>5, BesideOf
    <3> QED BY <1>2, <2>2, <2>4, <2>5, <3>1 DEF Color
  <2>6. CASE j[1] = i[1] /\ j[2] \in Beside(i[2], ny)
    <3>1. j[2] % 2 # i[2] % 2
      BY <1>1, <1>2, <2>6, BesideOf
    <3>2. (j[2] + i[1]) % 2 # (i[2] + i[1]) % 2
      BY <1>2, <2>2, <2>4, <3>1
    <3> QED BY <1>2, <2>2, <2>6, <3>2 DEF Color
  <2> QED BY <2>3, <2>5, <2>6
<1>5. Nbr[i] # {}
  <2> DEFINE x == (i[1] + 1) % nx
  <2>1. nx > 1
    BY <1>1
  <2>2. x # i[1]
    <3>1. \A n \in Nat : \A u \in 0 .. n - 1 : n > 1 => (u + 1) % n = IF u = n - 1 THEN 0 ELSE u + 1
      OBVIOUS
    <3>2. x = IF i[1] = nx - 1 THEN 0 ELSE i[1] + 1
      BY <1>1, <1>2, <2>1, <3>1
    <3> QED BY <1>1, <1>2, <2>1, <3>2
  <2>3. x \in Beside(i[1], nx)
    BY <2>2 DEF Beside
  <2> HIDE DEF x
  <2>4. <<x, i[2]>> \in Nbr[i]
    BY <1>1, <2>3, GeometryOf DEF SquareNbr
  <2> QED BY <2>4
<1> QED BY <1>3, <1>4, <1>5

(* Neighbors of different owners are in different sets: sectors of one     *)
(* number are apart, and so are sites of one color.                        *)
LEMMA Apart ==
    ASSUME layout \in Layouts, WideEnough,
           NEW i \in Site, NEW j \in Nbr[i], Owner[j] # Owner[i]
    PROVE  Which(j) # Which(i)
<1> DEFINE nx == layout.nx
           ny == layout.ny
           px == layout.px
           py == layout.py
<1>1. /\ nx \in Nat \ {0} /\ ny \in Nat \ {0} /\ px \in Nat \ {0} /\ py \in Nat \ {0}
      /\ i \in SquareSites(nx, ny) /\ j \in SquareSites(nx, ny)
  BY LayoutOf, GeometryOf, LatticeOf
<1>2. CASE layout.nsector > 1
  <2>1. (px > 1 => 2 * px <= nx) /\ (py > 1 => 2 * py <= ny)
    BY <1>2 DEF WideEnough
  <2>2. SquareSector(nx, ny, px, py)[j] # SquareSector(nx, ny, px, py)[i]
    BY <1>1, <2>1, GeometryOf, SquareSectorsApart
  <2> QED BY <1>2, <2>2 DEF Which
<1>3. CASE ~ (layout.nsector > 1) /\ Colored(layout)
  BY <1>3, ColorsApart DEF Which
<1>4. CASE ~ (layout.nsector > 1) /\ ~ Colored(layout)
  <2>1. ~ (px * py > 1)
    BY <1>1, <1>4, LayoutAssumption, LayoutOf DEF Colored
  <2>2. Owner[i] \in 0 .. px * py - 1 /\ Owner[j] \in 0 .. px * py - 1
    BY LatticeOf DEF Proc, Procs
  <2> HIDE DEF px, py
  <2>3. Owner[i] = 0 /\ Owner[j] = 0
    <3>1. \A n : n \in Int /\ ~ (n > 1) => \A a \in 0 .. n - 1 : a = 0
      OBVIOUS
    <3>2. px * py \in Int
      BY <1>1
    <3> QED BY <2>1, <2>2, <3>1, <3>2
  <2> QED BY <2>3
<1> QED BY <1>2, <1>3, <1>4

-----------------------------------------------------------------------------
(* The invariant.                                                          *)

(* The number of sets for which p has sent, and received, its messages.    *)
Sent(p) == IF pc[p] \in {"receive", "sweep"} THEN sets[p] + 1 ELSE sets[p]
Rcvd(p) == IF pc[p] = "sweep" THEN sets[p] + 1 ELSE sets[p]

(* What q sends to p for the t-th set that processes go through.           *)
SetNo(t) == t % SetCount(layout)
Traffic(q, p, t) == Ghosts(p, SetNo(t)) \cap Mine(q)

(* What a process has received has been sent.                              *)
Causal ==
    \A p, q \in Proc : \A t \in Nat :
        t < Rcvd(q) /\ Traffic(p, q, t) # {} => t < Sent(p)

(* The messages of q to p are all that q has sent and p has not received.  *)
TrafficTo(q, p) == [t \in Nat |-> Traffic(q, p, t)]
Carries(q, p, st) == Holds(chan[q][p], st, Rcvd(p), Sent(q), TrafficTo(q, p), Spin)

Messages == UNION {[D -> Spin] : D \in SUBSET Site}

(* The values in a message are still those of its sender, but for sites of *)
(* the set the message is for, whose neighbors are in other sets.          *)
Current(q, p, st) ==
    \A a \in 1 .. Len(st) : \A j \in Traffic(q, p, st[a]) :
        Which(j) # SetNo(st[a]) => chan[q][p][a][j] = spin[q][j]

InTransit ==
    /\ DOMAIN chan = Proc
    /\ \A q \in Proc : /\ DOMAIN chan[q] = Proc
                       /\ \A p \in Proc : chan[q][p] \in Seq(Messages)
    /\ \A q, p \in Proc : \E st \in Seq(Nat) : Carries(q, p, st) /\ Current(q, p, st)

(* While p sweeps a set it sees the neighbors of its sites as they are.    *)
GhostsCurrent ==
    \A p \in Proc : pc[p] = "sweep" =>
        \A i \in SetSites(p) : \A j \in Nbr[i] : spin[p][j] = spin[Owner[j]][j]

(* A masked site has mostly neighbors of its own spin if its owner sweeps  *)
(* its set, or if all of them are in its set.                              *)
Inside(i) == \A j \in Nbr[i] : Owner[j] = Owner[i] /\ Which(j) = Which(i)

MasksHold ==
    /\ \A i \in Site : mask[i] => layout.mask
    /\ \A p \in Proc : pc[p] = "sweep" =>
          \A i \in SetSites(p) : mask[i] => MostlyAlike(spin[p], Nbr, i)
    /\ \A i \in Site : mask[i] /\ Inside(i) => MostlyAlike(spin[Owner[i]], Nbr, i)

(* A run is over after the last set, and streams are those of the layout.  *)
RunBounded ==
    /\ \A p \in Proc : pc[p] # "done" => sets[p] < AllSets
    /\ Strict => stream \in Streams(layout)

IInv ==
    /\ TypeOK
    /\ Causal
    /\ InTransit
    /\ GhostsCurrent
    /\ MasksHold
    /\ RunBounded

-----------------------------------------------------------------------------
(* Consequences of the definitions.                                        *)

(* The layout stays, and with it all that depends on nothing else.         *)
LEMMA Fixed ==
    ASSUME layout' = layout
    PROVE  /\ Proc' = Proc /\ Nbr' = Nbr /\ Site' = Site /\ Owner' = Owner
           /\ \A i : Which(i)' = Which(i)
           /\ \A p : Mine(p)' = Mine(p)
           /\ \A t : SetNo(t)' = SetNo(t)
           /\ \A q, p, t : Traffic(q, p, t)' = Traffic(q, p, t)
           /\ \A q, p : TrafficTo(q, p)' = TrafficTo(q, p)
           /\ Messages' = Messages
           /\ Strict' = Strict /\ AllSets' = AllSets
<1>1. Proc' = Proc /\ Nbr' = Nbr /\ Owner' = Owner
  BY DEF Proc, Nbr, Owner
<1>2. Site' = Site
  BY <1>1 DEF Site
<1>3. \A i : Which(i)' = Which(i)
  BY DEF Which
<1>4. \A p : Mine(p)' = Mine(p)
  BY <1>1, <1>2 DEF Mine
<1>5. \A t : SetNo(t)' = SetNo(t)
  BY DEF SetNo
<1>6. \A q, p, t : Traffic(q, p, t)' = Traffic(q, p, t)
  BY <1>4, <1>5 DEF Traffic, Ghosts
<1>7. Strict' = Strict /\ AllSets' = AllSets
  BY DEF Strict, AllSets
<1>8. \A q, p : TrafficTo(q, p)' = TrafficTo(q, p)
  BY <1>6 DEF TrafficTo
<1>9. Messages' = Messages
  BY <1>2 DEF Messages
<1> QED BY <1>1, <1>2, <1>3, <1>4, <1>5, <1>6, <1>7, <1>8, <1>9

LEMMA SetNoType == ASSUME layout \in Layouts, NEW t \in Nat PROVE SetNo(t) \in SetNumbers
BY LayoutOf DEF SetNo, SetNumbers

(* The set a process is in, and its ghosts.                                *)
LEMMA InSet ==
    ASSUME layout \in Layouts, NEW p \in Proc, sets[p] \in Nat
    PROVE  /\ SetOf(p) = SetNo(sets[p]) /\ SetOf(p) \in SetNumbers
           /\ SetSites(p) = {i \in Site : Owner[i] = p /\ Which(i) = SetNo(sets[p])}
           /\ Border(p) = {i \in SetSites(p) : ~ (Nbr[i] \subseteq SetSites(p))}
<1>1. SetOf(p) = SetNo(sets[p]) /\ SetOf(p) \in SetNumbers
  BY SetNoType DEF SetOf, SetNo
<1> QED BY <1>1, SetsOf DEF SetSites, Border

LEMMA GhostsOf ==
    ASSUME layout \in Layouts, NEW p \in Proc, NEW s \in SetNumbers, NEW j
    PROVE  j \in Ghosts(p, s) <=>
             /\ j \notin Mine(p)
             /\ \E i \in Site : /\ Owner[i] = p /\ j \in Nbr[i]
                                /\ layout.nsector > 1 => Which(i) = s
<1> DEFINE seen == IF layout.nsector > 1 THEN Geometry[layout].set[p][s] ELSE Mine(p)
           seenOf == {i \in Site : Owner[i] = p /\ (layout.nsector > 1 => Which(i) = s)}
           near(S) == UNION {Nbr[i] : i \in S}
<1>1. Ghosts(p, s) = (near(seen)) \ Mine(p)
  BY SetsOf
<1>2. seen = seenOf
  BY SetsOf DEF Mine
<1>3. j \in near(seenOf) <=> \E i \in seenOf : j \in Nbr[i]
  OBVIOUS
<1> HIDE DEF seen, near
<1>4. j \in Ghosts(p, s) <=> j \notin Mine(p) /\ \E i \in seenOf : j \in Nbr[i]
  BY <1>1, <1>2, <1>3
<1> QED BY <1>4

LEMMA TrafficOf ==
    ASSUME layout \in Layouts, NEW q \in Proc, NEW p \in Proc, NEW t \in Nat,
           NEW j \in Traffic(q, p, t)
    PROVE  j \in Site /\ Owner[j] = q /\ q # p
<1>1. SetNo(t) \in SetNumbers
  BY SetNoType
<1>2. j \in Mine(q) /\ j \notin Mine(p)
  BY <1>1, GhostsOf DEF Traffic
<1> QED BY <1>2 DEF Mine

(* If q sends site i for some set of p, then p sends q something for the   *)
(* set of i.                                                               *)
LEMMA TrafficBack ==
    ASSUME layout \in Layouts, NEW q \in Proc, NEW p \in Proc, NEW t \in Nat,
           NEW i \in Traffic(q, p, t), NEW u \in Nat, SetNo(u) = Which(i)
    PROVE  Traffic(p, q, u) # {}
<1>1. SetNo(t) \in SetNumbers /\ SetNo(u) \in SetNumbers
  BY SetNoType
<1>2. i \in Site /\ Owner[i] = q /\ q # p
  BY TrafficOf
<1>3. PICK k \in Site : Owner[k] = p /\ i \in Nbr[k]
  BY <1>1, GhostsOf DEF Traffic
<1>4. k \in Mine(p) /\ k \notin Mine(q) /\ k \in Nbr[i]
  BY <1>2, <1>3, LatticeOf DEF Mine
<1>5. k \in Ghosts(q, SetNo(u))
  BY <1>1, <1>2, <1>4, GhostsOf
<1> QED BY <1>4, <1>5 DEF Traffic

(* A neighbor of another process is sent for the set, and is in another.   *)
LEMMA NeighborSent ==
    ASSUME layout \in Layouts, WideEnough, NEW p \in Proc, NEW t \in Nat,
           NEW i \in Site, Owner[i] = p, Which(i) = SetNo(t),
           NEW j \in Nbr[i], Owner[j] # p
    PROVE  /\ j \in Ghosts(p, SetNo(t)) /\ j \in Traffic(Owner[j], p, t)
           /\ Which(j) # SetNo(t)
<1>1. SetNo(t) \in SetNumbers /\ j \in Site
  BY SetNoType, LatticeOf
<1>2. j \notin Mine(p)
  BY DEF Mine
<1>3. j \in Ghosts(p, SetNo(t))
  BY <1>1, <1>2, GhostsOf
<1>4. Which(j) # SetNo(t)
  BY Apart
<1> QED BY <1>1, <1>3, <1>4 DEF Traffic, Mine

LEMMA CountsOf ==
    ASSUME TypeOK, NEW p \in Proc
    PROVE  /\ layout \in Layouts /\ sets[p] \in Nat
           /\ Sent(p) \in {sets[p], sets[p] + 1} /\ Rcvd(p) \in {sets[p], sets[p] + 1}
           /\ Sent(p) \in Nat /\ Rcvd(p) \in Nat /\ Rcvd(p) <= Sent(p)
           /\ AllSets \in Nat \ {0}
<1>1. sets[p] \in Nat /\ layout \in Layouts
  BY LayoutOf, StopAssumption DEF TypeOK
<1>2. AllSets \in Nat \ {0}
  BY <1>1, LayoutOf, StopAssumption DEF AllSets
<1> QED BY <1>1, <1>2 DEF Sent, Rcvd

(* A spin's energy, and so whether a change is uphill and whether a site   *)
(* may be masked, depends on the site and its neighbors only.              *)
LEMMA EnergyIsLocal ==
    ASSUME NEW v, NEW w, NEW nb, NEW i, v[i] = w[i], \A j \in nb[i] : v[j] = w[j]
    PROVE  /\ \A s : Uphill(v, nb, i, s) <=> Uphill(w, nb, i, s)
           /\ MostlyAlike(v, nb, i) <=> MostlyAlike(w, nb, i)
<1>1. \A s : {j \in nb[i] : v[j] # s} = {j \in nb[i] : w[j] # s}
  OBVIOUS
<1>2. \A s : SiteEnergy(v, nb, i, s) = SiteEnergy(w, nb, i, s)
  BY <1>1 DEF SiteEnergy
<1> QED BY <1>2 DEF Uphill, MostlyAlike

-----------------------------------------------------------------------------
(* Consequences of the invariant.                                          *)

(* What a queue carries, in the terms of the processes.                    *)
LEMMA CarriesOf ==
    ASSUME NEW q \in Proc, NEW p \in Proc, NEW st \in Seq(Nat), Carries(q, p, st)
    PROVE  /\ Len(st) = Len(chan[q][p])
           /\ \A a \in 1 .. Len(st) :
                 /\ st[a] \in Nat /\ Rcvd(p) <= st[a] /\ st[a] < Sent(q)
                 /\ chan[q][p][a] \in [Traffic(q, p, st[a]) -> Spin]
<1>1. \A a \in 1 .. Len(st) : st[a] \in Nat /\ TrafficTo(q, p)[st[a]] = Traffic(q, p, st[a])
  BY DEF TrafficTo
<1> HIDE DEF TrafficTo
<1> QED BY <1>1 DEF Carries, Holds

(* Of two processes that sweep, neither has a site in hand that is beside  *)
(* a site the other has in hand.                                           *)
LEMMA SweepsApart ==
    ASSUME WideEnough, TypeOK, Causal, NEW p \in Proc, NEW q \in Proc,
           pc[p] = "sweep", pc[q] = "sweep",
           NEW i \in SetSites(p), NEW j \in Nbr[i], Owner[j] = q, p # q
    PROVE  j \notin SetSites(q)
<1>1. /\ layout \in Layouts /\ sets[p] \in Nat /\ sets[q] \in Nat
      /\ Rcvd(p) = sets[p] + 1 /\ Sent(p) = sets[p] + 1
      /\ Rcvd(q) = sets[q] + 1 /\ Sent(q) = sets[q] + 1
  BY CountsOf DEF Rcvd, Sent
<1>2. i \in Site /\ Owner[i] = p /\ Which(i) = SetNo(sets[p])
  BY <1>1, InSet
<1>3. SUFFICES ASSUME Which(j) = SetNo(sets[q]) PROVE FALSE
  BY <1>1, InSet
<1>4. j \in Traffic(q, p, sets[p]) /\ Which(j) # SetNo(sets[p])
  BY <1>1, <1>2, NeighborSent
<1>5. Traffic(p, q, sets[q]) # {}
  BY <1>1, <1>3, <1>4, TrafficBack
<1>6. sets[p] < Sent(q) /\ sets[q] < Sent(p)
  BY <1>1, <1>4, <1>5 DEF Causal
<1>7. sets[p] = sets[q]
  BY <1>1, <1>6
<1> QED BY <1>3, <1>4, <1>7

(* A site a process has in hand is in no message of it for another set.    *)
LEMMA MessagesApart ==
    ASSUME TypeOK, Causal, NEW q \in Proc, NEW r \in Proc, pc[q] = "sweep",
           NEW t \in Nat, Rcvd(r) <= t, t < Sent(q),
           NEW j \in Traffic(q, r, t), Which(j) # SetNo(t)
    PROVE  j \notin SetSites(q)
<1>1. /\ layout \in Layouts /\ sets[q] \in Nat /\ Sent(r) \in Nat /\ Rcvd(r) \in Nat
      /\ Rcvd(q) = sets[q] + 1 /\ Sent(q) = sets[q] + 1 /\ Sent(r) <= Rcvd(r) + 1
  BY CountsOf DEF Rcvd, Sent
<1>2. SUFFICES ASSUME Which(j) = SetNo(sets[q]) PROVE FALSE
  BY <1>1, InSet
<1>3. t < sets[q]
  BY <1>1, <1>2
<1>4. Traffic(r, q, sets[q]) # {}
  BY <1>1, <1>2, TrafficBack
<1>5. sets[q] < Sent(r)
  BY <1>1, <1>4 DEF Causal
<1> QED BY <1>1, <1>3, <1>5

-----------------------------------------------------------------------------
(* The invariant holds at the start.                                       *)

LEMMA InitInv == Init => IInv
<1> SUFFICES ASSUME Init PROVE IInv
  OBVIOUS
<1>1. PICK l \in Starts(layout) : spin = [p \in Proc |-> l]
  BY DEF Init
<1>2. /\ layout \in Layouts /\ (Strict => stream \in Streams(layout))
      /\ mask = [i \in Site |-> FALSE] /\ pc = [p \in Proc |-> "send"]
      /\ sets = [p \in Proc |-> 0] /\ left = [p \in Proc |-> 0]
      /\ used = [i \in Site |-> 0] /\ chan = [q \in Proc |-> [p \in Proc |-> <<>>]]
  BY DEF Init
<1>3. l \in [Site -> Spin]
  BY <1>1, <1>2, StartAssumption, GeometryOf
<1>4. \A p \in Proc : Sent(p) = 0 /\ Rcvd(p) = 0
  BY <1>2 DEF Sent, Rcvd
<1>5. /\ Cardinality(Site) \in Nat /\ AllSets \in Nat \ {0}
      /\ AllSets = SetCount(layout) * StopSweeps
  BY <1>2, LatticeOf, FS_CardinalityType, LayoutOf, StopAssumption DEF AllSets
<1>6. TypeOK
  BY <1>1, <1>2, <1>3, <1>5 DEF TypeOK
<1>7. Causal
  BY <1>4 DEF Causal
<1>8. InTransit
  <2>1. ASSUME NEW q \in Proc, NEW p \in Proc PROVE Carries(q, p, <<>>) /\ Current(q, p, <<>>)
    BY <1>2, <1>4, <2>1 DEF Carries, Holds, TrafficTo, Current
  <2>2. <<>> \in Seq(Nat) /\ <<>> \in Seq(Messages)
    OBVIOUS
  <2> QED BY <1>2, <2>1, <2>2 DEF InTransit
<1>9. GhostsCurrent /\ MasksHold
  BY <1>2 DEF GhostsCurrent, MasksHold
<1>10. RunBounded
  BY <1>2, <1>5 DEF RunBounded
<1> QED BY <1>6, <1>7, <1>8, <1>9, <1>10 DEF IInv

-----------------------------------------------------------------------------
(* One lemma per action: the step preserves the invariant.                 *)

(* A step that moves no message and no count keeps the protocol part, if   *)
(* what messages carry stays current.                                      *)
LEMMA SameMessages ==
    ASSUME Causal, InTransit, layout' = layout, chan' = chan,
           \A p \in Proc : Sent(p)' = Sent(p) /\ Rcvd(p)' = Rcvd(p),
           \A q, p \in Proc : \A st \in Seq(Nat) :
              Carries(q, p, st) /\ Current(q, p, st) => Current(q, p, st)'
    PROVE  Causal' /\ InTransit'
<1>1. Causal'
  BY Fixed DEF Causal
<1>2. ASSUME NEW q \in Proc, NEW p \in Proc, NEW st \in Seq(Nat)
      PROVE  Carries(q, p, st)' <=> Carries(q, p, st)
  BY Fixed DEF Carries
<1>3. InTransit'
  BY <1>2, Fixed DEF InTransit
<1> QED BY <1>1, <1>3

(* Messages stay current if their sender changes none of the sites in them *)
(* that are not of the set they are for.                                   *)
LEMMA StillCurrent ==
    ASSUME layout' = layout, chan' = chan, NEW q \in Proc, NEW p \in Proc, NEW st \in Seq(Nat),
           Current(q, p, st),
           \A a \in 1 .. Len(st) : \A j \in Traffic(q, p, st[a]) :
              Which(j) # SetNo(st[a]) => spin'[q][j] = spin[q][j]
    PROVE  Current(q, p, st)'
BY Fixed DEF Current

(* What a step says of the types other than messages.                      *)
LEMMA TypesOf ==
    ASSUME layout' = layout, layout \in Layouts, InTransit',
           spin' \in [Proc -> [Site -> Spin]], mask' \in [Site -> BOOLEAN],
           pc' \in [Proc -> {"send", "receive", "sweep", "done"}],
           sets' \in [Proc -> 0 .. SetCount(layout) * StopSweeps],
           left' \in [Proc -> 0 .. Cardinality(Site)], used' \in [Site -> Nat]
    PROVE  TypeOK'
<1>1. \A p, q \in Proc : \A n \in DOMAIN chan'[q][p] :
          /\ DOMAIN chan'[q][p][n] \subseteq Mine(q)
          /\ chan'[q][p][n] \in [DOMAIN chan'[q][p][n] -> Spin]
  <2>1. SUFFICES ASSUME NEW p \in Proc, NEW q \in Proc, NEW n \in DOMAIN chan'[q][p]
                 PROVE  /\ DOMAIN chan'[q][p][n] \subseteq Mine(q)
                        /\ chan'[q][p][n] \in [DOMAIN chan'[q][p][n] -> Spin]
    OBVIOUS
  <2>2. PICK st \in Seq(Nat) : Carries(q, p, st)'
    BY Fixed DEF InTransit
  <2>3. Holds(chan'[q][p], st, Rcvd(p)', Sent(q)', TrafficTo(q, p), Spin)
    BY <2>2, Fixed DEF Carries
  <2>4. chan'[q][p] \in Seq(Messages)
    BY Fixed DEF InTransit
  <2>5. n \in 1 .. Len(st)
    BY <2>3, <2>4 DEF Holds
  <2>6. st[n] \in Nat /\ chan'[q][p][n] \in [TrafficTo(q, p)[st[n]] -> Spin]
    BY <2>3, <2>5 DEF Holds
  <2> QED BY <2>6 DEF TrafficTo, Traffic
<1> QED BY <1>1, Fixed DEF TypeOK

LEMMA EndSetInv ==
    ASSUME IInv, NEW p \in Proc, EndSet(p)
    PROVE  IInv'
<1>1. /\ TypeOK /\ Causal /\ InTransit /\ layout \in Layouts
      /\ pc[p] = "sweep" /\ sets[p] \in Nat /\ sets[p] < AllSets
      /\ sets' = [sets EXCEPT ![p] = sets[p] + 1]
      /\ pc' = [pc EXCEPT ![p] = IF sets[p] + 1 = AllSets THEN "done" ELSE "send"]
      /\ UNCHANGED <<layout, spin, mask, left, used, chan, stream, answer>>
  BY CountsOf DEF IInv, EndSet, RunBounded
<1>2. /\ pc' \in [Proc -> {"send", "receive", "sweep", "done"}]
      /\ \A q \in Proc : /\ q # p => pc'[q] = pc[q] /\ sets'[q] = sets[q]
                         /\ Sent(q)' = Sent(q) /\ Rcvd(q)' = Rcvd(q)
                         /\ pc'[q] = "sweep" => q # p
      /\ sets'[p] = sets[p] + 1
      /\ pc'[p] = IF sets[p] + 1 = AllSets THEN "done" ELSE "send"
  BY <1>1 DEF TypeOK, Sent, Rcvd
<1>3. AllSets \in Nat /\ AllSets = SetCount(layout) * StopSweeps
  BY <1>1, CountsOf DEF AllSets
<1>4. Causal' /\ InTransit'
  BY <1>1, <1>2, SameMessages, StillCurrent
<1>5. TypeOK'
  <2>1. sets' \in [Proc -> 0 .. SetCount(layout) * StopSweeps]
    BY <1>1, <1>3 DEF TypeOK
  <2> QED BY <1>1, <1>2, <1>4, <2>1, TypesOf DEF TypeOK
<1>6. \A q \in Proc : q # p => SetSites(q)' = SetSites(q)
  BY <1>1, <1>2 DEF SetSites, SetOf
<1>7. GhostsCurrent'
  BY <1>1, <1>2, <1>6, Fixed DEF IInv, GhostsCurrent
<1>8. MasksHold'
  BY <1>1, <1>2, <1>6, Fixed DEF IInv, MasksHold, Inside
<1>9. RunBounded'
  BY <1>1, <1>2, <1>3, Fixed DEF IInv, RunBounded
<1> QED BY <1>4, <1>5, <1>7, <1>8, <1>9 DEF IInv

LEMMA SkipInv ==
    ASSUME IInv, NEW p \in Proc, Skip(p)
    PROVE  IInv'
<1>1. /\ TypeOK /\ Causal /\ InTransit /\ layout \in Layouts
      /\ left[p] > 0 /\ left' = [left EXCEPT ![p] = @ - 1]
      /\ UNCHANGED <<layout, spin, mask, pc, sets, used, chan, stream, answer>>
  BY DEF IInv, Skip, TypeOK
<1>2. \A q \in Proc : Sent(q)' = Sent(q) /\ Rcvd(q)' = Rcvd(q)
  BY <1>1 DEF Sent, Rcvd
<1>3. Causal' /\ InTransit'
  BY <1>1, <1>2, SameMessages, StillCurrent
<1>4. TypeOK'
  <2>1. Cardinality(Site) \in Nat
    BY <1>1, LatticeOf, FS_CardinalityType
  <2>2. left' \in [Proc -> 0 .. Cardinality(Site)]
    BY <1>1, <2>1 DEF TypeOK
  <2> QED BY <1>1, <1>3, <2>2, TypesOf DEF TypeOK
<1>5. \A q : SetSites(q)' = SetSites(q)
  BY <1>1 DEF SetSites, SetOf
<1>6. GhostsCurrent'
  BY <1>1, <1>5, Fixed DEF IInv, GhostsCurrent
<1>7. MasksHold' /\ RunBounded'
  BY <1>1, <1>5, Fixed DEF IInv, MasksHold, Inside, RunBounded
<1> QED BY <1>3, <1>4, <1>6, <1>7 DEF IInv

(* Random numbers are spins.                                               *)
LEMMA NumberOf ==
    ASSUME layout \in Layouts, Strict, NEW st \in Streams(layout), NEW i \in Site, NEW n \in Nat
    PROVE  Number(st, i, n) \in Spin
<1>1. st \in [Site -> Seq(Spin) \ {<<>>}]
  BY StartAssumption, GeometryOf DEF Strict
<1>2. st[i] \in Seq(Spin) /\ Len(st[i]) \in Nat \ {0}
  <2>1. st[i] \in Seq(Spin) /\ st[i] # <<>>
    BY <1>1
  <2> QED BY <2>1
<1>3. (n % Len(st[i])) + 1 \in 1 .. Len(st[i])
  <2>1. \A len \in Nat \ {0} : (n % len) + 1 \in 1 .. len
    OBVIOUS
  <2> QED BY <1>2, <2>1
<1> QED BY <1>2, <1>3 DEF Number

(* What an attempt does: site i of the set of p, not masked, is offered a  *)
(* spin.                                                                   *)
LEMMA AttemptIs ==
    ASSUME TypeOK, RunBounded, NEW p \in Proc, Attempt(p)
    PROVE  /\ pc[p] = "sweep" /\ left[p] > 0 /\ left' = [left EXCEPT ![p] = @ - 1]
           /\ UNCHANGED <<layout, pc, sets, chan, stream, answer>>
           /\ \E i \in SetSites(p), s \in Spin, lucky \in BOOLEAN :
                 LET new == Offered(spin[p], Nbr, i, s, layout.warm, lucky)
                 IN  /\ ~ mask[i]
                     /\ new \in Spin
                     /\ spin' = [spin EXCEPT ![p][i] = new]
                     /\ mask' = IF layout.mask THEN MaskAfter(p, i, new # spin[p][i]) ELSE mask
                     /\ used' \in [Site -> Nat]
<1>1. /\ pc[p] = "sweep" /\ left[p] > 0 /\ left' = [left EXCEPT ![p] = @ - 1]
      /\ UNCHANGED <<layout, pc, sets, chan, stream, answer>>
  BY DEF Attempt
<1>2. PICK i \in Candidates(p) : ~ mask[i] /\ \E s \in Spins(i), lucky \in Lucks(i) :
         LET l == spin[p]
             new == Offered(l, Nbr, i, s, layout.warm, lucky)
         IN  /\ spin' = [spin EXCEPT ![p][i] = new]
             /\ mask' = IF layout.mask THEN MaskAfter(p, i, new # l[i]) ELSE mask
             /\ used' = IF Strict THEN [used EXCEPT ![i] = SeedAfter(l, i, s)] ELSE used
  BY DEF Attempt
<1>3. i \in SetSites(p)
  BY DEF Candidates
<1>4. i \in Site
  BY <1>3, CountsOf, InSet
<1>5. PICK s \in Spins(i), lucky \in Lucks(i) :
         LET new == Offered(spin[p], Nbr, i, s, layout.warm, lucky)
         IN  /\ spin' = [spin EXCEPT ![p][i] = new]
             /\ mask' = IF layout.mask THEN MaskAfter(p, i, new # spin[p][i]) ELSE mask
             /\ used' = IF Strict THEN [used EXCEPT ![i] = SeedAfter(spin[p], i, s)] ELSE used
  BY <1>2
<1>6. s \in Spin
  <2>1. CASE ~ Strict
    BY <2>1 DEF Spins
  <2>2. CASE Strict
    <3>1. stream \in Streams(layout) /\ layout \in Layouts /\ layout.style = "color/strict"
      BY <2>2 DEF RunBounded, TypeOK, Strict
    <3>2. used[i] \in Nat
      BY <1>4 DEF TypeOK
    <3> QED BY <1>4, <2>2, <3>1, <3>2, NumberOf DEF Spins
  <2> QED BY <2>1, <2>2
<1>7. lucky \in BOOLEAN
  BY DEF Lucks
<1>8. Offered(spin[p], Nbr, i, s, layout.warm, lucky) \in Spin
  BY <1>4, <1>6 DEF Offered, TypeOK
<1>9. used' \in [Site -> Nat]
  <2>1. SeedAfter(spin[p], i, s) \in Nat
    BY <1>4 DEF SeedAfter, TypeOK
  <2> QED BY <1>4, <1>5, <2>1 DEF TypeOK
<1> QED BY <1>1, <1>2, <1>3, <1>5, <1>6, <1>7, <1>8, <1>9

(* The masks after an attempt of p at site i: a site of p that is still    *)
(* masked is mostly alike in the memory of p.                              *)
LEMMA MasksAfterAttempt ==
    ASSUME TypeOK, MasksHold, NEW p \in Proc, NEW i \in Site, Owner[i] = p, ~ mask[i],
           NEW s \in Spin, NEW lucky \in BOOLEAN, NEW new \in Spin, NEW w,
           new = Offered(spin[p], Nbr, i, s, layout.warm, lucky),
           w = [spin[p] EXCEPT ![i] = new],
           mask' = IF layout.mask THEN MaskAfter(p, i, new # spin[p][i]) ELSE mask,
           NEW k \in Site, mask'[k]
    PROVE  /\ layout.mask
           /\ Owner[k] # p => mask[k]
           /\ Owner[k] = p /\ (mask[k] => MostlyAlike(spin[p], Nbr, k)) => MostlyAlike(w, Nbr, k)
<1>1. layout \in Layouts /\ spin[p] \in [Site -> Spin] /\ mask \in [Site -> BOOLEAN]
  BY DEF TypeOK
<1>2. layout.mask /\ mask' = MaskAfter(p, i, new # spin[p][i])
  <2>1. mask[k] => layout.mask
    BY DEF MasksHold
  <2> QED BY <2>1
<1>3. ~ layout.warm
  BY <1>1, <1>2, LayoutAssumption
<1>4. /\ ~ (new # spin[p][i] /\ k \in Nbr[i] /\ Owner[k] = p)
      /\ k = i => MostlyAlike(spin[p], Nbr, i)
      /\ k # i => mask[k]
  BY <1>1, <1>2 DEF MaskAfter
<1>5. k = i => new = spin[p][i]
  <2>1. SUFFICES ASSUME MostlyAlike(spin[p], Nbr, i) PROVE new = spin[p][i]
    BY <1>4
  <2>2. IsFiniteSet(Nbr[i])
    BY <1>1, LatticeOf
  <2>3. layout.warm = FALSE
    BY <1>1, <1>3, LayoutOf
  <2>4. Offered(spin[p], Nbr, i, s, FALSE, lucky) = spin[p][i]
    <3>1. ASSUME NEW l, NEW nb, IsFiniteSet(nb[i]), MostlyAlike(l, nb, i)
          PROVE  Offered(l, nb, i, s, FALSE, lucky) = l[i]
      BY <3>1, MaskedSitesKeepTheirSpin, ZenonT(30)
    <3> QED BY <2>1, <2>2, <3>1
  <2> QED BY <2>3, <2>4
<1>6. ASSUME Owner[k] = p, mask[k] => MostlyAlike(spin[p], Nbr, k) PROVE MostlyAlike(w, Nbr, k)
  <2>1. MostlyAlike(spin[p], Nbr, k)
    BY <1>4, <1>6
  <2>2. w[k] = spin[p][k] /\ \A j \in Nbr[k] : w[j] = spin[p][j]
    <3>1. CASE new = spin[p][i]
      BY <1>1, <3>1
    <3>2. CASE new # spin[p][i]
      <4>1. k # i /\ k \notin Nbr[i]
        BY <1>4, <1>5, <1>6, <3>2
      <4>2. i \notin Nbr[k]
        BY <1>1, <4>1, LatticeOf
      <4>3. \A j \in Nbr[k] : j \in Site
        BY <1>1, LatticeOf
      <4> QED BY <1>1, <4>1, <4>2, <4>3
    <3> QED BY <3>1, <3>2
  <2> QED BY <2>1, <2>2, EnergyIsLocal
<1>7. Owner[k] # p => mask[k]
  BY <1>4
<1> QED BY <1>2, <1>6, <1>7

LEMMA AttemptInv ==
    ASSUME WideEnough, IInv, NEW p \in Proc, Attempt(p)
    PROVE  IInv'
<1>1. /\ TypeOK /\ Causal /\ InTransit /\ layout \in Layouts /\ sets[p] \in Nat
      /\ pc[p] = "sweep" /\ left[p] > 0 /\ left' = [left EXCEPT ![p] = @ - 1]
      /\ UNCHANGED <<layout, pc, sets, chan, stream, answer>>
  BY AttemptIs, CountsOf DEF IInv
<1>2. PICK i \in SetSites(p), s \in Spin, lucky \in BOOLEAN :
         LET new == Offered(spin[p], Nbr, i, s, layout.warm, lucky)
         IN  /\ ~ mask[i]
             /\ new \in Spin
             /\ spin' = [spin EXCEPT ![p][i] = new]
             /\ mask' = IF layout.mask THEN MaskAfter(p, i, new # spin[p][i]) ELSE mask
             /\ used' \in [Site -> Nat]
  BY AttemptIs DEF IInv
<1> DEFINE new == Offered(spin[p], Nbr, i, s, layout.warm, lucky)
           w == [spin[p] EXCEPT ![i] = new]
<1>3. /\ ~ mask[i] /\ new \in Spin /\ used' \in [Site -> Nat]
      /\ spin' = [spin EXCEPT ![p] = w]
      /\ mask' = IF layout.mask THEN MaskAfter(p, i, new # spin[p][i]) ELSE mask
  BY <1>1, <1>2 DEF TypeOK
<1>4. i \in Site /\ Owner[i] = p /\ Which(i) = SetNo(sets[p])
  BY <1>1, InSet
<1>5. /\ w \in [Site -> Spin] /\ spin' \in [Proc -> [Site -> Spin]]
      /\ spin'[p] = w
      /\ \A q \in Proc : q # p => spin'[q] = spin[q]
      /\ \A q \in Proc : \A j : j # i => spin'[q][j] = spin[q][j]
  <2>1. w \in [Site -> Spin] /\ \A j : j # i => w[j] = spin[p][j]
    <3> HIDE DEF new
    <3>1. spin[p] \in [Site -> Spin]
      BY <1>1 DEF TypeOK
    <3>2. DOMAIN w = Site /\ w[i] = new
      BY <1>3, <1>4, <3>1
    <3>3. \A j \in Site : w[j] \in Spin
      BY <1>3, <1>4, <3>1
    <3>4. \A j : j # i => w[j] = spin[p][j]
      BY <1>4, <3>1
    <3> QED BY <1>3, <3>1, <3>4
  <2> HIDE DEF w
  <2>2. spin \in [Proc -> [Site -> Spin]]
    BY <1>1 DEF TypeOK
  <2> QED BY <1>3, <2>1, <2>2
<1>6. mask' \in [Site -> BOOLEAN]
  BY <1>1, <1>3 DEF TypeOK, MaskAfter, MostlyAlike
<1>7. \A q \in Proc : Sent(q)' = Sent(q) /\ Rcvd(q)' = Rcvd(q)
  BY <1>1 DEF Sent, Rcvd
<1>8. Causal' /\ InTransit'
  <2> HIDE DEF w, new
  <2>1. SUFFICES ASSUME NEW q \in Proc, NEW r \in Proc, NEW st \in Seq(Nat),
                        Carries(q, r, st), Current(q, r, st)
                 PROVE  Current(q, r, st)'
    BY <1>1, <1>7, SameMessages
  <2>2. SUFFICES ASSUME NEW a \in 1 .. Len(st), NEW j \in Traffic(q, r, st[a]),
                        Which(j) # SetNo(st[a])
                 PROVE  spin'[q][j] = spin[q][j]
    BY <1>1, <2>1, StillCurrent
  <2>3. st[a] \in Nat /\ Rcvd(r) <= st[a] /\ st[a] < Sent(q)
    BY <2>1, CarriesOf
  <2>4. ASSUME q = p PROVE j # i
    BY <1>1, <2>2, <2>3, <2>4, MessagesApart
  <2> QED BY <1>5, <2>4
<1>9. TypeOK'
  <2>1. Cardinality(Site) \in Nat
    BY <1>1, LatticeOf, FS_CardinalityType
  <2>2. left' \in [Proc -> 0 .. Cardinality(Site)]
    BY <1>1, <2>1 DEF TypeOK
  <2> QED BY <1>1, <1>3, <1>5, <1>6, <1>8, <2>2, TypesOf DEF TypeOK
<1>10. \A q : SetSites(q)' = SetSites(q)
  BY <1>1 DEF SetSites, SetOf
<1> HIDE DEF new, w
<1>11. GhostsCurrent'
  <2>1. SUFFICES ASSUME NEW q \in Proc, pc[q] = "sweep", NEW k \in SetSites(q), NEW j \in Nbr[k]
                 PROVE  spin'[q][j] = spin'[Owner[j]][j]
    BY <1>1, <1>10, Fixed DEF GhostsCurrent
  <2>2. k \in Site /\ j \in Site /\ Owner[j] \in Proc
    BY <1>1, <2>1, CountsOf, InSet, LatticeOf
  <2>3. spin[q][j] = spin[Owner[j]][j]
    BY <2>1 DEF IInv, GhostsCurrent
  <2>4. CASE j # i
    BY <1>5, <2>2, <2>3, <2>4
  <2>5. CASE j = i /\ q = p
    BY <1>4, <2>5
  <2>6. CASE j = i /\ q # p
    BY <1>1, <1>4, <2>1, <2>6, SweepsApart
  <2> QED BY <2>4, <2>5, <2>6
<1>12. MasksHold'
  <2>1. ASSUME NEW k \in Site, mask'[k]
        PROVE  /\ layout.mask
               /\ Owner[k] # p => mask[k]
               /\ Owner[k] = p /\ (mask[k] => MostlyAlike(spin[p], Nbr, k)) => MostlyAlike(w, Nbr, k)
    BY <1>1, <1>3, <1>4, <2>1, MasksAfterAttempt DEF IInv, new, w
  <2>2. ASSUME NEW q \in Proc, pc[q] = "sweep", NEW k \in SetSites(q), mask'[k]
        PROVE  MostlyAlike(spin'[q], Nbr, k)
    <3>1. k \in Site /\ Owner[k] = q /\ (mask[k] => MostlyAlike(spin[q], Nbr, k))
      BY <1>1, <2>2, CountsOf, InSet DEF IInv, MasksHold
    <3> QED BY <1>5, <2>1, <2>2, <3>1
  <2>3. ASSUME NEW k \in Site, mask'[k], Inside(k)
        PROVE  MostlyAlike(spin'[Owner[k]], Nbr, k)
    <3>1. Owner[k] \in Proc /\ (mask[k] => MostlyAlike(spin[Owner[k]], Nbr, k))
      BY <1>1, <2>3, LatticeOf DEF IInv, MasksHold
    <3> QED BY <1>5, <2>1, <2>3, <3>1
  <2>4. \A k : Inside(k)' = Inside(k)
    BY <1>1, Fixed DEF Inside
  <2> QED BY <1>1, <1>10, <2>1, <2>2, <2>3, <2>4, Fixed DEF MasksHold
<1>13. RunBounded'
  BY <1>1, Fixed DEF IInv, RunBounded
<1> QED BY <1>8, <1>9, <1>11, <1>12, <1>13 DEF IInv

LEMMA SendInv ==
    ASSUME IInv, NEW p \in Proc, Send(p)
    PROVE  IInv'
<1> DEFINE t == sets[p]
           To(r) == Traffic(p, r, t)
           Packed(r) == [i \in To(r) |-> spin[p][i]]
<1>1. /\ TypeOK /\ Causal /\ InTransit /\ layout \in Layouts /\ t \in Nat
      /\ pc[p] = "send" /\ pc' = [pc EXCEPT ![p] = "receive"]
      /\ UNCHANGED <<layout, spin, mask, sets, left, used, stream, answer>>
  BY CountsOf DEF IInv, Send
<1>2. \A r \in Proc : Ghosts(r, SetOf(p)) \cap Mine(p) = To(r)
  BY <1>1, InSet DEF Traffic
<1>3. chan' = [chan EXCEPT ![p] = [r \in Proc |->
                 IF To(r) = {} THEN chan[p][r] ELSE Append(chan[p][r], Packed(r))]]
  BY <1>1, <1>2 DEF Send, InTransit
<1>4. /\ DOMAIN chan' = Proc /\ \A q \in Proc : q # p => chan'[q] = chan[q]
      /\ DOMAIN chan'[p] = Proc
      /\ \A r \in Proc : chan'[p][r] =
            IF To(r) = {} THEN chan[p][r] ELSE Append(chan[p][r], Packed(r))
  <2> HIDE DEF To, Packed
  <2> QED BY <1>1, <1>3 DEF InTransit
<1>5. \A r \in Proc : Packed(r) \in [To(r) -> Spin] /\ Packed(r) \in Messages
  <2>1. SUFFICES ASSUME NEW r \in Proc PROVE Packed(r) \in [To(r) -> Spin] /\ To(r) \subseteq Site
    BY DEF Messages
  <2>2. \A i \in To(r) : i \in Site
    BY <1>1, <2>1, TrafficOf
  <2> QED BY <1>1, <2>2 DEF TypeOK
<1>6. /\ \A q \in Proc : Rcvd(q)' = Rcvd(q)
      /\ \A q \in Proc : q # p => Sent(q)' = Sent(q)
      /\ Sent(p) = t /\ Sent(p)' = t + 1
  BY <1>1 DEF Rcvd, Sent, TypeOK
<1>7. \A q \in Proc : Sent(q) \in Nat /\ Rcvd(q) \in Nat
  BY <1>1, CountsOf
<1>8. Causal'
  <2>1. SUFFICES ASSUME NEW q \in Proc, NEW r \in Proc, NEW u \in Nat,
                        u < Rcvd(r), Traffic(q, r, u) # {}
                 PROVE  u < Sent(q)'
    BY <1>1, <1>6, Fixed DEF Causal
  <2>2. u < Sent(q)
    BY <1>1, <2>1 DEF Causal
  <2> QED BY <1>1, <1>6, <1>7, <2>2
<1>9. \A r \in Proc : To(r) # {} => Rcvd(r) <= t
  <2>1. SUFFICES ASSUME NEW r \in Proc, To(r) # {}, t < Rcvd(r) PROVE FALSE
    BY <1>1, <1>7
  <2>2. t < Sent(p)
    BY <1>1, <2>1 DEF Causal
  <2> QED BY <1>1, <1>6, <2>2
(* The messages to r after p has sent its message for the set.             *)
<1>10. ASSUME NEW r \in Proc, NEW st \in Seq(Nat), Carries(p, r, st), Current(p, r, st)
       PROVE  \E su \in Seq(Nat) : Carries(p, r, su)' /\ Current(p, r, su)'
  <2> DEFINE tr == TrafficTo(p, r)
  <2>1. chan[p][r] \in Seq(Messages) /\ Holds(chan[p][r], st, Rcvd(r), t, tr, Spin)
    BY <1>1, <1>6, <1>10 DEF Carries, InTransit
  <2>2. tr[t] = To(r)
    BY <1>1 DEF TrafficTo
  <2>3. \A su : Carries(p, r, su)' <=> Holds(chan'[p][r], su, Rcvd(r), t + 1, tr, Spin)
    BY <1>1, <1>6, Fixed DEF Carries
  <2> HIDE DEF t, tr, To, Packed
  <2>4. CASE To(r) = {}
    <3>1. Holds(chan[p][r], st, Rcvd(r), t + 1, tr, Spin)
      BY <1>1, <1>7, <2>1, <2>2, <2>4, HoldsNoMore
    <3>2. Carries(p, r, st)'
      BY <1>4, <2>3, <2>4, <3>1
    <3>3. Current(p, r, st)'
      BY <1>1, <1>4, <1>10, <2>4, Fixed DEF Current
    <3> QED BY <3>2, <3>3
  <2>5. CASE To(r) # {}
    <3>1. /\ Append(st, t) \in Seq(Nat)
          /\ Holds(Append(chan[p][r], Packed(r)), Append(st, t), Rcvd(r), t + 1, tr, Spin)
      BY <1>1, <1>5, <1>7, <1>9, <2>1, <2>2, <2>5, HoldsOneMore
    <3>2. PICK su \in Seq(Nat) : su = Append(st, t)
      BY <3>1
    <3>3. Carries(p, r, su)'
      BY <1>4, <2>3, <2>5, <3>1, <3>2
    <3>4. Current(p, r, su)'
      <4>1. SUFFICES ASSUME NEW a \in 1 .. Len(su), NEW j \in Traffic(p, r, su[a]),
                            Which(j) # SetNo(su[a])
                     PROVE  chan'[p][r][a][j] = spin[p][j]
        BY <1>1, Fixed DEF Current
      <4>2. /\ Len(st) \in Nat /\ Len(su) = Len(st) + 1 /\ su[Len(st) + 1] = t
            /\ \A b \in 1 .. Len(st) : su[b] = st[b]
        BY <1>1, <3>2
      <4>3. Len(chan[p][r]) = Len(st)
        BY <2>1 DEF Holds
      <4>4. /\ chan'[p][r][Len(st) + 1] = Packed(r)
            /\ \A b \in 1 .. Len(st) : chan'[p][r][b] = chan[p][r][b]
        <5>1. \A c \in Seq(Messages) : \A m \in Messages :
                /\ Append(c, m)[Len(c) + 1] = m
                /\ \A b \in 1 .. Len(c) : Append(c, m)[b] = c[b]
          BY SMTT(30)
        <5>2. chan'[p][r] = Append(chan[p][r], Packed(r)) /\ Packed(r) \in Messages
          BY <1>4, <1>5, <2>5
        <5> QED BY <2>1, <4>3, <5>1, <5>2, SMTT(30)
      <4>5. CASE a \in 1 .. Len(st)
        <5>1. chan'[p][r][a] = chan[p][r][a] /\ su[a] = st[a]
          BY <4>2, <4>5, <4>4
        <5> QED BY <1>10, <4>1, <4>5, <5>1 DEF Current
      <4>6. CASE a = Len(st) + 1
        <5>1. chan'[p][r][a] = Packed(r) /\ j \in To(r)
          BY <4>1, <4>2, <4>6, <4>4 DEF To
        <5> QED BY <5>1 DEF Packed
      <4> QED BY <4>1, <4>2, <4>5, <4>6
    <3> QED BY <3>2, <3>3, <3>4
  <2> QED BY <2>4, <2>5
<1>11. ASSUME NEW q \in Proc, q # p, NEW r \in Proc, NEW st \in Seq(Nat)
       PROVE  /\ Carries(q, r, st)' <=> Carries(q, r, st)
              /\ Current(q, r, st)' <=> Current(q, r, st)
  BY <1>1, <1>4, <1>6, <1>11, Fixed DEF Carries, Current
<1>12. InTransit'
  <2>1. ASSUME NEW q \in Proc PROVE DOMAIN chan'[q] = Proc
    BY <1>1, <1>4 DEF InTransit
  <2>2. ASSUME NEW q \in Proc, NEW r \in Proc PROVE chan'[q][r] \in Seq(Messages)
    <3>1. chan[q][r] \in Seq(Messages)
      BY <1>1 DEF InTransit
    <3> HIDE DEF Packed, To
    <3>2. Append(chan[q][r], Packed(r)) \in Seq(Messages)
      BY <1>5, <3>1
    <3>3. chan'[q][r] = chan[q][r] \/ chan'[q][r] = Append(chan[q][r], Packed(r))
      BY <1>4
    <3> QED BY <3>1, <3>2, <3>3
  <2>3. ASSUME NEW q \in Proc, NEW r \in Proc PROVE \E st \in Seq(Nat) : Carries(q, r, st)' /\ Current(q, r, st)'
    <3>1. PICK st \in Seq(Nat) : Carries(q, r, st) /\ Current(q, r, st)
      BY <1>1 DEF InTransit
    <3> QED BY <1>10, <1>11, <3>1
  <2>4. \A q \in Proc : DOMAIN chan'[q] = Proc /\ \A r \in Proc : chan'[q][r] \in Seq(Messages)
    BY <2>1, <2>2
  <2>5. \A q, r \in Proc : \E st \in Seq(Nat) : Carries(q, r, st)' /\ Current(q, r, st)'
    BY <2>3
  <2> HIDE DEF Packed, To
  <2> QED BY <1>1, <1>4, <2>4, <2>5, Fixed DEF InTransit
<1>13. TypeOK'
  BY <1>1, <1>12, TypesOf DEF TypeOK
<1>14. \A q \in Proc : SetSites(q)' = SetSites(q) /\ (pc'[q] = "sweep" <=> pc[q] = "sweep")
  BY <1>1 DEF SetSites, SetOf, TypeOK
<1>15. GhostsCurrent' /\ MasksHold'
  BY <1>1, <1>14, Fixed DEF IInv, GhostsCurrent, MasksHold, Inside
<1>16. RunBounded'
  <2>1. \A q \in Proc : pc'[q] # "done" => pc[q] # "done"
    BY <1>1 DEF TypeOK
  <2> QED BY <1>1, <2>1, Fixed DEF IInv, RunBounded
<1> QED BY <1>8, <1>12, <1>13, <1>15, <1>16 DEF IInv

LEMMA ReceiveInv ==
    ASSUME WideEnough, IInv, NEW p \in Proc, Receive(p)
    PROVE  IInv'
<1> DEFINE t == sets[p]
           From(q) == Traffic(q, p, t)
           Got == [i \in Site |-> IF i \in Ghosts(p, SetNo(t)) THEN Head(chan[Owner[i]][p])[i]
                                  ELSE spin[p][i]]
<1>1. /\ TypeOK /\ Causal /\ InTransit /\ layout \in Layouts /\ t \in Nat
      /\ SetOf(p) = SetNo(t) /\ SetNo(t) \in SetNumbers
      /\ pc[p] = "receive" /\ pc' = [pc EXCEPT ![p] = "sweep"]
      /\ spin' = [spin EXCEPT ![p] = Got]
      /\ mask' = [i \in Site |-> mask[i] /\ i \notin Border(p)]
      /\ left' = [left EXCEPT ![p] = Cardinality(SetSites(p))]
      /\ UNCHANGED <<layout, sets, used, stream, answer>>
  <2>1. TypeOK /\ layout \in Layouts /\ t \in Nat /\ SetOf(p) = SetNo(t) /\ SetNo(t) \in SetNumbers
    BY CountsOf, InSet, SetNoType DEF IInv
  <2> QED BY <2>1 DEF IInv, Receive, TypeOK
<1>2. /\ \A q \in Proc : From(q) # {} => chan[q][p] # <<>>
      /\ DOMAIN chan' = Proc /\ \A q \in Proc : DOMAIN chan'[q] = Proc
      /\ \A q, r \in Proc : chan'[q][r] = IF r # p \/ From(q) = {} THEN chan[q][r]
                                          ELSE Tail(chan[q][r])
  <2>1. \A q \in Proc : Ghosts(p, SetOf(p)) \cap Mine(q) = From(q)
    BY <1>1 DEF Traffic
  <2> HIDE DEF From
  <2>2. /\ \A q \in Proc : From(q) # {} => chan[q][p] # <<>>
        /\ chan' = [q \in Proc |-> [chan[q] EXCEPT ![p] =
                       IF From(q) = {} THEN @ ELSE Tail(@)]]
    BY <2>1 DEF Receive
  <2>3. \A q \in Proc : DOMAIN chan[q] = Proc
    BY <1>1 DEF InTransit
  <2> QED BY <2>2, <2>3
<1>3. /\ \A q \in Proc : Sent(q)' = Sent(q)
      /\ \A q \in Proc : q # p => Rcvd(q)' = Rcvd(q)
      /\ Rcvd(p) = t /\ Rcvd(p)' = t + 1
  BY <1>1 DEF Rcvd, Sent, TypeOK
<1>4. \A q \in Proc : Sent(q) \in Nat /\ Rcvd(q) \in Nat
  BY <1>1, CountsOf
(* The oldest message of q is the one for the set.                         *)
<1>5. ASSUME NEW q \in Proc, From(q) # {}, NEW st \in Seq(Nat), Carries(q, p, st)
      PROVE  /\ t < Sent(q) /\ 1 \in 1 .. Len(st) /\ st[1] = t
             /\ Head(chan[q][p]) = chan[q][p][1] /\ chan[q][p][1] \in [From(q) -> Spin]
             /\ Tail(chan[q][p]) \in Seq(Messages) /\ Tail(st) \in Seq(Nat)
             /\ \A a \in 1 .. Len(Tail(st)) : /\ a + 1 \in 1 .. Len(st)
                                              /\ Tail(st)[a] = st[a + 1]
                                              /\ Tail(chan[q][p])[a] = chan[q][p][a + 1]
             /\ Holds(Tail(chan[q][p]), Tail(st), t + 1, Sent(q), TrafficTo(q, p), Spin)
  <2> DEFINE tr == TrafficTo(q, p)
  <2>1. /\ chan[q][p] \in Seq(Messages) /\ chan[q][p] # <<>>
        /\ Holds(chan[q][p], st, t, Sent(q), tr, Spin) /\ Sent(q) \in Nat
    BY <1>1, <1>2, <1>3, <1>4, <1>5 DEF Carries, InTransit
  <2>2. tr[t] = From(q)
    BY <1>1 DEF TrafficTo
  <2> HIDE DEF t, tr, From
  <2>3. tr[t] # {}
    BY <1>5, <2>2
  <2>4. /\ t < Sent(q) /\ 1 \in 1 .. Len(st) /\ st[1] = t
        /\ Head(chan[q][p]) = chan[q][p][1] /\ chan[q][p][1] \in [tr[t] -> Spin]
        /\ Tail(chan[q][p]) \in Seq(Messages) /\ Tail(st) \in Seq(Nat)
        /\ \A a \in 1 .. Len(Tail(st)) : /\ a + 1 \in 1 .. Len(st)
                                         /\ Tail(st)[a] = st[a + 1]
                                         /\ Tail(chan[q][p])[a] = chan[q][p][a + 1]
        /\ Holds(Tail(chan[q][p]), Tail(st), t + 1, Sent(q), tr, Spin)
    BY <1>1, <2>1, <2>3, HoldsOneLess
  <2> QED BY <2>2, <2>4 DEF tr
(* What p gets for a ghost.                                                *)
<1>6. ASSUME NEW i \in Ghosts(p, SetNo(t))
      PROVE  /\ i \in Site /\ Owner[i] \in Proc /\ Owner[i] # p /\ Got[i] \in Spin
             /\ Which(i) # SetNo(t) => Got[i] = spin[Owner[i]][i]
  <2> DEFINE q == Owner[i]
  <2>1. i \in Site /\ i \notin Mine(p)
    BY <1>1, <1>6, GhostsOf, LatticeOf
  <2>2. q \in Proc /\ q # p /\ i \in From(q)
    BY <1>1, <1>6, <2>1, LatticeOf DEF Mine, Traffic
  <2>3. PICK st \in Seq(Nat) : Carries(q, p, st) /\ Current(q, p, st)
    BY <1>1, <2>2 DEF InTransit
  <2>4. /\ 1 \in 1 .. Len(st) /\ st[1] = t
        /\ Head(chan[q][p]) = chan[q][p][1] /\ chan[q][p][1] \in [From(q) -> Spin]
    BY <1>5, <2>2, <2>3
  <2>5. Got[i] = chan[q][p][1][i]
    BY <1>6, <2>1, <2>4
  <2>6. Got[i] \in Spin
    BY <2>2, <2>4, <2>5
  <2>7. ASSUME Which(i) # SetNo(t) PROVE chan[q][p][1][i] = spin[q][i]
    BY <2>2, <2>3, <2>4, <2>7 DEF Current
  <2> QED BY <2>1, <2>2, <2>5, <2>6, <2>7
<1>7. \A i \in Site : i \notin Ghosts(p, SetNo(t)) => Got[i] = spin[p][i]
  OBVIOUS
<1>8. Got \in [Site -> Spin]
  <2>1. ASSUME NEW i \in Site PROVE Got[i] \in Spin
    <3>1. spin[p][i] \in Spin
      BY <1>1 DEF TypeOK
    <3> QED BY <1>6, <1>7, <3>1
  <2>2. Got = [i \in Site |-> Got[i]]
    OBVIOUS
  <2> HIDE DEF Got
  <2> QED BY <2>1, <2>2
<1> HIDE DEF Got
<1>9. /\ spin' \in [Proc -> [Site -> Spin]] /\ spin'[p] = Got
      /\ \A q \in Proc : q # p => spin'[q] = spin[q]
  BY <1>1, <1>8 DEF TypeOK
(* A process knows its own sites.                                          *)
<1>10. \A j \in Site : Owner[j] \in Proc /\ spin'[Owner[j]][j] = spin[Owner[j]][j]
  <2>1. SUFFICES ASSUME NEW j \in Site PROVE Owner[j] \in Proc /\ spin'[Owner[j]][j] = spin[Owner[j]][j]
    OBVIOUS
  <2>2. Owner[j] \in Proc
    BY <1>1, LatticeOf
  <2>3. CASE Owner[j] = p
    BY <1>6, <1>7, <1>9, <2>3
  <2>4. CASE Owner[j] # p
    BY <1>9, <2>2, <2>4
  <2> QED BY <2>2, <2>3, <2>4
<1>11. Causal'
  <2>1. SUFFICES ASSUME NEW q \in Proc, NEW r \in Proc, NEW u \in Nat,
                        u < Rcvd(r)', Traffic(q, r, u) # {}
                 PROVE  u < Sent(q)
    BY <1>1, <1>3, Fixed DEF Causal
  <2>2. CASE u < Rcvd(r)
    BY <1>1, <2>1, <2>2 DEF Causal
  <2>3. CASE ~ (u < Rcvd(r))
    <3>1. r = p /\ u = t
      BY <1>1, <1>3, <1>4, <2>1, <2>3
    <3>2. PICK st \in Seq(Nat) : Carries(q, p, st)
      BY <1>1 DEF InTransit
    <3> QED BY <1>5, <2>1, <3>1, <3>2
  <2> QED BY <2>2, <2>3
<1>12. ASSUME NEW q \in Proc, NEW r \in Proc PROVE chan'[q][r] \in Seq(Messages)
  <2>1. PICK st \in Seq(Nat) : Carries(q, r, st)
    BY <1>1 DEF InTransit
  <2>2. chan[q][r] \in Seq(Messages)
    BY <1>1 DEF InTransit
  <2>3. CASE r # p \/ From(q) = {}
    BY <1>2, <2>2, <2>3
  <2>4. CASE r = p /\ From(q) # {}
    <3>1. Carries(q, p, st)
      BY <2>1, <2>4
    <3>2. Tail(chan[q][p]) \in Seq(Messages)
      BY <1>5, <2>1, <2>4, <3>1, Zenon
    <3>3. chan'[q][p] = Tail(chan[q][p])
      BY <1>2, <2>4
    <3> QED BY <2>4, <3>2, <3>3
  <2> QED BY <2>3, <2>4
<1>13. ASSUME NEW q \in Proc, NEW r \in Proc
       PROVE  \E su \in Seq(Nat) : Carries(q, r, su)' /\ Current(q, r, su)'
  <2>1. PICK st \in Seq(Nat) : Carries(q, r, st) /\ Current(q, r, st)
    BY <1>1 DEF InTransit
  <2>2. \A su \in Seq(Nat) : \A a \in 1 .. Len(su) : \A j \in Traffic(q, r, su[a]) :
           spin'[q][j] = spin[q][j]
    <3>1. SUFFICES ASSUME NEW u \in Nat, NEW j \in Traffic(q, r, u) PROVE spin'[q][j] = spin[q][j]
      OBVIOUS
    <3>2. j \in Site /\ Owner[j] = q
      BY <1>1, <3>1, TrafficOf
    <3> QED BY <1>10, <3>2
  <2>3. \A su : Carries(q, r, su)' <=> Holds(chan'[q][r], su, Rcvd(r)', Sent(q), TrafficTo(q, r), Spin)
    BY <1>1, <1>3, Fixed DEF Carries
  <2>4. CASE r # p
    <3>1. chan'[q][r] = chan[q][r] /\ Rcvd(r)' = Rcvd(r)
      BY <1>2, <1>3, <2>4
    <3>2. Carries(q, r, st)'
      BY <2>1, <2>3, <3>1 DEF Carries
    <3>3. Current(q, r, st)'
      BY <1>1, <2>1, <2>2, <3>1, Fixed DEF Current
    <3> QED BY <3>2, <3>3
  <2>5. CASE r = p /\ From(q) = {}
    <3>1. chan'[q][r] = chan[q][r]
      BY <1>2, <2>5
    <3>2. TrafficTo(q, p)[t] = {}
      BY <1>1, <2>5 DEF TrafficTo
    <3>3. Holds(chan[q][p], st, t, Sent(q), TrafficTo(q, p), Spin) /\ Sent(q) \in Nat
      BY <1>3, <1>4, <2>1, <2>5 DEF Carries
    <3> HIDE DEF t
    <3>4. Holds(chan[q][p], st, t + 1, Sent(q), TrafficTo(q, p), Spin)
      BY <1>1, <3>2, <3>3, HoldsNoLess
    <3>5. Carries(q, r, st)'
      BY <1>3, <2>3, <2>5, <3>1, <3>4
    <3>6. Current(q, r, st)'
      BY <1>1, <2>1, <2>2, <3>1, Fixed DEF Current
    <3> QED BY <3>5, <3>6
  <2>6. CASE r = p /\ From(q) # {}
    <3>1. PICK su \in Seq(Nat) : su = Tail(st)
      BY <1>5, <2>1, <2>6
    <3>2. /\ \A a \in 1 .. Len(su) : /\ a + 1 \in 1 .. Len(st) /\ su[a] = st[a + 1]
                                     /\ Tail(chan[q][p])[a] = chan[q][p][a + 1]
          /\ Holds(Tail(chan[q][p]), su, t + 1, Sent(q), TrafficTo(q, p), Spin)
      BY <1>5, <2>1, <2>6, <3>1
    <3>3. chan'[q][r] = Tail(chan[q][p])
      BY <1>2, <2>6
    <3>4. Carries(q, r, su)'
      BY <1>3, <2>3, <2>6, <3>2, <3>3
    <3>5. Current(q, r, su)'
      <4>1. SUFFICES ASSUME NEW a \in 1 .. Len(su), NEW j \in Traffic(q, p, su[a]),
                            Which(j) # SetNo(su[a])
                     PROVE  chan'[q][p][a][j] = spin'[q][j]
        BY <1>1, <2>6, Fixed DEF Current
      <4>2. /\ a + 1 \in 1 .. Len(st) /\ su[a] = st[a + 1]
            /\ chan'[q][p][a] = chan[q][p][a + 1]
        BY <2>6, <3>2, <3>3
      <4>3. chan[q][p][a + 1][j] = spin[q][j]
        BY <2>1, <2>6, <4>1, <4>2 DEF Current
      <4> QED BY <2>2, <2>6, <4>1, <4>2, <4>3
    <3> QED BY <3>4, <3>5
  <2> QED BY <2>4, <2>5, <2>6
<1>14. InTransit'
  <2>1. \A q \in Proc : DOMAIN chan'[q] = Proc /\ \A r \in Proc : chan'[q][r] \in Seq(Messages)
    BY <1>2, <1>12
  <2>2. \A q, r \in Proc : \E su \in Seq(Nat) : Carries(q, r, su)' /\ Current(q, r, su)'
    BY <1>13
  <2> QED BY <1>1, <1>2, <2>1, <2>2, Fixed DEF InTransit
<1>15. TypeOK'
  <2>1. SetSites(p) \subseteq Site
    BY <1>1, InSet
  <2>2. /\ Cardinality(Site) \in Nat /\ Cardinality(SetSites(p)) \in Nat
        /\ Cardinality(SetSites(p)) <= Cardinality(Site)
    BY <1>1, <2>1, LatticeOf, FS_Subset, FS_CardinalityType
  <2>3. left' \in [Proc -> 0 .. Cardinality(Site)]
    BY <1>1, <2>2 DEF TypeOK
  <2>4. mask' \in [Site -> BOOLEAN]
    BY <1>1 DEF TypeOK
  <2>5. pc' \in [Proc -> {"send", "receive", "sweep", "done"}]
    BY <1>1 DEF TypeOK
  <2> QED BY <1>1, <1>9, <1>14, <2>3, <2>4, <2>5, TypesOf DEF TypeOK
<1>16. /\ \A q : SetSites(q)' = SetSites(q)
       /\ \A q \in Proc : pc'[q] = "sweep" <=> q = p \/ pc[q] = "sweep"
       /\ SetSites(p) = {i \in Site : Owner[i] = p /\ Which(i) = SetNo(t)}
  BY <1>1, InSet DEF SetSites, SetOf, TypeOK
<1>17. GhostsCurrent'
  <2>1. SUFFICES ASSUME NEW q \in Proc, pc'[q] = "sweep", NEW k \in SetSites(q), NEW j \in Nbr[k]
                 PROVE  spin'[q][j] = spin'[Owner[j]][j]
    BY <1>1, <1>16, Fixed DEF GhostsCurrent
  <2>2. k \in Site /\ j \in Site
    BY <1>1, <2>1, CountsOf, InSet, LatticeOf
  <2>3. CASE q # p
    BY <1>9, <1>10, <1>16, <2>1, <2>2, <2>3 DEF IInv, GhostsCurrent
  <2>4. CASE q = p /\ Owner[j] = p
    BY <2>4
  <2>5. CASE q = p /\ Owner[j] # p
    <3>1. Owner[k] = p /\ Which(k) = SetNo(t)
      BY <1>16, <2>1, <2>5
    <3>2. j \in Ghosts(p, SetNo(t)) /\ Which(j) # SetNo(t)
      BY <1>1, <2>1, <2>2, <2>5, <3>1, NeighborSent
    <3> QED BY <1>6, <1>9, <1>10, <2>2, <2>5, <3>2
  <2> QED BY <2>3, <2>4, <2>5
(* A site with all its neighbors in its set is as its owner knew it.       *)
<1>18. ASSUME NEW k \in Site, Inside(k)
       PROVE  MostlyAlike(spin'[Owner[k]], Nbr, k) <=> MostlyAlike(spin[Owner[k]], Nbr, k)
  <2>1. \A j \in Nbr[k] : j \in Site /\ Owner[j] = Owner[k]
    BY <1>1, <1>18, LatticeOf DEF Inside
  <2>2. /\ spin'[Owner[k]][k] = spin[Owner[k]][k]
        /\ \A j \in Nbr[k] : spin'[Owner[k]][j] = spin[Owner[k]][j]
    BY <1>10, <2>1
  <2> QED BY <2>2, EnergyIsLocal
<1>19. MasksHold'
  <2>1. \A k \in Site : mask'[k] => mask[k] /\ k \notin Border(p)
    BY <1>1
  <2>2. ASSUME NEW q \in Proc, pc'[q] = "sweep", NEW k \in SetSites(q), mask'[k]
        PROVE  MostlyAlike(spin'[q], Nbr, k)
    <3>1. k \in Site /\ Owner[k] = q
      BY <1>1, <2>2, CountsOf, InSet
    <3>2. CASE q # p
      BY <1>9, <1>16, <2>1, <2>2, <3>1, <3>2 DEF IInv, MasksHold
    <3>3. CASE q = p
      <4>1. Nbr[k] \subseteq SetSites(p)
        BY <1>1, <2>1, <2>2, <3>1, <3>3, InSet
      <4>2. Inside(k)
        BY <1>16, <2>2, <3>3, <4>1 DEF Inside
      <4> QED BY <1>18, <2>1, <2>2, <3>1, <3>3, <4>2 DEF IInv, MasksHold
    <3> QED BY <3>2, <3>3
  <2>3. ASSUME NEW k \in Site, mask'[k], Inside(k) PROVE MostlyAlike(spin'[Owner[k]], Nbr, k)
    BY <1>18, <2>1, <2>3 DEF IInv, MasksHold
  <2>4. \A k : Inside(k)' = Inside(k)
    BY <1>1, Fixed DEF Inside
  <2>5. \A k \in Site : mask'[k] => layout.mask
    BY <2>1 DEF IInv, MasksHold
  <2> QED BY <1>1, <1>16, <2>2, <2>3, <2>4, <2>5, Fixed DEF MasksHold
<1>20. RunBounded'
  <2>1. \A q \in Proc : pc'[q] # "done" => pc[q] # "done"
    BY <1>1 DEF TypeOK
  <2> QED BY <1>1, <2>1, Fixed DEF IInv, RunBounded
<1> QED BY <1>11, <1>14, <1>15, <1>17, <1>19, <1>20 DEF IInv

-----------------------------------------------------------------------------
(* The invariant is inductive.                                             *)

LEMMA StutterInv == ASSUME IInv, UNCHANGED vars PROVE IInv'
<1>1. /\ TypeOK /\ Causal /\ InTransit /\ layout \in Layouts
      /\ UNCHANGED <<layout, spin, mask, pc, sets, left, used, chan, stream, answer>>
  BY DEF IInv, TypeOK, vars
<1>2. \A q \in Proc : Sent(q)' = Sent(q) /\ Rcvd(q)' = Rcvd(q)
  BY <1>1 DEF Sent, Rcvd
<1>3. Causal' /\ InTransit'
  BY <1>1, <1>2, SameMessages, StillCurrent
<1>4. TypeOK'
  BY <1>1, <1>3, TypesOf DEF TypeOK
<1>5. \A q : SetSites(q)' = SetSites(q)
  BY <1>1 DEF SetSites, SetOf
<1>6. GhostsCurrent'
  BY <1>1, <1>5, Fixed DEF IInv, GhostsCurrent
<1>7. MasksHold' /\ RunBounded'
  BY <1>1, <1>5, Fixed DEF IInv, MasksHold, Inside, RunBounded
<1> QED BY <1>3, <1>4, <1>6, <1>7 DEF IInv

LEMMA StepInv == WideEnough /\ IInv /\ [Next]_vars => IInv'
<1> SUFFICES ASSUME WideEnough, IInv, [Next]_vars PROVE IInv'
  OBVIOUS
<1>1. CASE UNCHANGED vars
  BY <1>1, StutterInv
<1>2. CASE Finished
  BY <1>2, StutterInv DEF Finished
<1>3. ASSUME NEW p \in Proc, Send(p) PROVE IInv'
  BY <1>3, SendInv
<1>4. ASSUME NEW p \in Proc, Receive(p) PROVE IInv'
  BY <1>4, ReceiveInv
<1>5. ASSUME NEW p \in Proc, Skip(p) PROVE IInv'
  BY <1>5, SkipInv
<1>6. ASSUME NEW p \in Proc, Attempt(p) PROVE IInv'
  BY <1>6, AttemptInv
<1>7. ASSUME NEW p \in Proc, EndSet(p) PROVE IInv'
  BY <1>7, EndSetInv
<1> QED BY <1>1, <1>2, <1>3, <1>4, <1>5, <1>6, <1>7 DEF Next

(* A process whose messages are on their way, whose ghosts are current in  *)
(* a sweep, and whose masks are true of them stays so.                     *)
THEOREM Invariance == ASSUME WideEnough PROVE Spec => []IInv
<1>1. Init => IInv
  BY InitInv
<1>2. IInv /\ [Next]_vars => IInv'
  BY StepInv
<1> QED BY <1>1, <1>2, PTL DEF Spec

(* Every variable keeps a value of its kind: a process has never more      *)
(* attempts left than sites, nor goes through more sets than the run has,  *)
(* and what is in a message is sites of its sender.                        *)
THEOREM TypeCorrect == ASSUME WideEnough PROVE Spec => []TypeOK
<1>1. IInv => TypeOK
  BY DEF IInv
<1> QED BY <1>1, Invariance, PTL

-----------------------------------------------------------------------------
(* What the invariant says about the lattice as a whole.                   *)

(* The sites a process has in hand and their neighbors are in its memory   *)
(* as they are on the lattice, so what it computes of them is right.       *)
LEMMA SeesLattice ==
    ASSUME IInv, NEW p \in Proc, pc[p] = "sweep", NEW i \in SetSites(p)
    PROVE  /\ i \in Site /\ Owner[i] = p /\ Lattice[i] = spin[p][i]
           /\ IsFiniteSet(Nbr[i])
           /\ \A s : Uphill(Lattice, Nbr, i, s) <=> Uphill(spin[p], Nbr, i, s)
           /\ MostlyAlike(Lattice, Nbr, i) <=> MostlyAlike(spin[p], Nbr, i)
<1>1. TypeOK /\ layout \in Layouts /\ sets[p] \in Nat
  BY CountsOf DEF IInv
<1>2. i \in Site /\ Owner[i] = p
  BY <1>1, InSet
<1>3. IsFiniteSet(Nbr[i]) /\ \A j \in Nbr[i] : j \in Site
  BY <1>1, <1>2, LatticeOf
<1>4. Lattice[i] = spin[p][i] /\ \A j \in Nbr[i] : Lattice[j] = spin[p][j]
  BY <1>2, <1>3 DEF IInv, GhostsCurrent, Lattice
<1> HIDE DEF Lattice
<1> QED BY <1>2, <1>3, <1>4, EnergyIsLocal

(* The masks of boundary_clear_mask() and site_event_rejection(): a masked *)
(* site could not change on the lattice as it is, in whatever order        *)
(* processes sweep and messages arrive.                                    *)
THEOREM MaskedStayFrozen == ASSUME WideEnough PROVE Spec => []MaskedAreFrozen
<1>1. IInv => MaskedAreFrozen
  <2> SUFFICES ASSUME IInv, NEW p \in Proc, pc[p] = "sweep", NEW i \in SetSites(p), mask[i],
                      NEW s \in Spin \ {Lattice[i]}
               PROVE  Uphill(Lattice, Nbr, i, s)
    BY DEF MaskedAreFrozen
  <2>1. MostlyAlike(spin[p], Nbr, i)
    BY DEF IInv, MasksHold
  <2>2. IsFiniteSet(Nbr[i]) /\ MostlyAlike(Lattice, Nbr, i) /\ s # Lattice[i]
    BY <2>1, SeesLattice
  <2>3. \A l, nb : IsFiniteSet(nb[i]) /\ MostlyAlike(l, nb, i) /\ s # l[i] => Uphill(l, nb, i, s)
    BY MaskedSpinsAreFrozen
  <2> HIDE DEF Lattice
  <2> QED BY <2>2, <2>3
<1> QED BY <1>1, Invariance, PTL

(* Steps that change no memory, or only copies of sites of other processes *)
(* (Receive), change nothing on the lattice.                               *)
LEMMA LatticeSame ==
    ASSUME layout' = layout, \A i \in Site : spin'[Owner[i]][i] = spin[Owner[i]][i]
    PROVE  Lattice' = Lattice
BY Fixed DEF Lattice

LEMMA ReceiveKeepsLattice ==
    ASSUME IInv, NEW p \in Proc, Receive(p)
    PROVE  Lattice' = Lattice
<1>1. /\ TypeOK /\ layout \in Layouts /\ SetOf(p) \in SetNumbers
      /\ layout' = layout
      /\ spin' = [spin EXCEPT ![p] = [i \in Site |->
             IF i \in Ghosts(p, SetOf(p)) THEN Head(chan[Owner[i]][p])[i] ELSE spin[p][i]]]
  <2>1. TypeOK /\ layout \in Layouts /\ SetOf(p) \in SetNumbers
    BY CountsOf, InSet DEF IInv
  <2> QED BY <2>1 DEF Receive, TypeOK
<1>2. ASSUME NEW i \in Site PROVE spin'[Owner[i]][i] = spin[Owner[i]][i]
  <2>1. CASE Owner[i] = p
    <3>1. i \notin Ghosts(p, SetOf(p))
      BY <1>1, <2>1, GhostsOf DEF Mine
    <3> QED BY <1>1, <2>1, <3>1 DEF TypeOK
  <2>2. CASE Owner[i] # p
    BY <1>1, <2>2 DEF TypeOK
  <2> QED BY <2>1, <2>2
<1> QED BY <1>1, <1>2, LatticeSame

LEMMA AttemptOnLattice ==
    ASSUME IInv, NEW p \in Proc, Attempt(p)
    PROVE  \E i \in Site : /\ Lattice' = [Lattice EXCEPT ![i] = Lattice'[i]]
                           /\ Lattice'[i] # Lattice[i]
                                => layout.warm \/ ~ Uphill(Lattice, Nbr, i, Lattice'[i])
<1>1. TypeOK /\ RunBounded /\ layout \in Layouts /\ pc[p] = "sweep" /\ layout' = layout
  BY AttemptIs DEF IInv, TypeOK
<1>2. PICK i \in SetSites(p), s \in Spin, lucky \in BOOLEAN :
         spin' = [spin EXCEPT ![p][i] = Offered(spin[p], Nbr, i, s, layout.warm, lucky)]
  BY <1>1, AttemptIs
<1> DEFINE new == Offered(spin[p], Nbr, i, s, layout.warm, lucky)
<1>3. /\ i \in Site /\ Owner[i] = p /\ Lattice[i] = spin[p][i]
      /\ Uphill(Lattice, Nbr, i, s) <=> Uphill(spin[p], Nbr, i, s)
  BY <1>1, SeesLattice
<1>4. new # spin[p][i] => new = s /\ (layout.warm \/ ~ Uphill(spin[p], Nbr, i, s))
  BY DEF Offered
<1> HIDE DEF new
<1>5. \A k \in Site : spin'[Owner[k]][k] = IF k = i THEN new ELSE spin[Owner[k]][k]
  <2>1. \A k \in Site : Owner[k] \in Proc
    BY <1>1, LatticeOf
  <2>2. spin' = [spin EXCEPT ![p][i] = new]
    BY <1>2 DEF new
  <2> QED BY <1>1, <1>3, <2>1, <2>2 DEF TypeOK
<1>6. Lattice' = [Lattice EXCEPT ![i] = new] /\ Lattice'[i] = new
  BY <1>1, <1>3, <1>5, Fixed DEF Lattice
<1>7. /\ Lattice' = [Lattice EXCEPT ![i] = Lattice'[i]]
      /\ Lattice'[i] # Lattice[i] => layout.warm \/ ~ Uphill(Lattice, Nbr, i, Lattice'[i])
  <2> HIDE DEF Lattice
  <2> QED BY <1>3, <1>4, <1>6
<1> QED BY <1>3, <1>7

(* iterate_rejection() on many processes is a serial run: one site changes *)
(* at a time, and at temperature zero never to a spin that costs energy on *)
(* the whole lattice, though neighbors of the site may be in other         *)
(* processes that sweep at the same time.                                  *)
THEOREM SweepsAreSerial == ASSUME WideEnough PROVE Spec => SerialSweep
<1> DEFINE Serial == \A i \in Site : Lattice'[i] # Lattice[i] =>
                        /\ Lattice' = [Lattice EXCEPT ![i] = Lattice'[i]]
                        /\ layout.warm \/ ~ Uphill(Lattice, Nbr, i, Lattice'[i])
<1>1. IInv /\ [Next]_vars => [Serial]_vars
  <2> SUFFICES ASSUME IInv, [Next]_vars PROVE Serial \/ UNCHANGED vars
    OBVIOUS
  <2>1. CASE Lattice' = Lattice
    <3> HIDE DEF Lattice
    <3> QED BY <2>1
  <2>2. ASSUME NEW p \in Proc, Send(p) \/ Skip(p) \/ EndSet(p) PROVE Lattice' = Lattice
    BY <2>2, LatticeSame DEF Send, Skip, EndSet
  <2>3. ASSUME NEW p \in Proc, Receive(p) PROVE Lattice' = Lattice
    BY <2>3, ReceiveKeepsLattice
  <2>4. ASSUME NEW p \in Proc, Attempt(p) PROVE Serial
    <3>1. PICK i \in Site : /\ Lattice' = [Lattice EXCEPT ![i] = Lattice'[i]]
                            /\ Lattice'[i] # Lattice[i]
                                 => layout.warm \/ ~ Uphill(Lattice, Nbr, i, Lattice'[i])
      BY <2>4, AttemptOnLattice
    <3>2. \A k \in Site : Lattice'[k] # Lattice[k] => k = i
      <4>1. DOMAIN Lattice = Site
        BY DEF Lattice
      <4> HIDE DEF Lattice
      <4> QED BY <3>1, <4>1
    <3> HIDE DEF Lattice
    <3> QED BY <3>1, <3>2
  <2>5. UNCHANGED vars \/ Lattice' = Lattice \/ \E p \in Proc : Attempt(p)
    <3> HIDE DEF Lattice
    <3> QED BY <2>2, <2>3 DEF Next, Finished
  <2> QED BY <2>1, <2>4, <2>5
<1> QED BY <1>1, Invariance, PTL DEF Spec, SerialSweep

-----------------------------------------------------------------------------
(* color/strict: what one process computes.                                *)

LEMMA StrictOf ==
    ASSUME layout \in Layouts, Strict
    PROVE  /\ Colored(layout) /\ SetCount(layout) = 2 /\ AllSets = 2 * StopSweeps
           /\ ~ (layout.nsector > 1)
           /\ \A i : Which(i) = Color(i)
           /\ \A t : SetNo(t) = t % 2
<1>1. layout.nsector = 1 /\ Colored(layout)
  BY LayoutAssumption DEF Strict, Colored
<1>2. SetCount(layout) = 2 /\ ~ (layout.nsector > 1)
  BY <1>1 DEF SetCount
<1> QED BY <1>1, <1>2 DEF Which, SetNo, AllSets

(* The site with a local index, and the local index of a site.             *)
Area == layout.nx * layout.ny
IndexOf(i) == i[2] * layout.nx + i[1]

LEMMA IndexIsSite ==
    ASSUME layout \in Layouts
    PROVE  /\ Area \in Nat \ {0}
           /\ \A k \in 0 .. Area - 1 : SiteAt(layout, k) \in Site /\ IndexOf(SiteAt(layout, k)) = k
           /\ \A i \in Site : IndexOf(i) \in 0 .. Area - 1
           /\ \A i, j \in Site : IndexOf(i) = IndexOf(j) => i = j
<1> DEFINE nx == layout.nx
           ny == layout.ny
<1>1. nx \in Nat \ {0} /\ ny \in Nat \ {0} /\ Site = (0 .. nx - 1) \X (0 .. ny - 1)
  BY LayoutOf, GeometryOf DEF SquareSites
<1>2. Area = nx * ny
  BY DEF Area
<1> HIDE DEF nx, ny
<1>3. Area \in Nat \ {0}
  <2>1. \A m, n \in Nat \ {0} : m * n \in Nat \ {0}
    OBVIOUS
  <2> QED BY <1>1, <1>2, <2>1
<1>4. ASSUME NEW k \in 0 .. Area - 1
      PROVE  SiteAt(layout, k) \in Site /\ IndexOf(SiteAt(layout, k)) = k
  <2>1. SiteAt(layout, k) = <<k % nx, k \div nx>>
    BY DEF SiteAt, nx
  <2>2. k \in Nat /\ k < Area
    BY <1>3
  <2>3. /\ k % nx \in 0 .. nx - 1 /\ k \div nx \in Nat
        /\ k = nx * (k \div nx) + (k % nx)
    <3>1. \A a \in Nat : \A n \in Nat \ {0} :
            a % n \in 0 .. n - 1 /\ a \div n \in Nat /\ a = n * (a \div n) + (a % n)
      <4>1. \A a \in Nat : \A n \in Nat \ {0} : a % n \in 0 .. n - 1 /\ a \div n \in Nat
        OBVIOUS
      <4>2. ASSUME NEW a \in Nat, NEW n \in Nat \ {0} PROVE a = n * (a \div n) + (a % n)
        OBVIOUS
      <4> QED BY <4>1, <4>2
    <3> QED BY <1>1, <2>2, <3>1
  <2>4. k \div nx < ny
    <3> DEFINE c == k \div nx
               a == nx * c
    <3>1. a <= k /\ a \in Nat /\ c \in Nat
      BY <1>1, <2>3
    <3>2. a < nx * ny
      BY <1>2, <2>2, <3>1, <1>3
    <3>3. \A u, v \in Nat : nx * u < nx * v => u < v
      BY <1>1
    <3> HIDE DEF c
    <3> QED BY <1>1, <3>1, <3>2, <3>3 DEF c
  <2>5. SiteAt(layout, k) \in Site
    BY <1>1, <2>1, <2>3, <2>4
  <2>6. (k \div nx) * nx = nx * (k \div nx)
    BY <1>1, <2>3
  <2>7. IndexOf(SiteAt(layout, k)) = (k \div nx) * nx + (k % nx)
    <3>1. \A c, d : IndexOf(<<d, c>>) = c * nx + d
      BY DEF IndexOf, nx
    <3>2. IndexOf(<<k % nx, k \div nx>>) = (k \div nx) * nx + (k % nx)
      BY <3>1
    <3> QED BY <2>1, <3>2
  <2> QED BY <2>3, <2>5, <2>6, <2>7
<1>5. ASSUME NEW i \in Site PROVE IndexOf(i) \in 0 .. Area - 1
  <2>1. i[1] \in 0 .. nx - 1 /\ i[2] \in 0 .. ny - 1
    BY <1>1
  <2>2. i[2] * nx \in Nat
    BY <1>1, <2>1
  <2>3. i[2] * nx + nx <= nx * ny
    <3>1. \A u, v \in Nat : u + 1 <= v => u * nx + nx <= nx * v
      BY <1>1
    <3> QED BY <1>1, <2>1, <3>1
  <2>4. IndexOf(i) = i[2] * nx + i[1]
    BY DEF IndexOf, nx
  <2> QED BY <1>1, <1>2, <1>3, <2>1, <2>2, <2>3, <2>4
<1>6. ASSUME NEW i \in Site, NEW j \in Site, IndexOf(i) = IndexOf(j) PROVE i = j
  <2>1. /\ i[1] \in 0 .. nx - 1 /\ i[2] \in Nat /\ j[1] \in 0 .. nx - 1 /\ j[2] \in Nat
        /\ i = <<i[1], i[2]>> /\ j = <<j[1], j[2]>>
    BY <1>1
  <2>2. i[2] * nx + i[1] = j[2] * nx + j[1]
    BY <1>6 DEF IndexOf, nx
  <2>3. \A u, v \in Nat : u < v => u * nx + nx <= v * nx
    <3>1. \A u, v \in Nat : u + 1 <= v => u * nx + nx <= v * nx
      BY <1>1
    <3> QED BY <3>1
  <2>4. i[2] * nx \in Nat /\ j[2] * nx \in Nat
    BY <1>1, <2>1
  <2>5. ~ (i[2] < j[2]) /\ ~ (j[2] < i[2])
    BY <1>1, <2>1, <2>2, <2>3, <2>4
  <2>6. i[2] = j[2]
    BY <2>1, <2>5
  <2>7. i[1] = j[1]
    BY <1>1, <2>1, <2>2, <2>4, <2>6
  <2> QED BY <2>1, <2>6, <2>7
<1> QED BY <1>3, <1>4, <1>5, <1>6

(* What a set does to a site of its color, if the neighbors of the site    *)
(* stay as they are.                                                       *)
Runs == [spin : [Site -> Spin], used : [Site -> Nat]]
SpinAfter(r, i) ==
    Offered(r.spin, Nbr, i, Number(stream, i, r.used[i]), layout.warm,
            Number(stream, i, r.used[i] + 1) = 1)
UsedAfter(r, i) ==
    r.used[i] + IF layout.warm /\ Uphill(r.spin, Nbr, i, Number(stream, i, r.used[i])) THEN 2 ELSE 1

Advanced(r, new, i) == new.spin[i] = SpinAfter(r, i) /\ new.used[i] = UsedAfter(r, i)
Kept(r, new, i) == new.spin[i] = r.spin[i] /\ new.used[i] = r.used[i]

(* R[n] is the run after n sets.                                           *)
History(R) ==
    /\ R \in [Nat -> Runs]
    /\ R[0].used = [i \in Site |-> 0]
    /\ \A n \in Nat : \A i \in Site :
          IF Color(i) = n % 2 THEN Advanced(R[n], R[n + 1], i) ELSE Kept(R[n], R[n + 1], i)
    /\ \A n \in 0 .. 2 * StopSweeps : answer[n] = R[n].spin

LEMMA TrialIs ==
    ASSUME layout \in Layouts, Strict, stream \in Streams(layout), NEW r \in Runs, NEW i \in Site
    PROVE  /\ Trial(layout, stream, r, i) \in Runs
           /\ Advanced(r, Trial(layout, stream, r, i), i)
           /\ \A j \in Site : j # i => Kept(r, Trial(layout, stream, r, i), j)
<1> DEFINE new == Trial(layout, stream, r, i)
<1>1. r.spin \in [Site -> Spin] /\ r.used \in [Site -> Nat]
  BY DEF Runs
<1>2. Number(stream, i, r.used[i]) \in Spin
  BY <1>1, NumberOf
<1>3. SpinAfter(r, i) \in Spin /\ UsedAfter(r, i) \in Nat
  BY <1>1, <1>2 DEF SpinAfter, UsedAfter, Offered
<1>4. Geometry[layout].nbr = Nbr
  BY DEF Nbr
<1>5. new = [spin |-> [r.spin EXCEPT ![i] = SpinAfter(r, i)],
             used |-> [r.used EXCEPT ![i] = UsedAfter(r, i)]]
  BY <1>1, <1>4 DEF Trial, SpinAfter, UsedAfter
<1> HIDE DEF new
<1>6. new \in Runs
  BY <1>1, <1>3, <1>5 DEF Runs
<1>7. Advanced(r, new, i) /\ \A j \in Site : j # i => Kept(r, new, j)
  BY <1>1, <1>5 DEF Advanced, Kept
<1> QED BY <1>6, <1>7 DEF new

(* One more site is visited.                                               *)
LEMMA VisitIs ==
    ASSUME layout \in Layouts, Strict, stream \in Streams(layout), NEW r \in Runs,
           NEW n \in Nat, NEW k \in 0 .. Area - 1, NEW m, m = n * Area + k
    PROVE  /\ Visit(layout, stream, m, r) \in Runs
           /\ \A i \in Site :
                IF IndexOf(i) = k /\ Color(i) = n % 2 THEN Advanced(r, Visit(layout, stream, m, r), i)
                ELSE Kept(r, Visit(layout, stream, m, r), i)
<1> DEFINE i0 == SiteAt(layout, k)
           new == Visit(layout, stream, m, r)
<1>1. Area \in Nat \ {0} /\ i0 \in Site /\ IndexOf(i0) = k
  BY IndexIsSite
<1>2. m % Area = k /\ m \div Area = n
  <2>1. \A A \in Nat \ {0} : \A q \in Nat, s \in 0 .. A - 1 :
           (q * A + s) % A = s /\ (q * A + s) \div A = q
    OBVIOUS
  <2> QED BY <1>1, <2>1
<1>3. new = IF Color(i0) = n % 2 THEN Trial(layout, stream, r, i0) ELSE r
  BY <1>2 DEF Visit, Area
<1>4. \A i \in Site : IndexOf(i) = k <=> i = i0
  BY <1>1, IndexIsSite
<1>5. /\ Trial(layout, stream, r, i0) \in Runs
      /\ Advanced(r, Trial(layout, stream, r, i0), i0)
      /\ \A j \in Site : j # i0 => Kept(r, Trial(layout, stream, r, i0), j)
  BY <1>1, TrialIs
<1>6. \A j \in Site : Kept(r, r, j)
  BY DEF Kept
<1> HIDE DEF new, i0
<1>7. new \in Runs
  BY <1>3, <1>5
<1>8. \A i \in Site : IF IndexOf(i) = k /\ Color(i) = n % 2 THEN Advanced(r, new, i)
                      ELSE Kept(r, new, i)
  BY <1>3, <1>4, <1>5, <1>6
<1> QED BY <1>7, <1>8 DEF new

(* What is offered and accepted depends on the site and its neighbors.     *)
LEMMA AfterIsLocal ==
    ASSUME NEW r, NEW x, NEW i, Kept(r, x, i), \A j \in Nbr[i] : x.spin[j] = r.spin[j]
    PROVE  SpinAfter(x, i) = SpinAfter(r, i) /\ UsedAfter(x, i) = UsedAfter(r, i)
<1>1. x.spin[i] = r.spin[i] /\ x.used[i] = r.used[i]
  BY DEF Kept
<1>2. \A s : Uphill(x.spin, Nbr, i, s) <=> Uphill(r.spin, Nbr, i, s)
  BY <1>1, EnergyIsLocal
<1> QED BY <1>1, <1>2 DEF SpinAfter, UsedAfter, Offered

(* The recursion of Reference is defined.                                  *)
StartOf(l) == [spin |-> l, used |-> [i \in Site |-> 0]]
Replays(g, l) ==
    g = [m \in Nat |-> IF m = 0 THEN StartOf(l) ELSE Visit(layout, stream, m - 1, g[m - 1])]

LEMMA ReplayOf ==
    ASSUME layout \in Layouts, Strict, stream \in Streams(layout), NEW l \in [Site -> Spin]
    PROVE  \E g : /\ Replays(g, l) /\ g \in [Nat -> Runs] /\ g[0] = StartOf(l)
                  /\ \A m \in Nat : g[m + 1] = Visit(layout, stream, m, g[m])
                  /\ Reference(layout, l, stream) = [n \in 0 .. 2 * StopSweeps |-> g[n * Area].spin]
<1> DEFINE step == [z \in Nat \X Runs |-> Visit(layout, stream, z[1], z[2])]
           g == CHOOSE x : Replays(x, l)
<1>1. StartOf(l) \in Runs
  BY DEF StartOf, Runs
<1>2. ASSUME NEW m \in Nat, NEW r \in Runs PROVE Visit(layout, stream, m, r) \in Runs
  <2>1. Area \in Nat \ {0}
    BY IndexIsSite
  <2>2. \A A \in Nat \ {0} : /\ m \div A \in Nat /\ m % A \in 0 .. A - 1
                             /\ m = A * (m \div A) + (m % A)
    <3>1. \A A \in Nat \ {0} : m \div A \in Nat /\ m % A \in 0 .. A - 1
      OBVIOUS
    <3>2. \A A \in Nat \ {0} : m = A * (m \div A) + (m % A)
      OBVIOUS
    <3> QED BY <3>1, <3>2
  <2>3. PICK n \in Nat, k \in 0 .. Area - 1 : m = Area * n + k
    BY <2>1, <2>2
  <2>4. Area * n = n * Area
    BY <2>1
  <2> QED BY <2>3, <2>4, VisitIs
<1>3. step \in [Nat \X Runs -> Runs]
  BY <1>2
<1>4. PICK f : Recurs(f, StartOf(l), step, Runs)
  <2> HIDE DEF step
  <2> QED BY <1>1, <1>3, RecursionOnNat
<1>5. \A m \in Nat : f[m + 1] = Visit(layout, stream, m, f[m])
  BY <1>4 DEF Recurs
<1>6. Replays(f, l)
  <2>1. f \in [Nat -> Runs] /\ f[0] = StartOf(l)
    BY <1>4 DEF Recurs
  <2>2. ASSUME NEW m \in Nat, m # 0 PROVE f[m] = Visit(layout, stream, m - 1, f[m - 1])
    <3>1. m - 1 \in Nat /\ (m - 1) + 1 = m
      BY <2>2
    <3> QED BY <1>5, <3>1
  <2> QED BY <2>1, <2>2 DEF Replays
<1>7. Replays(g, l)
  BY <1>6
<1>8. /\ DOMAIN g = Nat /\ g[0] = StartOf(l)
      /\ \A m \in Nat : g[m + 1] = Visit(layout, stream, m, g[m])
  <2> HIDE DEF g
  <2>1. \A m \in Nat : m + 1 \in Nat /\ m + 1 # 0 /\ (m + 1) - 1 = m
    OBVIOUS
  <2>2. \A m \in Nat : g[m] = IF m = 0 THEN StartOf(l) ELSE Visit(layout, stream, m - 1, g[m - 1])
    BY <1>7 DEF Replays
  <2>3. DOMAIN g = Nat
    BY <1>7 DEF Replays
  <2> QED BY <2>1, <2>2, <2>3
<1>9. g \in [Nat -> Runs]
  <2> DEFINE D == {m \in Nat : g[m] \notin Runs}
  <2> HIDE DEF g
  <2>1. SUFFICES ASSUME D # {} PROVE FALSE
    <3>1. D = {} => \A m \in Nat : g[m] \in Runs
      OBVIOUS
    <3>2. g = [m \in Nat |-> g[m]]
      BY <1>7 DEF Replays
    <3> QED BY <3>1, <3>2
  <2>2. PICK m \in D : \A k \in D : m <= k
    <3>1. D \in SUBSET Nat
      OBVIOUS
    <3> HIDE DEF D
    <3> QED BY <2>1, <3>1, LeastElement
  <2>3. m # 0
    BY <1>1, <1>8, <2>2
  <2>4. m - 1 \in Nat /\ (m - 1) + 1 = m /\ g[m - 1] \in Runs
    BY <2>2, <2>3
  <2> QED BY <1>2, <1>8, <2>2, <2>4
<1>10. Reference(layout, l, stream) = [n \in 0 .. 2 * StopSweeps |-> g[n * Area].spin]
  <2>1. DOMAIN Geometry[layout].nbr = Site
    BY DEF Site, Nbr
  <2> QED BY <2>1 DEF Reference, Area, StartOf, Replays
<1> HIDE DEF g
<1> QED BY <1>7, <1>8, <1>9, <1>10

(* In the middle of a set the sites before the k-th have been tried, and   *)
(* all others are as at its start.                                         *)
LEMMA SetInOrder ==
    ASSUME layout \in Layouts, Strict, stream \in Streams(layout), NEW g \in [Nat -> Runs],
           \A m \in Nat : g[m + 1] = Visit(layout, stream, m, g[m]),
           NEW n \in Nat, NEW k \in 0 .. Area, NEW i \in Site
    PROVE  IF IndexOf(i) < k /\ Color(i) = n % 2 THEN Advanced(g[n * Area], g[n * Area + k], i)
           ELSE Kept(g[n * Area], g[n * Area + k], i)
<1> DEFINE b == n * Area
           Wrong(h, j) == ~ IF IndexOf(j) < h /\ Color(j) = n % 2 THEN Advanced(g[b], g[b + h], j)
                            ELSE Kept(g[b], g[b + h], j)
           D == {h \in 0 .. Area : \E j \in Site : Wrong(h, j)}
<1>1. Area \in Nat \ {0} /\ \A j \in Site : IndexOf(j) \in 0 .. Area - 1
  BY IndexIsSite
<1>2. b \in Nat
  <2>1. \A u, v \in Nat : u * v \in Nat
    OBVIOUS
  <2> QED BY <1>1, <2>1
<1> HIDE DEF b
<1>3. SUFFICES ASSUME D # {} PROVE FALSE
  <2>1. D = {} => ~ Wrong(k, i)
    OBVIOUS
  <2> QED BY <2>1 DEF b
<1>4. PICK h \in D : \A e \in D : h <= e
  <2>1. D \in SUBSET Nat
    BY <1>1
  <2> HIDE DEF D
  <2> QED BY <1>3, <2>1, LeastElement
<1>5. h # 0
  <2>1. SUFFICES ASSUME h = 0 PROVE FALSE
    OBVIOUS
  <2>2. \A j \in Site : ~ (IndexOf(j) < 0) /\ Kept(g[b], g[b + 0], j)
    BY <1>1, <1>2 DEF Kept
  <2> QED BY <1>4, <2>1, <2>2
<1> DEFINE e == h - 1
           x == g[b + e]
           y == g[b + h]
<1>6. /\ e \in 0 .. Area - 1 /\ e \in 0 .. Area /\ e < h /\ h \in Nat /\ e \in Nat
      /\ b + e \in Nat /\ (b + e) + 1 = b + h
  BY <1>1, <1>2, <1>4, <1>5
<1>7. \A j \in Site : IF IndexOf(j) < e /\ Color(j) = n % 2 THEN Advanced(g[b], x, j)
                      ELSE Kept(g[b], x, j)
  <2>1. e \notin D
    BY <1>4, <1>6
  <2> HIDE DEF e
  <2> QED BY <1>6, <2>1
<1>8. /\ x \in Runs /\ g[b] \in Runs
      /\ \A j \in Site : IF IndexOf(j) = e /\ Color(j) = n % 2 THEN Advanced(x, y, j)
                         ELSE Kept(x, y, j)
  <2>1. x \in Runs /\ g[b] \in Runs /\ y = Visit(layout, stream, b + e, x)
    BY <1>2, <1>6
  <2> HIDE DEF x, y, e
  <2> QED BY <1>6, <2>1, VisitIs DEF b
<1> HIDE DEF x, y, e
<1>9. PICK j \in Site : Wrong(h, j)
  BY <1>4
<1>10. /\ IndexOf(j) \in Nat /\ (IndexOf(j) < h <=> IndexOf(j) < e \/ IndexOf(j) = e)
       /\ ~ (IndexOf(j) < e /\ IndexOf(j) = e)
  BY <1>1, <1>6 DEF e
<1>11. CASE Color(j) # n % 2
  BY <1>7, <1>8, <1>9, <1>11 DEF Kept, y
<1>12. CASE Color(j) = n % 2 /\ IndexOf(j) = e
  <2>1. Kept(g[b], x, j) /\ Advanced(x, y, j)
    BY <1>7, <1>8, <1>10, <1>12
  <2>2. \A o \in Nbr[j] : o \in Site /\ Color(o) # n % 2
    BY <1>12, StrictOf, ColorsApart, LatticeOf
  <2>3. \A o \in Nbr[j] : x.spin[o] = g[b].spin[o]
    BY <1>7, <2>2 DEF Kept
  <2>4. SpinAfter(x, j) = SpinAfter(g[b], j) /\ UsedAfter(x, j) = UsedAfter(g[b], j)
    BY <2>1, <2>3, AfterIsLocal
  <2>5. Advanced(g[b], y, j)
    BY <2>1, <2>4 DEF Advanced
  <2> QED BY <1>9, <1>10, <1>12, <2>5 DEF y
<1>13. CASE Color(j) = n % 2 /\ IndexOf(j) # e
  <2>1. Kept(x, y, j)
    BY <1>8, <1>13
  <2>2. Advanced(g[b], x, j) => Advanced(g[b], y, j)
    BY <2>1 DEF Kept, Advanced
  <2>3. Kept(g[b], x, j) => Kept(g[b], y, j)
    BY <2>1 DEF Kept
  <2> QED BY <1>7, <1>9, <1>10, <1>13, <2>2, <2>3 DEF y
<1> QED BY <1>11, <1>12, <1>13

(* One process: a set takes all sites of a color at once.                  *)
LEMMA HistoryExists ==
    ASSUME layout \in Layouts, Strict, stream \in Streams(layout), NEW l \in [Site -> Spin],
           answer = Reference(layout, l, stream)
    PROVE  \E R : History(R) /\ R[0] = StartOf(l)
<1>1. PICK g : /\ Replays(g, l) /\ g \in [Nat -> Runs] /\ g[0] = StartOf(l)
               /\ \A m \in Nat : g[m + 1] = Visit(layout, stream, m, g[m])
               /\ Reference(layout, l, stream) = [n \in 0 .. 2 * StopSweeps |-> g[n * Area].spin]
  BY ReplayOf
<1> DEFINE R == [n \in Nat |-> g[n * Area]]
<1>2. Area \in Nat \ {0} /\ \A j \in Site : IndexOf(j) \in 0 .. Area - 1
  BY IndexIsSite
<1>3. \A n \in Nat : n * Area \in Nat /\ (n + 1) * Area = n * Area + Area
  BY <1>2
<1>4. R \in [Nat -> Runs]
  BY <1>1, <1>3
<1>5. R[0] = StartOf(l)
  <2>1. 0 * Area = 0
    BY <1>2
  <2> QED BY <1>1, <2>1
<1>6. ASSUME NEW n \in Nat, NEW i \in Site
      PROVE  IF Color(i) = n % 2 THEN Advanced(R[n], R[n + 1], i) ELSE Kept(R[n], R[n + 1], i)
  <2>1. Area \in 0 .. Area /\ IndexOf(i) < Area
    BY <1>2
  <2>2. IF IndexOf(i) < Area /\ Color(i) = n % 2
        THEN Advanced(g[n * Area], g[n * Area + Area], i)
        ELSE Kept(g[n * Area], g[n * Area + Area], i)
    BY <1>1, <2>1, SetInOrder
  <2>3. n + 1 \in Nat /\ R[n] = g[n * Area] /\ R[n + 1] = g[n * Area + Area]
    BY <1>3
  <2> HIDE DEF R
  <2> QED BY <2>1, <2>2, <2>3
<1>7. \A n \in 0 .. 2 * StopSweeps : answer[n] = R[n].spin
  <2>1. \A n \in 0 .. 2 * StopSweeps : n \in Nat
    BY StopAssumption
  <2> QED BY <1>1, <2>1
<1> HIDE DEF R
<1>8. R[0].used = [i \in Site |-> 0]
  BY <1>5 DEF StartOf
<1> QED BY <1>4, <1>5, <1>6, <1>7, <1>8 DEF History

(* The turns of the sites of a set are 0, 1, 2, ... in some order.         *)
LEMMA TurnsOf ==
    ASSUME layout \in Layouts, Strict, NEW p \in Proc, sets[p] \in Nat
    PROVE  /\ Cardinality(SetSites(p)) \in Nat
           /\ \A i \in SetSites(p) : /\ Turn(p)[i] \in Nat
                                     /\ Turn(p)[i] < Cardinality(SetSites(p))
           /\ \A i, j \in SetSites(p) : Turn(p)[i] = Turn(p)[j] => i = j
<1> DEFINE S == SetSites(p)
           Earlier(i) == {j \in S : Before(layout, j, i)}
<1>1. S \subseteq Site /\ SetOf(p) \in SetNumbers
  BY InSet
<1>2. IsFiniteSet(S)
  BY <1>1, LatticeOf, FS_Subset
<1>3. Turn(p) = [i \in S |-> Cardinality(Earlier(i))]
  <2>1. Geometry[layout] = Tables(layout)
    BY DEF Geometry
  <2>2. Geometry[layout].turn[p][SetOf(p)] = Turns(layout, Geometry[layout].set[p][SetOf(p)])
    BY <1>1, <2>1, SMTT(20) DEF Tables, Proc, SetNumbers
  <2> QED BY <2>2 DEF Turns, Turn, SetSites
<1>4. \A i \in S : i[1] \in Int /\ i[2] \in Int /\ i = <<i[1], i[2]>>
  BY <1>1, GeometryOf, LayoutOf DEF SquareSites
<1>5. \A i, j \in S : Before(layout, i, j) <=> i[2] < j[2] \/ (i[2] = j[2] /\ i[1] < j[1])
  <2>1. ~ (layout.nsector > 1)
    BY StrictOf
  <2> QED BY <1>4, <2>1 DEF Before
<1> HIDE DEF S
<1>6. \A i \in S : /\ IsFiniteSet(Earlier(i)) /\ Cardinality(Earlier(i)) \in Nat
                   /\ Earlier(i) \subseteq S
  BY <1>2, FS_Subset, FS_CardinalityType
<1>7. Cardinality(S) \in Nat
  BY <1>2, FS_CardinalityType
<1>8. ASSUME NEW i \in S PROVE Cardinality(Earlier(i)) < Cardinality(S)
  <2>1. i \notin Earlier(i)
    BY <1>4, <1>5
  <2> HIDE DEF Earlier
  <2>2. Cardinality(Earlier(i)) <= Cardinality(S) /\ Cardinality(S) # Cardinality(Earlier(i))
    BY <1>2, <1>6, <2>1, FS_Subset
  <2> QED BY <1>6, <1>7, <2>2
<1>9. ASSUME NEW i \in S, NEW j \in S, Before(layout, i, j)
      PROVE  Cardinality(Earlier(i)) # Cardinality(Earlier(j))
  <2>1. Earlier(i) \subseteq Earlier(j)
    BY <1>4, <1>5, <1>9
  <2>2. i \in Earlier(j) /\ i \notin Earlier(i)
    BY <1>4, <1>5, <1>9
  <2> HIDE DEF Earlier
  <2> QED BY <1>6, <2>1, <2>2, FS_Subset
<1>10. \A i, j \in S : i # j => Before(layout, i, j) \/ Before(layout, j, i)
  BY <1>4, <1>5
<1>11. /\ \A i \in S : Turn(p)[i] \in Nat /\ Turn(p)[i] < Cardinality(S)
       /\ \A i, j \in S : Turn(p)[i] = Turn(p)[j] => i = j
  <2> HIDE DEF Earlier
  <2> QED BY <1>3, <1>6, <1>8, <1>9, <1>10
<1> QED BY <1>7, <1>11 DEF S

(* The sites of its set that p has still to try, and the number of sets    *)
(* that site i of p has been through.                                      *)
ToDo(p) == {i \in SetSites(p) : Turn(p)[i] >= Cardinality(SetSites(p)) - left[p]}
Stage(p, i) == IF pc[p] = "sweep" /\ i \in SetSites(p) \ ToDo(p) THEN sets[p] + 1 ELSE sets[p]

(* Every site is as in the run of one process after as many sets, and no   *)
(* site still to be tried is masked.                                       *)
Follows(R) ==
    /\ \A p \in Proc : \A i \in Mine(p) : /\ spin[p][i] = R[Stage(p, i)].spin[i]
                                          /\ used[i] = R[Stage(p, i)].used[i]
    /\ \A p \in Proc : pc[p] = "sweep" => \A i \in ToDo(p) : ~ mask[i]

(* A process in a set sees the neighbors of its sites as the run of one    *)
(* process has them before the set: they are of the other color, and who   *)
(* owns them is at most at the end of the same set.                        *)
LEMMA NeighborsFollow ==
    ASSUME WideEnough, IInv, Strict, NEW R, History(R), Follows(R),
           NEW p \in Proc, pc[p] = "sweep", NEW i \in SetSites(p), NEW j \in Nbr[i]
    PROVE  spin[p][j] = R[sets[p]].spin[j]
<1> DEFINE q == Owner[j]
           n == sets[p]
<1>1. /\ layout \in Layouts /\ n \in Nat /\ TypeOK /\ Causal
      /\ Rcvd(p) = n + 1 /\ Sent(p) = n + 1
  BY CountsOf DEF IInv, Rcvd, Sent
<1>2. i \in Site /\ Owner[i] = p /\ Which(i) = SetNo(n) /\ SetNo(n) = n % 2 /\ Color(i) = n % 2
  BY <1>1, InSet, StrictOf
<1>3. j \in Site /\ q \in Proc /\ j \in Mine(q)
  BY <1>1, <1>2, LatticeOf DEF Mine
<1>4. /\ Color(j) # n % 2 /\ Color(j) \in {0, 1} /\ Which(j) = Color(j)
      /\ Color(j) = (n + 1) % 2 /\ SetNo(n + 1) = (n + 1) % 2
  <2>1. Color(j) # n % 2 /\ Color(j) \in {0, 1} /\ Which(j) = Color(j) /\ SetNo(n + 1) = (n + 1) % 2
    BY <1>1, <1>2, StrictOf, ColorsApart
  <2> QED BY <1>1, <2>1
<1>5. spin[p][j] = spin[q][j]
  BY DEF IInv, GhostsCurrent
<1>6. spin[q][j] = R[Stage(q, j)].spin[j]
  BY <1>3 DEF Follows
<1>7. R[n + 1].spin[j] = R[n].spin[j]
  BY <1>1, <1>3, <1>4 DEF History, Kept
<1>8. sets[q] \in Nat /\ (sets[q] = n => j \notin SetSites(q))
  BY <1>1, <1>3, <1>4, InSet, CountsOf, StrictOf
<1>9. CASE q = p
  BY <1>5, <1>6, <1>8, <1>9 DEF Stage
<1>10. CASE q # p
  <2>1. j \in Traffic(q, p, n)
    BY <1>1, <1>2, <1>10, NeighborSent
  <2>2. Traffic(p, q, n + 1) # {}
    BY <1>1, <1>3, <1>4, <2>1, TrafficBack
  <2>3. n < Sent(q)
    BY <1>1, <1>3, <2>1 DEF Causal
  <2>4. ~ (n + 1 < Rcvd(q))
    BY <1>1, <1>3, <2>2 DEF Causal
  <2>5. pc[q] = "sweep" => sets[q] = n
    BY <1>1, <1>8, <2>3, <2>4 DEF Sent, Rcvd
  <2>6. sets[q] = n \/ sets[q] = n + 1
    BY <1>1, <1>8, <2>3, <2>4 DEF Sent, Rcvd
  <2> HIDE DEF q
  <2>7. Stage(q, j) = sets[q]
    BY <1>8, <2>5 DEF Stage
  <2> QED BY <1>5, <1>6, <1>7, <2>6, <2>7
<1> QED BY <1>9, <1>10

-----------------------------------------------------------------------------
(* Every step follows the run of one process.                              *)

LEMMA HistoryFixed ==
    ASSUME NEW R, History(R), layout' = layout, stream' = stream, answer' = answer
    PROVE  History(R)'
<1>1. Site' = Site /\ Nbr' = Nbr
  BY Fixed
<1>2. \A r, i : SpinAfter(r, i)' = SpinAfter(r, i) /\ UsedAfter(r, i)' = UsedAfter(r, i)
  BY <1>1 DEF SpinAfter, UsedAfter
<1>3. \A r, x, i : /\ Advanced(r, x, i)' <=> Advanced(r, x, i)
                   /\ Kept(r, x, i)' <=> Kept(r, x, i)
  BY <1>2 DEF Advanced, Kept
<1> QED BY <1>1, <1>3 DEF History, Runs

(* A process that does nothing has the same sites to do.                   *)
LEMMA StageSame ==
    ASSUME layout' = layout, NEW q \in Proc, sets'[q] = sets[q]
    PROVE  /\ SetSites(q)' = SetSites(q) /\ Turn(q)' = Turn(q)
           /\ left'[q] = left[q] => ToDo(q)' = ToDo(q)
           /\ left'[q] = left[q] /\ pc'[q] = pc[q] => \A i : Stage(q, i)' = Stage(q, i)
<1>1. SetSites(q)' = SetSites(q) /\ Turn(q)' = Turn(q)
  BY DEF SetSites, Turn, SetOf
<1>2. left'[q] = left[q] => ToDo(q)' = ToDo(q)
  BY <1>1 DEF ToDo
<1> QED BY <1>1, <1>2 DEF Stage

LEMMA StutterFollows ==
    ASSUME NEW R, Follows(R), UNCHANGED vars
    PROVE  Follows(R)'
<1>1. UNCHANGED <<layout, spin, mask, pc, sets, left, used>>
  BY DEF vars
<1>2. Proc' = Proc /\ \A p : Mine(p)' = Mine(p)
  BY <1>1, Fixed
<1>3. \A p \in Proc : ToDo(p)' = ToDo(p) /\ \A i : Stage(p, i)' = Stage(p, i)
  BY <1>1, StageSame
<1> QED BY <1>1, <1>2, <1>3 DEF Follows

LEMMA SendFollows ==
    ASSUME IInv, NEW R, Follows(R), NEW p \in Proc, Send(p)
    PROVE  Follows(R)'
<1>1. /\ UNCHANGED <<layout, spin, mask, sets, left, used>>
      /\ pc[p] = "send" /\ pc'[p] = "receive" /\ \A q \in Proc : q # p => pc'[q] = pc[q]
  BY DEF Send, IInv, TypeOK
<1>2. Proc' = Proc /\ \A q : Mine(q)' = Mine(q)
  BY <1>1, Fixed
<1>3. \A q \in Proc : ToDo(q)' = ToDo(q) /\ (q # p => \A i : Stage(q, i)' = Stage(q, i))
  BY <1>1, StageSame
<1>4. \A i : Stage(p, i)' = Stage(p, i)
  BY <1>1 DEF Stage
<1>5. \A q \in Proc : \A i : Stage(q, i)' = Stage(q, i)
  BY <1>3, <1>4
<1>6. \A q \in Proc : pc'[q] = "sweep" => pc[q] = "sweep"
  BY <1>1
<1> QED BY <1>1, <1>2, <1>3, <1>5, <1>6 DEF Follows

(* All sites are to do, and boundary_clear_mask() leaves no mask on them,  *)
(* since all their neighbors are of the other color.                       *)
LEMMA ReceiveFollows ==
    ASSUME IInv, Strict, NEW R, Follows(R), NEW p \in Proc, Receive(p)
    PROVE  Follows(R)'
<1>1. /\ TypeOK /\ layout \in Layouts /\ sets[p] \in Nat /\ SetOf(p) \in SetNumbers
      /\ SetOf(p) = SetNo(sets[p])
      /\ UNCHANGED <<layout, sets, used>>
      /\ pc[p] = "receive" /\ pc'[p] = "sweep" /\ left'[p] = Cardinality(SetSites(p))
      /\ \A q \in Proc : q # p => pc'[q] = pc[q] /\ left'[q] = left[q] /\ spin'[q] = spin[q]
      /\ mask' = [i \in Site |-> mask[i] /\ i \notin Border(p)]
      /\ spin'[p] = [i \in Site |-> IF i \in Ghosts(p, SetOf(p)) THEN Head(chan[Owner[i]][p])[i]
                                    ELSE spin[p][i]]
  <2>1. TypeOK /\ layout \in Layouts /\ sets[p] \in Nat /\ SetOf(p) \in SetNumbers
        /\ SetOf(p) = SetNo(sets[p])
    BY CountsOf, InSet DEF IInv
  <2> QED BY <2>1 DEF Receive, TypeOK
<1>2. Proc' = Proc /\ Site' = Site /\ \A q : Mine(q)' = Mine(q)
  BY <1>1, Fixed
<1>3. \A i \in Mine(p) : spin'[p][i] = spin[p][i]
  <2>1. \A i \in Mine(p) : i \in Site /\ i \notin Ghosts(p, SetOf(p))
    BY <1>1, GhostsOf DEF Mine
  <2> QED BY <1>1, <2>1
<1>4. SetSites(p)' = SetSites(p) /\ Turn(p)' = Turn(p) /\ SetSites(p) \subseteq Site
  BY <1>1, StageSame, InSet
<1>5. ToDo(p)' = SetSites(p)
  <2>1. /\ Cardinality(SetSites(p)) \in Nat
        /\ \A i \in SetSites(p) : Turn(p)[i] \in Nat
    BY <1>1, TurnsOf
  <2>2. ToDo(p)' =
          {i \in SetSites(p) : Turn(p)[i] >= Cardinality(SetSites(p)) - Cardinality(SetSites(p))}
    BY <1>1, <1>4 DEF ToDo
  <2>3. \A i \in SetSites(p) : Turn(p)[i] >= Cardinality(SetSites(p)) - Cardinality(SetSites(p))
    BY <2>1
  <2> QED BY <2>2, <2>3
<1>6. \A i : Stage(p, i)' = sets[p] /\ Stage(p, i) = sets[p]
  BY <1>1, <1>4, <1>5 DEF Stage
<1>7. \A q \in Proc : q # p => ToDo(q)' = ToDo(q) /\ \A i : Stage(q, i)' = Stage(q, i)
  BY <1>1, StageSame
<1>8. ASSUME NEW i \in SetSites(p) PROVE ~ mask'[i]
  <2>1. i \in Site /\ Which(i) = SetNo(sets[p])
    BY <1>1, InSet
  <2>2. PICK j \in Nbr[i] : Color(j) # Color(i)
    BY <1>1, <2>1, StrictOf, ColorsApart
  <2>3. Which(j) # SetNo(sets[p])
    BY <1>1, <2>1, <2>2, StrictOf
  <2>4. i \in Border(p)
    BY <1>1, <2>2, <2>3, InSet
  <2> QED BY <1>1, <2>1, <2>4
<1>9. ASSUME NEW q \in Proc, pc'[q] = "sweep", NEW i \in ToDo(q)' PROVE ~ mask'[i]
  <2>1. CASE q = p
    BY <1>5, <1>8, <1>9, <2>1
  <2>2. CASE q # p
    <3>1. ~ mask[i] /\ i \in SetSites(q)
      BY <1>1, <1>7, <1>9, <2>2 DEF Follows, ToDo
    <3>2. i \in Site
      BY <1>1, <3>1, CountsOf, InSet
    <3> QED BY <1>1, <3>1, <3>2
  <2> QED BY <2>1, <2>2
<1>10. ASSUME NEW q \in Proc, NEW i \in Mine(q)
       PROVE  spin'[q][i] = R[Stage(q, i)'].spin[i] /\ used'[i] = R[Stage(q, i)'].used[i]
  <2>1. spin'[q][i] = spin[q][i] /\ Stage(q, i)' = Stage(q, i)
    BY <1>1, <1>3, <1>6, <1>7
  <2>2. spin[q][i] = R[Stage(q, i)].spin[i] /\ used[i] = R[Stage(q, i)].used[i]
    BY DEF Follows
  <2> QED BY <1>1, <2>1, <2>2
<1> QED BY <1>2, <1>9, <1>10 DEF Follows

(* No site is passed over.                                                 *)
LEMMA CandidatesOf ==
    ASSUME layout \in Layouts, Strict, NEW p \in Proc, NEW i \in Candidates(p)
    PROVE  i \in SetSites(p) /\ Turn(p)[i] = Cardinality(SetSites(p)) - left[p]
<1>1. layout.style # "random"
  BY DEF Strict
<1> QED BY <1>1 DEF Candidates

LEMMA NothingSkipped ==
    ASSUME IInv, Strict, NEW R, Follows(R), NEW p \in Proc, Skip(p)
    PROVE  FALSE
<1>1. layout \in Layouts /\ sets[p] \in Nat /\ pc[p] = "sweep"
  BY CountsOf DEF IInv, Skip
<1>2. PICK i \in Candidates(p) : mask[i]
  BY DEF Skip
<1>3. i \in SetSites(p) /\ Turn(p)[i] = Cardinality(SetSites(p)) - left[p]
  BY <1>1, CandidatesOf
<1>4. Turn(p)[i] \in Nat
  BY <1>1, <1>3, TurnsOf
<1>5. i \in ToDo(p)
  BY <1>3, <1>4 DEF ToDo
<1> QED BY <1>1, <1>2, <1>5 DEF Follows

LEMMA EndSetFollows ==
    ASSUME IInv, Strict, NEW R, History(R), Follows(R), NEW p \in Proc, EndSet(p)
    PROVE  Follows(R)'
<1>1. /\ TypeOK /\ layout \in Layouts /\ sets[p] \in Nat
      /\ UNCHANGED <<layout, spin, mask, left, used>>
      /\ pc[p] = "sweep" /\ left[p] = 0 /\ pc'[p] \in {"send", "done"} /\ sets'[p] = sets[p] + 1
      /\ \A q \in Proc : q # p => pc'[q] = pc[q] /\ sets'[q] = sets[q]
  <2>1. TypeOK /\ layout \in Layouts /\ sets[p] \in Nat
    BY CountsOf DEF IInv
  <2> QED BY <2>1 DEF EndSet, TypeOK
<1>2. Proc' = Proc /\ \A q : Mine(q)' = Mine(q)
  BY <1>1, Fixed
<1>3. \A q \in Proc : q # p => ToDo(q)' = ToDo(q) /\ \A i : Stage(q, i)' = Stage(q, i)
  BY <1>1, StageSame
<1>4. ToDo(p) = {}
  <2>1. /\ Cardinality(SetSites(p)) \in Nat
        /\ \A i \in SetSites(p) : Turn(p)[i] \in Nat /\ Turn(p)[i] < Cardinality(SetSites(p))
    BY <1>1, TurnsOf
  <2>2. \A i \in SetSites(p) : ~ (Turn(p)[i] >= Cardinality(SetSites(p)) - 0)
    BY <2>1
  <2> QED BY <1>1, <2>2 DEF ToDo
<1>5. ASSUME NEW i \in Mine(p)
      PROVE  /\ Stage(p, i)' = sets[p] + 1
             /\ R[Stage(p, i)].spin[i] = R[sets[p] + 1].spin[i]
             /\ R[Stage(p, i)].used[i] = R[sets[p] + 1].used[i]
  <2>1. Stage(p, i)' = sets[p] + 1
    BY <1>1 DEF Stage
  <2>2. CASE i \in SetSites(p)
    BY <1>1, <1>4, <2>1, <2>2 DEF Stage
  <2>3. CASE i \notin SetSites(p)
    <3>1. i \in Site /\ Owner[i] = p
      BY DEF Mine
    <3>2. Color(i) # sets[p] % 2
      BY <1>1, <2>3, <3>1, InSet, StrictOf
    <3>3. Kept(R[sets[p]], R[sets[p] + 1], i)
      BY <1>1, <3>1, <3>2 DEF History
    <3>4. Stage(p, i) = sets[p]
      BY <2>3 DEF Stage
    <3> QED BY <2>1, <3>3, <3>4 DEF Kept
  <2> QED BY <2>2, <2>3
<1>6. ASSUME NEW q \in Proc, NEW i \in Mine(q)
      PROVE  spin'[q][i] = R[Stage(q, i)'].spin[i] /\ used'[i] = R[Stage(q, i)'].used[i]
  <2>1. spin[q][i] = R[Stage(q, i)].spin[i] /\ used[i] = R[Stage(q, i)].used[i]
    BY DEF Follows
  <2>2. CASE q = p
    BY <1>1, <1>5, <2>1, <2>2
  <2>3. CASE q # p
    BY <1>1, <1>3, <2>1, <2>3
  <2> QED BY <2>2, <2>3
<1>7. ASSUME NEW q \in Proc, pc'[q] = "sweep", NEW i \in ToDo(q)' PROVE ~ mask'[i]
  BY <1>1, <1>3, <1>7 DEF Follows
<1> QED BY <1>2, <1>6, <1>7 DEF Follows

(* The site that is tried takes the spin and the random numbers it takes   *)
(* in the run of one process.                                              *)
LEMMA AttemptFollows ==
    ASSUME WideEnough, IInv, Strict, NEW R, History(R), Follows(R), NEW p \in Proc, Attempt(p)
    PROVE  Follows(R)'
<1> DEFINE n == sets[p]
           l == spin[p]
           size == Cardinality(SetSites(p))
<1>1. /\ TypeOK /\ layout \in Layouts /\ n \in Nat
      /\ pc[p] = "sweep" /\ left[p] \in Nat /\ left[p] > 0
      /\ left'[p] = left[p] - 1 /\ \A q \in Proc : q # p => left'[q] = left[q]
      /\ UNCHANGED <<layout, pc, sets>>
  <2>1. TypeOK /\ layout \in Layouts /\ n \in Nat
    BY CountsOf DEF IInv
  <2>2. left \in [Proc -> Nat]
    BY <2>1, LatticeOf, FS_CardinalityType DEF TypeOK
  <2> QED BY <2>1, <2>2 DEF Attempt
<1>2. PICK i \in Candidates(p) : ~ mask[i] /\ \E s \in Spins(i), lucky \in Lucks(i) :
         LET new == Offered(l, Nbr, i, s, layout.warm, lucky)
         IN  /\ spin' = [spin EXCEPT ![p][i] = new]
             /\ mask' = IF layout.mask THEN MaskAfter(p, i, new # l[i]) ELSE mask
             /\ used' = IF Strict THEN [used EXCEPT ![i] = SeedAfter(l, i, s)] ELSE used
  BY DEF Attempt
<1>3. PICK s \in Spins(i), lucky \in Lucks(i) :
         /\ spin' = [spin EXCEPT ![p][i] = Offered(l, Nbr, i, s, layout.warm, lucky)]
         /\ \E c : mask' = IF layout.mask THEN MaskAfter(p, i, c) ELSE mask
         /\ used' = [used EXCEPT ![i] = SeedAfter(l, i, s)]
  BY <1>2
<1>4. /\ size \in Nat
      /\ i \in SetSites(p) /\ Turn(p)[i] = size - left[p] /\ Turn(p)[i] \in Nat
      /\ i \in Site /\ Owner[i] = p /\ i \in Mine(p) /\ Color(i) = n % 2
  <2>1. i \in SetSites(p) /\ Turn(p)[i] = size - left[p]
    BY <1>1, CandidatesOf
  <2>2. i \in Site /\ Owner[i] = p /\ Color(i) = n % 2
    BY <1>1, <2>1, InSet, StrictOf
  <2> QED BY <1>1, <2>1, <2>2, TurnsOf DEF Mine
<1>5. i \in ToDo(p) /\ Stage(p, i) = n
  <2>1. i \in ToDo(p)
    BY <1>4 DEF ToDo
  <2> QED BY <2>1 DEF Stage
<1>6. l[i] = R[n].spin[i] /\ used[i] = R[n].used[i]
  BY <1>4, <1>5 DEF Follows
<1>7. /\ s = Number(stream, i, R[n].used[i])
      /\ lucky = (Number(stream, i, R[n].used[i] + 1) = 1)
  BY <1>6 DEF Spins, Lucks
<1>8. Uphill(l, Nbr, i, s) <=> Uphill(R[n].spin, Nbr, i, s)
  <2>1. \A j \in Nbr[i] : l[j] = R[n].spin[j]
    BY <1>1, <1>4, NeighborsFollow
  <2> HIDE DEF l, n
  <2> QED BY <1>6, <2>1, EnergyIsLocal
<1>9. /\ Offered(l, Nbr, i, s, layout.warm, lucky) = R[n + 1].spin[i]
      /\ SeedAfter(l, i, s) = R[n + 1].used[i]
  <2>1. Advanced(R[n], R[n + 1], i)
    BY <1>1, <1>4 DEF History
  <2>2. Offered(l, Nbr, i, s, layout.warm, lucky) = SpinAfter(R[n], i)
    BY <1>6, <1>7, <1>8 DEF SpinAfter, Offered
  <2>3. SeedAfter(l, i, s) = UsedAfter(R[n], i)
    BY <1>6, <1>7, <1>8 DEF SeedAfter, UsedAfter
  <2> QED BY <2>1, <2>2, <2>3 DEF Advanced
<1>10. /\ Proc' = Proc /\ \A q : Mine(q)' = Mine(q)
       /\ \A q \in Proc : SetSites(q)' = SetSites(q) /\ Turn(q)' = Turn(q)
       /\ \A q \in Proc : q # p => ToDo(q)' = ToDo(q) /\ \A j : Stage(q, j)' = Stage(q, j)
  BY <1>1, Fixed, StageSame
<1>11. ToDo(p)' = ToDo(p) \ {i}
  <2>1. \A j \in SetSites(p) : Turn(p)[j] \in Nat /\ (Turn(p)[j] = Turn(p)[i] => j = i)
    BY <1>1, <1>4, TurnsOf
  <2> HIDE DEF size
  <2>2. \A j \in SetSites(p) :
          Turn(p)[j] >= size - (left[p] - 1) <=> Turn(p)[j] >= size - left[p] /\ j # i
    BY <1>1, <1>4, <2>1
  <2>3. /\ ToDo(p)' = {j \in SetSites(p) : Turn(p)[j] >= size - (left[p] - 1)}
        /\ ToDo(p) = {j \in SetSites(p) : Turn(p)[j] >= size - left[p]}
    BY <1>1, <1>10 DEF ToDo, size
  <2> QED BY <2>2, <2>3
<1>12. Stage(p, i)' = n + 1 /\ \A j : j # i => Stage(p, j)' = Stage(p, j)
  BY <1>1, <1>4, <1>10, <1>11 DEF Stage
<1>13. /\ spin'[p][i] = R[n + 1].spin[i] /\ used'[i] = R[n + 1].used[i]
       /\ \A j \in Site : j # i => used'[j] = used[j]
       /\ \A q \in Proc : \A j \in Site : q # p \/ j # i => spin'[q][j] = spin[q][j]
  BY <1>1, <1>3, <1>4, <1>9 DEF TypeOK
<1>14. ASSUME NEW q \in Proc, NEW j \in Mine(q)
       PROVE  spin'[q][j] = R[Stage(q, j)'].spin[j] /\ used'[j] = R[Stage(q, j)'].used[j]
  <2>1. spin[q][j] = R[Stage(q, j)].spin[j] /\ used[j] = R[Stage(q, j)].used[j]
    BY DEF Follows
  <2>2. j \in Site /\ Owner[j] = q
    BY DEF Mine
  <2>3. CASE j = i
    BY <1>4, <1>12, <1>13, <2>2, <2>3
  <2>4. CASE j # i
    BY <1>10, <1>12, <1>13, <2>1, <2>2, <2>4
  <2> QED BY <2>3, <2>4
<1>15. ASSUME NEW q \in Proc, pc'[q] = "sweep", NEW j \in ToDo(q)' PROVE ~ mask'[j]
  <2>1. j \in ToDo(q) /\ j # i
    <3>1. CASE q = p
      BY <1>11, <1>15, <3>1
    <3>2. CASE q # p
      <4>1. j \in ToDo(q) /\ j \in SetSites(q)
        BY <1>10, <1>15, <3>2 DEF ToDo
      <4>2. Owner[j] = q
        BY <1>1, <4>1, InSet, CountsOf
      <4> QED BY <1>4, <3>2, <4>1, <4>2
    <3> QED BY <3>1, <3>2
  <2>2. ~ mask[j] /\ j \in Site
    <3>1. ~ mask[j] /\ j \in SetSites(q)
      BY <1>1, <1>15, <2>1 DEF Follows, ToDo
    <3> QED BY <1>1, <3>1, InSet, CountsOf
  <2> QED BY <1>3, <2>1, <2>2 DEF MaskAfter
<1> QED BY <1>10, <1>14, <1>15 DEF Follows

-----------------------------------------------------------------------------
(* The same answer.                                                        *)

HasHistory == Strict => \E R : History(R) /\ Follows(R)

LEMMA InitHistory == Init => HasHistory
<1> SUFFICES ASSUME Init, Strict PROVE \E R : History(R) /\ Follows(R)
  BY DEF HasHistory
<1>1. PICK l \in Starts(layout) :
         /\ spin = [p \in Proc |-> l]
         /\ answer = Reference(layout, l, stream)
  BY DEF Init
<1>2. /\ layout \in Layouts /\ stream \in Streams(layout)
      /\ pc = [p \in Proc |-> "send"] /\ sets = [p \in Proc |-> 0] /\ used = [i \in Site |-> 0]
  BY DEF Init
<1>3. l \in [Site -> Spin]
  BY <1>2, StartAssumption, GeometryOf
<1>4. PICK R : History(R) /\ R[0] = StartOf(l)
  BY <1>1, <1>2, <1>3, HistoryExists
<1>5. \A p \in Proc : \A i : Stage(p, i) = 0
  BY <1>2 DEF Stage
<1>6. \A p \in Proc : \A i \in Mine(p) : spin[p][i] = R[0].spin[i] /\ used[i] = R[0].used[i]
  BY <1>1, <1>2, <1>4 DEF StartOf, Mine
<1>7. Follows(R)
  BY <1>2, <1>5, <1>6 DEF Follows
<1> QED BY <1>4, <1>7

LEMMA StepHistory == WideEnough /\ IInv /\ HasHistory /\ [Next]_vars => HasHistory'
<1> SUFFICES ASSUME WideEnough, IInv, HasHistory, [Next]_vars, Strict'
             PROVE  \E R : History(R)' /\ Follows(R)'
  BY DEF HasHistory
<1>1. layout' = layout /\ stream' = stream /\ answer' = answer
  BY DEF Next, Send, Receive, Skip, Attempt, EndSet, Finished, vars
<1>2. Strict
  BY <1>1, Fixed
<1>3. PICK R : History(R) /\ Follows(R)
  BY <1>2 DEF HasHistory
<1>4. History(R)'
  BY <1>1, <1>3, HistoryFixed
<1>5. ASSUME UNCHANGED vars PROVE Follows(R)'
  BY <1>3, <1>5, StutterFollows
<1>6. ASSUME Finished PROVE Follows(R)'
  BY <1>3, <1>6, StutterFollows DEF Finished
<1>7. ASSUME NEW p \in Proc, Send(p) PROVE Follows(R)'
  BY <1>3, <1>7, SendFollows
<1>8. ASSUME NEW p \in Proc, Receive(p) PROVE Follows(R)'
  BY <1>2, <1>3, <1>8, ReceiveFollows
<1>9. ASSUME NEW p \in Proc, Skip(p) PROVE Follows(R)'
  BY <1>2, <1>3, <1>9, NothingSkipped
<1>10. ASSUME NEW p \in Proc, Attempt(p) PROVE Follows(R)'
  BY <1>2, <1>3, <1>10, AttemptFollows
<1>11. ASSUME NEW p \in Proc, EndSet(p) PROVE Follows(R)'
  BY <1>2, <1>3, <1>11, EndSetFollows
<1> QED BY <1>4, <1>5, <1>6, <1>7, <1>8, <1>9, <1>10, <1>11 DEF Next

(* "sweep color/strict" (doc/sweep.txt) on any number of processes, with   *)
(* masks or without, on any lattice and from any start: after each set     *)
(* every site has the spin it has in the run of one process that tries the *)
(* sites one after the other.                                              *)
THEOREM AnswersAgree == ASSUME WideEnough PROVE Spec => []SameAnswer
<1>1. Init => HasHistory
  BY InitHistory
<1>2. IInv /\ HasHistory /\ [Next]_vars => HasHistory'
  BY StepHistory
<1>3. IInv /\ HasHistory => SameAnswer
  <2> SUFFICES ASSUME IInv, HasHistory, Strict, NEW p \in Proc, pc[p] \in {"send", "done"},
                      NEW i \in Mine(p)
               PROVE  spin[p][i] = answer[sets[p]][i]
    BY DEF SameAnswer
  <2>1. PICK R : History(R) /\ Follows(R)
    BY DEF HasHistory
  <2>2. spin[p][i] = R[sets[p]].spin[i]
    BY <2>1 DEF Follows, Stage
  <2>3. layout \in Layouts /\ sets[p] \in 0 .. SetCount(layout) * StopSweeps
    BY DEF IInv, TypeOK
  <2>4. sets[p] \in 0 .. 2 * StopSweeps
    BY <2>3, StrictOf
  <2> QED BY <2>1, <2>2, <2>4 DEF History
<1> QED BY <1>1, <1>2, <1>3, Invariance, PTL DEF Spec
=============================================================================
