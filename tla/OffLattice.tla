----------------------------- MODULE OffLattice -----------------------------
(***************************************************************************)
(* Off-lattice rejection Monte Carlo on sectors: the driver of             *)
(* app_off_lattice.cpp, the exchange of whole bins of comm_off_lattice.cpp *)
(* and the moves of app_relax.cpp, in two dimensions.                      *)
(*                                                                         *)
(* Sites move.  Before a sector a process is sent copies of the sites in   *)
(* the bins around it; during the sector it moves its own sites, some of   *)
(* them into ghost bins; after the sector those are handed over to the     *)
(* processes whose bins they are.  One process may also run without        *)
(* sectors, with the periodic images of its own sites kept as ghosts.      *)
(*                                                                         *)
(* Coordinates are integers: the half-open intervals of the code's tests   *)
(* contain the same integers and a site is at one of them.                 *)
(***************************************************************************)
EXTENDS SiteTable, FiniteSets

CONSTANTS
    Id,            \* identities of the sites
    Starts(_),     \* Starts(L): the placements of the sites to start from
    Layouts,       \* the process grids and sector settings to choose from
    Reach,         \* the cutoff of the pair potential (delpropensity)
    Step,          \* half of delta: a move changes a coordinate by at most Step
    Moves,         \* the displacements the random numbers may give
    StopSweeps,    \* bound: sweeps of a run
    StopRuns       \* bound: runs of the script

(* A layout is a grid of px * py processes with sub-domains of sx * sy     *)
(* each, and the number of sectors, 1 for "sector no".                     *)
ASSUME LayoutAssumption ==
    \A L \in Layouts : /\ {L.px, L.py, L.sx, L.sy} \subseteq Nat \ {0}
                       /\ L.nsector \in {1, 2, 4}
                       /\ L.nsector = 1 => L.px = 1 /\ L.py = 1
                       /\ L.nsector = 2 => L.py = 1

ASSUME MoveAssumption ==
    /\ Reach \in Nat \ {0} /\ Step \in Nat \ {0}
    /\ StopSweeps \in Nat \ {0} /\ StopRuns \in Nat \ {0}
    /\ Moves \subseteq (-Step .. Step) \X (-Step .. Step)
    /\ Id \subseteq Nat \ {NoSite} /\ IsFiniteSet(Id)

(* The sites to start from are in the box.                                 *)
ASSUME StartAssumption ==
    \A L \in Layouts : Starts(L) \subseteq
        [Id -> (0 .. L.px * L.sx - 1) \X (0 .. L.py * L.sy - 1)]

VARIABLES
    layout,        \* the layout, fixed at the start
    table,         \* table[p]: the site table of process p
    phase,         \* where the processes are in iterate_rejection
    iset,          \* the sector they are in
    sweep,         \* sweeps done in this run
    run,           \* runs begun
    chosen,        \* chosen[p]: site2i, the sites in the sector when it began
    insector,      \* insector[p]: those of them that still are (in_sector)
    tries          \* tries[p]: site events left in the sector

vars == <<layout, table, phase, iset, sweep, run, chosen, insector, tries>>

-----------------------------------------------------------------------------
(* Geometry: sub-domains, bins, sectors.                                   *)

Proc == 0 .. layout.px * layout.py - 1
ProcX(p) == p % layout.px
ProcY(p) == p \div layout.px
Box == <<layout.px * layout.sx, layout.py * layout.sy>>
Lo(p) == <<ProcX(p) * layout.sx, ProcY(p) * layout.sy>>
Sectored == layout.nsector > 1

Plus(x, y) == <<x[1] + y[1], x[2] + y[2]>>
Minus(x, y) == <<x[1] - y[1], x[2] - y[2]>>
Times(o, x) == <<o[1] * x[1], o[2] * x[2]>>
Wrapped(x) == <<x[1] % Box[1], x[2] % Box[2]>>

(* Variant: bins only as wide as the potential reaches.                    *)
CutoffWithoutMoves == Reach

Cutoff == Reach + 2 * Step

(* The error of init_bins(): a sub-domain has a bin along each axis, and   *)
(* two where sectors cut it.                                               *)
ASSUME BinAssumption ==
    \A L \in Layouts : /\ L.sx >= (IF L.nsector >= 2 THEN 2 ELSE 1) * Cutoff
                       /\ L.sy >= (IF L.nsector >= 4 THEN 2 ELSE 1) * Cutoff

(* init_bins(): bins across a sub-domain, not counting the ghosts' two;    *)
(* an even number where sectors cut it.                                    *)
NBinX == LET n == layout.sx \div Cutoff IN IF layout.nsector >= 2 THEN (n \div 2) * 2 ELSE n
NBinY == LET n == layout.sy \div Cutoff IN IF layout.nsector >= 4 THEN (n \div 2) * 2 ELSE n

(* Bins by their two indices; ghost bins are the outermost.  BinList is    *)
(* the order of the code's one-dimensional index.                          *)
Bins == (0 .. NBinX + 1) \X (0 .. NBinY + 1)
BinList == [m \in 1 .. (NBinX + 2) * (NBinY + 2) |->
               <<(m - 1) % (NBinX + 2), (m - 1) \div (NBinX + 2)>>]
IsGhost(b) == b[1] \in {0, NBinX + 1} \/ b[2] \in {0, NBinY + 1}
IsEdge(b) == ~IsGhost(b) /\ (b[1] \in {1, NBinX} \/ b[2] \in {1, NBinY})
GhostBins == {b \in Bins : IsGhost(b)}

(* The index along one axis of a coordinate at distance r from the lower   *)
(* end of a sub-domain of length s with n bins.                            *)
BinIndex(r, s, n) ==
    IF r >= s THEN n + 1 ELSE IF r >= 0 THEN (r * n) \div s + 1 ELSE 0

Site2Bin(p, x) ==
    LET r == Minus(x, Lo(p))
    IN  <<BinIndex(r[1], layout.sx, NBinX), BinIndex(r[2], layout.sy, NBinY)>>

(* neighproc(): the process one step away; towards is 1 for the owner of a *)
(* ghost bin of mine, -1 for a process that has my edge bin as ghost.      *)
NeighProc(p, towards, b) ==
    LET Side(k, n) == IF k = 0 THEN -towards ELSE IF k = n + 1 THEN towards ELSE 0
        x == (ProcX(p) + Side(b[1], NBinX)) % layout.px
        y == (ProcY(p) + Side(b[2], NBinY)) % layout.py
    IN  y * layout.px + x

(* The bin of its owner that a ghost bin is a copy of.                     *)
GhostIndex(b) ==
    LET Owned(k, n) == IF k = 0 THEN n ELSE IF k = n + 1 THEN 1 ELSE k
    IN  <<Owned(b[1], NBinX), Owned(b[2], NBinY)>>

(* pbcoffset: the boxes between a ghost bin and the bin it is a copy of.   *)
PbcOffset(p, b) ==
    LET Off(k, n, at, procs) == IF k = 0 /\ at = 0 THEN -1
                                ELSE IF k = n + 1 /\ at = procs - 1 THEN 1 ELSE 0
    IN  <<Off(b[1], NBinX, ProcX(p), layout.px), Off(b[2], NBinY, ProcY(p), layout.py)>>

Shift(p, b) == Times(PbcOffset(p, b), Box)

(* add_image_bins(): the ghost bins that are copies of edge bin b.         *)
ImageBins(b) == Among(BinList, {g \in GhostBins : GhostIndex(g) = b})

(* The test of create_sites: x is in the sub-domain of p.                  *)
InDomain(p, x) ==
    LET r == Minus(x, Lo(p)) IN r[1] \in 0 .. layout.sx - 1 /\ r[2] \in 0 .. layout.sy - 1

(* create_set(): the two halves of an axis, of which the upper one has the *)
(* mid-point.                                                              *)
InHalf(d, len, k) == IF k = 0 THEN 0 <= d /\ 2 * d < len ELSE 2 * d >= len /\ d < len

(* inside_sector(): x is in the part of the sub-domain that is sector s.   *)
InSector(p, s, x) ==
    LET r == Minus(x, Lo(p))
    IN  IF Sectored
        THEN InHalf(r[1], layout.sx, s % 2) /\ InHalf(r[2], layout.sy, (s \div 2) % 2)
        ELSE InDomain(p, x)

-----------------------------------------------------------------------------
(* Which bins are exchanged with whom.                                     *)

(* setup_sector_chunks() and bin_sector_ghost(): ghost bin b is next to    *)
(* sector s.  Along an axis that is cut, the sector's ghosts are its own   *)
(* side of the sub-domain, one bin more, and the outer bin.                *)
SectorGhost(s, b) ==
    LET Side(k, c, n) == IF c = 0 THEN k \in 0 .. (n + 2) \div 2
                         ELSE k \in (n + 2) \div 2 - 1 .. n + 1
        Outer(k, c, n) == k = (IF c = 0 THEN 0 ELSE n + 1)
        x == s % 2
        y == s \div 2
    IN  IF layout.nsector = 4
        THEN \/ Side(b[1], x, NBinX) /\ Outer(b[2], y, NBinY)
             \/ Side(b[2], y, NBinY) /\ Outer(b[1], x, NBinX)
        ELSE \/ Outer(b[1], x, NBinX)
             \/ Side(b[1], x, NBinX) /\ b[2] \in {0, NBinY + 1}

(* The ghost bins that take part in the swaps of sector s, in one order    *)
(* for all processes.  (The code lists them by the bin they are copies of, *)
(* which only gives ghosts other slots.)                                   *)
GhostList(s) == Among(BinList, {g \in GhostBins : Sectored => SectorGhost(s, g)})

(* create_swap_all, create_swap_sector: the edge bins p sends, each with   *)
(* the ghost bin it fills and the process that has this bin.               *)
SwapList(p, s) ==
    LET ghosts == GhostList(s)
    IN  [k \in DOMAIN ghosts |-> [of |-> GhostIndex(ghosts[k]), to |-> ghosts[k],
                                  proc |-> NeighProc(p, -1, ghosts[k])]]

(* create_swap_sector_reverse: the ghost bins p sends, each with the bin   *)
(* it is a copy of and the process that owns that.                         *)
ReverseList(p, s) ==
    LET ghosts == GhostList(s)
    IN  [k \in DOMAIN ghosts |-> [of |-> ghosts[k], to |-> GhostIndex(ghosts[k]),
                                  proc |-> NeighProc(p, 1, ghosts[k])]]

(* create_send_from_list: the part of a list that concerns process q.      *)
To(list, q) == Among(list, {e \in ToSet(list) : e.proc = q})

(* Other processes in ascending order (rproc is sorted), and in the order  *)
(* sends are made, beginning after p.                                      *)
Others(p) == Among([k \in 1 .. Cardinality(Proc) |-> k - 1], Proc \ {p})
SendOrder(p) ==
    [k \in 1 .. Cardinality(Proc) - 1 |-> (p + k) % Cardinality(Proc)]

-----------------------------------------------------------------------------
(* The exchange before a sector: perform_swap().                           *)

(* The sites in q's bins that p gets copies of, in the order they are      *)
(* packed.                                                                 *)
Copies(q, p, s) ==
    LET OfBin(e) == LET slots == InBin(table[q], e.of)
                    IN  [k \in DOMAIN slots |->
                           [id |-> table[q].id[slots[k]], of |-> slots[k], bin |-> e.to,
                            x |-> Plus(table[q].xyz[slots[k]], Shift(p, e.to))]]
        list == To(SwapList(q, s), p)
    IN  FlattenSeq([k \in DOMAIN list |-> OfBin(list[k])])

(* Own copies first, then what the others sent.                            *)
Arrivals(p, s) ==
    Copies(p, p, s) \o
    FlattenSeq([k \in DOMAIN Others(p) |-> Copies(Others(p)[k], p, s)])

WithGhosts(p, s) ==
    LET t     == table[p]
        come  == Arrivals(p, s)
        bare  == DeleteAllGhosts(IF Sectored THEN t
                                 ELSE [t EXCEPT !.nextimage = [k \in DOMAIN @ |-> Nil]],
                                 GhostBins)
        Add(u, c) == IF Sectored THEN AddGhost(u, c.id, c.x, c.bin)
                     ELSE AddImage(u, c.of, c.x, c.bin)
    IN  FoldLeft(Add, GrowTo(bare, t.nlocal + Len(come)), come)

-----------------------------------------------------------------------------
(* The exchange after a sector: perform_swap_reverse().                    *)

OwnedIn(t, b) == Among(InBin(t, b), 0 .. t.nlocal - 1)

SendCount(p, q, s) ==
    LET list == To(ReverseList(p, s), q)
    IN  Len(FlattenSeq([k \in DOMAIN list |-> OwnedIn(table[p], list[k].of)]))

(* Pack the owned sites of one ghost bin and delete each when it is        *)
(* packed, which renumbers sites while the list is walked.                 *)
Drain(p, r, e) ==
    LET walk[n \in Nat] ==
            IF n = 0 THEN [t |-> r.t, out |-> r.out, m |-> r.t.binhead[e.of]]
            ELSE LET w == walk[n - 1]
                 IN  IF w.m = Nil THEN w
                     ELSE IF w.m < w.t.nlocal
                     THEN [t |-> DeleteOwned(w.t, w.m),
                           out |-> Append(w.out,
                               [id |-> w.t.id[w.m], bin |-> e.to, to |-> e.proc,
                                x |-> Minus(w.t.xyz[w.m], Shift(p, e.of))]),
                           m |-> NextAfterDelete(w.t, w.m)]
                     ELSE [w EXCEPT !.m = w.t.next[w.m]]
        w == walk[2 * r.t.nmax]
    IN  [t |-> w.t, out |-> w.out]

(* What p has left and what it has sent when its sends are done.           *)
Drained(p, s) ==
    LET need == table[p].nlocal + FoldLeft(LAMBDA a, q : a + SendCount(q, p, s) - SendCount(p, q, s),
                                           0, Others(p))
        list == FlattenSeq([k \in DOMAIN SendOrder(p) |->
                               To(ReverseList(p, s), SendOrder(p)[k])])
    IN  FoldLeft(LAMBDA r, e : Drain(p, r, e),
                 [t |-> GrowTo(table[p], need), out |-> <<>>], list)

(* Sites that left through the periodic boundary into a bin of p itself.   *)
BroughtBack(p, t, s) ==
    LET Back(u, i, e) ==
            AddToBin([DeleteFromBin(u, i, e.of) EXCEPT !.bin[i] = e.to,
                         !.xyz[i] = Minus(@, Shift(p, e.of))], i, e.to)
        OfBin(u, e) == FoldLeft(LAMBDA w, i : Back(w, i, e), u, OwnedIn(u, e.of))
    IN  FoldLeft(OfBin, t, To(ReverseList(p, s), p))

WithMigrants(p, s) ==
    LET gone == [q \in Proc |-> Drained(q, s)]
        home == DeleteAllGhosts(BroughtBack(p, gone[p].t, s), GhostBins)
        come == FlattenSeq([k \in DOMAIN Others(p) |->
                   LET out == gone[Others(p)[k]].out
                   IN  Among(out, {c \in ToSet(out) : c.to = p})])
    IN  FoldLeft(LAMBDA u, c : AddOwned(u, c.id, c.x, c.bin), home, come)

-----------------------------------------------------------------------------
(* Energies and moves (app_relax.cpp at temperature zero).                 *)

Dist2(x, y) ==
    LET d == Minus(x, y) IN d[1] * d[1] + d[2] * d[2]

(* neighbor(): the sites within the given distance, owned or ghost, found  *)
(* through the bins around i's.                                            *)
Neighbors(t, i, cut) ==
    LET around == (t.bin[i][1] - 1 .. t.bin[i][1] + 1) \X (t.bin[i][2] - 1 .. t.bin[i][2] + 1)
    IN  {j \in UNION {ToSet(InBin(t, b)) : b \in around} :
            j # i /\ Dist2(t.xyz[i], t.xyz[j]) <= cut * cut}

(* site_energy_neighbor(): here the number of sites within reach of x, as  *)
(* of a potential that repels.  The code leaves out a pair at exactly the  *)
(* cutoff; counting it asks for more.                                      *)
SiteEnergy(t, list, x) == Cardinality({j \in list : Dist2(x, t.xyz[j]) <= Reach * Reach})

(* Site i is linked to bin b instead of its own.                           *)
Rebinned(t, i, b) ==
    [AddToBin(DeleteFromBin(t, i, t.bin[i]), i, b) EXCEPT !.bin[i] = b]

(* add_images()                                                            *)
AddImages(p, t, i, b) ==
    FoldLeft(LAMBDA u, g : AddImage(u, i, Plus(u.xyz[i], Shift(p, g)), g),
             [t EXCEPT !.nextimage[i] = Nil], ImageBins(b))

(* move() with sectors: the images of a site are left as they are.         *)
MoveInSector(p, t, i) ==
    LET b == Site2Bin(p, t.xyz[i])
    IN  IF b = t.bin[i] THEN t ELSE Rebinned(t, i, b)

(* move() without sectors: images follow, a site that left the box comes   *)
(* back on the other side.                                                 *)
MoveInBox(p, t, i) ==
    LET old   == t.bin[i]
        out   == Site2Bin(p, t.xyz[i])
        home  == IF IsGhost(out) THEN [t EXCEPT !.xyz[i] = Minus(@, Shift(p, out))] ELSE t
        new   == Site2Bin(p, home.xyz[i])
        moved == Rebinned(home, i, new)
        clear == IF IsEdge(old) THEN DeleteImages(moved, i) ELSE moved
        images == ToSet(Images(t, i))
    IN  IF out = old
        THEN [t EXCEPT !.xyz = [j \in DOMAIN @ |-> IF j \in images
                                  THEN Plus(t.xyz[i], Shift(p, t.bin[j])) ELSE @[j]]]
        ELSE IF IsEdge(new) THEN AddImages(p, clear, i, new) ELSE clear

Moved(p, t, i) == IF Sectored THEN MoveInSector(p, t, i) ELSE MoveInBox(p, t, i)

-----------------------------------------------------------------------------
(* The driver: iterate_rejection() with sweep random and nstop = 1.        *)

(* init(): all owned sites are put into empty bins, the last one first.    *)
Binned(p, t) ==
    LET empty == [t EXCEPT !.binhead = [b \in Bins |-> Nil]]
        Put(u, k) == LET i == t.nlocal - k
                         b == Site2Bin(p, t.xyz[i])
                     IN  AddToBin([u EXCEPT !.bin[i] = b], i, b)
    IN  FoldLeft(Put, empty, [k \in 1 .. t.nlocal |-> k])

(* add_site() for each site of the sub-domain, then init().                *)
Created(p, where) ==
    LET mine == Sorted({n \in Id : InDomain(p, where[n])})
        size == ((Len(mine) + DELTA - 1) \div DELTA) * DELTA
        slots == 0 .. size - 1
        Given(f(_), x) == [k \in slots |-> IF k < Len(mine) THEN f(mine[k + 1]) ELSE x]
    IN  Binned(p, [nlocal |-> Len(mine), nghost |-> 0, nmax |-> size, nfree |-> 0,
                   freehead |-> Nil, binhead |-> <<>>,
                   id |-> Given(LAMBDA n : n, NoSite),
                   xyz |-> Given(LAMBDA n : where[n], NoPlace),
                   bin |-> [k \in slots |-> NoPlace], next |-> [k \in slots |-> Nil],
                   prev |-> [k \in slots |-> Nil], nextimage |-> [k \in slots |-> Nil]])

Owned(p) == 0 .. table[p].nlocal - 1

Init ==
    /\ layout \in Layouts
    /\ \E where \in Starts(layout) : table = [p \in Proc |-> Created(p, where)]
    /\ phase = "forward"
    /\ iset = 0 /\ sweep = 0 /\ run = 1
    /\ chosen = [p \in Proc |-> {}]
    /\ insector = [p \in Proc |-> {}]
    /\ tries = [p \in Proc |-> 0]

(* The sites a process may choose in the sector, and how many choices.     *)
Begin(s) ==
    LET inside == [p \in Proc |->
                     {i \in 0 .. table'[p].nlocal - 1 : InSector(p, s, table'[p].xyz[i])}]
    IN  /\ chosen' = inside
        /\ insector' = inside
        /\ tries' = [p \in Proc |-> Cardinality(inside[p])]

(* comm->sector(iset), or comm->all() at the start of a run without        *)
(* sectors.  The exchange has barriers inside and each process touches     *)
(* its own table only, so it is one step of all.                           *)
Forward ==
    /\ phase = "forward"
    /\ table' = [p \in Proc |-> WithGhosts(p, iset)]
    /\ Begin(iset)
    /\ phase' = "events"
    /\ UNCHANGED <<layout, iset, sweep, run>>

(* One choice of the random sweep: a site that has left the sector is      *)
(* passed over.                                                            *)
Skip(p) ==
    /\ phase = "events"
    /\ tries[p] > 0
    /\ chosen[p] # insector[p]
    /\ tries' = [tries EXCEPT ![p] = @ - 1]
    /\ UNCHANGED <<layout, table, phase, iset, sweep, run, chosen, insector>>

(* site_event_rejection(): a displacement, taken if the energy does not    *)
(* rise.                                                                   *)
TryMove(p, i, d) ==
    LET t    == table[p]
        x    == Plus(t.xyz[i], d)
        list == Neighbors(t, i, Reach + 2 * Step)
        new  == Moved(p, [t EXCEPT !.xyz[i] = x], i)
    IN  /\ phase = "events"
        /\ tries[p] > 0
        /\ i \in insector[p]
        /\ tries' = [tries EXCEPT ![p] = @ - 1]
        /\ IF SiteEnergy(t, list, x) <= SiteEnergy(t, list, t.xyz[i])
           THEN /\ table' = [table EXCEPT ![p] = new]
                /\ insector' = [insector EXCEPT ![p] =
                       IF Sectored /\ new.bin[i] # t.bin[i] /\ ~InSector(p, iset, x)
                       THEN @ \ {i} ELSE @]
           ELSE UNCHANGED <<table, insector>>
        /\ UNCHANGED <<layout, phase, iset, sweep, run, chosen>>

SweepDone == sweep' = sweep + 1 /\ phase' = IF sweep + 1 = StopSweeps THEN "done" ELSE
                                              IF Sectored THEN "forward" ELSE "events"

(* Variant: one sector too many.                                           *)
OneSetMore == iset + 1

NextSet == (iset + 1) % layout.nsector

(* comm->reverse_sector(iset), again with barriers inside, and on to the   *)
(* next sector or sweep.                                                   *)
ReverseSector ==
    /\ phase = "events" /\ Sectored
    /\ \A p \in Proc : tries[p] = 0
    /\ table' = [p \in Proc |-> WithMigrants(p, iset)]
    /\ iset' = NextSet
    /\ IF iset' = 0 THEN SweepDone ELSE phase' = "forward" /\ UNCHANGED sweep
    /\ chosen' = [p \in Proc |-> {}]
    /\ insector' = [p \in Proc |-> {}]
    /\ UNCHANGED <<layout, run, tries>>

(* The end of a sweep without sectors.                                     *)
NextSweep ==
    /\ phase = "events" /\ ~Sectored
    /\ \A p \in Proc : tries[p] = 0
    /\ SweepDone
    /\ UNCHANGED table
    /\ Begin(0)
    /\ UNCHANGED <<layout, iset, run>>

(* The next run command: init() bins the sites again.                      *)
NextRun ==
    /\ phase = "done" /\ run < StopRuns
    /\ table' = [p \in Proc |-> Binned(p, table[p])]
    /\ phase' = "forward"
    /\ sweep' = 0
    /\ run' = run + 1
    /\ UNCHANGED <<layout, iset, chosen, insector, tries>>

Finished == phase = "done" /\ run = StopRuns /\ UNCHANGED vars

Next ==
    \/ Forward \/ ReverseSector \/ NextSweep \/ NextRun \/ Finished
    \/ \E p \in Proc : \/ Skip(p)
                       \/ \E i \in Owned(p), d \in Moves : TryMove(p, i, d)

Spec == Init /\ [][Next]_vars

-----------------------------------------------------------------------------
(* Properties.                                                             *)

Ghosts(t) == (UNION {ToSet(InBin(t, b)) : b \in Bins}) \ (0 .. t.nlocal - 1)

(* Every variable holds a value of its kind.                               *)
TypeOK ==
    /\ layout \in Layouts
    /\ phase \in {"forward", "events", "done"}
    /\ iset \in 0 .. layout.nsector - 1 /\ sweep \in 0 .. StopSweeps /\ run \in 1 .. StopRuns
    /\ \A p \in Proc :
          /\ insector[p] \subseteq chosen[p] /\ chosen[p] \subseteq Owned(p)
          /\ tries[p] \in 0 .. Cardinality(chosen[p])
          /\ table[p].nlocal \in 0 .. table[p].nmax
          /\ DOMAIN table[p].next = 0 .. table[p].nmax - 1

(* The debugging test of the code, AppOffLattice::check(), whose calls are *)
(* commented out: every site is in the list of the bin it is in, each list *)
(* is linked both ways, no ghost is in an owned bin, and the lists hold    *)
(* every site once, whatever was moved, deleted, renumbered and received.  *)
CheckPasses ==
    \A p \in Proc :
        LET t     == table[p]
            flag  == phase = "events" \/ (~Sectored /\ phase = "done")
            lists == [b \in Bins |-> InBin(t, b)]
        IN  /\ \A b \in Bins : \A k \in DOMAIN lists[b] :
                 LET m == lists[b][k]
                 IN  /\ t.bin[m] = b /\ Site2Bin(p, t.xyz[m]) = b
                     /\ t.prev[m] = IF k = 1 THEN Nil ELSE lists[b][k - 1]
                     /\ ~IsGhost(b) => m < t.nlocal
            /\ LET Count(a, b) == a + (IF ~flag /\ IsGhost(b) THEN 0 ELSE Len(lists[b]))
               IN  FoldLeft(Count, 0, BinList) = t.nlocal + (IF flag THEN t.nghost ELSE 0)

(* Once ghosts have been made, every slot is an owned site, a ghost in a   *)
(* bin, or on the free list, and only one of them: no slot is lost or      *)
(* handed out twice through deletions, images, growth and migrations.      *)
SlotsAccounted ==
    \A p \in Proc :
        LET t == table[p]
        IN  phase = "events" =>
              /\ Ghosts(t) \cap ToSet(FreeSlots(t)) = {}
              /\ Owned(p) \cap ToSet(FreeSlots(t)) = {}
              /\ Len(FreeSlots(t)) = t.nfree
              /\ Cardinality(Ghosts(t)) = t.nghost
              /\ t.nlocal + t.nghost + t.nfree = t.nmax

Holders(n) == {h \in UNION {{p} \X Owned(p) : p \in Proc} : table[h[1]].id[h[2]] = n}

(* Each site is owned by exactly one process at any time, and between      *)
(* sectors by the one whose sub-domain it is in, where it is in exactly    *)
(* one sector: none is lost, doubled or left out of a sweep when it        *)
(* crosses to another process, several at once or through the periodic     *)
(* boundary.  (doc/sector.txt: "This command partitions the portion of the *)
(* simulation domain owned by each processor".)                            *)
OneOwner ==
    \A n \in Id :
        /\ Cardinality(Holders(n)) = 1
        /\ phase # "events" => \A h \in Holders(n) :
              LET x == table[h[1]].xyz[h[2]]
              IN  /\ InDomain(h[1], x)
                  /\ Cardinality({s \in 0 .. layout.nsector - 1 : InSector(h[1], s, x)}) = 1

(* Where the sites are, as their owners have them.                         *)
Where == [n \in Id |->
            IF Holders(n) = {} THEN NoPlace
            ELSE LET h == CHOOSE h \in Holders(n) : TRUE IN Wrapped(table[h[1]].xyz[h[2]])]

(* The run as a whole is a serial one: one site moves at a time, judged by *)
(* the energy of all sites as they are then, though processes move sites   *)
(* at the same time and see the others' only as copies; and the exchanges  *)
(* move nothing.                                                           *)
Serial == INSTANCE Relaxation WITH where <- Where, box <- Box

SerialRelaxation == Serial!Spec
=============================================================================
