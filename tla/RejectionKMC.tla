---------------------------- MODULE RejectionKMC ----------------------------
(***************************************************************************)
(* Rejection KMC on a lattice: AppLattice::iterate_rejection() on every    *)
(* process, with sectors, colors or both, random or ordered sweeps, masks, *)
(* and one random stream per site in "sweep color/strict"; the site event  *)
(* is that of app_potts.cpp on a "sq/4n" lattice.                          *)
(*                                                                         *)
(* Nothing but the swaps of ghost values orders the processes.             *)
(***************************************************************************)
EXTENDS Potts, Decomposition, Sequences

CONSTANTS
    Layouts,       \* runs: see LayoutAssumption
    Starts(_),     \* Starts(L): lattices to start from
    Streams(_),    \* Streams(L): random numbers of each site for color/strict,
                   \* used over and over; also read as luck: 1 is accepted
    StopSweeps     \* bound: sweeps of a run

(* A run has a lattice of nx * ny sites on px * py processes, one or four  *)
(* sectors, a style of sweep, and masks or a temperature above zero.       *)
ASSUME LayoutAssumption ==
    \A L \in Layouts :
        /\ {L.nx, L.ny, L.px, L.py} \subseteq Nat \ {0}
        /\ L.nsector \in {1, 4} /\ {L.mask, L.warm} \subseteq BOOLEAN
        /\ L.style \in {"random", "raster", "color", "color/strict"}
        /\ L.style \in {"color", "color/strict"} => L.nx % 2 = 0 /\ L.ny % 2 = 0
        /\ L.style = "color/strict" => L.nsector = 1
        /\ L.px * L.py > 1 /\ L.nsector = 1 => L.style \in {"color", "color/strict"}
        /\ ~(L.mask /\ L.warm)

(* A site starts with a spin, and its stream is a sequence of spins.       *)
ASSUME StartAssumption ==
    \A L \in Layouts :
        LET site == SquareSites(L.nx, L.ny)
        IN  /\ Starts(L) \subseteq [site -> Spin]
            /\ L.style = "color/strict" => Streams(L) \subseteq [site -> Seq(Spin) \ {<<>>}]

ASSUME StopAssumption == StopSweeps \in Nat \ {0}

VARIABLES
    layout,     \* the run, fixed at the start
    spin,       \* spin[p][i]: the spin of site i in the memory of p
    mask,       \* mask[i] of the owner of site i
    pc,         \* pc[p]: where p is in the loop
    sets,       \* sets[p]: sets of sites p has been through
    left,       \* left[p]: attempts p has left in the set
    used,       \* used[i]: random numbers site i has used
    chan,       \* chan[q][p]: messages of q to p, the oldest first
    stream,     \* the random numbers of each site
    answer      \* answer[n]: the lattice of one process after n sets, see below

vars == <<layout, spin, mask, pc, sets, left, used, chan, stream, answer>>

-----------------------------------------------------------------------------
(* Sets of sites: create_set() and init().                                 *)

(* Variant: colors in stripes.                                             *)
ColumnColor(i) == i[1] % 2

(* Lattice::id2color() of "sq/4n".                                         *)
Color(i) == (i[1] + i[2]) % 2

Colored(L) == L.style \in {"color", "color/strict"}
Procs(L) == 0 .. L.px * L.py - 1

(* nset_loop: sectors, or colors when there are no sectors.                *)
SetCount(L) == IF L.nsector > 1 THEN L.nsector ELSE IF Colored(L) THEN 2 ELSE 1

(* An ordered sweep comes to site j before site i: by local index and, with *)
(* sectors and colors, one color of the sector after the other.            *)
Before(L, j, i) ==
    IF Colored(L) /\ L.nsector > 1 /\ Color(j) # Color(i) THEN Color(j) < Color(i)
    ELSE IF j[2] # i[2] THEN j[2] < i[2] ELSE j[1] < i[1]

(* How many sites of set S it comes to before site i.                      *)
Turns(L, S) == [i \in S |-> Cardinality({j \in S : Before(L, j, i)})]

(* find_border_sites() with delpropensity + delevent = 1.                  *)
BorderOf(nb, own, S) == {i \in S : ~(nb[i] \subseteq S)}

Tables(L) ==
    LET site == SquareSites(L.nx, L.ny)
        nb == SquareNbr(L.nx, L.ny)
        own == SquareOwner(L.nx, L.ny, L.px, L.py)
        sec == SquareSector(L.nx, L.ny, L.px, L.py)
        Which(i) == IF L.nsector > 1 THEN sec[i] ELSE IF Colored(L) THEN Color(i) ELSE 0
        Local(p) == {i \in site : own[i] = p}
        Set(p, s) == {i \in Local(p) : Which(i) = s}
        Seen(p, s) == IF L.nsector > 1 THEN Set(p, s) ELSE Local(p)
        Table(Op(_, _)) == [p \in Procs(L) |-> [s \in 0 .. SetCount(L) - 1 |-> Op(p, s)]]
    IN  [nbr |-> nb, owner |-> own,
         set |-> Table(Set),
         turn |-> Table(LAMBDA p, s : Turns(L, Set(p, s))),
         border |-> Table(LAMBDA p, s : BorderOf(nb, own, Set(p, s))),
         ghosts |-> Table(LAMBDA p, s : (UNION {nb[i] : i \in Seen(p, s)}) \ Local(p))]

Geometry == [L \in Layouts |-> Tables(L)]

Proc == Procs(layout)
Nbr == Geometry[layout].nbr
Site == DOMAIN Nbr
Owner == Geometry[layout].owner
SetOf(p) == sets[p] % SetCount(layout)
SetSites(p) == Geometry[layout].set[p][SetOf(p)]
Turn(p) == Geometry[layout].turn[p][SetOf(p)]
Border(p) == Geometry[layout].border[p][SetOf(p)]
Ghosts(p, s) == Geometry[layout].ghosts[p][s]
Mine(p) == {i \in Site : Owner[i] = p}

Strict == layout.style = "color/strict"

-----------------------------------------------------------------------------
(* Random numbers: of the site's own stream in color/strict, else any.     *)

Number(st, i, n) == st[i][(n % Len(st[i])) + 1]

Spins(i) == IF Strict THEN {Number(stream, i, used[i])} ELSE Spin
Lucks(i) == IF Strict THEN {Number(stream, i, used[i] + 1) = 1} ELSE BOOLEAN

(* Variant: siteseeds[i] is not saved.                                     *)
SeedLost(l, i, s) == used[i]

(* ranstrict->seed after the event, kept in siteseeds[i].                  *)
SeedAfter(l, i, s) == used[i] + IF layout.warm /\ Uphill(l, Nbr, i, s) THEN 2 ELSE 1

(* sweep_nomask_strict() of one process without ghosts, in the order of    *)
(* local indices, which go row by row.                                     *)
SiteAt(L, k) == <<k % L.nx, k \div L.nx>>

(* site_event_rejection() of site i with the random numbers of the site.   *)
Trial(L, st, r, i) ==
    LET nb == Geometry[L].nbr
        s == Number(st, i, r.used[i])
    IN  [spin |-> [r.spin EXCEPT ![i] =
             Offered(r.spin, nb, i, s, L.warm, Number(st, i, r.used[i] + 1) = 1)],
         used |-> [r.used EXCEPT ![i] = @ + IF L.warm /\ Uphill(r.spin, nb, i, s) THEN 2 ELSE 1]]

(* Step m: a set goes through all sites and tries those of its color.      *)
Visit(L, st, m, r) ==
    LET area == L.nx * L.ny
        i == SiteAt(L, m % area)
    IN  IF Color(i) = (m \div area) % 2 THEN Trial(L, st, r, i) ELSE r

(* The reference for "the same answer, independent of how many processors  *)
(* are used" (doc/sweep.txt).                                              *)
Reference(L, l, st) ==
    LET after[m \in Nat] ==
            IF m = 0 THEN [spin |-> l, used |-> [i \in DOMAIN Geometry[L].nbr |-> 0]]
            ELSE Visit(L, st, m - 1, after[m - 1])
    IN  [n \in 0 .. 2 * StopSweeps |-> after[n * (L.nx * L.ny)].spin]

-----------------------------------------------------------------------------
Init ==
    /\ layout \in Layouts
    /\ \E l \in Starts(layout) :
         /\ stream \in (IF Strict THEN Streams(layout) ELSE {<<>>})
         /\ spin = [p \in Proc |-> l]
         /\ answer = IF Strict THEN Reference(layout, l, stream) ELSE <<>>
    /\ mask = [i \in Site |-> FALSE]
    /\ pc = [p \in Proc |-> "send"]
    /\ sets = [p \in Proc |-> 0]
    /\ left = [p \in Proc |-> 0]
    /\ used = [i \in Site |-> 0]
    /\ chan = [q \in Proc |-> [p \in Proc |-> <<>>]]

(* comm->sector(iset) or comm->all(): pack and send ...                    *)
Send(p) ==
    LET Part(q) == Ghosts(q, SetOf(p)) \cap Mine(p)
    IN  /\ pc[p] = "send"
        /\ chan' = [chan EXCEPT ![p] = [q \in Proc |->
               IF Part(q) = {} THEN @[q] ELSE Append(@[q], [i \in Part(q) |-> spin[p][i]])]]
        /\ pc' = [pc EXCEPT ![p] = "receive"]
        /\ UNCHANGED <<layout, spin, mask, sets, left, used, stream, answer>>

(* ... wait for all and unpack; then boundary_clear_mask().                *)
Receive(p) ==
    LET Part(q) == Ghosts(p, SetOf(p)) \cap Mine(q)
    IN  /\ pc[p] = "receive"
        /\ \A q \in Proc : Part(q) # {} => chan[q][p] # <<>>
        /\ spin' = [spin EXCEPT ![p] = [i \in Site |->
               IF i \in Ghosts(p, SetOf(p)) THEN Head(chan[Owner[i]][p])[i] ELSE @[i]]]
        /\ chan' = [q \in Proc |-> [chan[q] EXCEPT ![p] = IF Part(q) = {} THEN @ ELSE Tail(@)]]
        /\ mask' = [i \in Site |-> mask[i] /\ i \notin Border(p)]
        /\ left' = [left EXCEPT ![p] = Cardinality(SetSites(p))]
        /\ pc' = [pc EXCEPT ![p] = "sweep"]
        /\ UNCHANGED <<layout, sets, used, stream, answer>>

(* The site the sweep is at: any for "random", which makes as many choices *)
(* as the set has sites.                                                   *)
Candidates(p) ==
    IF layout.style = "random" THEN SetSites(p)
    ELSE {i \in SetSites(p) : Turn(p)[i] = Cardinality(SetSites(p)) - left[p]}

(* Variant: neighbors of a site that changed keep their masks.             *)
MaskOfSelf(p, i, changed) ==
    [j \in Site |-> IF j = i /\ MostlyAlike(spin[p], Nbr, i) THEN TRUE ELSE mask[j]]

(* The masks after the event.  (Those of ghosts are never used.)           *)
MaskAfter(p, i, changed) ==
    [j \in Site |-> IF changed /\ j \in Nbr[i] /\ Owner[j] = p THEN FALSE
                    ELSE IF j = i /\ MostlyAlike(spin[p], Nbr, i) THEN TRUE ELSE mask[j]]

(* sweep_*(): a masked site is passed over, else site_event_rejection().   *)
Skip(p) ==
    /\ pc[p] = "sweep" /\ left[p] > 0
    /\ layout.mask /\ \E i \in Candidates(p) : mask[i]
    /\ left' = [left EXCEPT ![p] = @ - 1]
    /\ UNCHANGED <<layout, spin, mask, pc, sets, used, chan, stream, answer>>

Attempt(p) ==
    /\ pc[p] = "sweep" /\ left[p] > 0
    /\ \E i \in Candidates(p) : ~mask[i] /\ \E s \in Spins(i), lucky \in Lucks(i) :
         LET l == spin[p]
             new == Offered(l, Nbr, i, s, layout.warm, lucky)
         IN  /\ spin' = [spin EXCEPT ![p][i] = new]
             /\ mask' = IF layout.mask THEN MaskAfter(p, i, new # l[i]) ELSE mask
             /\ used' = IF Strict THEN [used EXCEPT ![i] = SeedAfter(l, i, s)] ELSE used
    /\ left' = [left EXCEPT ![p] = @ - 1]
    /\ UNCHANGED <<layout, pc, sets, chan, stream, answer>>

(* Variant: one set more.                                                  *)
AllSetsAndOne == SetCount(layout) * StopSweeps + 1

AllSets == SetCount(layout) * StopSweeps

(* The next set; the reverse swaps carry nothing, as delevent = 0.         *)
EndSet(p) ==
    /\ pc[p] = "sweep" /\ left[p] = 0
    /\ sets' = [sets EXCEPT ![p] = @ + 1]
    /\ pc' = [pc EXCEPT ![p] = IF sets[p] + 1 = AllSets THEN "done" ELSE "send"]
    /\ UNCHANGED <<layout, spin, mask, left, used, chan, stream, answer>>

Finished == (\A p \in Proc : pc[p] = "done") /\ UNCHANGED vars

Next ==
    \/ Finished
    \/ \E p \in Proc : Send(p) \/ Receive(p) \/ Skip(p) \/ Attempt(p) \/ EndSet(p)

Spec == Init /\ [][Next]_vars

-----------------------------------------------------------------------------
(* Properties.                                                             *)

Lattice == [i \in Site |-> spin[Owner[i]][i]]

(* Every variable holds a value of its kind.                               *)
TypeOK ==
    /\ layout \in Layouts
    /\ spin \in [Proc -> [Site -> Spin]]
    /\ mask \in [Site -> BOOLEAN]
    /\ pc \in [Proc -> {"send", "receive", "sweep", "done"}]
    /\ sets \in [Proc -> 0 .. SetCount(layout) * StopSweeps]
    /\ left \in [Proc -> 0 .. Cardinality(Site)]
    /\ used \in [Site -> Nat]
    /\ \A p, q \in Proc : \A n \in DOMAIN chan[q][p] :
          /\ DOMAIN chan[q][p][n] \subseteq Mine(q)
          /\ chan[q][p][n] \in [DOMAIN chan[q][p][n] -> Spin]

(* A site that would be passed over could not have changed: every other    *)
(* spin costs energy on the lattice as it is at that moment, whatever its  *)
(* neighbors did since it was masked, in this process or another.          *)
MaskedAreFrozen ==
    layout.mask =>
        \A p \in Proc : pc[p] = "sweep" =>
            \A i \in SetSites(p) : mask[i] =>
                \A s \in Spin \ {Lattice[i]} : Uphill(Lattice, Nbr, i, s)

(* The run is a serial one: sites change one at a time, and at temperature *)
(* zero none to a spin that costs energy on the whole lattice as it is at  *)
(* that moment, though processes sweep at the same time on copies.  "events *)
(* on two sites of the same color can be perfored simultaneously without   *)
(* conflict" (doc/sweep.txt).                                              *)
SerialSweep ==
    [][\A i \in Site : Lattice'[i] # Lattice[i] =>
          /\ Lattice' = [Lattice EXCEPT ![i] = Lattice'[i]]
          /\ layout.warm \/ ~Uphill(Lattice, Nbr, i, Lattice'[i])]_vars

(* color/strict gives the answer of one process: after n sets a process    *)
(* has its sites as the reference has them, however it interleaved with    *)
(* the others.                                                             *)
SameAnswer ==
    Strict => \A p \in Proc : pc[p] \in {"send", "done"} =>
                  \A i \in Mine(p) : spin[p][i] = answer[sets[p]][i]
=============================================================================
