----------------------------- MODULE HopKMC -----------------------------
(***************************************************************************)
(* An application whose events change two sites, on a lattice cut into     *)
(* sectors: app_diffusion.cpp in the loops iterate_kmc_sector() and        *)
(* iterate_rejection() of app_lattice.cpp, with the forward and reverse    *)
(* swaps of comm_lattice.cpp and depositions in batches.                   *)
(*                                                                         *)
(* An atom may hop from a site a process owns to a ghost.  The process     *)
(* changes its copy, and sends it to the owner when the sector is over.    *)
(*                                                                         *)
(* The lattice is one row of open sites along x, in a two-dimensional box  *)
(* whose other rows hold TOP sites, which never change and are neither     *)
(* VACANT nor OCCUPIED; processes px by 1 and "sector 2".                  *)
(***************************************************************************)
EXTENDS Decomposition, Diffusion, Sequences, Sums

CONSTANTS
    Layouts,       \* records of nx, px, kmc (solve style or sweep random) and
                   \* sweeps, a bound on the sweeps
    Starts(_),     \* Starts(L): the sets of occupied sites to start from
    Paths(_),      \* Paths(L): trajectories of deposition, as the sites within
                   \* the capture distance, those closest to the start first
    CoordLo,       \* least and greatest coordination of a site to
    CoordHi,       \* deposit on
    StopEvents,    \* bound: events of a process in one sector
    StopBatch      \* bound: depositions of a sweep

ASSUME HopAssumption ==
    /\ \A L \in Layouts :
          /\ {L.nx, L.px, L.sweeps} \subseteq Nat \ {0} /\ L.kmc \in BOOLEAN
          /\ \A path \in Paths(L) : path \in Seq(LineSites(L.nx)) /\ Len(path) <= L.nx
    /\ StopEvents \in Nat \ {0} /\ StopBatch \in Nat
    /\ CoordLo \in Nat /\ CoordHi \in Nat

VARIABLES
    layout,        \* the layout, fixed at the start
    lat,           \* lat[p][i]: the value of site i in the memory of p
    events,        \* events[i]: the event list of site i, kept by its owner
    pc,            \* pc[p]: where p is in the loop
    iset,          \* iset[p]: the sector it is in
    sweep,         \* sweep[p]: sweeps begun
    done,          \* done[p]: events of p in the sector
    chan,          \* chan[q][p]: messages of q to p, the oldest first
    nbatch,        \* nbatch[p]: depositions asked for by p in the sweep
    ndeposit       \* depositions counted as successful

vars == <<layout, lat, events, pc, iset, sweep, done, chan, nbatch, ndeposit>>

-----------------------------------------------------------------------------
(* Sectors and their swaps, for every layout.                              *)

Procs(L) == 0 .. L.px - 1
Sectors == {0, 1}

(* The sites reached from S in at most n steps through sites of T.         *)
Within(nb, S, T, n) ==
    LET layer[k \in Nat] ==
            IF k = 0 THEN S
            ELSE layer[k - 1] \cup (T \cap UNION {nb[i] : i \in layer[k - 1]})
    IN  layer[n]

(* Variant: events of a sector change no propensity in another.            *)
NoEventLayer == delpropensity

(* find_border_sites(): how far from its edge a sector is exposed.         *)
BorderLayers == delpropensity + delevent

(* Variant: ghosts as far as an event reaches.                             *)
ShortReach == delevent

(* delghost of CommLattice::init.                                          *)
delghost == delpropensity

(* Variant: nothing is sent back.                                          *)
NoReverse == 0

(* delreverse of CommLattice::init.                                        *)
delreverse == delevent

(* create_set(), find_border_sites(); create_swap_sector(): the ghosts     *)
(* received lie within delghost of the sector, through ghosts only;        *)
(* create_swap_sector_reverse(): those sent back, within delreverse.       *)
Tables(L) ==
    LET site == LineSites(L.nx)
        nb == LineNbr(L.nx)
        own == LineOwner(L.nx, L.px)
        sec == LineSector(L.nx, L.px)
        Local(p) == {i \in site : own[i] = p}
        Set(p, s) == {i \in Local(p) : sec[i] = s}
        Layered(p, s, n) == Within(nb, Set(p, s), site \ Local(p), n) \ Local(p)
        Table(Op(_, _)) == [p \in Procs(L) |-> [s \in Sectors |-> Op(p, s)]]
    IN  [nbr |-> nb, owner |-> own, sector |-> sec,
         set     |-> Table(Set),
         forward |-> Table(LAMBDA p, s : Layered(p, s, delghost)),
         reverse |-> Table(LAMBDA p, s : Layered(p, s, delreverse)),
         border  |-> Table(LAMBDA p, s : {i \in Set(p, s) :
                        ~ (Within(nb, {i}, site, BorderLayers) \subseteq Set(p, s))})]

Geometry == [L \in Layouts |-> Tables(L)]

Proc == Procs(layout)
Nbr == Geometry[layout].nbr
Site == DOMAIN Nbr
Owner == Geometry[layout].owner
SectorOf == Geometry[layout].sector
SetSites(p) == Geometry[layout].set[p][iset[p]]
ForwardSites(p) == Geometry[layout].forward[p][iset[p]]
ReverseSites(p) == Geometry[layout].reverse[p][iset[p]]
Border(p, s) == Geometry[layout].border[p][s]
Mine(p) == {i \in Site : Owner[i] = p}
AllGhosts(p) == Within(Nbr, Mine(p), Site, delghost) \ Mine(p)

Value(L, atoms) == [i \in LineSites(L.nx) |-> IF i \in atoms THEN OCCUPIED ELSE VACANT]
Unknown == 0

-----------------------------------------------------------------------------
(* Swaps.  A message holds the values of the sites both sides have in      *)
(* their lists; messages between two processes keep their order.           *)

(* chan after p has sent to each q the sites part[q], if there are any.    *)
Sent(p, part) ==
    [chan EXCEPT ![p] = [q \in Proc |->
        IF part[q] = {} THEN @[q] ELSE Append(@[q], [i \in part[q] |-> lat[p][i]])]]

(* Every message p waits for, of the sites part[q], is there.              *)
Arrived(p, part) == \A q \in Proc : part[q] # {} => chan[q][p] # <<>>

Taken(p, part) ==
    [q \in Proc |-> [chan[q] EXCEPT ![p] = IF part[q] = {} THEN @ ELSE Tail(@)]]

(* The memory of p when they are unpacked.                                 *)
Unpacked(p, part) ==
    [i \in Site |->
        IF \E q \in Proc : i \in part[q]
        THEN LET q == CHOOSE q \in Proc : i \in part[q] IN Head(chan[q][p])[i]
        ELSE lat[p][i]]

(* The lists of events of the sites in S recomputed from memory l.         *)
Refreshed(old, S, l) ==
    [i \in Site |-> IF i \in S THEN SiteEvents(l, Nbr, i) ELSE old[i]]

-----------------------------------------------------------------------------
(* setup(): comm->all() makes all ghosts current, and for a solver all     *)
(* event lists are built.                                                  *)
Init ==
    /\ layout \in Layouts
    /\ \E atoms \in Starts(layout) :
         LET l == Value(layout, atoms)
         IN  /\ lat = [p \in Proc |-> [i \in Site |->
                    IF i \in Mine(p) \cup AllGhosts(p) THEN l[i] ELSE Unknown]]
             /\ events = [i \in Site |-> IF layout.kmc THEN SiteEvents(l, Nbr, i) ELSE {}]
    /\ pc = [p \in Proc |-> "forward"]
    /\ iset = [p \in Proc |-> 0]
    /\ sweep = [p \in Proc |-> 1]
    /\ done = [p \in Proc |-> 0]
    /\ chan = [q \in Proc |-> [p \in Proc |-> <<>>]]
    /\ nbatch = [p \in Proc |-> 0]
    /\ ndeposit = 0

(* comm->sector(iset): pack and send to those that have my sites in their  *)
(* ghosts of this sector ...                                               *)
SendForward(p) ==
    /\ pc[p] = "forward"
    /\ chan' = Sent(p, [q \in Proc |-> Geometry[layout].forward[q][iset[p]] \cap Mine(p)])
    /\ pc' = [pc EXCEPT ![p] = "acquire"]
    /\ UNCHANGED <<layout, lat, events, iset, sweep, done, nbatch, ndeposit>>

(* ... wait for all and unpack.  With a solver the border's events are     *)
(* recomputed before the events start.                                     *)
Acquire(p) ==
    LET part == [q \in Proc |-> ForwardSites(p) \cap Mine(q)]
    IN  /\ pc[p] = "acquire"
        /\ Arrived(p, part)
        /\ lat' = [lat EXCEPT ![p] = Unpacked(p, part)]
        /\ chan' = Taken(p, part)
        /\ events' = IF layout.kmc THEN Refreshed(events, Border(p, iset[p]), lat'[p]) ELSE events
        /\ pc' = [pc EXCEPT ![p] = "events"]
        /\ UNCHANGED <<layout, iset, sweep, done, nbatch, ndeposit>>

(* site_event_linear(): an event of a site's list.  The lists are renewed  *)
(* of the sector's sites up to two steps from either site of the hop,      *)
(* update_propensities() with neighbor2().                                 *)
Hop(p) ==
    /\ pc[p] = "events" /\ layout.kmc
    /\ done[p] < StopEvents
    /\ \E i \in SetSites(p) : \E e \in events[i] :
         LET l == Hopped(lat[p], i, e.to)
         IN  /\ lat' = [lat EXCEPT ![p] = l]
             /\ events' = Refreshed(events, SetSites(p) \cap Within(Nbr, {i, e.to}, Site, 2), l)
    /\ done' = [done EXCEPT ![p] = @ + 1]
    /\ UNCHANGED <<layout, pc, iset, sweep, chan, nbatch, ndeposit>>

(* site_event_rejection() of a site chosen at random.  Choices that change *)
(* nothing are left out.                                                   *)
TryHop(p) ==
    /\ pc[p] = "events" /\ ~layout.kmc
    /\ done[p] < StopEvents
    /\ \E i \in SetSites(p) : \E j \in Targets(lat[p], Nbr, i) :
         lat' = [lat EXCEPT ![p] = Hopped(@, i, j)]
    /\ done' = [done EXCEPT ![p] = @ + 1]
    /\ UNCHANGED <<layout, events, pc, iset, sweep, chan, nbatch, ndeposit>>

(* site_event_linear() of the deposition event, which the first site of    *)
(* the sub-domain, in the first sector, has: in batch mode it is counted.  *)
Tally(p) ==
    /\ pc[p] = "events" /\ layout.kmc
    /\ iset[p] = 0
    /\ SumOver(nbatch, Proc) < StopBatch
    /\ nbatch' = [nbatch EXCEPT ![p] = @ + 1]
    /\ UNCHANGED <<layout, lat, events, pc, iset, sweep, done, chan, ndeposit>>

(* The sector is over: comm->reverse_sector(iset) packs and sends the      *)
(* ghosts that events of this sector can change to their owners ...        *)
EndSector(p) ==
    /\ pc[p] = "events"
    /\ chan' = Sent(p, [q \in Proc |-> ReverseSites(p) \cap Mine(q)])
    /\ pc' = [pc EXCEPT ![p] = "reverse"]
    /\ done' = [done EXCEPT ![p] = 0]
    /\ UNCHANGED <<layout, lat, events, iset, sweep, nbatch, ndeposit>>

(* Variant: one sweep more.                                                *)
NextSweepLate(p) == IF sweep[p] > layout.sweeps THEN "done" ELSE "forward"

NextSweep(p) == IF sweep[p] = layout.sweeps THEN "done" ELSE "forward"

(* ... waits for those of its own sites that others send, and unpacks.     *)
(* The next sector; after the last, app_update() if there are depositions, *)
(* else the next sweep.                                                    *)
Collect(p) ==
    LET part == [q \in Proc |-> Geometry[layout].reverse[q][iset[p]] \cap Mine(p)]
        last == iset[p] = 1
    IN  /\ pc[p] = "reverse"
        /\ Arrived(p, part)
        /\ lat' = [lat EXCEPT ![p] = Unpacked(p, part)]
        /\ chan' = Taken(p, part)
        /\ iset' = [iset EXCEPT ![p] = 1 - @]
        /\ pc' = [pc EXCEPT ![p] = IF ~last THEN "forward"
                                   ELSE IF layout.kmc THEN "update" ELSE NextSweep(p)]
        /\ sweep' = IF last /\ ~layout.kmc /\ pc'[p] = "forward"
                    THEN [sweep EXCEPT ![p] = @ + 1] ELSE sweep
        /\ UNCHANGED <<layout, events, done, nbatch, ndeposit>>

-----------------------------------------------------------------------------
(* app_update(): the depositions of the sweep, all processes together.     *)

Nowhere == -1

(* Vacant sites of p with the coordination asked for, by its own memory.   *)
Eligible(p) ==
    {i \in Mine(p) : /\ lat[p][i] = VACANT
                     /\ Coordination(lat[p], Nbr, i) \in CoordLo .. CoordHi}

(* depinfo of p: its site that comes first on the path, and how far it is. *)
Candidate(p, path) ==
    LET near == {k \in DOMAIN path : path[k] \in Eligible(p)}
    IN  IF near = {} THEN [proc |-> p, site |-> Nowhere, distance |-> Len(path) + 1]
        ELSE LET k == CHOOSE k \in near : \A n \in near : k <= n
             IN  [proc |-> p, site |-> path[k], distance |-> k]

(* Variant: as if the number of processes were a power of two.             *)
SplitOfPower(n) == 2 * n <= layout.px

(* The first nsplit is the largest power of two for which this holds.      *)
Split(n) == n < layout.px

(* A process of the lower half takes what its partner has if it is closer. *)
Closer(a, b) == IF b.site # Nowhere /\ b.distance < a.distance THEN b ELSE a

(* The pairwise reduction: info[n] is depinfo when nsplit has come down    *)
(* to n and the exchange is made.  In the end process 0 has the result.    *)
Merged(path) ==
    LET info[n \in Nat \ {0}] ==
            IF ~Split(n) THEN [p \in Proc |-> Candidate(p, path)]
            ELSE [p \in Proc |-> IF p < n /\ p + n \in Proc
                                 THEN Closer(info[2 * n][p], info[2 * n][p + n])
                                 ELSE info[2 * n][p]]
    IN  info[1][0]

(* Deposition n follows path[n].  The atoms are put down, comm->all()      *)
(* makes all ghosts current, and the events are renewed around each atom   *)
(* in its own sector and on the borders of all sectors.                    *)
AppUpdate ==
    /\ \A p \in Proc : pc[p] = "update"
    /\ \E path \in [1 .. SumOver(nbatch, Proc) -> Paths(layout)] :
         LET found == [n \in DOMAIN path |-> Merged(path[n])]
             hits  == {n \in DOMAIN path : found[n].site # Nowhere}
             atoms == {found[n].site : n \in hits}
             l     == [i \in Site |-> IF i \in atoms THEN OCCUPIED ELSE lat[Owner[i]][i]]
             stale == {i \in Site :
                         \/ i \in Border(Owner[i], SectorOf[i])
                         \/ \E m \in atoms : /\ Owner[m] = Owner[i] /\ SectorOf[m] = SectorOf[i]
                                              /\ i \in Within(Nbr, {m}, Site, 2)}
         IN  /\ lat' = [p \in Proc |-> [i \in Site |->
                           IF i \in Mine(p) \cup AllGhosts(p) THEN l[i] ELSE lat[p][i]]]
             /\ events' = Refreshed(events, stale, l)
             /\ ndeposit' = ndeposit + Cardinality(hits)
    /\ nbatch' = [p \in Proc |-> 0]
    /\ pc' = [p \in Proc |-> NextSweep(p)]
    /\ sweep' = [p \in Proc |-> IF NextSweep(p) = "done" THEN sweep[p] ELSE sweep[p] + 1]
    /\ UNCHANGED <<layout, iset, done, chan>>

Finished == (\A p \in Proc : pc[p] = "done") /\ UNCHANGED vars

Next ==
    \/ AppUpdate \/ Finished
    \/ \E p \in Proc : \/ SendForward(p) \/ Acquire(p) \/ Hop(p) \/ TryHop(p) \/ Tally(p)
                       \/ EndSector(p) \/ Collect(p)

Spec == Init /\ [][Next]_vars

-----------------------------------------------------------------------------
(* Properties.                                                             *)

(* The value of site i that counts: that of a process whose running sector *)
(* may change it, or else one on its way to the owner, or the owner's.     *)
TruthAt(i) ==
    LET o == Owner[i]
        guests == {p \in Proc : pc[p] = "events" /\ i \in ReverseSites(p)}
        sent == {p \in Proc \ {o} : \E k \in DOMAIN chan[p][o] : i \in DOMAIN chan[p][o][k]}
    IN  IF guests # {} THEN lat[CHOOSE p \in guests : TRUE][i]
        ELSE IF sent # {}
        THEN LET c == chan[CHOOSE p \in sent : TRUE][o]
                 k == CHOOSE k \in DOMAIN c :
                        i \in DOMAIN c[k] /\ \A n \in DOMAIN c : i \in DOMAIN c[n] => n <= k
             IN  c[k][i]
        ELSE lat[o][i]

Truth == [i \in Site |-> TruthAt(i)]

(* Every variable holds a value of its kind.                               *)
TypeOK ==
    /\ layout \in Layouts
    /\ \A p \in Proc :
          /\ \A i \in Site : lat[p][i] \in IF i \in Mine(p) \cup AllGhosts(p)
                                         THEN {VACANT, OCCUPIED} ELSE {Unknown}
          /\ pc[p] \in {"forward", "acquire", "events", "reverse", "update", "done"}
          /\ iset[p] \in Sectors /\ sweep[p] \in 1 .. layout.sweeps /\ done[p] \in 0 .. StopEvents
          /\ nbatch[p] \in 0 .. StopBatch
          /\ \A q \in Proc, k \in 1 .. 2 : k \in DOMAIN chan[q][p] =>
                DOMAIN chan[q][p][k] \subseteq Site
    /\ ndeposit \in 0 .. StopBatch * layout.sweeps

(* The event lists a sector draws from are those of the whole lattice as   *)
(* it is at that moment, whatever atoms hopped across the edges of other   *)
(* sectors and sub-domains or were deposited since they were built.        *)
EventsTrue ==
    \A p \in Proc : pc[p] = "events" /\ layout.kmc =>
        \A i \in SetSites(p) : events[i] = SiteEvents(Truth, Nbr, i)

(* The parallel run is a serial run of hops and depositions: each hop is   *)
(* possible, at its energy cost, on the whole lattice, atoms that cross    *)
(* between processes are neither lost nor doubled, and no exchange of      *)
(* ghosts, forward or back, overwrites a newer value.                      *)
Serial == INSTANCE Hopping WITH lattice <- Truth, nbr <- Nbr

SerialHops == Serial!Spec

(* A deposition goes to the eligible site nearest to the start of its      *)
(* path, of all processes ("the selected deposition site is the one        *)
(* closest to the starting point", doc/deposition.txt).                    *)
ClosestDeposited ==
    [][ndeposit' # ndeposit =>
         \E path \in Paths(layout), k \in 1 .. Cardinality(Site) :
            LET open == UNION {Eligible(p) : p \in Proc}
            IN  /\ k \in DOMAIN path /\ path[k] \in open
                /\ \A n \in 1 .. k - 1 : path[n] \notin open
                /\ Truth' = [Truth EXCEPT ![path[k]] = OCCUPIED]]_vars

(* The atoms on the lattice are those of the start and the depositions     *)
(* counted as successful: "A successful deposition event is one that       *)
(* resulted in an atom added to the lattice." (doc/diag_diffusion.txt)     *)
Atoms == Cardinality({i \in Site : Truth[i] = OCCUPIED})

AtomsKept == [][Atoms' - Atoms = ndeposit' - ndeposit]_vars
=============================================================================
