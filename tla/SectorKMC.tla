------------------------------ MODULE SectorKMC ------------------------------
(***************************************************************************)
(* Parallel KMC on a lattice by sectors: AppLattice::iterate_kmc_sector()  *)
(* on every process, the sector swaps of CommLattice, and the site event   *)
(* of app_ising.cpp.                                                       *)
(*                                                                         *)
(* Every process owns a sub-domain, cut into NSector sectors, and keeps a  *)
(* copy of the ghost sites around it.  A process works through its sectors *)
(* in turn.  For each it exchanges ghost values with the neighbouring      *)
(* processes, refreshes the propensities of the sector's border sites and  *)
(* runs the serial KMC loop inside the sector with no communication until  *)
(* the sector's time is used up.  Nothing but the messages orders the      *)
(* processes: one may be several sectors ahead of another.                 *)
(*                                                                         *)
(* The random solver is abstract here (module Solver says what it         *)
(* promises, SolveTree and SolveGroup how): event() returns some site of   *)
(* positive propensity, or ends the sector, because no site is active or   *)
(* because the next time increment would pass dt_kmc.                      *)
(***************************************************************************)
EXTENDS Ising

CONSTANTS
    Proc,          \* the processes of the communicator "world"
    NSector,       \* nset = nsector of AppLattice::init
    Owner,         \* Owner[i] = the process that owns site i
    SectorOf,      \* SectorOf[i] = the sector of its owner that i is in
    InitSpins,     \* the lattices a run may start from
    Adaptive,      \* Ladapt: TRUE for "sector ... nstop", FALSE for "tstop"
    DtChoices,     \* the values nstop/pmaxall, or tstop, may take
    StopTime,      \* stoptime, in units of the model's time
    OutputTimes    \* times at which nextoutput has been reached

ASSUME SectorAssumption ==
    /\ IsFiniteSet(Proc)
    /\ NSector \in Nat \ {0}
    /\ Owner \in [Site -> Proc]
    /\ SectorOf \in [Site -> 0 .. NSector - 1]
    /\ InitSpins \subseteq [Site -> Spin]

ASSUME TimeAssumption ==
    /\ Adaptive \in BOOLEAN
    /\ DtChoices \subseteq Nat \ {0}
    /\ StopTime \in Nat \ {0}
    /\ OutputTimes \subseteq Nat

VARIABLES
    val,      \* val[p][i]: the spin of i in the memory of p (owned or ghost)
    prop,     \* prop[i]: propensity[] entry of i in its owner's set
    pc,       \* what each process does next
    phase,    \* phase[p]: sectors p has completed since the run began
    msgs,     \* messages sent and not yet unpacked
    time,     \* time[p]: the simulation time of p
    dt        \* dt[p]: dt_kmc of p

vars == <<val, prop, pc, phase, msgs, time, dt>>

(* nsweeps and iset of the loops in iterate_kmc_sector are the quotient    *)
(* and the remainder of the number of sectors done.                        *)
Sec(ph)   == ph % NSector
Sweep(ph) == ph \div NSector

Least(a, b) == IF a <= b THEN a ELSE b

-----------------------------------------------------------------------------
(* The decomposition.                                                      *)

Sectors == 0 .. NSector - 1

(* create_set: the sites of one sector of one process.                     *)
SectorSites ==
    [p \in Proc |-> [s \in Sectors |-> {i \in Site : Owner[i] = p /\ SectorOf[i] = s}]]

(* Variant: one swap serves the whole sweep.                               *)
GhostsOfFirstSector ==
    [p \in Proc |-> [s \in Sectors |->
        {j \in Site : s = 0 /\ Owner[j] # p /\ \E i \in SectorSites[p][s] : j \in Nbr[i]}]]

(* create_swap_sector with delghost = 1: the ghosts one hop away from the  *)
(* sector.                                                                 *)
SectorGhosts ==
    [p \in Proc |-> [s \in Sectors |->
        {j \in Site : Owner[j] # p /\ \E i \in SectorSites[p][s] : j \in Nbr[i]}]]

(* create_send_from_recv: the part of them q owns, and sends to p.         *)
Traffic ==
    [q \in Proc |-> [p \in Proc |-> [s \in Sectors |->
        {j \in SectorGhosts[p][s] : Owner[j] = q}]]]

(* Variant: only sites next to a ghost count as border.                    *)
SitesNextToGhosts ==
    [p \in Proc |-> [s \in Sectors |->
        {i \in SectorSites[p][s] : \E j \in Nbr[i] : Owner[j] # p}]]

(* find_border_sites with nlayer = 1: sites of the set with a neighbour    *)
(* outside it, be it a ghost or a site of another sector.                  *)
BorderSites ==
    [p \in Proc |-> [s \in Sectors |->
        {i \in SectorSites[p][s] : ~ (Nbr[i] \subseteq SectorSites[p][s])}]]

(* The whole lattice: each site as its owner has it.                       *)
Lattice == [i \in Site |-> val[Owner[i]][i]]

-----------------------------------------------------------------------------
(* Messages.  MPI keeps the order of the messages of one process to        *)
(* another; all of them carry tag 0.  The stamp is the sender's phase: it  *)
(* gives that order and is otherwise not looked at, since the code sends   *)
(* values only.                                                            *)

Pending(q, p) == {m \in msgs : m.src = q /\ m.dst = p}

(* Variant: messages overtake each other.                                  *)
Newest(q, p) ==
    CHOOSE m \in Pending(q, p) : \A n \in Pending(q, p) : m.stamp >= n.stamp

Oldest(q, p) ==
    CHOOSE m \in Pending(q, p) : \A n \in Pending(q, p) : m.stamp <= n.stamp

Message(p, q) ==
    [src |-> p, dst |-> q, stamp |-> phase[p],
     v |-> [j \in Traffic[p][q][Sec(phase[p])] |-> val[p][j]]]

(* Variant: the values received are not written to the ghosts.             *)
GhostsAsBefore(p, s) == val[p]

(* What the ghosts of p look like once the messages of sector s are        *)
(* unpacked.                                                               *)
Unpacked(p, s) ==
    [i \in Site |->
        IF i \in SectorGhosts[p][s] /\ i \in DOMAIN Oldest(Owner[i], p).v
        THEN Oldest(Owner[i], p).v[i]
        ELSE val[p][i]]

-----------------------------------------------------------------------------
(* AppLattice::setup: comm->all() makes every ghost current, every set's   *)
(* propensities are computed, dt_kmc is chosen.  Setup ends in reductions, *)
(* so no process is inside it when another starts to iterate.              *)
Init ==
    /\ \E spins \in InitSpins :
          /\ val = [p \in Proc |-> spins]
          /\ prop = [i \in Site |-> SitePropensity(spins, i)]
    /\ pc = [p \in Proc |-> "comm"]
    /\ phase = [p \in Proc |-> 0]
    /\ msgs = {}
    /\ time = [p \in Proc |-> 0]
    /\ \E d \in DtChoices : dt = [p \in Proc |-> Least(d, StopTime)]

(* comm->sector(iset), first half: post the receives, pack and send.       *)
Send(p) ==
    /\ pc[p] = "comm"
    /\ msgs' = msgs \cup {Message(p, q) : q \in
                 {r \in Proc : Traffic[p][r][Sec(phase[p])] # {}}}
    /\ pc' = [pc EXCEPT ![p] = "wait"]
    /\ UNCHANGED <<val, prop, phase, time, dt>>

(* comm->sector(iset), second half: wait for one message of every process  *)
(* that owns ghosts of the sector and unpack them; then recompute the      *)
(* propensities of the border sites (and solve->update() them).            *)
Receive(p) ==
    LET s    == Sec(phase[p])
        From == {q \in Proc : Traffic[q][p][s] # {}}
    IN  /\ pc[p] = "wait"
        /\ \A q \in From : Pending(q, p) # {}
        /\ val' = [val EXCEPT ![p] = Unpacked(p, s)]
        /\ prop' = [i \in Site |-> IF i \in BorderSites[p][s]
                                   THEN SitePropensity(Unpacked(p, s), i)
                                   ELSE prop[i]]
        /\ msgs' = msgs \ {Oldest(q, p) : q \in From}
        /\ pc' = [pc EXCEPT ![p] = "events"]
        /\ UNCHANGED <<phase, time, dt>>

(* Variant: neighbours keep their old propensities.                        *)
OnlyTheSite(p, i) == {i}

(* The sites whose propensities site_event(i) recomputes: i and those of   *)
(* its neighbours that are in the set (i2site >= 0).                       *)
Touched(p, i) == {i} \cup (Nbr[i] \cap SectorSites[p][Sec(phase[p])])

(* solve->event() returned site i before the sector's time was used up.    *)
Event(p, i) ==
    LET flipped == SiteEvent(val[p], i)
    IN  /\ pc[p] = "events"
        /\ i \in SectorSites[p][Sec(phase[p])]
        /\ prop[i] > 0
        /\ val' = [val EXCEPT ![p] = flipped]
        /\ prop' = [k \in Site |-> IF k \in Touched(p, i)
                                   THEN SitePropensity(flipped, k)
                                   ELSE prop[k]]
        /\ UNCHANGED <<pc, phase, msgs, time, dt>>

(* Variant: a sector ends only when no site of it is active.               *)
NextSectorWhenIdle(p) ==
    /\ pc[p] = "events"
    /\ Sec(phase[p] + 1) # 0
    /\ \A i \in SectorSites[p][Sec(phase[p])] : prop[i] = 0
    /\ phase' = [phase EXCEPT ![p] = @ + 1]
    /\ pc' = [pc EXCEPT ![p] = "comm"]
    /\ UNCHANGED <<val, prop, msgs, time, dt>>

(* The sector's time is used up, or event() returned -1; reverse_sector()  *)
(* is a no-op when delevent = 0.  On to the next sector of the sweep.      *)
NextSector(p) ==
    /\ pc[p] = "events"
    /\ Sec(phase[p] + 1) # 0
    /\ phase' = [phase EXCEPT ![p] = @ + 1]
    /\ pc' = [pc EXCEPT ![p] = "comm"]
    /\ UNCHANGED <<val, prop, msgs, time, dt>>

(* Where the loop goes when the collectives of a sweep are behind it.      *)
AfterSweep(t) == IF t >= StopTime THEN "done" ELSE "comm"

(* The last sector of a sweep: time += dt_kmc, and output->compute() when  *)
(* the run is over or an output is due.                                    *)
EndSweep(p) ==
    LET t == time[p] + dt[p]
    IN  /\ pc[p] = "events"
        /\ Sec(phase[p] + 1) = 0
        /\ phase' = [phase EXCEPT ![p] = @ + 1]
        /\ time' = [time EXCEPT ![p] = t]
        /\ pc' = [pc EXCEPT ![p] = IF t >= StopTime \/ t \in OutputTimes THEN "output"
                                  ELSE IF Adaptive THEN "reduce"
                                  ELSE "comm"]
        /\ UNCHANGED <<val, prop, msgs, dt>>

(* Output::stats: reductions over all processes.                           *)
Output ==
    /\ \A p \in Proc : pc[p] = "output"
    /\ pc' = [p \in Proc |-> IF Adaptive THEN "reduce" ELSE AfterSweep(time[p])]
    /\ UNCHANGED <<val, prop, phase, msgs, time, dt>>

(* Variant: dt_kmc is not cut at the end of the run.                       *)
UncutStep ==
    /\ \A p \in Proc : pc[p] = "reduce"
    /\ \E d \in DtChoices : dt' = [p \in Proc |-> d]
    /\ pc' = [p \in Proc |-> AfterSweep(time[p])]
    /\ UNCHANGED <<val, prop, phase, msgs, time>>

(* The MPI_Allreduce of pmax: every process gets the same pmaxall, hence   *)
(* the same nstop/pmaxall, and cuts it at the end of the run.              *)
Allreduce ==
    /\ \A p \in Proc : pc[p] = "reduce"
    /\ \E d \in DtChoices : dt' = [p \in Proc |-> Least(d, StopTime - time[p])]
    /\ pc' = [p \in Proc |-> AfterSweep(time[p])]
    /\ UNCHANGED <<val, prop, phase, msgs, time>>

(* iterate() is over on every process (timer->barrier_stop).               *)
Finished ==
    /\ \A p \in Proc : pc[p] = "done"
    /\ UNCHANGED vars

Step(p) ==
    \/ Send(p)
    \/ Receive(p)
    \/ \E i \in Site : Event(p, i)
    \/ NextSector(p)
    \/ EndSweep(p)

Next == (\E p \in Proc : Step(p)) \/ Output \/ Allreduce \/ Finished

Spec == Init /\ [][Next]_vars

(* A process that can go on does; and a sector ends, because the time      *)
(* increments of its events are positive and add up to dt_kmc.             *)
Fairness ==
    /\ \A p \in Proc : /\ WF_vars(Send(p))
                        /\ WF_vars(Receive(p))
                        /\ WF_vars(NextSector(p) \/ EndSweep(p))
    /\ WF_vars(Output)
    /\ WF_vars(Allreduce)

FairSpec == Spec /\ Fairness

-----------------------------------------------------------------------------
(* Properties.                                                             *)

(* No two neighbouring sites of different processes are in sectors of the  *)
(* same number.  The code relies on it and does not test it: it holds when *)
(* every half of a divided sub-domain holds a site.  With one site in a    *)
(* sub-domain all are in the first half, and neighbours run together.      *)
SectorsApart ==
    \A i, j \in Site :
        j \in Nbr[i] /\ Owner[i] # Owner[j] => SectorOf[i] # SectorOf[j]

(* Every variable holds a value of its kind.                               *)
TypeOK ==
    /\ val \in [Proc -> [Site -> Spin]]
    /\ prop \in [Site -> Nat]
    /\ pc \in [Proc -> {"comm", "wait", "events", "output", "reduce", "done"}]
    /\ phase \in [Proc -> Nat]
    /\ \A m \in msgs : /\ m.src \in Proc /\ m.dst \in Proc /\ m.stamp \in Nat
                       /\ m.v \in [Traffic[m.src][m.dst][Sec(m.stamp)] -> Spin]
    /\ time \in [Proc -> Nat]
    /\ dt \in [Proc -> Nat]

(* While a process runs events in a sector with no communication, the      *)
(* ghosts of the sector stay equal to what their owners have, although the *)
(* owners run too and may be sectors ahead (app_lattice.cpp:533).          *)
GhostsCurrent ==
    \A p \in Proc : pc[p] = "events" =>
        \A j \in SectorGhosts[p][Sec(phase[p])] : val[p][j] = val[Owner[j]][j]

(* The propensities event() draws from are those of the whole lattice as   *)
(* it is now: the partial updates (border sites after a swap, neighbours   *)
(* inside the set after an event) miss none, nor does any process change   *)
(* one behind another's back (app_lattice.cpp:549, app_ising.cpp site_event). *)
PropensitiesTrue ==
    \A p \in Proc : pc[p] = "events" =>
        \A i \in SectorSites[p][Sec(phase[p])] : prop[i] = SitePropensity(Lattice, i)

(* Propensities of sites that are not on a border are never refreshed      *)
(* after setup() except by events next to them, and yet are right in every *)
(* state, in every sector, run or not.                                     *)
InteriorPropensitiesTrue ==
    \A i \in Site : i \notin BorderSites[Owner[i]][SectorOf[i]]
                     => prop[i] = SitePropensity(Lattice, i)

(* "events occurring on one processor do not conflict with events          *)
(* performed by other processors" (doc/sector.txt): no two processes run   *)
(* events at the same time in sectors that touch, whatever their skew.     *)
ConcurrentSectorsApart ==
    \A p, q \in Proc : p # q /\ pc[p] = "events" /\ pc[q] = "events" =>
        \A i \in SectorSites[p][Sec(phase[p])] :
            Nbr[i] \cap SectorSites[q][Sec(phase[q])] = {}

(* All messages have the same tag, so a receive takes the oldest message   *)
(* of a sender; it is always the one sent for the sector being received.   *)
NextMessageIsForThisSector ==
    \A p, q \in Proc : pc[p] = "wait" /\ Pending(q, p) # {} =>
        \/ Oldest(q, p).stamp = phase[p]
        \/ Oldest(q, p).stamp > phase[p] /\ Traffic[q][p][Sec(phase[p])] = {}

(* A process runs ahead of a neighbour by at most one round of sectors, so *)
(* the messages that pile up on a channel (MPI buffers them) are bounded.  *)
SkewBounded ==
    /\ \A p, q \in Proc : p # q /\ (\E s \in Sectors : Traffic[p][q][s] # {})
            => phase[p] <= phase[q] + NSector
    /\ \A p, q \in Proc : Cardinality(Pending(q, p)) <= NSector

(* Processes that have done the same number of sweeps agree on the time    *)
(* and on dt_kmc, so they take the same exit of the loop; and two          *)
(* processes waiting in a collective wait in the same one.                 *)
TimesAgree ==
    \A p, q \in Proc :
        /\ Sweep(phase[p]) = Sweep(phase[q]) => time[p] = time[q]
        /\ pc[p] \in {"output", "reduce", "done"} /\ pc[q] \in {"output", "reduce", "done"}
              => phase[p] = phase[q] /\ pc[p] = pc[q]
        /\ Adaptive => time[p] <= StopTime

(* The run as a whole is a serial KMC run on the whole lattice.            *)
Serial == INSTANCE LatticeKMC WITH lattice <- Lattice, InitLattices <- InitSpins

SerialKMC == Serial!Spec

(* At temperature zero the energy of the whole lattice never rises, though *)
(* processes flip sites on separate copies of it.                          *)
EnergyNeverRises ==
    [][ZeroTemperature => TotalEnergy(Lattice') <= TotalEnergy(Lattice)]_vars

(* Every process gets to the end of the run: no process waits for ever for *)
(* a message or in a collective.                                           *)
Termination == <>(\A p \in Proc : pc[p] = "done")
=============================================================================
