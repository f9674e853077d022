-------------------------- MODULE SectorKMC_proofs --------------------------
(***************************************************************************)
(* Proofs about SectorKMC, for every lattice, every decomposition in which *)
(* sectors of one number are apart (SectorsApart), every number of         *)
(* processes and of sectors, and every run length.                         *)
(*                                                                         *)
(* The argument.  Number the sectors a process works through 0, 1, 2, ...  *)
(* A process may run events in its t-th sector only when each neighbour    *)
(* that owns ghosts of that sector has sent its t-th message (Causal).     *)
(* When a site j of q is a ghost of p in sector s, some site of p is a     *)
(* ghost of q in j's own sector, because neighbor lists are symmetric; and *)
(* that is another sector than s.  So, for q to change j while p still     *)
(* needs the old value, each of p and q would have to be ahead of the      *)
(* other.                                                                  *)
(*                                                                         *)
(* Events are thus those of a serial run, and a flip that lowers the       *)
(* energy of a site lowers that of the lattice by twice as much.           *)
(***************************************************************************)
EXTENDS SectorKMC, DataLemmas

-----------------------------------------------------------------------------
(* The invariant.                                                          *)

(* The number of sectors for which p has sent, and received, its messages. *)
Sent(p) == IF pc[p] \in {"wait", "events"} THEN phase[p] + 1 ELSE phase[p]
Rcvd(p) == IF pc[p] = "events" THEN phase[p] + 1 ELSE phase[p]

(* What a process has received has been sent.                              *)
Causal ==
    \A p, q \in Proc : \A t \in Nat :
        t < Rcvd(q) /\ Traffic[p][q][Sec(t)] # {} => t < Sent(p)

(* A message is in transit if it has been sent and not received, and then  *)
(* just once.                                                              *)
InTransit ==
    /\ \A m \in msgs : /\ Traffic[m.src][m.dst][Sec(m.stamp)] # {}
                       /\ Rcvd(m.dst) <= m.stamp
                       /\ m.stamp < Sent(m.src)
    /\ \A q, p \in Proc : \A t \in Nat :
          Traffic[q][p][Sec(t)] # {} /\ Rcvd(p) <= t /\ t < Sent(q)
            => \E m \in msgs : m.src = q /\ m.dst = p /\ m.stamp = t
    /\ \A m, n \in msgs : m.src = n.src /\ m.dst = n.dst /\ m.stamp = n.stamp => m = n

(* The values in a message are still those of its sender.                  *)
ContentsCurrent ==
    \A m \in msgs : \A j \in DOMAIN m.v : m.v[j] = val[m.src][j]

(* Propensities agree with the memory of the process that computed them.   *)
LocalPropensities ==
    /\ \A p \in Proc : pc[p] = "events" =>
          \A i \in SectorSites[p][Sec(phase[p])] : prop[i] = SitePropensity(val[p], i)
    /\ \A i \in Site : i \notin BorderSites[Owner[i]][SectorOf[i]]
          => prop[i] = SitePropensity(val[Owner[i]], i)

(* An adaptive run never steps over its end.                               *)
TimeBounded ==
    \A p \in Proc :
        /\ pc[p] = "reduce" => Adaptive
        /\ Adaptive => /\ time[p] <= StopTime
                       /\ pc[p] \in {"comm", "wait", "events"} => time[p] + dt[p] <= StopTime

IInv ==
    /\ TypeOK
    /\ Causal
    /\ InTransit
    /\ ContentsCurrent
    /\ GhostsCurrent
    /\ LocalPropensities
    /\ TimeBounded

-----------------------------------------------------------------------------
(* Lemmas about the application and the decomposition.                     *)

(* A propensity is a natural number.                                       *)
LEMMA PropensityType ==
    ASSUME NEW v, NEW i \in Site
    PROVE  SitePropensity(v, i) \in Nat
<1>1. \A s : SiteEnergy(v, i, s) \in Nat
  <2>1. SUFFICES ASSUME NEW s PROVE SiteEnergy(v, i, s) \in Nat
    OBVIOUS
  <2>2. {j \in Nbr[i] : v[j] # s} \subseteq Site
    BY LatticeAssumption
  <2>3. IsFiniteSet({j \in Nbr[i] : v[j] # s})
    BY <2>2, LatticeAssumption, FS_Subset
  <2>4. QED
    BY <2>3, FS_CardinalityType DEF SiteEnergy
<1>2. QED
  <2> DEFINE a == SiteEnergy(v, i, v[i])
             b == SiteEnergy(v, i, Flipped(v[i]))
  <2>1. a \in Nat /\ b \in Nat
    BY <1>1
  <2> HIDE DEF a, b
  <2>2. (IF b <= a THEN 1 ELSE IF ZeroTemperature THEN 0 ELSE (b - a) + 1) \in Nat
    BY <2>1, TemperatureAssumption
  <2>3. QED
    BY <2>2 DEF SitePropensity, a, b

(* delpropensity = 1: a propensity reads the site and its neighbours only. *)
LEMMA PropensityLocal ==
    ASSUME NEW v, NEW w, NEW i \in Site,
           v[i] = w[i], \A j \in Nbr[i] : v[j] = w[j]
    PROVE  SitePropensity(v, i) = SitePropensity(w, i)
<1>1. \A s : {j \in Nbr[i] : v[j] # s} = {j \in Nbr[i] : w[j] # s}
  OBVIOUS
<1>2. \A s : SiteEnergy(v, i, s) = SiteEnergy(w, i, s)
  BY <1>1 DEF SiteEnergy
<1>3. QED
  BY <1>2 DEF SitePropensity

LEMMA SecType == ASSUME NEW t \in Nat PROVE Sec(t) \in Sectors
BY SectorAssumption DEF Sec, Sectors

LEMMA SectorSitesOf ==
    ASSUME NEW p \in Proc, NEW s \in Sectors
    PROVE  SectorSites[p][s] = {i \in Site : Owner[i] = p /\ SectorOf[i] = s}
BY DEF SectorSites

LEMMA GhostsOf ==
    ASSUME NEW p \in Proc, NEW s \in Sectors
    PROVE  SectorGhosts[p][s] =
             {j \in Site : Owner[j] # p /\ \E i \in SectorSites[p][s] : j \in Nbr[i]}
BY DEF SectorGhosts

LEMMA TrafficOf ==
    ASSUME NEW q \in Proc, NEW p \in Proc, NEW s \in Sectors
    PROVE  Traffic[q][p][s] = {j \in SectorGhosts[p][s] : Owner[j] = q}
BY DEF Traffic

LEMMA BorderOf ==
    ASSUME NEW p \in Proc, NEW s \in Sectors
    PROVE  BorderSites[p][s] =
             {i \in SectorSites[p][s] : ~ (Nbr[i] \subseteq SectorSites[p][s])}
BY DEF BorderSites

(* If j of q is a ghost of p for sector s then, in the sector of j, q has  *)
(* a ghost owned by p; and that sector is not s.                           *)
LEMMA TrafficBack ==
    ASSUME SectorsApart, NEW q \in Proc, NEW p \in Proc, NEW s \in Sectors,
           NEW j \in Traffic[q][p][s]
    PROVE  /\ j \in Site /\ Owner[j] = q /\ q # p
           /\ SectorOf[j] \in Sectors
           /\ SectorOf[j] # s
           /\ Traffic[p][q][SectorOf[j]] # {}
<1>1. j \in SectorGhosts[p][s] /\ Owner[j] = q
  BY TrafficOf
<1>2. j \in Site /\ q # p
  BY <1>1, GhostsOf
<1>3. PICK i \in SectorSites[p][s] : j \in Nbr[i]
  BY <1>1, GhostsOf
<1>4. i \in Site /\ Owner[i] = p /\ SectorOf[i] = s
  BY SectorSitesOf
<1>5. i \in Nbr[j]
  BY <1>2, <1>3, <1>4, LatticeAssumption
<1>6. SectorOf[j] \in Sectors /\ SectorOf[j] # s
  BY <1>1, <1>2, <1>3, <1>4, SectorAssumption DEF SectorsApart, Sectors
<1>7. j \in SectorSites[q][SectorOf[j]]
  BY <1>1, <1>2, <1>6, SectorSitesOf
<1>8. i \in SectorGhosts[q][SectorOf[j]]
  BY <1>2, <1>4, <1>5, <1>6, <1>7, GhostsOf
<1>9. i \in Traffic[p][q][SectorOf[j]]
  BY <1>4, <1>6, <1>8, TrafficOf
<1>10. QED
  BY <1>1, <1>2, <1>6, <1>9

-----------------------------------------------------------------------------
(* Consequences of the invariant.                                          *)

LEMMA PhaseType ==
    ASSUME TypeOK, NEW p \in Proc
    PROVE  /\ phase[p] \in Nat /\ Sec(phase[p]) \in Sectors
           /\ Sent(p) \in {phase[p], phase[p] + 1}
           /\ Rcvd(p) \in {phase[p], phase[p] + 1}
           /\ Rcvd(p) <= Sent(p)
<1>1. phase[p] \in Nat
  BY DEF TypeOK
<1>2. QED
  BY <1>1, SecType DEF Sent, Rcvd

(* The message a process takes from a neighbour that owns ghosts of the    *)
(* sector is the one the neighbour sent for that sector.                   *)
LEMMA OldestForThisSector ==
    ASSUME TypeOK, InTransit, NEW p \in Proc, NEW q \in Proc,
           pc[p] = "wait", Traffic[q][p][Sec(phase[p])] # {}, Pending(q, p) # {}
    PROVE  /\ Oldest(q, p) \in msgs
           /\ Oldest(q, p).src = q
           /\ Oldest(q, p).dst = p
           /\ Oldest(q, p).stamp = phase[p]
           /\ phase[p] < Sent(q)
<1> DEFINE here == Pending(q, p)
           First(m) == m \in here /\ \A n \in here : m.stamp <= n.stamp
<1>1. phase[p] \in Nat /\ Rcvd(p) = phase[p] /\ Sent(q) \in Nat
  BY PhaseType DEF Rcvd
<1>2. \A m \in here : /\ m \in msgs /\ m.src = q /\ m.dst = p /\ m.stamp \in Nat
                      /\ phase[p] <= m.stamp /\ m.stamp < Sent(q)
  BY <1>1 DEF Pending, InTransit, TypeOK
<1>3. phase[p] < Sent(q)
  BY <1>1, <1>2
<1>4. PICK m0 \in msgs : m0.src = q /\ m0.dst = p /\ m0.stamp = phase[p]
  BY <1>1, <1>3 DEF InTransit
<1>5. m0 \in here
  BY <1>4 DEF Pending
<1>6. First(m0)
  BY <1>2, <1>4, <1>5
<1>7. Oldest(q, p) = CHOOSE m \in here : \A n \in here : m.stamp <= n.stamp
  BY DEF Oldest
<1>8. First(Oldest(q, p))
  <2>1. \E m \in here : \A n \in here : m.stamp <= n.stamp
    BY <1>6
  <2> HIDE DEF here
  <2>2. QED
    BY <1>7, <2>1
<1>9. Oldest(q, p).stamp <= phase[p]
  BY <1>4, <1>5, <1>8
<1>10. Oldest(q, p) \in here
  BY <1>8
<1>11. QED
  BY <1>1, <1>2, <1>3, <1>9, <1>10

(* Two processes that run events do so in sectors apart.                   *)
LEMMA RunningApart ==
    ASSUME SectorsApart, TypeOK, Causal, NEW p \in Proc, NEW q \in Proc,
           pc[p] = "events", pc[q] = "events",
           NEW j \in Traffic[q][p][Sec(phase[p])]
    PROVE  SectorOf[j] # Sec(phase[q])
<1>1. SUFFICES ASSUME SectorOf[j] = Sec(phase[q]) PROVE FALSE
  OBVIOUS
<1>2. /\ phase[p] \in Nat /\ Sec(phase[p]) \in Sectors
      /\ phase[q] \in Nat /\ Sec(phase[q]) \in Sectors
  BY PhaseType
<1>3. /\ Rcvd(p) = phase[p] + 1 /\ Sent(p) = phase[p] + 1
      /\ Rcvd(q) = phase[q] + 1 /\ Sent(q) = phase[q] + 1
  BY DEF Rcvd, Sent
<1>4. Sec(phase[q]) # Sec(phase[p]) /\ Traffic[p][q][Sec(phase[q])] # {}
  BY <1>1, <1>2, TrafficBack
<1>5. phase[p] < Sent(q)
  BY <1>2, <1>3 DEF Causal
<1>6. phase[q] < Sent(p)
  BY <1>2, <1>3, <1>4 DEF Causal
<1>7. phase[p] = phase[q]
  BY <1>2, <1>3, <1>5, <1>6
<1>8. QED
  BY <1>4, <1>7

(* A site that is in a message is not in the sector its owner runs.        *)
LEMMA MessageApart ==
    ASSUME SectorsApart, TypeOK, Causal, InTransit, NEW m \in msgs,
           pc[m.src] = "events", NEW j \in DOMAIN m.v
    PROVE  j \in Site /\ Owner[j] = m.src /\ SectorOf[j] # Sec(phase[m.src])
<1> DEFINE q == m.src
           p == m.dst
           t == m.stamp
<1>1. q \in Proc /\ p \in Proc /\ t \in Nat /\ j \in Traffic[q][p][Sec(t)]
  BY DEF TypeOK
<1>2. /\ phase[p] \in Nat /\ phase[q] \in Nat /\ Sec(t) \in Sectors
      /\ Rcvd(p) >= phase[p] /\ Sent(p) <= phase[p] + 1
  BY <1>1, PhaseType, SecType
<1>3. Rcvd(p) <= t /\ t < Sent(q)
  BY DEF InTransit
<1>4. /\ j \in Site /\ Owner[j] = q /\ SectorOf[j] # Sec(t)
      /\ Traffic[p][q][SectorOf[j]] # {}
  BY <1>1, <1>2, TrafficBack
<1>5. ASSUME SectorOf[j] = Sec(phase[q]) PROVE FALSE
  <2>1. Sent(q) = phase[q] + 1 /\ Rcvd(q) = phase[q] + 1
    BY DEF Sent, Rcvd
  <2>2. t # phase[q]
    BY <1>4, <1>5
  <2>3. t < phase[q]
    BY <1>1, <1>2, <1>3, <2>1, <2>2
  <2>4. phase[q] < Sent(p)
    BY <1>1, <1>2, <1>4, <1>5, <2>1 DEF Causal
  <2>5. Sent(p) \in Nat /\ Rcvd(p) \in Nat
    BY <1>1, PhaseType
  <2>6. QED
    BY <1>1, <1>2, <1>3, <2>3, <2>4, <2>5
<1>6. QED
  BY <1>4, <1>5

-----------------------------------------------------------------------------
(* The invariant holds at the start.                                       *)

LEMMA InitInv == Init => IInv
<1> SUFFICES ASSUME Init PROVE IInv
  OBVIOUS
<1>1. PICK spins \in InitSpins : /\ val = [p \in Proc |-> spins]
                                 /\ prop = [i \in Site |-> SitePropensity(spins, i)]
  BY DEF Init
<1>2. PICK d \in DtChoices : dt = [p \in Proc |-> Least(d, StopTime)]
  BY DEF Init
<1>3. spins \in [Site -> Spin]
  BY SectorAssumption
<1>4. /\ pc = [p \in Proc |-> "comm"] /\ phase = [p \in Proc |-> 0]
      /\ msgs = {} /\ time = [p \in Proc |-> 0]
  BY DEF Init
<1>5. \A p \in Proc : Sent(p) = 0 /\ Rcvd(p) = 0
  BY <1>4 DEF Sent, Rcvd
<1>6. TypeOK
  <2>1. val \in [Proc -> [Site -> Spin]]
    BY <1>1, <1>3
  <2>2. prop \in [Site -> Nat]
    BY <1>1, PropensityType
  <2>3. dt \in [Proc -> Nat]
    BY <1>2, TimeAssumption DEF Least
  <2>4. QED
    BY <1>4, <2>1, <2>2, <2>3 DEF TypeOK
<1>7. Causal
  BY <1>5 DEF Causal
<1>8. InTransit
  BY <1>4, <1>5 DEF InTransit
<1>9. ContentsCurrent
  BY <1>4 DEF ContentsCurrent
<1>10. GhostsCurrent
  BY <1>4 DEF GhostsCurrent
<1>11. LocalPropensities
  BY <1>1, <1>4, SectorAssumption DEF LocalPropensities
<1>12. TimeBounded
  BY <1>2, <1>4, TimeAssumption DEF TimeBounded, Least
<1>13. QED
  BY <1>6, <1>7, <1>8, <1>9, <1>10, <1>11, <1>12 DEF IInv

-----------------------------------------------------------------------------
(* One lemma per action: the step preserves the invariant.                 *)

(* A step that moves no message and no count keeps the protocol part.      *)
LEMMA SameCounts ==
    ASSUME Causal, InTransit, TypeOK, msgs' = msgs,
           \A p \in Proc : Sent(p)' = Sent(p) /\ Rcvd(p)' = Rcvd(p)
    PROVE  Causal' /\ InTransit'
<1>1. Causal'
  BY DEF Causal
<1>2. \A m \in msgs' : /\ Traffic[m.src][m.dst][Sec(m.stamp)] # {}
                       /\ Rcvd(m.dst)' <= m.stamp
                       /\ m.stamp < Sent(m.src)'
  <2> SUFFICES ASSUME NEW m \in msgs
               PROVE  /\ Traffic[m.src][m.dst][Sec(m.stamp)] # {}
                      /\ Rcvd(m.dst)' <= m.stamp
                      /\ m.stamp < Sent(m.src)'
    OBVIOUS
  <2>1. m.src \in Proc /\ m.dst \in Proc
    BY DEF TypeOK
  <2>2. Sent(m.src)' = Sent(m.src)
    BY <2>1
  <2>3. Rcvd(m.dst)' = Rcvd(m.dst)
    BY <2>1
  <2>4. QED
    BY <2>2, <2>3 DEF InTransit
<1>3. \A q, p \in Proc : \A t \in Nat :
          Traffic[q][p][Sec(t)] # {} /\ Rcvd(p)' <= t /\ t < Sent(q)'
            => \E m \in msgs' : m.src = q /\ m.dst = p /\ m.stamp = t
  BY DEF InTransit
<1>4. \A m, n \in msgs' : m.src = n.src /\ m.dst = n.dst /\ m.stamp = n.stamp => m = n
  BY DEF InTransit
<1>5. QED
  BY <1>1, <1>2, <1>3, <1>4 DEF InTransit

(* A step between sectors, or in a collective.                             *)
LEMMA BetweenSectors ==
    ASSUME IInv, UNCHANGED <<val, prop, msgs>>,
           \A p \in Proc : /\ Sent(p)' = Sent(p) /\ Rcvd(p)' = Rcvd(p)
                           /\ pc'[p] = "events" => pc[p] = "events" /\ phase'[p] = phase[p]
    PROVE  /\ Causal' /\ InTransit' /\ ContentsCurrent'
           /\ GhostsCurrent' /\ LocalPropensities'
<1>1. Causal' /\ InTransit'
  BY SameCounts DEF IInv
<1>2. ContentsCurrent'
  BY DEF ContentsCurrent, IInv
<1>3. GhostsCurrent'
  BY DEF GhostsCurrent, IInv
<1>4. LocalPropensities'
  BY DEF LocalPropensities, IInv
<1>5. QED
  BY <1>1, <1>2, <1>3, <1>4

LEMMA NextSectorInv ==
    ASSUME IInv, NEW p \in Proc, NextSector(p)
    PROVE  IInv'
<1>1. TypeOK'
  BY DEF NextSector, TypeOK, IInv
<1>2. \A q \in Proc : /\ Sent(q)' = Sent(q) /\ Rcvd(q)' = Rcvd(q)
                      /\ pc'[q] = "events" => pc[q] = "events" /\ phase'[q] = phase[q]
  BY DEF NextSector, TypeOK, IInv, Sent, Rcvd
<1>3. TimeBounded'
  BY DEF NextSector, TypeOK, IInv, TimeBounded
<1>4. UNCHANGED <<val, prop, msgs>>
  BY DEF NextSector
<1>5. QED
  BY <1>1, <1>2, <1>3, <1>4, BetweenSectors DEF IInv

LEMMA EndSweepInv ==
    ASSUME IInv, NEW p \in Proc, EndSweep(p)
    PROVE  IInv'
<1> DEFINE t == time[p] + dt[p]
<1>0. /\ pc[p] = "events" /\ t \in Nat
      /\ phase' = [phase EXCEPT ![p] = @ + 1]
      /\ time' = [time EXCEPT ![p] = t]
      /\ pc' = [pc EXCEPT ![p] = IF t >= StopTime \/ t \in OutputTimes THEN "output"
                                 ELSE IF Adaptive THEN "reduce" ELSE "comm"]
      /\ UNCHANGED <<val, prop, msgs, dt>>
  BY DEF EndSweep, TypeOK, IInv
<1>1. TypeOK'
  BY <1>0 DEF TypeOK, IInv
<1>2. \A q \in Proc : /\ Sent(q)' = Sent(q) /\ Rcvd(q)' = Rcvd(q)
                      /\ pc'[q] = "events" => pc[q] = "events" /\ phase'[q] = phase[q]
  BY <1>0 DEF TypeOK, IInv, Sent, Rcvd
<1>3. TimeBounded'
  BY <1>0 DEF TypeOK, IInv, TimeBounded
<1>4. UNCHANGED <<val, prop, msgs>>
  BY <1>0
<1>5. QED
  BY <1>1, <1>2, <1>3, <1>4, BetweenSectors DEF IInv

LEMMA OutputInv ==
    ASSUME IInv, Output
    PROVE  IInv'
<1>0. \A p \in Proc : pc[p] = "output" /\ pc'[p] \in {"reduce", "comm", "done"}
  BY DEF Output, AfterSweep
<1>1. TypeOK'
  BY DEF Output, AfterSweep, TypeOK, IInv
<1>2. \A q \in Proc : /\ Sent(q)' = Sent(q) /\ Rcvd(q)' = Rcvd(q)
                      /\ pc'[q] = "events" => pc[q] = "events" /\ phase'[q] = phase[q]
  BY <1>0 DEF Output, Sent, Rcvd
<1>3. TimeBounded'
  BY DEF Output, AfterSweep, TypeOK, IInv, TimeBounded
<1>4. UNCHANGED <<val, prop, msgs>>
  BY DEF Output
<1>5. QED
  BY <1>1, <1>2, <1>3, <1>4, BetweenSectors DEF IInv

LEMMA AllreduceInv ==
    ASSUME IInv, Allreduce
    PROVE  IInv'
<1>0. /\ \A p \in Proc : pc[p] = "reduce" /\ pc'[p] \in {"comm", "done"}
      /\ pc' = [p \in Proc |-> AfterSweep(time[p])]
      /\ UNCHANGED <<val, prop, phase, msgs, time>>
  BY DEF Allreduce, AfterSweep
<1>1. PICK d \in DtChoices : dt' = [p \in Proc |-> Least(d, StopTime - time[p])]
  BY DEF Allreduce
<1>2. \A p \in Proc : /\ time[p] \in Nat /\ Adaptive /\ time[p] <= StopTime
                      /\ dt'[p] \in Nat /\ time[p] + dt'[p] <= StopTime
  BY <1>0, <1>1, TimeAssumption DEF TypeOK, IInv, TimeBounded, Least
<1>3. dt' \in [Proc -> Nat]
  BY <1>1, <1>2
<1>4. TypeOK'
  <2>1. pc' \in [Proc -> {"comm", "wait", "events", "output", "reduce", "done"}]
    BY <1>0 DEF AfterSweep
  <2>2. QED
    BY <1>0, <1>3, <2>1 DEF TypeOK, IInv
<1>5. \A q \in Proc : /\ Sent(q)' = Sent(q) /\ Rcvd(q)' = Rcvd(q)
                      /\ pc'[q] = "events" => pc[q] = "events" /\ phase'[q] = phase[q]
  BY <1>0 DEF Sent, Rcvd
<1>6. TimeBounded'
  BY <1>0, <1>2 DEF TimeBounded
<1>7. QED
  BY <1>0, <1>4, <1>5, <1>6, BetweenSectors DEF IInv

LEMMA SendInv ==
    ASSUME SectorsApart, IInv, NEW p \in Proc, Send(p)
    PROVE  IInv'
<1> DEFINE s  == Sec(phase[p])
           To == {r \in Proc : Traffic[p][r][s] # {}}
<1>0. /\ TypeOK /\ Causal /\ InTransit
      /\ pc[p] = "comm" /\ pc' = [pc EXCEPT ![p] = "wait"]
      /\ msgs' = msgs \cup {Message(p, q) : q \in To}
      /\ UNCHANGED <<val, prop, phase, time, dt>>
  BY DEF Send, IInv
<1>1. phase[p] \in Nat /\ s \in Sectors /\ pc[p] \notin {"wait", "events"}
  BY <1>0, PhaseType
<1>2. \A q \in Proc : /\ Message(p, q).src = p
                      /\ Message(p, q).dst = q
                      /\ Message(p, q).stamp = phase[p]
                      /\ Message(p, q).v = [j \in Traffic[p][q][s] |-> val[p][j]]
  BY DEF Message
<1>3. /\ \A q \in Proc : Rcvd(q)' = Rcvd(q)
      /\ \A q \in Proc : q # p => Sent(q)' = Sent(q)
      /\ Sent(p) = phase[p] /\ Sent(p)' = phase[p] + 1
  BY <1>0, <1>1 DEF Rcvd, Sent, TypeOK
<1>4. \A q \in Proc : Sent(q) \in Nat /\ Rcvd(q) \in Nat
  BY <1>0, PhaseType
<1>5. TypeOK'
  <2>1. pc' \in [Proc -> {"comm", "wait", "events", "output", "reduce", "done"}]
    BY <1>0 DEF TypeOK
  <2>2. ASSUME NEW q \in To
        PROVE  [j \in Traffic[p][q][s] |-> val[p][j]] \in [Traffic[p][q][s] -> Spin]
    <3>1. \A j \in Traffic[p][q][s] : j \in Site
      BY <1>1, TrafficBack
    <3>2. QED
      BY <1>0, <3>1 DEF TypeOK
  <2>3. \A m \in msgs' : /\ m.src \in Proc /\ m.dst \in Proc /\ m.stamp \in Nat
                         /\ m.v \in [Traffic[m.src][m.dst][Sec(m.stamp)] -> Spin]
    <3>1. ASSUME NEW m \in msgs
          PROVE  /\ m.src \in Proc /\ m.dst \in Proc /\ m.stamp \in Nat
                 /\ m.v \in [Traffic[m.src][m.dst][Sec(m.stamp)] -> Spin]
      BY <1>0 DEF TypeOK
    <3>2. ASSUME NEW q \in To, NEW m, m = Message(p, q)
          PROVE  /\ m.src \in Proc /\ m.dst \in Proc /\ m.stamp \in Nat
                 /\ m.v \in [Traffic[m.src][m.dst][Sec(m.stamp)] -> Spin]
      BY <1>1, <1>2, <2>2, <3>2
    <3>3. QED
      BY <1>0, <3>1, <3>2
  <2>4. QED
    BY <1>0, <2>1, <2>3 DEF TypeOK
<1>6. Causal'
  BY <1>0, <1>1, <1>3, <1>4 DEF Causal
<1>7. \A q \in To : Rcvd(q) <= phase[p]
  BY <1>0, <1>1, <1>3, <1>4 DEF Causal
<1>8. InTransit'
  <2>1. ASSUME NEW m \in msgs'
        PROVE  /\ Traffic[m.src][m.dst][Sec(m.stamp)] # {}
               /\ Rcvd(m.dst)' <= m.stamp
               /\ m.stamp < Sent(m.src)'
    <3>1. CASE m \in msgs
      <4>1. m.src \in Proc /\ m.dst \in Proc /\ m.stamp \in Nat
        BY <1>0, <3>1 DEF TypeOK
      <4>2. /\ Traffic[m.src][m.dst][Sec(m.stamp)] # {}
            /\ Rcvd(m.dst) <= m.stamp /\ m.stamp < Sent(m.src)
        BY <1>0, <3>1 DEF InTransit
      <4>3. Rcvd(m.dst)' = Rcvd(m.dst)
        BY <1>3, <4>1
      <4>4. m.stamp < Sent(m.src)'
        <5>1. CASE m.src = p
          BY <1>1, <1>3, <4>1, <4>2, <5>1
        <5>2. CASE m.src # p
          BY <1>3, <4>1, <4>2, <5>2
        <5>3. QED
          BY <5>1, <5>2
      <4>5. QED
        BY <4>2, <4>3, <4>4
    <3>2. CASE \E q \in To : m = Message(p, q)
      <4>1. PICK q \in To : m = Message(p, q)
        BY <3>2
      <4>2. m.src = p /\ m.dst = q /\ m.stamp = phase[p] /\ q \in Proc
        BY <1>2, <4>1
      <4>3. Rcvd(q)' <= phase[p] /\ phase[p] < Sent(p)'
        BY <1>1, <1>3, <1>7, <4>2
      <4>4. QED
        BY <4>2, <4>3
    <3>3. QED
      BY <1>0, <3>1, <3>2
  <2>2. ASSUME NEW q \in Proc, NEW r \in Proc, NEW t \in Nat,
               Traffic[q][r][Sec(t)] # {}, Rcvd(r)' <= t, t < Sent(q)'
        PROVE  \E m \in msgs' : m.src = q /\ m.dst = r /\ m.stamp = t
    <3>1. CASE t < Sent(q)
      BY <1>0, <1>3, <2>2, <3>1 DEF InTransit
    <3>2. CASE ~ (t < Sent(q))
      <4>1. q = p /\ t = phase[p]
        BY <1>1, <1>3, <1>4, <2>2, <3>2
      <4>2. r \in To
        BY <2>2, <4>1
      <4>3. Message(p, r) \in msgs'
        BY <1>0, <4>2
      <4>4. QED
        BY <1>2, <4>1, <4>3
    <3>3. QED
      BY <3>1, <3>2
  <2>3. ASSUME NEW m \in msgs', NEW n \in msgs',
               m.src = n.src, m.dst = n.dst, m.stamp = n.stamp
        PROVE  m = n
    <3>1. \A k \in msgs : ~ (k.src = p /\ k.stamp = phase[p])
      BY <1>0, <1>1, <1>3 DEF InTransit
    <3>2. \A k \in msgs' : k \in msgs \/ \E q \in To : k = Message(p, q)
      BY <1>0
    <3>3. \A k \in msgs' : k \in msgs \/ (k.src = p /\ k.stamp = phase[p] /\ k = Message(p, k.dst))
      <4>1. ASSUME NEW k \in msgs', k \notin msgs
            PROVE  k.src = p /\ k.stamp = phase[p] /\ k = Message(p, k.dst)
        <5>1. PICK q \in To : k = Message(p, q)
          BY <3>2, <4>1
        <5>2. k.src = p /\ k.dst = q /\ k.stamp = phase[p]
          BY <1>2, <5>1
        <5>3. QED
          BY <5>1, <5>2
      <4>2. QED
        BY <4>1
    <3>4. CASE m \in msgs
      <4>1. n \in msgs
        BY <2>3, <3>1, <3>3, <3>4
      <4>2. QED
        BY <1>0, <2>3, <3>4, <4>1 DEF InTransit
    <3>5. CASE m \notin msgs
      BY <2>3, <3>1, <3>3, <3>5
    <3>6. QED
      BY <3>4, <3>5
  <2>4. QED
    BY <2>1, <2>2, <2>3 DEF InTransit
<1>9. ContentsCurrent'
  <2>1. SUFFICES ASSUME NEW m \in msgs', NEW j \in DOMAIN m.v
                 PROVE  m.v[j] = val[m.src][j]
    BY <1>0 DEF ContentsCurrent
  <2>2. CASE m \in msgs
    BY <2>2 DEF IInv, ContentsCurrent
  <2>3. ASSUME NEW q \in To, m = Message(p, q)
        PROVE  m.v[j] = val[m.src][j]
    <3>1. m.src = p /\ m.v = [k \in Traffic[p][q][s] |-> val[p][k]]
      BY <1>2, <2>3
    <3>2. QED
      BY <3>1
  <2>4. QED
    BY <1>0, <2>2, <2>3
<1>10. GhostsCurrent'
  BY <1>0 DEF GhostsCurrent, IInv, TypeOK
<1>11. LocalPropensities'
  BY <1>0 DEF LocalPropensities, IInv, TypeOK
<1>12. TimeBounded'
  BY <1>0 DEF TimeBounded, IInv, TypeOK
<1>13. QED
  BY <1>5, <1>6, <1>8, <1>9, <1>10, <1>11, <1>12 DEF IInv

LEMMA ReceiveInv ==
    ASSUME SectorsApart, IInv, NEW p \in Proc, Receive(p)
    PROVE  IInv'
<1> DEFINE s    == Sec(phase[p])
           From == {q \in Proc : Traffic[q][p][s] # {}}
           Got  == Unpacked(p, s)
<1>0. /\ TypeOK /\ Causal /\ InTransit /\ ContentsCurrent
      /\ pc[p] = "wait" /\ pc' = [pc EXCEPT ![p] = "events"]
      /\ \A q \in From : Pending(q, p) # {}
      /\ val' = [val EXCEPT ![p] = Got]
      /\ prop' = [i \in Site |-> IF i \in BorderSites[p][s]
                                 THEN SitePropensity(Got, i) ELSE prop[i]]
      /\ msgs' = msgs \ {Oldest(q, p) : q \in From}
      /\ UNCHANGED <<phase, time, dt>>
  BY DEF Receive, IInv
<1>1. phase[p] \in Nat /\ s \in Sectors
  BY <1>0, PhaseType
<1>2. \A q \in From : /\ Oldest(q, p) \in msgs
                      /\ Oldest(q, p).src = q
                      /\ Oldest(q, p).dst = p
                      /\ Oldest(q, p).stamp = phase[p]
                      /\ phase[p] < Sent(q)
  BY <1>0, OldestForThisSector
<1>3. /\ \A q \in Proc : Sent(q)' = Sent(q)
      /\ \A q \in Proc : q # p => Rcvd(q)' = Rcvd(q)
      /\ Rcvd(p) = phase[p] /\ Rcvd(p)' = phase[p] + 1
  BY <1>0, <1>1 DEF Rcvd, Sent, TypeOK
<1>4. \A q \in Proc : Sent(q) \in Nat /\ Rcvd(q) \in Nat
  BY <1>0, PhaseType
<1>5. \A i \in Site : i \notin SectorGhosts[p][s] => Got[i] = val[p][i]
  BY DEF Unpacked
<1>6. ASSUME NEW i \in SectorGhosts[p][s]
      PROVE  i \in Site /\ Owner[i] # p /\ Got[i] = val[Owner[i]][i]
  <2>1. i \in Site /\ Owner[i] \in Proc /\ Owner[i] # p
    BY <1>1, GhostsOf, SectorAssumption
  <2>2. i \in Traffic[Owner[i]][p][s]
    BY <1>1, <2>1, TrafficOf
  <2>3. Owner[i] \in From
    BY <2>1, <2>2
  <2>4. Oldest(Owner[i], p).v \in [Traffic[Owner[i]][p][s] -> Spin]
    BY <1>0, <1>2, <2>3 DEF TypeOK
  <2>5. i \in DOMAIN Oldest(Owner[i], p).v
    BY <2>2, <2>4
  <2>6. Oldest(Owner[i], p).v[i] = val[Owner[i]][i]
    BY <1>0, <1>2, <2>3, <2>5 DEF ContentsCurrent
  <2>7. QED
    BY <2>1, <2>5, <2>6 DEF Unpacked
<1>7. Got \in [Site -> Spin]
  <2>1. ASSUME NEW i \in Site PROVE Got[i] \in Spin
    <3>1. val[p][i] \in Spin /\ Owner[i] \in Proc /\ val[Owner[i]][i] \in Spin
      BY <1>0, SectorAssumption DEF TypeOK
    <3>2. Got[i] = val[p][i] \/ Got[i] = val[Owner[i]][i]
      BY <1>5, <1>6
    <3>3. QED
      BY <3>1, <3>2
  <2>2. Got = [i \in Site |-> Got[i]]
    BY DEF Unpacked
  <2>3. QED
    BY <2>1, <2>2
<1>8. /\ val'[p] = Got
      /\ \A q \in Proc : q # p => val'[q] = val[q]
      /\ \A i \in Site : val'[Owner[i]][i] = val[Owner[i]][i]
  BY <1>0, <1>5, <1>6, SectorAssumption DEF TypeOK
<1>9. \A i \in BorderSites[p][s] : i \in Site /\ Owner[i] = p /\ SectorOf[i] = s
  BY <1>1, BorderOf, SectorSitesOf
<1>10. TypeOK'
  <2>1. val' \in [Proc -> [Site -> Spin]]
    BY <1>0, <1>7 DEF TypeOK
  <2>2. prop' \in [Site -> Nat]
    <3>1. \A i \in Site : SitePropensity(Got, i) \in Nat /\ prop[i] \in Nat
      BY <1>0, PropensityType DEF TypeOK
    <3> HIDE DEF Got
    <3>2. QED
      BY <1>0, <3>1
  <2>3. pc' \in [Proc -> {"comm", "wait", "events", "output", "reduce", "done"}]
    BY <1>0 DEF TypeOK
  <2>4. QED
    BY <1>0, <2>1, <2>2, <2>3 DEF TypeOK
<1>11. Causal'
  <2>1. SUFFICES ASSUME NEW r \in Proc, NEW q \in Proc, NEW t \in Nat,
                        t < Rcvd(q)', Traffic[r][q][Sec(t)] # {}
                 PROVE  t < Sent(r)'
    BY DEF Causal
  <2>2. CASE t < Rcvd(q)
    BY <1>0, <1>3, <2>1, <2>2 DEF Causal
  <2>3. CASE ~ (t < Rcvd(q))
    <3>1. q = p /\ t = phase[p]
      BY <1>1, <1>3, <1>4, <2>1, <2>3
    <3>2. r \in From
      BY <2>1, <3>1
    <3>3. QED
      BY <1>2, <1>3, <3>1, <3>2
  <2>4. QED
    BY <2>2, <2>3
<1>12. InTransit'
  <2>1. ASSUME NEW m \in msgs'
        PROVE  /\ Traffic[m.src][m.dst][Sec(m.stamp)] # {}
               /\ Rcvd(m.dst)' <= m.stamp
               /\ m.stamp < Sent(m.src)'
    <3>1. m \in msgs /\ m.src \in Proc /\ m.dst \in Proc /\ m.stamp \in Nat
      BY <1>0 DEF TypeOK
    <3>2. /\ Traffic[m.src][m.dst][Sec(m.stamp)] # {}
          /\ Rcvd(m.dst) <= m.stamp /\ m.stamp < Sent(m.src)
      BY <1>0, <3>1 DEF InTransit
    <3>3. CASE m.dst # p
      BY <1>3, <3>1, <3>2, <3>3
    <3>4. CASE m.dst = p
      <4>1. ASSUME m.stamp = phase[p] PROVE FALSE
        <5>1. m.src \in From
          BY <3>1, <3>2, <3>4, <4>1
        <5>2. m = Oldest(m.src, p)
          BY <1>0, <1>2, <3>1, <3>4, <4>1, <5>1 DEF InTransit
        <5>3. QED
          BY <1>0, <5>1, <5>2
      <4>2. phase[p] + 1 <= m.stamp
        BY <1>1, <1>3, <3>1, <3>2, <3>4, <4>1
      <4>3. QED
        BY <1>3, <3>1, <3>2, <3>4, <4>2
    <3>5. QED
      BY <3>3, <3>4
  <2>2. ASSUME NEW q \in Proc, NEW r \in Proc, NEW t \in Nat,
               Traffic[q][r][Sec(t)] # {}, Rcvd(r)' <= t, t < Sent(q)'
        PROVE  \E m \in msgs' : m.src = q /\ m.dst = r /\ m.stamp = t
    <3>1. Rcvd(r) <= t /\ t < Sent(q) /\ ~ (r = p /\ t = phase[p])
      BY <1>1, <1>3, <1>4, <2>2
    <3>2. PICK m \in msgs : m.src = q /\ m.dst = r /\ m.stamp = t
      BY <1>0, <2>2, <3>1 DEF InTransit
    <3>3. \A k \in From : m # Oldest(k, p)
      BY <1>2, <3>1, <3>2
    <3>4. QED
      BY <1>0, <3>2, <3>3
  <2>3. \A m, n \in msgs' : m.src = n.src /\ m.dst = n.dst /\ m.stamp = n.stamp => m = n
    BY <1>0 DEF InTransit
  <2>4. QED
    BY <2>1, <2>2, <2>3 DEF InTransit
<1>13. ContentsCurrent'
  <2>1. SUFFICES ASSUME NEW m \in msgs, NEW j \in DOMAIN m.v
                 PROVE  m.v[j] = val'[m.src][j]
    BY <1>0 DEF ContentsCurrent
  <2>2. /\ m.src \in Proc /\ m.dst \in Proc /\ Sec(m.stamp) \in Sectors
        /\ j \in Traffic[m.src][m.dst][Sec(m.stamp)]
    BY <1>0, SecType DEF TypeOK
  <2>3. j \in Site /\ Owner[j] = m.src
    BY <2>2, TrafficBack
  <2>4. QED
    BY <1>0, <1>8, <2>3 DEF ContentsCurrent
<1>14. GhostsCurrent'
  <2>1. SUFFICES ASSUME NEW q \in Proc, pc'[q] = "events",
                        NEW j \in SectorGhosts[q][Sec(phase[q])]
                 PROVE  val'[q][j] = val'[Owner[j]][j]
    BY <1>0 DEF GhostsCurrent
  <2>2. CASE q = p
    BY <1>6, <1>8, <2>2
  <2>3. CASE q # p
    <3>1. pc[q] = "events" /\ Sec(phase[q]) \in Sectors
      BY <1>0, <2>1, <2>3, PhaseType DEF TypeOK
    <3>2. j \in Site
      BY <3>1, GhostsOf
    <3>3. QED
      BY <1>8, <2>3, <3>1, <3>2 DEF IInv, GhostsCurrent
  <2>4. QED
    BY <2>2, <2>3
<1>15. LocalPropensities'
  <2>1. ASSUME NEW i \in Site, i \notin BorderSites[Owner[i]][SectorOf[i]]
        PROVE  /\ prop'[i] = prop[i]
               /\ prop'[i] = SitePropensity(val'[Owner[i]], i)
    <3>1. Owner[i] \in Proc /\ SectorOf[i] \in Sectors
      BY SectorAssumption DEF Sectors
    <3>2. \A j \in Nbr[i] : j \in Site /\ Owner[j] = Owner[i]
      BY <2>1, <3>1, SectorSitesOf, BorderOf
    <3>3. SitePropensity(val'[Owner[i]], i) = SitePropensity(val[Owner[i]], i)
      BY <1>8, <3>2, PropensityLocal
    <3>4. prop'[i] = prop[i]
      BY <1>0, <1>9, <2>1
    <3>5. QED
      BY <2>1, <3>3, <3>4 DEF IInv, LocalPropensities
  <2>2. ASSUME NEW q \in Proc, pc'[q] = "events", NEW i \in SectorSites[q][Sec(phase[q])]
        PROVE  prop'[i] = SitePropensity(val'[q], i)
    <3>1. Sec(phase[q]) \in Sectors
      BY <1>0, PhaseType
    <3>2. i \in Site /\ Owner[i] = q /\ SectorOf[i] = Sec(phase[q])
      BY <3>1, SectorSitesOf
    <3>3. CASE i \in BorderSites[p][s]
      BY <1>0, <1>8, <1>9, <3>2, <3>3
    <3>4. CASE i \notin BorderSites[p][s] /\ q = p
      BY <2>1, <3>2, <3>4
    <3>5. CASE q # p
      <4>1. prop'[i] = prop[i] /\ pc[q] = "events"
        BY <1>0, <1>9, <2>2, <3>2, <3>5 DEF TypeOK
      <4>2. QED
        BY <1>8, <3>5, <4>1 DEF IInv, LocalPropensities
    <3>6. QED
      BY <3>3, <3>4, <3>5
  <2>3. QED
    BY <1>0, <2>1, <2>2 DEF LocalPropensities
<1>16. TimeBounded'
  BY <1>0 DEF TimeBounded, IInv, TypeOK
<1>17. QED
  BY <1>10, <1>11, <1>12, <1>13, <1>14, <1>15, <1>16 DEF IInv

LEMMA EventInv ==
    ASSUME SectorsApart, IInv, NEW p \in Proc, NEW i \in Site, Event(p, i)
    PROVE  IInv'
<1> DEFINE s       == Sec(phase[p])
           flipped == SiteEvent(val[p], i)
<1>0. /\ TypeOK /\ Causal /\ InTransit /\ ContentsCurrent /\ GhostsCurrent
      /\ pc[p] = "events" /\ i \in SectorSites[p][s]
      /\ val' = [val EXCEPT ![p] = flipped]
      /\ prop' = [k \in Site |-> IF k \in Touched(p, i)
                                 THEN SitePropensity(flipped, k) ELSE prop[k]]
      /\ UNCHANGED <<pc, phase, msgs, time, dt>>
  BY DEF Event, IInv
<1>1. phase[p] \in Nat /\ s \in Sectors
  BY <1>0, PhaseType
<1>2. Owner[i] = p /\ SectorOf[i] = s
  BY <1>0, <1>1, SectorSitesOf
<1>3. /\ flipped \in [Site -> Spin]
      /\ \A k \in Site : k # i => flipped[k] = val[p][k]
  BY <1>0 DEF SiteEvent, Flipped, Spin, TypeOK
<1>4. /\ val'[p] = flipped
      /\ \A q \in Proc : q # p => val'[q] = val[q]
      /\ \A k \in Site : k # i => val'[Owner[k]][k] = val[Owner[k]][k]
  BY <1>0, <1>3, SectorAssumption DEF TypeOK
<1>5. \A q \in Proc : Sent(q)' = Sent(q) /\ Rcvd(q)' = Rcvd(q)
  BY <1>0 DEF Sent, Rcvd
<1>6. Causal' /\ InTransit'
  BY <1>0, <1>5, SameCounts
<1>7. TypeOK'
  <2>1. val' \in [Proc -> [Site -> Spin]]
    BY <1>0, <1>3 DEF TypeOK
  <2>2. prop' \in [Site -> Nat]
    <3>1. \A k \in Site : SitePropensity(flipped, k) \in Nat /\ prop[k] \in Nat
      BY <1>0, PropensityType DEF TypeOK
    <3> HIDE DEF flipped
    <3>2. QED
      BY <1>0, <3>1
  <2>3. QED
    BY <1>0, <2>1, <2>2 DEF TypeOK
<1>8. ContentsCurrent'
  <2>1. SUFFICES ASSUME NEW m \in msgs, NEW j \in DOMAIN m.v
                 PROVE  val'[m.src][j] = val[m.src][j]
    BY <1>0 DEF ContentsCurrent
  <2>2. m.src \in Proc
    BY <1>0 DEF TypeOK
  <2>3. CASE m.src = p
    BY <1>0, <1>2, <1>3, <1>4, <2>3, MessageApart
  <2>4. CASE m.src # p
    BY <1>4, <2>2, <2>4
  <2>5. QED
    BY <2>3, <2>4
<1>9. GhostsCurrent'
  <2>1. SUFFICES ASSUME NEW q \in Proc, pc[q] = "events",
                        NEW j \in SectorGhosts[q][Sec(phase[q])]
                 PROVE  val'[q][j] = val'[Owner[j]][j]
    BY <1>0 DEF GhostsCurrent
  <2>2. Sec(phase[q]) \in Sectors
    BY <1>0, PhaseType
  <2>3. j \in Site /\ Owner[j] \in Proc /\ Owner[j] # q
    BY <2>2, GhostsOf, SectorAssumption
  <2>4. val[q][j] = val[Owner[j]][j]
    BY <1>0, <2>1 DEF GhostsCurrent
  <2>5. j # i
    <3>1. j \in Traffic[Owner[j]][q][Sec(phase[q])]
      BY <2>2, <2>3, TrafficOf
    <3>2. CASE Owner[j] = p
      BY <1>0, <1>2, <2>1, <3>1, <3>2, RunningApart
    <3>3. QED
      BY <1>2, <3>2
  <2>6. val'[q][j] = val[q][j]
    BY <1>3, <1>4, <2>3, <2>5
  <2>7. QED
    BY <1>4, <2>3, <2>4, <2>5, <2>6
<1>10. LocalPropensities'
  <2>1. Touched(p, i) = {i} \cup (Nbr[i] \cap SectorSites[p][s])
    BY DEF Touched
  <2>2. \A k \in Touched(p, i) : k \in Site /\ Owner[k] = p /\ SectorOf[k] = s
    BY <1>1, <1>2, <2>1, SectorSitesOf
  <2>3. ASSUME NEW k \in Site, Owner[k] = p, k \notin Touched(p, i), i \notin Nbr[k],
               prop[k] = SitePropensity(val[p], k)
        PROVE  prop'[k] = SitePropensity(flipped, k)
    <3>1. k # i
      BY <2>1, <2>3
    <3>2. \A j \in Nbr[k] : j \in Site /\ j # i
      BY <2>3, LatticeAssumption
    <3>3. SitePropensity(flipped, k) = SitePropensity(val[p], k)
      BY <1>3, <3>1, <3>2, PropensityLocal
    <3>4. prop'[k] = prop[k]
      BY <1>0, <2>3
    <3>5. QED
      BY <2>3, <3>3, <3>4
  <2>4. ASSUME NEW q \in Proc, pc[q] = "events", NEW k \in SectorSites[q][Sec(phase[q])]
        PROVE  prop'[k] = SitePropensity(val'[q], k)
    <3>1. /\ Sec(phase[q]) \in Sectors /\ k \in Site
          /\ Owner[k] = q /\ SectorOf[k] = Sec(phase[q])
      BY <1>0, PhaseType, SectorSitesOf
    <3>2. prop[k] = SitePropensity(val[q], k)
      BY <2>4 DEF IInv, LocalPropensities
    <3>3. CASE k \in Touched(p, i)
      BY <1>0, <1>4, <2>2, <3>1, <3>3
    <3>4. CASE k \notin Touched(p, i) /\ q = p
      <4>1. i \notin Nbr[k]
        <5>1. k \in SectorSites[p][s]
          BY <2>4, <3>4
        <5>2. k \notin Nbr[i]
          BY <2>1, <3>4, <5>1
        <5>3. QED
          BY <3>1, <5>2, LatticeAssumption
      <4>2. QED
        BY <1>4, <2>3, <3>1, <3>2, <3>4, <4>1
    <3>5. CASE q # p
      <4>1. prop'[k] = prop[k]
        BY <1>0, <2>2, <3>1, <3>5
      <4>2. QED
        BY <1>4, <3>2, <3>5, <4>1
    <3>6. QED
      BY <3>3, <3>4, <3>5
  <2>5. ASSUME NEW k \in Site, k \notin BorderSites[Owner[k]][SectorOf[k]]
        PROVE  prop'[k] = SitePropensity(val'[Owner[k]], k)
    <3>1. Owner[k] \in Proc /\ SectorOf[k] \in Sectors
      BY SectorAssumption DEF Sectors
    <3>2. prop[k] = SitePropensity(val[Owner[k]], k)
      BY <2>5 DEF IInv, LocalPropensities
    <3>3. CASE k \in Touched(p, i)
      BY <1>0, <1>4, <2>2, <3>3
    <3>4. CASE k \notin Touched(p, i) /\ Owner[k] = p
      <4>1. k \in SectorSites[p][SectorOf[k]]
        BY <3>1, <3>4, SectorSitesOf
      <4>2. Nbr[k] \subseteq SectorSites[p][SectorOf[k]]
        BY <2>5, <3>1, <3>4, <4>1, BorderOf
      <4>3. i \notin Nbr[k]
        <5>1. ASSUME i \in Nbr[k] PROVE FALSE
          <6>1. SectorOf[k] = s
            BY <1>2, <3>1, <3>4, <4>2, <5>1, SectorSitesOf
          <6>2. k \in Nbr[i]
            BY <5>1, LatticeAssumption
          <6>3. QED
            BY <2>1, <3>4, <4>1, <6>1, <6>2
        <5>2. QED
          BY <5>1
      <4>4. QED
        BY <1>4, <2>3, <3>2, <3>4, <4>3
    <3>5. CASE Owner[k] # p
      <4>1. prop'[k] = prop[k]
        BY <1>0, <2>2, <3>5
      <4>2. QED
        BY <1>4, <3>1, <3>2, <3>5, <4>1
    <3>6. QED
      BY <3>3, <3>4, <3>5
  <2>6. QED
    BY <1>0, <2>4, <2>5 DEF LocalPropensities
<1>11. TimeBounded'
  BY <1>0 DEF TimeBounded, IInv, TypeOK
<1>12. QED
  BY <1>6, <1>7, <1>8, <1>9, <1>10, <1>11 DEF IInv

-----------------------------------------------------------------------------
(* The theorems.                                                           *)

(* Every step preserves the invariant.                                     *)
LEMMA NextInv == ASSUME SectorsApart PROVE IInv /\ [Next]_vars => IInv'
<1> SUFFICES ASSUME IInv, [Next]_vars PROVE IInv'
  OBVIOUS
<1>1. ASSUME NEW p \in Proc, Step(p) PROVE IInv'
  BY <1>1, SendInv, ReceiveInv, EventInv, NextSectorInv, EndSweepInv DEF Step
<1>2. CASE Output
  BY <1>2, OutputInv
<1>3. CASE Allreduce
  BY <1>3, AllreduceInv
<1>4. CASE UNCHANGED vars
  <2>1. \A q \in Proc : /\ Sent(q)' = Sent(q) /\ Rcvd(q)' = Rcvd(q)
                        /\ pc'[q] = "events" => pc[q] = "events" /\ phase'[q] = phase[q]
    BY <1>4 DEF vars, Sent, Rcvd
  <2>2. TypeOK' /\ TimeBounded'
    BY <1>4 DEF vars, TypeOK, TimeBounded, IInv
  <2>3. UNCHANGED <<val, prop, msgs>>
    BY <1>4 DEF vars
  <2>4. QED
    BY <2>1, <2>2, <2>3, BetweenSectors DEF IInv
<1>5. QED
  BY <1>1, <1>2, <1>3, <1>4 DEF Next, Finished

(* The inductive invariant holds throughout.                               *)
THEOREM Invariance == ASSUME SectorsApart PROVE Spec => []IInv
<1>1. Init => IInv
  BY InitInv
<1>2. IInv /\ [Next]_vars => IInv'
  BY NextInv
<1>3. QED
  BY <1>1, <1>2, PTL DEF Spec

(* Type correctness.                                                       *)
THEOREM TypeCorrect == ASSUME SectorsApart PROVE Spec => []TypeOK
<1>1. IInv => TypeOK
  BY DEF IInv
<1>2. QED
  BY <1>1, Invariance, PTL

(* The ghosts of a sector stay those of their owners while events run in   *)
(* it (AppLattice::iterate_kmc_sector between comm->sector() and the end   *)
(* of the event loop).                                                     *)
THEOREM GhostsStayCurrent == ASSUME SectorsApart PROVE Spec => []GhostsCurrent
<1>1. IInv => GhostsCurrent
  BY DEF IInv
<1>2. QED
  BY <1>1, Invariance, PTL

(* No two processes run events in sectors that touch (doc/sector.txt).     *)
THEOREM EventsDoNotConflict == ASSUME SectorsApart PROVE Spec => []ConcurrentSectorsApart
<1>1. IInv => ConcurrentSectorsApart
  <2>1. SUFFICES ASSUME IInv, NEW p \in Proc, NEW q \in Proc, p # q,
                        pc[p] = "events", pc[q] = "events",
                        NEW i \in SectorSites[p][Sec(phase[p])], NEW j \in Nbr[i],
                        j \in SectorSites[q][Sec(phase[q])]
                 PROVE  FALSE
    BY DEF ConcurrentSectorsApart
  <2>2. TypeOK /\ Causal /\ Sec(phase[p]) \in Sectors /\ Sec(phase[q]) \in Sectors
    BY <2>1, PhaseType DEF IInv
  <2>3. j \in Site /\ Owner[j] = q /\ SectorOf[j] = Sec(phase[q])
    BY <2>1, <2>2, SectorSitesOf
  <2>4. j \in SectorGhosts[p][Sec(phase[p])]
    BY <2>1, <2>2, <2>3, GhostsOf
  <2>5. j \in Traffic[q][p][Sec(phase[p])]
    BY <2>2, <2>3, <2>4, TrafficOf
  <2>6. QED
    BY <2>1, <2>2, <2>3, <2>5, RunningApart
<1>2. QED
  BY <1>1, Invariance, PTL

(* What event() draws from are the propensities of the whole lattice.      *)
LEMMA TruePropensities ==
    ASSUME IInv, NEW p \in Proc, pc[p] = "events",
           NEW i \in SectorSites[p][Sec(phase[p])]
    PROVE  i \in Site /\ Owner[i] = p /\ prop[i] = SitePropensity(Lattice, i)
<1>1. Sec(phase[p]) \in Sectors
  BY PhaseType DEF IInv
<1>2. i \in Site /\ Owner[i] = p
  BY <1>1, SectorSitesOf
<1>3. prop[i] = SitePropensity(val[p], i)
  BY DEF IInv, LocalPropensities
<1>4. ASSUME NEW j \in Nbr[i] PROVE val[p][j] = Lattice[j]
  <2>1. j \in Site
    BY <1>2, <1>4, LatticeAssumption
  <2>2. CASE Owner[j] = p
    BY <2>1, <2>2 DEF Lattice
  <2>3. CASE Owner[j] # p
    <3>1. j \in SectorGhosts[p][Sec(phase[p])]
      BY <1>1, <1>4, <2>1, <2>3, GhostsOf
    <3>2. QED
      BY <2>1, <3>1 DEF IInv, GhostsCurrent, Lattice
  <2>4. QED
    BY <2>2, <2>3
<1>5. val[p][i] = Lattice[i]
  BY <1>2 DEF Lattice
<1>6. SitePropensity(val[p], i) = SitePropensity(Lattice, i)
  BY <1>2, <1>4, <1>5, PropensityLocal
<1>7. QED
  BY <1>2, <1>3, <1>6

(* The partial updates of propensities lose none of the changes made by    *)
(* other processes and in other sectors.                                   *)
THEOREM PropensitiesStayTrue == ASSUME SectorsApart PROVE Spec => []PropensitiesTrue
<1>1. IInv => PropensitiesTrue
  BY TruePropensities DEF PropensitiesTrue
<1>2. QED
  BY <1>1, Invariance, PTL

(* Propensities away from the borders are true in every state, although    *)
(* nothing refreshes them but events beside them.                          *)
THEOREM InteriorStaysTrue == ASSUME SectorsApart PROVE Spec => []InteriorPropensitiesTrue
<1>1. IInv => InteriorPropensitiesTrue
  <2>1. SUFFICES ASSUME IInv, NEW i \in Site, i \notin BorderSites[Owner[i]][SectorOf[i]]
                 PROVE  prop[i] = SitePropensity(Lattice, i)
    BY DEF InteriorPropensitiesTrue
  <2>2. Owner[i] \in Proc /\ SectorOf[i] \in Sectors
    BY SectorAssumption DEF Sectors
  <2>3. i \in SectorSites[Owner[i]][SectorOf[i]]
    BY <2>2, SectorSitesOf
  <2>4. \A j \in Nbr[i] : j \in Site /\ Owner[j] = Owner[i]
    BY <2>1, <2>2, <2>3, BorderOf, SectorSitesOf
  <2>5. \A j \in Nbr[i] : val[Owner[i]][j] = Lattice[j]
    BY <2>4 DEF Lattice
  <2>6. SitePropensity(val[Owner[i]], i) = SitePropensity(Lattice, i)
    BY <2>5, PropensityLocal DEF Lattice
  <2>7. QED
    BY <2>1, <2>6 DEF IInv, LocalPropensities
<1>2. QED
  BY <1>1, Invariance, PTL

-----------------------------------------------------------------------------
(* Messages and skew.                                                      *)

(* The oldest message of a channel that is not empty is one of its own.    *)
LEMMA OldestIsPending ==
    ASSUME TypeOK, NEW p \in Proc, NEW q \in Proc, Pending(q, p) # {}
    PROVE  Oldest(q, p) \in Pending(q, p)
<1> DEFINE here == Pending(q, p)
           stamps == {m.stamp : m \in here}
<1>1. \A m \in here : m.stamp \in Nat
  BY DEF Pending, TypeOK
<1>2. stamps \in SUBSET Nat /\ stamps # {}
  BY <1>1
<1>3. PICK x \in stamps : \A y \in stamps : x <= y
  <2> HIDE DEF stamps
  <2> QED BY <1>2, LeastElement
<1>4. \E m \in here : \A n \in here : m.stamp <= n.stamp
  BY <1>3
<1>5. QED
  <2> HIDE DEF here
  <2>1. Oldest(q, p) = CHOOSE m \in here : \A n \in here : m.stamp <= n.stamp
    BY DEF Oldest, here
  <2>2. (CHOOSE m \in here : \A n \in here : m.stamp <= n.stamp) \in here
    BY <1>4
  <2>3. QED
    BY <2>1, <2>2 DEF here

(* With one tag for all messages, a receive still takes the message that   *)
(* was sent for its sector (CommLattice::perform_swap_site).               *)
THEOREM MessagesMatchSectors ==
    ASSUME SectorsApart PROVE Spec => []NextMessageIsForThisSector
<1>1. IInv => NextMessageIsForThisSector
  <2>1. SUFFICES ASSUME IInv, NEW p \in Proc, NEW q \in Proc,
                        pc[p] = "wait", Pending(q, p) # {}
                 PROVE  \/ Oldest(q, p).stamp = phase[p]
                        \/ /\ Oldest(q, p).stamp > phase[p]
                           /\ Traffic[q][p][Sec(phase[p])] = {}
    BY DEF NextMessageIsForThisSector
  <2>2. TypeOK /\ InTransit
    BY <2>1 DEF IInv
  <2>3. CASE Traffic[q][p][Sec(phase[p])] # {}
    BY <2>1, <2>2, <2>3, OldestForThisSector
  <2>4. CASE Traffic[q][p][Sec(phase[p])] = {}
    <3>1. Oldest(q, p) \in msgs /\ Oldest(q, p).dst = p /\ Oldest(q, p).stamp \in Nat
      BY <2>1, <2>2, OldestIsPending DEF Pending, TypeOK
    <3>2. Rcvd(p) = phase[p] /\ phase[p] \in Nat
      BY <2>1, <2>2, PhaseType DEF Rcvd
    <3>3. phase[p] <= Oldest(q, p).stamp
      BY <2>2, <3>1, <3>2 DEF InTransit
    <3>4. QED
      BY <2>4, <3>1, <3>2, <3>3
  <2>5. QED
    BY <2>3, <2>4
<1>2. QED
  BY <1>1, Invariance, PTL

(* Two different phases in the same sector are at least one round apart.   *)
LEMMA SameSector ==
    ASSUME NEW t \in Nat, NEW u \in Nat, t < u, Sec(t) = Sec(u)
    PROVE  t + NSector <= u
<1> DEFINE a == t \div NSector
           b == u \div NSector
<1>1. /\ t = NSector * a + (t % NSector)
      /\ u = NSector * b + (u % NSector)
      /\ a \in Int /\ b \in Int /\ t % NSector \in Int /\ u % NSector \in Int
  BY SectorAssumption
<1> HIDE DEF a, b
<1>2. t % NSector = u % NSector
  BY DEF Sec
<1>3. NSector * a < NSector * b
  BY <1>1, <1>2, SectorAssumption
<1>4. a + 1 <= b
  BY <1>1, <1>3, SectorAssumption
<1>5. NSector * (a + 1) <= NSector * b
  BY <1>1, <1>4, SectorAssumption
<1>6. NSector * a + NSector <= NSector * b
  BY <1>1, <1>5, SectorAssumption
<1>7. QED
  BY <1>1, <1>2, <1>6, SectorAssumption

(* Every sector comes up once in a round.                                  *)
LEMMA SectorInRound ==
    ASSUME NEW a \in Nat, NEW s \in Sectors
    PROVE  \E t \in a .. a + NSector - 1 : Sec(t) = s
<1> DEFINE q == a \div NSector
           r == a % NSector
<1>1. a = NSector * q + r /\ q \in Nat /\ r \in 0 .. NSector - 1
  BY SectorAssumption
<1> HIDE DEF q, r
<1>2. \A n \in Nat : (NSector * n + s) % NSector = s
  BY SectorAssumption DEF Sectors
<1>3. NSector * q \in Nat /\ NSector * (q + 1) \in Nat /\ NSector * (q + 1) = NSector * q + NSector
  BY <1>1, SectorAssumption
<1>4. CASE s >= r
  <2>1. NSector * q + s \in a .. a + NSector - 1
    BY <1>1, <1>3, <1>4, SectorAssumption DEF Sectors
  <2>2. QED
    BY <1>1, <1>2, <2>1 DEF Sec
<1>5. CASE s < r
  <2>1. NSector * (q + 1) + s \in a .. a + NSector - 1
    BY <1>1, <1>3, <1>5, SectorAssumption DEF Sectors
  <2>2. QED
    BY <1>1, <1>2, <2>1 DEF Sec
<1>6. QED
  BY <1>1, <1>4, <1>5, SectorAssumption DEF Sectors

(* If p has ghosts of q then q has ghosts of p, and hears from it every    *)
(* round: what q has received of one sector shows how far p is.            *)
LEMMA HeardFrom ==
    ASSUME SectorsApart, TypeOK, Causal, NEW p \in Proc, NEW q \in Proc,
           NEW s \in Sectors, Traffic[q][p][s] # {},
           NEW a \in Nat, a + NSector <= Rcvd(q)
    PROVE  \E t \in a .. a + NSector - 1 : Sec(t) # s /\ t < Sent(p)
<1>1. PICK j : j \in Traffic[q][p][s]
  OBVIOUS
<1>2. SectorOf[j] \in Sectors /\ SectorOf[j] # s /\ Traffic[p][q][SectorOf[j]] # {}
  BY <1>1, TrafficBack
<1>3. PICK t \in a .. a + NSector - 1 : Sec(t) = SectorOf[j]
  BY <1>2, SectorInRound
<1>4. Rcvd(q) \in Nat
  BY PhaseType
<1>5. t \in Nat /\ t < Rcvd(q)
  BY <1>3, <1>4, SectorAssumption
<1>6. t < Sent(p)
  BY <1>2, <1>3, <1>5 DEF Causal
<1>7. QED
  BY <1>2, <1>3, <1>6

(* Messages on a channel are for different sectors.                        *)
LEMMA PendingForDifferentSectors ==
    ASSUME SectorsApart, TypeOK, Causal, InTransit, NEW p \in Proc, NEW q \in Proc,
           NEW m \in Pending(q, p), NEW n \in Pending(q, p), m.stamp < n.stamp
    PROVE  Sec(m.stamp) # Sec(n.stamp)
<1>1. SUFFICES ASSUME Sec(m.stamp) = Sec(n.stamp) PROVE FALSE
  OBVIOUS
<1> DEFINE t == m.stamp
           u == n.stamp
<1>2. /\ t \in Nat /\ u \in Nat /\ t < u /\ Sec(t) = Sec(u) /\ Sec(t) \in Sectors
      /\ Rcvd(p) <= t /\ u < Sent(q) /\ Traffic[q][p][Sec(t)] # {}
  BY <1>1, SecType DEF Pending, TypeOK, InTransit
<1> HIDE DEF t, u
<1>3. t + NSector <= u
  BY <1>2, SameSector
<1>4. /\ Rcvd(p) \in Nat /\ Sent(p) \in Nat /\ Rcvd(q) \in Nat /\ Sent(q) \in Nat
      /\ Sent(p) <= Rcvd(p) + 1 /\ Sent(q) <= Rcvd(q) + 1
  BY PhaseType DEF Sent, Rcvd
<1>5. t + NSector <= Rcvd(q)
  BY <1>2, <1>3, <1>4, SectorAssumption
<1>6. PICK v \in t .. t + NSector - 1 : Sec(v) # Sec(t) /\ v < Sent(p)
  BY <1>2, <1>5, HeardFrom
<1>7. v = t
  BY <1>2, <1>4, <1>6, SectorAssumption
<1>8. QED
  BY <1>6, <1>7

(* A process is never more than a round of sectors ahead of a neighbor,    *)
(* and no more messages than that pile up on a channel.                    *)
THEOREM SkewStaysBounded == ASSUME SectorsApart PROVE Spec => []SkewBounded
<1>1. IInv => SkewBounded
  <2> SUFFICES ASSUME IInv PROVE SkewBounded
    OBVIOUS
  <2>1. TypeOK /\ Causal /\ InTransit
    BY DEF IInv
  <2>2. ASSUME NEW p \in Proc, NEW q \in Proc, NEW s \in Sectors, Traffic[p][q][s] # {}
        PROVE  phase[p] <= phase[q] + NSector
    <3>1. /\ phase[p] \in Nat /\ phase[q] \in Nat
          /\ phase[p] <= Rcvd(p) /\ Sent(q) <= phase[q] + 1 /\ Rcvd(p) \in Nat /\ Sent(q) \in Nat
      BY <2>1, PhaseType
    <3>2. SUFFICES ASSUME phase[q] + NSector < phase[p] PROVE FALSE
      BY <3>1, SectorAssumption
    <3>3. PICK t \in phase[q] + 1 .. (phase[q] + 1) + NSector - 1 : t < Sent(q)
      <4>1. phase[q] + 1 \in Nat /\ (phase[q] + 1) + NSector <= Rcvd(p)
        BY <3>1, <3>2, SectorAssumption
      <4>2. QED
        BY <2>1, <2>2, <4>1, HeardFrom
    <3>4. QED
      BY <3>1, <3>3, SectorAssumption
  <2>3. ASSUME NEW p \in Proc, NEW q \in Proc
        PROVE  Cardinality(Pending(q, p)) <= NSector
    <3> DEFINE here == Pending(q, p)
               f == [m \in here |-> Sec(m.stamp)]
    <3>1. \A m \in here : m \in msgs /\ m.src = q /\ m.dst = p /\ m.stamp \in Nat
      BY <2>1 DEF Pending, TypeOK
    <3>2. f \in [here -> Sectors]
      BY <3>1, SecType
    <3>3. \A m, n \in here : f[m] = f[n] => m = n
      <4>1. SUFFICES ASSUME NEW m \in here, NEW n \in here, Sec(m.stamp) = Sec(n.stamp)
                     PROVE  m = n
        OBVIOUS
      <4>2. m.stamp = n.stamp
        BY <2>1, <3>1, <4>1, PendingForDifferentSectors
      <4>3. QED
        BY <2>1, <3>1, <4>2 DEF InTransit
    <3>4. f \in Injection(here, Sectors)
      BY <3>2, <3>3 DEF Injection, IsInjective
    <3>5. IsFiniteSet(Sectors) /\ Cardinality(Sectors) = NSector
      <4>1. IsFiniteSet(0 .. NSector - 1)
              /\ Cardinality(0 .. NSector - 1)
                   = IF 0 > NSector - 1 THEN 0 ELSE (NSector - 1) - 0 + 1
        BY SectorAssumption, FS_Interval
      <4>2. QED
        BY <4>1, SectorAssumption DEF Sectors
    <3> HIDE DEF here, f
    <3>6. Cardinality(here) <= Cardinality(Sectors)
      BY <3>4, <3>5, FS_Injection
    <3>7. QED
      BY <3>5, <3>6 DEF here
  <2>4. QED
    BY <2>2, <2>3 DEF SkewBounded
<1>2. QED
  BY <1>1, Invariance, PTL

-----------------------------------------------------------------------------
(* Agreement on time and collectives.                                      *)
(*                                                                         *)
(* Nobody passes the end of a sweep at which there is a collective before  *)
(* all have come to it: in an adaptive run there is one at the end of each *)
(* sweep, in a run of fixed steps at the times that are due, which all     *)
(* processes work out alike.                                               *)

Done(p) == Sweep(phase[p])
Collective(p) == pc[p] \in {"output", "reduce", "done"}
Due(t) == t >= StopTime \/ t \in OutputTimes

SameStep == \A p, q \in Proc : dt[p] = dt[q]

AtBoundary == \A p \in Proc : Collective(p) => Sec(phase[p]) = 0

SameTime == \A p, q \in Proc : Done(p) = Done(q) => time[p] = time[q]

(* Nobody is ahead of a process in a collective, or is elsewhere when it   *)
(* has done as many sweeps.                                                *)
CollectiveFirst ==
    \A p, q \in Proc : Collective(p) =>
        /\ Done(q) <= Done(p)
        /\ Done(q) = Done(p) => pc[q] = pc[p]

(* While some have not come to a collective, those that have are in the    *)
(* first one of the sweep.                                                 *)
FirstOne ==
    \A p, q \in Proc : Collective(p) /\ ~ Collective(q) =>
        /\ pc[p] = IF Due(time[p]) THEN "output" ELSE "reduce"
        /\ Adaptive \/ Due(time[p])

FixedStep == ~ Adaptive => \A p \in Proc : time[p] = Done(p) * dt[p]

(* What one has passed and another not was not due.                        *)
PassedNotDue ==
    ~ Adaptive => \A p, q \in Proc : \A m \in Nat :
        Done(p) < m /\ m <= Done(q) /\ (Collective(q) => m < Done(q)) => ~ Due(m * dt[p])

InStep ==
    Adaptive => \A p, q \in Proc : ~ Collective(p) =>
        /\ ~ Collective(q) => Done(q) = Done(p)
        /\ Collective(q) => Done(q) = Done(p) + 1 /\ time[q] = time[p] + dt[p]

Agree ==
    /\ SameStep
    /\ AtBoundary
    /\ SameTime
    /\ CollectiveFirst
    /\ FirstOne
    /\ FixedStep
    /\ PassedNotDue
    /\ InStep

(* The quotient and the remainder of a phase, and of the next one.         *)
LEMMA SweepOf ==
    ASSUME NEW t \in Nat
    PROVE  /\ Sweep(t) \in Nat
           /\ Sec(t) \in Nat
           /\ t = NSector * Sweep(t) + Sec(t)
           /\ Sec(t + 1) = 0 => Sweep(t + 1) = Sweep(t) + 1
           /\ Sec(t + 1) # 0 => Sweep(t + 1) = Sweep(t)
<1> DEFINE a == t \div NSector
           b == (t + 1) \div NSector
           r == t % NSector
           s == (t + 1) % NSector
<1>1. /\ t = NSector * a + r /\ a \in Nat /\ r \in 0 .. NSector - 1
      /\ t + 1 = NSector * b + s /\ b \in Nat /\ s \in 0 .. NSector - 1
  BY SectorAssumption
<1> HIDE DEF a, b, r, s
<1>2. NSector * b + s = NSector * a + r + 1
  BY <1>1, SectorAssumption
<1>3. NSector * a \in Nat /\ NSector * b \in Nat
  BY <1>1, SectorAssumption
<1>4. ~ (b < a)
  <2>1. SUFFICES ASSUME b + 1 <= a PROVE FALSE
    BY <1>1
  <2>2. NSector * (b + 1) <= NSector * a /\ NSector * (b + 1) = NSector * b + NSector
    BY <1>1, <2>1, SectorAssumption
  <2>3. QED
    BY <1>1, <1>2, <1>3, <2>2, SectorAssumption
<1>5. ~ (a + 1 < b)
  <2>1. SUFFICES ASSUME a + 2 <= b PROVE FALSE
    BY <1>1
  <2>2. NSector * (a + 2) <= NSector * b /\ NSector * (a + 2) = NSector * a + NSector + NSector
    BY <1>1, <2>1, SectorAssumption
  <2>3. QED
    BY <1>1, <1>2, <1>3, <2>2, SectorAssumption
<1>6. b = a \/ b = a + 1
  BY <1>1, <1>4, <1>5
<1>7. ASSUME b = a PROVE s # 0
  BY <1>1, <1>2, <1>3, <1>7
<1>8. ASSUME b = a + 1 PROVE s = 0
  <2>1. NSector * b = NSector * a + NSector
    BY <1>1, <1>8, SectorAssumption
  <2>2. QED
    BY <1>1, <1>2, <1>3, <2>1, SectorAssumption
<1>9. QED
  BY <1>1, <1>6, <1>7, <1>8 DEF Sweep, Sec, a, b, r, s

LEMMA DoneType == ASSUME TypeOK, NEW p \in Proc PROVE Done(p) \in Nat
BY SweepOf DEF Done, TypeOK

LEMMA AgreeInit == Init => Agree
<1> SUFFICES ASSUME Init PROVE Agree
  OBVIOUS
<1>1. \A p \in Proc : pc[p] = "comm" /\ phase[p] = 0 /\ time[p] = 0
  BY DEF Init
<1>2. PICK d \in DtChoices : dt = [p \in Proc |-> Least(d, StopTime)]
  BY DEF Init
<1>3. Sweep(0) = 0 /\ \A p \in Proc : Done(p) = 0
  BY <1>1, SectorAssumption DEF Sweep, Done
<1>4. \A p \in Proc : ~ Collective(p)
  BY <1>1 DEF Collective
<1>5. \A p \in Proc : dt[p] = Least(d, StopTime) /\ dt[p] \in Nat
  BY <1>2, TimeAssumption DEF Least
<1>6. SameStep
  BY <1>5 DEF SameStep
<1>7. FixedStep
  BY <1>1, <1>3, <1>5 DEF FixedStep
<1>8. PassedNotDue
  BY <1>3 DEF PassedNotDue
<1>9. QED
  BY <1>1, <1>3, <1>4, <1>6, <1>7, <1>8
  DEF Agree, AtBoundary, SameTime, CollectiveFirst, FirstOne, InStep

(* A step in which no process ends a sweep or leaves a collective.         *)
LEMMA AgreeWithinSweep ==
    ASSUME Agree, time' = time, dt' = dt,
           \A p \in Proc : Done(p)' = Done(p),
           \A p \in Proc : Collective(p)' <=> Collective(p),
           \A p \in Proc : Collective(p) => pc'[p] = pc[p] /\ phase'[p] = phase[p]
    PROVE  Agree'
<1>1. SameStep' /\ SameTime' /\ FixedStep'
  BY DEF Agree, SameStep, SameTime, FixedStep
<1>2. AtBoundary'
  BY DEF Agree, AtBoundary
<1>3. CollectiveFirst'
  <2>1. SUFFICES ASSUME NEW p \in Proc, NEW q \in Proc, Collective(p)
                 PROVE  Done(q) <= Done(p) /\ (Done(q) = Done(p) => pc'[q] = pc'[p])
    BY DEF CollectiveFirst
  <2>2. Done(q) <= Done(p) /\ (Done(q) = Done(p) => pc[q] = pc[p])
    BY <2>1 DEF Agree, CollectiveFirst
  <2>3. QED
    BY <2>1, <2>2 DEF Collective
<1>4. FirstOne'
  BY DEF Agree, FirstOne, Due
<1>5. PassedNotDue'
  <2>1. SUFFICES ASSUME ~ Adaptive, NEW p \in Proc, NEW q \in Proc, NEW m \in Nat,
                        Done(p) < m, m <= Done(q), Collective(q) => m < Done(q)
                 PROVE  ~ Due(m * dt[p])
    BY DEF PassedNotDue, Due
  <2>2. QED
    BY <2>1 DEF Agree, PassedNotDue
<1>6. InStep'
  BY DEF Agree, InStep
<1>7. QED
  BY <1>1, <1>2, <1>3, <1>4, <1>5, <1>6 DEF Agree

(* The end of a sweep.                                                     *)
LEMMA AgreeEndSweep ==
    ASSUME TypeOK, Agree, NEW p \in Proc, EndSweep(p)
    PROVE  Agree'
<1> DEFINE t == time[p] + dt[p]
           m == Done(p) + 1
<1>1. /\ pc[p] = "events" /\ ~ Collective(p)
      /\ Sec(phase[p] + 1) = 0
      /\ \A q \in Proc : /\ phase'[q] = IF q = p THEN phase[p] + 1 ELSE phase[q]
                         /\ time'[q] = IF q = p THEN t ELSE time[q]
                         /\ q # p => pc'[q] = pc[q]
      /\ pc'[p] = IF Due(t) THEN "output" ELSE IF Adaptive THEN "reduce" ELSE "comm"
      /\ dt' = dt
  BY DEF EndSweep, TypeOK, Due, Collective
<1>2. /\ \A q \in Proc : Done(q) \in Nat /\ time[q] \in Nat /\ dt[q] \in Nat
      /\ Adaptive \in BOOLEAN
  BY DoneType, TimeAssumption DEF TypeOK
<1>3. m \in Nat /\ \A q \in Proc : Done(q)' = IF q = p THEN m ELSE Done(q)
  <2>1. phase[p] \in Nat
    BY DEF TypeOK
  <2>2. Sweep(phase[p] + 1) = m
    BY <1>1, <2>1, SweepOf DEF Done
  <2>3. QED
    BY <1>1, <1>2, <2>2 DEF Done
<1>4. /\ Collective(p)' <=> (Due(t) \/ Adaptive)
      /\ \A q \in Proc : q # p => (Collective(q)' <=> Collective(q))
  BY <1>1 DEF Collective
<1>5. ASSUME ~ Adaptive PROVE t = m * dt[p]
  <2>1. time[p] = Done(p) * dt[p]
    BY <1>5 DEF Agree, FixedStep
  <2>2. \A a, b \in Nat : a * b + b = (a + 1) * b
    OBVIOUS
  <2>3. Done(p) * dt[p] + dt[p] = (Done(p) + 1) * dt[p]
    BY <1>2, <2>2
  <2>4. QED
    BY <2>1, <2>3
<1> HIDE DEF m, t
(* Who has done as many sweeps as p now has is at the same time.           *)
<1>6. ASSUME NEW q \in Proc, q # p, Done(q) = m PROVE time[q] = t
  <2>1. CASE Adaptive
    <3>1. Collective(q)
      BY <1>1, <1>2, <1>6, <2>1 DEF Agree, InStep, m
    <3>2. QED
      BY <1>1, <2>1, <3>1 DEF Agree, InStep, t
  <2>2. CASE ~ Adaptive
    BY <1>5, <1>6, <2>2 DEF Agree, FixedStep, SameStep
  <2>3. QED
    BY <2>1, <2>2
(* Those in a collective have done m sweeps or more, and p joins them if   *)
(* they have done m.                                                       *)
<1>7. ASSUME NEW q \in Proc, Collective(q)
      PROVE  m <= Done(q) /\ (Done(q) = m => pc'[p] = pc[q])
  <2>1. Done(p) <= Done(q) /\ Done(p) # Done(q)
    BY <1>1, <1>7 DEF Agree, CollectiveFirst, Collective
  <2>2. m <= Done(q)
    BY <1>2, <2>1 DEF m
  <2>3. pc[q] = (IF Due(time[q]) THEN "output" ELSE "reduce") /\ (Adaptive \/ Due(time[q]))
    BY <1>1, <1>7 DEF Agree, FirstOne
  <2>4. ASSUME Done(q) = m PROVE pc'[p] = pc[q]
    BY <1>1, <1>6, <1>7, <2>3, <2>4
  <2>5. QED
    BY <2>2, <2>4
(* If p comes to a collective, nobody has passed it.                       *)
<1>8. ASSUME NEW q \in Proc, Collective(p)', ~ Collective(q) PROVE Done(q) < m
  <2>1. CASE Adaptive
    BY <1>1, <1>2, <1>8, <2>1 DEF Agree, InStep, m
  <2>2. CASE ~ Adaptive
    <3>1. Due(m * dt[p])
      BY <1>4, <1>5, <1>8, <2>2
    <3>2. ~ (Done(p) < m /\ m <= Done(q))
      BY <1>3, <1>8, <2>2, <3>1 DEF Agree, PassedNotDue
    <3>3. QED
      BY <1>2, <3>2 DEF m
  <2>3. QED
    BY <2>1, <2>2
<1>9. ASSUME NEW q \in Proc, Collective(p)', Collective(q) PROVE Done(q) = m
  <2>1. CASE Adaptive
    BY <1>1, <1>9, <2>1 DEF Agree, InStep, m
  <2>2. CASE ~ Adaptive
    <3>1. Due(m * dt[p])
      BY <1>4, <1>5, <1>9, <2>2
    <3>2. ~ (Done(p) < m /\ m < Done(q))
      BY <1>2, <1>3, <1>9, <2>2, <3>1 DEF Agree, PassedNotDue
    <3>3. QED
      BY <1>2, <1>7, <1>9, <3>2 DEF m
  <2>3. QED
    BY <2>1, <2>2
<1>10. SameStep'
  BY <1>1 DEF Agree, SameStep
<1>11. AtBoundary'
  BY <1>1, <1>4 DEF Agree, AtBoundary
<1>12. SameTime'
  BY <1>1, <1>3, <1>6 DEF Agree, SameTime
<1>13. CollectiveFirst'
  <2>1. SUFFICES ASSUME NEW a \in Proc, NEW b \in Proc, Collective(a)'
                 PROVE  Done(b)' <= Done(a)' /\ (Done(b)' = Done(a)' => pc'[b] = pc'[a])
    BY DEF CollectiveFirst
  <2>2. CASE a = p /\ b = p
    BY <1>3, <2>2
  <2>3. CASE a = p /\ b # p /\ Collective(b)
    BY <1>1, <1>3, <1>7, <1>9, <2>1, <2>3
  <2>4. CASE a = p /\ b # p /\ ~ Collective(b)
    BY <1>2, <1>3, <1>8, <2>1, <2>4
  <2>5. CASE a # p /\ b = p
    BY <1>1, <1>3, <1>4, <1>7, <2>1, <2>5
  <2>6. CASE a # p /\ b # p
    BY <1>1, <1>3, <1>4, <2>1, <2>6 DEF Agree, CollectiveFirst
  <2>7. QED
    BY <2>2, <2>3, <2>4, <2>5, <2>6
<1>14. FirstOne'
  <2>1. SUFFICES ASSUME NEW a \in Proc, NEW b \in Proc, Collective(a)', ~ Collective(b)'
                 PROVE  /\ pc'[a] = IF Due(time'[a]) THEN "output" ELSE "reduce"
                        /\ Adaptive \/ Due(time'[a])
    BY DEF FirstOne, Due
  <2>2. CASE a = p
    BY <1>1, <1>4, <2>1, <2>2
  <2>3. CASE a # p
    <3>1. Collective(a) /\ ~ Collective(b)
      BY <1>1, <1>4, <2>1, <2>3
    <3>2. QED
      BY <1>1, <2>3, <3>1 DEF Agree, FirstOne
  <2>4. QED
    BY <2>2, <2>3
<1>15. FixedStep'
  <2>1. SUFFICES ASSUME ~ Adaptive, NEW q \in Proc PROVE time'[q] = Done(q)' * dt[q]
    BY <1>1 DEF FixedStep
  <2>2. QED
    BY <1>1, <1>3, <1>5, <2>1 DEF Agree, FixedStep
<1>16. PassedNotDue'
  <2>1. SUFFICES ASSUME ~ Adaptive, NEW a \in Proc, NEW b \in Proc, NEW k \in Nat,
                        Done(a)' < k, k <= Done(b)', Collective(b)' => k < Done(b)'
                 PROVE  ~ Due(k * dt[a])
    BY <1>1 DEF PassedNotDue, Due
  <2>2. Done(a) < k
    BY <1>2, <1>3, <2>1 DEF m
  <2>3. CASE b # p
    <3>1. k <= Done(b) /\ (Collective(b) => k < Done(b))
      BY <1>3, <1>4, <2>1, <2>3
    <3>2. QED
      BY <2>1, <2>2, <3>1 DEF Agree, PassedNotDue
  <2>4. CASE b = p /\ k <= Done(p)
    BY <1>1, <2>1, <2>2, <2>4 DEF Agree, PassedNotDue
  <2>5. CASE b = p /\ ~ (k <= Done(p))
    <3>1. k = m /\ ~ Collective(p)'
      BY <1>2, <1>3, <2>1, <2>5 DEF m
    <3>2. ~ Due(t)
      BY <1>4, <3>1
    <3>3. dt[a] = dt[p]
      BY DEF Agree, SameStep
    <3>4. QED
      BY <1>5, <2>1, <3>1, <3>2, <3>3
  <2>6. QED
    BY <2>3, <2>4, <2>5
<1>17. InStep'
  <2>1. SUFFICES ASSUME Adaptive, NEW a \in Proc, NEW b \in Proc, ~ Collective(a)'
                 PROVE  /\ ~ Collective(b)' => Done(b)' = Done(a)'
                        /\ Collective(b)' => /\ Done(b)' = Done(a)' + 1
                                             /\ time'[b] = time'[a] + dt[a]
    BY <1>1 DEF InStep
  <2>2. a # p /\ ~ Collective(a)
    BY <1>4, <2>1
  <2>3. CASE b # p
    BY <1>1, <1>3, <1>4, <2>1, <2>2, <2>3 DEF Agree, InStep
  <2>4. CASE b = p
    <3>1. Done(a) = Done(p)
      BY <1>1, <2>1, <2>2 DEF Agree, InStep
    <3>2. time[a] = time[p] /\ dt[a] = dt[p]
      BY <3>1 DEF Agree, SameTime, SameStep
    <3>3. QED
      BY <1>1, <1>3, <1>4, <2>1, <2>2, <2>4, <3>1, <3>2 DEF m, t
  <2>5. QED
    BY <2>3, <2>4
<1>18. QED
  BY <1>10, <1>11, <1>12, <1>13, <1>14, <1>15, <1>16, <1>17 DEF Agree

(* A collective over all processes.                                        *)
LEMMA AgreeCollective ==
    ASSUME TypeOK, Agree, \A p \in Proc : Collective(p), phase' = phase, time' = time,
           \A p, q \in Proc : dt'[p] = dt'[q] /\ pc'[p] = pc'[q],
           ~ Adaptive => \A p \in Proc : dt'[p] = dt[p]
    PROVE  Agree'
<1>1. \A p \in Proc : Done(p)' = Done(p) /\ Done(p) \in Nat
  BY DoneType DEF Done
<1>2. \A p, q \in Proc : Done(p) = Done(q)
  BY <1>1 DEF Agree, CollectiveFirst
<1>3. SameStep'
  BY DEF SameStep
<1>4. AtBoundary'
  BY DEF Agree, AtBoundary
<1>5. SameTime'
  BY <1>1 DEF Agree, SameTime
<1>6. CollectiveFirst'
  BY <1>1, <1>2 DEF CollectiveFirst
<1>7. \A p, q \in Proc : Collective(p)' <=> Collective(q)'
  BY DEF Collective
<1>8. FirstOne'
  BY <1>7 DEF FirstOne
<1>9. FixedStep'
  BY <1>1 DEF Agree, FixedStep
<1>10. PassedNotDue'
  BY <1>1, <1>2 DEF PassedNotDue
<1>11. InStep'
  BY <1>1, <1>2, <1>7 DEF InStep
<1>12. QED
  BY <1>3, <1>4, <1>5, <1>6, <1>8, <1>9, <1>10, <1>11 DEF Agree

LEMMA AgreeNext == IInv /\ Agree /\ [Next]_vars => Agree'
<1> SUFFICES ASSUME IInv, Agree, [Next]_vars PROVE Agree'
  OBVIOUS
<1>1. TypeOK /\ TimeBounded
  BY DEF IInv
<1>2. ASSUME NEW p \in Proc, Send(p) \/ Receive(p) \/ \E i \in Site : Event(p, i)
      PROVE  Agree'
  <2>1. /\ phase' = phase /\ time' = time /\ dt' = dt
        /\ ~ Collective(p) /\ ~ Collective(p)' /\ \A q \in Proc : q # p => pc'[q] = pc[q]
    BY <1>1, <1>2 DEF Send, Receive, Event, Collective, TypeOK
  <2>2. \A q \in Proc : /\ Done(q)' = Done(q) /\ (Collective(q)' <=> Collective(q))
                        /\ Collective(q) => pc'[q] = pc[q] /\ phase'[q] = phase[q]
    BY <2>1 DEF Done, Collective
  <2>3. QED
    BY <2>1, <2>2, AgreeWithinSweep
<1>3. ASSUME NEW p \in Proc, NextSector(p) PROVE Agree'
  <2>1. /\ time' = time /\ dt' = dt /\ Sec(phase[p] + 1) # 0 /\ phase[p] \in Nat
        /\ phase'[p] = phase[p] + 1 /\ ~ Collective(p) /\ ~ Collective(p)'
        /\ \A q \in Proc : q # p => pc'[q] = pc[q] /\ phase'[q] = phase[q]
    BY <1>1, <1>3 DEF NextSector, Collective, TypeOK
  <2>2. Sweep(phase[p] + 1) = Sweep(phase[p])
    BY <2>1, SweepOf
  <2>3. \A q \in Proc : /\ Done(q)' = Done(q) /\ (Collective(q)' <=> Collective(q))
                        /\ Collective(q) => pc'[q] = pc[q] /\ phase'[q] = phase[q]
    BY <2>1, <2>2 DEF Done, Collective
  <2>4. QED
    BY <2>1, <2>3, AgreeWithinSweep
<1>4. ASSUME NEW p \in Proc, EndSweep(p) PROVE Agree'
  BY <1>1, <1>4, AgreeEndSweep
<1>5. CASE Output
  <2>1. \A p \in Proc : Collective(p)
    BY <1>5 DEF Output, Collective
  <2>2. \A p, q \in Proc : time[p] = time[q]
    BY <1>1, <2>1, DoneType DEF Agree, SameTime, CollectiveFirst
  <2>3. \A p, q \in Proc : dt'[p] = dt'[q] /\ pc'[p] = pc'[q]
    BY <1>5, <2>2 DEF Output, Agree, SameStep
  <2>4. phase' = phase /\ time' = time /\ dt' = dt
    BY <1>5 DEF Output
  <2>5. QED
    BY <1>1, <2>1, <2>3, <2>4, AgreeCollective
<1>6. CASE Allreduce
  <2>1. \A p \in Proc : Collective(p)
    BY <1>6 DEF Allreduce, Collective
  <2>2. \A p, q \in Proc : time[p] = time[q]
    BY <1>1, <2>1, DoneType DEF Agree, SameTime, CollectiveFirst
  <2>3. \A p, q \in Proc : dt'[p] = dt'[q] /\ pc'[p] = pc'[q]
    BY <1>6, <2>2 DEF Allreduce
  <2>4. phase' = phase /\ time' = time
    BY <1>6 DEF Allreduce
  <2>5. \A p \in Proc : Adaptive
    BY <1>1, <1>6 DEF Allreduce, TimeBounded
  <2>6. QED
    BY <1>1, <2>1, <2>3, <2>4, <2>5, AgreeCollective
<1>7. CASE UNCHANGED vars
  BY <1>7, AgreeWithinSweep DEF vars, Done, Collective
<1>8. QED
  BY <1>2, <1>3, <1>4, <1>5, <1>6, <1>7 DEF Next, Step, Finished

(* Processes that have done as many sweeps agree on the time, and those    *)
(* that wait in a collective wait in the same one, though each decides for *)
(* itself whether its loop is over (AppLattice::iterate_kmc_sector).       *)
THEOREM TimesStayEqual == ASSUME SectorsApart PROVE Spec => []TimesAgree
<1>1. IInv /\ Agree => TimesAgree
  <2>1. SUFFICES ASSUME IInv, Agree, NEW p \in Proc, NEW q \in Proc
                 PROVE  /\ Sweep(phase[p]) = Sweep(phase[q]) => time[p] = time[q]
                        /\ Collective(p) /\ Collective(q) => phase[p] = phase[q] /\ pc[p] = pc[q]
                        /\ Adaptive => time[p] <= StopTime
    BY DEF TimesAgree, Collective
  <2>2. TypeOK /\ TimeBounded /\ phase[p] \in Nat /\ phase[q] \in Nat
    BY <2>1 DEF IInv, TypeOK
  <2>3. ASSUME Collective(p), Collective(q) PROVE phase[p] = phase[q] /\ pc[p] = pc[q]
    <3>1. Done(p) = Done(q) /\ pc[p] = pc[q]
      BY <2>1, <2>2, <2>3, DoneType DEF Agree, CollectiveFirst
    <3>2. Sec(phase[p]) = 0 /\ Sec(phase[q]) = 0
      BY <2>1, <2>3 DEF Agree, AtBoundary
    <3>3. phase[p] = NSector * Done(p) + 0 /\ phase[q] = NSector * Done(q) + 0
      BY <2>2, <3>2, SweepOf DEF Done
    <3>4. QED
      BY <3>1, <3>3
  <2>4. QED
    BY <2>1, <2>2, <2>3 DEF Agree, SameTime, Done, TimeBounded
<1>2. Init => Agree
  BY AgreeInit
<1>3. IInv /\ Agree /\ [Next]_vars => Agree'
  BY AgreeNext
<1>4. QED
  BY <1>1, <1>2, <1>3, Invariance, PTL DEF Spec

(* What a step does to the whole lattice: nothing, or one event of positive *)
(* propensity.                                                             *)
LEMMA LatticeStep ==
    ASSUME SectorsApart, IInv, [Next]_vars
    PROVE  \/ Lattice' = Lattice
           \/ \E i \in Site : SitePropensity(Lattice, i) > 0 /\ Lattice' = SiteEvent(Lattice, i)
<1>1. ASSUME NEW p \in Proc, NEW i \in Site, Event(p, i)
      PROVE  SitePropensity(Lattice, i) > 0 /\ Lattice' = SiteEvent(Lattice, i)
  <2>1. /\ pc[p] = "events" /\ i \in SectorSites[p][Sec(phase[p])] /\ prop[i] > 0
        /\ val' = [val EXCEPT ![p] = SiteEvent(val[p], i)]
    BY <1>1 DEF Event
  <2>2. Owner[i] = p /\ SitePropensity(Lattice, i) > 0
    BY <2>1, TruePropensities
  <2>3. Lattice' = SiteEvent(Lattice, i)
    BY <2>1, <2>2, SectorAssumption DEF Lattice, SiteEvent, TypeOK, IInv
  <2>4. QED
    BY <2>2, <2>3
<1>2. ASSUME NEW p \in Proc, Receive(p) PROVE Lattice' = Lattice
  <2>1. val' = [val EXCEPT ![p] = Unpacked(p, Sec(phase[p]))] /\ Sec(phase[p]) \in Sectors
    BY <1>2, PhaseType DEF Receive, IInv
  <2>2. \A i \in Site : Owner[i] = p => Unpacked(p, Sec(phase[p]))[i] = val[p][i]
    BY <2>1, GhostsOf DEF Unpacked
  <2>3. \A i \in Site : val'[Owner[i]][i] = val[Owner[i]][i]
    BY <2>1, <2>2, SectorAssumption DEF TypeOK, IInv
  <2>4. QED
    BY <2>3 DEF Lattice
<1>3. CASE UNCHANGED val
  BY <1>3 DEF Lattice
<1>4. QED
  BY <1>1, <1>2, <1>3 DEF Next, Step, Send, NextSector, EndSweep, Output, Allreduce,
     Finished, vars

(* The parallel run implements the serial one: Init maps to Init, an event *)
(* of a process to an event of the whole lattice, every other step to a    *)
(* stutter.                                                                *)
THEOREM ImplementsSerialKMC == ASSUME SectorsApart PROVE Spec => SerialKMC
<1>1. Init => Serial!Init
  <2>1. SUFFICES ASSUME Init PROVE Lattice \in InitSpins
    BY DEF Serial!Init
  <2>2. PICK spins \in InitSpins : val = [p \in Proc |-> spins]
    BY <2>1 DEF Init
  <2>3. spins = [i \in Site |-> spins[i]]
    BY SectorAssumption
  <2>4. Lattice = spins
    BY <2>2, <2>3, SectorAssumption DEF Lattice
  <2>5. QED
    BY <2>4
<1>2. IInv /\ [Next]_vars => [Serial!Next]_Lattice
  BY LatticeStep DEF Serial!Next, Serial!Flip
<1>3. QED
  BY <1>1, <1>2, Invariance, PTL DEF Spec, SerialKMC, Serial!Spec

-----------------------------------------------------------------------------
(* The energy.                                                             *)

LEMMA EnergyType == ASSUME NEW v PROVE TotalEnergy(v) \in Nat
<1>1. IsFiniteSet(Site \X Site) /\ UnlikePairs(v) \in SUBSET (Site \X Site)
  BY LatticeAssumption, FS_Product DEF UnlikePairs
<1>2. IsFiniteSet(UnlikePairs(v))
  BY <1>1, FS_Subset
<1>3. QED
  BY <1>2, FS_CardinalityType DEF TotalEnergy

UnlikeNbrs(v, i) == {j \in Nbr[i] : v[j] # v[i]}

PairsWithout(v, i) == {e \in UnlikePairs(v) : e[1] # i /\ e[2] # i}

(* A site is in as many unlike pairs, on either side, as it has unlike     *)
(* neighbours.                                                             *)
LEMMA EnergyAround ==
    ASSUME NEW v, NEW i \in Site
    PROVE  /\ Cardinality(PairsWithout(v, i)) \in Nat
           /\ Cardinality(UnlikeNbrs(v, i)) \in Nat
           /\ TotalEnergy(v) = Cardinality(PairsWithout(v, i)) + 2 * Cardinality(UnlikeNbrs(v, i))
<1> DEFINE U == UnlikeNbrs(v, i)
           R == PairsWithout(v, i)
           A == {i} \X U
           B == U \X {i}
<1>1. /\ UnlikePairs(v) \subseteq Site \X Site /\ R \subseteq UnlikePairs(v)
      /\ U \subseteq Site /\ i \notin U
  BY LatticeAssumption DEF UnlikePairs, UnlikeNbrs, PairsWithout
<1>2. IsFiniteSet(R) /\ IsFiniteSet(U)
  <2>1. IsFiniteSet(Site \X Site) /\ IsFiniteSet(U)
    BY <1>1, LatticeAssumption, FS_Product, FS_Subset
  <2>2. R \in SUBSET (Site \X Site)
    BY <1>1
  <2>3. QED
    BY <2>1, <2>2, FS_Subset
<1>3. UnlikePairs(v) = (R \cup A) \cup B
  <2>1. ASSUME NEW e \in UnlikePairs(v) PROVE e \in (R \cup A) \cup B
    <3>1. /\ e \in Site \X Site /\ e = <<e[1], e[2]>>
          /\ e[2] \in Nbr[e[1]] /\ v[e[1]] # v[e[2]] /\ e[1] \in Nbr[e[2]]
      BY <2>1, LatticeAssumption DEF UnlikePairs
    <3>2. e[1] = i => e[2] \in U
      BY <3>1 DEF UnlikeNbrs
    <3>3. e[2] = i => e[1] \in U
      BY <3>1 DEF UnlikeNbrs
    <3>4. e[1] # i /\ e[2] # i => e \in R
      BY <2>1 DEF PairsWithout
    <3>5. QED
      BY <3>1, <3>2, <3>3, <3>4
  <2>2. ASSUME NEW j \in U PROVE <<i, j>> \in UnlikePairs(v) /\ <<j, i>> \in UnlikePairs(v)
    BY <1>1, <2>2, LatticeAssumption DEF UnlikePairs, UnlikeNbrs
  <2>3. A \subseteq UnlikePairs(v) /\ B \subseteq UnlikePairs(v)
    <3>1. A = {<<i, j>> : j \in U} /\ B = {<<j, i>> : j \in U}
      <4> HIDE DEF U
      <4>1. QED
        OBVIOUS
    <3> HIDE DEF A, B, U
    <3>2. QED
      BY <2>2, <3>1
  <2>4. QED
    BY <1>1, <2>1, <2>3
<1>4. R \cap A = {} /\ (R \cup A) \cap B = {}
  BY <1>1 DEF PairsWithout
<1> HIDE DEF R, U
<1>5. /\ IsFiniteSet(A) /\ Cardinality(A) = Cardinality(U)
      /\ IsFiniteSet(B) /\ Cardinality(B) = Cardinality(U)
      /\ Cardinality(U) \in Nat /\ Cardinality(R) \in Nat
  <2>1. Cardinality(U) \in Nat /\ Cardinality(R) \in Nat
    BY <1>2, FS_CardinalityType
  <2>2. IsFiniteSet({i}) /\ Cardinality({i}) = 1
    BY FS_Singleton
  <2>3. /\ IsFiniteSet(A) /\ Cardinality(A) = Cardinality({i}) * Cardinality(U)
        /\ IsFiniteSet(B) /\ Cardinality(B) = Cardinality(U) * Cardinality({i})
    BY <1>2, <2>2, FS_Product
  <2>4. QED
    BY <2>1, <2>2, <2>3
<1> HIDE DEF A, B
<1>6. IsFiniteSet(R \cup A) /\ Cardinality(R \cup A) = Cardinality(R) + Cardinality(U)
  <2>1. IsFiniteSet(R \cup A)
        /\ Cardinality(R \cup A) = Cardinality(R) + Cardinality(A) - Cardinality(R \cap A)
    BY <1>2, <1>5, FS_Union
  <2>2. QED
    BY <1>4, <1>5, <2>1, FS_EmptySet
<1>7. Cardinality((R \cup A) \cup B) = Cardinality(R) + Cardinality(U) + Cardinality(U)
  <2>1. Cardinality((R \cup A) \cup B)
          = Cardinality(R \cup A) + Cardinality(B) - Cardinality((R \cup A) \cap B)
    BY <1>5, <1>6, FS_Union
  <2>2. QED
    BY <1>4, <1>5, <1>6, <2>1, FS_EmptySet
<1>8. QED
  BY <1>3, <1>5, <1>7 DEF TotalEnergy, R, U

(* The event of a site changes the energy of the lattice by twice what it  *)
(* changes the site's own (diag_energy counts every pair from both sides).  *)
LEMMA EnergyChange ==
    ASSUME NEW v \in [Site -> Spin], NEW i \in Site
    PROVE  /\ SiteEnergy(v, i, v[i]) \in Nat /\ SiteEnergy(v, i, Flipped(v[i])) \in Nat
           /\ TotalEnergy(SiteEvent(v, i)) - TotalEnergy(v)
                = 2 * (SiteEnergy(v, i, Flipped(v[i])) - SiteEnergy(v, i, v[i]))
<1> DEFINE w == SiteEvent(v, i)
<1>1. w[i] = Flipped(v[i]) /\ \A j \in Site : j # i => w[j] = v[j]
  BY DEF SiteEvent
<1> HIDE DEF w
<1>2. PairsWithout(w, i) = PairsWithout(v, i)
  BY <1>1 DEF PairsWithout, UnlikePairs
<1>3. UnlikeNbrs(v, i) = {j \in Nbr[i] : v[j] # v[i]}
  BY DEF UnlikeNbrs
<1>4. UnlikeNbrs(w, i) = {j \in Nbr[i] : v[j] # Flipped(v[i])}
  BY <1>1, LatticeAssumption DEF UnlikeNbrs
<1>5. /\ Cardinality(UnlikeNbrs(v, i)) = SiteEnergy(v, i, v[i])
      /\ Cardinality(UnlikeNbrs(w, i)) = SiteEnergy(v, i, Flipped(v[i]))
  BY <1>3, <1>4 DEF SiteEnergy
<1>6. QED
  BY <1>2, <1>5, EnergyAround DEF w

(* At temperature zero no step of any process raises the energy of the     *)
(* whole lattice, although each flips sites by what its own copy says.     *)
THEOREM EnergyFalls == ASSUME SectorsApart PROVE Spec => EnergyNeverRises
<1>1. IInv /\ [Next]_vars
        => [ZeroTemperature => TotalEnergy(Lattice') <= TotalEnergy(Lattice)]_vars
  <2>1. SUFFICES ASSUME IInv, [Next]_vars, ZeroTemperature
                 PROVE  TotalEnergy(Lattice') <= TotalEnergy(Lattice)
    OBVIOUS
  <2>2. Lattice \in [Site -> Spin]
    BY <2>1, SectorAssumption DEF Lattice, TypeOK, IInv
  <2>3. CASE Lattice' = Lattice
    BY <2>3, EnergyType
  <2>4. ASSUME NEW i \in Site, SitePropensity(Lattice, i) > 0, Lattice' = SiteEvent(Lattice, i)
        PROVE  TotalEnergy(Lattice') <= TotalEnergy(Lattice)
    <3>1. SiteEnergy(Lattice, i, Flipped(Lattice[i])) <= SiteEnergy(Lattice, i, Lattice[i])
      BY <2>1, <2>4 DEF SitePropensity
    <3>2. TotalEnergy(SiteEvent(Lattice, i)) \in Nat /\ TotalEnergy(Lattice) \in Nat
      BY EnergyType
    <3>3. QED
      BY <2>2, <2>4, <3>1, <3>2, EnergyChange
  <2>5. QED
    BY <2>1, <2>3, <2>4, LatticeStep
<1>2. QED
  BY <1>1, Invariance, PTL DEF Spec, EnergyNeverRises
=============================================================================
