# SPPARKS in TLA+

SPPARKS is a parallel kinetic Monte Carlo (KMC) code: an *application* defines
sites, their values, the propensities of events and what an event does; a
*solver* picks events; the *driver* runs the loop, cuts the domain into
processes and sectors, and exchanges ghost sites; *output* is written at
scheduled times. This directory specifies its protocols and core algorithms,
checks them with TLC on small instances and proves the central results with
TLAPS for every instance.

Source paths below are relative to `src/` of the repository; the documents are
in its `doc/`.

## 1. Inventory

### Components, their state and their operations

| Component | Source | State | Operations |
|---|---|---|---|
| On-lattice driver | `app_lattice.cpp` | site values (owned and ghost), sets (sectors, colors) with site lists, borders and propensities, time, dt_kmc, masks | `init`, `setup`, `iterate_kmc_global`, `iterate_kmc_sector`, `iterate_rejection`, `create_set`, `find_border_sites`, `boundary_clear_mask` |
| Lattice communication | `comm_lattice.cpp` | swaps: what is sent to and received from whom, per sector, forward and reverse | `init` (builds the swaps by a ring exchange), `all`, `sector`, `reverse_sector`, `all_reverse` |
| Off-lattice driver and communication | `app_off_lattice.cpp`, `comm_off_lattice.cpp` | a table of owned, ghost and free slots, bins as doubly linked lists, periodic images | `move`, `new_owned_site`, `new_ghost_site`, `delete_owned_site`, swaps of bins before and after a sector |
| Applications | `app_*.cpp` | nothing but site values, and in the diffusion family a pool of events | `site_energy`, `site_propensity`, `site_event`, `site_event_rejection` |
| Solvers | `solve*.cpp`, `groups.cpp` | a copy of the propensities organised as array, tree of sums, or groups; totals and counts | `init`, `update` (one or many), `resize`, `event` |
| Domain and sites | `domain.cpp`, `create_box.cpp`, `create_sites.cpp`, `lattice.cpp`, `region*.cpp`, `read_sites.cpp`, `set.cpp` | box, process grid, sub-domain bounds, neighbor lists | creation commands |
| Output | `output.cpp`, `dump*.cpp`, `diag*.cpp`, `app.cpp` (`run`) | for each kind: spacing, next time, delay, tolerance; stop time of the loop | `setup`, `compute`, `next_time`, `dump_one`, `dump_modify`, `stats` |
| Script | `input.cpp`, `variable.cpp`, `universe.cpp` | position in the script, labels, variables; a counter file shared by partitions | `variable`, `next`, `jump`, `label`, `if`, `run` |
| Collective algorithms | `irregular.cpp`, `cluster.cpp` | send plans; cluster identities | `create`, `exchange`; merge of clusters |
| Support | random numbers, timers, memory, errors, image, pair potentials, shell, library, Python | | no protocol |
| Third party | `lib/stitch` (with SQLite), `src/STUBS` | | |

### How they interact

`run` (`app.cpp`) computes the stop time and calls the driver's `setup` and
`iterate`. `setup` makes all ghosts current, computes all propensities, calls
`solve->init` for every set and `output->setup`. `iterate_kmc_sector` then works
in sweeps. For each sector a process

1. exchanges ghost values with its neighbours (`comm->sector`),
2. recomputes the propensities of the sector's border sites and hands them to
   the solver (`solve->update`),
3. repeats `solve->event` and `app->site_event` with no communication until
   the sector's time is used up (each `site_event` calls `solve->update` for
   the site and its neighbours), and
4. sends back ghosts its events changed (`comm->reverse_sector`; not for
   applications with `delevent = 0`).

After a sweep the time advances by `dt_kmc`, `output->compute` may run (with
reductions over all processes), and adaptive runs reduce the largest propensity
to choose the next `dt_kmc`. Between those reductions nothing but the ghost
messages orders the processes. Partitions of a multi-partition run share only
files.

### What is hard about it

* **Concurrency.** Processes run events on overlapping copies of the lattice.
  What keeps the copies consistent is geometry (sectors of one number never
  touch) and the order of messages; no lock, barrier or test in the code.
* **Partial refresh.** Propensities are cached and refreshed in parts: border
  sites after a swap, neighbours after an event. Solvers hold a second copy,
  and sums of it, refreshed in parts as well.
* **Ordering.** All messages have tag 0; the matching of a message with its
  sector depends on every process sending in the same order.
* **Agreement.** Each process decides for itself when the loop ends and which
  collective comes next.
* **Schedules.** Four output schedules with delays, tolerances and several
  spacings share one wake-up time.
* **Boundaries.** Thin sub-domains, draws on the boundary of two subtrees,
  lists that are full or become empty, propensities of zero.
* **Slots that move.** An off-lattice site is known by its slot, and deleting one
  renumbers another while the caller walks along its list.
* **Events on ghosts.** A hop changes a site another process owns; the
  change travels back after the sector, past forward copies of older values.
* **Shared files.** Partitions take values from a counter file under a lock
  made of `rename`.

What makes each component correct, in a sentence:

* driver and communication: a parallel run is a serial KMC run of the whole
  lattice (every event is one the whole lattice allows at that moment), and it
  ends;
* solver: it picks an event of positive present propensity, in proportion to
  it, and reports none exactly when there is none;
* output: what is due is written by the first step that reaches its time, and
  only then;
* universe variables: every value is used by exactly one partition, and every
  partition ends;
* off-lattice site table: the bins partition the owned sites and their ghosts, no
  slot is lost, and no site is lost or doubled by an exchange;
* reverse communication: an event on a ghost reaches the owner before any other
  process reads the site, so atoms are conserved;
* rejection sweeps: sites swept at the same time do not see each other, a
  site is skipped only if a trial could not change it, and `color/strict` gives the
  answer of one process on any number of them.

`PROJECT.json` lists the hazards, each at its line, with the properties that
cover it.

## 2. Modules

| Module | What it is | Code |
|---|---|---|
| `Ising` | the application: energy, propensity, event | `app_ising.cpp` |
| `LatticeKMC` | **abstract**: what any KMC run promises about the lattice | `app_lattice.cpp`, `iterate_kmc_global` |
| `Decomposition` | owner and sector of a site of a line or square lattice | `domain.cpp`, `create_sites.cpp`, `app_lattice.cpp` `create_set` |
| `SectorKMC` | the sector protocol on all processes; composes `Ising`, and refines `LatticeKMC` | `app_lattice.cpp`, `comm_lattice.cpp` |
| `MCSectorRing`, `MCSectorSquare` | instances for TLC: a periodic line, a periodic rectangle | |
| `SectorKMC_proofs` | theorems about `SectorKMC` | |
| `Solver` | **abstract**: what any solver promises | `solve.h` |
| `SolveTree`, `SolveTree_proofs` | the tree solver, which refines `Solver` | `solve_tree.cpp` |
| `GroupBins` | the partition of propensities into groups | `groups.cpp` |
| `SolveGroup`, `MCSolveGroup`, `SolveGroup_proofs` | the group solver, which refines `Solver` | `solve_group.cpp`, `groups.cpp` |
| `Diffusion` | the application whose events change two sites: hops, their energy, event lists | `app_diffusion.cpp` |
| `Hopping` | **abstract**: a serial run of hops and depositions | `app_diffusion.cpp` |
| `HopKMC`, `MCHopKMC`, `HopKMC_proofs` | hops across sectors and processes, the swaps forward and back, depositions in batches; composes `Diffusion` and `Decomposition`, and refines `Hopping` | `app_lattice.cpp`, `comm_lattice.cpp`, `app_diffusion.cpp` |
| `Potts` | the application's rejection event and the rule that masks a site | `app_potts.cpp` |
| `RejectionKMC`, `MCRejectionKMC`, `RejectionKMC_proofs` | `iterate_rejection` with sectors, colors, masks and streams per site; composes `Potts` and `Decomposition` | `app_lattice.cpp`, `lattice.cpp` |
| `SiteLists`, `SiteTable` | owned, ghost and free slots, bins as linked lists, images; in `SiteTable` the calls that may grow the arrays | `app_off_lattice.cpp` |
| `Relaxation` | **abstract**: a serial run of moves that do not raise the energy | `app_relax.cpp` |
| `OffLattice`, `MCOffLattice`, `OffLattice_proofs` | the off-lattice driver and its exchanges; composes `SiteTable`, and refines `Relaxation` | `app_off_lattice.cpp`, `comm_off_lattice.cpp` |
| `OutputSchedule`, `MCOutputSchedule` | when output is due and written | `output.cpp`, `diag.cpp`, `app.cpp` |
| `UniverseVariable`, `UniverseVariable_proofs` | the counter file of universe variables | `variable.cpp` |
| `Sums` | the sum of a function over a finite set | |
| `DataLemmas` | lemmas about naturals, recursive functions, sums, queues and rows of sites, used by the proofs; the lists of `SiteLists` and theorems about its operations | |

Definitions named *Variant* in their comment are mutated forms of the
definition that follows them; no specification uses them. They record, for each
property, a plausible mistake in the code that the property detects.

### SectorKMC and the code

| Model | Code |
|---|---|
| `val[p][i]` | the entry of site `i` in the site array of process `p`, owned or ghost |
| `prop[i]` | `propensity[]` of `i` in the owner's set, which is also what its solver knows |
| `pc`, `phase` | where a process is in `iterate_kmc_sector`; `phase` counts sectors done, so sector and sweep are its remainder and quotient by `nset` |
| `msgs` | messages between `MPI_Send` and the unpacking; `stamp` is ghost information that orders them |
| `time`, `dt` | `time`, `dt_kmc`, in integer units |
| `Send`, `Receive` | `comm->sector`, and the refresh of border sites after it |
| `Event` | `site_event` with its `solve->update` |
| `NextSector`, `EndSweep` | the end of the event loop, by time or because `event` returned -1; the end of a sweep |
| `Output`, `Allreduce` | the collectives at the end of a sweep |

The durations of events are abstracted: a sector may end at any moment, since
the random time increments allow it. The lattice, the number of processes, the
owner and the sector of each site are constants; `Decomposition` computes them
as the code does, and TLC runs use it. `Ising` codes a propensity by a natural
number that tells apart exactly the values the function can return.

Some swaps have no partner: a process that has no ghosts in a sector receives
nothing, and the model keeps that (`Traffic` may be empty), because it is what
lets processes drift apart.

### HopKMC and the code

| Model | Code |
|---|---|
| `lat[p][i]` | `lattice[i]` of process `p`, owned or ghost; `Unknown` where it has no copy |
| `events[i]` | the chain of events of site `i` in the pool, as a set |
| `SendForward`, `Acquire` | `comm->sector` in two steps, and the refresh of the border |
| `Hop`, `TryHop` | `site_event_linear` with `update_propensities`; `site_event_rejection` |
| `EndSector`, `Collect` | `comm->reverse_sector` in two steps |
| `Tally`, `AppUpdate` | a deposition event in batch mode; `app_update`, all processes together since it reduces and broadcasts |

The refresh goes two layers deep because the propensity of a hop depends on the
neighbors of its target (`delpropensity = 2` with linear energy, `delevent = 1`):
`delghost`, `delreverse` and `BorderLayers` are computed from these as in the code. `Truth` is
the ghost variable that says which of the copies of a site counts: that of the
process whose sector may change it, else one on the way to the owner, else the
owner's. Through it `HopKMC` refines `Hopping`. The site to deposit on is found by the
code's geometric test along a trajectory; here a path lists the sites within its
capture distance in the order it meets them. `Merged` is the exchange by halves that finds the
closest of all processes, with the `nsplit` of the code for numbers that are no power of two.

### RejectionKMC and the code

`sets` counts the sets (sectors or colors) a process has been through, `left` the attempts it
has left in the present one; `mask`, `used` and `stream` are `mask`, the state of
`siteseeds` as the count of numbers drawn, and the numbers themselves. One
action per attempt. A random sweep may come to any site of the set; an ordered one comes to the
sites by `turn`, how many sites of the set are before one by local index, color by color if
there are sectors too. `answer` holds what a serial run with the same
streams gives after each set; it is the reference for `color/strict` only and is never
read by an action. `Potts` decides by the number of unlike neighbors, as the code does.

### OffLattice and the code

A site table (`SiteLists`, `SiteTable`) is a record with the fields of the class (`nlocal`, `nghost`, `nmax`,
`freehead`, `id`, `xyz`, `bin`, `next`, `prev`, `nextimage`, `binhead`), and its
operators are the class's functions, each a composition of the same pointer
assignments. `Forward` is `comm->sector`, `TryMove` `site_event_rejection` with `move`,
`ReverseSector` the migration of sites that left. Both exchanges have barriers
inside and touch the tables of a process from its own messages only, so each is one
step of all processes. Coordinates are integers. Five details:

* the list of random choices (`sitelist`) is not kept: a choice is drawn when it is tried, so nothing is said of
  the room in that array (section 4);
* the error exits of `move` and `site2bin` ("PBC remap of site failed", "Site not in my bin domain") are left out: a move is shorter than a bin, by `BinAssumption`, and cannot reach them;
* the periodic images of a site are listed in one fixed order, where the
  code's depends on the order of its loop over bins;
* with a random sweep any site of the sector may be tried, so an ordered sweep
  with `nstop = 1` is one of the behaviours;
* the temperature is zero, and the energy counts the sites within reach, the least that makes moves depend on
  each other.

### The solvers and the code

`SolveTree` follows the loops of `init`, `sum_tree`, `set` and `find` one
iteration per action; `SolveGroup` has one action per element of an `update` and
per trial of `sample`. The draw `r2*sum` is a real number compared only with
integers, so it is modelled by its integer part (or the next integer, where the
comparison is `<=`). In the tree sums are recomputed, never adjusted, so integers
are faithful to the rounding too, but for the last place. The group solver
adjusts its totals by differences, which in floating point drift; its model is
exact, and says so. The state of an abstract `Solver` is the application's
propensity array, whether the solver has been told of it, and its last answer.

### OutputSchedule and the code

`Run` is `App::run` with `Output::setup`; `Advance` the end of an iteration,
with the test `time >= nextoutput` and `Output::compute`. Two actions stand for
the loops: `KmcEvent` never passes the stop time, `Sweep` may. Times are integers;
the tests with EPSILON in the code exist to make floating-point times behave so.
A diagnostic with `stats no` is given a spacing. One printed with the statistics (`PrintedWithStats`) has no spacing; `setup` puts it through the
schedule formula all the same, and `MAX(tnew,delay)` turns the NaN of its quotient into a next time of zero.
The first iteration of every run then asks for output without need; `OutputsOnTime` and `OnlyOnTime` say that
nothing is written for it out of turn.

### UniverseVariable and the code

One action per file operation of `next`; `Rename` has the semantics of
`rename(2)`. `Set` is the `variable` command at the start of the script, which also
creates a file. The model has the two file names the code has.

## 3. Runs

Every run finishes within two minutes. A dimension with fewer than three sites (the two columns of
`column`) is not periodic: on a periodic one `create_sites.cpp:569` lists the one neighbor twice and its energy
counts twice, which `Beside`, a set, does not say.

| Run | Instance | What it shows |
|---|---|---|
| `ring` | 9 sites, 2 processes, 2 sectors, T = 0, adaptive `dt_kmc`, an output in the middle; the cut is uneven, and one sector has a site that is not on its border | types; cached propensities are true, also of sites that are never refreshed; processes agree on time, exit and collective; the run implements `LatticeKMC` |
| `column` | 2 x 6 sites, 1 x 3 processes, 4 sectors, T = 0, fixed `dt_kmc`, so that no collective orders the sweeps and some swaps have nothing to carry | ghosts are current while a sector runs; skew and queues are bounded; running sectors never touch; the message a receive takes is the one for its sector; the energy never rises; with fairness, every process ends |
| `tree` | 5 events (8 leaves, 3 of padding), batches of up to 2, all draws | the tree is exact at rest; an event is chosen on exactly its own share of the total; contract; every call returns |
| `group_cascade` | 3 events, 2 cascading groups, propensities below, inside and above the bounds | lists, indices and sums agree; contract |
| `group_chances` | 3 events, 3 equal groups | **violation**: chances are not proportional to propensities |
| `output_on_time` | schedules of all three styles, with delays, a tolerance for the statistics and for a dump, a diagnostic with and without times of its own, several runs | outputs on time; only on time, where a dump may be twice its tolerance early, as the code has it; no snapshot twice |
| `hop` | one row on 1, 2 and 3 processes of 2 sectors, with a solver and by rejection, 2 or 3 atoms, 1 or 2 sweeps, one deposition a sweep | event lists are those of the whole lattice; the run implements `Hopping`, so atoms that cross are neither lost nor doubled; a deposition goes to the closest site of all processes |
| `batch_deposits` | 2 processes, two depositions in a sweep | **violation**: two depositions are counted and one atom is added |
| `rejection` | 4 x 4 to 4 x 8 and 3 x 3 sites, 1 to 4 processes, random, ordered, colored and strict sweeps, masks with T = 0, also in a strict sweep | masked sites could not change; the run is a serial one; `color/strict` gives the answer of one process |
| `off_lattice` | 3 sites that move, 2 processes with 4 sectors, 1 process with 4 sectors, 1 process without sectors but with periodic images; two runs | the code's own test `check()` passes; slots are accounted for; every site has one owner and is in one of its sectors; the run implements `Relaxation` |
| `universe_file` | 3 partitions, 5 values, the counter file in place | exclusive lock, no value twice, every value consumed |
| `universe_no_file` | 2 partitions, 3 values, an empty directory | **violation**: every partition polls for ever |

**Bounds.** `StopTime` bounds the number of sweeps (two or three): a process gets
ahead of another by at most one round of sectors (`SkewBounded`), so two rounds
contain every kind of overlap. `OutputTimes` places a collective between two
sweeps. Lattices are the smallest in which the case in question exists: a
process with two different neighbours (three in a column), a sector with an
interior site (three sites of one line), an empty swap (processes in one column
only). `MaxBatch` bounds the batches of an update; two suffice for two walks
that share a node, or a node both children of which changed. In
`OutputSchedule`, `MaxTime` bounds the runs, `MaxStep` a step of the application
and `MaxPower` the powers of a logarithmic schedule, chosen so that the powers
reach past `MaxTime`. `Init` of a solver ranges over all propensity arrays.
In `HopKMC` sectors are as narrow as they may be, three sites (with two, `EventsTrue`
fails), with atoms at the lines between them; one process of 14 sites has sites that are on no
border; two events in a sector (`StopEvents`) take an atom over an edge and a
second one after it, and two sweeps bring it back into the first sector. Three processes are the
least that is no power of two. In `RejectionKMC` the lattice starts from
a square of the other spin where all processes meet, and `StopSweeps = 2` lets a
mask of the first sweep be used in the second; the stream of a site has
two or three numbers, used over and over. In `OffLattice`, `DELTA = 2` (10000 in the code)
makes tables grow within an exchange, three sites are enough for a renumbering
of a site that is next to the deleted one or in another bin, and moves of one unit in
two directions cross every kind of boundary; the second run bins again with ghosts in the table.
Deadlock is checked except in `OutputSchedule` (the last run may end at
`MaxTime`) and `UniverseVariable` (scripts end).

**Fairness.** `SectorKMC!FairSpec`: an MPI process that is not waiting goes on, and a
sector ends because the time increments of its events are positive and their sum passes
`dt_kmc` (or no event is left); both are weak fairness. No fairness is
assumed of `Event`. `SolveTree!FairSpec`: a call in progress goes on.
`UniverseVariable!FairSpec`: weak fairness of each partition; a partition may lose the race
for the lock again and again, but there are finitely many values, and when all
others are done the lock is free for good. `HopKMC`, `RejectionKMC` and `OffLattice`
assume none: their properties are safety properties, and the deadlock check shows
that no state but the end of the run is one where everybody waits.

## 4. Findings

With a run that shows it:

1. `groups.cpp:208` (`group_chances`): after a rejection the loop of `sample` chooses the
   group again rather than another member of the same group, so chances are not
   proportional to propensities unless all groups have the same mean fill.
2. `variable.cpp:184` (`universe_no_file`): the counter file is created under the name
   `tmp.lammps.variable` and looked for under `tmp.spparks.variable`.
3. `app_diffusion.cpp:1076` (`batch_deposits`): all depositions of a sweep look for their sites
   before any is made; two can find the same one, and both are counted.

Seen while modelling, without a run (a reader of the code can confirm each at its line):

* `output.cpp:184`: the tolerance of a dump is subtracted when the next time is
  computed and once more when it is tested, so a snapshot comes up to twice the tolerance early (`OnlyOnTime`
  bounds it by that), and may be written at several steps for one target, with an event exactly at the stop time even
  twice at one time. `doc/dump_modify.txt:236` allows the tolerance once; the statistics have it once.
* `app.cpp:125`: `run upto` an earlier time is not refused; the test compares the
  time asked for with zero instead of the present time.
* `app_lattice.cpp:958`: the sector protocol needs two sites across each divided
  dimension of a sub-domain (six with two layers of ghosts and events on two sites) and does not test it.
* `app_lattice.cpp:146`: `mask yes` is not refused at a temperature above zero, where a masked
  site could change; masks are also kept from one run to the next while `set`
  may change the sites between them.
* `lattice.cpp:233`: `id2color` assigns no color on `line/2n`, for which `ncolors`
  returns two.
* `comm_lattice.cpp:149`: with colors and events on two sites `all_reverse` sends
  every ghost back, those that nobody changed among them.
* `app_off_lattice.cpp:849`: two sectors in two dimensions cover the lower half in y only, where
  `doc/sector.txt:47` has "2 sectors (x only)". With such a layout TLC finds `OneOwner` false at the start;
  the run has no such layout.
* `app_off_lattice.cpp:1442`: deleting the last owned site links it back into its bin
  before its slot is freed. The calls that do so are followed by `delete_all_ghosts` and
  only ever concern ghost bins, so it does no harm (`ListsAreChecked`); `RenumberingKeepsLinks` leaves the case out.
* `app_off_lattice.cpp:546`: `sitelist` is allocated for the sites a process owns when a run begins and
  filled with as many choices as the sector asks for; after migration, or with `nstop` above one, that can be more.
  The comment at line 291 says that it should be allocated in the loop.
* `solve_tree.cpp:95`: `ntotal` is an int, so the test `ntotal > MAXSMALLINT` can never be true; `nround`
  overflows, or is cut to 32 bits when it is assigned, before that.
* `comm_off_lattice.cpp:720` and `:1019`: per-site arrays are packed and unpacked at the
  index of the loop and not at that of the site; the one application uses none.
* `app_diffusion.cpp:1463`: in two dimensions a loop over periodic copies decrements the
  other dimension's counter too.
* Random trials of `app_diffusion.cpp` choose a neighbor by `maxneigh` and read past
  `numneigh` on lattices where that differs from site to site.

## 5. Proofs

All proofs are checked by TLAPS with no assumption but the named ones of the
modules (`LatticeAssumption`, `SectorAssumption`, ...), which TLC also evaluates.

**SectorKMC_proofs** assumes `SectorsApart`: neighbouring sites of different
processes are in sectors of different numbers. It is a condition on the
decomposition and not on the protocol. The code does not test it; on the
lattices of `Decomposition` it holds when both halves of every
divided sub-domain hold a site, and with one site per process sectors of one number
do touch. For square lattices `SquareSectorsApart` (below) proves it from the sizes. The
inductive invariant `IInv` has seven parts: types; `Causal` (a message received
has been sent); `InTransit` (what is sent and not received is in `msgs`, once);
`ContentsCurrent` (a message still shows what its sender has); ghosts of
running sectors are current and local propensities agree with the memory of their process;
and the time bound of adaptive runs. `GhostsCurrent` alone is not inductive: the values
come from messages, and a message stays true only because its sender cannot
reach the sector the values are from before the receiver is done. The argument
is at the head of the module. It yields

* `TypeCorrect`, `GhostsStayCurrent`, `EventsDoNotConflict`, `PropensitiesStayTrue`;
* `InteriorStaysTrue`: only border sites are refreshed, and every neighbor of the others
  belongs to the same process, whose memory their propensities agree with;
* `MessagesMatchSectors` and `SkewStaysBounded`, from `Causal` and `InTransit`: what a process has
  received bounds how far its neighbors can be;
* `TimesStayEqual`, from a part of its own: processes in the same sweep have the
  same time and step, and none is past a collective the others have not entered;
* `EnergyFalls`: at temperature zero no step raises the energy of the whole lattice. An
  event is a step of `SerialKMC`, and a change at one site changes the energy by
  what it changes at the site and at its neighbors, twice the difference of the site's own;
* and
* `ImplementsSerialKMC`: `Spec => SerialKMC`, the refinement of `LatticeKMC`, in
  which `Event` maps to an event of the serial run and every other action to a
  stutter.

**SolveTree_proofs** proves the type invariant (no loop leaves the array),
`TreeStaysExact` and `ImplementsSolver`. The invariant says which nodes hold the
sum of their children in the middle of each loop: all below `i` during `sum_tree`,
all but the ancestors of the leaf during an update; and, during `find`, that the
remaining value is positive and at most the sum at the current node, so that it cannot
end in a padding leaf or a leaf of zero. That a positive total means an active
event is proved by descending to a least index (`LeastElement` of `DataLemmas`), which replaces
an induction. `DrawsHitTheirEvents` says that the draws that end at an event are exactly those of
an interval as long as its propensity. A node at level k above the leaves spans a run of
2^k leaves, a sum tree has at each node the sum of its span (`SubtreeSums`, again by a
least counterexample), and while `find` descends the draw is the remaining value plus the
sum of all leaves before the span (`Placed`).

**SolveGroup_proofs** proves, for every partition into groups that satisfies
`GroupAssumption` (`GroupBins` shows the partitions of the code to TLC):

* the types (no list is indexed outside its bounds, lists grow in time) and
  `ListsStayInverse`;
* `SumsStayExact`: the total, the total of every group and the number of active events
  are those of the propensities at rest. In the middle of an update they are those of
  what the solver has been told so far (`Told`), which is the
  strengthening that makes it inductive;
* `ImplementsSolver`: `Spec => SolverContract`. An answer comes out of a list, and lists hold
  active events only; there is none only when the total is zero, and then, the total being
  exact, no event is active.

The sums are the recursive folds of the community modules. What a proof needs of them, that they
exist, do not depend on the order, and change by the difference when one summand changes,
is proved in `DataLemmas` by smallest counterexamples over finite sets instead of an induction
theorem.

**UniverseVariable_proofs** proves `TypeCorrect`, `MutualExclusion` and `ValuesAreRunOnce`, for any
number of partitions and values. The invariant relates the holder of the lock
to which file exists, and says that whatever number is in a file, or is about
to be written to one, is above every value that has been run.

**DataLemmas** ends with the operations of `SiteLists`, about which it has theorems of their
own. `LinkedBothWays` says of a set of slots that heads, `next` and `prev`
agree, that links stay in the bin, and that a numbering exists along which `next` ascends,
so that no list runs in a circle. `DeletedIsUnlinked` and `AddedIsLinked` keep it with one
slot less or more; `RenumberingKeepsLinks` keeps it when `delete_owned_site` copies
the last site into the hole, wherever the two are in their lists; `WalkGoesOn` says that
the value it returns is where the next site of the walk is now. They hold for any number of
slots, bins and sites. The last slot is excluded (see section 4).

**OffLattice_proofs** proves the four invariants of `off_lattice` for every grid of processes, any
number of sites and sizes of a sub-domain, every potential's reach and every step of the moves:
`TypeCorrect`, `ListsAreChecked` (`check()` never fails), `NoSlotLost` and `EachHasOneOwner`. The
invariant `Inv` has four parts.

* `Stage` says which lists a table has. Between sectors it is `Settled`: each owned site is in the list
  of its bin, whatever is left of the ghosts. While a sector runs it is `Equipped`: a set of slots is in
  the lists, every other slot is in the free list, and each site is in the bin of its position (`Fitted`).
  `CheckPasses` says nothing of the free list, and `SlotsAccounted` nothing of the positions; neither is
  inductive without the other, since a slot in both lists would be handed out by the next call that takes one.
* `InReach`, in `Equipped`: the owned sites in a ghost bin are in one that the sector's reverse swap
  sends back. A site that is tried is still in the sector (`in_sector`), so it has not crossed the mid-plane
  of the sub-domain, and a move is shorter than a bin; hence it can be outside in the direction of
  its sector only. That is why the reverse swap empties every ghost bin, and why `check()` finds
  no owned site there. Without sectors `AtHome` and `Imaged` take its place: the site is wrapped back
  at once, and the chain of its images is what its position calls for.
* `Ledger`: no two slots of owned sites have the same site, and the processes share the sites between
  them. Across the migration it says what is sent: the sites packed by `Drain`, in any of the messages
  of a process, are those it no longer owns (`Drained`, then `BroughtBack` for a process that is its own
  neighbor through the periodic boundary).
* `Chooses` and `Counters`: the sites to try, the sector, sweep and run.

A walk along a list is a recursive function (`Chain`). That it meets the linked slots, each once, is got
from the numbering of `LinkedBothWays` by a smallest counterexample. The loops of the code that change the
table while they walk it are folds; `FoldValues` of `DataLemmas` keeps an invariant along a fold, and every loop over
sites, bins and messages cites it.

The proofs rest on the named assumptions of the modules: `LayoutAssumption` and `MoveAssumption`;
`StartAssumption`, that the sites are in the box at the start, which `create_sites` and `read_sites` test;
`BinAssumption`, the error of `init_bins` for a sub-domain narrower than its bins; `DeltaAssumption`.
`EachHasOneOwner` has the hypothesis that no layout has two sectors, which leave the upper half of a
sub-domain in no sector (section 4); `OwnersAtHome` is what remains of it for any number of sectors: one owner,
and the one in whose sub-domain the site is.

**RejectionKMC_proofs** has four parts.

* About `Potts`: a site is masked when more than half of its neighbors are like it
  (`MostlyAlike`); then every other spin is unlike more of them and costs energy, which
  is what `Uphill` says of it (`MaskedSpinsAreFrozen`), and a trial at temperature zero
  keeps the spin (`MaskedSitesKeepTheirSpin`).
* About `Decomposition`: on a square lattice sectors of one number of different
  processes do not touch (`SquareSectorsApart`), whatever the size of the lattice and of the
  process grid, if every divided dimension has two rows of sites a process. This is
  the hypothesis `WideEnough` of the rest, and what the code needs and does not test.
* About the sweeps: `TypeCorrect`, `MaskedStayFrozen` and `SweepsAreSerial`. The invariant
  has six parts: types; `Causal` and `InTransit` as for `SectorKMC`; `GhostsCurrent`, that a
  process sees the true spins of all neighbors of the sites of its present set;
  `MasksHold`, that a masked site is mostly among its like in the memory of its owner, while
  the owner sweeps its set and at all times if all its neighbors are in the set; and `RunBounded`. `MaskedAreFrozen` alone is not inductive: a
  neighbor on another process may change after the mask was set, and what makes the mask
  harmless is that the site is not visited again before the swap that clears it. With
  colors the argument is about `id2color` instead of sectors: neighbors differ in
  color, and all ghosts are swapped.
* About `color/strict`: `AnswersAgree`, that the answer is that of one process. The
  reference is recursive over single attempts, in the order of local indices. Since neighbors
  differ in color, the order within a set does not matter (`SetInOrder`), and the run of one process is a
  sequence of whole sets (`History`). `Follows` is the invariant: a site that has been through `n`
  sets has the spin, and has used as many random numbers, as in the reference after `n` sets. A ghost may be
  ahead of the process that reads it, but by one set at most, and that is a set of the
  color of the reader's site, which leaves the ghost as it is (`NeighborsFollow`). With masks the
  answer would depend on how many numbers a site uses, but no site is ever passed over: each has
  neighbors in the other set, so `boundary_clear_mask` clears them all (`NothingSkipped`).

A type bound that TLC had accepted turned out not to hold in general: a queue of
two messages between two processes. When a sub-domain is divided in one dimension
only, a process may run ahead through sectors in which its
neighbor has nothing to receive from it; `TypeOK` no longer speaks of it.

**HopKMC_proofs** proves all five properties of the two runs of `HopKMC`, for every row of sites, any
number of processes, starts, trajectories and interleavings of messages:

* `TypeCorrect` and `EventsStayTrue`, under `WideEnough`: where there is more than one process, each
  half of a sub-domain has three sites (`6 * px <= nx`). It is what makes sites of sectors
  of the same number more than three apart on different processes (`SectorsFarApart`), one being
  what an event changes and two what a propensity depends on; with less TLC finds
  `EventsTrue` violated;
* `ImplementsHopping`, `ClosestIsDeposited` and `AtomsAreKept`, under `WideEnough` and
  `StopBatch <= 1`, since two depositions of one sweep may be given the same site: `batch_deposits`
  shows that `AtomsKept` fails without it.

The hard part is that there are several copies of a site and no moment at which all processes are at
the same place. The invariant has these parts:

* `Types` and `RunBounded`. With a solver all are in the same sweep, by the reduction in
  `AppUpdate`; by rejection nothing but messages holds them together;
* `Causal` and `InTransit`. Legs are numbered: `2t` before sector `t` of a run, `2t + 1` after it. `Out` and
  `In` count those a process has sent and received, and the messages between two
  processes are those of the legs in between, in order, each of the sites of
  its leg (`Holds` of `DataLemmas`). What was sent forward still agrees with the memory of its sender
  (`Current`), since the sender owns it and, until it is taken, may not change it;
* `GhostsCurrent`: while a sector runs, its ghosts that no event of it can change agree with their owners;
* `Lists`: `EventsTrue`, and `InteriorTrue`, the same at all times for sites that are not on
  the border of their sector and so are never refreshed before it.

From these follows who may have another value of a site than its owner: one process at most, in the
sector it is in or in the last message of a reverse swap (`AwayInRound`, `AwayOnce`). So `Truth` is well
defined (`TruthOf`), a process in a sector sees it on all sites its events depend on
(`SeenIsTrue`), sending, receiving and unpacking leave it as it is (`SendForwardTruth` to
`CollectTruth`), and a hop in the memory of one process is a hop of `Truth` (`HopTruth`). The reduction is
shown to be defined by unfolding it `px` times (`ReductionExists`), and that its result is the
least by a smallest counterexample over `nsplit` (`MergedOf`).

**Only model-checked:** liveness (`Termination`, `CallsReturn`, `AllValuesConsumed`), since TLAPS has no
ENABLED or fairness; `OutputSchedule`, whose target times are powers up to `MaxPower`, for which the
provers have no arithmetic; and `SerialRelaxation`, the refinement of `Relaxation` by `OffLattice`. The
invariants of `OffLattice_proofs` say where every owned site is; the refinement needs as much of the ghosts:
that the copies a process has are those of all sites within reach of its sector and are current, so that the
energy compared before and after a move is the energy of the serial run.

The modules use no RECURSIVE operators, since TLAPS cannot use modules that have
them; recursion is written as recursive functions and folds. The library's induction theorems
take an operator as a parameter, which no backend here can instantiate; where a proof needs an
induction it takes a smallest counterexample (`LeastElement`) instead.

## 6. Not modelled

* The linear solver: one sum and one scan; what could go wrong in it is
  round-off in a total adjusted by differences, which needs floating point.
* How the swap lists are built round the ring of processes: the models start
  from its result. The pool in which the diffusion application keeps events: events of a site
  are a set. Hops with barriers, nonlinear energies and Schwoebel hops.
* Off-lattice runs in one and three dimensions, packing of per-site arrays.
* Script control flow; clusters; irregular communication.
* Most of the repository's lines are the SQLite source in `lib/stitch` and numerical
  energy functions; the share of lines the models cover is small for that reason.
* Energy models of the other applications, melt-pool geometry, pair
  potentials, random number generators: floating-point mathematics without a
  protocol. Random draws are nondeterministic choices.
* File formats, image rendering, timers, memory, the library and Python
  interfaces, the stitch database: input and output, or third party.
* Loss of messages and death of processes: MPI delivers, and the job ends when a
  process dies. A partition that dies with the lock held is outside the model.
* Warnings the group solver counts (`nlo`, `nhi`, `lomax`, `himax`).

## 7. Plan

The order put the protocol that everything depends on first. Done: the sector core,
the tree and group solvers with their common contract, the output schedule,
universe variables, events on two sites with reverse communication and depositions,
rejection sweeps, the off-lattice driver with its site table. Open:

1. `GhostLists`: how `create_swap_sector`, `create_send_from_recv` and `create_recv_from_send`
   build the swaps round the ring of processes; abstract specification: the lists
   `HopKMC` starts from, on lattices where a ghost is reached through another sector.
2. `EventPool`: the chains of `app_diffusion.cpp` and the free list, under `Refreshed`
   of `HopKMC`; theorem: they partition the pool.
3. `Script`: `jump`, `label`, `next` and `if`, composed with `UniverseVariable`.
4. `SolveLinear` with arithmetic of few significant digits; `ClusterMerge`, `IrregularPlan`.
5. `SerialRelaxation`, the last property of `OffLattice` without a proof: that the exchange before a sector
   copies every bin within reach of it (from `Arrivals` and `SectorGhost`), and that the copies stay current
   while the sector runs, since sectors of one number are a bin apart (from `InReach`).
