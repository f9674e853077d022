--------------------------- MODULE OutputSchedule ---------------------------
(***************************************************************************)
(* When a run writes statistics, diagnostics and snapshots (App::run,      *)
(* output.cpp).  Each kind of output has a schedule of times; the loop of  *)
(* the application only asks for output when the earliest of all next      *)
(* times is reached.                                                       *)
(*                                                                         *)
(* Times are integers, so the arithmetic on them is exact.  There is one   *)
(* dump, the statistics, and one diagnostic, which has times of its own    *)
(* (stats no) or is computed whenever the statistics are (stats yes).      *)
(***************************************************************************)
EXTENDS Integers, FiniteSetsExt

CONSTANTS
    Options,       \* Options[o]: the schedules the input script may give o
    MaxTime,       \* bound: no run goes beyond this time
    MaxPower,      \* bound: the highest power of scale and of root
    MaxStep        \* bound: the longest step of the application

Outputs == {"dump", "diag", "stats"}

(* A schedule: times are spaced by delta ("linear"); or grow by a factor   *)
(* of scale, in between by a factor of root ("log"); or are the first n    *)
(* multiples of delta, of delta * scale, ... ("loglin").  Zero as delta is *)
(* a schedule without times; for the diagnostic it means stats yes (stats  *)
(* no without a spacing is left out).                                      *)
Schedule ==
    [style : {"linear", "log", "loglin"}, delta : Nat, n : Nat, scale : Nat,
     root : Nat, delay : Nat, tol : Nat]

ASSUME OptionsAssumption ==
    \A o \in Outputs :
        \A s \in Options[o] :
            /\ s \in Schedule
            /\ o = "dump" => s.delta > 0
            /\ s.delta = 0 => s.delay = 0
            /\ o = "diag" => s.tol = 0
            /\ s.style # "linear" => s.delta > 0 /\ s.scale > 1
            /\ s.style = "log" => s.root > 1

VARIABLES
    schedule,      \* schedule[o]: what the script has set
    kmc,           \* whether the loop is that of iterate_kmc_global()
    time,
    stoptime,
    next,          \* next_time of the dump and the diagnostic, stats_time
    nextoutput,    \* the time at which the loop asks for output
    firstflag,     \* whether no snapshot has been written yet
    pc,            \* between runs, in the loop of a run, or stopped
    written,       \* the outputs of the last step
    snapshot       \* time of the last snapshot of the schedule, or -1

clock == <<time, stoptime, next, nextoutput, firstflag, pc, written, snapshot>>
vars  == <<schedule, kmc, clock>>

Powers(b) == {b^k : k \in 0 .. MaxPower}

(* The beginning of the interval t is in.                                  *)
Start(s, t) == Max({s.delta} \cup {s.delta * x : x \in {y \in Powers(s.scale) : s.delta * y <= t}})

Multiple(t, delta) == (t \div delta + 1) * delta

(* next_time(): the first time of the schedule after t.                    *)
NextTime(s, t) ==
    LET start == Start(s, t)
        tnew  == CASE s.style = "linear" -> Multiple(t, s.delta)
                   [] s.style = "log"    -> Min({start * x : x \in {y \in Powers(s.root) : start * y > t}})
                   [] s.style = "loglin" -> IF Multiple(t, start) \div start > s.n
                                            THEN start * s.scale
                                            ELSE Multiple(t, start)
    IN  Max({tnew, s.delay})

(* stats_flag: the diagnostic is printed with the statistics.              *)
PrintedWithStats == schedule["diag"].delta = 0

(* The next time of o when it is set at time t in a run until stop.  The   *)
(* formula is used for a diagnostic with a spacing of zero as well: its    *)
(* quotient is not a number, of which MAX(tnew, delay) makes the delay.    *)
NextOf(o, t, stop) ==
    LET s == schedule[o]
    IN  IF s.delta > 0 THEN NextTime(s, t + s.tol) - s.tol
        ELSE IF o = "diag" THEN s.delay ELSE stop

(* Variant: the next diagnostic is left out.                               *)
EarliestOfTwo(stop, times) == Min({stop, times["dump"], times["stats"]})

(* tnext: when anything is due next.                                       *)
Earliest(stop, times) == Min({stop} \cup {times[o] : o \in Outputs})

Init ==
    /\ schedule \in [Outputs -> UNION {Options[o] : o \in Outputs}]
    /\ \A o \in Outputs : schedule[o] \in Options[o]
    /\ kmc \in BOOLEAN
    /\ time = 0 /\ stoptime = 0
    /\ next = [o \in Outputs |-> 0] /\ nextoutput = 0
    /\ firstflag = TRUE
    /\ pc = "input" /\ written = {} /\ snapshot = -1

(* stats and dump_modify, between runs.                                    *)
Modify(o) ==
    /\ pc = "input"
    /\ o # "diag"
    /\ \E s \in Options[o] : schedule' = [schedule EXCEPT ![o] = s]
    /\ written' = {}
    /\ UNCHANGED <<kmc, time, stoptime, next, nextoutput, firstflag, pc, snapshot>>

(* dump_one: a snapshot out of turn.                                       *)
DumpOne ==
    /\ pc = "input"
    /\ firstflag' = FALSE
    /\ written' = {}
    /\ UNCHANGED <<schedule, kmc, time, stoptime, next, nextoutput, pc, snapshot>>

(* Variant: every run begins with a snapshot.                              *)
SnapshotAtStart == time >= schedule["dump"].delay

(* setup() writes a snapshot unless there has been one.                    *)
InitialSnapshot == firstflag /\ time >= schedule["dump"].delay

(* run: stoptime, then setup() of the output.                              *)
Run(delta, upto) ==
    LET stop == IF upto THEN delta ELSE time + delta
        dump == IF InitialSnapshot THEN {"dump"} ELSE {}
    IN  /\ pc = "input"
        /\ delta >= 0 /\ stop >= 0 /\ stop <= MaxTime
        /\ stoptime' = stop
        /\ written' = dump \cup {"stats"} \cup (IF PrintedWithStats THEN {"diag"} ELSE {})
        /\ snapshot' = IF InitialSnapshot THEN time ELSE snapshot
        /\ firstflag' = (firstflag /\ ~InitialSnapshot)
        /\ next' = [o \in Outputs |-> NextOf(o, time, stop)]
        /\ nextoutput' = Earliest(stop, next')
        /\ pc' = IF stop > time THEN "loop" ELSE "input"
        /\ UNCHANGED <<schedule, kmc, time>>

(* run with a value that is refused ends the program.                      *)
RunRefused(delta, upto) ==
    /\ pc = "input"
    /\ delta < 0
    /\ pc' = "error"
    /\ written' = {}
    /\ UNCHANGED <<schedule, kmc, time, stoptime, next, nextoutput, firstflag, snapshot>>

(* Variant: the tolerance is subtracted once more for the statistics.      *)
StatsDueEarly(t, done) == t >= next["stats"] - schedule["stats"].tol \/ done

(* sflag of compute()                                                      *)
StatsDue(t, done) == t >= next["stats"] \/ done

(* The outputs compute() performs at time t.                               *)
Due(t, done) ==
    {o \in Outputs : \/ o = "dump" /\ t >= next[o] - schedule[o].tol
                     \/ o = "diag" /\ IF PrintedWithStats THEN StatsDue(t, done) ELSE t >= next[o]
                     \/ o = "stats" /\ StatsDue(t, done)}

Compute(t, done) ==
    LET due == Due(t, done)
    IN  /\ next' = [o \in Outputs |-> IF o \in due THEN NextOf(o, t, stoptime) ELSE next[o]]
        /\ nextoutput' = Earliest(stoptime, IF PrintedWithStats
                                            THEN [next' EXCEPT !["diag"] = stoptime] ELSE next')
        /\ written' = due
        /\ firstflag' = (firstflag /\ "dump" \notin due)
        /\ snapshot' = IF "dump" \in due THEN t ELSE snapshot

(* The end of an iteration that brings the time to t.                      *)
Advance(t, done) ==
    /\ time' = t
    /\ IF done \/ t >= nextoutput
       THEN Compute(t, done)
       ELSE written' = {} /\ UNCHANGED <<next, nextoutput, firstflag, snapshot>>
    /\ pc' = IF done THEN "input" ELSE "loop"
    /\ UNCHANGED <<schedule, kmc, stoptime>>

(* iterate_kmc_global(): an event within the run, or the end of it, when   *)
(* the event would be too late or there is none.                           *)
KmcEvent ==
    /\ pc = "loop" /\ kmc
    /\ \/ \E d \in 1 .. MaxStep : time + d <= stoptime /\ Advance(time + d, FALSE)
       \/ Advance(stoptime, TRUE)

(* iterate_rejection(), iterate_kmc_sector(): a sweep of fixed length,     *)
(* which may end after stoptime.                                           *)
Sweep ==
    /\ pc = "loop" /\ ~kmc
    /\ \E d \in 1 .. MaxStep : Advance(time + d, time + d >= stoptime)

Next ==
    \/ \E o \in Outputs : Modify(o)
    \/ DumpOne
    \/ \E delta \in -1 .. MaxTime, upto \in BOOLEAN :
          Run(delta, upto) \/ RunRefused(delta, upto)
    \/ KmcEvent \/ Sweep

Spec == Init /\ [][Next]_vars

-----------------------------------------------------------------------------
(* Properties.                                                             *)

(* The times at which output with schedule s is wanted, as doc/stats.txt   *)
(* lists them, up to the end of the last run.                              *)
Targets(s) ==
    LET times == CASE s.style = "linear" -> {s.delta * k : k \in 1 .. MaxTime + MaxStep}
                   [] s.style = "log"    -> {s.delta * x : x \in Powers(s.root)}
                   [] s.style = "loglin" -> {s.delta * x * m : x \in Powers(s.scale), m \in 1 .. s.n}
    IN  IF s.delta = 0 THEN {} ELSE {t \in times : t >= s.delay}

(* The output whose schedule o follows.                                    *)
Clock(o) == IF o = "diag" /\ PrintedWithStats THEN "stats" ELSE o

(* Whether a step from time to time' comes to one of the times T of o,     *)
(* less early, from before it less the tolerance.                          *)
Comes(o, T, early) ==
    \E t \in T : time < t - schedule[o].tol /\ t - early <= time'

(* The end of a delay may be a time of output too.                         *)
Allowed(o) == Targets(schedule[o]) \cup {schedule[o].delay}

(* The loop looks at one number, nextoutput, but no kind of output ever    *)
(* misses a time of its schedule, or of the statistics it is printed with: *)
(* each is written by the first step that reaches its time less its        *)
(* tolerance, whatever the other kinds do in the same step.                *)
OutputsOnTime ==
    [][pc = "loop" =>
          \A o \in Outputs :
              LET c == Clock(o)
              IN  Comes(c, Targets(schedule[c]), schedule[c].tol) => o \in written']_vars

(* Nor is any written out of turn, though a step that asks for one kind    *)
(* looks at all of them: the statistics and what is printed with them only *)
(* at times of their schedule less the tolerance and at the end of a run,  *)
(* a diagnostic at its times, and a dump, of which the code subtracts the  *)
(* tolerance twice, not earlier than that makes it.                        *)
OnlyOnTime ==
    [][pc = "loop" =>
          \A o \in written' :
              LET c == Clock(o)
              IN  \/ Comes(c, Allowed(c), IF c = "dump" THEN 2 * schedule[c].tol
                                          ELSE schedule[c].tol)
                  \/ c = "stats" /\ time' >= stoptime]_vars

(* "If multiple runs are performed, the same snapshot will not be written  *)
(* at the end of one run and the beginning of the next" (doc/dump.txt).    *)
(* Nor are two written at one time in a run, but for a dump with a         *)
(* tolerance, of which an event exactly at the stop time and the end of    *)
(* the run can both be in reach.                                           *)
NoSnapshotTwice ==
    []["dump" \in written' /\ (pc = "input" \/ schedule["dump"].tol = 0) =>
          snapshot # time']_vars
=============================================================================
