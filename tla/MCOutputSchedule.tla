-------------------------- MODULE MCOutputSchedule --------------------------
(* Schedules for TLC: every style, delays and tolerances among them.       *)
EXTENDS OutputSchedule

Every(delta, delay, tol) ==
    [style |-> "linear", delta |-> delta, n |-> 0, scale |-> 0, root |-> 0,
     delay |-> delay, tol |-> tol]
Log(delta, scale, root) ==
    [style |-> "log", delta |-> delta, n |-> 2, scale |-> scale, root |-> root,
     delay |-> 0, tol |-> 0]
LogLin(delta, n, scale, tol) ==
    [style |-> "loglin", delta |-> delta, n |-> n, scale |-> scale, root |-> 0,
     delay |-> 0, tol |-> tol]

(* A delay off the grid, a delay on it, tolerances for a dump and the      *)
(* statistics, a diagnostic without times of its own.                      *)
AllStyles ==
    [dump  |-> {Every(4, 3, 0), Every(7, 0, 1), LogLin(1, 2, 4, 0)},
     diag  |-> {Every(0, 0, 0), Every(3, 0, 0), Log(1, 4, 2)},
     stats |-> {Every(0, 0, 0), Every(4, 5, 0), LogLin(2, 2, 3, 1)}]
=============================================================================
