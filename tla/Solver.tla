------------------------------- MODULE Solver -------------------------------
(***************************************************************************)
(* What every solve_style promises the application (solve.h): after init() *)
(* or update() has returned, event() picks an event whose propensity is    *)
(* positive, and returns -1 exactly when there is none, so that a sector   *)
(* ends only when it is dead.  The propensities it goes by are those the   *)
(* application has now, however many updates came before.                  *)
(***************************************************************************)
EXTENDS Integers

CONSTANTS
    NEvents,      \* nevents: the events (of a set, its sites) are 0 .. NEvents - 1
    Weight        \* the values a propensity may take

VARIABLES
    propensity,   \* the propensity array of the application
    known,        \* the solver has been told of its present contents
    answer        \* what event() returned, None until it is called

NoEvent == -1
None == -2

EventIds == 0 .. NEvents - 1

Active == {e \in EventIds : propensity[e] > 0}

Init ==
    /\ propensity \in [EventIds -> Weight]
    /\ known = FALSE
    /\ answer = None

(* The application computes some propensities afresh and calls init() or   *)
(* update(); the last answer has been acted upon.                          *)
Change ==
    /\ known
    /\ propensity' \in [EventIds -> Weight]
    /\ known' = FALSE
    /\ answer' = None

(* The call returns.                                                       *)
Learn ==
    /\ ~known
    /\ known' = TRUE
    /\ UNCHANGED <<propensity, answer>>

(* event() returns.                                                        *)
Choose ==
    /\ known
    /\ IF Active = {} THEN answer' = NoEvent ELSE answer' \in Active
    /\ UNCHANGED <<propensity, known>>

Next == Change \/ Learn \/ Choose

Spec == Init /\ [][Next]_<<propensity, known, answer>>
=============================================================================
