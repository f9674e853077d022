-------------------------- MODULE UniverseVariable --------------------------
(***************************************************************************)
(* Variables of style universe and uloop (variable.cpp).  SPPARKS runs on  *)
(* several partitions of processes, each with the same input script:       *)
(*                                                                         *)
(*     variable i uloop NValues                                            *)
(*     ...                 a simulation for the value of i                 *)
(*     next i              take the next value that nobody has had         *)
(*     jump SELF                                                           *)
(*                                                                         *)
(* The partitions share nothing but a directory.  A file in it holds the   *)
(* next value, and whoever renames it to the name of the lock owns it.     *)
(***************************************************************************)
EXTENDS Integers, FiniteSets

CONSTANTS
    NWorlds,       \* number of partitions
    NValues,       \* number of values of the variable
    FileAtStart,   \* what tmp.spparks.variable holds before the program runs
    Absent         \* stands for a file that does not exist

(* variable refuses fewer values than partitions.                          *)
ASSUME CountAssumption ==
    /\ NWorlds \in Nat \ {0}
    /\ NValues \in Nat
    /\ NWorlds <= NValues
    /\ Absent \notin Nat

ASSUME StartAssumption == FileAtStart \in {Absent, NWorlds}

VARIABLES
    file,          \* file[f]: what the file f holds
    pc,            \* pc[w]: the command partition w is at
    index,         \* index[w]: the value the variable has in partition w
    nextindex,     \* nextindex[w]: what partition w has read from the file
    ran            \* ran[i]: how many simulations have been run for value i

vars == <<file, pc, index, nextindex, ran>>

Worlds == 0 .. NWorlds - 1
Values == 0 .. NValues - 1

(* The names of the files in variable.cpp.                                 *)
Created == "tmp.lammps.variable"           \* in set()
Counter == "tmp.spparks.variable"          \* in next()
Lock    == "tmp.spparks.variable.lock"
Files   == {Created, Counter, Lock}

(* rename() fails when there is no file of the old name, and replaces any  *)
(* of the new name.                                                        *)
Rename(old, new) ==
    /\ file[old] # Absent
    /\ file' = [file EXCEPT ![old] = Absent, ![new] = file[old]]

Init ==
    /\ file = [f \in Files |-> IF f = Counter THEN FileAtStart ELSE Absent]
    /\ pc = [w \in Worlds |-> "variable"]
    /\ index = [w \in Worlds |-> 0]
    /\ nextindex = [w \in Worlds |-> 0]
    /\ ran = [i \in Values |-> 0]

(* The script goes on to the simulation for value i.                       *)
Simulate(w, i) ==
    /\ index' = [index EXCEPT ![w] = i]
    /\ ran' = [ran EXCEPT ![i] = @ + 1]
    /\ pc' = [pc EXCEPT ![w] = "simulate"]

(* variable: every partition begins with the value of its own number, and  *)
(* the first process of all creates a file.                                *)
Set(w) ==
    /\ pc[w] = "variable"
    /\ Simulate(w, w)
    /\ file' = IF w = 0 THEN [file EXCEPT ![Created] = NWorlds] ELSE file
    /\ UNCHANGED nextindex

Finish(w) ==
    /\ pc[w] = "simulate"
    /\ pc' = [pc EXCEPT ![w] = "lock"]
    /\ UNCHANGED <<file, index, nextindex, ran>>

(* Variant: the file is there, so the lock is taken to be free.            *)
OpenCounter(w) ==
    /\ pc[w] = "lock"
    /\ file[Counter] # Absent
    /\ file' = [file EXCEPT ![Lock] = file[Counter]]
    /\ pc' = [pc EXCEPT ![w] = "read"]
    /\ UNCHANGED <<index, nextindex, ran>>

(* next: the loop that ends when rename() succeeds.                        *)
TakeLock(w) ==
    /\ pc[w] = "lock"
    /\ Rename(Counter, Lock)
    /\ pc' = [pc EXCEPT ![w] = "read"]
    /\ UNCHANGED <<index, nextindex, ran>>

ReadNext(w) ==
    /\ pc[w] = "read"
    /\ file[Lock] # Absent
    /\ nextindex' = [nextindex EXCEPT ![w] = file[Lock]]
    /\ pc' = [pc EXCEPT ![w] = "write"]
    /\ UNCHANGED <<file, index, ran>>

(* Variant: the value is put back as it was.                               *)
WriteSame(w) ==
    /\ pc[w] = "write"
    /\ file' = [file EXCEPT ![Lock] = nextindex[w]]
    /\ pc' = [pc EXCEPT ![w] = "unlock"]
    /\ UNCHANGED <<index, nextindex, ran>>

WriteNext(w) ==
    /\ pc[w] = "write"
    /\ file' = [file EXCEPT ![Lock] = nextindex[w] + 1]
    /\ pc' = [pc EXCEPT ![w] = "unlock"]
    /\ UNCHANGED <<index, nextindex, ran>>

(* Variant: the values run from 1 to NValues.                              *)
BeyondLast(i) == i > NValues

(* No value is left for a partition that has drawn i.                      *)
Exhausted(i) == i >= NValues

(* Variant: only a partition that got a value gives back the lock.         *)
UnlockWithValue(w) ==
    /\ pc[w] = "unlock"
    /\ \/ /\ ~Exhausted(nextindex[w])
          /\ Rename(Lock, Counter)
          /\ Simulate(w, nextindex[w])
       \/ /\ Exhausted(nextindex[w])
          /\ pc' = [pc EXCEPT ![w] = "done"]
          /\ UNCHANGED <<file, index, ran>>
    /\ UNCHANGED nextindex

(* The lock is given back; the variable is set, or removed when no value   *)
(* is left, and then the jump back to the simulation is skipped.           *)
Unlock(w) ==
    /\ pc[w] = "unlock"
    /\ Rename(Lock, Counter)
    /\ \/ /\ ~Exhausted(nextindex[w])
          /\ Simulate(w, nextindex[w])
       \/ /\ Exhausted(nextindex[w])
          /\ pc' = [pc EXCEPT ![w] = "done"]
          /\ UNCHANGED <<index, ran>>
    /\ UNCHANGED nextindex

World(w) ==
    \/ Set(w) \/ Finish(w)
    \/ TakeLock(w) \/ ReadNext(w) \/ WriteNext(w) \/ Unlock(w)

Next == \E w \in Worlds : World(w)

Spec == Init /\ [][Next]_vars

(* Every partition runs its script; while the lock is held by another it   *)
(* tries again every tenth of a second.                                    *)
FairSpec == Spec /\ \A w \in Worlds : WF_vars(World(w))

-----------------------------------------------------------------------------
(* Properties.                                                             *)

TypeOK ==
    /\ file \in [Files -> Nat \cup {Absent}]
    /\ pc \in [Worlds -> {"variable", "simulate", "lock", "read", "write", "unlock", "done"}]
    /\ index \in [Worlds -> Values]
    /\ nextindex \in [Worlds -> Nat]
    /\ ran \in [Values -> Nat]

Holding == {w \in Worlds : pc[w] \in {"read", "write", "unlock"}}

(* At most one partition is between taking the lock and giving it back,    *)
(* and the counter is in one file only.                                    *)
LockIsExclusive ==
    /\ \A v, w \in Holding : v = w
    /\ file[Counter] = Absent \/ file[Lock] = Absent

(* No simulation is run twice: "the first processor partition to encounter *)
(* it, is assigned the next available string" (doc/variable.txt), however  *)
(* the partitions interleave.                                              *)
NoValueTwice == \A i \in Values : ran[i] <= 1

(* "This continues until all the variable strings are consumed"            *)
(* (doc/variable.txt): every value gets its simulation and every partition *)
(* comes to the end of its script.                                         *)
AllValuesConsumed ==
    <>[](/\ \A w \in Worlds : pc[w] = "done"
         /\ \A i \in Values : ran[i] = 1)
=============================================================================
