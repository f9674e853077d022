----------------------- MODULE UniverseVariable_proofs -----------------------
(***************************************************************************)
(* Proofs about UniverseVariable for every number of partitions and        *)
(* values: the lock is exclusive, and no value is handed out twice.        *)
(*                                                                         *)
(* The lock is exclusive because the counter is in one of two files at a   *)
(* time.  A value is handed out once because all values from the counter   *)
(* on have not been run, the value a partition is about to give itself     *)
(* among them, and the first NWorlds values belong to the partitions of    *)
(* these numbers.                                                          *)
(***************************************************************************)
EXTENDS UniverseVariable, TLAPS

(* Whoever holds the lock has the file, and knows what is in it.           *)
HolderHasFile ==
    /\ \A w \in Holding : file[Lock] # Absent
    /\ \A w \in Worlds : pc[w] = "write" => nextindex[w] = file[Lock]
    /\ \A w \in Worlds : pc[w] = "unlock" => nextindex[w] + 1 = file[Lock]

LockInv == TypeOK /\ LockIsExclusive /\ HolderHasFile

(* Values not handed out have not been run.                                *)
Fresh ==
    /\ \A w \in Worlds : pc[w] = "variable" => ran[w] = 0
    /\ \A w \in Worlds :
          pc[w] = "unlock" =>
             /\ nextindex[w] >= NWorlds
             /\ nextindex[w] \in Values => ran[nextindex[w]] = 0
    /\ \A f \in {Counter, Lock} :
          file[f] # Absent =>
             /\ file[f] >= NWorlds
             /\ \A i \in Values : i >= file[f] => ran[i] = 0

IInv == LockInv /\ Fresh /\ NoValueTwice

-----------------------------------------------------------------------------

LEMMA InitInv == Init => IInv
<1> SUFFICES ASSUME Init PROVE IInv
  OBVIOUS
<1>1. TypeOK
  BY CountAssumption, StartAssumption
     DEF Init, TypeOK, Files, Counter, Lock, Created, Worlds, Values
<1>2. Holding = {}
  BY DEF Init, Holding
<1>3. file[Lock] = Absent /\ file[Counter] = FileAtStart
  BY DEF Init, Files, Counter, Lock, Created
<1>4. LockIsExclusive /\ HolderHasFile
  BY <1>2, <1>3 DEF Init, LockIsExclusive, HolderHasFile
<1>5. \A w \in Worlds : w \in Values
  BY CountAssumption DEF Worlds, Values
<1>6. Fresh /\ NoValueTwice
  BY <1>3, <1>5, CountAssumption, StartAssumption
     DEF Init, Fresh, NoValueTwice, Counter, Lock
<1> QED BY <1>1, <1>4, <1>6 DEF IInv, LockInv

(* The lock changes hands only through the file.                           *)
LEMMA LockStep == LockInv /\ [Next]_vars => LockInv'
<1> SUFFICES ASSUME LockInv, [Next]_vars PROVE LockInv'
  OBVIOUS
<1> USE DEF LockInv
<1>1. ASSUME NEW w \in Worlds, Set(w) PROVE LockInv'
  <2>1. w \in Values
    BY CountAssumption DEF Worlds, Values
  <2>2. TypeOK'
    BY <1>1, <2>1, CountAssumption DEF Set, Simulate, TypeOK, Files
  <2>3. Holding' = Holding /\ file'[Lock] = file[Lock] /\ file'[Counter] = file[Counter]
    BY <1>1 DEF Set, Simulate, TypeOK, Holding, Files, Created, Counter, Lock
  <2> QED BY <1>1, <2>2, <2>3 DEF Set, Simulate, TypeOK, LockIsExclusive, HolderHasFile
<1>2. ASSUME NEW w \in Worlds, Finish(w) PROVE LockInv'
  <2>1. Holding' = Holding
    BY <1>2 DEF Finish, TypeOK, Holding
  <2> QED BY <1>2, <2>1 DEF Finish, TypeOK, LockIsExclusive, HolderHasFile
<1>3. ASSUME NEW w \in Worlds, TakeLock(w) PROVE LockInv'
  <2>1. TypeOK'
    BY <1>3 DEF TakeLock, Rename, TypeOK, Files, Counter, Lock
  <2>2. file'[Lock] = file[Counter] /\ file'[Counter] = Absent /\ file'[Lock] # Absent
    BY <1>3 DEF TakeLock, Rename, TypeOK, Files, Counter, Lock
  <2>3. Holding = {}
    BY <1>3 DEF TakeLock, Rename, LockIsExclusive, HolderHasFile
  <2>4. Holding' = {w}
    BY <1>3, <2>3 DEF TakeLock, TypeOK, Holding
  <2>5. \A v \in Worlds : pc'[v] \notin {"write", "unlock"}
    BY <1>3, <2>3 DEF TakeLock, TypeOK, Holding
  <2> QED BY <2>1, <2>2, <2>4, <2>5 DEF LockIsExclusive, HolderHasFile
<1>4. ASSUME NEW w \in Worlds, ReadNext(w) PROVE LockInv'
  <2>1. TypeOK'
    BY <1>4, CountAssumption DEF ReadNext, TypeOK, Files
  <2>2. Holding' = Holding /\ Holding = {w}
    BY <1>4 DEF ReadNext, TypeOK, Holding, LockIsExclusive
  <2>3. \A v \in Worlds : pc'[v] = "write" => v = w
    BY <1>4, <2>2 DEF ReadNext, TypeOK, Holding
  <2>4. \A v \in Worlds : pc'[v] # "unlock"
    BY <1>4, <2>2 DEF ReadNext, TypeOK, Holding
  <2> QED BY <1>4, <2>1, <2>2, <2>3, <2>4
          DEF ReadNext, TypeOK, LockIsExclusive, HolderHasFile
<1>5. ASSUME NEW w \in Worlds, WriteNext(w) PROVE LockInv'
  <2>1. nextindex[w] + 1 \in Nat
    BY DEF TypeOK
  <2>2. TypeOK'
    BY <1>5, <2>1 DEF WriteNext, TypeOK, Files
  <2>3. Holding' = Holding /\ Holding = {w}
    BY <1>5 DEF WriteNext, TypeOK, Holding, LockIsExclusive
  <2>4. /\ file'[Lock] = nextindex[w] + 1 /\ file'[Counter] = file[Counter]
        /\ file[Counter] = Absent
    BY <1>5, <2>3
       DEF WriteNext, TypeOK, Files, Counter, Lock, LockIsExclusive, HolderHasFile
  <2>5. \A v \in Worlds : pc'[v] = "unlock" => v = w
    BY <1>5, <2>3 DEF WriteNext, TypeOK, Holding
  <2>6. \A v \in Worlds : pc'[v] # "write"
    BY <1>5, <2>3 DEF WriteNext, TypeOK, Holding
  <2> QED BY <1>5, <2>1, <2>2, <2>3, <2>4, <2>5, <2>6, CountAssumption
          DEF WriteNext, LockIsExclusive, HolderHasFile
<1>6. ASSUME NEW w \in Worlds, Unlock(w) PROVE LockInv'
  <2>1. TypeOK'
    <3>1. file' \in [Files -> Nat \cup {Absent}]
      BY <1>6 DEF Unlock, Rename, TypeOK, Files, Counter, Lock
    <3>2. CASE ~Exhausted(nextindex[w])
      <4>1. nextindex[w] \in Values
        BY <3>2, CountAssumption DEF Exhausted, Values, TypeOK
      <4> QED BY <1>6, <3>1, <3>2, <4>1 DEF Unlock, Simulate, TypeOK
    <3>3. CASE Exhausted(nextindex[w])
      BY <1>6, <3>1, <3>3 DEF Unlock, TypeOK
    <3> QED BY <3>2, <3>3
  <2>2. Holding = {w}
    BY <1>6 DEF Unlock, TypeOK, Holding, LockIsExclusive
  <2>3. pc' = [pc EXCEPT ![w] = "simulate"] \/ pc' = [pc EXCEPT ![w] = "done"]
    BY <1>6 DEF Unlock, Simulate
  <2>4. Holding' = {}
    BY <2>2, <2>3 DEF TypeOK, Holding
  <2>5. \A v \in Worlds : pc'[v] \notin {"write", "unlock"}
    BY <2>4 DEF Holding
  <2>6. file'[Lock] = Absent
    BY <1>6 DEF Unlock, Rename, TypeOK, Files, Counter, Lock
  <2> QED BY <2>1, <2>4, <2>5, <2>6 DEF LockIsExclusive, HolderHasFile
<1>7. CASE UNCHANGED vars
  BY <1>7 DEF vars, TypeOK, Holding, LockIsExclusive, HolderHasFile
<1> QED BY <1>1, <1>2, <1>3, <1>4, <1>5, <1>6, <1>7 DEF Next, World

(* Only a value that has not been run is ever run.                         *)
LEMMA FreshStep == IInv /\ [Next]_vars => Fresh' /\ NoValueTwice'
<1> SUFFICES ASSUME IInv, [Next]_vars PROVE Fresh' /\ NoValueTwice'
  OBVIOUS
<1>1. ASSUME NEW w \in Worlds, Set(w) PROVE Fresh' /\ NoValueTwice'
  <2>1. w \in Values /\ w < NWorlds /\ ran[w] = 0
    BY <1>1, CountAssumption DEF IInv, Fresh, Set, Worlds, Values
  <2>2. \A i \in Values : ran'[i] = IF i = w THEN 1 ELSE ran[i]
    BY <1>1, <2>1 DEF IInv, LockInv, TypeOK, Set, Simulate
  <2>3. /\ \A v \in Worlds : pc'[v] = "variable" => v # w /\ pc[v] = "variable"
        /\ \A v \in Worlds : pc'[v] = "unlock" => pc[v] = "unlock"
    BY <1>1 DEF IInv, LockInv, TypeOK, Set, Simulate
  <2>4. \A f \in {Counter, Lock} : file'[f] = file[f]
    BY <1>1 DEF IInv, LockInv, TypeOK, Set, Simulate, Files, Created, Counter, Lock
  <2>5. \A v \in Worlds : v \in Values
    BY CountAssumption DEF Worlds, Values
  <2>6. \A f \in {Counter, Lock} : file[f] # Absent => file[f] \in Nat /\ w < file[f]
    BY <2>1, CountAssumption DEF IInv, LockInv, TypeOK, Fresh, Files, Worlds
  <2>7. \A v \in Worlds : nextindex'[v] = nextindex[v] /\ nextindex[v] \in Nat
    BY <1>1 DEF IInv, LockInv, TypeOK, Set
  <2>8. \A v \in Worlds : pc[v] = "unlock" => nextindex[v] # w
    BY <2>1, <2>7, CountAssumption DEF IInv, Fresh, Worlds
  <2>9. NoValueTwice'
    BY <2>2 DEF IInv, NoValueTwice
  <2>10. Fresh'
    <3>1. \A v \in Worlds : pc'[v] = "variable" => ran'[v] = 0
      BY <2>2, <2>3, <2>5 DEF IInv, Fresh
    <3>2. ASSUME NEW v \in Worlds, pc'[v] = "unlock"
          PROVE  /\ nextindex'[v] >= NWorlds
                 /\ nextindex'[v] \in Values => ran'[nextindex'[v]] = 0
      <4>1. pc[v] = "unlock" /\ nextindex'[v] = nextindex[v] /\ nextindex[v] # w
        BY <2>3, <2>7, <2>8, <3>2
      <4> QED BY <2>2, <4>1 DEF IInv, Fresh
    <3>3. ASSUME NEW f \in {Counter, Lock}, file'[f] # Absent
          PROVE  file'[f] >= NWorlds /\ \A i \in Values : i >= file'[f] => ran'[i] = 0
      <4>1. file'[f] = file[f] /\ file[f] \in Nat /\ w < file[f]
        BY <2>4, <2>6, <3>3
      <4>2. \A i \in Values : i >= file[f] => i # w /\ ran[i] = 0
        BY <2>1, <3>3, <4>1 DEF IInv, Fresh, Values
      <4> QED BY <2>2, <3>3, <4>1, <4>2 DEF IInv, Fresh
    <3> QED BY <3>1, <3>2, <3>3 DEF Fresh
  <2> QED BY <2>9, <2>10
<1>2. ASSUME NEW w \in Worlds, Finish(w) \/ ReadNext(w) PROVE Fresh' /\ NoValueTwice'
  <2>1. /\ UNCHANGED <<file, ran>>
        /\ \A v \in Worlds : pc'[v] = "variable" => pc[v] = "variable"
        /\ \A v \in Worlds : pc'[v] = "unlock" => pc[v] = "unlock" /\ nextindex'[v] = nextindex[v]
    BY <1>2 DEF IInv, LockInv, TypeOK, Finish, ReadNext
  <2> QED BY <2>1 DEF IInv, Fresh, NoValueTwice
<1>3. ASSUME NEW w \in Worlds, TakeLock(w) PROVE Fresh' /\ NoValueTwice'
  <2>1. /\ UNCHANGED <<nextindex, ran>>
        /\ \A v \in Worlds : pc'[v] \in {"variable", "unlock"} => pc'[v] = pc[v]
    BY <1>3 DEF IInv, LockInv, TypeOK, TakeLock
  <2>2. file'[Lock] = file[Counter] /\ file'[Counter] = Absent
    BY <1>3 DEF IInv, LockInv, TypeOK, TakeLock, Rename, Files, Counter, Lock
  <2> QED BY <2>1, <2>2 DEF IInv, Fresh, NoValueTwice
<1>4. ASSUME NEW w \in Worlds, WriteNext(w) PROVE Fresh' /\ NoValueTwice'
  <2>1. /\ UNCHANGED <<nextindex, ran>>
        /\ \A v \in Worlds : pc'[v] = "variable" => pc[v] = "variable"
        /\ \A v \in Worlds : pc'[v] = "unlock" => v = w \/ pc[v] = "unlock"
    BY <1>4 DEF IInv, LockInv, TypeOK, WriteNext
  <2>2. /\ nextindex[w] \in Nat /\ file[Lock] = nextindex[w]
        /\ file'[Lock] = nextindex[w] + 1 /\ file'[Counter] = file[Counter]
    BY <1>4 DEF IInv, LockInv, HolderHasFile, TypeOK, WriteNext, Files, Counter, Lock
  <2>3. nextindex[w] >= NWorlds /\ \A i \in Values : i >= nextindex[w] => ran[i] = 0
    BY <2>2, CountAssumption DEF IInv, Fresh
  <2>4. \A i \in Values : i >= nextindex[w] + 1 => ran[i] = 0
    BY <2>2, <2>3 DEF Values
  <2>5. nextindex[w] + 1 >= NWorlds
    BY <2>2, <2>3, CountAssumption
  <2>6. \A v \in Worlds :
           pc'[v] = "unlock" =>
             /\ nextindex[v] >= NWorlds
             /\ nextindex[v] \in Values => ran[nextindex[v]] = 0
    BY <2>1, <2>2, <2>3 DEF IInv, Fresh, Values
  <2>7. \A f \in {Counter, Lock} :
           file'[f] # Absent =>
             file'[f] >= NWorlds /\ \A i \in Values : i >= file'[f] => ran[i] = 0
    BY <2>2, <2>4, <2>5 DEF IInv, Fresh
  <2> QED BY <2>1, <2>6, <2>7 DEF IInv, Fresh, NoValueTwice
<1>5. ASSUME NEW w \in Worlds, Unlock(w) PROVE Fresh' /\ NoValueTwice'
  <2> DEFINE n == nextindex[w]
  <2>1. /\ n \in Nat /\ n >= NWorlds /\ file[Lock] = n + 1
        /\ n \in Values => ran[n] = 0
        /\ \A i \in Values : i >= n + 1 => ran[i] = 0
    BY <1>5, CountAssumption DEF IInv, LockInv, TypeOK, HolderHasFile, Fresh, Unlock, Rename
  <2>2. /\ file'[Counter] = n + 1 /\ file'[Lock] = Absent
        /\ UNCHANGED nextindex
    BY <1>5, <2>1 DEF IInv, LockInv, TypeOK, Unlock, Rename, Files, Counter, Lock
  <2>3. Holding = {w}
    BY <1>5 DEF IInv, LockInv, Unlock, TypeOK, Holding, LockIsExclusive
  <2>4. \A v \in Worlds : pc'[v] # "unlock" /\ (pc'[v] = "variable" => pc[v] = "variable")
    BY <1>5, <2>3 DEF IInv, LockInv, TypeOK, Unlock, Simulate, Holding
  <2>5. \A i \in Values : ran'[i] = IF i = n THEN 1 ELSE ran[i]
    <3>1. CASE ~Exhausted(n)
      <4>1. n \in Values
        BY <2>1, <3>1, CountAssumption DEF Exhausted, Values
      <4>2. ran' = [ran EXCEPT ![n] = @ + 1]
        BY <1>5, <3>1 DEF Unlock, Simulate
      <4> QED BY <2>1, <4>1, <4>2 DEF IInv, LockInv, TypeOK
    <3>2. CASE Exhausted(n)
      <4>1. ran' = ran /\ n \notin Values
        BY <1>5, <3>2, <2>1, CountAssumption DEF Unlock, Exhausted, Values
      <4> QED BY <4>1
    <3> QED BY <3>1, <3>2
  <2>6. \A v \in Worlds : v \in Values /\ v # n
    BY <2>1, CountAssumption DEF Worlds, Values
  <2>7. NoValueTwice'
    BY <2>5 DEF IInv, NoValueTwice
  <2>8. \A i \in Values : i >= n + 1 => ran'[i] = 0
    BY <2>1, <2>5 DEF Values
  <2>9. \A v \in Worlds : pc'[v] = "variable" => ran'[v] = 0
    BY <2>4, <2>5, <2>6 DEF IInv, Fresh
  <2>10. n + 1 >= NWorlds
    BY <2>1, CountAssumption
  <2>11. Fresh'
    BY <2>2, <2>4, <2>8, <2>9, <2>10 DEF Fresh
  <2> QED BY <2>7, <2>11
<1>6. CASE UNCHANGED vars
  BY <1>6 DEF vars, IInv, Fresh, NoValueTwice
<1> QED BY <1>1, <1>2, <1>3, <1>4, <1>5, <1>6 DEF Next, World

LEMMA StepInv == IInv /\ [Next]_vars => IInv'
  BY LockStep, FreshStep DEF IInv

(* Whatever the file says is a number, and no partition ever sets its      *)
(* variable beyond the last value.                                         *)
THEOREM TypeCorrect == Spec => []TypeOK
<1>1. IInv => TypeOK
  BY DEF IInv, LockInv
<1> QED BY <1>1, InitInv, StepInv, PTL DEF Spec

(* Two partitions never hold the lock, and the counter is never in two     *)
(* files.                                                                  *)
THEOREM MutualExclusion == Spec => []LockIsExclusive
<1>1. IInv => LockIsExclusive
  BY DEF IInv, LockInv
<1> QED BY <1>1, InitInv, StepInv, PTL DEF Spec

(* No simulation is run twice, for any number of partitions and values.    *)
THEOREM ValuesAreRunOnce == Spec => []NoValueTwice
<1>1. IInv => NoValueTwice
  BY DEF IInv
<1> QED BY <1>1, InitInv, StepInv, PTL DEF Spec
=============================================================================
