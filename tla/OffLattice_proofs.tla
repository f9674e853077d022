-------------------------- MODULE OffLattice_proofs -------------------------
(***************************************************************************)
(* The off-lattice driver (app_off_lattice.cpp, comm_off_lattice.cpp) on   *)
(* any grid of processes: no slot of a site table is lost, the lists of    *)
(* the bins are those of the positions, each site has one owner.           *)
(*                                                                         *)
(* The invariant says of each table which lists it holds.  Settled: the    *)
(* owned sites are in the lists of their bins; ghost sites that are left   *)
(* over are overwritten by the next exchange.  Fitted: a set L of slots is *)
(* in the lists, every other slot is in the free list; L has the owned     *)
(* sites and the ghost sites, and each is in the bin of its position.      *)
(* Without sectors the chains of periodic images are kept too (Imaged).    *)
(* While events run an owned site may be in a ghost bin, but only in one   *)
(* that its sector sends back (InReach): a site still in the sector has    *)
(* not crossed the mid-plane, and one move is shorter than a bin.  That is *)
(* why the exchange afterwards empties every ghost bin.  The Ledger says   *)
(* that the tables share the ids of the sites between them.                *)
(*                                                                         *)
(* In order: geometry; putting sites into bins; the exchange of ghost      *)
(* sites; periodic images; moves; packing the sites that have left, and    *)
(* bringing back those that left through the periodic boundary; the        *)
(* exchange of sites; the invariant and its steps; the properties.         *)
(***************************************************************************)
EXTENDS OffLattice, DataLemmas, FiniteSetTheorems, TLAPS

(* What grow(0) does: n slots become n + DELTA.                            *)
Grown(u, t, n, Places) ==
    /\ u \in TableOf(n + DELTA, Places)
    /\ u.nlocal = t.nlocal /\ u.nghost = t.nghost /\ u.binhead = t.binhead
    /\ u.freehead = (IF t.freehead = Nil THEN n ELSE t.freehead)
    /\ u.nfree = t.nfree + DELTA
    /\ Same(u, t, 0 .. n - 1)
    /\ \A k \in 0 .. n - 1 : u.prev[k] = t.prev[k]
    /\ \A k \in 0 .. n + DELTA - 1 : u.next[k] =
          IF k = n + DELTA - 1 THEN Nil
          ELSE IF k >= n \/ (k = n - 1 /\ t.freehead # Nil) THEN k + 1 ELSE t.next[k]

(* The slots the table had are as they were, and the new ones are chained. *)
LEMMA AfterGrow ==
    ASSUME NEW n \in Nat, NEW Places, NoPlace \in Places, NEW t \in TableOf(n, Places)
    PROVE  Grown(Grow(t), t, n, Places)
<1> DEFINE size == n + DELTA
           Extend(f, x) == [k \in 0 .. size - 1 |-> IF k < n THEN f[k] ELSE x]
           linked == [k \in 0 .. size - 1 |->
                       IF k = size - 1 THEN Nil
                       ELSE IF k >= n \/ (k = n - 1 /\ t.freehead # Nil) THEN k + 1
                       ELSE t.next[k]]
           u == Grow(t)
<1>1. DELTA \in Nat \ {0} /\ size \in Nat /\ size # 0 /\ size > n
  BY DeltaAssumption
<1>2. /\ t.nmax = n /\ t.id \in [0 .. n - 1 -> Nat] /\ t.xyz \in [0 .. n - 1 -> Int \X Int]
      /\ t.bin \in [0 .. n - 1 -> Places] /\ t.prev \in [0 .. n - 1 -> Int]
      /\ t.next \in [0 .. n - 1 -> Int] /\ t.nextimage \in [0 .. n - 1 -> Int]
      /\ t.binhead \in [Places -> Int]
      /\ t.nlocal \in Int /\ t.nghost \in Int /\ t.nfree \in Int /\ t.freehead \in Int
  BY DEF TableOf
<1>3. /\ DOMAIN t = {"nmax", "nlocal", "nghost", "nfree", "freehead", "id", "xyz", "bin",
                     "prev", "next", "nextimage", "binhead"}
  BY DEF TableOf
<1>4. u = [t EXCEPT !.nmax = size, !.id = Extend(@, NoSite), !.xyz = Extend(@, NoPlace),
                  !.bin = Extend(@, NoPlace), !.prev = Extend(@, Nil),
                  !.nextimage = Extend(@, Nil),
                  !.next = linked,
                  !.freehead = IF @ = Nil THEN n ELSE @,
                  !.nfree = @ + DELTA]
  BY <1>2 DEF Grow
<1>5. u = [nmax |-> size, nlocal |-> t.nlocal, nghost |-> t.nghost, nfree |-> t.nfree + DELTA,
           freehead |-> IF t.freehead = Nil THEN n ELSE t.freehead,
           id |-> Extend(t.id, NoSite), xyz |-> Extend(t.xyz, NoPlace),
           bin |-> Extend(t.bin, NoPlace), prev |-> Extend(t.prev, Nil),
           next |-> linked, nextimage |-> Extend(t.nextimage, Nil), binhead |-> t.binhead]
  <2>1. t = [nmax |-> t.nmax, nlocal |-> t.nlocal, nghost |-> t.nghost, nfree |-> t.nfree,
             freehead |-> t.freehead, id |-> t.id, xyz |-> t.xyz,
             bin |-> t.bin, prev |-> t.prev,
             next |-> t.next, nextimage |-> t.nextimage, binhead |-> t.binhead]
    BY DEF TableOf
  <2> HIDE DEF Extend, linked, size, u
  <2> QED BY <1>4, <2>1
<1>6. /\ Extend(t.id, NoSite) \in [0 .. size - 1 -> Nat]
      /\ Extend(t.xyz, NoPlace) \in [0 .. size - 1 -> Int \X Int]
      /\ Extend(t.bin, NoPlace) \in [0 .. size - 1 -> Places]
  <2>1. NoSite \in Nat /\ NoPlace \in Int \X Int
    BY DEF NoSite, NoPlace
  <2>2. \A k \in 0 .. size - 1 : k < n => k \in 0 .. n - 1
    OBVIOUS
  <2> QED BY <1>2, <2>1, <2>2
<1>7. /\ Extend(t.prev, Nil) \in [0 .. size - 1 -> Int] /\ linked \in [0 .. size - 1 -> Int]
      /\ Extend(t.nextimage, Nil) \in [0 .. size - 1 -> Int]
  <2>1. Nil \in Int
    BY DEF Nil
  <2>2. \A k \in 0 .. size - 1 : k < n => k \in 0 .. n - 1
    OBVIOUS
  <2>3. /\ Extend(t.prev, Nil) \in [0 .. size - 1 -> Int]
        /\ Extend(t.nextimage, Nil) \in [0 .. size - 1 -> Int]
    BY <1>2, <2>1, <2>2
  <2>4. ASSUME NEW k \in 0 .. size - 1
        PROVE  (IF k = size - 1 THEN Nil
                ELSE IF k >= n \/ (k = n - 1 /\ t.freehead # Nil) THEN k + 1
                ELSE t.next[k]) \in Int
    <3>1. k + 1 \in Int /\ (k < n => t.next[k] \in Int) /\ (k >= n \/ k < n)
      BY <1>2, <2>2
    <3> QED BY <2>1, <3>1
  <2> QED BY <2>3, <2>4
<1>8. \A k \in 0 .. n - 1 : /\ Extend(t.id, NoSite)[k] = t.id[k]
                            /\ Extend(t.xyz, NoPlace)[k] = t.xyz[k]
                            /\ Extend(t.bin, NoPlace)[k] = t.bin[k]
                            /\ Extend(t.prev, Nil)[k] = t.prev[k]
                            /\ Extend(t.nextimage, Nil)[k] = t.nextimage[k]
  BY <1>1
<1>9. \A k \in 0 .. n + DELTA - 1 : linked[k] =
                 IF k = n + DELTA - 1 THEN Nil
                 ELSE IF k >= n \/ (k = n - 1 /\ t.freehead # Nil) THEN k + 1 ELSE t.next[k]
  <2>1. \A k \in 0 .. size - 1 : linked[k] =
           IF k = size - 1 THEN Nil
           ELSE IF k >= n \/ (k = n - 1 /\ t.freehead # Nil) THEN k + 1 ELSE t.next[k]
    OBVIOUS
  <2> HIDE DEF linked
  <2> QED BY <1>1, <2>1
<1> HIDE DEF Extend, linked, u
<1>10. u \in TableOf(size, Places)
  <2>1. t.nfree + DELTA \in Int /\ (IF t.freehead = Nil THEN n ELSE t.freehead) \in Int
    BY <1>1, <1>2
  <2> HIDE DEF size
  <2> QED BY <1>2, <1>5, <1>6, <1>7, <2>1 DEF TableOf
<1>11. Same(u, t, 0 .. n - 1) /\ \A k \in 0 .. n - 1 : u.prev[k] = t.prev[k]
  BY <1>5, <1>8 DEF Same
<1>12. /\ u.nlocal = t.nlocal /\ u.nghost = t.nghost /\ u.binhead = t.binhead
       /\ u.freehead = (IF t.freehead = Nil THEN n ELSE t.freehead)
       /\ u.nfree = t.nfree + DELTA /\ u.next = linked
  BY <1>5
<1>13. Grown(u, t, n, Places)
  BY <1>9, <1>10, <1>11, <1>12 DEF Grown
<1> QED BY <1>13 DEF u

(* Growing does not touch the lists when the last slot is not in them or   *)
(* no slot is free.                                                        *)
LEMMA GrowKeeps ==
    ASSUME NEW n \in Nat, NEW Places, NoPlace \in Places, NEW t \in TableOf(n, Places),
           NEW S, NEW B, NEW h, Keeps(t, S, B, h), t.freehead # Nil => n - 1 \notin S
    PROVE  Keeps(Grow(t), S, B, h)
<1>1. /\ Grow(t) \in TableOf(n + DELTA, Places) /\ Grow(t).binhead = t.binhead
      /\ Same(Grow(t), t, 0 .. n - 1) /\ \A k \in 0 .. n - 1 : Grow(t).prev[k] = t.prev[k]
      /\ \A k \in 0 .. n + DELTA - 1 : Grow(t).next[k] =
                 IF k = n + DELTA - 1 THEN Nil
                 ELSE IF k >= n \/ (k = n - 1 /\ t.freehead # Nil) THEN k + 1 ELSE t.next[k]
  <2>1. Grown(Grow(t), t, n, Places)
    BY AfterGrow
  <2> QED BY <2>1 DEF Grown
<1>2. t.nmax = n /\ Grow(t).nmax = n + DELTA /\ DELTA \in Nat \ {0}
  BY <1>1, DeltaAssumption DEF TableOf
<1>3. S \subseteq 0 .. n - 1 /\ S \subseteq 0 .. Grow(t).nmax - 1
  <2>1. S \subseteq 0 .. n - 1
    BY <1>2 DEF Keeps
  <2> QED BY <1>2, <2>1
<1>4. ASSUME NEW k \in S
      PROVE  Grow(t).next[k] = t.next[k] /\ Grow(t).bin[k] = t.bin[k] /\ Grow(t).prev[k] = t.prev[k]
  <2>1. k \in 0 .. n - 1 /\ k \in 0 .. n + DELTA - 1 /\ k # n + DELTA - 1
    BY <1>2, <1>3
  <2>2. ~(k = n - 1 /\ t.freehead # Nil)
    OBVIOUS
  <2>3. Grow(t).next[k] = t.next[k]
    BY <1>1, <2>1, <2>2
  <2> QED BY <1>1, <2>1, <2>3 DEF Same
<1>5. DOMAIN Grow(t).binhead = DOMAIN t.binhead /\ \A b \in B : Grow(t).binhead[b] = t.binhead[b]
  BY <1>1
<1>6. \A k \in S : /\ Grow(t).next[k] = t.next[k] /\ Grow(t).bin[k] = t.bin[k]
                   /\ \/ Grow(t).prev[k] = t.prev[k]
                      \/ t.bin[k] \notin B /\ {t.prev[k], Grow(t).prev[k]} \cap S = {}
  BY <1>4
<1> QED BY <1>3, <1>5, <1>6, SameKeeps, Zenon

(* grow(0) puts the new slots behind the free list.                        *)
LEMMA GrowFree ==
    ASSUME NEW n \in Nat, NEW Places, NoPlace \in Places, NEW t \in TableOf(n, Places),
           NEW q, Free(t, q), ToTheEnd(t, q)
    PROVE  \E q2 : /\ Free(Grow(t), q2) /\ ToTheEnd(Grow(t), q2)
                   /\ Elements(q2) = Elements(q) \cup n .. n + DELTA - 1
                   /\ Consecutive(q) => Consecutive(q2)
                   /\ Len(q2) # 0 /\ q2[1] = IF Len(q) = 0 THEN n ELSE q[1]
<1> DEFINE u == Grow(t)
           m == Len(q)
           q2 == [k \in 1 .. m + DELTA |-> IF k <= m THEN q[k] ELSE n + k - m - 1]
<1>1. /\ u \in TableOf(n + DELTA, Places)
      /\ u.freehead = (IF t.freehead = Nil THEN n ELSE t.freehead)
      /\ u.nfree = t.nfree + DELTA
      /\ \A k \in 0 .. n + DELTA - 1 : u.next[k] =
                 IF k = n + DELTA - 1 THEN Nil
                 ELSE IF k >= n \/ (k = n - 1 /\ t.freehead # Nil) THEN k + 1 ELSE t.next[k]
  <2>1. Grown(u, t, n, Places)
    BY AfterGrow
  <2> HIDE DEF u
  <2> QED BY <2>1 DEF Grown
<1> HIDE DEF u
<1>2. t.nmax = n /\ u.nmax = n + DELTA /\ DELTA \in Nat \ {0}
  BY <1>1, DeltaAssumption DEF TableOf
<1>3. /\ q \in Seq(0 .. n - 1) /\ Distinct(q) /\ t.nfree = m /\ m \in Nat
      /\ t.freehead = (IF m = 0 THEN Nil ELSE q[1])
      /\ \A k \in 1 .. m : t.next[q[k]] = IF k = m THEN Nil ELSE q[k + 1]
      /\ m = 0 \/ q[m] = n - 1
  BY <1>2 DEF Free, RunsDown, ToTheEnd
<1>4. \A k \in 1 .. m : q[k] \in 0 .. n - 1
  BY <1>3
<1> HIDE DEF m
<1>5. q2 \in Seq(0 .. n + DELTA - 1) /\ Len(q2) = m + DELTA
  <2>1. ASSUME NEW k \in 1 .. m + DELTA
        PROVE  (IF k <= m THEN q[k] ELSE n + k - m - 1) \in 0 .. n + DELTA - 1
    <3>1. CASE k <= m
      <4>1. q[k] \in 0 .. n - 1
        BY <1>2, <1>3, <1>4, <3>1
      <4> QED BY <1>2, <3>1, <4>1
    <3>2. CASE ~(k <= m)
      BY <1>2, <1>3, <3>2
    <3> QED BY <3>1, <3>2
  <2>2. m + DELTA \in Nat
    BY <1>2, <1>3
  <2>3. q2 \in [1 .. m + DELTA -> 0 .. n + DELTA - 1]
    BY <2>1
  <2> HIDE DEF q2
  <2> QED BY <2>2, <2>3, SeqIs
<1>6. \A k \in 1 .. m + DELTA : q2[k] = IF k <= m THEN q[k] ELSE n + k - m - 1
  OBVIOUS
<1> HIDE DEF q2
<1>7. Distinct(q2)
  <2>1. ASSUME NEW i \in 1 .. m + DELTA, NEW j \in 1 .. m + DELTA, q2[i] = q2[j] PROVE i = j
    <3>1. CASE i <= m /\ j <= m
      <4>1. i \in 1 .. m /\ j \in 1 .. m /\ q[i] = q[j]
        BY <1>2, <1>3, <1>6, <2>1, <3>1
      <4> QED BY <1>3, <4>1 DEF Distinct, m
    <3>2. CASE i <= m /\ ~(j <= m)
      <4>1. q[i] \in 0 .. n - 1
        BY <1>2, <1>3, <1>4, <3>2
      <4> QED BY <1>2, <1>3, <1>6, <2>1, <3>2, <4>1
    <3>3. CASE ~(i <= m) /\ j <= m
      <4>1. q[j] \in 0 .. n - 1
        BY <1>2, <1>3, <1>4, <3>3
      <4> QED BY <1>2, <1>3, <1>6, <2>1, <3>3, <4>1
    <3>4. CASE ~(i <= m) /\ ~(j <= m)
      BY <1>2, <1>3, <1>6, <2>1, <3>4
    <3> QED BY <3>1, <3>2, <3>3, <3>4
  <2> QED BY <1>5, <2>1 DEF Distinct
<1>8. q2[1] = (IF m = 0 THEN n ELSE q[1]) /\ Len(q2) # 0
  <2>1. 1 \in 1 .. m + DELTA /\ n + 1 - 0 - 1 = n
    BY <1>2, <1>3
  <2>2. m # 0 => 1 <= m
    BY <1>3
  <2> QED BY <1>2, <1>3, <1>5, <1>6, <2>1, <2>2
<1>9. RunsDown(u.next, u.freehead, q2)
  <2>1. u.freehead = q2[1]
    <3>1. CASE m = 0
      BY <1>1, <1>3, <1>8, <3>1 DEF Nil
    <3>2. CASE m # 0
      <4>1. q[1] \in 0 .. n - 1
        BY <1>3, <1>4, <3>2
      <4> QED BY <1>1, <1>3, <1>8, <3>2, <4>1 DEF Nil
    <3> QED BY <3>1, <3>2
  <2>2. ASSUME NEW k \in 1 .. m + DELTA
        PROVE  u.next[q2[k]] = IF k = m + DELTA THEN Nil ELSE q2[k + 1]
    <3>1. k \in Nat /\ k + 1 \in Nat
      OBVIOUS
    <3>2. CASE k < m
      <4>1. k \in 1 .. m /\ k + 1 \in 1 .. m /\ k # m + DELTA /\ k + 1 \in 1 .. m + DELTA
        BY <1>2, <1>3, <3>2
      <4>2. q2[k] = q[k] /\ q2[k + 1] = q[k + 1] /\ q[k] \in 0 .. n - 1
        <5>1. k <= m /\ k + 1 <= m
          BY <1>3, <3>1, <3>2
        <5> QED BY <1>4, <1>6, <4>1, <5>1
      <4>3. q[k] # n - 1
        <5>1. m \in 1 .. m /\ m # k /\ q[m] = n - 1
          BY <1>3, <3>2, <4>1
        <5>2. Len(q) = m
          BY DEF m
        <5> QED BY <1>3, <4>1, <5>1, <5>2 DEF Distinct
      <4>4. q[k] \in 0 .. n + DELTA - 1 /\ q[k] # n + DELTA - 1 /\ ~(q[k] >= n)
        BY <1>2, <4>2
      <4>5. u.next[q[k]] = t.next[q[k]]
        BY <1>1, <4>3, <4>4
      <4>6. t.next[q[k]] = q[k + 1]
        BY <1>3, <3>2, <4>1
      <4> QED BY <4>1, <4>2, <4>5, <4>6
    <3>3. CASE k = m
      <4>1. q2[k] = n - 1 /\ q2[k + 1] = n /\ k # m + DELTA
        <5>1. m <= m /\ ~(k + 1 <= m) /\ k + 1 \in 1 .. m + DELTA /\ k # m + DELTA
          BY <1>2, <1>3, <3>3
        <5>2. n + (k + 1) - m - 1 = n /\ q[m] = n - 1
          BY <1>3, <3>3
        <5> QED BY <1>6, <3>3, <5>1, <5>2
      <4>2. t.freehead # Nil
        BY <1>3, <1>4, <3>3 DEF Nil
      <4>3. n - 1 \in 0 .. n + DELTA - 1 /\ n - 1 # n + DELTA - 1 /\ (n - 1) + 1 = n
        <5>1. n - 1 \in 0 .. n - 1
          <6>1. m \in 1 .. m
            BY <3>3
          <6> QED BY <1>3, <1>4, <6>1
        <5> QED BY <1>2, <5>1
      <4> QED BY <1>1, <4>1, <4>2, <4>3
    <3>4. CASE k > m
      <4>1. q2[k] = n + k - m - 1 /\ n + k - m - 1 \in 0 .. n + DELTA - 1 /\ n + k - m - 1 >= n
        <5>1. m \in Nat /\ DELTA \in Nat
          BY <1>2, <1>3
        <5>2. /\ ~(k <= m) /\ n + k - m - 1 \in 0 .. n + DELTA - 1
              /\ n + k - m - 1 >= n
          BY <3>4, <5>1
        <5> QED BY <1>6, <5>2
      <4>2. CASE k = m + DELTA
        <5>1. n + k - m - 1 = n + DELTA - 1
          <6>1. m \in Nat /\ DELTA \in Nat
            BY <1>2, <1>3
          <6> QED BY <4>2, <6>1
        <5>2. u.next[q2[k]] = Nil
          BY <1>1, <4>1, <5>1
        <5> QED BY <4>2, <5>2
      <4>3. CASE k # m + DELTA
        <5>1. q2[k + 1] = n + k - m /\ n + k - m - 1 # n + DELTA - 1
          <6>3. m \in Nat /\ DELTA \in Nat
            BY <1>2, <1>3
          <6>1. ~(k + 1 <= m) /\ k + 1 \in 1 .. m + DELTA /\ n + (k + 1) - m - 1 = n + k - m
            BY <3>4, <4>3, <6>3
          <6>2. q2[k + 1] = n + k - m
            BY <1>6, <6>1
          <6>4. k \in Int
            BY <6>3
          <6>5. n + k - m - 1 # n + DELTA - 1
            BY <4>3, <6>3, <6>4
          <6> QED BY <6>2, <6>5
        <5>2. (n + k - m - 1) + 1 = n + k - m
          BY <1>3
        <5> QED BY <1>1, <4>1, <4>3, <5>1, <5>2
      <4> QED BY <4>2, <4>3
    <3> QED BY <1>3, <3>2, <3>3, <3>4
  <2> QED BY <1>5, <1>8, <2>1, <2>2 DEF RunsDown
<1>10. Free(u, q2)
  BY <1>1, <1>2, <1>3, <1>5, <1>7, <1>9 DEF Free
<1>11. ToTheEnd(u, q2)
  <2>1. m + DELTA \in 1 .. m + DELTA /\ ~(m + DELTA <= m) /\ n + (m + DELTA) - m - 1 = n + DELTA - 1
    BY <1>2, <1>3
  <2>2. q2[m + DELTA] = n + DELTA - 1
    BY <1>6, <2>1
  <2> QED BY <1>2, <1>5, <2>1, <2>2 DEF ToTheEnd
<1>12. Elements(q2) = Elements(q) \cup n .. n + DELTA - 1
  <2>1. ASSUME NEW k \in 1 .. m + DELTA PROVE q2[k] \in Elements(q) \cup n .. n + DELTA - 1
    <3>1. CASE k <= m
      BY <1>2, <1>3, <1>6, <3>1 DEF Elements, m
    <3>2. CASE ~(k <= m)
      BY <1>2, <1>3, <1>6, <3>2
    <3> QED BY <3>1, <3>2
  <2>2. ASSUME NEW k \in 1 .. m PROVE \E j \in 1 .. m + DELTA : q2[j] = q[k]
    <3>1. k \in 1 .. m + DELTA /\ k <= m
      BY <1>2, <1>3
    <3> QED BY <1>6, <3>1
  <2>3. ASSUME NEW x \in n .. n + DELTA - 1 PROVE \E j \in 1 .. m + DELTA : q2[j] = x
    <3>1. x - n + m + 1 \in 1 .. m + DELTA /\ ~(x - n + m + 1 <= m) /\ n + (x - n + m + 1) - m - 1 = x
      BY <1>2, <1>3
    <3> QED BY <1>6, <3>1
  <2>4. /\ Elements(q2) = {q2[k] : k \in 1 .. m + DELTA}
        /\ Elements(q) = {q[k] : k \in 1 .. m}
    BY <1>5 DEF Elements, m
  <2> HIDE DEF m
  <2>5. Elements(q2) \subseteq Elements(q) \cup n .. n + DELTA - 1
    BY <2>1, <2>4, Zenon
  <2>6. Elements(q) \subseteq Elements(q2) /\ n .. n + DELTA - 1 \subseteq Elements(q2)
    BY <2>2, <2>3, <2>4, Zenon
  <2> QED BY <2>5, <2>6
<1>13. Consecutive(q) => Consecutive(q2)
  <2>1. SUFFICES ASSUME Consecutive(q), NEW k \in 1 .. m + DELTA PROVE q2[k] = q2[1] + k - 1
    BY <1>5 DEF Consecutive
  <2>2. CASE m = 0
    BY <1>2, <1>3, <1>6, <1>8, <2>2
  <2>3. CASE m # 0
    <3>1. \A j \in 1 .. m : q[j] = q[1] + j - 1
      BY <2>1 DEF Consecutive, m
    <3>2. q[m] = q[1] + m - 1 /\ q[m] = n - 1 /\ q[1] \in 0 .. n - 1
      <4>1. 1 \in 1 .. m /\ m \in 1 .. m
        BY <1>3, <2>3
      <4> QED BY <1>3, <1>4, <2>3, <3>1, <4>1
    <3>3. CASE k <= m
      BY <1>2, <1>3, <1>6, <1>8, <2>3, <3>1, <3>3
    <3>4. CASE ~(k <= m)
      <4>1. q[1] = n - m
        <5>1. m \in Nat
          BY <1>3
        <5> QED BY <3>2, <5>1
      <4>2. q2[k] = n + k - m - 1
        BY <1>6, <3>4
      <4> QED BY <1>2, <1>3, <1>8, <2>3, <4>1, <4>2
    <3> QED BY <3>3, <3>4
  <2> QED BY <2>2, <2>3
<1> QED BY <1>8, <1>10, <1>11, <1>12, <1>13 DEF u, m

(* grow(0) keeps the table whole and leaves a slot free.                   *)
LEMMA GrowWhole ==
    ASSUME NEW n \in Nat, NEW Places, NoPlace \in Places, NEW t \in TableOf(n, Places),
           NEW L, NEW q, Whole(t, L, q), ToTheEnd(t, q)
    PROVE  \E q2 : /\ Whole(Grow(t), L, q2) /\ ToTheEnd(Grow(t), q2)
                   /\ Consecutive(q) => Consecutive(q2)
                   /\ Len(q2) # 0 /\ q2[1] = IF Len(q) = 0 THEN n ELSE q[1]
<1>1. /\ Keeps(t, L, Places, t.binhead) /\ Free(t, q)
      /\ Elements(q) = (0 .. n - 1) \ L /\ L \subseteq 0 .. n - 1 /\ t.nmax = n
      /\ DOMAIN t.binhead = Places
  BY WholeIs
<1>2. t.freehead # Nil => n - 1 \notin L
  <2>1. SUFFICES ASSUME t.freehead # Nil PROVE n - 1 \notin L
    OBVIOUS
  <2>2. Len(q) # 0 /\ q[Len(q)] = n - 1 /\ Len(q) \in Nat
    BY <1>1, <2>1 DEF Free, RunsDown, ToTheEnd
  <2>3. n - 1 \in Elements(q)
    BY <2>2 DEF Elements
  <2> QED BY <1>1, <2>3
<1>3. Keeps(Grow(t), L, Places, t.binhead)
  BY <1>1, <1>2, GrowKeeps
<1>4. PICK q2 : /\ Free(Grow(t), q2) /\ ToTheEnd(Grow(t), q2)
                /\ Elements(q2) = Elements(q) \cup n .. n + DELTA - 1
                /\ Consecutive(q) => Consecutive(q2)
                /\ Len(q2) # 0 /\ q2[1] = IF Len(q) = 0 THEN n ELSE q[1]
  BY <1>1, GrowFree
<1>5. Grow(t) \in TableOf(n + DELTA, Places) /\ Grow(t).binhead = t.binhead
  <2>1. Grown(Grow(t), t, n, Places)
    BY AfterGrow
  <2> QED BY <2>1 DEF Grown
<1>6. Grow(t).nmax = n + DELTA
  BY <1>5 DEF TableOf
<1>7. Elements(q2) = (0 .. n + DELTA - 1) \ L
  <2>1. DELTA \in Nat
    BY DeltaAssumption
  <2>2. (0 .. n - 1) \cup n .. n + DELTA - 1 = 0 .. n + DELTA - 1
    BY <2>1
  <2>3. (n .. n + DELTA - 1) \cap L = {}
    BY <1>1, <2>1
  <2> QED BY <1>1, <1>4, <2>2, <2>3
<1>8. Whole(Grow(t), L, q2)
  <2>1. Keeps(Grow(t), L, DOMAIN Grow(t).binhead, Grow(t).binhead)
    BY <1>1, <1>3, <1>5
  <2>2. Elements(q2) = (0 .. Grow(t).nmax - 1) \ L
    <3>1. DELTA \in Nat
      BY DeltaAssumption
    <3>2. \A m \in Int : m = n + DELTA => (0 .. m - 1) = 0 .. n + DELTA - 1
      BY <3>1
    <3>3. Grow(t).nmax \in Int
      BY <1>6, <3>1
    <3> QED BY <1>6, <1>7, <3>2, <3>3, Zenon
  <2> QED BY <1>4, <2>1, <2>2 DEF Whole
<1> QED BY <1>4, <1>8

(* grow(0) as often as it takes: what each call preserves.                 *)
LEMMA GrowToIn ==
    ASSUME NEW t, t.nmax \in Nat, NEW m \in Int, NEW W, t \in W, \A u \in W : Grow(u) \in W
    PROVE  GrowTo(t, m) \in W
<1> DEFINE Eq(g) == g = [k \in Nat |-> IF k = 0 THEN t ELSE Grow(g[k - 1])]
           G == CHOOSE g : Eq(g)
           times == (m - t.nmax + DELTA - 1) \div DELTA
<1>1. GrowTo(t, m) = IF m <= t.nmax THEN t ELSE G[times]
  BY DEF GrowTo
<1>2. \E g : Eq(g)
  <2> DEFINE V == [n \in Nat |-> W]
             step == [c \in Nat \X W |-> Grow(c[2])]
  <2>1. \A n \in Nat : \A u \in V[n] : step[<<n, u>>] \in V[n + 1]
    OBVIOUS
  <2>2. t \in V[0]
    OBVIOUS
  <2>3. PICK f : StepsTo(f, t, step) /\ \A n \in Nat : f[n] \in V[n]
    <3> HIDE DEF V, step
    <3> QED BY <2>1, <2>2, StepsTable, Zenon
  <2>4. ASSUME NEW n \in Nat PROVE f[n] = IF n = 0 THEN t ELSE Grow(f[n - 1])
    <3>1. f[n] = IF n = 0 THEN t ELSE step[<<n - 1, f[n - 1]>>]
      <4> HIDE DEF step, V
      <4> QED BY <2>3 DEF StepsTo
    <3>2. n # 0 => n - 1 \in Nat /\ f[n - 1] \in W
      BY <2>3
    <3>3. n # 0 => step[<<n - 1, f[n - 1]>>] = Grow(f[n - 1])
      BY <3>2
    <3> QED BY <3>1, <3>3
  <2>5. f = [n \in Nat |-> f[n]]
    BY <2>3 DEF StepsTo
  <2> QED BY <2>4, <2>5
<1>3. Eq(G)
  BY <1>2
<1>4. G[0] = t /\ \A k \in Nat : G[k + 1] = Grow(G[k])
  <2>1. \A k \in Nat : G[k] = IF k = 0 THEN t ELSE Grow(G[k - 1])
    <3> HIDE DEF G
    <3> QED BY <1>3
  <2> HIDE DEF G
  <2>2. \A k \in Nat : k + 1 \in Nat /\ k + 1 # 0 /\ (k + 1) - 1 = k
    OBVIOUS
  <2> QED BY <2>1, <2>2
<1> HIDE DEF G
<1>5. ASSUME NEW k \in Nat PROVE G[k] \in W
  <2> DEFINE V == [n \in Nat |-> W]
  <2>1. G[0] \in V[0] /\ \A n \in Nat : G[n] \in V[n] => G[n + 1] \in V[n + 1]
    BY <1>4
  <2>2. G[k] \in V[k]
    <3> HIDE DEF V
    <3> QED BY <2>1, StepsValues, Zenon
  <2> QED BY <2>2
<1>6. ~(m <= t.nmax) => times \in Nat
  BY DeltaAssumption
<1> QED BY <1>1, <1>5, <1>6

(* grow(0) only adds slots.                                                *)
LEMMA GrowLarger ==
    ASSUME NEW Places, NoPlace \in Places, NEW t \in SiteTables(Places), NEW u \in SiteTables(Places),
           Larger(u, t)
    PROVE  Grow(u) \in SiteTables(Places) /\ Larger(Grow(u), t)
<1>1. PICK n \in Nat : u \in TableOf(n, Places) /\ u.nmax = n
  BY TableIs
<1>2. /\ Grow(u) \in TableOf(n + DELTA, Places)
      /\ Grow(u).nlocal = u.nlocal /\ Grow(u).nghost = u.nghost
      /\ Grow(u).binhead = u.binhead /\ Same(Grow(u), u, 0 .. n - 1)
  <2>1. Grown(Grow(u), u, n, Places)
    BY <1>1, AfterGrow
  <2> QED BY <2>1 DEF Grown
<1>3. n + DELTA \in Nat /\ n <= n + DELTA /\ Grow(u).nmax = n + DELTA
  BY <1>2, DeltaAssumption DEF TableOf
<1>4. t.nmax \in Nat /\ t.nmax <= n
  BY <1>1, TableIs DEF Larger
<1>5. Same(Grow(u), t, 0 .. t.nmax - 1)
  <2>1. \A k \in 0 .. t.nmax - 1 : k \in 0 .. n - 1
    BY <1>4
  <2> QED BY <1>2, <2>1 DEF Larger, Same
<1>6. Grow(u) \in SiteTables(Places)
  BY <1>2, <1>3, TableIn
<1> QED BY <1>2, <1>3, <1>4, <1>5, <1>6 DEF Larger

(* Growing to a size keeps the lists and adds slots only.                  *)
LEMMA GrowToKeeps ==
    ASSUME NEW n \in Nat, NEW Places, NoPlace \in Places, NEW t \in TableOf(n, Places),
           NEW S, NEW B, NEW h, Keeps(t, S, B, h), t.freehead # Nil => n - 1 \notin S,
           NEW m \in Int
    PROVE  LET u == GrowTo(t, m)
           IN  /\ u \in SiteTables(Places) /\ Larger(u, t) /\ Keeps(u, S, B, h)
               /\ u.freehead = t.freehead \/ (t.freehead = Nil /\ u.freehead \in n .. u.nmax - 1)
<1> DEFINE W == {u \in SiteTables(Places) :
                  /\ Larger(u, t) /\ Keeps(u, S, B, h) /\ (u.freehead # Nil => u.nmax - 1 \notin S)
                  /\ u.freehead = t.freehead \/ (t.freehead = Nil /\ u.freehead \in n .. u.nmax - 1)}
<1>1. t \in SiteTables(Places) /\ t.nmax = n
  BY TableIn
<1>2. t \in W
  BY <1>1 DEF Larger, Same
<1>3. ASSUME NEW u \in W PROVE Grow(u) \in W
  <2>1. PICK n1 \in Nat : u \in TableOf(n1, Places) /\ u.nmax = n1
    BY TableIs
  <2>2. Grow(u) \in SiteTables(Places) /\ Larger(Grow(u), t)
    BY <1>1, GrowLarger
  <2>3. Keeps(Grow(u), S, B, h)
    BY <2>1, GrowKeeps
  <2>4. /\ Grow(u) \in TableOf(n1 + DELTA, Places)
        /\ Grow(u).freehead = (IF u.freehead = Nil THEN n1 ELSE u.freehead)
    <3>1. Grown(Grow(u), u, n1, Places)
      BY <2>1, AfterGrow
    <3> QED BY <3>1 DEF Grown
  <2>5. Grow(u).nmax = n1 + DELTA /\ DELTA \in Nat \ {0}
    BY <2>4, DeltaAssumption DEF TableOf
  <2>6. Grow(u).nmax - 1 \notin S
    <3>1. S \subseteq 0 .. n1 - 1
      BY <2>1 DEF Keeps
    <3> QED BY <2>5, <3>1
  <2>7. Grow(u).freehead = t.freehead
        \/ (t.freehead = Nil /\ Grow(u).freehead \in n .. Grow(u).nmax - 1)
    <3>1. CASE u.freehead = t.freehead /\ u.freehead # Nil
      BY <2>4, <3>1
    <3>2. CASE u.freehead = t.freehead /\ u.freehead = Nil
      <4>1. Grow(u).freehead = n1
        BY <2>4, <3>2
      <4>2. n <= n1
        BY <1>1, <2>1 DEF Larger
      <4> QED BY <2>5, <3>2, <4>1, <4>2
    <3>3. CASE t.freehead = Nil /\ u.freehead \in n .. u.nmax - 1
      <4>1. u.freehead # Nil
        BY <3>3 DEF Nil
      <4>2. Grow(u).freehead = u.freehead
        BY <2>4, <4>1
      <4> QED BY <2>1, <2>5, <3>3, <4>2
    <3> QED BY <3>1, <3>2, <3>3
  <2> QED BY <2>2, <2>3, <2>6, <2>7
<1>4. GrowTo(t, m) \in W
  <2> HIDE DEF W
  <2> QED BY <1>1, <1>2, <1>3, GrowToIn
<1> QED BY <1>4

(* Growing to a size keeps the table whole.                                *)
LEMMA GrowToWhole ==
    ASSUME NEW n \in Nat, NEW Places, NoPlace \in Places, NEW t \in TableOf(n, Places),
           NEW L, NEW q, Whole(t, L, q), ToTheEnd(t, q), NEW m \in Int
    PROVE  LET u == GrowTo(t, m)
           IN  /\ u \in SiteTables(Places) /\ Larger(u, t)
               /\ \E q2 : Whole(u, L, q2) /\ ToTheEnd(u, q2) /\ (Consecutive(q) => Consecutive(q2))
<1> DEFINE W == {u \in SiteTables(Places) :
                  /\ Larger(u, t)
                  /\ \E q2 : Whole(u, L, q2) /\ ToTheEnd(u, q2) /\ (Consecutive(q) => Consecutive(q2))}
<1>1. t \in SiteTables(Places) /\ t.nmax = n
  BY TableIn
<1>2. t \in W
  BY <1>1 DEF Larger, Same
<1>3. ASSUME NEW u \in W PROVE Grow(u) \in W
  <2>1. PICK n1 \in Nat : u \in TableOf(n1, Places) /\ u.nmax = n1
    BY TableIs
  <2>2. Grow(u) \in SiteTables(Places) /\ Larger(Grow(u), t)
    BY <1>1, GrowLarger
  <2>3. PICK q1 : Whole(u, L, q1) /\ ToTheEnd(u, q1) /\ (Consecutive(q) => Consecutive(q1))
    OBVIOUS
  <2>4. PICK q2 : Whole(Grow(u), L, q2) /\ ToTheEnd(Grow(u), q2) /\ (Consecutive(q1) => Consecutive(q2))
    BY <2>1, <2>3, GrowWhole
  <2> QED BY <2>2, <2>3, <2>4
<1>4. GrowTo(t, m) \in W
  <2> HIDE DEF W
  <2> QED BY <1>1, <1>2, <1>3, GrowToIn
<1> QED BY <1>4

(* A new site gets a slot that was free, and the table stays whole.        *)
LEMMA TakeWhole ==
    ASSUME NEW n \in Nat, NEW Places, NoPlace \in Places, NEW t \in TableOf(n, Places),
           NEW L, NEW q, Whole(t, L, q),
           NEW name \in Nat, NEW x \in Int \X Int, NEW b \in Places
    PROVE  LET j == WithFreeSlot(t).freehead
               u == TakeSlot(t, name, x, b)
           IN  u \in SiteTables(Places) /\ \E q2 : Took(u, t, L, q, j, name, x, b, q2)
<1> DEFINE v == WithFreeSlot(t)
           j == v.freehead
           u == TakeSlot(t, name, x, b)
<1>1. TakenFrom(u, v, j, name, x, b)
  BY DEF TakeSlot, TakenFrom
<1>2. /\ Free(t, q) /\ L \subseteq 0 .. n - 1 /\ t.nmax = n
  BY WholeIs
<1>3. t.nfree = Len(q) /\ Len(q) \in Nat
  BY <1>2 DEF Free
<1>4. CASE t.nfree # 0
  <2>1. v = t
    BY <1>4 DEF WithFreeSlot
  <2> HIDE DEF v, u
  <2>2. u \in TableOf(n, Places) /\ Took(u, t, L, q, j, name, x, b, Tail(q))
    <3>1. Len(q) # 0
      BY <1>3, <1>4
    <3> HIDE DEF j
    <3> QED BY <1>1, <2>1, <3>1, TakeFirst
  <2>3. u \in SiteTables(Places)
    BY <2>2, TableIn
  <2> QED BY <2>2, <2>3 DEF u, v
<1>5. CASE t.nfree = 0
  <2>1. v = Grow(t) /\ Len(q) = 0
    BY <1>3, <1>5 DEF WithFreeSlot
  <2> HIDE DEF u, v
  <2>2. ToTheEnd(t, q) /\ Consecutive(q)
    BY <1>3, <2>1 DEF ToTheEnd, Consecutive
  <2>3. PICK r : /\ Whole(v, L, r) /\ ToTheEnd(v, r) /\ Consecutive(r)
                 /\ Len(r) # 0 /\ r[1] = n
    BY <2>1, <2>2, GrowWhole
  <2>4. /\ v \in TableOf(n + DELTA, Places) /\ v.nlocal = t.nlocal /\ v.nghost = t.nghost
        /\ Same(v, t, 0 .. n - 1) /\ n + DELTA \in Nat /\ n <= n + DELTA
    <3>1. Grown(Grow(t), t, n, Places)
      BY AfterGrow
    <3> QED BY <2>1, <3>1, DeltaAssumption DEF Grown
  <2>5. u \in TableOf(n + DELTA, Places) /\ Took(u, v, L, r, j, name, x, b, Tail(r))
    <3> HIDE DEF j
    <3> QED BY <1>1, <2>3, <2>4, TakeFirst
  <2>6. u \in SiteTables(Places) /\ u.nmax = n + DELTA /\ v.nmax = n + DELTA
    BY <2>4, <2>5, TableIn
  <2>7. Same(u, t, L)
    <3>1. Same(u, v, L)
      BY <2>5 DEF Took
    <3> QED BY <1>2, <2>4, <3>1 DEF Same
  <2>8. /\ j \in (0 .. u.nmax - 1) \ L /\ Whole(u, L \cup {j}, Tail(r))
        /\ u.nlocal = v.nlocal /\ u.nghost = v.nghost
        /\ u.id[j] = name /\ u.xyz[j] = x /\ u.bin[j] = b
        /\ ToTheEnd(u, Tail(r)) /\ Consecutive(Tail(r)) /\ j = n
    <3>1. j = IF Len(r) = 0 THEN v.nmax ELSE r[1]
      BY <2>3, <2>5 DEF Took
    <3> QED BY <2>3, <2>5, <3>1 DEF Took
  <2>9. Took(u, t, L, q, j, name, x, b, Tail(r))
    BY <1>2, <2>1, <2>4, <2>6, <2>7, <2>8 DEF Took
  <2> QED BY <2>6, <2>9 DEF u, v
<1> QED BY <1>4, <1>5

(* add_ghost_site() keeps the table whole and the sites it had as they     *)
(* were.                                                                   *)
LEMMA AddGhostWhole ==
    ASSUME NEW n \in Nat, NEW Places, NoPlace \in Places, NEW t \in TableOf(n, Places),
           NEW L, NEW q, Whole(t, L, q),
           NEW name \in Nat, NEW x \in Int \X Int, NEW b \in Places
    PROVE  LET j == WithFreeSlot(t).freehead
               u == AddGhost(t, name, x, b)
           IN  /\ u \in SiteTables(Places) /\ u.nlocal = t.nlocal /\ u.nghost = t.nghost + 1
               /\ \A k \in L : u.nextimage[k] = t.nextimage[k]
               /\ \E q2 : Obtained(u, t, L, q, j, name, x, b, q2)
<1> DEFINE j == WithFreeSlot(t).freehead
           v == TakeSlot(t, name, x, b)
           u == AddGhost(t, name, x, b)
<1>1. v \in SiteTables(Places) /\ \E q2 : Took(v, t, L, q, j, name, x, b, q2)
  BY TakeWhole
<1>2. u = [v EXCEPT !.nghost = @ + 1]
  BY DEF AddGhost
<1> HIDE DEF v, j, u
<1>3. PICK q2 : Took(v, t, L, q, j, name, x, b, q2)
  BY <1>1
<1>4. v.nmax \in Nat /\ v \in TableOf(v.nmax, Places)
  BY <1>1, TableIs
<1>5. /\ u \in TableOf(v.nmax, Places) /\ u.nmax = v.nmax /\ u.next = v.next
      /\ u.prev = v.prev /\ u.bin = v.bin
      /\ u.binhead = v.binhead /\ u.freehead = v.freehead /\ u.nfree = v.nfree
      /\ u.id = v.id /\ u.xyz = v.xyz /\ u.nextimage = v.nextimage
      /\ u.nlocal = v.nlocal /\ u.nghost = v.nghost + 1
  <2>1. v.nghost + 1 \in Int
    BY <1>4 DEF TableOf
  <2> QED BY <1>2, <1>4, <2>1 DEF TableOf
<1>6. Whole(v, L \cup {j}, q2) /\ Same(v, t, L) /\ v.nlocal = t.nlocal /\ v.nghost = t.nghost
  BY <1>3 DEF Took
<1>7. Whole(u, L \cup {j}, q2) /\ (ToTheEnd(v, q2) => ToTheEnd(u, q2))
  BY <1>5, <1>6, WholeSame
<1>8. Obtained(u, t, L, q, j, name, x, b, q2)
  BY <1>3, <1>5, <1>6, <1>7 DEF Obtained, Took, Same
<1>9. \A k \in L : u.nextimage[k] = t.nextimage[k]
  BY <1>5, <1>6 DEF Same
<1>10. u \in SiteTables(Places)
  BY <1>4, <1>5, TableIn
<1> QED BY <1>5, <1>6, <1>8, <1>9, <1>10 DEF u, j

(* add_owned_site() keeps the table whole and the sites it had as they     *)
(* were.                                                                   *)
LEMMA AddOwnedWhole ==
    ASSUME NEW n \in Nat, NEW Places, NoPlace \in Places, NEW t \in TableOf(n, Places),
           NEW L, NEW q, Whole(t, L, q),
           NEW name \in Nat, NEW x \in Int \X Int, NEW b \in Places
    PROVE  LET j == WithFreeSlot(t).freehead
               u == AddOwned(t, name, x, b)
           IN  /\ u \in SiteTables(Places) /\ u.nlocal = t.nlocal + 1 /\ u.nghost = t.nghost
               /\ \A k \in L : u.nextimage[k] = t.nextimage[k]
               /\ \E q2 : Obtained(u, t, L, q, j, name, x, b, q2)
<1> DEFINE j == WithFreeSlot(t).freehead
           v == TakeSlot(t, name, x, b)
           u == AddOwned(t, name, x, b)
<1>1. v \in SiteTables(Places) /\ \E q2 : Took(v, t, L, q, j, name, x, b, q2)
  BY TakeWhole
<1>2. u = [v EXCEPT !.nlocal = @ + 1]
  BY DEF AddOwned
<1> HIDE DEF v, j, u
<1>3. PICK q2 : Took(v, t, L, q, j, name, x, b, q2)
  BY <1>1
<1>4. v.nmax \in Nat /\ v \in TableOf(v.nmax, Places)
  BY <1>1, TableIs
<1>5. /\ u \in TableOf(v.nmax, Places) /\ u.nmax = v.nmax /\ u.next = v.next
      /\ u.prev = v.prev /\ u.bin = v.bin
      /\ u.binhead = v.binhead /\ u.freehead = v.freehead /\ u.nfree = v.nfree
      /\ u.id = v.id /\ u.xyz = v.xyz /\ u.nextimage = v.nextimage
      /\ u.nlocal = v.nlocal + 1 /\ u.nghost = v.nghost
  <2>1. v.nlocal + 1 \in Int
    BY <1>4 DEF TableOf
  <2> QED BY <1>2, <1>4, <2>1 DEF TableOf
<1>6. Whole(v, L \cup {j}, q2) /\ Same(v, t, L) /\ v.nlocal = t.nlocal /\ v.nghost = t.nghost
  BY <1>3 DEF Took
<1>7. Whole(u, L \cup {j}, q2) /\ (ToTheEnd(v, q2) => ToTheEnd(u, q2))
  BY <1>5, <1>6, WholeSame
<1>8. Obtained(u, t, L, q, j, name, x, b, q2)
  BY <1>3, <1>5, <1>6, <1>7 DEF Obtained, Took, Same
<1>9. \A k \in L : u.nextimage[k] = t.nextimage[k]
  BY <1>5, <1>6 DEF Same
<1>10. u \in SiteTables(Places)
  BY <1>4, <1>5, TableIn
<1> QED BY <1>5, <1>6, <1>8, <1>9, <1>10 DEF u, j

(* Adding a periodic image keeps the table whole and puts the image first  *)
(* in the chain of its site.                                               *)
LEMMA AddImageWhole ==
    ASSUME NEW n \in Nat, NEW Places, NoPlace \in Places, NEW t \in TableOf(n, Places),
           NEW L, NEW q, Whole(t, L, q), NEW i \in L,
           NEW x \in Int \X Int, NEW b \in Places
    PROVE  LET j == WithFreeSlot(t).freehead
               u == AddImage(t, i, x, b)
           IN  /\ u \in SiteTables(Places) /\ u.nlocal = t.nlocal /\ u.nghost = t.nghost + 1
               /\ \A k \in L \ {i} : u.nextimage[k] = t.nextimage[k]
               /\ u.nextimage[i] = j /\ u.nextimage[j] = t.nextimage[i]
               /\ \E q2 : Obtained(u, t, L, q, j, t.id[i], x, b, q2)
<1> DEFINE j == WithFreeSlot(t).freehead
           v == AddGhost(t, t.id[i], x, b)
           u == AddImage(t, i, x, b)
<1>1. t.id[i] \in Nat /\ i \in 0 .. n - 1
  BY WholeIs DEF TableOf
<1>2. /\ v \in SiteTables(Places) /\ v.nlocal = t.nlocal /\ v.nghost = t.nghost + 1
      /\ \A k \in L : v.nextimage[k] = t.nextimage[k]
      /\ \E q2 : Obtained(v, t, L, q, j, t.id[i], x, b, q2)
  BY <1>1, AddGhostWhole
<1>3. u = [v EXCEPT !.nextimage[j] = v.nextimage[i], !.nextimage[i] = j]
  BY DEF AddImage
<1> HIDE DEF v, j, u
<1>4. PICK q2 : Obtained(v, t, L, q, j, t.id[i], x, b, q2)
  BY <1>2
<1>5. v.nmax \in Nat /\ v \in TableOf(v.nmax, Places)
  BY <1>2, TableIs
<1>6. j \in 0 .. v.nmax - 1 /\ i \in 0 .. v.nmax - 1 /\ i # j /\ j \notin L /\ t.nmax = n
  BY <1>1, <1>4, <1>5, TableIn DEF Obtained
<1>7. /\ u \in TableOf(v.nmax, Places) /\ u.nmax = v.nmax /\ u.next = v.next
      /\ u.prev = v.prev /\ u.bin = v.bin
      /\ u.binhead = v.binhead /\ u.freehead = v.freehead /\ u.nfree = v.nfree
      /\ u.id = v.id /\ u.xyz = v.xyz
      /\ u.nextimage = [v.nextimage EXCEPT ![j] = v.nextimage[i], ![i] = j]
      /\ u.nlocal = v.nlocal /\ u.nghost = v.nghost
  <2>1. v.nextimage \in [0 .. v.nmax - 1 -> Int]
    BY <1>5 DEF TableOf
  <2>2. v.nextimage[i] \in Int /\ j \in Int
    <3>1. i \in 0 .. v.nmax - 1 /\ j \in 0 .. v.nmax - 1
      BY <1>6
    <3>2. v.nextimage[i] \in Int
      BY <2>1, <3>1, Zenon
    <3>3. v.nmax \in Int
      BY <1>5
    <3> QED BY <3>1, <3>2, <3>3
  <2>3. [v.nextimage EXCEPT ![j] = v.nextimage[i], ![i] = j] \in [0 .. v.nmax - 1 -> Int]
    <3>1. [v.nextimage EXCEPT ![j] = v.nextimage[i]] \in [0 .. v.nmax - 1 -> Int]
      BY <2>1, <2>2
    <3> QED BY <2>2, <3>1
  <2> QED BY <1>3, <1>5, <2>3 DEF TableOf
<1>8. v.nextimage \in [0 .. v.nmax - 1 -> Int]
  BY <1>5 DEF TableOf
<1>9. Whole(u, L \cup {j}, q2) /\ (ToTheEnd(v, q2) => ToTheEnd(u, q2))
  BY <1>4, <1>7, WholeSame DEF Obtained
<1>10. Obtained(u, t, L, q, j, t.id[i], x, b, q2)
  BY <1>4, <1>7, <1>9 DEF Obtained
<1>11. u \in SiteTables(Places)
  BY <1>5, <1>7, TableIn
<1>12. \A k \in L : k \in 0 .. v.nmax - 1 /\ k # j
  <2>1. L \subseteq 0 .. n - 1 /\ t.nmax <= v.nmax /\ v.nmax \in Nat
    BY <1>4, <1>5, WholeIs DEF Obtained
  <2>2. ASSUME NEW k \in L PROVE k \in 0 .. v.nmax - 1 /\ k # j
    <3>0. n <= v.nmax /\ v.nmax \in Nat
      BY <1>6, <2>1
    <3>1. k \in 0 .. n - 1
      BY <2>1
    <3>2. k # j
      BY <1>6
    <3> QED BY <3>0, <3>1, <3>2
  <2> QED BY <2>2
<1>13. /\ \A k \in L \ {i} : u.nextimage[k] = t.nextimage[k]
       /\ u.nextimage[i] = j /\ u.nextimage[j] = t.nextimage[i]
  BY <1>2, <1>6, <1>7, <1>8, <1>12
<1> QED BY <1>2, <1>7, <1>10, <1>11, <1>13 DEF u, j

(* Along one axis: a sub-domain of length s with n bins of at least width. *)
Axis(s, n, width) ==
    /\ s \in Nat \ {0} /\ n \in Nat \ {0} /\ width \in Nat \ {0}
    /\ n * width <= s /\ Step < width

(* Along one axis: bin 0 is below the box, bin n + 1 above it, and the bins*)
(* between share it.                                                       *)
LEMMA AxisIs ==
    ASSUME NEW s, NEW n, NEW width, Axis(s, n, width), NEW r \in Int
    PROVE  /\ BinIndex(r, s, n) \in 0 .. n + 1
           /\ BinIndex(r, s, n) = 0 <=> r < 0
           /\ BinIndex(r, s, n) = n + 1 <=> r >= s
           /\ BinIndex(r, s, n) \in 1 .. n <=> r \in 0 .. s - 1
           /\ r \in 0 .. s - 1 => BinIndex(r, s, n) = (r * n) \div s + 1
<1>1. s \in Nat \ {0} /\ n \in Nat \ {0}
  BY DEF Axis
<1>2. ASSUME r \in 0 .. s - 1 PROVE (r * n) \div s \in 0 .. n - 1
  <2>1. r * n \in Int /\ s * 0 <= r * n /\ r * n < s * n
    BY <1>1, <1>2
  <2>2. 0 <= (r * n) \div s /\ (r * n) \div s <= n - 1 /\ (r * n) \div s \in Int
    <3>1. r * n \in Int /\ s * 0 <= r * n
      BY <2>1
    <3>2. r * n < s * n
      BY <2>1
    <3>3. 0 \in Int /\ n \in Int
      BY <1>1
    <3>4. 0 <= (r * n) \div s /\ (r * n) \div s <= n - 1
      BY <1>1, <3>1, <3>2, <3>3, DivBetween, Zenon
    <3>5. (r * n) \div s \in Int
      BY <1>1, <3>1, DivIs, Zenon
    <3> QED BY <3>4, <3>5
  <2> QED BY <1>1, <2>2
<1> DEFINE i == (r * n) \div s
<1>3. BinIndex(r, s, n) = IF r >= s THEN n + 1 ELSE IF r >= 0 THEN i + 1 ELSE 0
  BY DEF BinIndex
<1> HIDE DEF i
<1>4. r \in 0 .. s - 1 => i \in 0 .. n - 1
  BY <1>2 DEF i
<1>5. CASE r < 0
  BY <1>1, <1>3, <1>5
<1>6. CASE r >= s
  BY <1>1, <1>3, <1>6
<1>7. CASE r \in 0 .. s - 1
  BY <1>1, <1>3, <1>4, <1>7 DEF i
<1> QED BY <1>1, <1>5, <1>6, <1>7

(* A coordinate less than a bin beyond an end is in the ghost bin there;   *)
(* taken one length further it is in the bin at the other end.             *)
LEMMA AxisShift ==
    ASSUME NEW s, NEW n, NEW width, Axis(s, n, width), NEW r \in Int, Step \in Nat,
           -Step <= r, r < s + Step
    PROVE  /\ r < 0 => r + s \in 0 .. s - 1 /\ BinIndex(r + s, s, n) = n
           /\ r >= s => r - s \in 0 .. s - 1 /\ BinIndex(r - s, s, n) = 1
<1>1. s \in Nat \ {0} /\ n \in Nat \ {0} /\ width \in Nat \ {0} /\ n * width <= s /\ Step < width
  BY DEF Axis
<1>2. n * Step < s /\ Step < s
  <2>1. n * Step < n * width /\ width <= n * width
    BY <1>1
  <2>2. n * Step \in Int /\ n * width \in Int
    BY <1>1
  <2> QED BY <1>1, <2>1, <2>2
<1>3. ASSUME r < 0
      PROVE  r + s \in 0 .. s - 1 /\ BinIndex(r + s, s, n) = n
  <2>1. r + s \in 0 .. s - 1
    BY <1>1, <1>2, <1>3
  <2>2. (r + s) * n < s * n /\ s * (n - 1) <= (r + s) * n /\ (r + s) * n \in Int
    <3>1. (r + s) * n = r * n + s * n /\ s * (n - 1) = s * n - s /\ r * n \in Int /\ s * n \in Int
      BY <1>1
    <3>2. r * n >= -(n * Step)
      BY <1>1
    <3>3. r * n < 0
      BY <1>1, <1>3
    <3>4. n * Step \in Int
      BY <1>1
    <3> QED BY <1>1, <1>2, <3>1, <3>2, <3>3, <3>4
  <2>3. ((r + s) * n) \div s \in Int /\ n - 1 <= ((r + s) * n) \div s /\ ((r + s) * n) \div s <= n - 1
    <3>1. (r + s) * n \in Int /\ s * (n - 1) <= (r + s) * n
      BY <2>2
    <3>2. (r + s) * n < s * n
      BY <2>2
    <3>3. (n - 1) \in Int /\ n \in Int
      BY <1>1
    <3>4. n - 1 <= ((r + s) * n) \div s /\ ((r + s) * n) \div s <= n - 1
      BY <1>1, <3>1, <3>2, <3>3, DivBetween, Zenon
    <3>5. ((r + s) * n) \div s \in Int
      BY <1>1, <3>1, DivIs, Zenon
    <3> QED BY <3>4, <3>5
  <2>4. BinIndex(r + s, s, n) = ((r + s) * n) \div s + 1
    BY <2>1, AxisIs
  <2> DEFINE i == ((r + s) * n) \div s
  <2> HIDE DEF i
  <2> QED BY <1>1, <2>1, <2>3, <2>4 DEF i
<1>4. ASSUME r >= s
      PROVE  r - s \in 0 .. s - 1 /\ BinIndex(r - s, s, n) = 1
  <2>1. r - s \in 0 .. s - 1
    BY <1>1, <1>2, <1>4
  <2>2. (r - s) * n < s * 1 /\ s * 0 <= (r - s) * n /\ (r - s) * n \in Int
    <3>1. r - s < Step /\ r - s \in Nat
      BY <1>1, <1>4
    <3>2. (r - s) * n <= n * Step
      BY <1>1, <3>1
    <3> QED BY <1>1, <1>2, <3>1, <3>2
  <2>3. ((r - s) * n) \div s \in Int /\ 0 <= ((r - s) * n) \div s /\ ((r - s) * n) \div s <= 1 - 1
    <3>1. (r - s) * n \in Int /\ s * 0 <= (r - s) * n
      BY <2>2
    <3>2. (r - s) * n < s * 1
      BY <2>2
    <3>3. 0 \in Int /\ 1 \in Int
      OBVIOUS
    <3>4. 0 <= ((r - s) * n) \div s /\ ((r - s) * n) \div s <= 1 - 1
      BY <1>1, <3>1, <3>2, <3>3, DivBetween, Zenon
    <3>5. ((r - s) * n) \div s \in Int
      BY <1>1, <3>1, DivIs, Zenon
    <3> QED BY <3>4, <3>5
  <2>4. BinIndex(r - s, s, n) = ((r - s) * n) \div s + 1
    BY <2>1, AxisIs
  <2> DEFINE i == ((r - s) * n) \div s
  <2> HIDE DEF i
  <2> QED BY <2>1, <2>3, <2>4 DEF i
<1> QED BY <1>3, <1>4

(* With an even number of bins the half of a coordinate is that of its bin.*)
LEMMA AxisHalf ==
    ASSUME NEW s, NEW n, NEW width, Axis(s, n, width), NEW r \in 0 .. s - 1,
           NEW m \in Nat, n = 2 * m
    PROVE  /\ m \in Nat \ {0}
           /\ 2 * r < s <=> BinIndex(r, s, n) <= m
<1>1. s \in Nat \ {0} /\ n \in Nat \ {0} /\ m \in Nat \ {0}
  BY DEF Axis
<1> DEFINE i == (r * n) \div s
<1>2. BinIndex(r, s, n) = i + 1
  BY AxisIs
<1>3. i \in Int /\ s * i <= r * n /\ r * n < s * i + s
  BY <1>1, DivIs
<1> HIDE DEF i
<1>4. ASSUME 2 * r < s PROVE i + 1 <= m
  <2>1. r * n = (2 * r) * m /\ (2 * r) * m < s * m
    BY <1>1, <1>4
  <2>2. s * i < s * m
    BY <1>1, <1>3, <2>1
  <2>3. i < m
    BY <1>1, <1>3, <2>2
  <2> QED BY <1>1, <1>3, <2>3
<1>5. ASSUME ~ (2 * r < s) PROVE ~ (i + 1 <= m)
  <2>1. r * n = (2 * r) * m /\ (2 * r) * m >= s * m
    BY <1>1, <1>5
  <2>2. s * m < s * (i + 1)
    BY <1>1, <1>3, <2>1
  <2>3. m < i + 1
    BY <1>1, <1>3, <2>2
  <2> QED BY <1>1, <1>3, <2>3
<1> QED BY <1>1, <1>2, <1>4, <1>5

(* One move from a half of the sub-domain leads at most into the first bin *)
(* of the other half or the ghost bin of its own.                          *)
LEMMA AxisMove ==
    ASSUME NEW s, NEW n, NEW width, Axis(s, n, width), NEW r \in 0 .. s - 1,
           NEW m \in Nat, n = 2 * m, Step \in Nat, NEW e \in -Step .. Step
    PROVE  /\ 2 * r < s => BinIndex(r + e, s, n) \in 0 .. m + 1 /\ BinIndex(r + e, s, n) # n + 1
           /\ ~ (2 * r < s) => BinIndex(r + e, s, n) \in m .. n + 1 /\ BinIndex(r + e, s, n) # 0
<1>1. /\ s \in Nat \ {0} /\ n \in Nat \ {0} /\ m \in Nat \ {0}
      /\ width \in Nat \ {0} /\ n * width <= s /\ Step < width
  BY DEF Axis
<1>2. n * Step < s /\ 2 * Step < s /\ n * Step \in Nat
  <2>1. n * Step < n * width /\ 2 * width <= n * width
    BY <1>1
  <2>2. n * Step \in Int /\ n * width \in Int
    BY <1>1
  <2> QED BY <1>1, <2>1, <2>2
<1> DEFINE d == r + e
           i == (d * n) \div s
<1>3. d \in Int
  OBVIOUS
<1>4. d * n = r * n + e * n /\ e * n <= n * Step /\ -(n * Step) <= e * n /\ e * n \in Int /\ r * n \in Int
  BY <1>1
<1>5. ASSUME 2 * r < s
      PROVE  BinIndex(d, s, n) \in 0 .. m + 1 /\ BinIndex(d, s, n) # n + 1
  <2>1. d < s
    BY <1>1, <1>2, <1>5
  <2>2. BinIndex(d, s, n) \in 0 .. n + 1 /\ BinIndex(d, s, n) # n + 1
    <3> HIDE DEF d
    <3>1. BinIndex(d, s, n) \in 0 .. n + 1
      BY <1>3, AxisIs, Zenon
    <3>2. BinIndex(d, s, n) = n + 1 <=> d >= s
      BY <1>3, AxisIs, Zenon
    <3> QED BY <1>1, <1>3, <2>1, <3>1, <3>2
  <2>3. CASE d < 0
    <3>1. BinIndex(d, s, n) = 0
      BY <1>3, <2>3, AxisIs
    <3> QED BY <1>1, <2>2, <3>1
  <2>4. CASE d >= 0
    <3>1. r * n = (2 * r) * m /\ (2 * r) * m <= s * m /\ s * (m + 1) = s * m + s
      BY <1>1, <1>5
    <3>2. d * n < s * (m + 1) /\ d * n \in Int /\ s * 0 <= d * n
      <4>1. s * m \in Int
        BY <1>1
      <4>2. 0 <= d * n
        BY <1>1, <1>3, <2>4
      <4> HIDE DEF d
      <4> QED BY <1>1, <1>2, <1>3, <1>4, <3>1, <4>1, <4>2
    <3>3. i \in Int /\ 0 <= i /\ i <= m + 1 - 1
      <4> HIDE DEF d
      <4>1. d * n \in Int /\ s * 0 <= d * n
        BY <3>2
      <4>2. d * n < s * (m + 1)
        BY <3>2
      <4>3. 0 \in Int /\ (m + 1) \in Int
        BY <1>1
      <4>4. 0 <= i /\ i <= m + 1 - 1
        <5> DEFINE l == m + 1
        <5>1. l \in Int /\ d * n < s * l
          BY <4>2, <4>3
        <5> HIDE DEF l
        <5>2. 0 <= i /\ i <= l - 1
          BY <1>1, <4>1, <4>3, <5>1, DivBetween, Zenon
        <5> QED BY <5>2 DEF l
      <4>5. i \in Int
        BY <1>1, <4>1, DivIs, Zenon
      <4> HIDE DEF i
      <4> QED BY <4>4, <4>5
    <3>4. BinIndex(d, s, n) = i + 1
      <4> HIDE DEF d
      <4>1. d \in 0 .. s - 1
        BY <1>1, <1>3, <2>1, <2>4
      <4>2. d \in Int
        BY <1>3
      <4>3. BinIndex(d, s, n) = (d * n) \div s + 1
        BY <4>1, <4>2, AxisIs, Zenon
      <4> QED BY <4>3
    <3> HIDE DEF i
    <3> QED BY <1>1, <2>2, <3>3, <3>4
  <2> QED BY <1>3, <2>3, <2>4
<1>6. ASSUME ~ (2 * r < s)
      PROVE  BinIndex(d, s, n) \in m .. n + 1 /\ BinIndex(d, s, n) # 0
  <2>1. d >= 0
    BY <1>1, <1>2, <1>6
  <2>2. BinIndex(d, s, n) \in 0 .. n + 1 /\ BinIndex(d, s, n) # 0
    BY <1>3, <2>1, AxisIs
  <2>3. CASE d >= s
    <3>1. BinIndex(d, s, n) = n + 1
      BY <1>3, <2>3, AxisIs
    <3> QED BY <1>1, <2>2, <3>1
  <2>4. CASE d < s
    <3>1. r * n = (2 * r) * m /\ (2 * r) * m >= s * m /\ s * (m - 1) = s * m - s
      BY <1>1, <1>6
    <3>2. s * (m - 1) <= d * n /\ d * n \in Int /\ d * n < s * n
      <4>1. s * m \in Int
        BY <1>1
      <4>2. d * n < s * n
        BY <1>1, <1>3, <2>4
      <4> HIDE DEF d
      <4>3. d * n \in Int
        BY <1>1, <1>3
      <4>4. s * (m - 1) <= d * n
        BY <1>1, <1>2, <1>4, <3>1, <4>1
      <4> QED BY <4>2, <4>3, <4>4
    <3>3. i \in Int /\ m - 1 <= i /\ i <= n - 1
      <4> HIDE DEF d
      <4>1. d * n \in Int /\ s * (m - 1) <= d * n
        BY <3>2
      <4>2. d * n < s * (n)
        BY <3>2
      <4>3. (m - 1) \in Int /\ n \in Int
        BY <1>1
      <4>4. m - 1 <= i /\ i <= n - 1
        BY <1>1, <4>1, <4>2, <4>3, DivBetween, Zenon
      <4>5. i \in Int
        BY <1>1, <4>1, DivIs, Zenon
      <4> HIDE DEF i
      <4> QED BY <4>4, <4>5
    <3>4. BinIndex(d, s, n) = i + 1
      <4> HIDE DEF d
      <4>1. d \in 0 .. s - 1
        BY <1>1, <1>3, <2>1, <2>4
      <4>2. d \in Int
        BY <1>3
      <4>3. BinIndex(d, s, n) = (d * n) \div s + 1
        BY <4>1, <4>2, AxisIs, Zenon
      <4> QED BY <4>3
    <3> HIDE DEF i
    <3> QED BY <1>1, <2>2, <3>3, <3>4
  <2>5. d < s \/ d >= s
    <3> HIDE DEF d
    <3> QED BY <1>1, <1>3
  <2> QED BY <2>3, <2>4, <2>5
<1> QED BY <1>5, <1>6

(* Along one axis: the sub-domain beside, the bin that a ghost bin is a    *)
(* copy of, and the boxes between.                                         *)
SideOf(k, n, towards) == IF k = 0 THEN -towards ELSE IF k = n + 1 THEN towards ELSE 0
OwnedOf(k, n) == IF k = 0 THEN n ELSE IF k = n + 1 THEN 1 ELSE k
OffOf(k, n, at, procs) ==
    IF k = 0 /\ at = 0 THEN -1 ELSE IF k = n + 1 /\ at = procs - 1 THEN 1 ELSE 0

(* A copy is in the ghost bin it is made for.                              *)
Towards(to, at, k, n, towards, procs) == to = (at + SideOf(k, n, towards)) % procs
CopiedAt(s, n, procs, k, x, to) ==
    BinIndex((x + OffOf(k, n, to, procs) * (procs * s)) - to * s, s, n) = k
HomeAt(s, n, procs, at, k, x, to) ==
    LET y == x - OffOf(k, n, at, procs) * (procs * s) - to * s
    IN  y \in 0 .. s - 1 /\ BinIndex(y, s, n) = OwnedOf(k, n)

(* Along one axis: the copy a process receives lies in the ghost bin it is *)
(* sent for.                                                               *)
LEMMA CopyAxis ==
    ASSUME NEW s, NEW n, NEW width, Axis(s, n, width), NEW procs \in Nat \ {0},
           NEW at \in 0 .. procs - 1, NEW k \in 0 .. n + 1, NEW x \in Int,
           BinIndex(x - at * s, s, n) = OwnedOf(k, n),
           NEW to, Towards(to, at, k, n, -1, procs)
    PROVE  CopiedAt(s, n, procs, k, x, to)
<1>0. to = (at + SideOf(k, n, -1)) % procs
  BY DEF Towards
<1>1. s \in Nat \ {0} /\ n \in Nat \ {0}
  BY DEF Axis
<1>2. at * s \in Int /\ x - at * s \in Int
  BY <1>1
<1> DEFINE r == x - at * s
           off == OffOf(k, n, to, procs)
           y == (x + off * (procs * s)) - to * s
<1>9. SUFFICES BinIndex(y, s, n) = k
  BY DEF CopiedAt
<1>3. r \in 0 .. s - 1
  <2>1. OwnedOf(k, n) \in 1 .. n
    BY <1>1 DEF OwnedOf
  <2> HIDE DEF r
  <2>2. BinIndex(r, s, n) \in 1 .. n
    BY <2>1 DEF r
  <2>3. r \in Int
    BY <1>2 DEF r
  <2>4. BinIndex(r, s, n) \in 1 .. n <=> r \in 0 .. s - 1
    BY <2>3, AxisIs, Zenon
  <2> QED BY <2>2, <2>4
<1>4. CASE k = 0
  <2>1. to = IF at = procs - 1 THEN 0 ELSE at + 1
    <3>1. SideOf(k, n, -1) = 1
      <4>0. \A a \in Int : -(-a) = a
        OBVIOUS
      <4>1. -(-1) = 1
        BY <4>0, 1 \in Int, Zenon
      <4>2. SideOf(k, n, -1) = -(-1)
        BY <1>4, Zenon DEF SideOf
      <4> QED BY <4>1, <4>2
    <3> QED BY <1>0, <3>1, ModIs
  <2>2. off = IF to = 0 THEN -1 ELSE 0
    BY <1>1, <1>4 DEF OffOf
  <2>3. y = r - s /\ y \in Int
    <3>1. CASE at = procs - 1
      <4>1. at * s = procs * s - s /\ procs * s \in Int
        BY <1>1, <3>1
      <4>2. to = 0 /\ off = -1
        BY <2>1, <2>2, <3>1
      <4> HIDE DEF off
      <4>3. y = x - procs * s
        <5>1. \A a \in Int : 1 * a = a /\ -1 * a = -a /\ 0 * a = 0
          OBVIOUS
        <5> QED BY <4>1, <4>2, <5>1, <1>1
      <4> QED BY <1>1, <1>2, <4>1, <4>3
    <3>2. CASE at # procs - 1
      <4>1. to = at + 1 /\ off = 0
        BY <1>1, <2>1, <2>2, <3>2
      <4>2. (at + 1) * s = at * s + s /\ procs * s \in Int
        BY <1>1
      <4> HIDE DEF off
      <4>3. y = x - (at + 1) * s
        <5>1. \A a \in Int : 1 * a = a /\ -1 * a = -a /\ 0 * a = 0
          OBVIOUS
        <5> QED BY <4>1, <4>2, <5>1, <1>1
      <4> QED BY <1>1, <1>2, <4>2, <4>3
    <3> QED BY <3>1, <3>2
  <2> HIDE DEF y, r
  <2>4. y < 0
    BY <1>1, <1>3, <2>3
  <2>5. BinIndex(y, s, n) = 0 <=> y < 0
    BY <2>3, AxisIs, ZenonT(60)
  <2> QED BY <1>4, <2>4, <2>5 DEF y
<1>5. CASE k = n + 1
  <2>1. to = IF at = 0 THEN procs - 1 ELSE at - 1
    <3>1. SideOf(k, n, -1) = -1
      BY <1>1, <1>5 DEF SideOf
    <3> QED BY <1>0, <3>1, ModIs
  <2>2. off = IF to = procs - 1 THEN 1 ELSE 0
    BY <1>1, <1>5 DEF OffOf
  <2>3. y = r + s /\ y \in Int
    <3>1. CASE at = 0
      <4>1. at * s = 0 /\ procs * s \in Int /\ (procs - 1) * s = procs * s - s
        BY <1>1, <3>1
      <4>2. to = procs - 1 /\ off = 1
        BY <2>1, <2>2, <3>1
      <4> HIDE DEF off
      <4>3. y = (x + procs * s) - (procs - 1) * s
        <5>1. \A a \in Int : 1 * a = a /\ -1 * a = -a /\ 0 * a = 0
          OBVIOUS
        <5> QED BY <4>1, <4>2, <5>1, <1>1
      <4> QED BY <1>1, <1>2, <4>1, <4>3
    <3>2. CASE at # 0
      <4>1. to = at - 1 /\ off = 0
        BY <1>1, <2>1, <2>2, <3>2
      <4>2. (at - 1) * s = at * s - s /\ procs * s \in Int
        BY <1>1
      <4> HIDE DEF off
      <4>3. y = x - (at - 1) * s
        <5>1. \A a \in Int : 1 * a = a /\ -1 * a = -a /\ 0 * a = 0
          OBVIOUS
        <5> QED BY <4>1, <4>2, <5>1, <1>1
      <4> QED BY <1>1, <1>2, <4>2, <4>3
    <3> QED BY <3>1, <3>2
  <2> HIDE DEF y, r
  <2>4. y >= s
    BY <1>1, <1>3, <2>3
  <2>5. BinIndex(y, s, n) = n + 1 <=> y >= s
    BY <2>3, AxisIs, Zenon
  <2> QED BY <1>5, <2>4, <2>5 DEF y
<1>6. CASE k # 0 /\ k # n + 1
  <2>1. to = at /\ off = 0 /\ OwnedOf(k, n) = k
    BY <1>0, <1>1, <1>6, ModIs DEF SideOf, OffOf, OwnedOf
  <2>2. y = r
    <3>1. procs * s \in Int
      BY <1>1
    <3> HIDE DEF off
    <3> QED BY <1>1, <1>2, <2>1, <3>1
  <2> QED BY <2>1, <2>2
<1> QED BY <1>4, <1>5, <1>6

(* A site that is handed over is in the bin of its new owner that the      *)
(* ghost bin is a copy of.                                                 *)
LEMMA HomeAxis ==
    ASSUME NEW s, NEW n, NEW width, Axis(s, n, width), NEW procs \in Nat \ {0},
           NEW at \in 0 .. procs - 1, NEW x \in Int, Step \in Nat,
           -Step <= x - at * s, x - at * s < s + Step,
           NEW k, k = BinIndex(x - at * s, s, n),
           NEW to, Towards(to, at, k, n, 1, procs)
    PROVE  HomeAt(s, n, procs, at, k, x, to)
<1>0. to = (at + SideOf(k, n, 1)) % procs
  BY DEF Towards
<1>1. s \in Nat \ {0} /\ n \in Nat \ {0}
  BY DEF Axis
<1>2. at * s \in Int /\ x - at * s \in Int /\ procs * s \in Int
  BY <1>1
<1> DEFINE r == x - at * s
           off == OffOf(k, n, at, procs)
           y == x - off * (procs * s) - to * s
<1>9. SUFFICES y \in 0 .. s - 1 /\ BinIndex(y, s, n) = OwnedOf(k, n)
  BY DEF HomeAt
<1>3. r \in Int /\ -Step <= r /\ r < s + Step
  BY <1>2
<1>4. /\ k \in 0 .. n + 1 /\ (k = 0 <=> r < 0) /\ (k = n + 1 <=> r >= s)
      /\ (k \in 1 .. n <=> r \in 0 .. s - 1) /\ k = BinIndex(r, s, n)
  <2>1. k = BinIndex(r, s, n)
    OBVIOUS
  <2> HIDE DEF r
  <2>2. /\ BinIndex(r, s, n) \in 0 .. n + 1
        /\ BinIndex(r, s, n) = 0 <=> r < 0
        /\ BinIndex(r, s, n) = n + 1 <=> r >= s
        /\ BinIndex(r, s, n) \in 1 .. n <=> r \in 0 .. s - 1
    BY <1>3, AxisIs, Zenon
  <2> QED BY <2>1, <2>2
<1>5. /\ r < 0 => r + s \in 0 .. s - 1 /\ BinIndex(r + s, s, n) = n
      /\ r >= s => r - s \in 0 .. s - 1 /\ BinIndex(r - s, s, n) = 1
  <2> HIDE DEF r
  <2> QED BY <1>3, AxisShift, Zenon
<1>6. CASE k = 0
  <2>1. /\ to = IF at = 0 THEN procs - 1 ELSE at - 1
        /\ off = IF at = 0 THEN -1 ELSE 0
    <3>1. SideOf(k, n, 1) = -1
      BY <1>6 DEF SideOf
    <3>2. to = IF at = 0 THEN procs - 1 ELSE at - 1
      BY <1>0, <3>1, ModIs
    <3> QED BY <1>1, <1>6, <3>2 DEF OffOf
  <2>2. y = r + s
    <3>1. CASE at = 0
      <4>1. at * s = 0 /\ (procs - 1) * s = procs * s - s
        BY <1>1, <3>1
      <4>2. to = procs - 1 /\ off = -1
        BY <2>1, <3>1
      <4> HIDE DEF off
      <4>3. y = (x + procs * s) - (procs - 1) * s
        <5>1. \A a \in Int : 1 * a = a /\ -1 * a = -a /\ 0 * a = 0
          OBVIOUS
        <5> QED BY <4>1, <4>2, <5>1, <1>1, <1>2
      <4> QED BY <1>1, <1>2, <4>1, <4>3
    <3>2. CASE at # 0
      <4>1. to = at - 1 /\ off = 0
        BY <1>1, <2>1, <3>2
      <4>2. (at - 1) * s = at * s - s
        BY <1>1
      <4> HIDE DEF off
      <4>3. y = x - (at - 1) * s
        <5> DEFINE P == procs * s
        <5>1. (at - 1) * s \in Int /\ P \in Int
          BY <1>1, <1>2
        <5>2. y = x - off * P - (at - 1) * s
          BY <4>1
        <5> HIDE DEF P, y
        <5>3. \A c \in Int : x - off * P - c = x - c
          BY <4>1, <5>1
        <5> QED BY <5>1, <5>2, <5>3
      <4> QED BY <1>1, <1>2, <4>2, <4>3
    <3> QED BY <3>1, <3>2
  <2>3. OwnedOf(k, n) = n
    BY <1>6 DEF OwnedOf
  <2> HIDE DEF y, r
  <2> QED BY <1>4, <1>5, <1>6, <2>2, <2>3 DEF y
<1>7. CASE k = n + 1
  <2>1. /\ to = IF at = procs - 1 THEN 0 ELSE at + 1
        /\ off = IF at = procs - 1 THEN 1 ELSE 0
    <3>1. SideOf(k, n, 1) = 1
      BY <1>1, <1>7 DEF SideOf
    <3>2. to = IF at = procs - 1 THEN 0 ELSE at + 1
      BY <1>0, <3>1, ModIs
    <3> QED BY <1>1, <1>7, <3>2 DEF OffOf
  <2>2. y = r - s
    <3>1. CASE at = procs - 1
      <4>1. at * s = procs * s - s
        BY <1>1, <3>1
      <4>2. to = 0 /\ off = 1
        BY <2>1, <3>1
      <4> HIDE DEF off
      <4>3. y = x - procs * s
        <5>1. \A a \in Int : 1 * a = a /\ 0 * a = 0
          OBVIOUS
        <5>2. off * (procs * s) = procs * s /\ to * s = 0
          BY <4>2, <5>1, <1>1, <1>2
        <5>3. procs * s \in Int
          BY <1>2
        <5> DEFINE a == off * (procs * s)
                   b == procs * s
                   c == to * s
        <5> HIDE DEF a, b, c, y
        <5>4. y = x - a - c /\ a = b /\ c = 0 /\ b \in Int
          BY <5>2, <5>3 DEF y, a, b, c
        <5>5. y = x - b
          BY <5>4
        <5> QED BY <5>5 DEF b
      <4> QED BY <1>1, <1>2, <4>1, <4>3
    <3>2. CASE at # procs - 1
      <4>1. to = at + 1 /\ off = 0
        BY <1>1, <2>1, <3>2
      <4>2. (at + 1) * s = at * s + s
        BY <1>1
      <4> HIDE DEF off
      <4>3. y = x - (at + 1) * s
        <5>1. \A a \in Int : 1 * a = a /\ -1 * a = -a /\ 0 * a = 0
          OBVIOUS
        <5> QED BY <4>1, <4>2, <5>1, <1>1, <1>2
      <4> QED BY <1>1, <1>2, <4>2, <4>3
    <3> QED BY <3>1, <3>2
  <2>3. OwnedOf(k, n) = 1
    BY <1>1, <1>7 DEF OwnedOf
  <2> HIDE DEF y, r
  <2> QED BY <1>4, <1>5, <1>7, <2>2, <2>3 DEF y
<1>8. CASE k # 0 /\ k # n + 1
  <2>1. to = at /\ off = 0 /\ OwnedOf(k, n) = k
    BY <1>0, <1>1, <1>8, ModIs DEF SideOf, OffOf, OwnedOf
  <2>2. y = r
    <3> HIDE DEF off
    <3> QED BY <1>1, <1>2, <2>1
  <2>3. k \in 1 .. n
    <3> HIDE DEF r
    <3> QED BY <1>1, <1>4, <1>8
  <2> HIDE DEF y, r
  <2> QED BY <1>4, <2>1, <2>2, <2>3 DEF y
<1> HIDE DEF y
<1> QED BY <1>6, <1>7, <1>8 DEF y

(* A move is shorter than the cutoff, twice a move too.                    *)
LEMMA StepIs == Step \in Nat \ {0} /\ Cutoff \in Nat \ {0} /\ Step < Cutoff /\ 2 * Step < Cutoff
BY MoveAssumption DEF Cutoff

(* What the assumptions say of the layout in use.                          *)
LEMMA GridIs ==
    ASSUME layout \in Layouts
    PROVE  /\ layout.px \in Nat \ {0} /\ layout.py \in Nat \ {0}
           /\ layout.sx \in Nat \ {0} /\ layout.sy \in Nat \ {0}
           /\ layout.nsector \in {1, 2, 4}
           /\ Axis(layout.sx, NBinX, Cutoff) /\ Axis(layout.sy, NBinY, Cutoff)
           /\ Sectored => \E m \in Nat : NBinX = 2 * m
           /\ layout.nsector = 4 => \E m \in Nat : NBinY = 2 * m
           /\ ~ Sectored => layout.px = 1 /\ layout.py = 1
           /\ layout.nsector = 2 => layout.py = 1
           /\ Sectored <=> layout.nsector \in {2, 4}
<1>1. /\ layout.px \in Nat \ {0} /\ layout.py \in Nat \ {0}
      /\ layout.sx \in Nat \ {0} /\ layout.sy \in Nat \ {0}
      /\ layout.nsector \in {1, 2, 4}
      /\ layout.nsector = 1 => layout.px = 1 /\ layout.py = 1
      /\ layout.nsector = 2 => layout.py = 1
  BY LayoutAssumption
<1>2. /\ layout.sx >= (IF layout.nsector >= 2 THEN 2 ELSE 1) * Cutoff
      /\ layout.sy >= (IF layout.nsector >= 4 THEN 2 ELSE 1) * Cutoff
  BY BinAssumption
<1>3. Sectored <=> layout.nsector \in {2, 4}
  BY <1>1 DEF Sectored
<1>4. ASSUME NEW s \in Nat \ {0}, NEW cut \in BOOLEAN, s >= (IF cut THEN 2 ELSE 1) * Cutoff
      PROVE  LET n == s \div Cutoff
                 nb == IF cut THEN (n \div 2) * 2 ELSE n
             IN  Axis(s, nb, Cutoff) /\ (cut => \E m \in Nat : nb = 2 * m)
  <2> DEFINE n == s \div Cutoff
             nb == IF cut THEN (n \div 2) * 2 ELSE n
  <2>1. n \in Int /\ Cutoff * n <= s /\ s < Cutoff * n + Cutoff
    BY StepIs, DivIs
  <2>2. n >= (IF cut THEN 2 ELSE 1)
    <3> HIDE DEF n
    <3>1. ASSUME NEW c \in Nat, c * Cutoff <= s PROVE n >= c
      <4>1. c * Cutoff < (n + 1) * Cutoff
        BY <2>1, <3>1, StepIs
      <4>2. c < n + 1
        BY <2>1, <4>1, StepIs
      <4> QED BY <2>1, <4>2
    <3>2. CASE cut
      BY <1>4, <3>1, <3>2, StepIs
    <3>3. CASE ~ cut
      BY <1>4, <3>1, <3>3, StepIs
    <3> QED BY <3>2, <3>3
  <2>3. nb \in Nat \ {0} /\ nb <= n /\ (cut => \E m \in Nat : nb = 2 * m)
    <3> HIDE DEF n
    <3>1. n \in Nat \ {0}
      BY <2>1, <2>2
    <3>2. CASE ~ cut
      BY <3>1, <3>2
    <3>3. CASE cut
      <4>1. n >= 2
        BY <2>2, <3>3
      <4>2. (n \div 2) \in Nat \ {0} /\ (n \div 2) * 2 <= n
        BY <3>1, <4>1
      <4> QED BY <3>3, <4>2
    <3> QED BY <3>2, <3>3
  <2>4. nb * Cutoff <= s
    <3> HIDE DEF n, nb
    <3>1. nb * Cutoff <= Cutoff * n
      BY <2>1, <2>3, StepIs
    <3> QED BY <2>1, <2>3, <3>1, StepIs
  <2> HIDE DEF nb, n
  <2>5. Axis(s, nb, Cutoff)
    BY <2>3, <2>4, StepIs DEF Axis
  <2> QED BY <2>3, <2>5 DEF nb, n
<1>5. Axis(layout.sx, NBinX, Cutoff) /\ (layout.nsector >= 2 => \E m \in Nat : NBinX = 2 * m)
  <2>1. (layout.nsector >= 2) \in BOOLEAN
    OBVIOUS
  <2> QED BY <1>1, <1>2, <1>4, <2>1 DEF NBinX
<1>6. Axis(layout.sy, NBinY, Cutoff) /\ (layout.nsector >= 4 => \E m \in Nat : NBinY = 2 * m)
  <2>1. (layout.nsector >= 4) \in BOOLEAN
    OBVIOUS
  <2> QED BY <1>1, <1>2, <1>4, <2>1 DEF NBinY
<1>7. /\ layout.nsector \in {2, 4} => layout.nsector >= 2
      /\ layout.nsector = 4 => layout.nsector >= 4
      /\ layout.nsector \notin {2, 4} => layout.nsector = 1
  BY <1>1
<1> QED BY <1>1, <1>3, <1>5, <1>6, <1>7

(* A number is its quotient and its remainder.                             *)
LEMMA Composed ==
    ASSUME NEW n \in Nat \ {0}, NEW a \in Nat
    PROVE  a = (a \div n) * n + (a % n) /\ a % n \in 0 .. n - 1
<1>1. a = (a \div n) * n + (a % n)
  OBVIOUS
<1>2. a % n \in 0 .. n - 1
  OBVIOUS
<1> QED BY <1>1, <1>2

(* A process has one place in the grid of processes.                       *)
LEMMA ProcIs ==
    ASSUME layout \in Layouts, NEW p \in Proc
    PROVE  /\ ProcX(p) \in 0 .. layout.px - 1 /\ ProcY(p) \in 0 .. layout.py - 1
           /\ p = ProcY(p) * layout.px + ProcX(p)
<1> DEFINE n == layout.px
           y == p \div n
<1>1. n \in Nat \ {0} /\ layout.py \in Nat \ {0}
  BY GridIs
<1>2. p \in Nat /\ p < n * layout.py
  BY <1>1 DEF Proc
<1>3. p % n \in 0 .. n - 1 /\ p = y * n + (p % n)
  <2> HIDE DEF n
  <2> QED BY <1>1, <1>2, Composed, Zenon
<1>5. 0 <= y /\ y <= layout.py - 1 /\ y \in Int
  <2> HIDE DEF n
  <2>1. p \in Int /\ 0 \in Int /\ layout.py \in Int /\ n * 0 <= p
    BY <1>1, <1>2
  <2>2. p < n * layout.py
    BY <1>2
  <2>3. 0 <= y /\ y <= layout.py - 1
    BY <1>1, <2>1, <2>2, DivBetween, Zenon
  <2>4. y \in Int
    BY <1>1, <2>1, DivIs, Zenon
  <2> QED BY <2>3, <2>4
<1>6. y \in 0 .. layout.py - 1
  <2> HIDE DEF y
  <2> QED BY <1>1, <1>5
<1>7. ProcX(p) = p % n /\ ProcY(p) = y
  BY DEF ProcX, ProcY
<1> DEFINE r == p % n
<1>8. ProcX(p) = r /\ ProcY(p) = y /\ r \in 0 .. n - 1 /\ p = y * n + r
  BY <1>3, <1>7, Zenon
<1> HIDE DEF y, r
<1> QED BY <1>6, <1>8

(* A place in the grid is that of one process.                             *)
LEMMA ProcOf ==
    ASSUME layout \in Layouts, NEW x \in 0 .. layout.px - 1, NEW y \in 0 .. layout.py - 1
    PROVE  /\ y * layout.px + x \in Proc
           /\ ProcX(y * layout.px + x) = x /\ ProcY(y * layout.px + x) = y
<1>1. layout.px \in Nat \ {0} /\ layout.py \in Nat \ {0}
  BY GridIs
<1> DEFINE n == layout.px
           p == y * n + x
<1>2. p \in Nat /\ p < n * layout.py
  <2>1. y * n <= (layout.py - 1) * n
    BY <1>1
  <2>2. (layout.py - 1) * n = layout.py * n - n /\ layout.py * n \in Int /\ y * n \in Nat
    BY <1>1
  <2> QED BY <1>1, <2>1, <2>2
<1>3. p % n = x /\ p \div n = y
  <2>1. y \in Nat
    BY <1>1
  <2> QED BY <1>1, <2>1, DivMod, Zenon
<1>5. p \in Proc
  BY <1>1, <1>2 DEF Proc
<1> QED BY <1>3, <1>5 DEF ProcX, ProcY

Point == Int \X Int
X1(p, x) == x[1] - ProcX(p) * layout.sx
X2(p, x) == x[2] - ProcY(p) * layout.sy

(* A point is its two coordinates.                                         *)
LEMMA PointIs ==
    ASSUME NEW x \in Point
    PROVE  x[1] \in Int /\ x[2] \in Int /\ x = <<x[1], x[2]>>
BY DEF Point

(* Pairs are equal when their parts are.                                   *)
LEMMA PairIs ==
    ASSUME NEW a, NEW b, NEW c, NEW d
    PROVE  (<<a, b>> = <<c, d>> <=> a = c /\ b = d) /\ <<a, b>>[1] = a /\ <<a, b>>[2] = b
OBVIOUS

(* The bin and the box of a point, axis by axis.                           *)
LEMMA AxesIs ==
    ASSUME layout \in Layouts, NEW p \in Proc, NEW x \in Point
    PROVE  /\ X1(p, x) \in Int /\ X2(p, x) \in Int
           /\ Site2Bin(p, x) = <<BinIndex(X1(p, x), layout.sx, NBinX),
                                 BinIndex(X2(p, x), layout.sy, NBinY)>>
           /\ InDomain(p, x) <=> X1(p, x) \in 0 .. layout.sx - 1 /\ X2(p, x) \in 0 .. layout.sy - 1
<1>1. layout.sx \in Nat /\ layout.sy \in Nat
  BY GridIs
<1>2. ProcX(p) \in Int /\ ProcY(p) \in Int
  BY ProcIs, GridIs
<1>3. ProcX(p) * layout.sx \in Int /\ ProcY(p) * layout.sy \in Int
  BY <1>1, <1>2
<1>4. Minus(x, Lo(p)) = <<X1(p, x), X2(p, x)>>
  BY DEF Minus, Lo, X1, X2
<1>5. Minus(x, Lo(p))[1] = X1(p, x) /\ Minus(x, Lo(p))[2] = X2(p, x)
  BY <1>4, PairIs
<1>6. X1(p, x) \in Int /\ X2(p, x) \in Int
  BY <1>3, PointIs DEF X1, X2
<1> QED BY <1>5, <1>6 DEF Site2Bin, InDomain

(* A point is in the box of a process exactly when its bin is no ghost bin.*)
LEMMA SiteBinIs ==
    ASSUME layout \in Layouts, NEW p \in Proc, NEW x \in Point
    PROVE  /\ Site2Bin(p, x) \in Bins
           /\ InDomain(p, x) <=> ~ IsGhost(Site2Bin(p, x))
<1> DEFINE i == BinIndex(X1(p, x), layout.sx, NBinX)
           j == BinIndex(X2(p, x), layout.sy, NBinY)
           b == Site2Bin(p, x)
<1>1. /\ X1(p, x) \in Int /\ X2(p, x) \in Int
      /\ Site2Bin(p, x) = <<i, j>>
      /\ InDomain(p, x) <=> X1(p, x) \in 0 .. layout.sx - 1 /\ X2(p, x) \in 0 .. layout.sy - 1
  BY AxesIs
<1>2. Axis(layout.sx, NBinX, Cutoff) /\ Axis(layout.sy, NBinY, Cutoff)
  BY GridIs
<1>3. i \in 0 .. NBinX + 1 /\ (i \in 1 .. NBinX <=> X1(p, x) \in 0 .. layout.sx - 1)
  BY <1>1, <1>2, AxisIs, Zenon
<1>4. j \in 0 .. NBinY + 1 /\ (j \in 1 .. NBinY <=> X2(p, x) \in 0 .. layout.sy - 1)
  BY <1>1, <1>2, AxisIs, Zenon
<1>5. NBinX \in Nat \ {0} /\ NBinY \in Nat \ {0}
  BY <1>2 DEF Axis
<1> HIDE DEF i, j
<1>6. b[1] = i /\ b[2] = j /\ b = <<i, j>>
  BY <1>1, PairIs
<1>7. b \in Bins
  BY <1>3, <1>4, <1>6 DEF Bins
<1>8. IsGhost(b) <=> ~ (i \in 1 .. NBinX /\ j \in 1 .. NBinY)
  BY <1>3, <1>4, <1>5, <1>6 DEF IsGhost
<1> QED BY <1>1, <1>3, <1>4, <1>7, <1>8

(* Every ghost bin stands for an owned bin at the edge.                    *)
LEMMA BinIs ==
    ASSUME layout \in Layouts, NEW g \in Bins
    PROVE  /\ g[1] \in 0 .. NBinX + 1 /\ g[2] \in 0 .. NBinY + 1 /\ g = <<g[1], g[2]>>
           /\ GhostIndex(g) = <<OwnedOf(g[1], NBinX), OwnedOf(g[2], NBinY)>>
           /\ GhostIndex(g) \in Bins /\ ~ IsGhost(GhostIndex(g))
           /\ IsGhost(g) => IsEdge(GhostIndex(g))
           /\ ~ IsGhost(g) => GhostIndex(g) = g
<1>1. NBinX \in Nat \ {0} /\ NBinY \in Nat \ {0}
  BY GridIs DEF Axis
<1>2. g[1] \in 0 .. NBinX + 1 /\ g[2] \in 0 .. NBinY + 1 /\ g = <<g[1], g[2]>>
  BY DEF Bins
<1>3. GhostIndex(g) = <<OwnedOf(g[1], NBinX), OwnedOf(g[2], NBinY)>>
  BY DEF GhostIndex, OwnedOf
<1> DEFINE i == OwnedOf(g[1], NBinX)
           j == OwnedOf(g[2], NBinY)
<1>4. i \in 1 .. NBinX /\ j \in 1 .. NBinY
  BY <1>1, <1>2 DEF OwnedOf
<1>5. /\ g[1] \in {0, NBinX + 1} => i \in {1, NBinX}
      /\ g[2] \in {0, NBinY + 1} => j \in {1, NBinY}
      /\ g[1] \notin {0, NBinX + 1} => i = g[1]
      /\ g[2] \notin {0, NBinY + 1} => j = g[2]
  BY DEF OwnedOf
<1> HIDE DEF i, j
<1>6. GhostIndex(g)[1] = i /\ GhostIndex(g)[2] = j /\ GhostIndex(g) = <<i, j>>
  BY <1>3, PairIs DEF i, j
<1>7. GhostIndex(g) \in Bins
  BY <1>1, <1>4, <1>6 DEF Bins
<1>8. ~ IsGhost(GhostIndex(g))
  BY <1>1, <1>4, <1>6 DEF IsGhost
<1>9. IsGhost(g) => IsEdge(GhostIndex(g))
  BY <1>5, <1>6, <1>8 DEF IsGhost, IsEdge
<1>10. ~ IsGhost(g) => GhostIndex(g) = g
  BY <1>2, <1>5, <1>6 DEF IsGhost
<1> QED BY <1>2, <1>3, <1>7, <1>8, <1>9, <1>10

(* The process on the other side of a bin, axis by axis.                   *)
LEMMA NeighIs ==
    ASSUME layout \in Layouts, NEW p \in Proc, NEW g \in Bins, NEW towards \in {-1, 1}
    PROVE  /\ NeighProc(p, towards, g) \in Proc
           /\ ProcX(NeighProc(p, towards, g)) =
                 (ProcX(p) + SideOf(g[1], NBinX, towards)) % layout.px
           /\ ProcY(NeighProc(p, towards, g)) =
                 (ProcY(p) + SideOf(g[2], NBinY, towards)) % layout.py
<1> DEFINE x == (ProcX(p) + SideOf(g[1], NBinX, towards)) % layout.px
           y == (ProcY(p) + SideOf(g[2], NBinY, towards)) % layout.py
<1>1. NeighProc(p, towards, g) = y * layout.px + x
  BY DEF NeighProc, SideOf
<1>2. layout.px \in Nat \ {0} /\ layout.py \in Nat \ {0}
  BY GridIs
<1>3. ProcX(p) \in Int /\ ProcY(p) \in Int
  BY ProcIs, <1>2
<1>4. SideOf(g[1], NBinX, towards) \in Int /\ SideOf(g[2], NBinY, towards) \in Int
  BY DEF SideOf
<1>5. \A a \in Int, n \in Nat \ {0} : a % n \in 0 .. n - 1
  OBVIOUS
<1>6. x \in 0 .. layout.px - 1 /\ y \in 0 .. layout.py - 1
  <2>1. /\ ProcX(p) + SideOf(g[1], NBinX, towards) \in Int
        /\ ProcY(p) + SideOf(g[2], NBinY, towards) \in Int
    BY <1>3, <1>4
  <2> QED BY <1>2, <1>5, <2>1
<1> HIDE DEF x, y
<1>7. y * layout.px + x \in Proc /\ ProcX(y * layout.px + x) = x /\ ProcY(y * layout.px + x) = y
  BY <1>6, ProcOf, Zenon
<1> QED BY <1>1, <1>7 DEF x, y

(* The shift of a position that crosses the periodic box.                  *)
LEMMA ShiftIs ==
    ASSUME NEW p, NEW g
    PROVE  Shift(p, g) = <<OffOf(g[1], NBinX, ProcX(p), layout.px) * (layout.px * layout.sx),
                           OffOf(g[2], NBinY, ProcY(p), layout.py) * (layout.py * layout.sy)>>
<1>1. PbcOffset(p, g) = <<OffOf(g[1], NBinX, ProcX(p), layout.px),
                          OffOf(g[2], NBinY, ProcY(p), layout.py)>>
  BY DEF PbcOffset, OffOf
<1> QED BY <1>1 DEF Shift, Times, Box

(* A copy for ghost bin g is in g.                                         *)
LEMMA CopyBin ==
    ASSUME layout \in Layouts, NEW q \in Proc, NEW g \in Bins, NEW x \in Point,
           Site2Bin(q, x) = GhostIndex(g), NEW p, p = NeighProc(q, -1, g)
    PROVE  /\ p \in Proc /\ Plus(x, Shift(p, g)) \in Point
           /\ Site2Bin(p, Plus(x, Shift(p, g))) = g
<1> DEFINE ox == OffOf(g[1], NBinX, ProcX(p), layout.px)
           oy == OffOf(g[2], NBinY, ProcY(p), layout.py)
           y == Plus(x, Shift(p, g))
           bx == layout.px * layout.sx
           by == layout.py * layout.sy
<1>1. /\ layout.px \in Nat \ {0} /\ layout.py \in Nat \ {0}
      /\ layout.sx \in Nat \ {0} /\ layout.sy \in Nat \ {0}
      /\ Axis(layout.sx, NBinX, Cutoff) /\ Axis(layout.sy, NBinY, Cutoff)
  BY GridIs
<1>2. /\ g[1] \in 0 .. NBinX + 1 /\ g[2] \in 0 .. NBinY + 1 /\ g = <<g[1], g[2]>>
      /\ GhostIndex(g) = <<OwnedOf(g[1], NBinX), OwnedOf(g[2], NBinY)>>
  BY BinIs
<1>3. /\ p \in Proc
      /\ ProcX(p) = (ProcX(q) + SideOf(g[1], NBinX, -1)) % layout.px
      /\ ProcY(p) = (ProcY(q) + SideOf(g[2], NBinY, -1)) % layout.py
  <2>1. -1 \in {-1, 1}
    OBVIOUS
  <2> QED BY <2>1, NeighIs
<1>4. ProcX(q) \in 0 .. layout.px - 1 /\ ProcY(q) \in 0 .. layout.py - 1
  BY ProcIs
<1>5. /\ BinIndex(X1(q, x), layout.sx, NBinX) = OwnedOf(g[1], NBinX)
      /\ BinIndex(X2(q, x), layout.sy, NBinY) = OwnedOf(g[2], NBinY)
  BY <1>2, AxesIs, PairIs
<1>6. x[1] \in Int /\ x[2] \in Int
  BY PointIs
<1>7. y = <<x[1] + ox * bx, x[2] + oy * by>>
  BY ShiftIs DEF Plus
<1>8. ox \in Int /\ oy \in Int /\ bx \in Int /\ by \in Int
  BY <1>1 DEF OffOf
<1>9. y \in Point
  <2> HIDE DEF ox, oy, bx, by, y
  <2>1. ox * bx \in Int /\ oy * by \in Int
    BY <1>8
  <2> QED BY <1>6, <1>7, <2>1 DEF Point
<1>10. BinIndex((x[1] + ox * bx) - ProcX(p) * layout.sx, layout.sx, NBinX) = g[1]
  <2>1. BinIndex(x[1] - ProcX(q) * layout.sx, layout.sx, NBinX) = OwnedOf(g[1], NBinX)
    BY <1>5 DEF X1
  <2>2. Axis(layout.sx, NBinX, Cutoff)
    BY <1>1
  <2>3. layout.px \in Nat \ {0}
    BY <1>1
  <2>4. ProcX(q) \in 0 .. layout.px - 1
    BY <1>4
  <2>5. g[1] \in 0 .. NBinX + 1 /\ x[1] \in Int
    BY <1>2, <1>6
  <2>6. Towards(ProcX(p), ProcX(q), g[1], NBinX, -1, layout.px)
    BY <1>3 DEF Towards
  <2>7. CopiedAt(layout.sx, NBinX, layout.px, g[1], x[1], ProcX(p))
    BY <2>1, <2>2, <2>3, <2>4, <2>5, <2>6, CopyAxis, Zenon
  <2> QED BY <2>7, Zenon DEF CopiedAt
<1>11. BinIndex((x[2] + oy * by) - ProcY(p) * layout.sy, layout.sy, NBinY) = g[2]
  <2>1. BinIndex(x[2] - ProcY(q) * layout.sy, layout.sy, NBinY) = OwnedOf(g[2], NBinY)
    BY <1>5 DEF X2
  <2>2. Axis(layout.sy, NBinY, Cutoff)
    BY <1>1
  <2>3. layout.py \in Nat \ {0}
    BY <1>1
  <2>4. ProcY(q) \in 0 .. layout.py - 1
    BY <1>4
  <2>5. g[2] \in 0 .. NBinY + 1 /\ x[2] \in Int
    BY <1>2, <1>6
  <2>6. Towards(ProcY(p), ProcY(q), g[2], NBinY, -1, layout.py)
    BY <1>3 DEF Towards
  <2>7. CopiedAt(layout.sy, NBinY, layout.py, g[2], x[2], ProcY(p))
    BY <2>1, <2>2, <2>3, <2>4, <2>5, <2>6, CopyAxis, Zenon
  <2> QED BY <2>7, Zenon DEF CopiedAt
<1> HIDE DEF ox, oy, bx, by
<1>12. X1(p, y) = (x[1] + ox * bx) - ProcX(p) * layout.sx
       /\ X2(p, y) = (x[2] + oy * by) - ProcY(p) * layout.sy
  <2> HIDE DEF y
  <2>1. \A a, b : y = <<a, b>> => y[1] = a /\ y[2] = b
    BY PairIs
  <2>2. y[1] = x[1] + ox * bx /\ y[2] = x[2] + oy * by
    BY <1>7, <2>1
  <2> QED BY <2>2 DEF X1, X2
<1> HIDE DEF y
<1>13. Site2Bin(p, y) = g
  <2>1. Site2Bin(p, y) = <<BinIndex(X1(p, y), layout.sx, NBinX), BinIndex(X2(p, y), layout.sy, NBinY)>>
    BY <1>3, <1>9, AxesIs
  <2> QED BY <1>2, <1>10, <1>11, <1>12, <2>1
<1> QED BY <1>3, <1>9, <1>13 DEF y

(* Within one move of the sub-domain of p.                                 *)
Close(p, x) == /\ -Step <= X1(p, x) /\ X1(p, x) < layout.sx + Step
               /\ -Step <= X2(p, x) /\ X2(p, x) < layout.sy + Step

(* Where a site that left is at home.                                      *)
LEMMA HomeBin ==
    ASSUME layout \in Layouts, NEW p \in Proc, NEW x \in Point, Close(p, x),
           NEW g, g = Site2Bin(p, x), NEW q, q = NeighProc(p, 1, g)
    PROVE  /\ q \in Proc /\ g \in Bins /\ Minus(x, Shift(p, g)) \in Point
           /\ InDomain(q, Minus(x, Shift(p, g)))
           /\ Site2Bin(q, Minus(x, Shift(p, g))) = GhostIndex(g)
<1> DEFINE ox == OffOf(g[1], NBinX, ProcX(p), layout.px)
           oy == OffOf(g[2], NBinY, ProcY(p), layout.py)
           y == Minus(x, Shift(p, g))
           bx == layout.px * layout.sx
           by == layout.py * layout.sy
<1>0. g \in Bins
  BY SiteBinIs
<1>1. /\ layout.px \in Nat \ {0} /\ layout.py \in Nat \ {0}
      /\ layout.sx \in Nat \ {0} /\ layout.sy \in Nat \ {0}
      /\ Axis(layout.sx, NBinX, Cutoff) /\ Axis(layout.sy, NBinY, Cutoff)
  BY GridIs
<1>2. /\ g[1] \in 0 .. NBinX + 1 /\ g[2] \in 0 .. NBinY + 1 /\ g = <<g[1], g[2]>>
      /\ GhostIndex(g) = <<OwnedOf(g[1], NBinX), OwnedOf(g[2], NBinY)>>
  BY <1>0, BinIs
<1>3. /\ q \in Proc
      /\ ProcX(q) = (ProcX(p) + SideOf(g[1], NBinX, 1)) % layout.px
      /\ ProcY(q) = (ProcY(p) + SideOf(g[2], NBinY, 1)) % layout.py
  <2>1. 1 \in {-1, 1}
    OBVIOUS
  <2> QED BY <1>0, <2>1, NeighIs
<1>4. ProcX(p) \in 0 .. layout.px - 1 /\ ProcY(p) \in 0 .. layout.py - 1
  BY ProcIs
<1>5. /\ g[1] = BinIndex(X1(p, x), layout.sx, NBinX)
      /\ g[2] = BinIndex(X2(p, x), layout.sy, NBinY)
  BY AxesIs, PairIs
<1>6. x[1] \in Int /\ x[2] \in Int /\ Step \in Nat
  BY PointIs, StepIs
<1>7. y = <<x[1] - ox * bx, x[2] - oy * by>>
  BY ShiftIs DEF Minus
<1>8. ox \in Int /\ oy \in Int /\ bx \in Int /\ by \in Int
  BY <1>1 DEF OffOf
<1>9. y \in Point
  <2> HIDE DEF ox, oy, bx, by, y
  <2>1. ox * bx \in Int /\ oy * by \in Int
    BY <1>8
  <2> QED BY <1>6, <1>7, <2>1 DEF Point
<1>10. LET z == x[1] - ox * bx - ProcX(q) * layout.sx
       IN  z \in 0 .. layout.sx - 1 /\ BinIndex(z, layout.sx, NBinX) = OwnedOf(g[1], NBinX)
  <2>1. g[1] = BinIndex(x[1] - ProcX(p) * layout.sx, layout.sx, NBinX)
    BY <1>5 DEF X1
  <2>2. -Step <= x[1] - ProcX(p) * layout.sx /\ x[1] - ProcX(p) * layout.sx < layout.sx + Step
    BY DEF Close, X1
  <2>3. Axis(layout.sx, NBinX, Cutoff)
    BY <1>1
  <2>4. layout.px \in Nat \ {0}
    BY <1>1
  <2>5. ProcX(p) \in 0 .. layout.px - 1
    BY <1>4
  <2>6. g[1] \in 0 .. NBinX + 1 /\ x[1] \in Int
    BY <1>2, <1>6
  <2>7. Towards(ProcX(q), ProcX(p), g[1], NBinX, 1, layout.px)
    BY <1>3 DEF Towards
  <2>8. Step \in Nat
    BY <1>6
  <2>9. HomeAt(layout.sx, NBinX, layout.px, ProcX(p), g[1], x[1], ProcX(q))
    BY <2>1, <2>2, <2>3, <2>4, <2>5, <2>6, <2>7, <2>8, HomeAxis, Zenon
  <2> QED BY <2>9, Zenon DEF HomeAt
<1>11. LET z == x[2] - oy * by - ProcY(q) * layout.sy
       IN  z \in 0 .. layout.sy - 1 /\ BinIndex(z, layout.sy, NBinY) = OwnedOf(g[2], NBinY)
  <2>1. g[2] = BinIndex(x[2] - ProcY(p) * layout.sy, layout.sy, NBinY)
    BY <1>5 DEF X2
  <2>2. -Step <= x[2] - ProcY(p) * layout.sy /\ x[2] - ProcY(p) * layout.sy < layout.sy + Step
    BY DEF Close, X2
  <2>3. Axis(layout.sy, NBinY, Cutoff)
    BY <1>1
  <2>4. layout.py \in Nat \ {0}
    BY <1>1
  <2>5. ProcY(p) \in 0 .. layout.py - 1
    BY <1>4
  <2>6. g[2] \in 0 .. NBinY + 1 /\ x[2] \in Int
    BY <1>2, <1>6
  <2>7. Towards(ProcY(q), ProcY(p), g[2], NBinY, 1, layout.py)
    BY <1>3 DEF Towards
  <2>8. Step \in Nat
    BY <1>6
  <2>9. HomeAt(layout.sy, NBinY, layout.py, ProcY(p), g[2], x[2], ProcY(q))
    BY <2>1, <2>2, <2>3, <2>4, <2>5, <2>6, <2>7, <2>8, HomeAxis, Zenon
  <2> QED BY <2>9, Zenon DEF HomeAt
<1> HIDE DEF ox, oy, bx, by
<1>12. X1(q, y) = x[1] - ox * bx - ProcX(q) * layout.sx
       /\ X2(q, y) = x[2] - oy * by - ProcY(q) * layout.sy
  BY <1>7, PairIs DEF X1, X2
<1> HIDE DEF y
<1>13. /\ Site2Bin(q, y) = <<BinIndex(X1(q, y), layout.sx, NBinX), BinIndex(X2(q, y), layout.sy, NBinY)>>
       /\ InDomain(q, y) <=> X1(q, y) \in 0 .. layout.sx - 1 /\ X2(q, y) \in 0 .. layout.sy - 1
  BY <1>3, <1>9, AxesIs
<1>14. Site2Bin(q, y) = GhostIndex(g) /\ InDomain(q, y)
  BY <1>2, <1>10, <1>11, <1>12, <1>13
<1> QED BY <1>0, <1>3, <1>9, <1>14 DEF y

(* In the part of the sub-domain of p that sector s is made of, by the     *)
(* bins: along an axis that is cut, a half.                                *)
InSide(p, s, x) ==
    /\ InDomain(p, x)
    /\ InHalf(X1(p, x), layout.sx, s % 2)
    /\ layout.nsector = 4 => InHalf(X2(p, x), layout.sy, (s \div 2) % 2)

(* The two halves of a length share it.                                    *)
LEMMA HalfIs ==
    ASSUME NEW len \in Nat \ {0}, NEW d \in Int, NEW k \in {0, 1}
    PROVE  InHalf(d, len, k) <=> d \in 0 .. len - 1 /\ (k = 0 <=> 2 * d < len)
BY DEF InHalf

(* The numbers of the sectors.                                             *)
LEMMA SectorIs ==
    ASSUME layout \in Layouts, Sectored, NEW s \in 0 .. layout.nsector - 1
    PROVE  /\ layout.nsector \in {2, 4} /\ s % 2 \in {0, 1} /\ (s \div 2) % 2 \in {0, 1}
           /\ s \div 2 = (s \div 2) % 2
<1>1. layout.nsector \in {2, 4}
  BY GridIs
<1>2. s \in {0, 1, 2, 3}
  BY <1>1
<1> QED BY <1>1, <1>2

(* A site of a sector lies in its half along both axes.                    *)
LEMMA SectorSide ==
    ASSUME layout \in Layouts, Sectored, NEW s \in 0 .. layout.nsector - 1,
           NEW p \in Proc, NEW x \in Point, InSector(p, s, x)
    PROVE  InSide(p, s, x)
<1>1. s % 2 \in {0, 1} /\ (s \div 2) % 2 \in {0, 1}
  BY SectorIs
<1>2. /\ X1(p, x) \in Int /\ X2(p, x) \in Int
      /\ InDomain(p, x) <=> X1(p, x) \in 0 .. layout.sx - 1 /\ X2(p, x) \in 0 .. layout.sy - 1
  BY AxesIs
<1>3. Minus(x, Lo(p))[1] = X1(p, x) /\ Minus(x, Lo(p))[2] = X2(p, x)
  BY PairIs DEF Minus, Lo, X1, X2
<1>4. InHalf(X1(p, x), layout.sx, s % 2) /\ InHalf(X2(p, x), layout.sy, (s \div 2) % 2)
  BY <1>3 DEF InSector
<1>5. layout.sx \in Nat \ {0} /\ layout.sy \in Nat \ {0}
  BY GridIs
<1>6. X1(p, x) \in 0 .. layout.sx - 1 /\ X2(p, x) \in 0 .. layout.sy - 1
  BY <1>1, <1>2, <1>4, <1>5, HalfIs
<1> QED BY <1>2, <1>4, <1>6 DEF InSide

(* One axis that is cut: the side and the outer bin of half c.             *)
CutSide(k, c, n) ==
    /\ IF c = 0 THEN k \in 0 .. (n + 2) \div 2 ELSE k \in (n + 2) \div 2 - 1 .. n + 1
    /\ k \in {0, n + 1} => k = IF c = 0 THEN 0 ELSE n + 1

(* Along one axis: a move from one half ends in bins of that half or beside*)
(* them.                                                                   *)
LEMMA CutMove ==
    ASSUME NEW s, NEW n, NEW width, Axis(s, n, width), NEW r \in 0 .. s - 1,
           NEW m \in Nat, n = 2 * m, Step \in Nat, NEW e \in -Step .. Step,
           NEW c \in {0, 1}, InHalf(r, s, c)
    PROVE  CutSide(BinIndex(r + e, s, n), c, n)
<1>1. s \in Nat \ {0} /\ n \in Nat \ {0}
  BY DEF Axis
<1>2. r \in Int /\ (c = 0 <=> 2 * r < s)
  BY <1>1, HalfIs
<1> DEFINE b == BinIndex(r + e, s, n)
<1>3. /\ 2 * r < s => b \in 0 .. m + 1 /\ b # n + 1
      /\ ~ (2 * r < s) => b \in m .. n + 1 /\ b # 0
  BY AxisMove, Zenon
<1> HIDE DEF b
<1>4. (n + 2) \div 2 = m + 1
  OBVIOUS
<1>5. CASE c = 0
  BY <1>2, <1>3, <1>4, <1>5 DEF CutSide, b
<1>6. CASE c = 1
  <2>1. b \in m .. n + 1 /\ b # 0
    BY <1>2, <1>3, <1>6
  <2>2. (n + 2) \div 2 - 1 = m
    BY <1>4
  <2> QED BY <1>6, <2>1, <2>2 DEF CutSide, b
<1> QED BY <1>5, <1>6

(* A move of a site of a sector stays within a cutoff of the box, and if it*)
(* leaves the box it ends in a ghost bin of the sector.                    *)
LEMMA MoveBin ==
    ASSUME layout \in Layouts, Sectored, NEW s \in 0 .. layout.nsector - 1,
           NEW p \in Proc, NEW x \in Point, InSide(p, s, x), NEW d \in Moves
    PROVE  /\ Plus(x, d) \in Point /\ Close(p, Plus(x, d))
           /\ IsGhost(Site2Bin(p, Plus(x, d))) => SectorGhost(s, Site2Bin(p, Plus(x, d)))
<1> DEFINE y == Plus(x, d)
           b == Site2Bin(p, y)
           r1 == X1(p, x)
           r2 == X2(p, x)
<1>1. d[1] \in -Step .. Step /\ d[2] \in -Step .. Step /\ Step \in Nat
  BY MoveAssumption, StepIs
<1>2. x[1] \in Int /\ x[2] \in Int
  BY PointIs
<1>3. y \in Point
  BY <1>1, <1>2 DEF Plus, Point
<1>4. /\ layout.sx \in Nat \ {0} /\ layout.sy \in Nat \ {0}
      /\ Axis(layout.sx, NBinX, Cutoff) /\ Axis(layout.sy, NBinY, Cutoff)
      /\ \E m \in Nat : NBinX = 2 * m
      /\ layout.nsector = 4 => \E m \in Nat : NBinY = 2 * m
      /\ layout.nsector \in {2, 4}
      /\ layout.px \in Nat /\ layout.py \in Nat
  BY GridIs
<1>5. r1 \in 0 .. layout.sx - 1 /\ r2 \in 0 .. layout.sy - 1
  BY AxesIs DEF InSide
<1>6. X1(p, y) = r1 + d[1] /\ X2(p, y) = r2 + d[2]
  <2>1. ProcX(p) * layout.sx \in Int /\ ProcY(p) * layout.sy \in Int
    <3>1. ProcX(p) \in Int /\ ProcY(p) \in Int
      BY <1>4, ProcIs
    <3> QED BY <1>4, <3>1
  <2>2. y[1] = x[1] + d[1] /\ y[2] = x[2] + d[2]
    BY PairIs DEF Plus
  <2> HIDE DEF y
  <2> QED BY <1>1, <1>2, <2>1, <2>2 DEF X1, X2
<1> HIDE DEF y, r1, r2
<1>7. Close(p, y)
  BY <1>1, <1>4, <1>5, <1>6 DEF Close
<1>8. b[1] = BinIndex(r1 + d[1], layout.sx, NBinX) /\ b[2] = BinIndex(r2 + d[2], layout.sy, NBinY)
  BY <1>3, <1>6, AxesIs, PairIs
<1>9. s % 2 \in {0, 1} /\ s \div 2 \in {0, 1} /\ s \div 2 = (s \div 2) % 2
  BY SectorIs
<1>10. CutSide(b[1], s % 2, NBinX)
  <2>1. PICK m \in Nat : NBinX = 2 * m
    BY <1>4
  <2>2. InHalf(r1, layout.sx, s % 2)
    BY DEF InSide, r1
  <2>3. CutSide(BinIndex(r1 + d[1], layout.sx, NBinX), s % 2, NBinX)
    BY <1>1, <1>4, <1>5, <1>9, <2>1, <2>2, CutMove, Zenon
  <2> QED BY <1>8, <2>3
<1>11. layout.nsector = 4 => CutSide(b[2], s \div 2, NBinY)
  <2>0. SUFFICES ASSUME layout.nsector = 4 PROVE CutSide(b[2], s \div 2, NBinY)
    OBVIOUS
  <2>1. PICK m \in Nat : NBinY = 2 * m
    BY <1>4, <2>0
  <2>2. InHalf(r2, layout.sy, s \div 2)
    BY <1>9, <2>0 DEF InSide, r2
  <2>3. CutSide(BinIndex(r2 + d[2], layout.sy, NBinY), s \div 2, NBinY)
    BY <1>1, <1>4, <1>5, <1>9, <2>1, <2>2, CutMove, Zenon
  <2> QED BY <1>8, <2>3
<1> HIDE DEF b
<1>12. ASSUME IsGhost(b) PROVE SectorGhost(s, b)
  <2>1. b[1] \in {0, NBinX + 1} \/ b[2] \in {0, NBinY + 1}
    BY <1>12 DEF IsGhost
  <2>2. CASE layout.nsector = 4
    BY <1>10, <1>11, <2>1, <2>2 DEF SectorGhost, CutSide
  <2>3. CASE layout.nsector # 4
    BY <1>10, <2>1, <2>3 DEF SectorGhost, CutSide
  <2> QED BY <2>2, <2>3
<1> QED BY <1>3, <1>7, <1>12 DEF y, b

(* Coordinates in one bin are in one half.                                 *)
SameBin(a, b, len, n, c) ==
    /\ Axis(len, n, Cutoff) /\ \E m \in Nat : n = 2 * m
    /\ a \in 0 .. len - 1 /\ b \in 0 .. len - 1 /\ c \in {0, 1}
    /\ BinIndex(a, len, n) = BinIndex(b, len, n) /\ InHalf(a, len, c)

(* Along one axis: a place in the same bin is in the same half.            *)
LEMMA HalfStays ==
    ASSUME NEW a, NEW b, NEW len, NEW n, NEW c, SameBin(a, b, len, n, c)
    PROVE  InHalf(b, len, c)
<1>0. PICK m \in Nat : n = 2 * m
  BY DEF SameBin
<1>1. /\ Axis(len, n, Cutoff) /\ a \in 0 .. len - 1 /\ b \in 0 .. len - 1
      /\ c \in {0, 1} /\ BinIndex(a, len, n) = BinIndex(b, len, n) /\ InHalf(a, len, c)
  BY DEF SameBin
<1>2. len \in Nat \ {0}
  BY <1>1 DEF Axis
<1>3. 2 * a < len <=> BinIndex(a, len, n) <= m
  BY <1>0, <1>1, AxisHalf
<1>4. 2 * b < len <=> BinIndex(b, len, n) <= m
  BY <1>0, <1>1, AxisHalf
<1>5. a \in Int /\ b \in Int
  BY <1>1, <1>2
<1>6. c = 0 <=> 2 * a < len
  BY <1>1, <1>2, <1>5, HalfIs
<1>7. c = 0 <=> 2 * b < len
  BY <1>1, <1>3, <1>4, <1>6
<1> QED BY <1>1, <1>2, <1>5, <1>7, HalfIs

(* A place in the same bin is in the same sector.                          *)
LEMMA StayBin ==
    ASSUME layout \in Layouts, Sectored, NEW s \in 0 .. layout.nsector - 1,
           NEW p \in Proc, NEW x \in Point, InSide(p, s, x), NEW y \in Point,
           Site2Bin(p, y) = Site2Bin(p, x)
    PROVE  InSide(p, s, y)
<1>1. InDomain(p, y) /\ InDomain(p, x)
  BY SiteBinIs DEF InSide
<1>2. /\ X1(p, x) \in 0 .. layout.sx - 1 /\ X2(p, x) \in 0 .. layout.sy - 1
      /\ X1(p, y) \in 0 .. layout.sx - 1 /\ X2(p, y) \in 0 .. layout.sy - 1
      /\ BinIndex(X1(p, x), layout.sx, NBinX) = BinIndex(X1(p, y), layout.sx, NBinX)
      /\ BinIndex(X2(p, x), layout.sy, NBinY) = BinIndex(X2(p, y), layout.sy, NBinY)
  BY <1>1, AxesIs, PairIs
<1>3. /\ layout.sx \in Nat \ {0} /\ layout.sy \in Nat \ {0}
      /\ Axis(layout.sx, NBinX, Cutoff) /\ Axis(layout.sy, NBinY, Cutoff)
      /\ \E m \in Nat : NBinX = 2 * m
      /\ layout.nsector = 4 => \E m \in Nat : NBinY = 2 * m
  BY GridIs
<1>4. s % 2 \in {0, 1} /\ (s \div 2) % 2 \in {0, 1}
  BY SectorIs
<1>6. InHalf(X1(p, y), layout.sx, s % 2)
  <2>1. PICK m \in Nat : NBinX = 2 * m
    BY <1>3
  <2>2. InHalf(X1(p, x), layout.sx, s % 2)
    BY DEF InSide
  <2>3. SameBin(X1(p, x), X1(p, y), layout.sx, NBinX, s % 2)
    BY <1>2, <1>3, <1>4, <2>1, <2>2 DEF SameBin
  <2> QED BY <2>3, HalfStays, Zenon
<1>7. ASSUME layout.nsector = 4 PROVE InHalf(X2(p, y), layout.sy, (s \div 2) % 2)
  <2>1. PICK m \in Nat : NBinY = 2 * m
    BY <1>3, <1>7
  <2>2. InHalf(X2(p, x), layout.sy, (s \div 2) % 2)
    BY <1>7 DEF InSide
  <2>3. SameBin(X2(p, x), X2(p, y), layout.sy, NBinY, (s \div 2) % 2)
    BY <1>2, <1>3, <1>4, <2>1, <2>2 DEF SameBin
  <2> QED BY <2>3, HalfStays, Zenon
<1> QED BY <1>1, <1>6, <1>7 DEF InSide

(* The sectors divide the sub-domain, except when there are two of them.   *)
LEMMA OneSector ==
    ASSUME layout \in Layouts, layout.nsector # 2, NEW p \in Proc, NEW x \in Point,
           InDomain(p, x)
    PROVE  Cardinality({s \in 0 .. layout.nsector - 1 : InSector(p, s, x)}) = 1
<1>1. /\ layout.sx \in Nat \ {0} /\ layout.sy \in Nat \ {0} /\ layout.nsector \in {1, 4}
      /\ (Sectored <=> layout.nsector \in {2, 4})
  BY GridIs
<1>2. X1(p, x) \in 0 .. layout.sx - 1 /\ X2(p, x) \in 0 .. layout.sy - 1
  BY AxesIs
<1>3. Minus(x, Lo(p))[1] = X1(p, x) /\ Minus(x, Lo(p))[2] = X2(p, x)
  BY PairIs DEF Minus, Lo, X1, X2
<1> DEFINE Here == {s \in 0 .. layout.nsector - 1 : InSector(p, s, x)}
<1>4. \E s : Here = {s}
  <2>1. CASE layout.nsector = 1
    <3>1. \A s \in 0 .. layout.nsector - 1 : InSector(p, s, x)
      BY <1>1, <2>1 DEF InSector
    <3>2. Here = {0}
      BY <2>1, <3>1
    <3> QED BY <3>2
  <2>2. CASE layout.nsector = 4
    <3> DEFINE c == IF 2 * X1(p, x) < layout.sx THEN 0 ELSE 1
               e == IF 2 * X2(p, x) < layout.sy THEN 0 ELSE 1
    <3>1. c \in {0, 1} /\ e \in {0, 1}
      OBVIOUS
    <3>2. ASSUME NEW s \in 0 .. 3
          PROVE  InSector(p, s, x) <=> s % 2 = c /\ (s \div 2) % 2 = e
      <4>1. s \in {0, 1, 2, 3}
        OBVIOUS
      <4>2. s % 2 \in {0, 1} /\ (s \div 2) % 2 \in {0, 1}
        BY <4>1
      <4>3. InSector(p, s, x) <=> InHalf(X1(p, x), layout.sx, s % 2)
                                   /\ InHalf(X2(p, x), layout.sy, (s \div 2) % 2)
        BY <1>1, <1>3, <2>2 DEF InSector
      <4>4. X1(p, x) \in Int /\ X2(p, x) \in Int
        BY <1>2
      <4>5. InHalf(X1(p, x), layout.sx, s % 2) <=> (s % 2 = 0 <=> 2 * X1(p, x) < layout.sx)
        BY <1>1, <1>2, <4>2, <4>4, HalfIs
      <4>6. InHalf(X2(p, x), layout.sy, (s \div 2) % 2)
               <=> ((s \div 2) % 2 = 0 <=> 2 * X2(p, x) < layout.sy)
        BY <1>1, <1>2, <4>2, <4>4, HalfIs
      <4> QED BY <4>2, <4>3, <4>5, <4>6
    <3> HIDE DEF c, e
    <3>3. Here = {c + 2 * e}
      <4>1. \A s \in 0 .. 3 : s % 2 = c /\ (s \div 2) % 2 = e <=> s = c + 2 * e
        <5>1. SUFFICES ASSUME NEW s \in 0 .. 3
                       PROVE  s % 2 = c /\ (s \div 2) % 2 = e <=> s = c + 2 * e
          OBVIOUS
        <5>2. s \in {0, 1, 2, 3}
          OBVIOUS
        <5> QED BY <3>1, <5>2
      <4>2. c + 2 * e \in 0 .. 3
        BY <3>1
      <4>3. Here = {s \in 0 .. 3 : InSector(p, s, x)}
        BY <2>2
      <4> QED BY <3>2, <4>1, <4>2, <4>3
    <3> QED BY <3>3
  <2> QED BY <1>1, <2>1, <2>2
<1> QED BY <1>4, FS_Singleton

(* BinList names each bin once.                                            *)
LEMMA BinListIs ==
    ASSUME layout \in Layouts
    PROVE  BinList \in Seq(Bins) /\ Distinct(BinList) /\ Elements(BinList) = Bins
<1> DEFINE w == NBinX + 2
           v == NBinY + 2
<1>1. NBinX \in Nat \ {0} /\ NBinY \in Nat \ {0}
  BY GridIs DEF Axis
<1>2. w \in Nat \ {0} /\ v \in Nat \ {0} /\ w - 1 = NBinX + 1 /\ v - 1 = NBinY + 1
  BY <1>1
<1>3. Bins = (0 .. w - 1) \X (0 .. v - 1)
  BY <1>2, Zenon DEF Bins
<1>4. BinList = [m \in 1 .. w * v |-> <<(m - 1) % w, (m - 1) \div w>>]
  BY DEF BinList
<1> HIDE DEF w, v
<1>5. w * v \in Nat
  BY <1>2
<1>6. ASSUME NEW m \in 1 .. w * v
      PROVE  /\ (m - 1) % w \in 0 .. w - 1 /\ (m - 1) \div w \in 0 .. v - 1
             /\ m - 1 = ((m - 1) \div w) * w + ((m - 1) % w)
  <2>1. m - 1 \in Nat /\ m - 1 < w * v
    BY <1>5
  <2>2. (m - 1) % w \in 0 .. w - 1 /\ m - 1 = ((m - 1) \div w) * w + ((m - 1) % w)
    BY <1>2, <2>1, Composed
  <2>3. 0 <= (m - 1) \div w /\ (m - 1) \div w <= v - 1
    <3>1. w * 0 <= m - 1 /\ m - 1 \in Int /\ v \in Int
      BY <1>2, <2>1
    <3>2. 0 \in Int /\ m - 1 < w * v
      BY <2>1
    <3> QED BY <1>2, <3>1, <3>2, DivBetween, Zenon
  <2>4. (m - 1) \div w \in Int
    BY <1>2, <2>1, DivIs
  <2> QED BY <1>2, <2>2, <2>3, <2>4
<1>7. BinList \in [1 .. w * v -> Bins]
  BY <1>3, <1>4, <1>6
<1>8. BinList \in Seq(Bins) /\ Len(BinList) = w * v
  BY <1>5, <1>7, SeqIs, Zenon
<1>9. ASSUME NEW i \in 1 .. w * v, NEW j \in 1 .. w * v, BinList[i] = BinList[j]
      PROVE  i = j
  <2>1. (i - 1) % w = (j - 1) % w /\ (i - 1) \div w = (j - 1) \div w
    BY <1>4, <1>9, PairIs
  <2>2. i - 1 = j - 1
    BY <1>6, <2>1
  <2> QED BY <2>2
<1>10. Distinct(BinList)
  BY <1>8, <1>9 DEF Distinct
<1>11. ASSUME NEW b \in Bins
       PROVE  b \in Elements(BinList)
  <2>1. PICK x \in 0 .. w - 1, y \in 0 .. v - 1 : b = <<x, y>>
    BY <1>3
  <2>2. y * w + x \in 0 .. w * v - 1
    BY <1>2, <2>1, ProductIs
  <2>3. (y * w + x) % w = x /\ (y * w + x) \div w = y
    BY <1>2, DivMod
  <2> DEFINE m == (y * w + x) + 1
  <2>4. m \in 1 .. w * v /\ m - 1 = y * w + x
    BY <1>5, <2>2
  <2> HIDE DEF m
  <2>5. BinList[m] = b
    BY <1>4, <2>1, <2>3, <2>4
  <2> QED BY <1>8, <2>4, <2>5 DEF Elements
<1>12. Elements(BinList) \subseteq Bins
  BY <1>7, <1>8 DEF Elements
<1> QED BY <1>8, <1>10, <1>11, <1>12

(* The ghost bins are the bins outside the box.                            *)
LEMMA GhostBinIs ==
    /\ GhostBins \subseteq Bins
    /\ \A g \in Bins : g \in GhostBins <=> IsGhost(g)
BY DEF GhostBins

(* One axis: a coordinate of the box is in one sub-domain.                 *)
LEMMA AxisPart ==
    ASSUME NEW s \in Nat \ {0}, NEW n \in Nat \ {0}, NEW a \in 0 .. n * s - 1
    PROVE  /\ a \div s \in 0 .. n - 1
           /\ \A k \in 0 .. n - 1 : a - k * s \in 0 .. s - 1 <=> k = a \div s
<1>1. a \in Int /\ 0 <= a /\ a < s * n
  OBVIOUS
<1>2. a \div s \in Int /\ s * (a \div s) <= a /\ a < s * (a \div s) + s
  BY <1>1, DivIs
<1>3. s * 0 <= a
  BY <1>1
<1>4. 0 <= a \div s /\ a \div s <= n - 1
  BY <1>1, <1>3, DivBetween
<1>5. ASSUME NEW k \in 0 .. n - 1, a - k * s \in 0 .. s - 1
      PROVE  k = a \div s
  <2>1. k \in Int /\ k + 1 \in Int /\ k * s \in Int /\ s * k = k * s /\ s * (k + 1) = k * s + s
    OBVIOUS
  <2>2. s * k <= a /\ a < s * (k + 1)
    BY <1>1, <1>5, <2>1
  <2>3. k <= a \div s /\ a \div s <= (k + 1) - 1
    BY <1>1, <2>1, <2>2, DivBetween
  <2> QED BY <1>2, <2>1, <2>3
<1>6. a - (a \div s) * s \in 0 .. s - 1
  <2>1. (a \div s) * s = s * (a \div s) /\ s * (a \div s) \in Int
    BY <1>2
  <2> QED BY <1>1, <1>2, <2>1
<1> QED BY <1>2, <1>4, <1>5, <1>6

(* The sub-domains divide the box.                                         *)
LEMMA OneDomain ==
    ASSUME layout \in Layouts,
           NEW x \in (0 .. layout.px * layout.sx - 1) \X (0 .. layout.py * layout.sy - 1)
    PROVE  /\ x \in Point
           /\ \E p \in Proc : \A q \in Proc : InDomain(q, x) <=> q = p
<1>1. x[1] \in 0 .. layout.px * layout.sx - 1 /\ x[2] \in 0 .. layout.py * layout.sy - 1
      /\ x = <<x[1], x[2]>>
  OBVIOUS
<1>2. /\ layout.px \in Nat \ {0} /\ layout.py \in Nat \ {0}
      /\ layout.sx \in Nat \ {0} /\ layout.sy \in Nat \ {0}
  BY GridIs
<1>3. x \in Point
  BY <1>1, <1>2 DEF Point
<1> DEFINE a == x[1] \div layout.sx
           b == x[2] \div layout.sy
           p == b * layout.px + a
<1>4. /\ a \in 0 .. layout.px - 1
      /\ \A k \in 0 .. layout.px - 1 : x[1] - k * layout.sx \in 0 .. layout.sx - 1 <=> k = a
  BY <1>1, <1>2, AxisPart
<1>5. /\ b \in 0 .. layout.py - 1
      /\ \A k \in 0 .. layout.py - 1 : x[2] - k * layout.sy \in 0 .. layout.sy - 1 <=> k = b
  BY <1>1, <1>2, AxisPart
<1> HIDE DEF a, b
<1>6. p \in Proc /\ ProcX(p) = a /\ ProcY(p) = b
  BY <1>4, <1>5, ProcOf
<1> HIDE DEF p
<1>7. ASSUME NEW q \in Proc
      PROVE  InDomain(q, x) <=> q = p
  <2>1. /\ ProcX(q) \in 0 .. layout.px - 1 /\ ProcY(q) \in 0 .. layout.py - 1
        /\ q = ProcY(q) * layout.px + ProcX(q)
    BY ProcIs
  <2>2. InDomain(q, x) <=> X1(q, x) \in 0 .. layout.sx - 1 /\ X2(q, x) \in 0 .. layout.sy - 1
    BY <1>3, AxesIs
  <2>3. InDomain(q, x) <=> ProcX(q) = a /\ ProcY(q) = b
    BY <1>4, <1>5, <2>1, <2>2 DEF X1, X2
  <2>4. ProcX(q) = a /\ ProcY(q) = b => q = p
    BY <2>1 DEF p
  <2> QED BY <1>6, <2>3, <2>4
<1> QED BY <1>3, <1>6, <1>7

(* init() puts the sites into the bins one at a time, the last one first.  *)
CountTo(n) == [k \in 1 .. n |-> k]
Unbinned(t) == [t EXCEPT !.binhead = [b \in Bins |-> Nil]]
Put(p, t, u, k) ==
    AddToBin([u EXCEPT !.bin[t.nlocal - k] = Site2Bin(p, t.xyz[t.nlocal - k])],
             t.nlocal - k, Site2Bin(p, t.xyz[t.nlocal - k]))

(* What putting one more site into its bin preserves holds after           *)
(* bin_sites().                                                            *)
LEMMA BinnedFold ==
    ASSUME NEW p, NEW t, NEW n \in Nat, DOMAIN CountTo(t.nlocal) = 1 .. n,
           NEW V, Unbinned(t) \in V[{}],
           \A T \in SUBSET (1 .. n) : T # {} =>
              \A v \in V[T \ {Max(T)}] : Put(p, t, v, CountTo(t.nlocal)[Max(T)]) \in V[T]
    PROVE  Binned(p, t) \in V[1 .. n]
<1> DEFINE Op(u, e) == Put(p, t, u, e)
           Eq(g) == g = [T \in SUBSET DOMAIN CountTo(t.nlocal) |->
                           IF T = {} THEN Unbinned(t) ELSE Op(g[T \ {Max(T)}], CountTo(t.nlocal)[Max(T)])]
           G == CHOOSE g : Eq(g)
           Dom == (SUBSET (1 .. n)) \X UNION {V[T] : T \in SUBSET (1 .. n)}
           step == [c \in Dom |-> Op(c[2], CountTo(t.nlocal)[Max(c[1])])]
<1>1. Binned(p, t) = G[DOMAIN CountTo(t.nlocal)]
  BY DEF Binned, Put, Unbinned, CountTo, FoldLeft, MapThenFoldSet
<1>2. \A T \in SUBSET (1 .. n) : T # {} =>
        \A u \in V[T \ {Max(T)}] : Op(u, CountTo(t.nlocal)[Max(T)]) \in V[T]
  OBVIOUS
<1> HIDE DEF Op
<1>3. ASSUME NEW T \in SUBSET (1 .. n), NEW u \in V[T \ {Max(T)}]
      PROVE  step[<<T, u>>] = Op(u, CountTo(t.nlocal)[Max(T)])
  <2>1. T \ {Max(T)} \in SUBSET (1 .. n)
    OBVIOUS
  <2>2. <<T, u>> \in Dom
    BY <2>1
  <2> HIDE DEF Dom
  <2> QED BY <2>2
<1> HIDE DEF step
<1>4. \E g : Eq(g)
  <2>1. \A T \in SUBSET (1 .. n) : T # {} =>
           \A u \in V[T \ {Max(T)}] : step[<<T, u>>] \in V[T]
    <3>1. SUFFICES ASSUME NEW T \in SUBSET (1 .. n), T # {}, NEW u \in V[T \ {Max(T)}]
                   PROVE  step[<<T, u>>] \in V[T]
      BY Zenon
    <3>2. step[<<T, u>>] = Op(u, CountTo(t.nlocal)[Max(T)])
      BY <1>3, Zenon
    <3>3. Op(u, CountTo(t.nlocal)[Max(T)]) \in V[T]
      BY <1>2, <3>1, Zenon
    <3> QED BY <3>2, <3>3
  <2>2. PICK g : /\ FoldsTo(g, Unbinned(t), n, step)
                 /\ \A T \in SUBSET (1 .. n) : g[T] \in V[T]
    BY <2>1, FoldTable, Zenon
  <2>3. ASSUME NEW T \in SUBSET (1 .. n)
        PROVE  g[T] = IF T = {} THEN Unbinned(t) ELSE Op(g[T \ {Max(T)}], CountTo(t.nlocal)[Max(T)])
    <3>1. g[T] = IF T = {} THEN Unbinned(t) ELSE step[<<T, g[T \ {Max(T)}]>>]
      BY <2>2 DEF FoldsTo
    <3>2. T \ {Max(T)} \in SUBSET (1 .. n)
      OBVIOUS
    <3>3. g[T \ {Max(T)}] \in V[T \ {Max(T)}]
      BY <2>2, <3>2, Zenon
    <3>4. step[<<T, g[T \ {Max(T)}]>>] = Op(g[T \ {Max(T)}], CountTo(t.nlocal)[Max(T)])
      BY <1>3, <3>3, Zenon
    <3> QED BY <3>1, <3>4, Zenon
  <2>4. g = [T \in SUBSET (1 .. n) |-> g[T]]
    BY <2>2 DEF FoldsTo
  <2> QED BY <2>3, <2>4
<1>5. Eq(G)
  BY <1>4
<1> HIDE DEF G
<1>6. ASSUME NEW T \in SUBSET (1 .. n), T # {} => G[T \ {Max(T)}] \in V[T \ {Max(T)}]
      PROVE  G[T] \in V[T]
  <2>1. G[T] = IF T = {} THEN Unbinned(t) ELSE Op(G[T \ {Max(T)}], CountTo(t.nlocal)[Max(T)])
    BY <1>5
  <2>2. CASE T = {}
    BY <2>1, <2>2, Zenon
  <2>3. CASE T # {}
    <3>1. Op(G[T \ {Max(T)}], CountTo(t.nlocal)[Max(T)]) \in V[T]
      BY <1>2, <1>6, <2>3, Zenon
    <3> QED BY <2>1, <2>3, <3>1
  <2> QED BY <2>2, <2>3
<1>7. G[1 .. n] \in V[1 .. n]
  BY <1>6, FoldValues, Zenon
<1> QED BY <1>1, <1>7

(* The first of the sites, counted from the last one, are in the bins.     *)
BinnedIn(u, p, t, T) ==
    /\ u.nmax = t.nmax /\ u.nlocal = t.nlocal /\ u.nghost = t.nghost /\ u.nfree = t.nfree
    /\ u.freehead = t.freehead /\ u.id = t.id /\ u.xyz = t.xyz
    /\ \A k \in T : u.bin[t.nlocal - k] = Site2Bin(p, t.xyz[t.nlocal - k])
    /\ Keeps(u, {t.nlocal - k : k \in T}, Bins, u.binhead)

(* One step of bin_sites(): one more site is in the list of its bin.       *)
LEMMA PutIs ==
    ASSUME layout \in Layouts, NEW p \in Proc, NEW n \in Nat, NEW t, Unbinned(t) \in TableOf(n, Bins),
           t.nlocal \in 0 .. n, NEW T \in SUBSET (1 .. t.nlocal), NEW k \in T,
           NEW v \in TableOf(n, Bins), BinnedIn(v, p, t, T \ {k})
    PROVE  Put(p, t, v, k) \in TableOf(n, Bins) /\ BinnedIn(Put(p, t, v, k), p, t, T)
<1> DEFINE i == t.nlocal - k
           b == Site2Bin(p, t.xyz[i])
           S == {t.nlocal - j : j \in T \ {k}}
           w == [v EXCEPT !.bin[i] = b]
           u == AddToBin(w, i, b)
<1>0. Put(p, t, v, k) = u
  BY DEF Put
<1>1. t.nlocal \in Int /\ i \in 0 .. n - 1 /\ i \notin S /\ S \cup {i} = {t.nlocal - j : j \in T}
      /\ S \subseteq 0 .. n - 1
  <2>1. t.nlocal \in Int /\ t.nlocal <= n /\ \A j \in T : j \in Int /\ 1 <= j /\ j <= t.nlocal
    OBVIOUS
  <2>2. \A j \in T : t.nlocal - j \in 0 .. n - 1
    BY <2>1
  <2>3. \A j \in T : t.nlocal - j = i => j = k
    BY <2>1
  <2>4. S \cup {i} = {t.nlocal - j : j \in T}
    BY Zenon
  <2> QED BY <2>1, <2>2, <2>3, <2>4
<1>2. t.xyz[i] \in Point
  <2>1. Unbinned(t).xyz = t.xyz
    BY DEF Unbinned
  <2>2. t.xyz \in [0 .. n - 1 -> Int \X Int]
    BY <2>1 DEF TableOf
  <2> QED BY <1>1, <2>2 DEF Point
<1> HIDE DEF i
<1>3. b \in Bins
  BY <1>2, SiteBinIs
<1> HIDE DEF b
<1>4. v.bin \in [0 .. n - 1 -> Bins] /\ v.nmax = n /\ DOMAIN v.binhead = Bins
  BY DEF TableOf
<1>5. /\ w \in TableOf(n, Bins) /\ RestKept(w, v) /\ w.bin = [v.bin EXCEPT ![i] = b]
      /\ w.next = v.next /\ w.prev = v.prev /\ w.binhead = v.binhead
  <2>1. \A d \in [0 .. n - 1 -> Bins] :
           LET x == [v EXCEPT !.bin = d] IN
           /\ x \in TableOf(n, Bins) /\ RestKept(x, v) /\ x.bin = d
           /\ x.next = v.next /\ x.prev = v.prev /\ x.binhead = v.binhead
    BY DEF TableOf, RestKept
  <2>2. [v.bin EXCEPT ![i] = b] \in [0 .. n - 1 -> Bins]
    BY <1>1, <1>3, <1>4
  <2>3. w = [v EXCEPT !.bin = [v.bin EXCEPT ![i] = b]]
    BY <1>4
  <2> HIDE DEF w
  <2> QED BY <2>1, <2>2, <2>3
<1> HIDE DEF w
<1>6. u \in TableOf(n, Bins) /\ RestKept(u, w) /\ u.bin = w.bin /\ Linked(u, w, i, b)
  BY <1>1, <1>3, <1>5, AfterAdd
<1> HIDE DEF u
<1>7. Keeps(v, S, Bins, v.binhead)
  BY DEF BinnedIn
<1>8. \A j \in S : w.bin[j] = v.bin[j]
  BY <1>1, <1>4, <1>5
<1>9. \A j \in S : w.bin[j] \in Bins
  BY <1>1, <1>4, <1>8
<1>10. w.bin[i] = b
  BY <1>1, <1>4, <1>5
<1> HIDE DEF S
<1>11. Keeps(w, S, Bins, w.binhead)
  <2>1. w.nmax = n
    BY <1>4, <1>5 DEF RestKept
  <2>2. Keeps(w, S, Bins, v.binhead)
    BY <1>1, <1>4, <1>5, <1>7, <1>8, <2>1, SameKeeps
  <2> QED BY <1>5, <2>2
<1>12. i \in (0 .. n - 1) \ S
  BY <1>1
<1>13. u.bin[i] = b /\ \A j \in S : u.bin[j] = w.bin[j]
  BY <1>6, <1>10
<1>14. Keeps(u, S \cup {i}, Bins, [w.binhead EXCEPT ![b] = i])
  BY <1>3, <1>5, <1>6, <1>9, <1>11, <1>12, <1>13, AddKeeps
<1>15. u.binhead = [w.binhead EXCEPT ![b] = i]
  BY <1>6 DEF Linked
<1>16. Keeps(u, {t.nlocal - j : j \in T}, Bins, u.binhead)
  BY <1>1, <1>14, <1>15
<1>17. \A j \in T : u.bin[t.nlocal - j] = Site2Bin(p, t.xyz[t.nlocal - j])
  <2>1. SUFFICES ASSUME NEW j \in T PROVE u.bin[t.nlocal - j] = Site2Bin(p, t.xyz[t.nlocal - j])
    OBVIOUS
  <2>2. CASE j = k
    BY <1>13, <2>2 DEF i, b
  <2>3. CASE j # k
    <3>1. t.nlocal - j \in S
      BY <2>3 DEF S
    <3>2. u.bin[t.nlocal - j] = v.bin[t.nlocal - j]
      BY <1>6, <1>8, <3>1
    <3> QED BY <2>3, <3>2 DEF BinnedIn
  <2> QED BY <2>2, <2>3
<1> QED BY <1>0, <1>5, <1>6, <1>16, <1>17 DEF BinnedIn, RestKept

(* init(): the lists hold the owned sites, each in the bin it is in.       *)
LEMMA BinnedIs ==
    ASSUME layout \in Layouts, NEW p \in Proc, NEW n \in Nat, NEW t, Unbinned(t) \in TableOf(n, Bins),
           t.nlocal \in 0 .. n
    PROVE  LET u == Binned(p, t)
           IN  /\ u \in TableOf(n, Bins) /\ u.nlocal = t.nlocal /\ u.nfree = t.nfree
               /\ u.freehead = t.freehead /\ u.id = t.id /\ u.xyz = t.xyz
               /\ \A k \in 0 .. t.nlocal - 1 : u.bin[k] = Site2Bin(p, t.xyz[k])
               /\ Keeps(u, 0 .. t.nlocal - 1, Bins, u.binhead)
<1> DEFINE m == t.nlocal
           V == [T \in SUBSET (1 .. m) |-> {u \in TableOf(n, Bins) : BinnedIn(u, p, t, T)}]
           s == CountTo(m)
<1>1. m \in Nat /\ DOMAIN s = 1 .. m /\ \A k \in 1 .. m : s[k] = k
  BY DEF CountTo
<1>2. Unbinned(t) \in V[{}]
  <2> DEFINE u == Unbinned(t)
  <2>1. /\ u.nmax = t.nmax /\ u.nlocal = t.nlocal /\ u.nghost = t.nghost /\ u.nfree = t.nfree
        /\ u.freehead = t.freehead /\ u.id = t.id /\ u.xyz = t.xyz
    BY DEF Unbinned
  <2>2. DOMAIN u.binhead = Bins
    BY DEF TableOf
  <2>3. u.binhead = [b \in Bins |-> Nil]
    <3>1. "binhead" \in DOMAIN Unbinned(t)
      BY DEF TableOf
    <3>2. DOMAIN Unbinned(t) = DOMAIN t
      BY DEF Unbinned
    <3> QED BY <3>1, <3>2 DEF Unbinned
  <2> HIDE DEF u
  <2>4. Keeps(u, {}, Bins, u.binhead)
    BY <2>2, <2>3, EmptyKeeps
  <2>5. {t.nlocal - k : k \in {}} = {}
    OBVIOUS
  <2>6. BinnedIn(u, p, t, {})
    BY <2>1, <2>4, <2>5 DEF BinnedIn
  <2> QED BY <2>6 DEF u
<1>3. \A T \in SUBSET (1 .. m) : T # {} =>
         \A v \in V[T \ {Max(T)}] : Put(p, t, v, s[Max(T)]) \in V[T]
  <2>1. SUFFICES ASSUME NEW T \in SUBSET (1 .. m), T # {}, NEW v \in V[T \ {Max(T)}]
                 PROVE  Put(p, t, v, s[Max(T)]) \in V[T]
    BY Zenon
  <2>2. Max(T) \in T
    BY <1>1, <2>1, MaxOf
  <2>3. s[Max(T)] = Max(T)
    BY <1>1, <2>2
  <2>4. v \in TableOf(n, Bins) /\ BinnedIn(v, p, t, T \ {Max(T)})
    <3>1. T \ {Max(T)} \in SUBSET (1 .. m)
      OBVIOUS
    <3> QED BY <3>1
  <2>5. Put(p, t, v, Max(T)) \in TableOf(n, Bins) /\ BinnedIn(Put(p, t, v, Max(T)), p, t, T)
    BY <2>2, <2>4, PutIs
  <2> QED BY <2>3, <2>5
<1> HIDE DEF s, V
<1>4. Binned(p, t) \in V[1 .. m]
  BY <1>1, <1>2, <1>3, BinnedFold DEF s
<1>5. Binned(p, t) \in TableOf(n, Bins) /\ BinnedIn(Binned(p, t), p, t, 1 .. m)
  BY <1>4 DEF V
<1>6. {m - k : k \in 1 .. m} = 0 .. m - 1 /\ \A k \in 0 .. m - 1 : m - k \in 1 .. m /\ m - (m - k) = k
  <2>1. \A k \in 0 .. m - 1 : m - k \in 1 .. m /\ m - (m - k) = k
    BY <1>1
  <2>2. \A k \in 1 .. m : m - k \in 0 .. m - 1
    BY <1>1
  <2>3. 0 .. m - 1 \subseteq {m - k : k \in 1 .. m}
    <3>1. SUFFICES ASSUME NEW k \in 0 .. m - 1 PROVE \E l \in 1 .. m : k = m - l
      OBVIOUS
    <3> QED BY <2>1, <3>1
  <2> QED BY <2>1, <2>2, <2>3
<1> QED BY <1>5, <1>6 DEF BinnedIn

(* Before the exchange: the lists of a process hold its own sites, and     *)
(* each is in its sub-domain and in the bin it is in.                      *)
Settled(p, t) ==
    /\ t \in SiteTables(Bins) /\ t.nlocal \in 0 .. t.nmax
    /\ Keeps(t, 0 .. t.nlocal - 1, Bins, t.binhead)
    /\ t.nlocal = t.nmax => t.freehead = Nil
    /\ \A k \in 0 .. t.nlocal - 1 :
          InDomain(p, t.xyz[k]) /\ t.bin[k] = Site2Bin(p, t.xyz[k])

(* bin_sites() settles a table: every owned site is in the list of its bin *)
(* and the other slots are free.                                           *)
LEMMA BinnedSettled ==
    ASSUME layout \in Layouts, NEW p \in Proc, NEW n \in Nat, NEW t, Unbinned(t) \in TableOf(n, Bins),
           t.nlocal \in 0 .. n, t.nlocal = n => t.freehead = Nil,
           \A k \in 0 .. t.nlocal - 1 : InDomain(p, t.xyz[k])
    PROVE  LET u == Binned(p, t)
           IN  Settled(p, u) /\ u.nlocal = t.nlocal /\ u.id = t.id
<1> DEFINE u == Binned(p, t)
<1>1. /\ u \in TableOf(n, Bins) /\ u.nlocal = t.nlocal /\ u.nfree = t.nfree
      /\ u.freehead = t.freehead /\ u.id = t.id /\ u.xyz = t.xyz
      /\ \A k \in 0 .. t.nlocal - 1 : u.bin[k] = Site2Bin(p, t.xyz[k])
      /\ Keeps(u, 0 .. t.nlocal - 1, Bins, u.binhead)
  BY BinnedIs
<1> HIDE DEF u
<1>2. u \in SiteTables(Bins) /\ u.nmax = n
  BY <1>1, TableIn
<1> QED BY <1>1, <1>2 DEF Settled, u

(* The table at the start.                                                 *)
LEMMA CreatedIs ==
    ASSUME layout \in Layouts, NEW p \in Proc, NEW where \in Starts(layout)
    PROVE  LET u == Created(p, where)
           IN  Settled(p, u) /\ Named(u) /\ Names(u) = {n \in Id : InDomain(p, where[n])}
<1> DEFINE Mine == {n \in Id : InDomain(p, where[n])}
           mine == Sorted(Mine)
           size == ((Len(mine) + DELTA - 1) \div DELTA) * DELTA
           ids == [k \in 0 .. size - 1 |-> IF k < Len(mine) THEN mine[k + 1] ELSE NoSite]
           xs == [k \in 0 .. size - 1 |-> IF k < Len(mine) THEN where[mine[k + 1]] ELSE NoPlace]
           bs == [k \in 0 .. size - 1 |-> NoPlace]
           nils == [k \in 0 .. size - 1 |-> Nil]
           r == [nlocal |-> Len(mine), nghost |-> 0, nmax |-> size, nfree |-> 0,
                 freehead |-> Nil, binhead |-> <<>>, id |-> ids, xyz |-> xs, bin |-> bs,
                 next |-> nils, prev |-> nils, nextimage |-> nils]
           u == Created(p, where)
<1>1. u = Binned(p, r)
  BY DEF Created
<1>2. Id \subseteq Nat /\ IsFiniteSet(Id) /\ DELTA \in Nat \ {0}
  BY MoveAssumption, DeltaAssumption
<1>3. Mine \subseteq Nat /\ IsFiniteSet(Mine) /\ Mine \subseteq Id
  BY <1>2, FS_Subset
<1> HIDE DEF Mine
<1>4. mine \in Seq(Mine) /\ Distinct(mine) /\ Elements(mine) = Mine /\ Len(mine) \in Nat
  BY <1>3, SortedIs
<1> HIDE DEF mine
<1>5. size \in Nat /\ Len(mine) <= size
  BY <1>2, <1>4, RoundUp
<1> HIDE DEF size
<1>6. ASSUME NEW n \in Id
      PROVE  where[n] \in Point
  <2>1. where[n] \in (0 .. layout.px * layout.sx - 1) \X (0 .. layout.py * layout.sy - 1)
    BY StartAssumption
  <2> QED BY <2>1, OneDomain
<1>7. ASSUME NEW k \in 0 .. size - 1, k < Len(mine)
      PROVE  /\ mine[k + 1] \in Mine /\ mine[k + 1] \in Nat /\ mine[k + 1] \in Id
             /\ where[mine[k + 1]] \in Point /\ InDomain(p, where[mine[k + 1]])
  <2>1. k + 1 \in 1 .. Len(mine)
    BY <1>4, <1>5, <1>7
  <2>2. mine[k + 1] \in Mine
    BY <1>4, <2>1 DEF Elements
  <2> QED BY <1>3, <1>6, <2>2 DEF Mine
<1>8. NoPlace \in Bins /\ NoPlace \in Point /\ NoSite \in Nat
  <2>1. NBinX \in Nat \ {0} /\ NBinY \in Nat \ {0}
    BY GridIs DEF Axis
  <2> QED BY <2>1 DEF NoPlace, Bins, Point, NoSite
<1>9. Unbinned(r) \in TableOf(size, Bins)
  <2>1. ids \in [0 .. size - 1 -> Nat]
    BY <1>7, <1>8
  <2>2. xs \in [0 .. size - 1 -> Int \X Int]
    BY <1>7, <1>8 DEF Point
  <2>3. bs \in [0 .. size - 1 -> Bins]
    BY <1>8
  <2>4. nils \in [0 .. size - 1 -> Int]
    BY DEF Nil
  <2> DEFINE heads == [b \in Bins |-> Nil]
  <2>5. heads \in [Bins -> Int] /\ Nil \in Int
    BY DEF Nil
  <2>6. Len(mine) \in Int
    BY <1>4
  <2> HIDE DEF ids, xs, bs, nils
  <2>7. Unbinned(r) = [r EXCEPT !.binhead = heads]
    BY DEF Unbinned
  <2> HIDE DEF heads
  <2>8. [r EXCEPT !.binhead = heads] =
           [nlocal |-> Len(mine), nghost |-> 0, nmax |-> size, nfree |-> 0,
            freehead |-> Nil, binhead |-> heads, id |-> ids, xyz |-> xs, bin |-> bs,
            next |-> nils, prev |-> nils, nextimage |-> nils]
    OBVIOUS
  <2>9. [nlocal |-> Len(mine), nghost |-> 0, nmax |-> size, nfree |-> 0,
            freehead |-> Nil, binhead |-> heads, id |-> ids, xyz |-> xs, bin |-> bs,
            next |-> nils, prev |-> nils, nextimage |-> nils] \in TableOf(size, Bins)
    BY <1>5, <2>1, <2>2, <2>3, <2>4, <2>5, <2>6 DEF TableOf
  <2> QED BY <2>7, <2>8, <2>9
<1>10. /\ r.nlocal = Len(mine) /\ r.freehead = Nil
       /\ \A k \in 0 .. size - 1 : k < Len(mine) => r.id[k] = mine[k + 1] /\ r.xyz[k] = where[mine[k + 1]]
  OBVIOUS
<1> HIDE DEF r
<1>11. \A k \in 0 .. r.nlocal - 1 : k \in 0 .. size - 1 /\ k < Len(mine)
  BY <1>4, <1>5, <1>10
<1>12. \A k \in 0 .. r.nlocal - 1 : InDomain(p, r.xyz[k])
  BY <1>7, <1>10, <1>11
<1>13. r.nlocal \in 0 .. size
  BY <1>4, <1>5, <1>10
<1>14. Settled(p, u) /\ u.nlocal = r.nlocal /\ u.id = r.id
  BY <1>1, <1>5, <1>9, <1>10, <1>12, <1>13, BinnedSettled
<1>15. \A k \in 0 .. u.nlocal - 1 : u.id[k] = mine[k + 1] /\ k + 1 \in 1 .. Len(mine)
  BY <1>4, <1>10, <1>11, <1>14
<1> HIDE DEF u
<1>16. u.nlocal = Len(mine)
  BY <1>10, <1>14
<1>17. Named(u)
  <2>1. SUFFICES ASSUME NEW j \in 0 .. u.nlocal - 1, NEW k \in 0 .. u.nlocal - 1, u.id[j] = u.id[k]
                 PROVE  j = k
    BY DEF Named
  <2>2. j + 1 = k + 1
    BY <1>4, <1>15, <2>1 DEF Distinct
  <2>3. j \in Int /\ k \in Int
    BY <1>4, <1>16
  <2> QED BY <2>2, <2>3
<1>18. Names(u) = Mine
  <2>1. Names(u) \subseteq Elements(mine)
    BY <1>15 DEF Names, Elements
  <2>2. ASSUME NEW m \in 1 .. Len(mine)
        PROVE  mine[m] \in Names(u)
    <3>1. m - 1 \in 0 .. u.nlocal - 1 /\ m - 1 + 1 = m
      BY <1>4, <1>16
    <3> QED BY <1>15, <3>1 DEF Names
  <2> QED BY <1>4, <2>1, <2>2 DEF Elements
<1> QED BY <1>14, <1>17, <1>18 DEF u, Mine

(* The ghost bins of the swaps.                                            *)
LEMMA GhostListIs ==
    ASSUME layout \in Layouts, NEW s
    PROVE  /\ GhostList(s) \in Seq(GhostBins) /\ Distinct(GhostList(s))
           /\ Elements(GhostList(s)) = {g \in GhostBins : Sectored => SectorGhost(s, g)}
<1> DEFINE G == {g \in GhostBins : Sectored => SectorGhost(s, g)}
           q == GhostList(s)
<1>1. q = Among(BinList, G)
  BY DEF GhostList
<1>2. BinList \in Seq(Bins) /\ Distinct(BinList) /\ Elements(BinList) = Bins
  BY BinListIs
<1>3. G \subseteq Bins /\ G \subseteq GhostBins
  BY GhostBinIs
<1> HIDE DEF G, q
<1>4. q \in Seq(Bins) /\ Distinct(q) /\ Elements(q) = Bins \cap G
  BY <1>1, <1>2, AmongIs
<1>5. Elements(q) = G
  BY <1>3, <1>4
<1>6. Len(q) \in Nat /\ q \in [1 .. Len(q) -> Bins]
  BY <1>4
<1>7. \A k \in 1 .. Len(q) : q[k] \in GhostBins
  BY <1>3, <1>5 DEF Elements
<1>8. q \in [1 .. Len(q) -> GhostBins]
  BY <1>6, <1>7
<1>9. q \in Seq(GhostBins)
  BY <1>6, <1>8, SeqIs
<1> QED BY <1>4, <1>5, <1>9 DEF q, G

(* An entry of a swap list: bin "of" is sent, bin "to" of proc filled.     *)
LEMMA ToIs ==
    ASSUME NEW E, NEW list \in Seq(E), NEW q
    PROVE  /\ To(list, q) \in Seq(E)
           /\ Elements(To(list, q)) = {e \in Elements(list) : e.proc = q}
           /\ Distinct(list) => Distinct(To(list, q))
<1>1. ToSet(list) = Elements(list)
  BY DEF ToSet, Elements
<1>2. To(list, q) = Among(list, {e \in Elements(list) : e.proc = q})
  BY <1>1 DEF To
<1>3. Elements(list) \cap {e \in Elements(list) : e.proc = q} = {e \in Elements(list) : e.proc = q}
  OBVIOUS
<1> QED BY <1>2, <1>3, AmongIs

(* The list of a bin has its sites.                                        *)
BinSites(t, S, b) ==
    /\ InBin(t, b) \in Seq(S) /\ ListFrom(t.binhead[b], t.next, t.prev, InBin(t, b))
    /\ Elements(InBin(t, b)) = {k \in S : t.bin[k] = b}

(* Following the list of a bin gives the sites of the bin, each once.      *)
LEMMA BinSitesAre ==
    ASSUME NEW n \in Nat, NEW Places, NEW t \in TableOf(n, Places), NEW B, B \subseteq Places,
           NEW S, NEW h, Keeps(t, S, B, h), NEW b \in B
    PROVE  BinSites(t, S, b)
<1>1. /\ InBin(t, b) \in Seq(S) /\ ListFrom(t.binhead[b], t.next, t.prev, InBin(t, b))
  BY InBinIs
<1>2. Elements(InBin(t, b)) = {k \in S : t.bin[k] = b}
  BY InBinIs
<1> QED BY <1>1, <1>2 DEF BinSites

Sends(p) ==
    {e \in [of : Bins, to : GhostBins, proc : Proc] :
        e.of = GhostIndex(e.to) /\ e.proc = NeighProc(p, -1, e.to)}

(* The list of sends of a process, which a sector shortens.                *)
LEMMA SwapListIs ==
    ASSUME layout \in Layouts, NEW p \in Proc, NEW s
    PROVE  SwapList(p, s) \in Seq(Sends(p))
<1> DEFINE q == GhostList(s)
           f == SwapList(p, s)
<1>1. q \in Seq(GhostBins)
  BY GhostListIs
<1>2. f = [k \in DOMAIN q |-> [of |-> GhostIndex(q[k]), to |-> q[k], proc |-> NeighProc(p, -1, q[k])]]
  BY DEF SwapList
<1> HIDE DEF q, f
<1>3. \A k \in 1 .. Len(q) : f[k] \in Sends(p)
  <2>1. SUFFICES ASSUME NEW k \in 1 .. Len(q) PROVE f[k] \in Sends(p)
    OBVIOUS
  <2>2. q[k] \in GhostBins /\ q[k] \in Bins
    BY <1>1, GhostBinIs
  <2>3. f[k] = [of |-> GhostIndex(q[k]), to |-> q[k], proc |-> NeighProc(p, -1, q[k])]
    BY <1>1, <1>2
  <2>4. GhostIndex(q[k]) \in Bins
    BY <2>2, BinIs
  <2>5. NeighProc(p, -1, q[k]) \in Proc
    BY <2>2, NeighIs
  <2> QED BY <2>2, <2>3, <2>4, <2>5 DEF Sends
<1>4. DOMAIN f = DOMAIN q /\ f = [k \in DOMAIN f |-> f[k]]
  BY <1>2
<1>5. f \in Seq(Sends(p))
  BY <1>1, <1>3, <1>4, MapIs
<1> QED BY <1>5 DEF f

(* The copies that q sends to p.                                           *)
Copied(q, p) ==
    {c \in [id : Nat, of : 0 .. table[q].nlocal - 1, bin : GhostBins, x : Point] :
        GhostIndex(c.bin) = table[q].bin[c.of] /\ Site2Bin(p, c.x) = c.bin}

(* The copies a process sends are of its own sites, within a cutoff of the *)
(* receiver, in the ghost bin they are for.                                *)
LEMMA CopiesAre ==
    ASSUME layout \in Layouts, NEW q \in Proc, NEW p \in Proc, NEW s, Settled(q, table[q])
    PROVE  Copies(q, p, s) \in Seq(Copied(q, p))
<1> DEFINE t == table[q]
           S == 0 .. t.nlocal - 1
           list == To(SwapList(q, s), p)
           OfBin(e) == [k \in DOMAIN InBin(t, e.of) |->
                           [id |-> t.id[InBin(t, e.of)[k]], of |-> InBin(t, e.of)[k], bin |-> e.to,
                            x |-> Plus(t.xyz[InBin(t, e.of)[k]], Shift(p, e.to))]]
           ss == [k \in DOMAIN list |-> OfBin(list[k])]
<1>1. Copies(q, p, s) = FlattenSeq(ss)
  BY DEF Copies
<1>2. list \in Seq(Sends(q)) /\ \A k \in 1 .. Len(list) : list[k].proc = p
  <2>1. /\ list \in Seq(Sends(q))
        /\ Elements(list) = {e \in Elements(SwapList(q, s)) : e.proc = p}
    BY SwapListIs, ToIs
  <2> QED BY <2>1 DEF Elements
<1>3. /\ t \in SiteTables(Bins) /\ t.nlocal \in 0 .. t.nmax /\ Keeps(t, S, Bins, t.binhead)
      /\ \A k \in S : t.bin[k] = Site2Bin(q, t.xyz[k])
  BY DEF Settled
<1>4. t.nmax \in Nat /\ t \in TableOf(t.nmax, Bins)
  BY <1>3, TableIs
<1> HIDE DEF t, list
<1>5. \A k \in S : t.id[k] \in Nat /\ t.xyz[k] \in Point /\ k \in Int
  <2>1. t.id \in [0 .. t.nmax - 1 -> Nat] /\ t.xyz \in [0 .. t.nmax - 1 -> Point]
    BY <1>4 DEF TableOf, Point
  <2>2. S \subseteq 0 .. t.nmax - 1
    BY <1>3, <1>4
  <2>3. \A k \in S : k \in 0 .. t.nmax - 1 /\ k \in Int
    BY <2>2
  <2> HIDE DEF S
  <2> QED BY <2>1, <2>3
<1>6. ASSUME NEW e \in Sends(q), e.proc = p
      PROVE  OfBin(e) \in Seq(Copied(q, p))
  <2> DEFINE r == InBin(t, e.of)
             g == OfBin(e)
  <2>1. /\ e.of \in Bins /\ e.to \in GhostBins /\ e.to \in Bins /\ e.of = GhostIndex(e.to)
        /\ p = NeighProc(q, -1, e.to)
    BY <1>6, GhostBinIs DEF Sends
  <2>2. r \in Seq(S) /\ Elements(r) = {k \in S : t.bin[k] = e.of}
    <3>1. Keeps(t, S, Bins, t.binhead) /\ t \in TableOf(t.nmax, Bins) /\ t.nmax \in Nat
      BY <1>3, <1>4
    <3>2. e.of \in Bins /\ Bins \subseteq Bins
      BY <2>1
    <3> HIDE DEF S, r, OfBin
    <3>3. /\ InBin(t, e.of) \in Seq(S)
          /\ Elements(InBin(t, e.of)) = {k \in S : t.bin[k] = e.of}
      <4>1. BinSites(t, S, e.of)
        BY <3>1, <3>2, BinSitesAre, Zenon
      <4> QED BY <4>1 DEF BinSites
    <3> QED BY <3>3 DEF r
  <2>3. DOMAIN g = DOMAIN r /\ g = [k \in DOMAIN g |-> g[k]]
        /\ \A k \in DOMAIN r : g[k] = [id |-> t.id[r[k]], of |-> r[k], bin |-> e.to,
                                       x |-> Plus(t.xyz[r[k]], Shift(p, e.to))]
    OBVIOUS
  <2> HIDE DEF r, g, S
  <2>4. \A k \in 1 .. Len(r) : g[k] \in Copied(q, p)
    <3>1. SUFFICES ASSUME NEW k \in 1 .. Len(r) PROVE g[k] \in Copied(q, p)
      OBVIOUS
    <3> DEFINE i == r[k]
               y == Plus(t.xyz[i], Shift(p, e.to))
    <3>2. i \in S /\ t.bin[i] = e.of
      BY <2>2 DEF Elements
    <3> HIDE DEF i
    <3>3. t.xyz[i] \in Point /\ t.id[i] \in Nat
      BY <1>5, <3>2 DEF S
    <3>4. Site2Bin(q, t.xyz[i]) = GhostIndex(e.to)
      BY <1>3, <2>1, <3>2 DEF S
    <3>5. y \in Point /\ Site2Bin(p, y) = e.to
      BY <2>1, <3>3, <3>4, CopyBin
    <3>6. g[k] = [id |-> t.id[i], of |-> i, bin |-> e.to, x |-> y]
      BY <2>2, <2>3 DEF i
    <3> HIDE DEF y
    <3> QED BY <2>1, <3>2, <3>3, <3>5, <3>6 DEF Copied, S, t
  <2>5. g \in Seq(Copied(q, p))
    BY <2>2, <2>3, <2>4, MapIs
  <2> QED BY <2>5 DEF g
<1>7. ss \in Seq(Seq(Copied(q, p)))
  <2>1. DOMAIN ss = DOMAIN list /\ ss = [k \in DOMAIN ss |-> ss[k]]
        /\ \A k \in DOMAIN list : ss[k] = OfBin(list[k])
    OBVIOUS
  <2> HIDE DEF ss, OfBin
  <2>2. \A k \in 1 .. Len(list) : ss[k] \in Seq(Copied(q, p))
    <3>1. SUFFICES ASSUME NEW k \in 1 .. Len(list) PROVE ss[k] \in Seq(Copied(q, p))
      OBVIOUS
    <3>2. list[k] \in Sends(q) /\ list[k].proc = p /\ k \in DOMAIN list
      BY <1>2
    <3> QED BY <1>6, <2>1, <3>2
  <2> QED BY <1>2, <2>1, <2>2, MapIs
<1> HIDE DEF ss
<1> QED BY <1>1, <1>7, FlattenIs

(* Other processes.                                                        *)
LEMMA ProcCount ==
    ASSUME layout \in Layouts
    PROVE  /\ Cardinality(Proc) \in Nat \ {0} /\ Proc = 0 .. Cardinality(Proc) - 1
           /\ ~ Sectored => Proc = {0}
<1> DEFINE n == layout.px * layout.py
<1>1. layout.px \in Nat \ {0} /\ layout.py \in Nat \ {0}
  BY GridIs
<1>2. n \in Nat \ {0}
  BY <1>1
<1>3. Proc = 0 .. n - 1
  BY DEF Proc
<1>4. ~ Sectored => n = 1
  <2>1. ~ Sectored => layout.px = 1 /\ layout.py = 1
    BY GridIs
  <2> QED BY <2>1
<1> HIDE DEF n
<1>5. Cardinality(0 .. n - 1) = n
  <2>1. 0 \in Int /\ n - 1 \in Int
    BY <1>2
  <2>2. Cardinality(0 .. n - 1) = IF 0 > n - 1 THEN 0 ELSE ((n - 1) - 0) + 1
    BY <2>1, FS_Interval, Zenon
  <2> QED BY <1>2, <2>2
<1> QED BY <1>2, <1>3, <1>4, <1>5

(* The processes a process talks to, each once.                            *)
LEMMA OthersAre ==
    ASSUME layout \in Layouts, NEW p \in Proc
    PROVE  /\ Others(p) \in Seq(Proc) /\ Distinct(Others(p)) /\ Elements(Others(p)) = Proc \ {p}
           /\ SendOrder(p) \in Seq(Proc) /\ Distinct(SendOrder(p))
           /\ Elements(SendOrder(p)) = Proc \ {p}
<1> DEFINE n == Cardinality(Proc)
           f == [k \in 1 .. n |-> k - 1]
           g == [k \in 1 .. n - 1 |-> (p + k) % n]
<1>1. n \in Nat \ {0} /\ Proc = 0 .. n - 1
  BY ProcCount
<1>2. Others(p) = Among(f, Proc \ {p}) /\ SendOrder(p) = g
  BY DEF Others, SendOrder
<1> HIDE DEF n
<1>3. f \in [1 .. n -> Proc] /\ \A k \in 1 .. n : f[k] = k - 1
  BY <1>1
<1> HIDE DEF f
<1>4. f \in Seq(Proc) /\ Len(f) = n
  BY <1>1, <1>3, SeqIs
<1>5. Distinct(f)
  BY <1>1, <1>3, <1>4 DEF Distinct
<1>6. Elements(f) = Proc
  <2>1. \A q \in Proc : q + 1 \in 1 .. n /\ (q + 1) - 1 = q
    BY <1>1
  <2>2. \A q \in Proc : q \in Elements(f)
    BY <1>3, <1>4, <2>1 DEF Elements
  <2>3. Elements(f) \subseteq Proc
    BY <1>3, <1>4 DEF Elements
  <2> QED BY <2>2, <2>3
<1>7. Proc \cap (Proc \ {p}) = Proc \ {p}
  OBVIOUS
<1>8. Others(p) \in Seq(Proc) /\ Distinct(Others(p)) /\ Elements(Others(p)) = Proc \ {p}
  BY <1>2, <1>4, <1>5, <1>6, <1>7, AmongIs
<1>9. p \in Int /\ 0 <= p /\ p <= n - 1
  BY <1>1
<1>10. ASSUME NEW k \in 1 .. n - 1
       PROVE  (p + k) % n = IF p + k < n THEN p + k ELSE (p + k) - n
  <2>1. k \in Int /\ 1 <= k /\ k <= n - 1
    BY <1>1
  <2>2. CASE p + k < n
    <3>1. p + k \in 0 .. n - 1
      BY <1>1, <1>9, <2>1, <2>2
    <3> QED BY <1>1, <2>2, <3>1
  <2>3. CASE ~ (p + k < n)
    <3> DEFINE r == (p + k) - n
    <3>1. r \in 0 .. n - 1 /\ p + k = 1 * n + r
      BY <1>1, <1>9, <2>1, <2>3
    <3> HIDE DEF r
    <3>2. (1 * n + r) % n = r
      BY <1>1, <3>1, DivMod
    <3> QED BY <2>3, <3>1, <3>2 DEF r
  <2> QED BY <2>2, <2>3
<1>11. \A k \in 1 .. n - 1 : g[k] = IF p + k < n THEN p + k ELSE (p + k) - n
  BY <1>10
<1>12. g = [k \in 1 .. n - 1 |-> g[k]]
  OBVIOUS
<1> HIDE DEF g
<1>13. \A k \in 1 .. n - 1 : g[k] \in 0 .. n - 1 /\ g[k] # p
  BY <1>1, <1>9, <1>11
<1>14. g \in [1 .. n - 1 -> Proc] /\ n - 1 \in Nat
  BY <1>1, <1>12, <1>13
<1>15. g \in Seq(Proc) /\ Len(g) = n - 1
  BY <1>14, SeqIs
<1>16. Distinct(g)
  <2>1. SUFFICES ASSUME NEW i \in 1 .. n - 1, NEW j \in 1 .. n - 1, g[i] = g[j] PROVE i = j
    BY <1>15 DEF Distinct
  <2>2. i \in Int /\ 1 <= i /\ i <= n - 1 /\ j \in Int /\ 1 <= j /\ j <= n - 1 /\ n \in Int
    BY <1>1
  <2> QED BY <1>9, <1>11, <2>1, <2>2
<1>17. Elements(g) = Proc \ {p}
  <2>1. Elements(g) \subseteq Proc \ {p}
    BY <1>1, <1>13, <1>15 DEF Elements
  <2>2. ASSUME NEW q \in Proc \ {p}
        PROVE  q \in Elements(g)
    <3> DEFINE k == IF p < q THEN q - p ELSE (q - p) + n
    <3>1. q \in Int /\ 0 <= q /\ q <= n - 1 /\ q # p /\ n \in Int
      BY <1>1
    <3>2. k \in 1 .. n - 1 /\ (IF p + k < n THEN p + k ELSE (p + k) - n) = q
      BY <1>9, <3>1
    <3> HIDE DEF k
    <3>3. g[k] = q
      BY <1>11, <3>2
    <3> QED BY <1>15, <3>2, <3>3 DEF Elements
  <2> QED BY <2>1, <2>2
<1> QED BY <1>2, <1>8, <1>15, <1>16, <1>17

(* During a sector: the lists hold the sites L, the owned ones and ghosts, *)
(* which are in ghost bins, each in the bin of its place; the other slots  *)
(* are free.                                                               *)
Fitted(p, t, L, q) ==
    /\ t \in SiteTables(Bins) /\ t.nlocal \in 0 .. t.nmax
    /\ 0 .. t.nlocal - 1 \subseteq L /\ Whole(t, L, q)
    /\ t.nghost = Cardinality(L \ (0 .. t.nlocal - 1))
    /\ \A k \in L : t.bin[k] = Site2Bin(p, t.xyz[k])
    /\ \A k \in L \ (0 .. t.nlocal - 1) : IsGhost(t.bin[k])

(* The parts of a fitted table.                                            *)
LEMMA FittedIs ==
    ASSUME NEW p, NEW t, NEW L, NEW q, Fitted(p, t, L, q)
    PROVE  /\ t.nmax \in Nat /\ t \in TableOf(t.nmax, Bins) /\ L \subseteq 0 .. t.nmax - 1
           /\ IsFiniteSet(L) /\ IsFiniteSet(L \ (0 .. t.nlocal - 1))
           /\ t.bin \in [0 .. t.nmax - 1 -> Bins] /\ t.xyz \in [0 .. t.nmax - 1 -> Point]
           /\ t.id \in [0 .. t.nmax - 1 -> Nat] /\ t.nextimage \in [0 .. t.nmax - 1 -> Int]
           /\ t.nlocal \in Int
<1>1. t.nmax \in Nat /\ t \in TableOf(t.nmax, Bins)
  BY TableIs DEF Fitted
<1>2. L \subseteq 0 .. t.nmax - 1
  BY <1>1, WholeIs DEF Fitted
<1>3. IsFiniteSet(0 .. t.nmax - 1)
  <2>1. 0 \in Int /\ t.nmax - 1 \in Int
    BY <1>1
  <2> QED BY <2>1, FS_Interval
<1>4. IsFiniteSet(L) /\ IsFiniteSet(L \ (0 .. t.nlocal - 1))
  <2>1. L \in SUBSET (0 .. t.nmax - 1) /\ L \ (0 .. t.nlocal - 1) \in SUBSET (0 .. t.nmax - 1)
    BY <1>2
  <2> QED BY <1>3, <2>1, FS_Subset
<1> QED BY <1>1, <1>2, <1>4 DEF TableOf, Point

(* A ghost more.                                                           *)
LEMMA FittedAdd ==
    ASSUME NEW p, NEW t, NEW L, NEW q, Fitted(p, t, L, q),
           NEW u \in SiteTables(Bins), u.nlocal = t.nlocal, u.nghost = t.nghost + 1,
           NEW j, NEW name, NEW x, NEW b, NEW q2, Obtained(u, t, L, q, j, name, x, b, q2),
           IsGhost(b), Site2Bin(p, x) = b
    PROVE  Fitted(p, u, L \cup {j}, q2) /\ (ToTheEnd(t, q) => ToTheEnd(u, q2))
<1>1. /\ t.nmax <= u.nmax /\ j \in (0 .. u.nmax - 1) \ L /\ Whole(u, L \cup {j}, q2)
      /\ u.xyz[j] = x /\ u.bin[j] = b
      /\ \A k \in L : u.xyz[k] = t.xyz[k] /\ u.bin[k] = t.bin[k]
      /\ ToTheEnd(t, q) => ToTheEnd(u, q2)
  BY DEF Obtained
<1>2. /\ t.nlocal \in 0 .. t.nmax /\ 0 .. t.nlocal - 1 \subseteq L
      /\ t.nghost = Cardinality(L \ (0 .. t.nlocal - 1))
      /\ \A k \in L : t.bin[k] = Site2Bin(p, t.xyz[k])
      /\ \A k \in L \ (0 .. t.nlocal - 1) : IsGhost(t.bin[k])
  BY DEF Fitted
<1>3. t.nmax \in Nat /\ IsFiniteSet(L \ (0 .. t.nlocal - 1)) /\ u.nmax \in Nat
  BY FittedIs, TableIs
<1>4. u.nlocal \in 0 .. u.nmax
  BY <1>1, <1>2, <1>3
<1>5. (L \cup {j}) \ (0 .. u.nlocal - 1) = (L \ (0 .. t.nlocal - 1)) \cup {j}
      /\ j \notin L \ (0 .. t.nlocal - 1)
  BY <1>1, <1>2
<1>6. u.nghost = Cardinality((L \cup {j}) \ (0 .. u.nlocal - 1))
  <2> DEFINE X == L \ (0 .. t.nlocal - 1)
  <2>1. Cardinality(X \cup {j}) = Cardinality(X) + 1
    <3> HIDE DEF X
    <3>1. IsFiniteSet(X) /\ j \notin X
      BY <1>3, <1>5 DEF X
    <3> QED BY <3>1, FS_AddElement
  <2> QED BY <1>2, <1>5, <2>1
<1>7. \A k \in L \cup {j} : u.bin[k] = Site2Bin(p, u.xyz[k])
  BY <1>1, <1>2
<1>8. \A k \in (L \cup {j}) \ (0 .. u.nlocal - 1) : IsGhost(u.bin[k])
  BY <1>1, <1>2, <1>5
<1>9. 0 .. u.nlocal - 1 \subseteq L \cup {j}
  BY <1>2
<1> QED BY <1>1, <1>4, <1>6, <1>7, <1>8, <1>9 DEF Fitted

(* Without sectors: im[i] are the ghosts that are images of the owned site *)
(* i, found through nextimage; they are copies in ghost bins of bin at[i]. *)
Imaged(t, L, im, at) ==
    /\ \A i \in 0 .. t.nlocal - 1 :
          /\ im[i] \in Seq(L \ (0 .. t.nlocal - 1)) /\ Distinct(im[i])
          /\ RunsDown(t.nextimage, t.nextimage[i], im[i])
          /\ \A j \in Elements(im[i]) : GhostIndex(t.bin[j]) = at[i]
    /\ \A i, k \in 0 .. t.nlocal - 1 : i # k => Elements(im[i]) \cap Elements(im[k]) = {}

(* A new image at the front of its chain keeps the chains.                 *)
LEMMA ImagedAdd ==
    ASSUME NEW t, NEW L, NEW im, NEW at, Imaged(t, L, im, at), 0 .. t.nlocal - 1 \subseteq L,
           NEW i \in 0 .. t.nlocal - 1, NEW j, j \notin L, NEW u, u.nlocal = t.nlocal,
           \A k \in L : u.bin[k] = t.bin[k], \A k \in L \ {i} : u.nextimage[k] = t.nextimage[k],
           u.nextimage[i] = j, u.nextimage[j] = t.nextimage[i], GhostIndex(u.bin[j]) = at[i]
    PROVE  \E im2 : Imaged(u, L \cup {j}, im2, at)
<1> DEFINE Own == 0 .. t.nlocal - 1
           X == L \ Own
           Y == (L \cup {j}) \ Own
           im2 == [k \in Own |-> IF k = i THEN <<j>> \o im[i] ELSE im[k]]
<1>1. X \subseteq Y /\ j \in Y /\ j \notin X /\ Own \subseteq L /\ i \in Own
  OBVIOUS
<1>2. /\ \A k \in Own : im[k] \in Seq(X) /\ Distinct(im[k])
                        /\ RunsDown(t.nextimage, t.nextimage[k], im[k])
                        /\ \A l \in Elements(im[k]) : GhostIndex(t.bin[l]) = at[k]
      /\ \A k, l \in Own : k # l => Elements(im[k]) \cap Elements(im[l]) = {}
  BY DEF Imaged
<1>3. \A k \in Own : Elements(im[k]) \subseteq X /\ im[k] \in Seq(Y)
  <2>1. SUFFICES ASSUME NEW k \in Own PROVE Elements(im[k]) \subseteq X /\ im[k] \in Seq(Y)
    OBVIOUS
  <2>2. im[k] \in Seq(X)
    BY <1>2
  <2> HIDE DEF X, Y, Own
  <2>3. Elements(im[k]) \subseteq X
    BY <2>2, ElementsIn
  <2>4. Elements(im[k]) \subseteq Y
    BY <1>1, <2>3
  <2> QED BY <2>2, <2>3, <2>4, SeqIn
<1>4. \A k \in X : u.nextimage[k] = t.nextimage[k] /\ u.bin[k] = t.bin[k]
  OBVIOUS
<1>5. \A k \in Own \ {i} : u.nextimage[k] = t.nextimage[k]
  OBVIOUS
<1>6. \A k \in Own : im2[k] = IF k = i THEN <<j>> \o im[i] ELSE im[k]
  OBVIOUS
<1> HIDE DEF X, Y, im2, Own
<1> DEFINE r == im[i]
<1>7. r \in Seq(Y) /\ Distinct(r) /\ RunsDown(t.nextimage, t.nextimage[i], r) /\ Elements(r) \subseteq X
      /\ \A l \in Elements(r) : GhostIndex(t.bin[l]) = at[i]
  BY <1>1, <1>2, <1>3
<1> DEFINE r2 == <<j>> \o r
<1>8. /\ r2 \in Seq(Y) /\ Len(r2) = Len(r) + 1 /\ r2[1] = j
      /\ \A l \in 1 .. Len(r) : r2[l + 1] = r[l]
      /\ Elements(r2) = {j} \cup Elements(r) /\ Distinct(r2)
  BY <1>1, <1>7, PrependIs
<1>9. RunsDown(u.nextimage, u.nextimage[i], r2)
  <2>1. Len(r) \in Nat
    BY <1>7
  <2>2. RunsDown(u.nextimage, t.nextimage[i], r)
    BY <1>4, <1>7, RunsSame
  <2> HIDE DEF r2
  <2>3. u.nextimage[i] = IF Len(r2) = 0 THEN Nil ELSE r2[1]
    BY <1>8, <2>1
  <2>4. ASSUME NEW l \in 1 .. Len(r2)
        PROVE  u.nextimage[r2[l]] = IF l = Len(r2) THEN Nil ELSE r2[l + 1]
    <3>1. CASE l = 1
      <4>1. u.nextimage[r2[l]] = IF Len(r) = 0 THEN Nil ELSE r[1]
        BY <1>8, <2>2, <3>1 DEF RunsDown
      <4>2. Len(r) # 0 => r2[2] = r[1]
        <5>1. Len(r) # 0 => 1 \in 1 .. Len(r) /\ 1 + 1 = 2
          BY <2>1
        <5> QED BY <1>8, <5>1
      <4> QED BY <1>8, <2>1, <3>1, <4>1, <4>2
    <3>2. CASE l # 1
      <4>1. l - 1 \in 1 .. Len(r) /\ (l - 1) + 1 = l
        BY <1>8, <2>1, <3>2
      <4>2. r2[l] = r[l - 1]
        BY <1>8, <4>1
      <4>3. u.nextimage[r[l - 1]] = IF l - 1 = Len(r) THEN Nil ELSE r[l]
        BY <2>2, <4>1 DEF RunsDown
      <4>4. l - 1 # Len(r) => l \in 1 .. Len(r)
        BY <2>1, <4>1
      <4>5. l - 1 # Len(r) => r2[l + 1] = r[l]
        BY <1>8, <4>4
      <4> QED BY <1>8, <2>1, <4>1, <4>2, <4>3, <4>5
    <3> QED BY <3>1, <3>2
  <2> QED BY <2>3, <2>4 DEF RunsDown
<1>10. \A l \in Elements(r2) : GhostIndex(u.bin[l]) = at[i]
  <2> HIDE DEF r2, r
  <2> QED BY <1>4, <1>7, <1>8
<1> HIDE DEF r2
<1>11. ASSUME NEW k \in Own
       PROVE  /\ im2[k] \in Seq(Y) /\ Distinct(im2[k])
              /\ RunsDown(u.nextimage, u.nextimage[k], im2[k])
              /\ \A l \in Elements(im2[k]) : GhostIndex(u.bin[l]) = at[k]
  <2>1. CASE k = i
    BY <1>6, <1>8, <1>9, <1>10, <2>1 DEF r2
  <2>2. CASE k # i
    <3>1. im2[k] = im[k]
      BY <1>6, <2>2
    <3>2. RunsDown(u.nextimage, u.nextimage[k], im[k])
      <4>1. u.nextimage[k] = t.nextimage[k]
        BY <1>5, <2>2
      <4>2. RunsDown(t.nextimage, t.nextimage[k], im[k])
        BY <1>2
      <4>3. \A l \in Elements(im[k]) : u.nextimage[l] = t.nextimage[l]
        BY <1>3, <1>4
      <4> QED BY <4>1, <4>2, <4>3, RunsSame
    <3>3. \A l \in Elements(im[k]) : GhostIndex(u.bin[l]) = at[k]
      BY <1>2, <1>3, <1>4
    <3> QED BY <1>2, <1>3, <3>1, <3>2, <3>3
  <2> QED BY <2>1, <2>2
<1>12. \A k \in Own : Elements(im2[k]) = IF k = i THEN {j} \cup Elements(im[i]) ELSE Elements(im[k])
  BY <1>6, <1>8 DEF r2
<1>13. ASSUME NEW k \in Own, NEW l \in Own, k # l
       PROVE  Elements(im2[k]) \cap Elements(im2[l]) = {}
  <2>1. Elements(im[k]) \cap Elements(im[l]) = {}
    BY <1>2, <1>13
  <2>2. j \notin Elements(im[k]) /\ j \notin Elements(im[l])
    BY <1>1, <1>3
  <2>3. /\ Elements(im2[k]) \subseteq {j} \cup Elements(im[k])
        /\ k # i => Elements(im2[k]) = Elements(im[k])
        /\ Elements(im2[l]) \subseteq {j} \cup Elements(im[l])
        /\ l # i => Elements(im2[l]) = Elements(im[l])
    BY <1>12
  <2> QED BY <1>13, <2>1, <2>2, <2>3
<1>14. Imaged(u, L \cup {j}, im2, at)
  BY <1>11, <1>13 DEF Imaged, Own, Y
<1> QED BY <1>14

(* The parts of WithGhosts.                                                *)
Bare(p) ==
    DeleteAllGhosts(IF Sectored THEN table[p]
                    ELSE [table[p] EXCEPT !.nextimage = [k \in DOMAIN @ |-> Nil]],
                    GhostBins)
Ready(p, s) == GrowTo(Bare(p), table[p].nlocal + Len(Arrivals(p, s)))
Came(u, c) ==
    IF Sectored THEN AddGhost(u, c.id, c.x, c.bin) ELSE AddImage(u, c.of, c.x, c.bin)

(* What one arriving copy preserves holds after all of them.               *)
LEMMA GhostsFold ==
    ASSUME NEW p, NEW s, NEW n \in Nat, DOMAIN Arrivals(p, s) = 1 .. n,
           NEW V, Ready(p, s) \in V[{}],
           \A T \in SUBSET (1 .. n) : T # {} =>
              \A v \in V[T \ {Max(T)}] : Came(v, Arrivals(p, s)[Max(T)]) \in V[T]
    PROVE  WithGhosts(p, s) \in V[1 .. n]
<1> DEFINE Op(u, e) == Came(u, e)
           Eq(g) == g = [T \in SUBSET DOMAIN Arrivals(p, s) |->
                           IF T = {} THEN Ready(p, s) ELSE Op(g[T \ {Max(T)}], Arrivals(p, s)[Max(T)])]
           G == CHOOSE g : Eq(g)
           Dom == (SUBSET (1 .. n)) \X UNION {V[T] : T \in SUBSET (1 .. n)}
           step == [c \in Dom |-> Op(c[2], Arrivals(p, s)[Max(c[1])])]
<1>1. WithGhosts(p, s) = G[DOMAIN Arrivals(p, s)]
  BY DEF WithGhosts, Came, Bare, Ready, FoldLeft, MapThenFoldSet
<1>2. \A T \in SUBSET (1 .. n) : T # {} =>
        \A u \in V[T \ {Max(T)}] : Op(u, Arrivals(p, s)[Max(T)]) \in V[T]
  OBVIOUS
<1> HIDE DEF Op
<1>3. ASSUME NEW T \in SUBSET (1 .. n), NEW u \in V[T \ {Max(T)}]
      PROVE  step[<<T, u>>] = Op(u, Arrivals(p, s)[Max(T)])
  <2>1. T \ {Max(T)} \in SUBSET (1 .. n)
    OBVIOUS
  <2>2. <<T, u>> \in Dom
    BY <2>1
  <2> HIDE DEF Dom
  <2> QED BY <2>2
<1> HIDE DEF step
<1>4. \E g : Eq(g)
  <2>1. \A T \in SUBSET (1 .. n) : T # {} =>
           \A u \in V[T \ {Max(T)}] : step[<<T, u>>] \in V[T]
    <3>1. SUFFICES ASSUME NEW T \in SUBSET (1 .. n), T # {}, NEW u \in V[T \ {Max(T)}]
                   PROVE  step[<<T, u>>] \in V[T]
      BY Zenon
    <3>2. step[<<T, u>>] = Op(u, Arrivals(p, s)[Max(T)])
      BY <1>3, Zenon
    <3>3. Op(u, Arrivals(p, s)[Max(T)]) \in V[T]
      BY <1>2, <3>1, Zenon
    <3> QED BY <3>2, <3>3
  <2>2. PICK g : /\ FoldsTo(g, Ready(p, s), n, step)
                 /\ \A T \in SUBSET (1 .. n) : g[T] \in V[T]
    BY <2>1, FoldTable, Zenon
  <2>3. ASSUME NEW T \in SUBSET (1 .. n)
        PROVE  g[T] = IF T = {} THEN Ready(p, s) ELSE Op(g[T \ {Max(T)}], Arrivals(p, s)[Max(T)])
    <3>1. g[T] = IF T = {} THEN Ready(p, s) ELSE step[<<T, g[T \ {Max(T)}]>>]
      BY <2>2 DEF FoldsTo
    <3>2. T \ {Max(T)} \in SUBSET (1 .. n)
      OBVIOUS
    <3>3. g[T \ {Max(T)}] \in V[T \ {Max(T)}]
      BY <2>2, <3>2, Zenon
    <3>4. step[<<T, g[T \ {Max(T)}]>>] = Op(g[T \ {Max(T)}], Arrivals(p, s)[Max(T)])
      BY <1>3, <3>3, Zenon
    <3> QED BY <3>1, <3>4, Zenon
  <2>4. g = [T \in SUBSET (1 .. n) |-> g[T]]
    BY <2>2 DEF FoldsTo
  <2> QED BY <2>3, <2>4
<1>5. Eq(G)
  BY <1>4
<1> HIDE DEF G
<1>6. ASSUME NEW T \in SUBSET (1 .. n), T # {} => G[T \ {Max(T)}] \in V[T \ {Max(T)}]
      PROVE  G[T] \in V[T]
  <2>1. G[T] = IF T = {} THEN Ready(p, s) ELSE Op(G[T \ {Max(T)}], Arrivals(p, s)[Max(T)])
    BY <1>5
  <2>2. CASE T = {}
    BY <2>1, <2>2, Zenon
  <2>3. CASE T # {}
    <3>1. Op(G[T \ {Max(T)}], Arrivals(p, s)[Max(T)]) \in V[T]
      BY <1>2, <1>6, <2>3, Zenon
    <3> QED BY <2>1, <2>3, <3>1
  <2> QED BY <2>2, <2>3
<1>7. G[1 .. n] \in V[1 .. n]
  BY <1>6, FoldValues, Zenon
<1> QED BY <1>1, <1>7

(* What arrives at p.                                                      *)
Arrived(p) ==
    {c \in [id : Nat, of : Int, bin : GhostBins, x : Point] :
        /\ Site2Bin(p, c.x) = c.bin
        /\ ~ Sectored => c.of \in 0 .. table[p].nlocal - 1
                         /\ GhostIndex(c.bin) = table[p].bin[c.of]}

(* The copies that arrive at a process.                                    *)
LEMMA ArrivalsAre ==
    ASSUME layout \in Layouts, NEW p \in Proc, NEW s, \A q \in Proc : Settled(q, table[q])
    PROVE  Arrivals(p, s) \in Seq(Arrived(p))
<1> DEFINE others == Others(p)
           ss == [k \in DOMAIN others |-> Copies(others[k], p, s)]
<1>1. Arrivals(p, s) = Copies(p, p, s) \o FlattenSeq(ss)
  BY DEF Arrivals
<1>2. others \in Seq(Proc)
  BY OthersAre
<1> HIDE DEF others
<1>3. ASSUME NEW q \in Proc, Sectored \/ q = p
      PROVE  Copied(q, p) \subseteq Arrived(p)
  <2>1. table[q].nlocal \in Int
    <3>1. table[q].nmax \in Nat
      BY TableIs DEF Settled
    <3> QED BY <3>1 DEF Settled
  <2> QED BY <1>3, <2>1 DEF Copied, Arrived
<1>4. Copies(p, p, s) \in Seq(Arrived(p))
  <2>1. Copies(p, p, s) \in Seq(Copied(p, p))
    BY CopiesAre
  <2>2. Copied(p, p) \subseteq Arrived(p)
    BY <1>3
  <2> QED BY <2>1, <2>2, ElementsIn, SeqIn
<1>5. FlattenSeq(ss) \in Seq(Arrived(p))
  <2>1. ASSUME NEW k \in 1 .. Len(others)
        PROVE  ss[k] \in Seq(Arrived(p))
    <3>1. others[k] \in Proc /\ ss[k] = Copies(others[k], p, s)
      BY <1>2
    <3>2. Sectored
      <4>1. others[k] \in Proc \ {p}
        BY OthersAre DEF others, Elements
      <4>2. ~ Sectored => Proc = {0}
        BY ProcCount
      <4> QED BY <4>1, <4>2
    <3>3. Copies(others[k], p, s) \in Seq(Copied(others[k], p))
      BY <3>1, CopiesAre
    <3>4. Copied(others[k], p) \subseteq Arrived(p)
      BY <1>3, <3>1, <3>2
    <3> QED BY <3>1, <3>3, <3>4, ElementsIn, SeqIn
  <2>2. DOMAIN ss = DOMAIN others /\ ss = [k \in DOMAIN ss |-> ss[k]]
    OBVIOUS
  <2> HIDE DEF ss
  <2>3. ss \in Seq(Seq(Arrived(p)))
    BY <1>2, <2>1, <2>2, MapIs
  <2> QED BY <2>3, FlattenIs
<1> QED BY <1>1, <1>4, <1>5, ConcatIs

(* The table of p after some of them.                                      *)
Boarded(p, u, t) ==
    /\ u.nlocal = t.nlocal
    /\ \A k \in 0 .. t.nlocal - 1 :
          u.id[k] = t.id[k] /\ u.xyz[k] = t.xyz[k] /\ u.bin[k] = t.bin[k]
    /\ \E L, q : /\ Fitted(p, u, L, q) /\ ToTheEnd(u, q)
                 /\ ~ Sectored => \E im : Imaged(u, L, im, t.bin)

(* Before the exchange: the table has the owned sites and no ghost site.   *)
LEMMA BareIs ==
    ASSUME layout \in Layouts, NEW p \in Proc, Settled(p, table[p])
    PROVE  LET u == Bare(p)
               t == table[p]
           IN  /\ u \in SiteTables(Bins) /\ u.nlocal = t.nlocal /\ u.nghost = 0 /\ u.nmax = t.nmax
               /\ \A k \in 0 .. t.nlocal - 1 :
                     u.id[k] = t.id[k] /\ u.xyz[k] = t.xyz[k] /\ u.bin[k] = t.bin[k]
               /\ ~ Sectored => \A k \in 0 .. t.nlocal - 1 : u.nextimage[k] = Nil
               /\ \E q : Whole(u, 0 .. t.nlocal - 1, q) /\ ToTheEnd(u, q)
<1> DEFINE t == table[p]
           n == t.nmax
           own == 0 .. t.nlocal - 1
           blank == [k \in DOMAIN t.nextimage |-> Nil]
           v == IF Sectored THEN t ELSE [t EXCEPT !.nextimage = blank]
           u == DeleteAllGhosts(v, GhostBins)
<1>0. Bare(p) = u
  BY DEF Bare
<1>1. /\ t \in SiteTables(Bins) /\ t.nlocal \in 0 .. n /\ Keeps(t, own, Bins, t.binhead)
      /\ t.nlocal = n => t.freehead = Nil
      /\ \A k \in own : InDomain(p, t.xyz[k]) /\ t.bin[k] = Site2Bin(p, t.xyz[k])
  BY DEF Settled
<1>2. n \in Nat /\ t \in TableOf(n, Bins)
  BY <1>1, TableIs
<1> HIDE DEF t
<1>3. own \subseteq 0 .. n - 1
  BY <1>1, <1>2
<1>4. t.xyz \in [0 .. n - 1 -> Point] /\ t.nextimage \in [0 .. n - 1 -> Int] /\ t.nmax = n
      /\ DOMAIN t.binhead = Bins
  BY <1>2 DEF TableOf, Point
<1> HIDE DEF n
<1>5. \A k \in own : ~ IsGhost(t.bin[k]) /\ t.bin[k] \in Bins
  <2>1. SUFFICES ASSUME NEW k \in own PROVE ~ IsGhost(t.bin[k]) /\ t.bin[k] \in Bins
    OBVIOUS
  <2>2. t.xyz[k] \in Point
    BY <1>3, <1>4
  <2> QED BY <1>1, <2>2, SiteBinIs
<1>6. /\ v \in TableOf(n, Bins) /\ v.nlocal = t.nlocal /\ v.nmax = t.nmax /\ v.freehead = t.freehead
      /\ v.next = t.next /\ v.prev = t.prev /\ v.bin = t.bin /\ v.binhead = t.binhead
      /\ v.id = t.id /\ v.xyz = t.xyz
      /\ ~ Sectored => \A k \in own : v.nextimage[k] = Nil
  <2>1. CASE Sectored
    BY <1>2, <2>1
  <2>2. CASE ~ Sectored
    <3>1. \A d \in [0 .. n - 1 -> Int] :
             LET w == [t EXCEPT !.nextimage = d] IN
             /\ w \in TableOf(n, Bins) /\ w.nextimage = d
             /\ w.nlocal = t.nlocal /\ w.nmax = t.nmax /\ w.freehead = t.freehead
             /\ w.next = t.next /\ w.prev = t.prev /\ w.bin = t.bin /\ w.binhead = t.binhead
             /\ w.id = t.id /\ w.xyz = t.xyz
      BY <1>2 DEF TableOf
    <3>2. blank \in [0 .. n - 1 -> Int] /\ \A k \in own : blank[k] = Nil
      <4>1. DOMAIN t.nextimage = 0 .. n - 1 /\ Nil \in Int
        BY <1>4 DEF Nil
      <4> HIDE DEF own
      <4> QED BY <1>3, <4>1
    <3>3. v = [t EXCEPT !.nextimage = blank]
      BY <2>2
    <3> HIDE DEF v, blank, own
    <3> QED BY <3>1, <3>2, <3>3
  <2> QED BY <2>1, <2>2
<1> HIDE DEF v, blank
<1>7. Keeps(v, own, Bins, v.binhead)
  <2>1. Keeps(v, own, Bins, t.binhead)
    <3>1. /\ own \subseteq 0 .. v.nmax - 1 /\ DOMAIN v.binhead = DOMAIN t.binhead
          /\ \A b \in Bins : v.binhead[b] = t.binhead[b]
          /\ \A k \in own : v.next[k] = t.next[k] /\ v.bin[k] = t.bin[k] /\ v.prev[k] = t.prev[k]
      BY <1>3, <1>4, <1>6
    <3> HIDE DEF own
    <3> QED BY <1>1, <3>1, SameKeeps
  <2> QED BY <1>6, <2>1
<1>8. {k \in own : v.bin[k] \notin GhostBins} = 0 .. v.nlocal - 1
  BY <1>5, <1>6, GhostBinIs
<1>9. Bins \ GhostBins \subseteq Bins /\ Bins \in SUBSET Bins /\ v.nlocal \in 0 .. n
      /\ (v.nlocal = n => v.freehead = Nil) /\ NoPlace \in Bins
  <2>1. NBinX \in Nat \ {0} /\ NBinY \in Nat \ {0}
    BY GridIs DEF Axis
  <2>2. NoPlace \in Bins
    BY <2>1 DEF NoPlace, Bins
  <2> QED BY <1>1, <1>6, <2>2
<1>10. /\ u \in TableOf(n, Bins) /\ Same(u, v, 0 .. v.nlocal - 1)
       /\ u.nlocal = v.nlocal /\ u.nghost = 0
       /\ \E q : /\ Whole(u, 0 .. v.nlocal - 1, q) /\ ToTheEnd(u, q)
  BY <1>2, <1>6, <1>7, <1>8, <1>9, BareWhole
<1> HIDE DEF u
<1>11. u \in SiteTables(Bins) /\ u.nmax = n
  BY <1>2, <1>10, TableIn
<1> QED BY <1>0, <1>4, <1>6, <1>10, <1>11 DEF Same, t, n

(* The table is ready for the copies to come.                              *)
LEMMA ReadyIs ==
    ASSUME layout \in Layouts, NEW p \in Proc, NEW s, \A q \in Proc : Settled(q, table[q])
    PROVE  Ready(p, s) \in SiteTables(Bins) /\ Boarded(p, Ready(p, s), table[p])
<1> DEFINE t == table[p]
           v == Bare(p)
           m == t.nlocal + Len(Arrivals(p, s))
           u == GrowTo(v, m)
           own == 0 .. t.nlocal - 1
<1>0. Ready(p, s) = u
  BY DEF Ready
<1>1. /\ v \in SiteTables(Bins) /\ v.nlocal = t.nlocal /\ v.nghost = 0 /\ v.nmax = t.nmax
      /\ \A k \in own : v.id[k] = t.id[k] /\ v.xyz[k] = t.xyz[k] /\ v.bin[k] = t.bin[k]
      /\ ~ Sectored => \A k \in own : v.nextimage[k] = Nil
  BY BareIs
<1>2. PICK q1 : Whole(v, own, q1) /\ ToTheEnd(v, q1)
  BY BareIs
<1>3. /\ t.nlocal \in 0 .. t.nmax /\ t.nmax \in Nat
      /\ \A k \in own : InDomain(p, t.xyz[k]) /\ t.bin[k] = Site2Bin(p, t.xyz[k])
  BY TableIs DEF Settled
<1>4. m \in Int /\ NoPlace \in Bins
  <2>1. NBinX \in Nat \ {0} /\ NBinY \in Nat \ {0}
    BY GridIs DEF Axis
  <2>2. NoPlace \in Bins
    BY <2>1 DEF NoPlace, Bins
  <2>3. Len(Arrivals(p, s)) \in Nat
    BY ArrivalsAre
  <2> QED BY <1>3, <2>2, <2>3
<1> HIDE DEF v, t, m, u
<1>5. v.nmax \in Nat /\ v \in TableOf(v.nmax, Bins)
  BY <1>1, TableIs
<1>6. /\ u \in SiteTables(Bins) /\ Larger(u, v)
      /\ \E q2 : Whole(u, own, q2) /\ ToTheEnd(u, q2)
  <2> HIDE DEF own
  <2> QED BY <1>2, <1>4, <1>5, GrowToWhole DEF u
<1>7. PICK q : Whole(u, own, q) /\ ToTheEnd(u, q)
  BY <1>6
<1>8. /\ v.nmax <= u.nmax /\ u.nlocal = t.nlocal /\ u.nghost = 0
      /\ \A k \in 0 .. v.nmax - 1 : /\ u.id[k] = v.id[k] /\ u.xyz[k] = v.xyz[k] /\ u.bin[k] = v.bin[k]
                                    /\ u.nextimage[k] = v.nextimage[k]
  BY <1>1, <1>6 DEF Larger, Same
<1>9. \A k \in own : /\ u.id[k] = t.id[k] /\ u.xyz[k] = t.xyz[k] /\ u.bin[k] = t.bin[k]
                     /\ u.nextimage[k] = v.nextimage[k]
  <2>1. \A k \in own : k \in 0 .. v.nmax - 1
    BY <1>1, <1>3
  <2> HIDE DEF own
  <2> QED BY <1>1, <1>8, <2>1
<1>10. u.nmax \in Nat
  BY <1>6, TableIs
<1>11. Fitted(p, u, own, q)
  <2>1. own \ (0 .. u.nlocal - 1) = {} /\ 0 .. u.nlocal - 1 = own
    BY <1>8
  <2>2. u.nlocal \in 0 .. u.nmax
    BY <1>1, <1>3, <1>8, <1>10
  <2>3. u.nghost = Cardinality(own \ (0 .. u.nlocal - 1))
    BY <1>8, <2>1, FS_EmptySet
  <2>4. \A k \in own : u.bin[k] = Site2Bin(p, u.xyz[k])
    BY <1>3, <1>9
  <2> HIDE DEF own
  <2> QED BY <1>6, <1>7, <2>1, <2>2, <2>3, <2>4 DEF Fitted
<1>12. ASSUME ~ Sectored PROVE \E im : Imaged(u, own, im, t.bin)
  <2> DEFINE im == [k \in own |-> <<>>]
  <2>1. \A k \in own : u.nextimage[k] = Nil
    BY <1>1, <1>9, <1>12
  <2>2. \A k \in own : im[k] = <<>>
    OBVIOUS
  <2>3. <<>> \in Seq(own \ (0 .. u.nlocal - 1)) /\ Len(<<>>) = 0 /\ Elements(<<>>) = {}
        /\ Distinct(<<>>) /\ RunsDown(u.nextimage, Nil, <<>>)
    BY DEF Elements, Distinct, RunsDown
  <2>4. 0 .. u.nlocal - 1 = own
    BY <1>8
  <2> HIDE DEF own, im
  <2>5. Imaged(u, own, im, t.bin)
    BY <2>1, <2>2, <2>3, <2>4 DEF Imaged
  <2> QED BY <2>5
<1>13. Boarded(p, u, t)
  BY <1>7, <1>8, <1>9, <1>11, <1>12 DEF Boarded
<1> QED BY <1>0, <1>6, <1>13 DEF t

(* One more copy comes on board.                                           *)
LEMMA CameIs ==
    ASSUME layout \in Layouts, NEW p \in Proc, NEW c \in Arrived(p), NEW u \in SiteTables(Bins),
           Boarded(p, u, table[p])
    PROVE  Came(u, c) \in SiteTables(Bins) /\ Boarded(p, Came(u, c), table[p])
<1> DEFINE t == table[p]
           w == Came(u, c)
<1>1. PICK L, q : /\ Fitted(p, u, L, q) /\ ToTheEnd(u, q)
                  /\ ~ Sectored => \E im : Imaged(u, L, im, t.bin)
  BY DEF Boarded
<1>2. /\ u.nlocal = t.nlocal
      /\ \A k \in 0 .. t.nlocal - 1 :
          u.id[k] = t.id[k] /\ u.xyz[k] = t.xyz[k] /\ u.bin[k] = t.bin[k]
  BY DEF Boarded
<1>3. /\ c.id \in Nat /\ c.bin \in GhostBins /\ c.x \in Point /\ Site2Bin(p, c.x) = c.bin
      /\ ~ Sectored => c.of \in 0 .. t.nlocal - 1 /\ GhostIndex(c.bin) = t.bin[c.of]
  BY DEF Arrived
<1>4. c.bin \in Bins /\ IsGhost(c.bin) /\ c.x \in Int \X Int
  BY <1>3, GhostBinIs DEF Point
<1>5. /\ u.nmax \in Nat /\ u \in TableOf(u.nmax, Bins) /\ 0 .. u.nlocal - 1 \subseteq L
      /\ Whole(u, L, q)
  BY <1>1, FittedIs DEF Fitted
<1>6. NoPlace \in Bins
  <2>1. NBinX \in Nat \ {0} /\ NBinY \in Nat \ {0}
    BY GridIs DEF Axis
  <2> QED BY <2>1 DEF NoPlace, Bins
<1> HIDE DEF t
<1>7. \E j, name, q2 :
         /\ w \in SiteTables(Bins) /\ w.nlocal = u.nlocal /\ w.nghost = u.nghost + 1
         /\ Obtained(w, u, L, q, j, name, c.x, c.bin, q2)
         /\ ~ Sectored => /\ \A k \in L \ {c.of} : w.nextimage[k] = u.nextimage[k]
                          /\ w.nextimage[c.of] = j /\ w.nextimage[j] = u.nextimage[c.of]
  <2>1. CASE Sectored
    <3>1. w = AddGhost(u, c.id, c.x, c.bin)
      BY <2>1 DEF Came
    <3>2. /\ w \in SiteTables(Bins) /\ w.nlocal = u.nlocal /\ w.nghost = u.nghost + 1
          /\ \E q2 : Obtained(w, u, L, q, WithFreeSlot(u).freehead, c.id, c.x, c.bin, q2)
      BY <1>3, <1>4, <1>5, <1>6, <3>1, AddGhostWhole
    <3> QED BY <2>1, <3>2
  <2>2. CASE ~ Sectored
    <3>1. w = AddImage(u, c.of, c.x, c.bin)
      BY <2>2 DEF Came
    <3>2. c.of \in L
      BY <1>2, <1>3, <1>5, <2>2
    <3>3. /\ w \in SiteTables(Bins) /\ w.nlocal = u.nlocal /\ w.nghost = u.nghost + 1
          /\ \A k \in L \ {c.of} : w.nextimage[k] = u.nextimage[k]
          /\ w.nextimage[c.of] = WithFreeSlot(u).freehead
          /\ w.nextimage[WithFreeSlot(u).freehead] = u.nextimage[c.of]
          /\ \E q2 : Obtained(w, u, L, q, WithFreeSlot(u).freehead, u.id[c.of], c.x, c.bin, q2)
      BY <1>3, <1>4, <1>5, <1>6, <3>1, <3>2, AddImageWhole
    <3> QED BY <3>3
  <2> QED BY <2>1, <2>2
<1> HIDE DEF w
<1>8. PICK j, name, q2 :
         /\ w \in SiteTables(Bins) /\ w.nlocal = u.nlocal /\ w.nghost = u.nghost + 1
         /\ Obtained(w, u, L, q, j, name, c.x, c.bin, q2)
         /\ ~ Sectored => /\ \A k \in L \ {c.of} : w.nextimage[k] = u.nextimage[k]
                          /\ w.nextimage[c.of] = j /\ w.nextimage[j] = u.nextimage[c.of]
  BY <1>7
<1>9. Fitted(p, w, L \cup {j}, q2) /\ ToTheEnd(w, q2)
  BY <1>1, <1>3, <1>4, <1>8, FittedAdd
<1>10. /\ j \notin L /\ w.bin[j] = c.bin
       /\ \A k \in L : w.id[k] = u.id[k] /\ w.xyz[k] = u.xyz[k] /\ w.bin[k] = u.bin[k]
  BY <1>8 DEF Obtained
<1>11. ASSUME ~ Sectored PROVE \E im : Imaged(w, L \cup {j}, im, t.bin)
  <2>1. PICK im : Imaged(u, L, im, t.bin)
    BY <1>1, <1>11
  <2>2. c.of \in 0 .. u.nlocal - 1 /\ GhostIndex(w.bin[j]) = t.bin[c.of]
    BY <1>2, <1>3, <1>10, <1>11
  <2>3. /\ \A k \in L \ {c.of} : w.nextimage[k] = u.nextimage[k]
        /\ w.nextimage[c.of] = j /\ w.nextimage[j] = u.nextimage[c.of]
    BY <1>8, <1>11
  <2>4. w.nlocal = u.nlocal /\ \A k \in L : w.bin[k] = u.bin[k]
    BY <1>8, <1>10
  <2> QED BY <1>5, <1>10, <2>1, <2>2, <2>3, <2>4, ImagedAdd
<1>12. \A k \in 0 .. t.nlocal - 1 :
          w.id[k] = t.id[k] /\ w.xyz[k] = t.xyz[k] /\ w.bin[k] = t.bin[k]
  <2>1. \A k \in 0 .. t.nlocal - 1 : k \in L
    BY <1>2, <1>5
  <2> QED BY <1>2, <1>10, <2>1
<1>13. Boarded(p, w, t)
  BY <1>2, <1>8, <1>9, <1>11, <1>12 DEF Boarded
<1> QED BY <1>8, <1>13 DEF w, t

(* The exchange before a sector leaves the owned sites as they are, and    *)
(* makes ghosts of all that arrive.                                        *)
LEMMA WithGhostsIs ==
    ASSUME layout \in Layouts, NEW p \in Proc, NEW s, \A q \in Proc : Settled(q, table[q])
    PROVE  WithGhosts(p, s) \in SiteTables(Bins) /\ Boarded(p, WithGhosts(p, s), table[p])
<1> DEFINE W == {u \in SiteTables(Bins) : Boarded(p, u, table[p])}
           come == Arrivals(p, s)
           n == Len(come)
           V == [T \in SUBSET (1 .. n) |-> W]
<1>1. come \in Seq(Arrived(p)) /\ n \in Nat /\ DOMAIN come = 1 .. n
  <2>1. come \in Seq(Arrived(p))
    BY ArrivalsAre
  <2> QED BY <2>1
<1>2. Ready(p, s) \in V[{}]
  BY ReadyIs
<1> HIDE DEF come
<1>3. \A T \in SUBSET (1 .. n) : T # {} =>
         \A v \in V[T \ {Max(T)}] : Came(v, come[Max(T)]) \in V[T]
  <2>1. SUFFICES ASSUME NEW T \in SUBSET (1 .. n), T # {}, NEW v \in V[T \ {Max(T)}]
                 PROVE  Came(v, come[Max(T)]) \in V[T]
    BY Zenon
  <2>2. Max(T) \in 1 .. n
    BY <1>1, <2>1, MaxOf
  <2>3. come[Max(T)] \in Arrived(p)
    BY <1>1, <2>2
  <2>4. v \in W
    <3>1. T \ {Max(T)} \in SUBSET (1 .. n)
      OBVIOUS
    <3> QED BY <3>1
  <2>5. Came(v, come[Max(T)]) \in W
    BY <2>3, <2>4, CameIs
  <2> QED BY <2>5
<1>4. V[1 .. n] = W
  OBVIOUS
<1> HIDE DEF V, W, n
<1>5. WithGhosts(p, s) \in V[1 .. n]
  BY <1>1, <1>2, <1>3, GhostsFold DEF come
<1> QED BY <1>4, <1>5 DEF W

(* With sectors: an owned site has moved out of the sub-domain by a move   *)
(* at most, and only into ghost bins of the sector; the sites K are in the *)
(* part of the sub-domain that is the sector.                              *)
InReach(p, t, s, K) ==
    /\ \A k \in 0 .. t.nlocal - 1 :
          Close(p, t.xyz[k]) /\ (IsGhost(t.bin[k]) => SectorGhost(s, t.bin[k]))
    /\ \A k \in K : k \in 0 .. t.nlocal - 1 /\ InSide(p, s, t.xyz[k])

(* Without sectors: the owned sites are in the box, their images found.    *)
AtHome(p, t, L) ==
    /\ \A k \in 0 .. t.nlocal - 1 : InDomain(p, t.xyz[k])
    /\ \E im : Imaged(t, L, im, t.bin)
Equipped(p, t, s, K) ==
    \E L, q : /\ Fitted(p, t, L, q)
              /\ Sectored => InReach(p, t, s, K) /\ ToTheEnd(t, q)
              /\ ~ Sectored => AtHome(p, t, L)

(* A point of the box is within a cutoff of it and in an owned bin.        *)
LEMMA DomainClose ==
    ASSUME layout \in Layouts, NEW p \in Proc, NEW x \in Point, InDomain(p, x)
    PROVE  Close(p, x) /\ ~ IsGhost(Site2Bin(p, x))
<1>1. X1(p, x) \in 0 .. layout.sx - 1 /\ X2(p, x) \in 0 .. layout.sy - 1
  BY AxesIs
<1>2. layout.sx \in Nat /\ layout.sy \in Nat /\ Step \in Nat
  BY GridIs, StepIs
<1>3. X1(p, x) \in Int /\ X2(p, x) \in Int /\ -Step <= 0
  BY <1>1, <1>2
<1>4. Close(p, x)
  <2>1. -Step <= X1(p, x) /\ X1(p, x) < layout.sx + Step
    BY <1>1, <1>2, <1>3
  <2>2. -Step <= X2(p, x) /\ X2(p, x) < layout.sy + Step
    BY <1>1, <1>2, <1>3
  <2> QED BY <2>1, <2>2 DEF Close
<1> QED BY <1>4, SiteBinIs

(* A change that leaves the images alone keeps the chains.                 *)
LEMMA ImagedSame ==
    ASSUME NEW t, NEW L, NEW im, NEW at, Imaged(t, L, im, at), NEW u, NEW to,
           u.nlocal = t.nlocal, \A k \in 0 .. t.nlocal - 1 : Elements(im[k]) = {} \/ to[k] = at[k],
           0 .. t.nlocal - 1 \subseteq L,
           \A k \in L : u.nextimage[k] = t.nextimage[k],
           \A k \in L \ (0 .. t.nlocal - 1) : u.bin[k] = t.bin[k]
    PROVE  Imaged(u, L, im, to)
<1> DEFINE Own == 0 .. t.nlocal - 1
<1>1. ASSUME NEW i \in Own
      PROVE  /\ im[i] \in Seq(L \ Own) /\ Distinct(im[i])
             /\ RunsDown(u.nextimage, u.nextimage[i], im[i])
             /\ \A j \in Elements(im[i]) : GhostIndex(u.bin[j]) = to[i]
  <2>1. /\ im[i] \in Seq(L \ Own) /\ Distinct(im[i])
        /\ RunsDown(t.nextimage, t.nextimage[i], im[i])
        /\ \A j \in Elements(im[i]) : GhostIndex(t.bin[j]) = at[i]
    BY DEF Imaged
  <2>2. i \in L
    OBVIOUS
  <2>3. \A j \in L \ Own : u.bin[j] = t.bin[j]
    OBVIOUS
  <2>4. Elements(im[i]) = {} \/ to[i] = at[i]
    OBVIOUS
  <2> HIDE DEF Own
  <2>5. Elements(im[i]) \subseteq L \ Own
    BY <2>1, ElementsIn
  <2>6. RunsDown(u.nextimage, u.nextimage[i], im[i])
    <3>1. \A j \in Elements(im[i]) : u.nextimage[j] = t.nextimage[j]
      BY <2>5
    <3>2. u.nextimage[i] = t.nextimage[i]
      BY <2>2
    <3> QED BY <2>1, <3>1, <3>2, RunsSame
  <2>7. \A j \in Elements(im[i]) : GhostIndex(u.bin[j]) = to[i]
    BY <2>1, <2>3, <2>4, <2>5
  <2> QED BY <2>1, <2>6, <2>7
<1>2. \A i, k \in Own : i # k => Elements(im[i]) \cap Elements(im[k]) = {}
  BY DEF Imaged
<1> QED BY <1>1, <1>2 DEF Imaged

(* After the exchange, for the sites K in the sector.                      *)
LEMMA ForwardEquips ==
    ASSUME layout \in Layouts, NEW p \in Proc, NEW s \in 0 .. layout.nsector - 1, NEW t, Settled(p, t),
           NEW u \in SiteTables(Bins), Boarded(p, u, t),
           NEW K, K = {i \in 0 .. u.nlocal - 1 : InSector(p, s, u.xyz[i])}
    PROVE  Equipped(p, u, s, K)
<1>1. PICK L, q : /\ Fitted(p, u, L, q) /\ ToTheEnd(u, q)
                  /\ ~ Sectored => \E im : Imaged(u, L, im, t.bin)
  BY DEF Boarded
<1>2. /\ u.nlocal = t.nlocal
      /\ \A k \in 0 .. t.nlocal - 1 :
          u.id[k] = t.id[k] /\ u.xyz[k] = t.xyz[k] /\ u.bin[k] = t.bin[k]
  BY DEF Boarded
<1>3. \A k \in 0 .. t.nlocal - 1 : InDomain(p, t.xyz[k]) /\ t.bin[k] = Site2Bin(p, t.xyz[k])
  BY DEF Settled
<1>4. u.xyz \in [0 .. u.nmax - 1 -> Point] /\ L \subseteq 0 .. u.nmax - 1
      /\ 0 .. u.nlocal - 1 \subseteq L
  BY <1>1, FittedIs DEF Fitted
<1>5. \A k \in 0 .. u.nlocal - 1 : u.xyz[k] \in Point
  <2> DEFINE own == 0 .. u.nlocal - 1
  <2>1. own \subseteq 0 .. u.nmax - 1
    BY <1>4
  <2> HIDE DEF own
  <2>2. \A k \in own : u.xyz[k] \in Point
    BY <1>4, <2>1
  <2> QED BY <2>2 DEF own
<1>6. \A k \in 0 .. u.nlocal - 1 : InDomain(p, u.xyz[k]) /\ u.bin[k] = Site2Bin(p, u.xyz[k])
  BY <1>2, <1>3
<1>7. ASSUME Sectored PROVE InReach(p, u, s, K)
  <2>1. \A k \in 0 .. u.nlocal - 1 : Close(p, u.xyz[k]) /\ ~ IsGhost(u.bin[k])
    BY <1>5, <1>6, DomainClose
  <2>2. \A k \in K : k \in 0 .. u.nlocal - 1 /\ InSide(p, s, u.xyz[k])
    <3>1. SUFFICES ASSUME NEW k \in K PROVE k \in 0 .. u.nlocal - 1 /\ InSide(p, s, u.xyz[k])
      OBVIOUS
    <3>2. k \in 0 .. u.nlocal - 1 /\ InSector(p, s, u.xyz[k])
      OBVIOUS
    <3> QED BY <1>5, <1>7, <3>2, SectorSide
  <2> QED BY <2>1, <2>2 DEF InReach
<1>8. ASSUME ~ Sectored PROVE AtHome(p, u, L)
  <2>1. PICK im : Imaged(u, L, im, t.bin)
    BY <1>1, <1>8
  <2>2. \A k \in 0 .. u.nlocal - 1 : u.bin[k] = t.bin[k]
    BY <1>2
  <2>3. Imaged(u, L, im, u.bin)
    BY <1>4, <2>1, <2>2, ImagedSame
  <2> QED BY <1>6, <2>3 DEF AtHome
<1> QED BY <1>1, <1>7, <1>8 DEF Equipped

(* An owned site at another place.                                         *)
LEMMA MovedTo ==
    ASSUME NEW n \in Nat, NEW t \in TableOf(n, Bins), NEW i \in 0 .. n - 1, NEW x \in Point,
           NEW v, v = [t EXCEPT !.xyz[i] = x]
    PROVE  /\ v \in TableOf(n, Bins) /\ v.nmax = n /\ v.nlocal = t.nlocal /\ v.nghost = t.nghost
           /\ v.nfree = t.nfree /\ v.freehead = t.freehead
           /\ v.next = t.next /\ v.prev = t.prev /\ v.bin = t.bin /\ v.binhead = t.binhead
           /\ v.id = t.id /\ v.nextimage = t.nextimage /\ v.xyz = [t.xyz EXCEPT ![i] = x]
           /\ v.xyz[i] = x
<1>2. t.xyz \in [0 .. n - 1 -> Int \X Int]
  BY DEF TableOf
<1>3. [t.xyz EXCEPT ![i] = x] \in [0 .. n - 1 -> Int \X Int] /\ [t.xyz EXCEPT ![i] = x][i] = x
  BY <1>2 DEF Point
<1> DEFINE d == [t.xyz EXCEPT ![i] = x]
<1>4. v = [t EXCEPT !.xyz = d]
  OBVIOUS
<1>5. d \in [0 .. n - 1 -> Int \X Int] /\ d[i] = x
  BY <1>3
<1> HIDE DEF d
<1>6. /\ v \in TableOf(n, Bins) /\ v.nmax = n /\ v.nlocal = t.nlocal /\ v.nghost = t.nghost
      /\ v.nfree = t.nfree /\ v.freehead = t.freehead
      /\ v.next = t.next /\ v.prev = t.prev /\ v.bin = t.bin /\ v.binhead = t.binhead
      /\ v.id = t.id /\ v.nextimage = t.nextimage /\ v.xyz = d
  BY <1>4, <1>5 DEF TableOf
<1> QED BY <1>5, <1>6 DEF d

(* The site is in another list.                                            *)
Relisted(u, t, i, b) == u = [AddToBin(DeleteFromBin(t, i, t.bin[i]), i, b) EXCEPT !.bin[i] = b]
Renewed(u, t, i, b) == RestKept(u, t) /\ u.bin = [t.bin EXCEPT ![i] = b]

(* Moving a site from the list of one bin to that of another keeps the     *)
(* table whole.                                                            *)
LEMMA RelistedWhole ==
    ASSUME NEW n \in Nat, NEW Places, NEW t \in TableOf(n, Places),
           NEW L, NEW q, Whole(t, L, q), NEW i \in L, NEW b \in Places,
           NEW u, Relisted(u, t, i, b)
    PROVE  u \in TableOf(n, Places) /\ Renewed(u, t, i, b) /\ Whole(u, L, q)
BY RebinWhole DEF Relisted, Renewed

(* A move of an owned site that brings its bin up to date keeps the table  *)
(* fitted.                                                                 *)
LEMMA MoveFitted ==
    ASSUME NEW p, NEW t, NEW L, NEW q, Fitted(p, t, L, q), NEW i \in 0 .. t.nlocal - 1, NEW x,
           NEW u \in SiteTables(Bins), u.nmax = t.nmax, Whole(u, L, q),
           u.nlocal = t.nlocal, u.nghost = t.nghost,
           u.xyz = [t.xyz EXCEPT ![i] = x], u.bin = [t.bin EXCEPT ![i] = Site2Bin(p, x)]
    PROVE  Fitted(p, u, L, q)
<1>1. /\ t.nlocal \in 0 .. t.nmax /\ 0 .. t.nlocal - 1 \subseteq L
      /\ t.nghost = Cardinality(L \ (0 .. t.nlocal - 1))
      /\ \A k \in L : t.bin[k] = Site2Bin(p, t.xyz[k])
      /\ \A k \in L \ (0 .. t.nlocal - 1) : IsGhost(t.bin[k])
  BY DEF Fitted
<1>2. /\ t.bin \in [0 .. t.nmax - 1 -> Bins] /\ t.xyz \in [0 .. t.nmax - 1 -> Point]
      /\ L \subseteq 0 .. t.nmax - 1
  BY FittedIs
<1>3. \A k \in L : /\ u.xyz[k] = IF k = i THEN x ELSE t.xyz[k]
                   /\ u.bin[k] = IF k = i THEN Site2Bin(p, x) ELSE t.bin[k]
  BY <1>2
<1>4. \A k \in L : u.bin[k] = Site2Bin(p, u.xyz[k])
  BY <1>1, <1>3
<1>5. \A k \in L \ (0 .. u.nlocal - 1) : IsGhost(u.bin[k])
  BY <1>1, <1>3
<1> QED BY <1>1, <1>4, <1>5 DEF Fitted

(* A move with sectors.                                                    *)
LEMMA SectorMove ==
    ASSUME layout \in Layouts, Sectored, NEW p \in Proc, NEW s \in 0 .. layout.nsector - 1,
           NEW t, NEW K, Equipped(p, t, s, K), NEW i \in K, NEW d \in Moves,
           NEW x, x = Plus(t.xyz[i], d), NEW v, v = [t EXCEPT !.xyz[i] = x],
           NEW u, u = MoveInSector(p, v, i),
           NEW K2 \in SUBSET K, u.bin[i] # t.bin[i] /\ ~ InSector(p, s, x) => i \notin K2
    PROVE  Equipped(p, u, s, K2) /\ u.nlocal = t.nlocal /\ u.id = t.id
<1>1. PICK L, q : Fitted(p, t, L, q) /\ InReach(p, t, s, K) /\ ToTheEnd(t, q)
  BY DEF Equipped
<1>2. /\ t.nmax \in Nat /\ t \in TableOf(t.nmax, Bins) /\ L \subseteq 0 .. t.nmax - 1
      /\ t.bin \in [0 .. t.nmax - 1 -> Bins] /\ t.xyz \in [0 .. t.nmax - 1 -> Point]
  BY <1>1, FittedIs
<1>3. /\ 0 .. t.nlocal - 1 \subseteq L /\ Whole(t, L, q)
      /\ \A k \in L : t.bin[k] = Site2Bin(p, t.xyz[k])
  BY <1>1 DEF Fitted
<1>4. i \in 0 .. t.nlocal - 1 /\ InSide(p, s, t.xyz[i]) /\ i \in L
  BY <1>1, <1>3 DEF InReach
<1>5. i \in 0 .. t.nmax - 1 /\ t.xyz[i] \in Point
  BY <1>2, <1>4
<1> DEFINE b == Site2Bin(p, x)
<1>6. x \in Point /\ Close(p, x) /\ (IsGhost(b) => SectorGhost(s, b))
  BY <1>4, <1>5, MoveBin
<1>7. b \in Bins
  BY <1>6, SiteBinIs
<1>8. /\ v \in TableOf(t.nmax, Bins) /\ v.nmax = t.nmax /\ v.nlocal = t.nlocal /\ v.nghost = t.nghost
      /\ v.nfree = t.nfree /\ v.freehead = t.freehead
      /\ v.next = t.next /\ v.prev = t.prev /\ v.bin = t.bin /\ v.binhead = t.binhead
      /\ v.id = t.id /\ v.xyz = [t.xyz EXCEPT ![i] = x] /\ v.xyz[i] = x
  BY <1>2, <1>5, <1>6, MovedTo, SMTT(30)
<1>9. Whole(v, L, q) /\ ToTheEnd(v, q)
  <2>1. SameLinks(v, t)
    BY <1>8 DEF SameLinks
  <2> QED BY <1>1, <1>3, <2>1, WholeLinks
<1>10. /\ u \in TableOf(t.nmax, Bins) /\ RestKept(u, v) /\ u.bin = [t.bin EXCEPT ![i] = b]
       /\ Whole(u, L, q)
  <2>1. CASE b = v.bin[i]
    <3>1. u = v
      BY <1>8, <2>1 DEF MoveInSector
    <3>2. t.bin = [t.bin EXCEPT ![i] = b]
      BY <1>2, <1>8, <2>1
    <3>3. RestKept(v, v)
      BY DEF RestKept
    <3> QED BY <1>8, <1>9, <3>1, <3>2, <3>3
  <2>2. CASE b # v.bin[i]
    <3>1. u = Rebinned(v, i, b)
      BY <1>8, <2>2 DEF MoveInSector
    <3>2. Relisted(u, v, i, b)
      BY <3>1 DEF Rebinned, Relisted
    <3> HIDE DEF b
    <3>3. /\ u \in TableOf(t.nmax, Bins) /\ RestKept(u, v)
          /\ u.bin = [v.bin EXCEPT ![i] = b] /\ Whole(u, L, q)
      <4>1. t.nmax \in Nat /\ v \in TableOf(t.nmax, Bins) /\ Whole(v, L, q) /\ i \in L /\ b \in Bins
        BY <1>2, <1>4, <1>7, <1>8, <1>9
      <4>2. u \in TableOf(t.nmax, Bins) /\ Renewed(u, v, i, b) /\ Whole(u, L, q)
        BY <3>2, <4>1, RelistedWhole
      <4> QED BY <4>2 DEF Renewed
    <3> QED BY <1>8, <3>3
  <2> QED BY <2>1, <2>2
<1>11. /\ u.nmax = t.nmax /\ u.nlocal = t.nlocal /\ u.nghost = t.nghost /\ u.id = t.id
       /\ u.xyz = [t.xyz EXCEPT ![i] = x] /\ u \in SiteTables(Bins)
  BY <1>2, <1>8, <1>10, TableIn DEF RestKept
<1>12. Fitted(p, u, L, q)
  <2>1. /\ Fitted(p, t, L, q) /\ i \in 0 .. t.nlocal - 1 /\ u \in SiteTables(Bins)
        /\ u.nmax = t.nmax /\ Whole(u, L, q) /\ u.nlocal = t.nlocal /\ u.nghost = t.nghost
        /\ u.xyz = [t.xyz EXCEPT ![i] = x] /\ u.bin = [t.bin EXCEPT ![i] = Site2Bin(p, x)]
    BY <1>1, <1>4, <1>10, <1>11
  <2> HIDE DEF b
  <2> QED BY <2>1, MoveFitted
<1>13. ToTheEnd(u, q)
  BY <1>1, <1>11 DEF ToTheEnd
<1>14. \A k \in L : /\ u.xyz[k] = IF k = i THEN x ELSE t.xyz[k]
                    /\ u.bin[k] = IF k = i THEN b ELSE t.bin[k]
  <2> HIDE DEF b
  <2> QED BY <1>2, <1>10, <1>11
<1>15. InReach(p, u, s, K2)
  <2>1. ASSUME NEW k \in 0 .. u.nlocal - 1
        PROVE  Close(p, u.xyz[k]) /\ (IsGhost(u.bin[k]) => SectorGhost(s, u.bin[k]))
    <3>1. k \in 0 .. t.nlocal - 1 /\ k \in L
      BY <1>3, <1>11
    <3>2. Close(p, t.xyz[k]) /\ (IsGhost(t.bin[k]) => SectorGhost(s, t.bin[k]))
      BY <1>1, <3>1 DEF InReach
    <3> HIDE DEF b
    <3> QED BY <1>6, <1>14, <3>1, <3>2
  <2>2. ASSUME NEW k \in K2
        PROVE  k \in 0 .. u.nlocal - 1 /\ InSide(p, s, u.xyz[k])
    <3>1. k \in 0 .. t.nlocal - 1 /\ InSide(p, s, t.xyz[k])
      BY <1>1 DEF InReach
    <3>2. k \in L
      BY <1>3, <3>1
    <3>3. CASE k # i
      BY <1>11, <1>14, <3>1, <3>2, <3>3
    <3>4. CASE k = i
      <4>1. u.xyz[k] = x /\ u.bin[i] = b
        BY <1>14, <3>2, <3>4
      <4>2. CASE u.bin[i] = t.bin[i]
        <5>1. Site2Bin(p, x) = Site2Bin(p, t.xyz[i])
          BY <1>3, <1>4, <4>1, <4>2
        <5>2. InSide(p, s, x)
          BY <1>4, <1>5, <1>6, <5>1, StayBin
        <5> QED BY <1>11, <3>1, <4>1, <5>2
      <4>3. CASE u.bin[i] # t.bin[i]
        <5>1. InSector(p, s, x)
          BY <3>4, <4>3
        <5>2. InSide(p, s, x)
          BY <1>6, <5>1, SectorSide
        <5> QED BY <1>11, <3>1, <4>1, <5>2
      <4> QED BY <4>2, <4>3
    <3> QED BY <3>3, <3>4
  <2> QED BY <2>1, <2>2 DEF InReach
<1> QED BY <1>11, <1>12, <1>13, <1>15 DEF Equipped

(* The parts of DeleteImages and AddImages.                                *)
DropOne(t, u, j) == AddToFree(DeleteFromBin(u, j, t.bin[j]), j)
Dropped(t, i) ==
    LET Drop(u, j) == AddToFree(DeleteFromBin(u, j, t.bin[j]), j)
    IN  FoldLeft(Drop, t, Images(t, i))
NoImage(t, i) == [t EXCEPT !.nextimage[i] = Nil]
AddOne(p, i, u, g) == AddImage(u, i, Plus(u.xyz[i], Shift(p, g)), g)

(* What deleting one image preserves holds after all images of the site are*)
(* deleted.                                                                *)
LEMMA DropFold ==
    ASSUME NEW t, NEW i, NEW n \in Nat, DOMAIN Images(t, i) = 1 .. n,
           NEW V, t \in V[{}],
           \A T \in SUBSET (1 .. n) : T # {} =>
              \A v \in V[T \ {Max(T)}] : DropOne(t, v, Images(t, i)[Max(T)]) \in V[T]
    PROVE  Dropped(t, i) \in V[1 .. n]
<1> DEFINE Op(u, e) == DropOne(t, u, e)
           Eq(g) == g = [T \in SUBSET DOMAIN Images(t, i) |->
                           IF T = {} THEN t ELSE Op(g[T \ {Max(T)}], Images(t, i)[Max(T)])]
           G == CHOOSE g : Eq(g)
           Dom == (SUBSET (1 .. n)) \X UNION {V[T] : T \in SUBSET (1 .. n)}
           step == [c \in Dom |-> Op(c[2], Images(t, i)[Max(c[1])])]
<1>1. Dropped(t, i) = G[DOMAIN Images(t, i)]
  BY DEF Dropped, DropOne, FoldLeft, MapThenFoldSet
<1>2. \A T \in SUBSET (1 .. n) : T # {} =>
        \A u \in V[T \ {Max(T)}] : Op(u, Images(t, i)[Max(T)]) \in V[T]
  OBVIOUS
<1> HIDE DEF Op
<1>3. ASSUME NEW T \in SUBSET (1 .. n), NEW u \in V[T \ {Max(T)}]
      PROVE  step[<<T, u>>] = Op(u, Images(t, i)[Max(T)])
  <2>1. T \ {Max(T)} \in SUBSET (1 .. n)
    OBVIOUS
  <2>2. <<T, u>> \in Dom
    BY <2>1
  <2> HIDE DEF Dom
  <2> QED BY <2>2
<1> HIDE DEF step
<1>4. \E g : Eq(g)
  <2>1. \A T \in SUBSET (1 .. n) : T # {} =>
           \A u \in V[T \ {Max(T)}] : step[<<T, u>>] \in V[T]
    <3>1. SUFFICES ASSUME NEW T \in SUBSET (1 .. n), T # {}, NEW u \in V[T \ {Max(T)}]
                   PROVE  step[<<T, u>>] \in V[T]
      BY Zenon
    <3>2. step[<<T, u>>] = Op(u, Images(t, i)[Max(T)])
      BY <1>3, Zenon
    <3>3. Op(u, Images(t, i)[Max(T)]) \in V[T]
      BY <1>2, <3>1, Zenon
    <3> QED BY <3>2, <3>3
  <2>2. PICK g : /\ FoldsTo(g, t, n, step)
                 /\ \A T \in SUBSET (1 .. n) : g[T] \in V[T]
    BY <2>1, FoldTable, Zenon
  <2>3. ASSUME NEW T \in SUBSET (1 .. n)
        PROVE  g[T] = IF T = {} THEN t ELSE Op(g[T \ {Max(T)}], Images(t, i)[Max(T)])
    <3>1. g[T] = IF T = {} THEN t ELSE step[<<T, g[T \ {Max(T)}]>>]
      BY <2>2 DEF FoldsTo
    <3>2. T \ {Max(T)} \in SUBSET (1 .. n)
      OBVIOUS
    <3>3. g[T \ {Max(T)}] \in V[T \ {Max(T)}]
      BY <2>2, <3>2, Zenon
    <3>4. step[<<T, g[T \ {Max(T)}]>>] = Op(g[T \ {Max(T)}], Images(t, i)[Max(T)])
      BY <1>3, <3>3, Zenon
    <3> QED BY <3>1, <3>4, Zenon
  <2>4. g = [T \in SUBSET (1 .. n) |-> g[T]]
    BY <2>2 DEF FoldsTo
  <2> QED BY <2>3, <2>4
<1>5. Eq(G)
  BY <1>4
<1> HIDE DEF G
<1>6. ASSUME NEW T \in SUBSET (1 .. n), T # {} => G[T \ {Max(T)}] \in V[T \ {Max(T)}]
      PROVE  G[T] \in V[T]
  <2>1. G[T] = IF T = {} THEN t ELSE Op(G[T \ {Max(T)}], Images(t, i)[Max(T)])
    BY <1>5
  <2>2. CASE T = {}
    BY <2>1, <2>2, Zenon
  <2>3. CASE T # {}
    <3>1. Op(G[T \ {Max(T)}], Images(t, i)[Max(T)]) \in V[T]
      BY <1>2, <1>6, <2>3, Zenon
    <3> QED BY <2>1, <2>3, <3>1
  <2> QED BY <2>2, <2>3
<1>7. G[1 .. n] \in V[1 .. n]
  BY <1>6, FoldValues, Zenon
<1> QED BY <1>1, <1>7

(* What adding one image preserves holds after all images of the site are  *)
(* added.                                                                  *)
LEMMA ImagesFold ==
    ASSUME NEW p, NEW t, NEW i, NEW b, NEW n \in Nat, DOMAIN ImageBins(b) = 1 .. n,
           NEW V, NoImage(t, i) \in V[{}],
           \A T \in SUBSET (1 .. n) : T # {} =>
              \A v \in V[T \ {Max(T)}] : AddOne(p, i, v, ImageBins(b)[Max(T)]) \in V[T]
    PROVE  AddImages(p, t, i, b) \in V[1 .. n]
<1> DEFINE Op(u, e) == AddOne(p, i, u, e)
           Eq(g) == g = [T \in SUBSET DOMAIN ImageBins(b) |->
                           IF T = {} THEN NoImage(t, i) ELSE Op(g[T \ {Max(T)}], ImageBins(b)[Max(T)])]
           G == CHOOSE g : Eq(g)
           Dom == (SUBSET (1 .. n)) \X UNION {V[T] : T \in SUBSET (1 .. n)}
           step == [c \in Dom |-> Op(c[2], ImageBins(b)[Max(c[1])])]
<1>1. AddImages(p, t, i, b) = G[DOMAIN ImageBins(b)]
  BY DEF AddImages, AddOne, NoImage, FoldLeft, MapThenFoldSet
<1>2. \A T \in SUBSET (1 .. n) : T # {} =>
        \A u \in V[T \ {Max(T)}] : Op(u, ImageBins(b)[Max(T)]) \in V[T]
  OBVIOUS
<1> HIDE DEF Op
<1>3. ASSUME NEW T \in SUBSET (1 .. n), NEW u \in V[T \ {Max(T)}]
      PROVE  step[<<T, u>>] = Op(u, ImageBins(b)[Max(T)])
  <2>1. T \ {Max(T)} \in SUBSET (1 .. n)
    OBVIOUS
  <2>2. <<T, u>> \in Dom
    BY <2>1
  <2> HIDE DEF Dom
  <2> QED BY <2>2
<1> HIDE DEF step
<1>4. \E g : Eq(g)
  <2>1. \A T \in SUBSET (1 .. n) : T # {} =>
           \A u \in V[T \ {Max(T)}] : step[<<T, u>>] \in V[T]
    <3>1. SUFFICES ASSUME NEW T \in SUBSET (1 .. n), T # {}, NEW u \in V[T \ {Max(T)}]
                   PROVE  step[<<T, u>>] \in V[T]
      BY Zenon
    <3>2. step[<<T, u>>] = Op(u, ImageBins(b)[Max(T)])
      BY <1>3, Zenon
    <3>3. Op(u, ImageBins(b)[Max(T)]) \in V[T]
      BY <1>2, <3>1, Zenon
    <3> QED BY <3>2, <3>3
  <2>2. PICK g : /\ FoldsTo(g, NoImage(t, i), n, step)
                 /\ \A T \in SUBSET (1 .. n) : g[T] \in V[T]
    BY <2>1, FoldTable, Zenon
  <2>3. ASSUME NEW T \in SUBSET (1 .. n)
        PROVE  g[T] = IF T = {} THEN NoImage(t, i) ELSE Op(g[T \ {Max(T)}], ImageBins(b)[Max(T)])
    <3>1. g[T] = IF T = {} THEN NoImage(t, i) ELSE step[<<T, g[T \ {Max(T)}]>>]
      BY <2>2 DEF FoldsTo
    <3>2. T \ {Max(T)} \in SUBSET (1 .. n)
      OBVIOUS
    <3>3. g[T \ {Max(T)}] \in V[T \ {Max(T)}]
      BY <2>2, <3>2, Zenon
    <3>4. step[<<T, g[T \ {Max(T)}]>>] = Op(g[T \ {Max(T)}], ImageBins(b)[Max(T)])
      BY <1>3, <3>3, Zenon
    <3> QED BY <3>1, <3>4, Zenon
  <2>4. g = [T \in SUBSET (1 .. n) |-> g[T]]
    BY <2>2 DEF FoldsTo
  <2> QED BY <2>3, <2>4
<1>5. Eq(G)
  BY <1>4
<1> HIDE DEF G
<1>6. ASSUME NEW T \in SUBSET (1 .. n), T # {} => G[T \ {Max(T)}] \in V[T \ {Max(T)}]
      PROVE  G[T] \in V[T]
  <2>1. G[T] = IF T = {} THEN NoImage(t, i) ELSE Op(G[T \ {Max(T)}], ImageBins(b)[Max(T)])
    BY <1>5
  <2>2. CASE T = {}
    BY <2>1, <2>2, Zenon
  <2>3. CASE T # {}
    <3>1. Op(G[T \ {Max(T)}], ImageBins(b)[Max(T)]) \in V[T]
      BY <1>2, <1>6, <2>3, Zenon
    <3> QED BY <2>1, <2>3, <3>1
  <2> QED BY <2>2, <2>3
<1>7. G[1 .. n] \in V[1 .. n]
  BY <1>6, FoldValues, Zenon
<1> QED BY <1>1, <1>7

(* Following the chain of a site gives its images.                         *)
LEMMA ImagesAre ==
    ASSUME NEW p, NEW t, NEW L, NEW q, Fitted(p, t, L, q), NEW im, NEW at, Imaged(t, L, im, at),
           NEW i \in 0 .. t.nlocal - 1
    PROVE  Images(t, i) = im[i]
<1> DEFINE v == [t EXCEPT !.next = t.nextimage]
<1>1. /\ t.nmax \in Nat /\ t \in TableOf(t.nmax, Bins) /\ L \subseteq 0 .. t.nmax - 1
      /\ t.nextimage \in [0 .. t.nmax - 1 -> Int]
  BY FittedIs
<1>2. v.nmax = t.nmax /\ v.next = t.nextimage
  BY <1>1 DEF TableOf
<1>3. im[i] \in Seq(L \ (0 .. t.nlocal - 1)) /\ Distinct(im[i])
      /\ RunsDown(t.nextimage, t.nextimage[i], im[i])
  BY DEF Imaged
<1>4. im[i] \in Seq(0 .. t.nmax - 1)
  <2>1. Elements(im[i]) \subseteq 0 .. t.nmax - 1
    <3> DEFINE E == L \ (0 .. t.nlocal - 1)
    <3>1. im[i] \in Seq(E) /\ E \subseteq 0 .. t.nmax - 1
      BY <1>1, <1>3
    <3> HIDE DEF E
    <3>2. Elements(im[i]) \subseteq E
      BY <3>1, ElementsIn
    <3> QED BY <3>1, <3>2
  <2> QED BY <1>3, <2>1, SeqIn
<1>5. Images(t, i) = Chain(v, t.nextimage[i])
  BY DEF Images
<1> HIDE DEF v
<1>6. v.nmax \in Nat /\ v.next \in [0 .. v.nmax - 1 -> Int] /\ im[i] \in Seq(0 .. v.nmax - 1)
      /\ RunsDown(v.next, t.nextimage[i], im[i])
  BY <1>1, <1>2, <1>3, <1>4
<1>7. Chain(v, t.nextimage[i]) = im[i]
  BY <1>3, <1>6, ChainIs
<1> QED BY <1>5, <1>7

DropOf(u, t, j) == u = AddToFree(DeleteFromBin(t, j, t.bin[j]), j)
HasDropped(u, t, n, Places, L, q, j) ==
    /\ u \in TableOf(n, Places) /\ Whole(u, L \ {j}, <<j>> \o q)
    /\ Same(u, t, L \ {j}) /\ u.nlocal = t.nlocal /\ u.nghost = t.nghost - 1

(* Deleting an image keeps the table whole.                                *)
LEMMA DropOfWhole ==
    ASSUME NEW n \in Nat, NEW Places, NoPlace \in Places, NEW t \in TableOf(n, Places),
           NEW L, NEW q, Whole(t, L, q), NEW j \in L, NEW u, DropOf(u, t, j)
    PROVE  HasDropped(u, t, n, Places, L, q, j)
BY DropWhole DEF DropOf, HasDropped

(* A ghost less.                                                           *)
SameSites(u, t, K) ==
    \A k \in K : u.id[k] = t.id[k] /\ u.xyz[k] = t.xyz[k] /\ u.bin[k] = t.bin[k]
FittedTo(p, u, t, M) ==
    /\ \E q : Fitted(p, u, M, q)
    /\ u.nlocal = t.nlocal /\ Same(u, t, M) /\ u.nmax = t.nmax

(* Deleting an image keeps the table fitted.                               *)
LEMMA FittedDrop ==
    ASSUME layout \in Layouts, NEW p, NEW t, NEW L, NEW q, Fitted(p, t, L, q),
           NEW j \in L \ (0 .. t.nlocal - 1),
           NEW u, DropOf(u, t, j)
    PROVE  FittedTo(p, u, t, L \ {j})
<1> DEFINE Own == 0 .. t.nlocal - 1
<1>1. t.nmax \in Nat /\ t \in TableOf(t.nmax, Bins) /\ IsFiniteSet(L \ Own) /\ t.nlocal \in Int
  BY FittedIs
<1>2. /\ t.nlocal \in 0 .. t.nmax /\ Own \subseteq L /\ Whole(t, L, q)
      /\ t.nghost = Cardinality(L \ Own)
      /\ \A k \in L : t.bin[k] = Site2Bin(p, t.xyz[k])
      /\ \A k \in L \ Own : IsGhost(t.bin[k])
  BY DEF Fitted
<1>3. NoPlace \in Bins
  <2>1. NBinX \in Nat \ {0} /\ NBinY \in Nat \ {0}
    BY GridIs DEF Axis
  <2> QED BY <2>1 DEF NoPlace, Bins
<1>4. j \in L /\ j \notin Own
  OBVIOUS
<1> HIDE DEF Own
<1>5. /\ u \in TableOf(t.nmax, Bins) /\ Whole(u, L \ {j}, <<j>> \o q)
      /\ Same(u, t, L \ {j}) /\ u.nlocal = t.nlocal /\ u.nghost = t.nghost - 1
  <2>1. HasDropped(u, t, t.nmax, Bins, L, q, j)
    BY <1>1, <1>2, <1>3, <1>4, DropOfWhole
  <2> QED BY <2>1 DEF HasDropped
<1>6. u \in SiteTables(Bins) /\ u.nmax = t.nmax
  BY <1>1, <1>5, TableIn
<1>7. (L \ {j}) \ Own = (L \ Own) \ {j} /\ j \in L \ Own /\ Own \subseteq L \ {j}
  BY <1>2, <1>4
<1>8. Cardinality((L \ {j}) \ Own) = Cardinality(L \ Own) - 1
  <2> DEFINE X == L \ Own
  <2>1. IsFiniteSet(X) /\ j \in X
    BY <1>1, <1>7
  <2> HIDE DEF X
  <2>2. Cardinality(X \ {j}) = Cardinality(X) - 1
    BY <2>1, FS_RemoveElement
  <2> QED BY <1>7, <2>2 DEF X
<1>9. \A k \in L \ {j} : u.bin[k] = Site2Bin(p, u.xyz[k])
  BY <1>2, <1>5 DEF Same
<1>10. \A k \in (L \ {j}) \ Own : IsGhost(u.bin[k])
  BY <1>2, <1>5 DEF Same
<1>11. Fitted(p, u, L \ {j}, <<j>> \o q)
  BY <1>2, <1>5, <1>6, <1>7, <1>8, <1>9, <1>10 DEF Fitted, Own
<1> QED BY <1>5, <1>6, <1>11 DEF FittedTo

DroppedTo(p, t, u, M) ==
    /\ u \in SiteTables(Bins) /\ u.nlocal = t.nlocal /\ Same(u, t, M)
    /\ \E q : Fitted(p, u, M, q)

(* After the images of a site are deleted the others are as they were.     *)
LEMMA DroppedIs ==
    ASSUME layout \in Layouts, NEW p, NEW t, NEW L, NEW q, Fitted(p, t, L, q),
           NEW im, NEW at, Imaged(t, L, im, at), NEW i \in 0 .. t.nlocal - 1
    PROVE  DroppedTo(p, t, Dropped(t, i), L \ Elements(im[i]))
<1> DEFINE r == Images(t, i)
           n == Len(r)
           M(T) == L \ {r[k] : k \in T}
           V == [T \in SUBSET (1 .. n) |-> {u \in SiteTables(Bins) : DroppedTo(p, t, u, M(T))}]
<1>1. r = im[i]
  BY ImagesAre
<1>2. r \in Seq(L \ (0 .. t.nlocal - 1)) /\ Distinct(r)
  BY <1>1 DEF Imaged
<1> HIDE DEF r
<1>3. n \in Nat /\ DOMAIN r = 1 .. n /\ \A k \in 1 .. n : r[k] \in L \ (0 .. t.nlocal - 1)
  BY <1>2
<1>4. t \in V[{}]
  <2>1. M({}) = L
    OBVIOUS
  <2>2. t \in SiteTables(Bins)
    BY DEF Fitted
  <2>3. DroppedTo(p, t, t, L)
    BY <2>2 DEF DroppedTo, Same
  <2> HIDE DEF M
  <2> QED BY <2>1, <2>2, <2>3
<1>5. \A T \in SUBSET (1 .. n) : T # {} =>
         \A v \in V[T \ {Max(T)}] : DropOne(t, v, r[Max(T)]) \in V[T]
  <2>1. SUFFICES ASSUME NEW T \in SUBSET (1 .. n), T # {}, NEW v \in V[T \ {Max(T)}]
                 PROVE  DropOne(t, v, r[Max(T)]) \in V[T]
    BY Zenon
  <2> DEFINE m == Max(T)
             j == r[m]
             u == DropOne(t, v, j)
  <2>2. m \in T
    BY <1>3, <2>1, MaxOf
  <2>3. v \in SiteTables(Bins) /\ DroppedTo(p, t, v, M(T \ {m}))
    <3>1. T \ {m} \in SUBSET (1 .. n)
      OBVIOUS
    <3> HIDE DEF m, M
    <3> QED BY <3>1 DEF m
  <2> HIDE DEF m
  <2>4. j \in L \ (0 .. t.nlocal - 1)
    BY <1>3, <2>2
  <2>5. j \in M(T \ {m}) /\ M(T \ {m}) \ {j} = M(T)
    <3>1. \A k \in T \ {m} : r[k] # j
      <4>1. SUFFICES ASSUME NEW k \in T \ {m}, r[k] = r[m] PROVE FALSE
        OBVIOUS
      <4>2. k \in 1 .. n /\ m \in 1 .. n
        BY <2>2
      <4> QED BY <1>2, <4>1, <4>2 DEF Distinct
    <3> QED BY <2>2, <2>4, <3>1
  <2> HIDE DEF j, M
  <2>6. PICK q1 : Fitted(p, v, M(T \ {m}), q1)
    BY <2>3 DEF DroppedTo
  <2>7. v.nlocal = t.nlocal /\ Same(v, t, M(T \ {m}))
    BY <2>3 DEF DroppedTo
  <2>8. j \in M(T \ {m}) \ (0 .. v.nlocal - 1)
    BY <2>4, <2>5, <2>7
  <2>9. DropOf(u, v, j)
    BY <2>5, <2>7 DEF DropOne, Same, DropOf
  <2> HIDE DEF u
  <2>10. /\ \E q2 : Fitted(p, u, M(T), q2)
         /\ u.nlocal = v.nlocal /\ Same(u, v, M(T))
    <3> DEFINE LL == M(T \ {m})
    <3>1. Fitted(p, v, LL, q1) /\ j \in LL \ (0 .. v.nlocal - 1) /\ LL \ {j} = M(T)
      BY <2>5, <2>6, <2>8
    <3> HIDE DEF LL
    <3>2. FittedTo(p, u, v, LL \ {j})
      BY <2>9, <3>1, FittedDrop
    <3> QED BY <3>1, <3>2 DEF FittedTo
  <2>11. Same(u, t, M(T))
    <3>1. M(T) \subseteq M(T \ {m})
      BY <2>5
    <3> QED BY <2>7, <2>10, <3>1 DEF Same
  <2>12. u \in SiteTables(Bins)
    BY <2>10 DEF Fitted
  <2>13. DroppedTo(p, t, u, M(T))
    BY <2>7, <2>10, <2>11, <2>12 DEF DroppedTo
  <2> QED BY <2>12, <2>13 DEF u, j, m
<1> HIDE DEF V, n
<1>6. Dropped(t, i) \in V[1 .. n]
  BY <1>3, <1>4, <1>5, DropFold DEF r
<1>7. DroppedTo(p, t, Dropped(t, i), M(1 .. n))
  BY <1>6 DEF V
<1>8. M(1 .. n) = L \ Elements(im[i])
  BY <1>1 DEF Elements, n
<1> QED BY <1>7, <1>8

Unimaged(v, t, n, i) ==
    /\ v \in TableOf(n, Bins) /\ v.nlocal = t.nlocal /\ v.nghost = t.nghost
    /\ v.id = t.id /\ v.xyz = t.xyz /\ v.bin = t.bin
    /\ SameLinks(v, t) /\ v.nextimage = [t.nextimage EXCEPT ![i] = Nil]

(* What clearing the chain of a site changes.                              *)
LEMMA NoImageIs ==
    ASSUME NEW n \in Nat, NEW t \in TableOf(n, Bins), NEW i \in 0 .. n - 1,
           NEW v, v = NoImage(t, i)
    PROVE  Unimaged(v, t, n, i)
<1> DEFINE d == [t.nextimage EXCEPT ![i] = Nil]
<1>1. t.nextimage \in [0 .. n - 1 -> Int] /\ Nil \in Int
  BY DEF TableOf, Nil
<1>2. d \in [0 .. n - 1 -> Int]
  BY <1>1
<1>3. v = [t EXCEPT !.nextimage = d]
  BY DEF NoImage
<1> HIDE DEF d
<1>4. /\ v \in TableOf(n, Bins) /\ v.nextimage = d
  BY <1>2, <1>3 DEF TableOf
<1>5. /\ v.nlocal = t.nlocal /\ v.nghost = t.nghost
      /\ v.id = t.id /\ v.xyz = t.xyz /\ v.bin = t.bin
  BY <1>3 DEF TableOf
<1>6. SameLinks(v, t)
  BY <1>3 DEF TableOf, SameLinks
<1> QED BY <1>4, <1>5, <1>6 DEF d, Unimaged

(* Clearing the chain of a site keeps the table fitted.                    *)
LEMMA NoImageFitted ==
    ASSUME NEW p, NEW t, NEW L, NEW q, Fitted(p, t, L, q), NEW i \in 0 .. t.nlocal - 1,
           NEW v, v = NoImage(t, i)
    PROVE  Fitted(p, v, L, q)
<1>1. /\ t.nmax \in Nat /\ t \in TableOf(t.nmax, Bins) /\ L \subseteq 0 .. t.nmax - 1
  BY FittedIs
<1>2. /\ t.nlocal \in 0 .. t.nmax
      /\ 0 .. t.nlocal - 1 \subseteq L /\ Whole(t, L, q)
      /\ t.nghost = Cardinality(L \ (0 .. t.nlocal - 1))
      /\ \A k \in L : t.bin[k] = Site2Bin(p, t.xyz[k])
      /\ \A k \in L \ (0 .. t.nlocal - 1) : IsGhost(t.bin[k])
  BY DEF Fitted
<1>3. i \in 0 .. t.nmax - 1
  BY <1>1, <1>2
<1>4. /\ v \in TableOf(t.nmax, Bins) /\ v.nlocal = t.nlocal /\ v.nghost = t.nghost
      /\ v.id = t.id /\ v.xyz = t.xyz /\ v.bin = t.bin /\ SameLinks(v, t)
  <2>1. Unimaged(v, t, t.nmax, i)
    BY <1>1, <1>3, NoImageIs
  <2> QED BY <2>1 DEF Unimaged
<1>5. Whole(v, L, q)
  BY <1>2, <1>4, WholeLinks
<1>6. v \in SiteTables(Bins) /\ v.nmax = t.nmax
  BY <1>1, <1>4, TableIn
<1> QED BY <1>2, <1>4, <1>5, <1>6 DEF Fitted

(* The site has no images.                                                 *)
Cleared(p, u, t, i, at) ==
    /\ u \in SiteTables(Bins) /\ u.nlocal = t.nlocal /\ SameSites(u, t, 0 .. t.nlocal - 1)
    /\ \E L, q, im : Fitted(p, u, L, q) /\ Imaged(u, L, im, at) /\ Elements(im[i]) = {}

(* delete_images() removes the images of the site and only these.          *)
LEMMA DeletedIs ==
    ASSUME layout \in Layouts, NEW p, NEW t, NEW L, NEW q, Fitted(p, t, L, q),
           NEW im, NEW at, Imaged(t, L, im, at), NEW i \in 0 .. t.nlocal - 1
    PROVE  Cleared(p, DeleteImages(t, i), t, i, at)
<1> DEFINE Own == 0 .. t.nlocal - 1
           w == Dropped(t, i)
           u == DeleteImages(t, i)
           M == L \ Elements(im[i])
           im2 == [k \in Own |-> IF k = i THEN <<>> ELSE im[k]]
<1>1. u = NoImage(w, i)
  BY DEF DeleteImages, Dropped, NoImage
<1>2. DroppedTo(p, t, w, M)
  BY DroppedIs
<1> HIDE DEF w, u
<1>3. w \in SiteTables(Bins) /\ w.nlocal = t.nlocal /\ Same(w, t, M)
  BY <1>2 DEF DroppedTo
<1>4. PICK q2 : Fitted(p, w, M, q2)
  BY <1>2 DEF DroppedTo
<1>5. Fitted(p, u, M, q2)
  BY <1>1, <1>3, <1>4, NoImageFitted
<1>6. w.nmax \in Nat /\ w \in TableOf(w.nmax, Bins) /\ w.nlocal \in 0 .. w.nmax /\ Own \subseteq M
      /\ M \subseteq 0 .. w.nmax - 1 /\ w.nextimage \in [0 .. w.nmax - 1 -> Int]
  <2>1. /\ w.nmax \in Nat /\ w \in TableOf(w.nmax, Bins) /\ M \subseteq 0 .. w.nmax - 1
        /\ w.nextimage \in [0 .. w.nmax - 1 -> Int]
    BY <1>4, FittedIs
  <2>2. w.nlocal \in 0 .. w.nmax /\ 0 .. w.nlocal - 1 \subseteq M
    BY <1>4, Zenon DEF Fitted
  <2> QED BY <1>3, <2>1, <2>2
<1>7. /\ u \in TableOf(w.nmax, Bins) /\ u.nlocal = w.nlocal
      /\ u.id = w.id /\ u.xyz = w.xyz /\ u.bin = w.bin
      /\ u.nextimage = [w.nextimage EXCEPT ![i] = Nil]
  <2>1. Unimaged(u, w, w.nmax, i)
    <3>1. i \in 0 .. w.nmax - 1
      BY <1>6
    <3> QED BY <1>1, <1>6, <3>1, NoImageIs
  <2> QED BY <2>1 DEF Unimaged
<1>8. SameSites(u, t, Own)
  BY <1>3, <1>6, <1>7 DEF Same, SameSites
<1>9. /\ \A k \in M : u.bin[k] = t.bin[k]
      /\ \A k \in M \ {i} : u.nextimage[k] = t.nextimage[k]
      /\ u.nextimage[i] = Nil
  <2> HIDE DEF M
  <2> QED BY <1>3, <1>6, <1>7 DEF Same
<1>10. /\ \A k \in Own : /\ im[k] \in Seq(L \ Own) /\ Distinct(im[k])
                         /\ RunsDown(t.nextimage, t.nextimage[k], im[k])
                         /\ \A j \in Elements(im[k]) : GhostIndex(t.bin[j]) = at[k]
       /\ \A j, k \in Own : j # k => Elements(im[j]) \cap Elements(im[k]) = {}
  BY DEF Imaged
<1>11. i \in Own /\ Own \subseteq M
  BY <1>6
<1>12. u.nlocal = t.nlocal /\ 0 .. t.nlocal - 1 = Own
  BY <1>3, <1>7
<1> HIDE DEF Own
<1>13. Elements(<<>>) = {}
  BY DEF Elements
<1>14. ASSUME NEW k \in Own
       PROVE  /\ im2[k] \in Seq(M \ Own) /\ Distinct(im2[k])
              /\ RunsDown(u.nextimage, u.nextimage[k], im2[k])
              /\ \A j \in Elements(im2[k]) : GhostIndex(u.bin[j]) = at[k]
  <2>1. CASE k = i
    <3>1. im2[k] = <<>>
      BY <2>1
    <3> HIDE DEF im2
    <3> QED BY <1>9, <1>13, <2>1, <3>1 DEF Distinct, RunsDown
  <2>2. CASE k # i
    <3>1. im2[k] = im[k]
      BY <2>2
    <3> HIDE DEF im2
    <3>2. Elements(im[k]) \cap Elements(im[i]) = {}
      BY <1>10, <1>11, <2>2
    <3> DEFINE E == L \ Own
    <3>3. im[k] \in Seq(E) /\ Distinct(im[k]) /\ RunsDown(t.nextimage, t.nextimage[k], im[k])
          /\ \A j \in Elements(im[k]) : GhostIndex(t.bin[j]) = at[k]
      BY <1>10
    <3> HIDE DEF E
    <3>4. Elements(im[k]) \subseteq E
      BY <3>3, ElementsIn
    <3>5. Elements(im[k]) \subseteq M \ Own
      BY <3>2, <3>4 DEF E
    <3>6. im[k] \in Seq(M \ Own)
      BY <3>3, <3>5, SeqIn
    <3>7. \A j \in Elements(im[k]) : u.nextimage[j] = t.nextimage[j]
      BY <1>9, <1>11, <3>5
    <3>8. u.nextimage[k] = t.nextimage[k]
      BY <1>9, <1>11, <2>2
    <3>9. RunsDown(u.nextimage, t.nextimage[k], im[k])
      BY <3>3, <3>7, RunsSame
    <3>10. \A j \in Elements(im[k]) : GhostIndex(u.bin[j]) = at[k]
      BY <1>9, <3>3, <3>5
    <3> QED BY <3>1, <3>3, <3>6, <3>8, <3>9, <3>10
  <2> QED BY <2>1, <2>2
<1>15. ASSUME NEW j \in Own, NEW k \in Own, j # k
       PROVE  Elements(im2[j]) \cap Elements(im2[k]) = {}
  <2>1. CASE j = i
    BY <1>13, <2>1
  <2>2. CASE k = i
    BY <1>13, <2>2
  <2>3. CASE j # i /\ k # i
    <3>1. im2[j] = im[j] /\ im2[k] = im[k]
      BY <2>3
    <3> QED BY <1>10, <1>15, <3>1
  <2> QED BY <2>1, <2>2, <2>3
<1>16. Elements(im2[i]) = {}
  <2>1. im2[i] = <<>>
    BY <1>11
  <2> QED BY <1>13, <2>1
<1> HIDE DEF im2, M
<1>17. Imaged(u, M, im2, at)
  BY <1>12, <1>14, <1>15 DEF Imaged
<1>18. u \in SiteTables(Bins)
  BY <1>5 DEF Fitted
<1>19. Cleared(p, u, t, i, at)
  BY <1>5, <1>8, <1>12, <1>16, <1>17, <1>18 DEF Cleared
<1> QED BY <1>19 DEF u

(* The ghost bins that stand for one bin.                                  *)
LEMMA ImageBinsAre ==
    ASSUME layout \in Layouts, NEW b
    PROVE  ImageBins(b) \in Seq({g \in GhostBins : GhostIndex(g) = b})
<1> DEFINE E == {g \in GhostBins : GhostIndex(g) = b}
<1>1. BinList \in Seq(Bins)
  BY BinListIs
<1>2. ImageBins(b) = Among(BinList, E)
  BY DEF ImageBins
<1> HIDE DEF E
<1>3. /\ ImageBins(b) \in Seq(Bins)
      /\ Elements(ImageBins(b)) = Elements(BinList) \cap E
  BY <1>1, <1>2, AmongIs
<1>4. ImageBins(b) \in Seq(E)
  BY <1>3, SeqIn
<1> QED BY <1>4 DEF E

(* A table with more images; the owned sites are as they were.             *)
Carried(p, u, t) ==
    /\ u \in SiteTables(Bins) /\ u.nlocal = t.nlocal /\ SameSites(u, t, 0 .. t.nlocal - 1)
    /\ \E L, q, im : Fitted(p, u, L, q) /\ Imaged(u, L, im, t.bin)

(* One more image of a site.                                               *)
LEMMA AddOneIs ==
    ASSUME layout \in Layouts, ~ Sectored, NEW p \in Proc, NEW t,
           NEW i \in 0 .. t.nlocal - 1, NEW u, Carried(p, u, t),
           NEW g \in GhostBins, GhostIndex(g) = t.bin[i]
    PROVE  Carried(p, AddOne(p, i, u, g), t)
<1> DEFINE x == Plus(u.xyz[i], Shift(p, g))
           w == AddOne(p, i, u, g)
<1>1. PICK L, q, im : Fitted(p, u, L, q) /\ Imaged(u, L, im, t.bin)
  BY DEF Carried
<1>2. /\ u \in SiteTables(Bins) /\ u.nlocal = t.nlocal /\ SameSites(u, t, 0 .. t.nlocal - 1)
  BY DEF Carried
<1>3. /\ u.nmax \in Nat /\ u \in TableOf(u.nmax, Bins) /\ L \subseteq 0 .. u.nmax - 1
      /\ u.xyz \in [0 .. u.nmax - 1 -> Point] /\ u.id \in [0 .. u.nmax - 1 -> Nat]
  BY <1>1, FittedIs
<1>4. /\ 0 .. u.nlocal - 1 \subseteq L /\ Whole(u, L, q)
      /\ \A k \in L : u.bin[k] = Site2Bin(p, u.xyz[k])
  BY <1>1 DEF Fitted
<1>5. i \in L /\ i \in 0 .. u.nlocal - 1 /\ i \in 0 .. u.nmax - 1
  BY <1>2, <1>3, <1>4
<1>6. u.xyz[i] \in Point /\ u.id[i] \in Nat
  BY <1>3, <1>5
<1>7. u.bin[i] = t.bin[i]
  BY <1>2, <1>5 DEF SameSites
<1>8. Site2Bin(p, u.xyz[i]) = GhostIndex(g)
  BY <1>4, <1>5, <1>7
<1>9. g \in Bins /\ IsGhost(g)
  BY GhostBinIs
<1>10. p = NeighProc(p, -1, g)
  <2>1. Proc = {0}
    BY ProcCount
  <2>2. NeighProc(p, -1, g) \in Proc
    BY <1>9, NeighIs
  <2> QED BY <2>1, <2>2
<1>11. x \in Point /\ Site2Bin(p, x) = g
  BY <1>6, <1>8, <1>9, <1>10, CopyBin
<1>12. NoPlace \in Bins
  <2>1. NBinX \in Nat \ {0} /\ NBinY \in Nat \ {0}
    BY GridIs DEF Axis
  <2> QED BY <2>1 DEF NoPlace, Bins
<1>13. w = AddImage(u, i, x, g)
  BY DEF AddOne
<1> HIDE DEF w, x
<1>14. PICK j, q2 :
         /\ w \in SiteTables(Bins) /\ w.nlocal = u.nlocal /\ w.nghost = u.nghost + 1
         /\ Obtained(w, u, L, q, j, u.id[i], x, g, q2)
         /\ \A k \in L \ {i} : w.nextimage[k] = u.nextimage[k]
         /\ w.nextimage[i] = j /\ w.nextimage[j] = u.nextimage[i]
  <2>1. /\ w \in SiteTables(Bins) /\ w.nlocal = u.nlocal /\ w.nghost = u.nghost + 1
        /\ \A k \in L \ {i} : w.nextimage[k] = u.nextimage[k]
        /\ w.nextimage[i] = WithFreeSlot(u).freehead
        /\ w.nextimage[WithFreeSlot(u).freehead] = u.nextimage[i]
        /\ \E q2 : Obtained(w, u, L, q, WithFreeSlot(u).freehead, u.id[i], x, g, q2)
    <3>1. x \in Int \X Int
      BY <1>11 DEF Point
    <3> QED BY <1>3, <1>4, <1>5, <1>9, <1>12, <1>13, <3>1, AddImageWhole
  <2> QED BY <2>1
<1>15. Fitted(p, w, L \cup {j}, q2)
  BY <1>1, <1>9, <1>11, <1>14, FittedAdd
<1>16. /\ j \notin L /\ w.bin[j] = g
       /\ \A k \in L : w.id[k] = u.id[k] /\ w.xyz[k] = u.xyz[k] /\ w.bin[k] = u.bin[k]
  BY <1>14 DEF Obtained
<1>17. \E im2 : Imaged(w, L \cup {j}, im2, t.bin)
  <2>1. i \in 0 .. u.nlocal - 1 /\ GhostIndex(w.bin[j]) = t.bin[i]
    BY <1>5, <1>16
  <2>2. /\ \A k \in L \ {i} : w.nextimage[k] = u.nextimage[k]
        /\ w.nextimage[i] = j /\ w.nextimage[j] = u.nextimage[i]
    BY <1>14
  <2>3. w.nlocal = u.nlocal /\ \A k \in L : w.bin[k] = u.bin[k]
    BY <1>14, <1>16
  <2> QED BY <1>1, <1>4, <1>16, <2>1, <2>2, <2>3, ImagedAdd
<1>18. SameSites(w, t, 0 .. t.nlocal - 1)
  <2>1. \A k \in 0 .. t.nlocal - 1 : k \in L
    BY <1>2, <1>4
  <2> QED BY <1>2, <1>16, <2>1 DEF SameSites
<1>19. Carried(p, w, t)
  BY <1>2, <1>14, <1>15, <1>17, <1>18 DEF Carried
<1> QED BY <1>19 DEF w

(* add_images() for a site that has none, in its bin.                      *)
LEMMA AddedImagesAre ==
    ASSUME layout \in Layouts, ~ Sectored, NEW p \in Proc, NEW t, NEW i \in 0 .. t.nlocal - 1,
           NEW L, NEW q, Fitted(p, t, L, q), NEW im, Imaged(t, L, im, t.bin),
           Elements(im[i]) = {}, NEW b, b = t.bin[i]
    PROVE  Carried(p, AddImages(p, t, i, b), t)
<1> DEFINE r == ImageBins(b)
           n == Len(r)
           V == [T \in SUBSET (1 .. n) |-> {u \in SiteTables(Bins) : Carried(p, u, t)}]
           E == {g \in GhostBins : GhostIndex(g) = b}
<1>1. r \in Seq(E)
  BY ImageBinsAre
<1> HIDE DEF r
<1>2. n \in Nat /\ DOMAIN r = 1 .. n /\ \A k \in 1 .. n : r[k] \in E
  <2> HIDE DEF E
  <2> QED BY <1>1
<1>3. NoImage(t, i) \in V[{}]
  <2>1. t.nmax \in Nat /\ t \in TableOf(t.nmax, Bins) /\ t.nextimage \in [0 .. t.nmax - 1 -> Int]
        /\ t.nlocal \in Int
    BY FittedIs
  <2>2. t.nlocal \in 0 .. t.nmax
    BY DEF Fitted
  <2>3. i \in 0 .. t.nmax - 1
    BY <2>1, <2>2
  <2>4. im[i] \in Seq(L \ (0 .. t.nlocal - 1)) /\ RunsDown(t.nextimage, t.nextimage[i], im[i])
    BY DEF Imaged
  <2>5. t.nextimage[i] = Nil
    <3>1. Len(im[i]) \in Nat
      BY <2>4
    <3>2. Len(im[i]) = 0
      <4> SUFFICES ASSUME Len(im[i]) # 0 PROVE FALSE
        OBVIOUS
      <4>1. 1 \in 1 .. Len(im[i])
        BY <3>1
      <4>2. im[i][1] \in Elements(im[i])
        BY <4>1 DEF Elements
      <4> QED BY <4>2
    <3> QED BY <2>4, <3>2 DEF RunsDown
  <2>6. NoImage(t, i) = t
    <3>1. [t.nextimage EXCEPT ![i] = Nil] = t.nextimage
      BY <2>1, <2>5
    <3>2. NoImage(t, i) = [t EXCEPT !.nextimage = [t.nextimage EXCEPT ![i] = Nil]]
      BY DEF NoImage
    <3>3. NoImage(t, i) = [t EXCEPT !.nextimage = t.nextimage]
      BY <3>1, <3>2
    <3> QED BY <2>1, <3>3 DEF TableOf
  <2>7. t \in SiteTables(Bins)
    BY DEF Fitted
  <2>8. Carried(p, t, t)
    BY <2>7 DEF Carried, SameSites
  <2> QED BY <2>6, <2>7, <2>8
<1>4. \A T \in SUBSET (1 .. n) : T # {} =>
         \A v \in V[T \ {Max(T)}] : AddOne(p, i, v, r[Max(T)]) \in V[T]
  <2>1. SUFFICES ASSUME NEW T \in SUBSET (1 .. n), T # {}, NEW v \in V[T \ {Max(T)}]
                 PROVE  AddOne(p, i, v, r[Max(T)]) \in V[T]
    BY Zenon
  <2> DEFINE m == Max(T)
             g == r[m]
  <2>2. m \in T
    BY <1>2, <2>1, MaxOf
  <2>3. Carried(p, v, t)
    <3>1. T \ {m} \in SUBSET (1 .. n)
      OBVIOUS
    <3> HIDE DEF m
    <3> QED BY <3>1 DEF m
  <2>4. g \in GhostBins /\ GhostIndex(g) = t.bin[i]
    <3>1. m \in 1 .. n
      BY <2>2
    <3> HIDE DEF m
    <3> QED BY <1>2, <3>1
  <2> HIDE DEF g
  <2>5. Carried(p, AddOne(p, i, v, g), t)
    BY <2>3, <2>4, AddOneIs
  <2>6. AddOne(p, i, v, g) \in SiteTables(Bins)
    BY <2>5 DEF Carried
  <2> QED BY <2>5, <2>6 DEF g, m
<1> HIDE DEF V, n
<1>5. AddImages(p, t, i, b) \in V[1 .. n]
  BY <1>2, <1>3, <1>4, ImagesFold DEF r
<1> QED BY <1>5 DEF V

(* A move from the box ends within a cutoff of it.                         *)
LEMMA BoxClose ==
    ASSUME layout \in Layouts, NEW p \in Proc, NEW x \in Point, InDomain(p, x), NEW d \in Moves
    PROVE  Plus(x, d) \in Point /\ Close(p, Plus(x, d))
<1> DEFINE y == Plus(x, d)
           r1 == X1(p, x)
           r2 == X2(p, x)
<1>1. d[1] \in -Step .. Step /\ d[2] \in -Step .. Step /\ Step \in Nat
  BY MoveAssumption, StepIs
<1>2. x[1] \in Int /\ x[2] \in Int
  BY PointIs
<1>3. y \in Point
  BY <1>1, <1>2 DEF Plus, Point
<1>4. /\ layout.sx \in Nat \ {0} /\ layout.sy \in Nat \ {0}
      /\ layout.px \in Nat /\ layout.py \in Nat
  BY GridIs
<1>5. r1 \in 0 .. layout.sx - 1 /\ r2 \in 0 .. layout.sy - 1
  BY AxesIs
<1>6. X1(p, y) = r1 + d[1] /\ X2(p, y) = r2 + d[2]
  <2>1. ProcX(p) * layout.sx \in Int /\ ProcY(p) * layout.sy \in Int
    <3>1. ProcX(p) \in Int /\ ProcY(p) \in Int
      BY <1>4, ProcIs
    <3> QED BY <1>4, <3>1
  <2>2. y[1] = x[1] + d[1] /\ y[2] = x[2] + d[2]
    BY PairIs DEF Plus
  <2> HIDE DEF y
  <2> QED BY <1>1, <1>2, <2>1, <2>2 DEF X1, X2
<1> HIDE DEF y, r1, r2
<1>7. Close(p, y)
  BY <1>1, <1>4, <1>5, <1>6 DEF Close
<1> QED BY <1>3, <1>7 DEF y

(* A process that runs alone is its own neighbor.                          *)
LEMMA AloneIs ==
    ASSUME layout \in Layouts, ~ Sectored, NEW p \in Proc, NEW g \in Bins, NEW towards \in {-1, 1}
    PROVE  NeighProc(p, towards, g) = p
<1>1. Proc = {0}
  BY ProcCount
<1>2. NeighProc(p, towards, g) \in Proc
  BY NeighIs
<1> QED BY <1>1, <1>2

(* The site stays in its bin; its images follow.                           *)
Follows(u, v, p, i) ==
    u = [v EXCEPT !.xyz = [j \in DOMAIN @ |-> IF j \in ToSet(Images(v, i))
                              THEN Plus(v.xyz[i], Shift(p, v.bin[j])) ELSE @[j]]]
Followed(u, v, n, p, x, M) ==
    /\ u \in TableOf(n, Bins) /\ u.nlocal = v.nlocal /\ u.nghost = v.nghost
    /\ u.id = v.id /\ u.bin = v.bin /\ u.nextimage = v.nextimage /\ SameLinks(u, v)
    /\ \A j \in 0 .. n - 1 : u.xyz[j] = IF j \in M THEN Plus(x, Shift(p, v.bin[j]))
                                        ELSE v.xyz[j]
Placed(v, p, x, M) == \A j \in M : Plus(x, Shift(p, v.bin[j])) \in Point

(* The images follow their site when it moves inside its bin.              *)
LEMMA FollowsIs ==
    ASSUME NEW p, NEW n \in Nat, NEW v \in TableOf(n, Bins), NEW i, NEW x, x = v.xyz[i],
           NEW M, M = ToSet(Images(v, i)), Placed(v, p, x, M),
           NEW u, Follows(u, v, p, i)
    PROVE  Followed(u, v, n, p, x, M)
<1> DEFINE f == [j \in DOMAIN v.xyz |-> IF j \in ToSet(Images(v, i))
                              THEN Plus(v.xyz[i], Shift(p, v.bin[j])) ELSE v.xyz[j]]
<1>1. v.xyz \in [0 .. n - 1 -> Int \X Int]
  BY DEF TableOf
<1>2. f = [j \in 0 .. n - 1 |-> IF j \in M THEN Plus(x, Shift(p, v.bin[j])) ELSE v.xyz[j]]
  BY <1>1
<1>3. \A j \in 0 .. n - 1 : f[j] = IF j \in M THEN Plus(x, Shift(p, v.bin[j])) ELSE v.xyz[j]
  BY <1>2
<1>4. u = [v EXCEPT !.xyz = f]
  BY DEF Follows
<1> HIDE DEF f
<1>5. f \in [0 .. n - 1 -> Int \X Int]
  <2>1. ASSUME NEW j \in 0 .. n - 1
        PROVE  (IF j \in M THEN Plus(x, Shift(p, v.bin[j])) ELSE v.xyz[j]) \in Int \X Int
    BY <1>1 DEF Point, Placed
  <2> QED BY <1>2, <2>1
<1>6. u \in TableOf(n, Bins) /\ u.xyz = f
  BY <1>4, <1>5 DEF TableOf
<1>7. /\ u.nlocal = v.nlocal /\ u.nghost = v.nghost
      /\ u.id = v.id /\ u.bin = v.bin /\ u.nextimage = v.nextimage
  BY <1>4 DEF TableOf
<1>8. SameLinks(u, v)
  BY <1>4 DEF TableOf, SameLinks
<1> QED BY <1>3, <1>6, <1>7, <1>8 DEF Followed

(* Without sectors the owned sites stay at home.                           *)
LEMMA Homed ==
    ASSUME ~ Sectored, NEW p, NEW t, NEW u, Carried(p, u, t),
           \A k \in 0 .. t.nlocal - 1 : InDomain(p, t.xyz[k]), NEW s, NEW K
    PROVE  Equipped(p, u, s, K) /\ u.nlocal = t.nlocal
           /\ \A k \in 0 .. t.nlocal - 1 : u.id[k] = t.id[k]
<1>1. /\ u.nlocal = t.nlocal
      /\ \A k \in 0 .. t.nlocal - 1 :
            u.id[k] = t.id[k] /\ u.xyz[k] = t.xyz[k] /\ u.bin[k] = t.bin[k]
  BY DEF Carried, SameSites
<1>2. PICK L, q, im : Fitted(p, u, L, q) /\ Imaged(u, L, im, t.bin)
  BY DEF Carried
<1>3. Imaged(u, L, im, u.bin)
  <2>1. 0 .. u.nlocal - 1 \subseteq L
    BY <1>2 DEF Fitted
  <2> QED BY <1>1, <1>2, <2>1, ImagedSame
<1>4. AtHome(p, u, L)
  BY <1>1, <1>3 DEF AtHome
<1> QED BY <1>1, <1>2, <1>4 DEF Equipped

(* What a move leaves: the owned sites are at home, and none has another   *)
(* name.                                                                   *)
StillBox(p, u, t) ==
    /\ \A s, K : Equipped(p, u, s, K)
    /\ u.nlocal = t.nlocal /\ \A k \in 0 .. t.nlocal - 1 : u.id[k] = t.id[k]

(* The images of a site that has moved and is in its bin follow.           *)
LEMMA ImagesFollow ==
    ASSUME layout \in Layouts, ~ Sectored, NEW p \in Proc,
           NEW v, NEW L, NEW q, Fitted(p, v, L, q),
           \A k \in 0 .. v.nlocal - 1 : InDomain(p, v.xyz[k]),
           NEW im, NEW at, at = v.bin, Imaged(v, L, im, at), NEW i \in 0 .. v.nlocal - 1,
           NEW u, u = MoveInBox(p, v, i)
    PROVE  StillBox(p, u, v)
<1> DEFINE Own == 0 .. v.nlocal - 1
           M == Elements(im[i])
           x == v.xyz[i]
<1>1. /\ v.nmax \in Nat /\ v \in TableOf(v.nmax, Bins) /\ L \subseteq 0 .. v.nmax - 1
      /\ v.bin \in [0 .. v.nmax - 1 -> Bins] /\ v.xyz \in [0 .. v.nmax - 1 -> Point]
  BY FittedIs
<1>2. /\ Own \subseteq L /\ Whole(v, L, q) /\ v.nlocal \in 0 .. v.nmax
      /\ \A k \in L : v.bin[k] = Site2Bin(p, v.xyz[k])
  BY DEF Fitted
<1>3. i \in 0 .. v.nmax - 1 /\ i \in L /\ i \in Own
  BY <1>1, <1>2
<1>4. x \in Point /\ Site2Bin(p, x) = v.bin[i]
  BY <1>1, <1>2, <1>3
<1>8. Images(v, i) = im[i]
  BY ImagesAre
<1>9. M = ToSet(Images(v, i))
  <2>1. im[i] \in Seq(L \ Own)
    BY DEF Imaged
  <2>2. DOMAIN im[i] = 1 .. Len(im[i])
    BY <2>1
  <2> QED BY <1>8, <2>2 DEF ToSet, Elements
<1>10. M \subseteq L \ Own /\ \A j \in M : GhostIndex(v.bin[j]) = v.bin[i]
  <2>1. im[i] \in Seq(L \ Own) /\ \A j \in M : GhostIndex(v.bin[j]) = v.bin[i]
    BY DEF Imaged
  <2> HIDE DEF Own
  <2> DEFINE E == L \ Own
  <2>2. im[i] \in Seq(E)
    BY <2>1
  <2> HIDE DEF E
  <2>3. M \subseteq E
    BY <2>2, ElementsIn
  <2> QED BY <2>1, <2>3 DEF E
<1>11. Follows(u, v, p, i)
  <2>1. Site2Bin(p, v.xyz[i]) = v.bin[i]
    BY <1>4
  <2> QED BY <2>1 DEF MoveInBox, Follows
<1>5. x = v.xyz[i]
  OBVIOUS
<1> HIDE DEF x
<1>12. ASSUME NEW j \in M
       PROVE  /\ Plus(x, Shift(p, v.bin[j])) \in Point
              /\ Site2Bin(p, Plus(x, Shift(p, v.bin[j]))) = v.bin[j]
  <2> DEFINE g == v.bin[j]
  <2>1. g \in Bins /\ Site2Bin(p, x) = GhostIndex(g)
    BY <1>1, <1>4, <1>10
  <2> HIDE DEF g
  <2>2. p = NeighProc(p, -1, g)
    BY <2>1, AloneIs
  <2>3. Plus(x, Shift(p, g)) \in Point /\ Site2Bin(p, Plus(x, Shift(p, g))) = g
    BY <1>4, <2>1, <2>2, CopyBin
  <2> QED BY <2>3 DEF g
<1> HIDE DEF M
<1>13. /\ u \in TableOf(v.nmax, Bins) /\ u.nlocal = v.nlocal /\ u.nghost = v.nghost
       /\ u.id = v.id /\ u.bin = v.bin /\ u.nextimage = v.nextimage /\ SameLinks(u, v)
       /\ \A j \in 0 .. v.nmax - 1 : u.xyz[j] = IF j \in M THEN Plus(x, Shift(p, v.bin[j]))
                                                ELSE v.xyz[j]
  <2>1. Placed(v, p, x, M)
    BY <1>12 DEF Placed
  <2>2. Followed(u, v, v.nmax, p, x, M)
    BY <1>1, <1>5, <1>9, <1>11, <2>1, FollowsIs
  <2> QED BY <2>2 DEF Followed
<1>14. Whole(u, L, q)
  BY <1>2, <1>13, WholeLinks
<1>15. Fitted(p, u, L, q)
  <2>1. \A k \in L : u.bin[k] = Site2Bin(p, u.xyz[k])
    BY <1>1, <1>2, <1>12, <1>13
  <2>2. u \in SiteTables(Bins) /\ u.nmax = v.nmax
    BY <1>1, <1>13, TableIn
  <2> QED BY <1>13, <1>14, <2>1, <2>2 DEF Fitted
<1>16. ASSUME NEW k \in 0 .. u.nlocal - 1
       PROVE  InDomain(p, u.xyz[k])
  <2>1. k \in 0 .. v.nlocal - 1 /\ k \notin M /\ k \in 0 .. v.nmax - 1
    BY <1>1, <1>2, <1>10, <1>13
  <2>2. u.xyz[k] = v.xyz[k]
    BY <1>13, <2>1
  <2> QED BY <2>1, <2>2
<1>17. Imaged(u, L, im, u.bin)
  <2>1. 0 .. v.nlocal - 1 \subseteq L
    BY <1>2
  <2>2. \A k \in L : u.nextimage[k] = v.nextimage[k]
    BY <1>13
  <2>3. \A k \in L \ (0 .. v.nlocal - 1) : u.bin[k] = v.bin[k]
    BY <1>13
  <2>4. \A k \in 0 .. v.nlocal - 1 : Elements(im[k]) = {} \/ u.bin[k] = at[k]
    BY <1>13
  <2>5. u.nlocal = v.nlocal
    BY <1>13
  <2> QED BY <2>1, <2>2, <2>3, <2>4, <2>5, ImagedSame
<1>18. AtHome(p, u, L)
  BY <1>16, <1>17 DEF AtHome
<1>19. \A s, K : Equipped(p, u, s, K)
  BY <1>15, <1>18 DEF Equipped
<1> QED BY <1>13, <1>19 DEF StillBox

(* The site in its place again: moved, and relisted or not.                *)
MovedOn(u, t, i, x, L, q, p) ==
    /\ u \in SiteTables(Bins) /\ u.nmax = t.nmax /\ Whole(u, L, q)
    /\ u.nlocal = t.nlocal /\ u.nghost = t.nghost /\ u.id = t.id /\ u.nextimage = t.nextimage
    /\ u.xyz = [t.xyz EXCEPT ![i] = x] /\ u.bin = [t.bin EXCEPT ![i] = Site2Bin(p, x)]

(* A site that has moved, with its bin up to date, leaves the table fitted.*)
LEMMA MovedOnFitted ==
    ASSUME NEW p, NEW t, NEW L, NEW q, Fitted(p, t, L, q), NEW i \in 0 .. t.nlocal - 1, NEW x,
           NEW u, MovedOn(u, t, i, x, L, q, p)
    PROVE  Fitted(p, u, L, q)
BY MoveFitted DEF MovedOn

(* What a move changes in the sites.                                       *)
LEMMA MovedOnSites ==
    ASSUME NEW p, NEW t, NEW L, NEW q, Fitted(p, t, L, q), NEW i \in 0 .. t.nlocal - 1, NEW x,
           NEW u, MovedOn(u, t, i, x, L, q, p)
    PROVE  /\ 0 .. t.nlocal - 1 \subseteq L /\ u.nlocal = t.nlocal /\ u.id = t.id
           /\ \A k \in L : /\ u.xyz[k] = IF k = i THEN x ELSE t.xyz[k]
                           /\ u.bin[k] = IF k = i THEN Site2Bin(p, x) ELSE t.bin[k]
                           /\ u.nextimage[k] = t.nextimage[k]
<1>1. /\ L \subseteq 0 .. t.nmax - 1
      /\ t.bin \in [0 .. t.nmax - 1 -> Bins] /\ t.xyz \in [0 .. t.nmax - 1 -> Point]
  BY FittedIs
<1>2. 0 .. t.nlocal - 1 \subseteq L
  BY DEF Fitted
<1> DEFINE b == Site2Bin(p, x)
<1>3. /\ u.nlocal = t.nlocal /\ u.id = t.id /\ u.nextimage = t.nextimage
      /\ u.xyz = [t.xyz EXCEPT ![i] = x] /\ u.bin = [t.bin EXCEPT ![i] = b]
  BY DEF MovedOn
<1> HIDE DEF b
<1>4. \A k \in L : /\ u.xyz[k] = IF k = i THEN x ELSE t.xyz[k]
                   /\ u.bin[k] = IF k = i THEN b ELSE t.bin[k]
  BY <1>1, <1>3
<1> QED BY <1>2, <1>3, <1>4 DEF b

(* A move keeps the chains of images.                                      *)
LEMMA MovedOnImaged ==
    ASSUME NEW p, NEW t, NEW L, NEW q, Fitted(p, t, L, q), NEW i \in 0 .. t.nlocal - 1, NEW x,
           NEW u, MovedOn(u, t, i, x, L, q, p), NEW im, NEW at, Imaged(t, L, im, at)
    PROVE  Imaged(u, L, im, at)
<1>1. /\ 0 .. t.nlocal - 1 \subseteq L /\ u.nlocal = t.nlocal
      /\ \A k \in L : /\ u.bin[k] = IF k = i THEN Site2Bin(p, x) ELSE t.bin[k]
                      /\ u.nextimage[k] = t.nextimage[k]
  BY MovedOnSites
<1>2. \A k \in L : u.nextimage[k] = t.nextimage[k]
  BY <1>1
<1>3. \A k \in L \ (0 .. t.nlocal - 1) : u.bin[k] = t.bin[k]
  BY <1>1
<1>4. \A k \in 0 .. t.nlocal - 1 : Elements(im[k]) = {} \/ at[k] = at[k]
  OBVIOUS
<1> QED BY <1>1, <1>2, <1>3, <1>4, ImagedSame

(* The place of site i is x; all else is as it was.                        *)
Shifted(v, t, i, x) ==
    /\ v \in TableOf(t.nmax, Bins) /\ v.nlocal = t.nlocal /\ v.nghost = t.nghost
    /\ v.id = t.id /\ v.bin = t.bin /\ v.nextimage = t.nextimage /\ SameLinks(v, t)
    /\ v.xyz = [t.xyz EXCEPT ![i] = x] /\ v.xyz[i] = x
AtPlace(v, t, i, x) == v = [t EXCEPT !.xyz[i] = x]

(* A new place changes the position of one site.                           *)
LEMMA AtPlaceIs ==
    ASSUME NEW n \in Nat, NEW t \in TableOf(n, Bins), NEW i \in 0 .. n - 1, NEW x \in Point,
           NEW v, AtPlace(v, t, i, x)
    PROVE  Shifted(v, t, i, x)
<1>2. t.xyz \in [0 .. n - 1 -> Int \X Int]
  BY DEF TableOf
<1>3. [t.xyz EXCEPT ![i] = x] \in [0 .. n - 1 -> Int \X Int] /\ [t.xyz EXCEPT ![i] = x][i] = x
  BY <1>2 DEF Point
<1> DEFINE d == [t.xyz EXCEPT ![i] = x]
<1>4. v = [t EXCEPT !.xyz = d]
  BY DEF AtPlace
<1>5. d \in [0 .. n - 1 -> Int \X Int] /\ d[i] = x
  BY <1>3
<1> HIDE DEF d
<1>6. /\ v \in TableOf(n, Bins) /\ v.nmax = n /\ v.nlocal = t.nlocal /\ v.nghost = t.nghost
      /\ v.nfree = t.nfree /\ v.freehead = t.freehead
      /\ v.next = t.next /\ v.prev = t.prev /\ v.bin = t.bin /\ v.binhead = t.binhead
      /\ v.id = t.id /\ v.nextimage = t.nextimage /\ v.xyz = d
  BY <1>4, <1>5 DEF TableOf
<1>7. t.nmax = n
  BY DEF TableOf
<1> QED BY <1>5, <1>6, <1>7 DEF d, Shifted, SameLinks

(* A new place in a fitted table changes the position of one site.         *)
LEMMA ShiftedIs ==
    ASSUME NEW p, NEW t, NEW L, NEW q, Fitted(p, t, L, q), NEW i \in 0 .. t.nlocal - 1,
           NEW x \in Point, NEW v, AtPlace(v, t, i, x)
    PROVE  Shifted(v, t, i, x)
<1>1. t.nmax \in Nat /\ t \in TableOf(t.nmax, Bins)
  BY FittedIs
<1>2. t.nlocal \in 0 .. t.nmax
  BY DEF Fitted
<1>3. i \in 0 .. t.nmax - 1
  BY <1>1, <1>2
<1> QED BY <1>1, <1>3, AtPlaceIs

(* The place tried, then the place kept: one change of position.           *)
LEMMA ShiftedBack ==
    ASSUME NEW p, NEW t, NEW L, NEW q, Fitted(p, t, L, q), NEW i \in 0 .. t.nlocal - 1,
           NEW x \in Point, NEW v, Shifted(v, t, i, x),
           NEW y \in Point, NEW w, AtPlace(w, v, i, y)
    PROVE  Shifted(w, t, i, y)
<1>1. t.nmax \in Nat /\ t.xyz \in [0 .. t.nmax - 1 -> Point]
  BY FittedIs
<1>2. t.nlocal \in 0 .. t.nmax
  BY DEF Fitted
<1>3. i \in 0 .. t.nmax - 1
  BY <1>1, <1>2
<1>4. /\ v \in TableOf(t.nmax, Bins) /\ v.nlocal = t.nlocal /\ v.nghost = t.nghost
      /\ v.id = t.id /\ v.bin = t.bin /\ v.nextimage = t.nextimage /\ SameLinks(v, t)
      /\ v.xyz = [t.xyz EXCEPT ![i] = x]
  BY DEF Shifted
<1>5. v.nmax = t.nmax
  BY <1>4 DEF SameLinks
<1>6. Shifted(w, v, i, y)
  BY <1>1, <1>3, <1>4, AtPlaceIs
<1>7. w.xyz = [t.xyz EXCEPT ![i] = y]
  BY <1>1, <1>4, <1>6 DEF Shifted
<1>8. v.xyz \in [0 .. t.nmax - 1 -> Point]
  BY <1>1, <1>4
<1>9. w.xyz[i] = y
  BY <1>3, <1>6 DEF Shifted
<1> QED BY <1>4, <1>5, <1>6, <1>7, <1>9 DEF Shifted, SameLinks

(* A move inside the bin needs no list changed.                            *)
LEMMA ShiftedSame ==
    ASSUME NEW p, NEW t, NEW L, NEW q, Fitted(p, t, L, q), NEW i \in 0 .. t.nlocal - 1,
           NEW x, NEW v, Shifted(v, t, i, x), Site2Bin(p, x) = t.bin[i]
    PROVE  MovedOn(v, t, i, x, L, q, p)
<1>1. t.nmax \in Nat /\ t.bin \in [0 .. t.nmax - 1 -> Bins]
  BY FittedIs
<1>2. t.nlocal \in 0 .. t.nmax /\ Whole(t, L, q)
  BY DEF Fitted
<1>3. i \in 0 .. t.nmax - 1
  BY <1>1, <1>2
<1>4. /\ v \in TableOf(t.nmax, Bins) /\ v.nlocal = t.nlocal /\ v.nghost = t.nghost
      /\ v.id = t.id /\ v.bin = t.bin /\ v.nextimage = t.nextimage /\ SameLinks(v, t)
      /\ v.xyz = [t.xyz EXCEPT ![i] = x]
  BY DEF Shifted
<1>5. v.bin = [t.bin EXCEPT ![i] = Site2Bin(p, x)]
  BY <1>1, <1>3, <1>4
<1>6. Whole(v, L, q)
  BY <1>2, <1>4, WholeLinks
<1>7. v \in SiteTables(Bins) /\ v.nmax = t.nmax
  BY <1>1, <1>4, TableIn
<1> QED BY <1>4, <1>5, <1>6, <1>7 DEF MovedOn

(* A move to another bin takes the site to the list of that bin.           *)
LEMMA ShiftedElse ==
    ASSUME layout \in Layouts, NEW p \in Proc, NEW t, NEW L, NEW q, Fitted(p, t, L, q),
           NEW i \in 0 .. t.nlocal - 1,
           NEW x \in Point, NEW v, Shifted(v, t, i, x),
           NEW b, b = Site2Bin(p, x), NEW u, Relisted(u, v, i, b)
    PROVE  MovedOn(u, t, i, x, L, q, p)
<1>1. t.nmax \in Nat
  BY FittedIs
<1>2. 0 .. t.nlocal - 1 \subseteq L /\ Whole(t, L, q)
  BY DEF Fitted
<1>4. /\ v \in TableOf(t.nmax, Bins) /\ v.nlocal = t.nlocal /\ v.nghost = t.nghost
      /\ v.id = t.id /\ v.bin = t.bin /\ v.nextimage = t.nextimage /\ SameLinks(v, t)
      /\ v.xyz = [t.xyz EXCEPT ![i] = x]
  BY DEF Shifted
<1>6. Whole(v, L, q)
  BY <1>2, <1>4, WholeLinks
<1>7. b \in Bins
  BY SiteBinIs
<1>8. i \in L
  BY <1>2
<1>9. u \in TableOf(t.nmax, Bins) /\ Renewed(u, v, i, b) /\ Whole(u, L, q)
  BY <1>1, <1>4, <1>6, <1>7, <1>8, RelistedWhole
<1>10. u \in SiteTables(Bins) /\ u.nmax = t.nmax
  BY <1>1, <1>9, TableIn
<1>11. RestKept(u, v) /\ u.bin = [v.bin EXCEPT ![i] = b]
  BY <1>9 DEF Renewed
<1>12. /\ u.nlocal = v.nlocal /\ u.nghost = v.nghost /\ u.id = v.id /\ u.xyz = v.xyz
       /\ u.nextimage = v.nextimage
  BY <1>11 DEF RestKept
<1> QED BY <1>4, <1>9, <1>10, <1>11, <1>12 DEF MovedOn

(* Images only of sites in edge bins.                                      *)
LEMMA InnerBare ==
    ASSUME layout \in Layouts, NEW p, NEW t, NEW L, NEW q, Fitted(p, t, L, q),
           NEW im, NEW at, Imaged(t, L, im, at), NEW i \in 0 .. t.nlocal - 1, ~ IsEdge(at[i])
    PROVE  Elements(im[i]) = {}
<1> DEFINE Own == 0 .. t.nlocal - 1
           E == L \ Own
<1>1. /\ L \subseteq 0 .. t.nmax - 1 /\ t.bin \in [0 .. t.nmax - 1 -> Bins]
  BY FittedIs
<1>2. \A k \in E : IsGhost(t.bin[k])
  BY DEF Fitted
<1>3. im[i] \in Seq(E) /\ \A j \in Elements(im[i]) : GhostIndex(t.bin[j]) = at[i]
  BY DEF Imaged
<1>4. E \subseteq 0 .. t.nmax - 1
  BY <1>1
<1> HIDE DEF E
<1>5. Elements(im[i]) \subseteq E
  BY <1>3, ElementsIn
<1>6. ASSUME NEW j \in Elements(im[i]) PROVE FALSE
  <2>1. t.bin[j] \in Bins /\ IsGhost(t.bin[j]) /\ GhostIndex(t.bin[j]) = at[i]
    BY <1>1, <1>2, <1>3, <1>4, <1>5
  <2>2. IsEdge(GhostIndex(t.bin[j]))
    BY <2>1, BinIs
  <2> QED BY <2>1, <2>2
<1> QED BY <1>6

(* The images of a site that went to another bin.                          *)
LEMMA ImagesRenewed ==
    ASSUME layout \in Layouts, ~ Sectored, NEW p \in Proc,
           NEW t, NEW L, NEW q, Fitted(p, t, L, q),
           \A k \in 0 .. t.nlocal - 1 : InDomain(p, t.xyz[k]),
           NEW im, NEW at, at = t.bin, Imaged(t, L, im, at), NEW i \in 0 .. t.nlocal - 1,
           NEW y, InDomain(p, y), NEW m, MovedOn(m, t, i, y, L, q, p),
           NEW old, old = t.bin[i], NEW new, new = Site2Bin(p, y),
           NEW c, c = IF IsEdge(old) THEN DeleteImages(m, i) ELSE m,
           NEW u, u = IF IsEdge(new) THEN AddImages(p, c, i, new) ELSE c
    PROVE  StillBox(p, u, t)
<1>1. /\ 0 .. t.nlocal - 1 \subseteq L /\ m.nlocal = t.nlocal /\ m.id = t.id
      /\ \A k \in L : /\ m.xyz[k] = IF k = i THEN y ELSE t.xyz[k]
                      /\ m.bin[k] = IF k = i THEN new ELSE t.bin[k]
  BY MovedOnSites
<1>2. Fitted(p, m, L, q)
  BY MovedOnFitted
<1>3. Imaged(m, L, im, at)
  BY MovedOnImaged
<1>4. i \in 0 .. m.nlocal - 1 /\ at[i] = old
  BY <1>1
<1>5. Cleared(p, c, m, i, at)
  <2>1. CASE IsEdge(old)
    <3>1. c = DeleteImages(m, i)
      BY <2>1
    <3>2. Cleared(p, DeleteImages(m, i), m, i, at)
      BY <1>2, <1>3, <1>4, DeletedIs
    <3> QED BY <3>1, <3>2
  <2>2. CASE ~ IsEdge(old)
    <3>1. c = m
      BY <2>2
    <3>2. Elements(im[i]) = {}
      BY <1>2, <1>3, <1>4, <2>2, InnerBare
    <3>3. m \in SiteTables(Bins)
      BY <1>2 DEF Fitted
    <3> QED BY <1>2, <1>3, <3>1, <3>2, <3>3 DEF Cleared, SameSites
  <2> QED BY <2>1, <2>2
<1>6. /\ c \in SiteTables(Bins) /\ c.nlocal = t.nlocal
      /\ \A k \in 0 .. t.nlocal - 1 : c.id[k] = m.id[k] /\ c.xyz[k] = m.xyz[k] /\ c.bin[k] = m.bin[k]
  BY <1>1, <1>5 DEF Cleared, SameSites
<1>7. PICK L2, q2, im2 : Fitted(p, c, L2, q2) /\ Imaged(c, L2, im2, at) /\ Elements(im2[i]) = {}
  BY <1>5 DEF Cleared
<1>8. \A k \in 0 .. t.nlocal - 1 :
        /\ c.id[k] = t.id[k] /\ InDomain(p, c.xyz[k])
        /\ c.bin[k] = IF k = i THEN new ELSE at[k]
  BY <1>1, <1>6
<1>9. Imaged(c, L2, im2, c.bin)
  <2>1. 0 .. c.nlocal - 1 \subseteq L2
    BY <1>7 DEF Fitted
  <2>2. \A k \in 0 .. c.nlocal - 1 : Elements(im2[k]) = {} \/ c.bin[k] = at[k]
    BY <1>6, <1>7, <1>8
  <2> QED BY <1>7, <2>1, <2>2, ImagedSame
<1>10. Carried(p, u, c)
  <2>1. CASE IsEdge(new)
    <3>1. u = AddImages(p, c, i, new)
      BY <2>1
    <3>2. i \in 0 .. c.nlocal - 1 /\ new = c.bin[i]
      BY <1>6, <1>8
    <3>3. Carried(p, AddImages(p, c, i, new), c)
      BY <1>7, <1>9, <3>2, AddedImagesAre
    <3> QED BY <3>1, <3>3
  <2>2. CASE ~ IsEdge(new)
    <3>1. u = c
      BY <2>2
    <3> QED BY <1>6, <1>7, <1>9, <3>1 DEF Carried, SameSites
  <2> QED BY <2>1, <2>2
<1>11. \A s, K : Equipped(p, u, s, K) /\ u.nlocal = c.nlocal
                 /\ \A k \in 0 .. c.nlocal - 1 : u.id[k] = c.id[k]
  <2>1. \A k \in 0 .. c.nlocal - 1 : InDomain(p, c.xyz[k])
    BY <1>6, <1>8
  <2> QED BY <1>10, <2>1, Homed
<1> QED BY <1>6, <1>8, <1>11 DEF StillBox

(* A move without sectors.                                                 *)
LEMMA BoxMove ==
    ASSUME layout \in Layouts, ~ Sectored, NEW p \in Proc,
           NEW t, NEW s, NEW K, Equipped(p, t, s, K), NEW i \in 0 .. t.nlocal - 1, NEW d \in Moves,
           NEW x, x = Plus(t.xyz[i], d), NEW v, AtPlace(v, t, i, x),
           NEW u, u = MoveInBox(p, v, i)
    PROVE  StillBox(p, u, t)
<1>1. PICK L, q : Fitted(p, t, L, q) /\ AtHome(p, t, L)
  BY DEF Equipped
<1>2. PICK im : Imaged(t, L, im, t.bin)
  BY <1>1 DEF AtHome
<1>3. \A k \in 0 .. t.nlocal - 1 : InDomain(p, t.xyz[k])
  BY <1>1 DEF AtHome
<1>4. /\ t.nmax \in Nat /\ t \in TableOf(t.nmax, Bins) /\ L \subseteq 0 .. t.nmax - 1
      /\ t.bin \in [0 .. t.nmax - 1 -> Bins] /\ t.xyz \in [0 .. t.nmax - 1 -> Point]
  BY <1>1, FittedIs
<1>5. 0 .. t.nlocal - 1 \subseteq L /\ t.nlocal \in 0 .. t.nmax
      /\ \A k \in L : t.bin[k] = Site2Bin(p, t.xyz[k])
  BY <1>1 DEF Fitted
<1>6. i \in 0 .. t.nmax - 1 /\ t.xyz[i] \in Point
  BY <1>4, <1>5
<1>7. x \in Point /\ Close(p, x)
  BY <1>3, <1>6, BoxClose
<1>8. Shifted(v, t, i, x)
  BY <1>1, <1>7, ShiftedIs
<1>9. /\ v.nlocal = t.nlocal /\ v.bin = t.bin /\ v.id = t.id
      /\ v.xyz = [t.xyz EXCEPT ![i] = x] /\ v.xyz[i] = x
  BY <1>8 DEF Shifted
<1> DEFINE out == Site2Bin(p, x)
           old == t.bin[i]
<1>10. CASE out = old
  <2>1. MovedOn(v, t, i, x, L, q, p)
    BY <1>1, <1>8, <1>10, ShiftedSame
  <2>2. Fitted(p, v, L, q)
    BY <1>1, <2>1, MovedOnFitted
  <2>3. Imaged(v, L, im, t.bin)
    BY <1>1, <1>2, <2>1, MovedOnImaged
  <2>4. InDomain(p, x)
    <3>1. ~ IsGhost(Site2Bin(p, t.xyz[i]))
      BY <1>3, <1>6, SiteBinIs
    <3>2. ~ IsGhost(out)
      BY <1>5, <1>10, <3>1
    <3> QED BY <1>7, <3>2, SiteBinIs
  <2>5. \A k \in 0 .. v.nlocal - 1 : InDomain(p, v.xyz[k])
    <3>1. \A k \in 0 .. t.nlocal - 1 : v.xyz[k] = IF k = i THEN x ELSE t.xyz[k]
      BY <1>4, <1>5, <1>9
    <3> QED BY <1>3, <1>9, <2>4, <3>1
  <2>6. i \in 0 .. v.nlocal - 1 /\ t.bin = v.bin
    BY <1>9
  <2>7. StillBox(p, u, v)
    BY <2>2, <2>3, <2>5, <2>6, ImagesFollow
  <2> QED BY <1>9, <2>7 DEF StillBox
<1>11. CASE out # old
  <2> DEFINE y == IF IsGhost(out) THEN Minus(x, Shift(p, out)) ELSE x
             home == IF IsGhost(out) THEN [v EXCEPT !.xyz[i] = Minus(@, Shift(p, out))] ELSE v
             new == Site2Bin(p, home.xyz[i])
             moved == Rebinned(home, i, new)
             clear == IF IsEdge(old) THEN DeleteImages(moved, i) ELSE moved
  <2>1. u = IF IsEdge(new) THEN AddImages(p, clear, i, new) ELSE clear
    BY <1>9, <1>11 DEF MoveInBox
  <2>2. y \in Point /\ InDomain(p, y) /\ Shifted(home, t, i, y)
    <3>1. CASE IsGhost(out)
      <4>1. out \in Bins
        BY <1>7, SiteBinIs
      <4> DEFINE g == out
                 z == Minus(x, Shift(p, g))
      <4>2. p = NeighProc(p, 1, g)
        BY <4>1, AloneIs
      <4>3. g = Site2Bin(p, x)
        OBVIOUS
      <4> HIDE DEF g
      <4>4. Minus(x, Shift(p, g)) \in Point /\ InDomain(p, Minus(x, Shift(p, g)))
        BY <1>7, <4>2, <4>3, HomeBin
      <4>5. y = z
        BY <3>1, <4>3
      <4>6. AtPlace(home, v, i, z)
        <5>1. home = [v EXCEPT !.xyz[i] = Minus(@, Shift(p, g))]
          BY <3>1, <4>3
        <5>2. home = [v EXCEPT !.xyz[i] = Minus(x, Shift(p, g))]
          BY <1>9, <5>1
        <5> QED BY <5>2 DEF AtPlace
      <4> HIDE DEF home, y, z
      <4>7. Shifted(home, t, i, z)
        <5>1. z \in Point
          BY <4>4 DEF z
        <5> QED BY <1>1, <1>7, <1>8, <4>6, <5>1, ShiftedBack
      <4> QED BY <4>4, <4>5, <4>7 DEF z
    <3>2. CASE ~ IsGhost(out)
      <4>1. y = x /\ home = v
        BY <3>2
      <4>2. InDomain(p, x)
        BY <1>7, <3>2, SiteBinIs
      <4> QED BY <1>7, <1>8, <4>1, <4>2
    <3> QED BY <3>1, <3>2
  <2> HIDE DEF y, home
  <2>3. home.xyz[i] = y /\ home.bin = t.bin
    BY <2>2 DEF Shifted
  <2>4. new = Site2Bin(p, y)
    BY <2>3
  <2>5. Relisted(moved, home, i, new)
    BY DEF Rebinned, Relisted
  <2> HIDE DEF new, moved
  <2>6. MovedOn(moved, t, i, y, L, q, p)
    BY <1>1, <2>2, <2>4, <2>5, ShiftedElse
  <2>7. old = t.bin[i]
    OBVIOUS
  <2>8. clear = IF IsEdge(old) THEN DeleteImages(moved, i) ELSE moved
    OBVIOUS
  <2> HIDE DEF old, clear
  <2> DEFINE at == t.bin
  <2>9. Imaged(t, L, im, at) /\ at = t.bin
    BY <1>2
  <2> HIDE DEF at
  <2> QED BY <1>1, <1>3, <2>1, <2>2, <2>4, <2>6, <2>7, <2>8, <2>9, ImagesRenewed
<1> QED BY <1>10, <1>11

(* An entry of a reverse list: ghost bin "of" is sent to proc, for its bin *)
(* "to".                                                                   *)
Returns(p) ==
    {e \in [of : GhostBins, to : Bins, proc : Proc] :
        e.to = GhostIndex(e.of) /\ e.proc = NeighProc(p, 1, e.of)}
Listing(s, g) == Sectored => SectorGhost(s, g)

(* Every ghost bin is returned to the bin it stands for.                   *)
LEMMA ReturnFor ==
    ASSUME layout \in Layouts, NEW p \in Proc, NEW g \in GhostBins, NEW e,
           e = [of |-> g, to |-> GhostIndex(g), proc |-> NeighProc(p, 1, g)]
    PROVE  e \in Returns(p) /\ e.of = g
<1>1. g \in Bins
  BY GhostBinIs
<1>2. GhostIndex(g) \in Bins
  BY <1>1, BinIs
<1>3. NeighProc(p, 1, g) \in Proc
  BY <1>1, NeighIs
<1> QED BY <1>2, <1>3 DEF Returns

(* The returns of a sector, each once.                                     *)
LEMMA ReverseListIs ==
    ASSUME layout \in Layouts, NEW p \in Proc, NEW s
    PROVE  /\ ReverseList(p, s) \in Seq(Returns(p)) /\ Distinct(ReverseList(p, s))
           /\ Elements(ReverseList(p, s)) = {e \in Returns(p) : Listing(s, e.of)}
<1> DEFINE q == GhostList(s)
           f == ReverseList(p, s)
           E(g) == [of |-> g, to |-> GhostIndex(g), proc |-> NeighProc(p, 1, g)]
<1>1. /\ q \in Seq(GhostBins) /\ Distinct(q)
      /\ Elements(q) = {g \in GhostBins : Listing(s, g)}
  BY GhostListIs DEF Listing
<1>2. f = [k \in DOMAIN q |-> E(q[k])]
  BY DEF ReverseList
<1> HIDE DEF q, f
<1>3. \A g \in GhostBins : E(g) \in Returns(p) /\ E(g).of = g
  BY ReturnFor
<1>4. \A e \in Returns(p) : e = E(e.of) /\ e.of \in GhostBins
  BY DEF Returns
<1> HIDE DEF E
<1>5. \A k \in 1 .. Len(q) : f[k] = E(q[k]) /\ q[k] \in GhostBins /\ f[k] \in Returns(p) /\ f[k].of = q[k]
  BY <1>1, <1>2, <1>3
<1>6. DOMAIN f = DOMAIN q /\ f = [k \in DOMAIN f |-> f[k]]
  BY <1>2
<1>7. f \in Seq(Returns(p)) /\ Len(f) = Len(q)
  <2>1. \A k \in 1 .. Len(q) : f[k] \in Returns(p)
    BY <1>5
  <2> QED BY <1>1, <1>6, <2>1, MapIs
<1>8. Distinct(f)
  <2>1. SUFFICES ASSUME NEW i \in 1 .. Len(f), NEW j \in 1 .. Len(f), f[i] = f[j] PROVE i = j
    BY DEF Distinct
  <2>2. q[i] = q[j]
    BY <1>5, <1>7, <2>1
  <2> QED BY <1>1, <1>7, <2>2 DEF Distinct
<1>9. Elements(f) = {e \in Returns(p) : Listing(s, e.of)}
  <2>1. ASSUME NEW k \in 1 .. Len(f)
        PROVE  f[k] \in Returns(p) /\ Listing(s, f[k].of)
    <3>1. q[k] \in Elements(q) /\ f[k].of = q[k] /\ f[k] \in Returns(p)
      BY <1>5, <1>7 DEF Elements
    <3> QED BY <1>1, <3>1
  <2>2. ASSUME NEW e \in Returns(p), Listing(s, e.of)
        PROVE  e \in Elements(f)
    <3>1. e.of \in Elements(q)
      BY <1>1, <1>4, <2>2
    <3>2. PICK k \in 1 .. Len(q) : e.of = q[k]
      BY <3>1 DEF Elements
    <3>3. e = f[k]
      BY <1>4, <1>5, <3>2
    <3> QED BY <1>7, <3>2, <3>3 DEF Elements
  <2> QED BY <2>1, <2>2 DEF Elements
<1> QED BY <1>7, <1>8, <1>9 DEF f

(* The entries that concern other processes, in the order of the sends,    *)
(* and those of the process itself.                                        *)
PackList(p, s) ==
    FlattenSeq([k \in DOMAIN SendOrder(p) |-> To(ReverseList(p, s), SendOrder(p)[k])])

(* The returns that are packed for other processes.                        *)
LEMMA PackListIs ==
    ASSUME layout \in Layouts, NEW p \in Proc, NEW s
    PROVE  /\ PackList(p, s) \in Seq(Returns(p)) /\ Distinct(PackList(p, s))
           /\ Elements(PackList(p, s)) = {e \in Returns(p) : Listing(s, e.of) /\ e.proc # p}
<1> DEFINE o == SendOrder(p)
           r == ReverseList(p, s)
           ss == [k \in DOMAIN o |-> To(r, o[k])]
<1>1. o \in Seq(Proc) /\ Distinct(o) /\ Elements(o) = Proc \ {p}
  BY OthersAre
<1>2. /\ r \in Seq(Returns(p)) /\ Distinct(r)
      /\ Elements(r) = {e \in Returns(p) : Listing(s, e.of)}
  BY ReverseListIs
<1>3. PackList(p, s) = FlattenSeq(ss)
  BY DEF PackList
<1> HIDE DEF o, r
<1>4. \A k \in 1 .. Len(o) : ss[k] = To(r, o[k])
  BY <1>1
<1>5. DOMAIN ss = DOMAIN o /\ ss = [k \in DOMAIN ss |-> ss[k]]
  OBVIOUS
<1> HIDE DEF ss
<1>6. ASSUME NEW k \in 1 .. Len(o)
      PROVE  /\ ss[k] \in Seq(Returns(p)) /\ Distinct(ss[k])
             /\ Elements(ss[k]) = {e \in Elements(r) : e.proc = o[k]}
  BY <1>2, <1>4, ToIs
<1>7. ss \in Seq(Seq(Returns(p))) /\ Len(ss) = Len(o)
  BY <1>1, <1>5, <1>6, MapIs
<1>8. SlotsApart(ss)
  <2>1. ASSUME NEW j \in 1 .. Len(ss), NEW k \in 1 .. Len(ss), j # k
        PROVE  Elements(ss[j]) \cap Elements(ss[k]) = {}
    <3>1. o[j] # o[k]
      BY <1>1, <1>7, <2>1 DEF Distinct
    <3>2. /\ Elements(ss[j]) = {e \in Elements(r) : e.proc = o[j]}
          /\ Elements(ss[k]) = {e \in Elements(r) : e.proc = o[k]}
      BY <1>6, <1>7
    <3> QED BY <3>1, <3>2
  <2>2. \A k \in 1 .. Len(ss) : Distinct(ss[k])
    BY <1>6, <1>7
  <2> QED BY <2>1, <2>2 DEF SlotsApart
<1>9. /\ FlattenSeq(ss) \in Seq(Returns(p)) /\ Distinct(FlattenSeq(ss))
      /\ Elements(FlattenSeq(ss)) = UNION {Elements(ss[k]) : k \in 1 .. Len(ss)}
  BY <1>7, <1>8, FlattenIs
<1>10. UNION {Elements(ss[k]) : k \in 1 .. Len(ss)} = {e \in Returns(p) : Listing(s, e.of) /\ e.proc # p}
  <2>1. \A k \in 1 .. Len(ss) : Elements(ss[k]) = {e \in Elements(r) : e.proc = o[k]}
    BY <1>6, <1>7
  <2>2. \A k \in 1 .. Len(ss) : o[k] \in Proc \ {p}
    BY <1>1, <1>7 DEF Elements
  <2>3. \A e \in Returns(p) : e.proc \in Proc
    BY DEF Returns
  <2>4. \A x \in Proc \ {p} : \E k \in 1 .. Len(ss) : o[k] = x
    BY <1>1, <1>7 DEF Elements
  <2>5. ASSUME NEW e, e \in UNION {Elements(ss[k]) : k \in 1 .. Len(ss)}
        PROVE  e \in Returns(p) /\ Listing(s, e.of) /\ e.proc # p
    <3>1. PICK k \in 1 .. Len(ss) : e \in Elements(ss[k])
      BY <2>5
    <3>2. e \in Elements(r) /\ e.proc = o[k]
      BY <2>1, <3>1
    <3> QED BY <1>2, <2>2, <3>2
  <2>6. ASSUME NEW e \in Returns(p), Listing(s, e.of), e.proc # p
        PROVE  e \in UNION {Elements(ss[k]) : k \in 1 .. Len(ss)}
    <3>1. e.proc \in Proc \ {p}
      BY <2>3, <2>6
    <3>2. PICK k \in 1 .. Len(ss) : o[k] = e.proc
      BY <2>4, <3>1
    <3>3. e \in Elements(ss[k])
      BY <1>2, <2>1, <2>6, <3>2
    <3> QED BY <3>3
  <2> QED BY <2>5, <2>6
<1> QED BY <1>3, <1>9, <1>10

(* The returns between two processes.                                      *)
LEMMA BackListIs ==
    ASSUME layout \in Layouts, NEW p \in Proc, NEW s, NEW q
    PROVE  /\ To(ReverseList(p, s), q) \in Seq(Returns(p)) /\ Distinct(To(ReverseList(p, s), q))
           /\ Elements(To(ReverseList(p, s), q)) =
                 {e \in Returns(p) : Listing(s, e.of) /\ e.proc = q}
<1> DEFINE r == ReverseList(p, s)
<1>1. /\ r \in Seq(Returns(p)) /\ Distinct(r)
      /\ Elements(r) = {e \in Returns(p) : Listing(s, e.of)}
  BY ReverseListIs
<1> HIDE DEF r
<1>2. /\ To(r, q) \in Seq(Returns(p)) /\ Distinct(To(r, q))
      /\ Elements(To(r, q)) = {e \in Elements(r) : e.proc = q}
  BY <1>1, ToIs
<1>3. {e \in Elements(r) : e.proc = q} = {e \in Returns(p) : Listing(s, e.of) /\ e.proc = q}
  BY <1>1
<1> QED BY <1>2, <1>3 DEF r

(* The sites a process sends, and what it needs to have room for.          *)
Balance(p, s, a, q) == a + SendCount(q, p, s) - SendCount(p, q, s)
NeedSum(p, s) == FoldLeft(LAMBDA a, q : a + SendCount(q, p, s) - SendCount(p, q, s), 0, Others(p))

(* What one process adds to the slots needed adds up over all of them.     *)
LEMMA NeedFold ==
    ASSUME NEW p, NEW s, NEW n \in Nat, DOMAIN Others(p) = 1 .. n,
           NEW V, 0 \in V[{}],
           \A T \in SUBSET (1 .. n) : T # {} =>
              \A v \in V[T \ {Max(T)}] : Balance(p, s, v, Others(p)[Max(T)]) \in V[T]
    PROVE  NeedSum(p, s) \in V[1 .. n]
<1> DEFINE Op(u, e) == Balance(p, s, u, e)
           Eq(g) == g = [T \in SUBSET DOMAIN Others(p) |->
                           IF T = {} THEN 0 ELSE Op(g[T \ {Max(T)}], Others(p)[Max(T)])]
           G == CHOOSE g : Eq(g)
           Dom == (SUBSET (1 .. n)) \X UNION {V[T] : T \in SUBSET (1 .. n)}
           step == [c \in Dom |-> Op(c[2], Others(p)[Max(c[1])])]
<1>1. NeedSum(p, s) = G[DOMAIN Others(p)]
  BY DEF NeedSum, Balance, FoldLeft, MapThenFoldSet
<1>2. \A T \in SUBSET (1 .. n) : T # {} =>
        \A u \in V[T \ {Max(T)}] : Op(u, Others(p)[Max(T)]) \in V[T]
  OBVIOUS
<1> HIDE DEF Op
<1>3. ASSUME NEW T \in SUBSET (1 .. n), NEW u \in V[T \ {Max(T)}]
      PROVE  step[<<T, u>>] = Op(u, Others(p)[Max(T)])
  <2>1. T \ {Max(T)} \in SUBSET (1 .. n)
    OBVIOUS
  <2>2. <<T, u>> \in Dom
    BY <2>1
  <2> HIDE DEF Dom
  <2> QED BY <2>2
<1> HIDE DEF step
<1>4. \E g : Eq(g)
  <2>1. \A T \in SUBSET (1 .. n) : T # {} =>
           \A u \in V[T \ {Max(T)}] : step[<<T, u>>] \in V[T]
    <3>1. SUFFICES ASSUME NEW T \in SUBSET (1 .. n), T # {}, NEW u \in V[T \ {Max(T)}]
                   PROVE  step[<<T, u>>] \in V[T]
      BY Zenon
    <3>2. step[<<T, u>>] = Op(u, Others(p)[Max(T)])
      BY <1>3, Zenon
    <3>3. Op(u, Others(p)[Max(T)]) \in V[T]
      BY <1>2, <3>1, Zenon
    <3> QED BY <3>2, <3>3
  <2>2. PICK g : /\ FoldsTo(g, 0, n, step)
                 /\ \A T \in SUBSET (1 .. n) : g[T] \in V[T]
    BY <2>1, FoldTable, Zenon
  <2>3. ASSUME NEW T \in SUBSET (1 .. n)
        PROVE  g[T] = IF T = {} THEN 0 ELSE Op(g[T \ {Max(T)}], Others(p)[Max(T)])
    <3>1. g[T] = IF T = {} THEN 0 ELSE step[<<T, g[T \ {Max(T)}]>>]
      BY <2>2 DEF FoldsTo
    <3>2. T \ {Max(T)} \in SUBSET (1 .. n)
      OBVIOUS
    <3>3. g[T \ {Max(T)}] \in V[T \ {Max(T)}]
      BY <2>2, <3>2, Zenon
    <3>4. step[<<T, g[T \ {Max(T)}]>>] = Op(g[T \ {Max(T)}], Others(p)[Max(T)])
      BY <1>3, <3>3, Zenon
    <3> QED BY <3>1, <3>4, Zenon
  <2>4. g = [T \in SUBSET (1 .. n) |-> g[T]]
    BY <2>2 DEF FoldsTo
  <2> QED BY <2>3, <2>4
<1>5. Eq(G)
  BY <1>4
<1> HIDE DEF G
<1>6. ASSUME NEW T \in SUBSET (1 .. n), T # {} => G[T \ {Max(T)}] \in V[T \ {Max(T)}]
      PROVE  G[T] \in V[T]
  <2>1. G[T] = IF T = {} THEN 0 ELSE Op(G[T \ {Max(T)}], Others(p)[Max(T)])
    BY <1>5
  <2>2. CASE T = {}
    BY <2>1, <2>2, Zenon
  <2>3. CASE T # {}
    <3>1. Op(G[T \ {Max(T)}], Others(p)[Max(T)]) \in V[T]
      BY <1>2, <1>6, <2>3, Zenon
    <3> QED BY <2>1, <2>3, <3>1
  <2> QED BY <2>2, <2>3
<1>7. G[1 .. n] \in V[1 .. n]
  BY <1>6, FoldValues, Zenon
<1> QED BY <1>1, <1>7

(* The number of sites to send is a number.                                *)
LEMMA SendCountIs ==
    ASSUME layout \in Layouts, NEW p \in Proc, NEW L, NEW f, Fitted(p, table[p], L, f),
           NEW q, NEW s
    PROVE  SendCount(p, q, s) \in Nat
<1> DEFINE t == table[p]
           list == To(ReverseList(p, s), q)
           ss == [k \in DOMAIN list |-> OwnedIn(t, list[k].of)]
<1>1. list \in Seq(Returns(p))
  BY BackListIs
<1>2. SendCount(p, q, s) = Len(FlattenSeq(ss))
  BY DEF SendCount
<1>3. t.nmax \in Nat /\ t \in TableOf(t.nmax, Bins) /\ Fitted(p, t, L, f)
  BY FittedIs
<1>4. Whole(t, L, f)
  BY <1>3 DEF Fitted
<1>5. Keeps(t, L, Bins, t.binhead)
  BY <1>3, <1>4, WholeIs
<1> HIDE DEF t, list
<1>6. ASSUME NEW b \in Bins PROVE OwnedIn(t, b) \in Seq(L)
  <2>1. Bins \subseteq Bins
    OBVIOUS
  <2>2. BinSites(t, L, b)
    BY <1>3, <1>5, <2>1, BinSitesAre
  <2>3. InBin(t, b) \in Seq(L)
    BY <2>2 DEF BinSites
  <2> QED BY <2>3, AmongIs DEF OwnedIn
<1>7. ss \in Seq(Seq(L))
  <2>1. DOMAIN ss = DOMAIN list /\ ss = [k \in DOMAIN ss |-> ss[k]]
        /\ \A k \in DOMAIN list : ss[k] = OwnedIn(t, list[k].of)
    OBVIOUS
  <2> HIDE DEF ss
  <2>2. \A k \in 1 .. Len(list) : ss[k] \in Seq(L)
    <3>1. SUFFICES ASSUME NEW k \in 1 .. Len(list) PROVE ss[k] \in Seq(L)
      OBVIOUS
    <3>2. list[k] \in Returns(p) /\ k \in DOMAIN list
      BY <1>1
    <3>3. list[k].of \in Bins
      BY <3>2, GhostBinIs DEF Returns
    <3> QED BY <1>6, <2>1, <3>2, <3>3
  <2> QED BY <1>1, <2>1, <2>2, MapIs
<1> HIDE DEF ss
<1>8. FlattenSeq(ss) \in Seq(L)
  BY <1>7, FlattenIs
<1> QED BY <1>2, <1>8

(* The balance of sites is an integer.                                     *)
LEMMA NeedIs ==
    ASSUME layout \in Layouts, NEW p \in Proc, NEW s,
           \A q \in Proc : \E L, f : Fitted(q, table[q], L, f)
    PROVE  NeedSum(p, s) \in Int
<1> DEFINE o == Others(p)
           n == Len(o)
           V == [T \in SUBSET (1 .. n) |-> Int]
<1>1. o \in Seq(Proc)
  BY OthersAre
<1>2. n \in Nat /\ DOMAIN o = 1 .. n /\ \A k \in 1 .. n : o[k] \in Proc
  BY <1>1
<1>3. \A q \in Proc : SendCount(q, p, s) \in Nat /\ SendCount(p, q, s) \in Nat
  BY SendCountIs
<1> HIDE DEF o, n
<1>4. \A T \in SUBSET (1 .. n) : T # {} =>
         \A v \in V[T \ {Max(T)}] : Balance(p, s, v, o[Max(T)]) \in V[T]
  <2>1. SUFFICES ASSUME NEW T \in SUBSET (1 .. n), T # {}, NEW v \in V[T \ {Max(T)}]
                 PROVE  Balance(p, s, v, o[Max(T)]) \in V[T]
    BY Zenon
  <2> DEFINE m == Max(T)
  <2>2. m \in T
    BY <1>2, <2>1, MaxOf
  <2>3. v \in Int
    <3>1. T \ {m} \in SUBSET (1 .. n)
      OBVIOUS
    <3> HIDE DEF m
    <3> QED BY <3>1 DEF m
  <2>4. o[m] \in Proc
    BY <1>2, <2>2
  <2> HIDE DEF m
  <2>5. Balance(p, s, v, o[m]) \in Int
    BY <1>3, <2>3, <2>4 DEF Balance
  <2> QED BY <2>5 DEF m
<1>5. 0 \in V[{}]
  OBVIOUS
<1> HIDE DEF V
<1>6. NeedSum(p, s) \in V[1 .. n]
  BY <1>2, <1>4, <1>5, NeedFold DEF o
<1> QED BY <1>6 DEF V

(* While the ghost bins are drained: the lists hold sites S, the owned     *)
(* ones among them; those of the bins C start at the heads h, the others   *)
(* where the table says; no site is in a bin of D.                         *)
Packing(p, s, u, S, h, D, C) ==
    /\ u \in SiteTables(Bins) /\ u.nlocal \in 0 .. u.nmax /\ 0 .. u.nlocal - 1 \subseteq S
    /\ Keeps(u, S, Bins \ C, h)
    /\ \A k \in S : u.bin[k] \notin D
    /\ \A k \in S \ (0 .. u.nlocal - 1) : IsGhost(u.bin[k])
    /\ u.nlocal = u.nmax => u.freehead = Nil
    /\ \A k \in 0 .. u.nlocal - 1 :
          /\ Close(p, u.xyz[k]) /\ u.bin[k] = Site2Bin(p, u.xyz[k])
          /\ IsGhost(u.bin[k]) => SectorGhost(s, u.bin[k])

(* Packing starts from the table a sector has left, grown to the slots     *)
(* needed.                                                                 *)
LEMMA PackingBegins ==
    ASSUME layout \in Layouts, Sectored, NEW p \in Proc, NEW s, NEW K, NEW t, Equipped(p, t, s, K),
           NEW m \in Int, NEW u, u = GrowTo(t, m)
    PROVE  /\ \E S, h : Packing(p, s, u, S, h, {}, {})
           /\ u.nlocal = t.nlocal /\ \A k \in 0 .. t.nlocal - 1 : u.id[k] = t.id[k]
<1>1. PICK L, q : Fitted(p, t, L, q) /\ InReach(p, t, s, K) /\ ToTheEnd(t, q)
  BY DEF Equipped
<1>2. /\ t.nmax \in Nat /\ t \in TableOf(t.nmax, Bins) /\ L \subseteq 0 .. t.nmax - 1
  BY <1>1, FittedIs
<1>3. /\ t.nlocal \in 0 .. t.nmax
      /\ 0 .. t.nlocal - 1 \subseteq L /\ Whole(t, L, q)
      /\ \A k \in L : t.bin[k] = Site2Bin(p, t.xyz[k])
      /\ \A k \in L \ (0 .. t.nlocal - 1) : IsGhost(t.bin[k])
  BY <1>1 DEF Fitted
<1>4. Keeps(t, L, Bins, t.binhead) /\ Free(t, q) /\ Elements(q) = (0 .. t.nmax - 1) \ L
  BY <1>2, <1>3, WholeIs
<1>5. q \in Seq(0 .. t.nmax - 1) /\ RunsDown(t.next, t.freehead, q)
  BY <1>4 DEF Free
<1>6. t.freehead # Nil => t.nmax - 1 \notin L
  <2>1. SUFFICES ASSUME t.freehead # Nil PROVE t.nmax - 1 \notin L
    OBVIOUS
  <2>2. Len(q) # 0 /\ Len(q) \in Nat
    BY <1>5, <2>1 DEF RunsDown
  <2>3. q[Len(q)] = t.nmax - 1
    BY <1>1, <2>2 DEF ToTheEnd
  <2>4. q[Len(q)] \in Elements(q)
    BY <2>2 DEF Elements
  <2> QED BY <1>4, <2>3, <2>4
<1>7. t.nlocal = t.nmax => t.freehead = Nil
  <2>1. SUFFICES ASSUME t.nlocal = t.nmax PROVE t.freehead = Nil
    OBVIOUS
  <2>2. Elements(q) = {}
    BY <1>3, <1>4, <2>1
  <2>3. Len(q) = 0
    <3> SUFFICES ASSUME Len(q) # 0 PROVE FALSE
      OBVIOUS
    <3>1. 1 \in 1 .. Len(q)
      BY <1>5
    <3>2. q[1] \in Elements(q)
      BY <3>1 DEF Elements
    <3> QED BY <2>2, <3>2
  <2> QED BY <1>5, <2>3 DEF RunsDown
<1>8. NoPlace \in Bins
  <2>1. NBinX \in Nat \ {0} /\ NBinY \in Nat \ {0}
    BY GridIs DEF Axis
  <2> QED BY <2>1 DEF NoPlace, Bins
<1>9. /\ u \in SiteTables(Bins) /\ Larger(u, t) /\ Keeps(u, L, Bins, t.binhead)
      /\ u.freehead = t.freehead \/ (t.freehead = Nil /\ u.freehead \in t.nmax .. u.nmax - 1)
  BY <1>2, <1>4, <1>6, <1>8, GrowToKeeps
<1>10. /\ t.nmax <= u.nmax /\ u.nlocal = t.nlocal
       /\ \A k \in 0 .. t.nmax - 1 : u.id[k] = t.id[k] /\ u.xyz[k] = t.xyz[k] /\ u.bin[k] = t.bin[k]
  BY <1>9 DEF Larger, Same
<1>11. u.nmax \in Nat
  BY <1>9, TableIs
<1>12. u.nlocal \in 0 .. u.nmax /\ 0 .. u.nlocal - 1 \subseteq L
  BY <1>2, <1>3, <1>10, <1>11
<1>13. u.nlocal = u.nmax => u.freehead = Nil
  <2>1. SUFFICES ASSUME u.nlocal = u.nmax PROVE u.freehead = Nil
    OBVIOUS
  <2>2. t.nlocal = t.nmax /\ u.nmax = t.nmax
    BY <1>2, <1>3, <1>10, <1>11, <2>1
  <2> QED BY <1>2, <1>7, <1>9, <2>2
<1>14. ASSUME NEW k \in 0 .. u.nlocal - 1
       PROVE  /\ Close(p, u.xyz[k]) /\ u.bin[k] = Site2Bin(p, u.xyz[k])
              /\ IsGhost(u.bin[k]) => SectorGhost(s, u.bin[k])
  <2>1. k \in L /\ k \in 0 .. t.nmax - 1 /\ k \in 0 .. t.nlocal - 1
    BY <1>2, <1>3, <1>10
  <2>2. u.xyz[k] = t.xyz[k] /\ u.bin[k] = t.bin[k]
    BY <1>10, <2>1
  <2>3. Close(p, t.xyz[k]) /\ (IsGhost(t.bin[k]) => SectorGhost(s, t.bin[k]))
    BY <1>1, <2>1 DEF InReach
  <2> QED BY <1>3, <2>1, <2>2, <2>3
<1>15. \A k \in L \ (0 .. u.nlocal - 1) : IsGhost(u.bin[k])
  BY <1>2, <1>3, <1>10
<1>16. Bins \ {} = Bins
  OBVIOUS
<1>17. Packing(p, s, u, L, t.binhead, {}, {})
  BY <1>9, <1>12, <1>13, <1>14, <1>15, <1>16 DEF Packing
<1>18. \A k \in 0 .. t.nlocal - 1 : u.id[k] = t.id[k]
  BY <1>2, <1>3, <1>10
<1> QED BY <1>10, <1>17, <1>18

(* The sites that are still to be met on the way through bin b.            *)
ToPass(u, S, b) == {k \in S : u.bin[k] = b}

(* The sites of a ghost bin that are still to be packed.                   *)
LEMMA ToPassIs ==
    ASSUME NEW p, NEW s, NEW u, NEW S, NEW h, NEW D, NEW C, Packing(p, s, u, S, h, D, C), NEW b
    PROVE  /\ u.nmax \in Nat /\ u \in TableOf(u.nmax, Bins) /\ S \subseteq 0 .. u.nmax - 1
           /\ IsFiniteSet(ToPass(u, S, b)) /\ Cardinality(ToPass(u, S, b)) \in 0 .. u.nmax
           /\ DOMAIN h = Bins
           /\ u.bin \in [0 .. u.nmax - 1 -> Bins]
<1>1. u.nmax \in Nat /\ u \in TableOf(u.nmax, Bins)
  BY TableIs DEF Packing
<1>2. S \subseteq 0 .. u.nmax - 1 /\ DOMAIN h = DOMAIN u.binhead
  BY DEF Packing, Keeps
<1>3. DOMAIN u.binhead = Bins /\ u.bin \in [0 .. u.nmax - 1 -> Bins]
  BY <1>1 DEF TableOf
<1>4. IsFiniteSet(0 .. u.nmax - 1) /\ Cardinality(0 .. u.nmax - 1) = u.nmax
  <2>1. 0 \in Int /\ u.nmax - 1 \in Int
    BY <1>1
  <2>2. /\ IsFiniteSet(0 .. u.nmax - 1)
        /\ Cardinality(0 .. u.nmax - 1) = IF 0 > u.nmax - 1 THEN 0 ELSE (u.nmax - 1) - 0 + 1
    BY <2>1, FS_Interval, Zenon
  <2> QED BY <1>1, <2>2
<1> DEFINE own == 0 .. u.nmax - 1
           X == ToPass(u, S, b)
<1>5. X \subseteq own
  BY <1>2 DEF ToPass
<1>6. IsFiniteSet(own) /\ Cardinality(own) = u.nmax
  BY <1>4
<1> HIDE DEF own, X
<1>7. IsFiniteSet(X) /\ Cardinality(X) <= Cardinality(own)
  BY <1>5, <1>6, FS_Subset
<1>8. Cardinality(X) \in Nat
  BY <1>7, FS_CardinalityType
<1> QED BY <1>1, <1>2, <1>3, <1>6, <1>7, <1>8 DEF X

(* The first of them.                                                      *)
LEMMA ToPassHead ==
    ASSUME NEW p, NEW s, NEW u, NEW S, NEW h, NEW D, NEW C, Packing(p, s, u, S, h, D, C),
           NEW b \in Bins, NEW m, m = h[b]
    PROVE  /\ m # Nil => /\ m \in S /\ m \in 0 .. u.nmax - 1 /\ u.bin[m] = b /\ u.prev[m] \notin S
                         /\ m \in ToPass(u, S, b)
           /\ m = Nil => ToPass(u, S, b) = {}
           /\ Nil \notin S
<1>1. /\ u.nmax \in Nat /\ u \in TableOf(u.nmax, Bins) /\ S \subseteq 0 .. u.nmax - 1
      /\ DOMAIN h = Bins
  BY ToPassIs, Zenon
<1>2. Keeps(u, S, Bins \ C, h)
  BY DEF Packing
<1>3. /\ Nil \notin S
      /\ \A a \in DOMAIN h : h[a] # Nil => h[a] \in S /\ u.bin[h[a]] = a
      /\ \A a \in DOMAIN h : h[a] # Nil => u.prev[h[a]] \notin S
  BY <1>2, NextOf
<1>4. m # Nil => /\ m \in S /\ m \in 0 .. u.nmax - 1 /\ u.bin[m] = b /\ u.prev[m] \notin S
                 /\ m \in ToPass(u, S, b)
  BY <1>1, <1>3 DEF ToPass
<1>5. ASSUME m = Nil PROVE ToPass(u, S, b) = {}
  <2>1. Listed(h, u.next, u.prev, u.bin, S)
    BY <1>2 DEF Keeps
  <2>2. IsFiniteSet(S) /\ S \subseteq Int
    <3>1. 0 \in Int /\ u.nmax - 1 \in Int
      BY <1>1
    <3>2. IsFiniteSet(0 .. u.nmax - 1)
      BY <3>1, FS_Interval, Zenon
    <3>3. S \subseteq Int
      BY <1>1
    <3> QED BY <1>1, <3>2, <3>3, FS_Subset
  <2>3. b \in DOMAIN h
    BY <1>1
  <2>4. PICK q : IsListOf(q, h[b], u.next, u.prev, u.bin, S, b)
    BY <1>3, <2>1, <2>2, <2>3, ListOf
  <2>5. /\ q \in Seq(S) /\ RunsDown(u.next, h[b], q) /\ Elements(q) = {k \in S : u.bin[k] = b}
    BY <2>4 DEF IsListOf, ListFrom
  <2>6. Len(q) = 0
    <3> SUFFICES ASSUME Len(q) # 0 PROVE FALSE
      OBVIOUS
    <3>1. 1 \in 1 .. Len(q)
      BY <2>5
    <3>2. q[1] \in S
      BY <2>5, <3>1
    <3>3. h[b] = q[1]
      BY <2>5 DEF RunsDown
    <3> QED BY <1>3, <1>5, <3>2, <3>3
  <2> QED BY <2>5, <2>6 DEF Elements, ToPass
<1> QED BY <1>3, <1>4, <1>5

(* From count sites that are still to be met, the walk goes on to m.       *)
Onward(p, s, u, D, b, m, count) ==
    \E S, h : /\ Packing(p, s, u, S, h, D, D \cup {b}) /\ h[b] = m
              /\ Cardinality(ToPass(u, S, b)) = count - 1

(* A site that is not owned is passed.                                     *)
LEMMA PassGhost ==
    ASSUME NEW p, NEW s, NEW u, NEW S, NEW h, NEW D, NEW b \in Bins,
           Packing(p, s, u, S, h, D, D \cup {b}), NEW m, m = h[b], m # Nil, ~ (m < u.nlocal)
    PROVE  Onward(p, s, u, D, b, u.next[m], Cardinality(ToPass(u, S, b)))
<1> DEFINE S2 == S \ {m}
           h2 == [h EXCEPT ![b] = u.next[m]]
<1>1. /\ u.nmax \in Nat /\ u \in TableOf(u.nmax, Bins) /\ S \subseteq 0 .. u.nmax - 1
      /\ DOMAIN h = Bins /\ IsFiniteSet(ToPass(u, S, b))
  BY ToPassIs, Zenon
<1>2. m \in S /\ m \in 0 .. u.nmax - 1 /\ m \in ToPass(u, S, b)
  BY ToPassHead
<1>3. Keeps(u, S, Bins \ (D \cup {b}), h)
  BY DEF Packing
<1>4. Keeps(u, S2, Bins \ (D \cup {b}), h2)
  <2>1. b \in DOMAIN h /\ b \notin Bins \ (D \cup {b}) /\ h[b] # Nil
    BY <1>1
  <2>2. Keeps(u, S \ {h[b]}, Bins \ (D \cup {b}), [h EXCEPT ![b] = u.next[h[b]]])
    BY <1>3, <2>1, PassHead, Zenon
  <2> QED BY <2>2
<1>5. u.nlocal \in 0 .. u.nmax
  BY DEF Packing
<1>6. Packing(p, s, u, S2, h2, D, D \cup {b})
  <2>1. 0 .. u.nlocal - 1 \subseteq S2
    <3>1. m \notin 0 .. u.nlocal - 1
      BY <1>1, <1>2, <1>5
    <3>2. 0 .. u.nlocal - 1 \subseteq S
      BY DEF Packing
    <3> QED BY <3>1, <3>2
  <2> HIDE DEF h2
  <2> QED BY <1>4, <2>1 DEF Packing
<1>7. h2[b] = u.next[m]
  BY <1>1
<1>8. ToPass(u, S2, b) = ToPass(u, S, b) \ {m}
  BY DEF ToPass
<1>9. Cardinality(ToPass(u, S, b) \ {m}) = Cardinality(ToPass(u, S, b)) - 1
  BY <1>1, <1>2, FS_RemoveElement
<1> HIDE DEF S2, h2
<1> QED BY <1>6, <1>7, <1>8, <1>9 DEF Onward

(* An owned site is packed and deleted.                                    *)
LEMMA PackOwned ==
    ASSUME NEW p, NEW s, NEW u, NEW S, NEW h, NEW D, NEW b \in Bins,
           Packing(p, s, u, S, h, D, D \cup {b}), NEW m, m = h[b], m # Nil, m < u.nlocal,
           NEW v, v = DeleteOwned(u, m)
    PROVE  /\ Onward(p, s, v, D, b, NextAfterDelete(u, m), Cardinality(ToPass(u, S, b)))
           /\ Shed(v, u, m)
<1> DEFINE n == u.nmax
           last == u.nlocal - 1
           B == Bins \ (D \cup {b})
           S2 == S \ {last}
           h1 == [h EXCEPT ![u.bin[m]] = IF u.prev[m] \notin S THEN u.next[m] ELSE @]
           h2 == [a \in DOMAIN h |-> IF h1[a] = last THEN m ELSE h1[a]]
<1>1. /\ n \in Nat /\ u \in TableOf(n, Bins) /\ S \subseteq 0 .. n - 1
      /\ DOMAIN h = Bins /\ IsFiniteSet(ToPass(u, S, b)) /\ u.bin \in [0 .. n - 1 -> Bins]
  BY ToPassIs, Zenon
<1>2. /\ m \in S /\ m \in 0 .. n - 1 /\ u.bin[m] = b /\ u.prev[m] \notin S
      /\ m \in ToPass(u, S, b) /\ Nil \notin S
  BY ToPassHead
<1>3. /\ Keeps(u, S, B, h) /\ u.nlocal \in 0 .. n /\ 0 .. u.nlocal - 1 \subseteq S
      /\ \A k \in S : u.bin[k] \notin D
      /\ \A k \in S \ (0 .. u.nlocal - 1) : IsGhost(u.bin[k])
      /\ \A k \in 0 .. u.nlocal - 1 :
          /\ Close(p, u.xyz[k]) /\ u.bin[k] = Site2Bin(p, u.xyz[k])
          /\ IsGhost(u.bin[k]) => SectorGhost(s, u.bin[k])
  BY DEF Packing
<1>4. last \in 0 .. u.nlocal - 1 /\ last \in S /\ last \in 0 .. n - 1 /\ last \in Nat
  BY <1>1, <1>2, <1>3
<1>5. B \subseteq Bins /\ u.bin[m] \notin B
  BY <1>2
<1>6. h1 = [h EXCEPT ![b] = u.next[m]]
  BY <1>1, <1>2
<1>7. \A a \in DOMAIN h : h2[a] = IF h1[a] = last THEN m ELSE h1[a]
  OBVIOUS
<1>8. /\ DeleteOwned(u, m) \in TableOf(n, Bins)
      /\ Keeps(DeleteOwned(u, m), S2, B, h2)
      /\ v.nlocal = last /\ v.freehead = last
      /\ v.bin = [u.bin EXCEPT ![m] = u.bin[last]]
      /\ v.id = [u.id EXCEPT ![m] = u.id[last]]
      /\ v.xyz = [u.xyz EXCEPT ![m] = u.xyz[last]]
  <2>1. u.nlocal - 1 \in S
    BY <1>4
  <2>2. m = u.nlocal - 1 => u.bin[m] \notin B /\ u.prev[m] \notin S
    BY <1>2, <1>5
  <2>3. h1 = [h EXCEPT ![u.bin[m]] = IF u.prev[m] \notin S THEN u.next[m] ELSE @]
    OBVIOUS
  <2>4. Without(h1, h, u, m, S) /\ Anew(h2, h, h1, u.nlocal - 1, m) /\ Parting(u, m, S, B)
    BY <2>2 DEF Without, Anew, Parting
  <2> HIDE DEF n, B, h1, h2
  <2>5. v \in TableOf(n, Bins) /\ Keeps(v, S \ {u.nlocal - 1}, B, h2) /\ Vacated(v, u, m)
    BY <1>1, <1>2, <1>3, <1>5, <2>1, <2>2, <2>4, DeleteOwnedKeeps
  <2> QED BY <2>5 DEF Vacated
<1>9. h2[b] = NextAfterDelete(u, m)
  BY <1>1, <1>6, <1>7 DEF NextAfterDelete
<1>10. v \in TableOf(n, Bins) /\ v.nmax = n /\ v \in SiteTables(Bins)
  BY <1>1, <1>8, TableIn
<1>11. u.xyz \in [0 .. n - 1 -> Int \X Int] /\ u.id \in [0 .. n - 1 -> Nat]
  BY <1>1 DEF TableOf
<1>12. \A k \in 0 .. n - 1 : /\ v.bin[k] = IF k = m THEN u.bin[last] ELSE u.bin[k]
                             /\ v.xyz[k] = IF k = m THEN u.xyz[last] ELSE u.xyz[k]
  BY <1>1, <1>8, <1>11
<1>13. Packing(p, s, v, S2, h2, D, D \cup {b})
  <2>1. v.nlocal \in 0 .. v.nmax /\ 0 .. v.nlocal - 1 \subseteq S2 /\ v.nlocal # v.nmax
    BY <1>1, <1>3, <1>4, <1>8, <1>10
  <2>2. ASSUME NEW k \in S2 PROVE v.bin[k] \notin D
    BY <1>1, <1>3, <1>4, <1>12
  <2>3. ASSUME NEW k \in S2 \ (0 .. v.nlocal - 1) PROVE IsGhost(v.bin[k])
    <3>1. k \in S /\ k \in 0 .. n - 1 /\ k # last /\ k \notin 0 .. last - 1
      BY <1>1, <1>8
    <3>2. k \notin 0 .. u.nlocal - 1
      BY <1>1, <1>3, <3>1
    <3>3. k # m
      BY <1>1, <1>2, <1>3, <3>2
    <3> QED BY <1>3, <1>12, <3>1, <3>2, <3>3
  <2>4. ASSUME NEW k \in 0 .. v.nlocal - 1
        PROVE  /\ Close(p, v.xyz[k]) /\ v.bin[k] = Site2Bin(p, v.xyz[k])
               /\ IsGhost(v.bin[k]) => SectorGhost(s, v.bin[k])
    <3>1. k \in 0 .. u.nlocal - 1 /\ k \in 0 .. n - 1
      BY <1>1, <1>3, <1>4, <1>8
    <3>2. PICK l \in 0 .. u.nlocal - 1 : v.bin[k] = u.bin[l] /\ v.xyz[k] = u.xyz[l]
      BY <1>4, <1>12, <3>1
    <3> QED BY <1>3, <3>2
  <2>5. Keeps(v, S2, B, h2)
    BY <1>8
  <2> HIDE DEF h2, S2
  <2> QED BY <1>10, <2>1, <2>2, <2>3, <2>4, <2>5 DEF Packing
<1>14. Cardinality(ToPass(v, S2, b)) = Cardinality(ToPass(u, S, b)) - 1
  <2> DEFINE X == ToPass(u, S, b)
  <2>1. \A k \in S : k \in 0 .. n - 1
    BY <1>1
  <2>2. CASE u.bin[last] = b
    <3>1. ToPass(v, S2, b) = X \ {last} /\ last \in X
      BY <1>2, <1>4, <1>12, <2>1, <2>2 DEF ToPass
    <3>2. IsFiniteSet(X)
      BY <1>1 DEF ToPass
    <3> HIDE DEF X
    <3>3. Cardinality(X \ {last}) = Cardinality(X) - 1
      BY <3>1, <3>2, FS_RemoveElement
    <3> QED BY <3>1, <3>3 DEF X
  <2>3. CASE u.bin[last] # b
    <3>1. ToPass(v, S2, b) = X \ {m} /\ m \in X
      BY <1>2, <1>4, <1>12, <2>1, <2>3 DEF ToPass
    <3> HIDE DEF X
    <3>2. Cardinality(X \ {m}) = Cardinality(X) - 1
      BY <1>1, <3>1, FS_RemoveElement DEF X
    <3> QED BY <3>1, <3>2 DEF X
  <2> QED BY <2>2, <2>3
<1>15. Shed(v, u, m)
  BY <1>8, <1>10 DEF Shed
<1> HIDE DEF h2, S2
<1> QED BY <1>9, <1>13, <1>14, <1>15 DEF Onward

(* What is packed of site m of bin e.of, and a step of the walk.           *)
ParcelOf(p, u, m, e) ==
    [id |-> u.id[m], bin |-> e.to, to |-> e.proc, x |-> Minus(u.xyz[m], Shift(p, e.of))]
WalkFrom(r, e) == [t |-> r.t, out |-> r.out, m |-> r.t.binhead[e.of]]
WalkOn(p, e, w) ==
    IF w.m = Nil THEN w
    ELSE IF w.m < w.t.nlocal
         THEN [t |-> DeleteOwned(w.t, w.m), out |-> Append(w.out, ParcelOf(p, w.t, w.m, e)),
               m |-> NextAfterDelete(w.t, w.m)]
         ELSE [w EXCEPT !.m = w.t.next[w.m]]

(* Packing a bin takes one step per site, and its walk ends within twice   *)
(* the slots.                                                              *)
LEMMA DrainSteps ==
    ASSUME NEW p, NEW r, NEW e, NEW n \in Nat, n = 2 * r.t.nmax,
           NEW V, WalkFrom(r, e) \in V[0],
           \A k \in Nat : \A w \in V[k] : WalkOn(p, e, w) \in V[k + 1]
    PROVE  \E w \in V[n] : Drain(p, r, e) = [t |-> w.t, out |-> w.out]
<1> DEFINE Base == WalkFrom(r, e)
           On(w) == WalkOn(p, e, w)
           Eq(g) == g = [k \in Nat |-> IF k = 0 THEN Base ELSE On(g[k - 1])]
           G == CHOOSE g : Eq(g)
           W == UNION {V[k] : k \in Nat}
           step == [c \in Nat \X W |-> On(c[2])]
<1>1. Drain(p, r, e) = [t |-> G[n].t, out |-> G[n].out]
  BY DEF Drain, WalkFrom, WalkOn, ParcelOf
<1>2. Base \in V[0] /\ \A k \in Nat : \A w \in V[k] : On(w) \in V[k + 1]
  OBVIOUS
<1> HIDE DEF Base, On
<1>3. ASSUME NEW k \in Nat, NEW w \in V[k] PROVE step[<<k, w>>] = On(w)
  <2>1. <<k, w>> \in Nat \X W
    OBVIOUS
  <2> HIDE DEF W
  <2> QED BY <2>1
<1> HIDE DEF step
<1>4. \E g : Eq(g)
  <2>1. \A k \in Nat : \A w \in V[k] : step[<<k, w>>] \in V[k + 1]
    BY <1>2, <1>3
  <2>2. PICK f : StepsTo(f, Base, step) /\ \A k \in Nat : f[k] \in V[k]
    BY <1>2, <2>1, StepsTable, Zenon
  <2>3. ASSUME NEW k \in Nat PROVE f[k] = IF k = 0 THEN Base ELSE On(f[k - 1])
    <3>1. f[k] = IF k = 0 THEN Base ELSE step[<<k - 1, f[k - 1]>>]
      BY <2>2 DEF StepsTo
    <3>2. k # 0 => k - 1 \in Nat /\ f[k - 1] \in V[k - 1]
      BY <2>2
    <3>3. k # 0 => step[<<k - 1, f[k - 1]>>] = On(f[k - 1])
      BY <1>3, <3>2
    <3> QED BY <3>1, <3>3
  <2>4. f = [k \in Nat |-> f[k]]
    BY <2>2 DEF StepsTo
  <2> QED BY <2>3, <2>4
<1>5. Eq(G)
  BY <1>4
<1> HIDE DEF G
<1>6. G[0] = Base /\ \A k \in Nat : G[k + 1] = On(G[k])
  <2>1. \A k \in Nat : G[k] = IF k = 0 THEN Base ELSE On(G[k - 1])
    BY <1>5
  <2>2. \A k \in Nat : k + 1 \in Nat /\ k + 1 # 0 /\ (k + 1) - 1 = k
    OBVIOUS
  <2> QED BY <2>1, <2>2
<1>7. G[0] \in V[0] /\ \A k \in Nat : G[k] \in V[k] => G[k + 1] \in V[k + 1]
  BY <1>2, <1>6
<1>8. G[n] \in V[n]
  BY <1>7, StepsValues, Zenon
<1> QED BY <1>1, <1>8

(* What p may send: sites of other processes, for the bins they are in.    *)
Parcel(p) ==
    {c \in [id : Nat, bin : Bins, to : Proc, x : Point] :
        c.to # p /\ InDomain(c.to, c.x) /\ Site2Bin(c.to, c.x) = c.bin}
Ids(out) == {out[k].id : k \in 1 .. Len(out)}

(* The sites of names N are either still owned or sent, and only once.     *)
Sent(p, u, out, N) ==
    /\ out \in Seq(Parcel(p)) /\ \A j, k \in 1 .. Len(out) : out[j].id = out[k].id => j = k
    /\ Named(u) /\ Ids(out) \cap Names(u) = {} /\ Ids(out) \cup Names(u) = N

(* One more parcel: the id goes from the table to the parcels.             *)
LEMMA SentOne ==
    ASSUME NEW p, NEW n \in Nat, NEW u, u.nlocal \in 0 .. n, u.nmax = n,
           u.id \in [0 .. n - 1 -> Nat], NEW out, NEW N, Sent(p, u, out, N),
           NEW m \in 0 .. u.nlocal - 1, NEW v, Shed(v, u, m),
           NEW c \in Parcel(p), c.id = u.id[m]
    PROVE  Sent(p, v, Append(out, c), N)
<1>1. /\ out \in Seq(Parcel(p)) /\ \A j, k \in 1 .. Len(out) : out[j].id = out[k].id => j = k
      /\ Named(u) /\ Ids(out) \cap Names(u) = {} /\ Ids(out) \cup Names(u) = N
  BY DEF Sent
<1>2. Named(v) /\ u.id[m] \notin Names(v) /\ Names(u) = Names(v) \cup {u.id[m]}
  BY <1>1, ShedNames, SMTT(30)
<1> DEFINE new == Append(out, c)
<1>3. /\ new \in Seq(Parcel(p)) /\ Len(new) = Len(out) + 1 /\ Len(out) \in Nat
      /\ new[Len(out) + 1] = c /\ \A k \in 1 .. Len(out) : new[k] = out[k]
  BY <1>1
<1> HIDE DEF new
<1>4. \A k \in 1 .. Len(new) : k \in 1 .. Len(out) \/ k = Len(out) + 1
  BY <1>3
<1>5. \A k \in 1 .. Len(out) : k \in 1 .. Len(new) /\ out[k].id \in Ids(out)
  BY <1>3 DEF Ids
<1>6. Len(out) + 1 \in 1 .. Len(new)
  BY <1>3
<1>7. Ids(new) = Ids(out) \cup {c.id}
  <2>1. ASSUME NEW k \in 1 .. Len(new) PROVE new[k].id \in Ids(out) \cup {c.id}
    BY <1>3, <1>4, <1>5
  <2>2. ASSUME NEW k \in 1 .. Len(out) PROVE out[k].id \in Ids(new)
    BY <1>3, <1>5 DEF Ids
  <2>3. c.id \in Ids(new)
    BY <1>3, <1>6 DEF Ids
  <2> QED BY <2>1, <2>2, <2>3 DEF Ids
<1>8. c.id \notin Ids(out)
  BY <1>1, <1>2
<1>9. ASSUME NEW j \in 1 .. Len(new), NEW k \in 1 .. Len(new), new[j].id = new[k].id
      PROVE  j = k
  BY <1>1, <1>3, <1>4, <1>5, <1>8, <1>9
<1>10. Ids(new) \cap Names(v) = {} /\ Ids(new) \cup Names(v) = N
  BY <1>1, <1>2, <1>7
<1> QED BY <1>2, <1>3, <1>9, <1>10 DEF Sent, new

(* The walk through bin b after k steps.                                   *)
Walks(p, s, w, D, b, N, size, k) ==
    /\ w = [t |-> w.t, out |-> w.out, m |-> w.m] /\ w.t.nmax = size /\ Sent(p, w.t, w.out, N)
    /\ \E S, h : /\ Packing(p, s, w.t, S, h, D, D \cup {b}) /\ w.m = h[b]
                 /\ w.m # Nil => Cardinality(ToPass(w.t, S, b)) <= size - k

(* The parcel of an owned site in a ghost bin is for the process whose box *)
(* it has moved to.                                                        *)
LEMMA ParcelIs ==
    ASSUME layout \in Layouts, NEW p \in Proc, NEW e \in Returns(p), e.proc # p,
           NEW u \in SiteTables(Bins), NEW m \in 0 .. u.nmax - 1, Close(p, u.xyz[m]),
           u.bin[m] = e.of, u.bin[m] = Site2Bin(p, u.xyz[m])
    PROVE  ParcelOf(p, u, m, e) \in Parcel(p) /\ ParcelOf(p, u, m, e).id = u.id[m]
<1>1. u.nmax \in Nat /\ u \in TableOf(u.nmax, Bins)
  BY TableIs
<1>2. u.xyz \in [0 .. u.nmax - 1 -> Int \X Int] /\ u.id \in [0 .. u.nmax - 1 -> Nat]
  BY <1>1 DEF TableOf
<1> DEFINE x == u.xyz[m]
           g == e.of
           q == e.proc
           y == Minus(x, Shift(p, g))
<1>3. x \in Point /\ u.id[m] \in Nat
  BY <1>2 DEF Point
<1>4. g = Site2Bin(p, x) /\ Close(p, x)
  OBVIOUS
<1>5. e.to = GhostIndex(g) /\ q = NeighProc(p, 1, g) /\ e.to \in Bins /\ q \in Proc
  BY DEF Returns
<1> HIDE DEF x, g, q
<1>6. y \in Point /\ InDomain(q, y) /\ Site2Bin(q, y) = GhostIndex(g)
  BY <1>3, <1>4, <1>5, HomeBin
<1>7. ParcelOf(p, u, m, e) = [id |-> u.id[m], bin |-> e.to, to |-> q, x |-> y]
  BY DEF ParcelOf, x, g, q
<1> HIDE DEF y
<1>8. q # p
  BY DEF q
<1> QED BY <1>3, <1>5, <1>6, <1>7, <1>8 DEF Parcel

(* One step of the walk along a ghost bin: the owned site it is at is      *)
(* packed and deleted, and the walk goes on at the site behind it although *)
(* the last site has taken the slot.                                       *)
LEMMA WalkOnIs ==
    ASSUME layout \in Layouts, NEW p \in Proc, NEW s, NEW e \in Returns(p), e.proc # p,
           NEW D, NEW N, NEW size \in Nat, NEW k \in Nat,
           NEW b, b = e.of, NEW w, Walks(p, s, w, D, b, N, size, k)
    PROVE  Walks(p, s, WalkOn(p, e, w), D, b, N, size, k + 1)
<1> DEFINE u == w.t
           m == w.m
           C == D \cup {b}
<1>1. /\ w = [t |-> u, out |-> w.out, m |-> m] /\ u.nmax = size /\ Sent(p, u, w.out, N)
  BY DEF Walks
<1>2. PICK S, h : /\ Packing(p, s, u, S, h, D, C) /\ m = h[b]
                  /\ m # Nil => Cardinality(ToPass(u, S, b)) <= size - k
  BY DEF Walks
<1>3. b \in Bins
  BY DEF Returns, GhostBins
<1>4. /\ u \in TableOf(size, Bins) /\ S \subseteq 0 .. size - 1
      /\ Cardinality(ToPass(u, S, b)) \in 0 .. size
      /\ u.id \in [0 .. size - 1 -> Nat]
  <2>1. /\ u \in TableOf(u.nmax, Bins) /\ S \subseteq 0 .. u.nmax - 1
        /\ Cardinality(ToPass(u, S, b)) \in 0 .. u.nmax
    BY <1>2, ToPassIs, Zenon
  <2>2. u.id \in [0 .. u.nmax - 1 -> Nat]
    BY <2>1 DEF TableOf
  <2> QED BY <1>1, <2>1, <2>2
<1> HIDE DEF u, m, C
<1>5. CASE m = Nil
  <2>1. WalkOn(p, e, w) = w
    BY <1>5 DEF WalkOn, m
  <2>2. w.m = h[b] /\ ~ (w.m # Nil)
    BY <1>2, <1>5 DEF m
  <2> QED BY <1>1, <1>2, <2>1, <2>2 DEF Walks, u, m, C
<1>6. CASE m # Nil /\ m < u.nlocal
  <2> DEFINE v == DeleteOwned(u, m)
             c == ParcelOf(p, u, m, e)
             z == [t |-> v, out |-> Append(w.out, c), m |-> NextAfterDelete(u, m)]
  <2>1. WalkOn(p, e, w) = z
    BY <1>6 DEF WalkOn, u, m
  <2>2. /\ Onward(p, s, v, D, b, NextAfterDelete(u, m), Cardinality(ToPass(u, S, b)))
        /\ Shed(v, u, m)
    <3>1. v = DeleteOwned(u, m) /\ Packing(p, s, u, S, h, D, D \cup {b})
      BY <1>2 DEF C
    <3> HIDE DEF v
    <3> QED BY <1>2, <1>3, <1>6, <3>1, PackOwned
  <2>3. m \in 0 .. size - 1 /\ u.bin[m] = b
    BY <1>1, <1>2, <1>3, <1>6, ToPassHead DEF C
  <2>4. /\ u \in SiteTables(Bins) /\ u.nlocal \in 0 .. size
        /\ \A i \in 0 .. u.nlocal - 1 : Close(p, u.xyz[i]) /\ u.bin[i] = Site2Bin(p, u.xyz[i])
    BY <1>1, <1>2 DEF Packing
  <2>5. m \in 0 .. u.nlocal - 1
    BY <1>6, <2>3, <2>4
  <2> HIDE DEF v, c
  <2>6. c \in Parcel(p) /\ c.id = u.id[m]
    BY <1>1, <2>3, <2>4, <2>5, ParcelIs DEF c
  <2>7. Sent(p, v, Append(w.out, c), N)
    BY <1>1, <1>4, <2>2, <2>4, <2>5, <2>6, SentOne
  <2>8. v.nmax = size
    BY <1>1, <2>2 DEF Shed
  <2>9. z.t = v /\ z.out = Append(w.out, c) /\ z.m = NextAfterDelete(u, m)
        /\ z = [t |-> z.t, out |-> z.out, m |-> z.m]
    OBVIOUS
  <2> HIDE DEF z
  <2>10. PICK S2, h2 : /\ Packing(p, s, v, S2, h2, D, D \cup {b})
                       /\ h2[b] = NextAfterDelete(u, m)
                       /\ Cardinality(ToPass(v, S2, b)) = Cardinality(ToPass(u, S, b)) - 1
    BY <2>2 DEF Onward
  <2>11. Cardinality(ToPass(v, S2, b)) <= size - (k + 1)
    BY <1>2, <1>4, <1>6, <2>10
  <2>12. Walks(p, s, z, D, b, N, size, k + 1)
    BY <2>7, <2>8, <2>9, <2>10, <2>11 DEF Walks
  <2> QED BY <2>1, <2>12
<1>7. CASE m # Nil /\ ~ (m < u.nlocal)
  <2> DEFINE z == [w EXCEPT !.m = u.next[m]]
  <2>1. WalkOn(p, e, w) = z
    BY <1>7 DEF WalkOn, u, m
  <2>2. z.t = u /\ z.out = w.out /\ z.m = u.next[m] /\ z = [t |-> z.t, out |-> z.out, m |-> z.m]
    BY <1>1
  <2> HIDE DEF z
  <2>3. PICK S2, h2 : /\ Packing(p, s, u, S2, h2, D, D \cup {b}) /\ h2[b] = u.next[m]
                      /\ Cardinality(ToPass(u, S2, b)) = Cardinality(ToPass(u, S, b)) - 1
    <3>1. Packing(p, s, u, S, h, D, D \cup {b})
      BY <1>2 DEF C
    <3>2. Onward(p, s, u, D, b, u.next[m], Cardinality(ToPass(u, S, b)))
      BY <1>2, <1>3, <1>7, <3>1, PassGhost
    <3> QED BY <3>2 DEF Onward
  <2>4. Cardinality(ToPass(u, S2, b)) <= size - (k + 1)
    BY <1>2, <1>4, <1>7, <2>3
  <2>5. Walks(p, s, z, D, b, N, size, k + 1)
    BY <1>1, <2>2, <2>3, <2>4 DEF Walks
  <2> QED BY <2>1, <2>5
<1> QED BY <1>5, <1>6, <1>7

(* A ghost bin has been drained of its sites.                              *)
Draining(p, s, r, D, N) ==
    /\ r = [t |-> r.t, out |-> r.out] /\ Sent(p, r.t, r.out, N)
    /\ \E S, h : Packing(p, s, r.t, S, h, D, D)

(* The bin about to be packed.                                             *)
LEMMA MoreDrained ==
    ASSUME NEW p, NEW s, NEW u, NEW S, NEW h, NEW D, NEW b,
           Packing(p, s, u, S, h, D, D)
    PROVE  Packing(p, s, u, S, h, D, D \cup {b})
<1>1. Keeps(u, S, Bins \ D, h)
  BY DEF Packing
<1>2. Keeps(u, S, Bins \ (D \cup {b}), h)
  BY <1>1 DEF Keeps
<1> QED BY <1>2 DEF Packing

(* The bin that is packed holds no owned site.                             *)
LEMMA WholeDrained ==
    ASSUME NEW p, NEW s, NEW u, NEW S, NEW h, NEW D, NEW b,
           Packing(p, s, u, S, h, D, D \cup {b}), ToPass(u, S, b) = {}
    PROVE  Packing(p, s, u, S, h, D \cup {b}, D \cup {b})
<1>1. \A k \in S : u.bin[k] \notin D \cup {b}
  BY DEF Packing, ToPass
<1> QED BY <1>1 DEF Packing

(* Packing one ghost bin leaves no owned site in it and loses none.        *)
LEMMA DrainIs ==
    ASSUME layout \in Layouts, NEW p \in Proc, NEW s, NEW e \in Returns(p), e.proc # p,
           NEW D, e.of \notin D, NEW N, NEW r, Draining(p, s, r, D, N)
    PROVE  Draining(p, s, Drain(p, r, e), D \cup {e.of}, N)
<1> DEFINE b == e.of
           size == r.t.nmax
           n == 2 * size
           V == [k \in Nat |-> {w \in [t : SiteTables(Bins), out : Seq(Parcel(p)), m : Int] :
                                   Walks(p, s, w, D, b, N, size, k)}]
<1>1. r = [t |-> r.t, out |-> r.out] /\ Sent(p, r.t, r.out, N) /\ r.out \in Seq(Parcel(p))
  BY DEF Draining, Sent
<1>2. PICK S, h : Packing(p, s, r.t, S, h, D, D)
  BY DEF Draining
<1>3. Packing(p, s, r.t, S, h, D, D \cup {b})
  BY <1>2, MoreDrained
<1>4. b \in Bins
  BY DEF Returns, GhostBins
<1>5. /\ size \in Nat /\ r.t \in TableOf(size, Bins)
      /\ Cardinality(ToPass(r.t, S, b)) \in 0 .. size
  BY <1>3, ToPassIs
<1>6. r.t.binhead[b] = h[b] /\ r.t.binhead[b] \in Int
  <2>1. Keeps(r.t, S, Bins \ D, h)
    BY <1>2 DEF Packing
  <2>2. r.t.binhead \in [Bins -> Int]
    BY <1>5 DEF TableOf
  <2> QED BY <1>4, <2>1, <2>2 DEF Keeps
<1>7. WalkFrom(r, e) \in V[0]
  <2> DEFINE w == WalkFrom(r, e)
  <2>1. w.t = r.t /\ w.out = r.out /\ w.m = h[b] /\ w = [t |-> w.t, out |-> w.out, m |-> w.m]
    BY <1>6 DEF WalkFrom
  <2>2. r.t \in SiteTables(Bins) /\ h[b] \in Int
    BY <1>2, <1>6 DEF Packing
  <2>3. w \in [t : SiteTables(Bins), out : Seq(Parcel(p)), m : Int]
    BY <1>1, <2>1, <2>2
  <2>4. Cardinality(ToPass(r.t, S, b)) <= size - 0
    BY <1>5
  <2> HIDE DEF w, size
  <2>5. Walks(p, s, w, D, b, N, size, 0)
    BY <1>1, <1>3, <2>1, <2>4 DEF Walks, size
  <2> QED BY <2>3, <2>5 DEF w
<1>8. ASSUME NEW w, NEW k, Walks(p, s, w, D, b, N, size, k)
      PROVE  w \in [t : SiteTables(Bins), out : Seq(Parcel(p)), m : Int]
  <2>1. PICK S2, h2 : Packing(p, s, w.t, S2, h2, D, D \cup {b}) /\ w.m = h2[b]
    BY <1>8 DEF Walks
  <2>2. w.t \in SiteTables(Bins)
    BY <2>1 DEF Packing
  <2>3. w.m # Nil => w.m \in 0 .. w.t.nmax - 1
    BY <1>4, <2>1, ToPassHead
  <2>4. w.m \in Int
    BY <2>3 DEF Nil
  <2>5. w = [t |-> w.t, out |-> w.out, m |-> w.m] /\ w.out \in Seq(Parcel(p))
    BY <1>8 DEF Walks, Sent
  <2> QED BY <2>2, <2>4, <2>5
<1>9. ASSUME NEW k \in Nat, NEW w \in V[k] PROVE WalkOn(p, e, w) \in V[k + 1]
  <2>1. Walks(p, s, w, D, b, N, size, k)
    BY <1>9
  <2>2. Walks(p, s, WalkOn(p, e, w), D, b, N, size, k + 1)
    <3> HIDE DEF V
    <3>1. b = e.of
      OBVIOUS
    <3> HIDE DEF b, size
    <3> QED BY <1>5, <2>1, <3>1, WalkOnIs
  <2>3. WalkOn(p, e, w) \in [t : SiteTables(Bins), out : Seq(Parcel(p)), m : Int]
    <3> HIDE DEF V, size
    <3> QED BY <1>8, <2>2
  <2>4. k + 1 \in Nat
    OBVIOUS
  <2> HIDE DEF size
  <2> QED BY <2>2, <2>3, <2>4
<1>10. n \in Nat /\ n = 2 * r.t.nmax
  BY <1>5
<1>11. PICK w \in V[n] : Drain(p, r, e) = [t |-> w.t, out |-> w.out]
  <2> HIDE DEF V, n
  <2> QED BY <1>7, <1>9, <1>10, DrainSteps
<1>12. Walks(p, s, w, D, b, N, size, n)
  BY <1>10
<1> HIDE DEF V
<1>13. PICK S2, h2 : /\ Packing(p, s, w.t, S2, h2, D, D \cup {b}) /\ w.m = h2[b]
                     /\ w.m # Nil => Cardinality(ToPass(w.t, S2, b)) <= size - n
  BY <1>12 DEF Walks
<1>14. w.t.nmax = size /\ Sent(p, w.t, w.out, N)
  BY <1>12 DEF Walks
<1>15. /\ IsFiniteSet(ToPass(w.t, S2, b)) /\ Cardinality(ToPass(w.t, S2, b)) \in 0 .. size
  BY <1>13, <1>14, ToPassIs
<1>16. w.m = Nil
  <2>1. SUFFICES ASSUME w.m # Nil PROVE FALSE
    OBVIOUS
  <2>2. w.m \in ToPass(w.t, S2, b) /\ w.m \in 0 .. w.t.nmax - 1
    BY <1>4, <1>13, <2>1, ToPassHead
  <2>3. Cardinality(ToPass(w.t, S2, b)) # 0
    BY <1>15, <2>2, FS_EmptySet
  <2>4. size \in Nat /\ size # 0
    BY <1>5, <1>14, <2>2
  <2> QED BY <1>13, <1>15, <2>1, <2>3, <2>4
<1>17. ToPass(w.t, S2, b) = {}
  <2>1. Packing(p, s, w.t, S2, h2, D, D \cup {b}) /\ Nil = h2[b]
    BY <1>13, <1>16
  <2> QED BY <1>4, <2>1, ToPassHead
<1>18. Packing(p, s, w.t, S2, h2, D \cup {b}, D \cup {b})
  BY <1>13, <1>17, WholeDrained
<1> DEFINE z == [t |-> w.t, out |-> w.out]
<1>19. z.t = w.t /\ z.out = w.out /\ z = [t |-> z.t, out |-> z.out]
  OBVIOUS
<1>20. Draining(p, s, z, D \cup {b}, N)
  <2> HIDE DEF z, b
  <2> QED BY <1>14, <1>18, <1>19 DEF Draining
<1> QED BY <1>11, <1>20

(* The sends of p, one ghost bin after the other.                          *)
Unsent(p, s) ==
    [t |-> GrowTo(table[p], table[p].nlocal + NeedSum(p, s)), out |-> <<>>]

(* What packing one bin preserves holds after all of them are packed.      *)
LEMMA DrainedFold ==
    ASSUME NEW p, NEW s, NEW n \in Nat, DOMAIN PackList(p, s) = 1 .. n,
           NEW V, Unsent(p, s) \in V[{}],
           \A T \in SUBSET (1 .. n) : T # {} =>
              \A v \in V[T \ {Max(T)}] : Drain(p, v, PackList(p, s)[Max(T)]) \in V[T]
    PROVE  Drained(p, s) \in V[1 .. n]
<1> DEFINE Op(u, e) == Drain(p, u, e)
           Eq(g) == g = [T \in SUBSET DOMAIN PackList(p, s) |->
                           IF T = {} THEN Unsent(p, s) ELSE Op(g[T \ {Max(T)}], PackList(p, s)[Max(T)])]
           G == CHOOSE g : Eq(g)
           Dom == (SUBSET (1 .. n)) \X UNION {V[T] : T \in SUBSET (1 .. n)}
           step == [c \in Dom |-> Op(c[2], PackList(p, s)[Max(c[1])])]
<1>1. Drained(p, s) = G[DOMAIN PackList(p, s)]
  BY DEF Drained, PackList, Unsent, NeedSum, FoldLeft, MapThenFoldSet
<1>2. \A T \in SUBSET (1 .. n) : T # {} =>
        \A u \in V[T \ {Max(T)}] : Op(u, PackList(p, s)[Max(T)]) \in V[T]
  OBVIOUS
<1> HIDE DEF Op
<1>3. ASSUME NEW T \in SUBSET (1 .. n), NEW u \in V[T \ {Max(T)}]
      PROVE  step[<<T, u>>] = Op(u, PackList(p, s)[Max(T)])
  <2>1. T \ {Max(T)} \in SUBSET (1 .. n)
    OBVIOUS
  <2>2. <<T, u>> \in Dom
    BY <2>1
  <2> HIDE DEF Dom
  <2> QED BY <2>2
<1> HIDE DEF step
<1>4. \E g : Eq(g)
  <2>1. \A T \in SUBSET (1 .. n) : T # {} =>
           \A u \in V[T \ {Max(T)}] : step[<<T, u>>] \in V[T]
    <3>1. SUFFICES ASSUME NEW T \in SUBSET (1 .. n), T # {}, NEW u \in V[T \ {Max(T)}]
                   PROVE  step[<<T, u>>] \in V[T]
      BY Zenon
    <3>2. step[<<T, u>>] = Op(u, PackList(p, s)[Max(T)])
      BY <1>3, Zenon
    <3>3. Op(u, PackList(p, s)[Max(T)]) \in V[T]
      BY <1>2, <3>1, Zenon
    <3> QED BY <3>2, <3>3
  <2>2. PICK g : /\ FoldsTo(g, Unsent(p, s), n, step)
                 /\ \A T \in SUBSET (1 .. n) : g[T] \in V[T]
    BY <2>1, FoldTable, Zenon
  <2>3. ASSUME NEW T \in SUBSET (1 .. n)
        PROVE  g[T] = IF T = {} THEN Unsent(p, s) ELSE Op(g[T \ {Max(T)}], PackList(p, s)[Max(T)])
    <3>1. g[T] = IF T = {} THEN Unsent(p, s) ELSE step[<<T, g[T \ {Max(T)}]>>]
      BY <2>2 DEF FoldsTo
    <3>2. T \ {Max(T)} \in SUBSET (1 .. n)
      OBVIOUS
    <3>3. g[T \ {Max(T)}] \in V[T \ {Max(T)}]
      BY <2>2, <3>2, Zenon
    <3>4. step[<<T, g[T \ {Max(T)}]>>] = Op(g[T \ {Max(T)}], PackList(p, s)[Max(T)])
      BY <1>3, <3>3, Zenon
    <3> QED BY <3>1, <3>4, Zenon
  <2>4. g = [T \in SUBSET (1 .. n) |-> g[T]]
    BY <2>2 DEF FoldsTo
  <2> QED BY <2>3, <2>4
<1>5. Eq(G)
  BY <1>4
<1> HIDE DEF G
<1>6. ASSUME NEW T \in SUBSET (1 .. n), T # {} => G[T \ {Max(T)}] \in V[T \ {Max(T)}]
      PROVE  G[T] \in V[T]
  <2>1. G[T] = IF T = {} THEN Unsent(p, s) ELSE Op(G[T \ {Max(T)}], PackList(p, s)[Max(T)])
    BY <1>5
  <2>2. CASE T = {}
    BY <2>1, <2>2, Zenon
  <2>3. CASE T # {}
    <3>1. Op(G[T \ {Max(T)}], PackList(p, s)[Max(T)]) \in V[T]
      BY <1>2, <1>6, <2>3, Zenon
    <3> QED BY <2>1, <2>3, <3>1
  <2> QED BY <2>2, <2>3
<1>7. G[1 .. n] \in V[1 .. n]
  BY <1>6, FoldValues, Zenon
<1> QED BY <1>1, <1>7

(* There is one return per ghost bin.                                      *)
LEMMA SameReturn ==
    ASSUME NEW p, NEW d \in Returns(p), NEW e \in Returns(p), d.of = e.of
    PROVE  d = e
<1>1. /\ d = [of |-> d.of, to |-> d.to, proc |-> d.proc] /\ e = [of |-> e.of, to |-> e.to, proc |-> e.proc]
      /\ d.to = GhostIndex(d.of) /\ d.proc = NeighProc(p, 1, d.of)
      /\ e.to = GhostIndex(e.of) /\ e.proc = NeighProc(p, 1, e.of)
  BY DEF Returns
<1>2. d.to = e.to /\ d.proc = e.proc
  BY <1>1
<1> QED BY <1>1, <1>2

(* Before the packing nothing is sent.                                     *)
LEMMA UnsentIs ==
    ASSUME layout \in Layouts, Sectored, NEW p \in Proc, NEW s, NEW K, Equipped(p, table[p], s, K),
           \A q \in Proc : \E L, f : Fitted(q, table[q], L, f),
           Named(table[p]), NEW N, N = Names(table[p])
    PROVE  Draining(p, s, Unsent(p, s), {}, N)
<1> DEFINE m == table[p].nlocal + NeedSum(p, s)
           u == GrowTo(table[p], m)
           t == table[p]
           r == Unsent(p, s)
<1>1. NeedSum(p, s) \in Int
  BY NeedIs
<1>2. t.nlocal \in Int
  BY FittedIs
<1>3. m \in Int
  BY <1>1, <1>2
<1> HIDE DEF m
<1>4. /\ \E S, h : Packing(p, s, u, S, h, {}, {})
      /\ u.nlocal = t.nlocal /\ \A k \in 0 .. t.nlocal - 1 : u.id[k] = t.id[k]
  <2>1. u = GrowTo(t, m) /\ Equipped(p, t, s, K)
    OBVIOUS
  <2> HIDE DEF u, t
  <2> QED BY <1>3, <2>1, PackingBegins
<1>5. r.t = u /\ r.out = <<>> /\ r = [t |-> r.t, out |-> r.out]
  BY DEF Unsent, m
<1> HIDE DEF r, u, t
<1>6. Names(u) = Names(t) /\ (Named(t) => Named(u))
  BY <1>4 DEF Names, Named
<1>7. Sent(p, u, <<>>, N)
  <2>1. Ids(<<>>) = {} /\ <<>> \in Seq(Parcel(p)) /\ Len(<<>>) = 0
    BY DEF Ids
  <2>2. Named(t) /\ N = Names(t)
    BY DEF t
  <2> QED BY <1>6, <2>1, <2>2 DEF Sent
<1> QED BY <1>4, <1>5, <1>7 DEF Draining, r

(* After the sends: what is left is in bins that are not sent.             *)
LEMMA DrainedIs ==
    ASSUME layout \in Layouts, Sectored, NEW p \in Proc, NEW s, NEW K, Equipped(p, table[p], s, K),
           \A q \in Proc : \E L, f : Fitted(q, table[q], L, f),
           Named(table[p]), NEW N, N = Names(table[p])
    PROVE  Draining(p, s, Drained(p, s), {e.of : e \in Elements(PackList(p, s))}, N)
<1> DEFINE list == PackList(p, s)
           n == Len(list)
           Done(T) == {list[k].of : k \in T}
           V == [T \in SUBSET (1 .. n) |->
                   {r \in [t : SiteTables(Bins), out : Seq(Parcel(p))] : Draining(p, s, r, Done(T), N)}]
<1>1. /\ list \in Seq(Returns(p)) /\ Distinct(list)
      /\ Elements(list) = {e \in Returns(p) : Listing(s, e.of) /\ e.proc # p}
  BY PackListIs
<1> HIDE DEF list
<1>2. n \in Nat /\ DOMAIN list = 1 .. n /\ \A k \in 1 .. n : list[k] \in Returns(p)
  BY <1>1
<1>3. \A k \in 1 .. n : list[k] \in Elements(list) /\ list[k].proc # p
  <2>1. \A k \in 1 .. n : list[k] \in Elements(list)
    BY <1>1 DEF Elements
  <2> QED BY <1>1, <2>1
<1>4. \A j, k \in 1 .. n : list[j].of = list[k].of => j = k
  <2>1. \A j, k \in 1 .. n : list[j] = list[k] => j = k
    BY <1>1 DEF Distinct
  <2> QED BY <1>2, <2>1, SameReturn
<1>5. ASSUME NEW D, NEW r, Draining(p, s, r, D, N)
      PROVE  r \in [t : SiteTables(Bins), out : Seq(Parcel(p))]
  BY <1>5 DEF Draining, Packing, Sent
<1>6. Unsent(p, s) \in V[{}]
  <2>1. Draining(p, s, Unsent(p, s), {}, N)
    BY UnsentIs
  <2>2. Done({}) = {}
    OBVIOUS
  <2> HIDE DEF Done
  <2> QED BY <1>5, <2>1, <2>2
<1> HIDE DEF n
<1>7. \A T \in SUBSET (1 .. n) : T # {} =>
        \A v \in V[T \ {Max(T)}] : Drain(p, v, list[Max(T)]) \in V[T]
  <2>1. SUFFICES ASSUME NEW T \in SUBSET (1 .. n), T # {}, NEW v \in V[T \ {Max(T)}]
                 PROVE  Drain(p, v, list[Max(T)]) \in V[T]
    BY Zenon
  <2> DEFINE m == Max(T)
             e == list[m]
  <2>2. m \in T /\ m \in 1 .. n
    BY <1>2, <2>1, MaxOf
  <2>3. T \ {m} \in SUBSET (1 .. n)
    OBVIOUS
  <2> HIDE DEF m
  <2>4. Draining(p, s, v, Done(T \ {m}), N)
    BY <2>1, <2>3 DEF m
  <2>5. e \in Returns(p) /\ e.proc # p
    BY <1>2, <1>3, <2>2
  <2>6. e.of \notin Done(T \ {m})
    BY <1>4, <2>2
  <2>7. Done(T) = Done(T \ {m}) \cup {e.of}
    BY <2>2
  <2> HIDE DEF e, Done
  <2>8. Draining(p, s, Drain(p, v, e), Done(T), N)
    <3>1. Draining(p, s, Drain(p, v, e), Done(T \ {m}) \cup {e.of}, N)
      BY <2>4, <2>5, <2>6, DrainIs, Zenon
    <3> QED BY <2>7, <3>1, Zenon
  <2>9. Drain(p, v, e) \in V[T]
    BY <1>5, <2>8
  <2> HIDE DEF V
  <2> QED BY <2>9 DEF e, m
<1>8. Drained(p, s) \in V[1 .. n]
  <2> HIDE DEF V
  <2> QED BY <1>2, <1>6, <1>7, DrainedFold DEF list
<1>9. 1 .. n \in SUBSET (1 .. n)
  OBVIOUS
<1>10. Draining(p, s, Drained(p, s), Done(1 .. n), N)
  BY <1>8, <1>9
<1>11. Done(1 .. n) = {e.of : e \in Elements(list)}
  BY DEF Elements, n
<1> HIDE DEF Done, V
<1> QED BY <1>10, <1>11 DEF list

(* A site that left through the boundary comes into the bin it is a copy   *)
(* of; so do all sites of a ghost bin.                                     *)
BackOne(p, u, i, e) ==
    AddToBin([DeleteFromBin(u, i, e.of) EXCEPT !.bin[i] = e.to,
                 !.xyz[i] = Minus(@, Shift(p, e.of))], i, e.to)
BackBin(p, u, e) == FoldLeft(LAMBDA w, i : BackOne(p, w, i, e), u, OwnedIn(u, e.of))

(* What bringing one site back preserves holds after a bin is brought back.*)
LEMMA BackBinFold ==
    ASSUME NEW p, NEW t, NEW r, NEW n \in Nat, DOMAIN OwnedIn(t, r.of) = 1 .. n,
           NEW V, t \in V[{}],
           \A T \in SUBSET (1 .. n) : T # {} =>
              \A v \in V[T \ {Max(T)}] : BackOne(p, v, OwnedIn(t, r.of)[Max(T)], r) \in V[T]
    PROVE  BackBin(p, t, r) \in V[1 .. n]
<1> DEFINE list == OwnedIn(t, r.of)
           Op(u, e) == BackOne(p, u, e, r)
           Eq(g) == g = [T \in SUBSET DOMAIN list |->
                           IF T = {} THEN t ELSE Op(g[T \ {Max(T)}], list[Max(T)])]
           G == CHOOSE g : Eq(g)
           Dom == (SUBSET (1 .. n)) \X UNION {V[T] : T \in SUBSET (1 .. n)}
           step == [c \in Dom |-> Op(c[2], list[Max(c[1])])]
<1>1. BackBin(p, t, r) = G[DOMAIN list]
  BY DEF BackBin, BackOne, FoldLeft, MapThenFoldSet
<1>2. \A T \in SUBSET (1 .. n) : T # {} =>
        \A u \in V[T \ {Max(T)}] : Op(u, list[Max(T)]) \in V[T]
  OBVIOUS
<1>a. DOMAIN list = 1 .. n
  OBVIOUS
<1> HIDE DEF Op, list
<1>3. ASSUME NEW T \in SUBSET (1 .. n), NEW u \in V[T \ {Max(T)}]
      PROVE  step[<<T, u>>] = Op(u, list[Max(T)])
  <2>1. T \ {Max(T)} \in SUBSET (1 .. n)
    OBVIOUS
  <2>2. <<T, u>> \in Dom
    BY <2>1
  <2> HIDE DEF Dom
  <2> QED BY <2>2
<1> HIDE DEF step
<1> USE <1>a
<1>4. \E g : Eq(g)
  <2>1. \A T \in SUBSET (1 .. n) : T # {} =>
           \A u \in V[T \ {Max(T)}] : step[<<T, u>>] \in V[T]
    <3>1. SUFFICES ASSUME NEW T \in SUBSET (1 .. n), T # {}, NEW u \in V[T \ {Max(T)}]
                   PROVE  step[<<T, u>>] \in V[T]
      BY Zenon
    <3>2. step[<<T, u>>] = Op(u, list[Max(T)])
      BY <1>3, Zenon
    <3>3. Op(u, list[Max(T)]) \in V[T]
      BY <1>2, <3>1, Zenon
    <3> QED BY <3>2, <3>3
  <2>2. PICK g : /\ FoldsTo(g, t, n, step)
                 /\ \A T \in SUBSET (1 .. n) : g[T] \in V[T]
    BY <2>1, FoldTable, Zenon
  <2>3. ASSUME NEW T \in SUBSET (1 .. n)
        PROVE  g[T] = IF T = {} THEN t ELSE Op(g[T \ {Max(T)}], list[Max(T)])
    <3>1. g[T] = IF T = {} THEN t ELSE step[<<T, g[T \ {Max(T)}]>>]
      BY <2>2 DEF FoldsTo
    <3>2. T \ {Max(T)} \in SUBSET (1 .. n)
      OBVIOUS
    <3>3. g[T \ {Max(T)}] \in V[T \ {Max(T)}]
      BY <2>2, <3>2, Zenon
    <3>4. step[<<T, g[T \ {Max(T)}]>>] = Op(g[T \ {Max(T)}], list[Max(T)])
      BY <1>3, <3>3, Zenon
    <3> QED BY <3>1, <3>4, Zenon
  <2>4. g = [T \in SUBSET (1 .. n) |-> g[T]]
    BY <2>2 DEF FoldsTo
  <2> QED BY <2>3, <2>4
<1>5. Eq(G)
  BY <1>4
<1> HIDE DEF G
<1>6. ASSUME NEW T \in SUBSET (1 .. n), T # {} => G[T \ {Max(T)}] \in V[T \ {Max(T)}]
      PROVE  G[T] \in V[T]
  <2>1. G[T] = IF T = {} THEN t ELSE Op(G[T \ {Max(T)}], list[Max(T)])
    BY <1>5
  <2>2. CASE T = {}
    BY <2>1, <2>2, Zenon
  <2>3. CASE T # {}
    <3>1. Op(G[T \ {Max(T)}], list[Max(T)]) \in V[T]
      BY <1>2, <1>6, <2>3, Zenon
    <3> QED BY <2>1, <2>3, <3>1
  <2> QED BY <2>2, <2>3
<1>7. G[1 .. n] \in V[1 .. n]
  BY <1>6, FoldValues, Zenon
<1> QED BY <1>1, <1>7

(* What bringing one bin back preserves holds after all of them.           *)
LEMMA BroughtFold ==
    ASSUME NEW p, NEW t, NEW s, NEW n \in Nat, DOMAIN To(ReverseList(p, s), p) = 1 .. n,
           NEW V, t \in V[{}],
           \A T \in SUBSET (1 .. n) : T # {} =>
              \A v \in V[T \ {Max(T)}] : BackBin(p, v, To(ReverseList(p, s), p)[Max(T)]) \in V[T]
    PROVE  BroughtBack(p, t, s) \in V[1 .. n]
<1> DEFINE list == To(ReverseList(p, s), p)
           Op(u, e) == BackBin(p, u, e)
           Eq(g) == g = [T \in SUBSET DOMAIN list |->
                           IF T = {} THEN t ELSE Op(g[T \ {Max(T)}], list[Max(T)])]
           G == CHOOSE g : Eq(g)
           Dom == (SUBSET (1 .. n)) \X UNION {V[T] : T \in SUBSET (1 .. n)}
           step == [c \in Dom |-> Op(c[2], list[Max(c[1])])]
<1>1. BroughtBack(p, t, s) = G[DOMAIN list]
  BY DEF BroughtBack, BackBin, BackOne, FoldLeft, MapThenFoldSet
<1>2. \A T \in SUBSET (1 .. n) : T # {} =>
        \A u \in V[T \ {Max(T)}] : Op(u, list[Max(T)]) \in V[T]
  OBVIOUS
<1>a. DOMAIN list = 1 .. n
  OBVIOUS
<1> HIDE DEF Op, list
<1>3. ASSUME NEW T \in SUBSET (1 .. n), NEW u \in V[T \ {Max(T)}]
      PROVE  step[<<T, u>>] = Op(u, list[Max(T)])
  <2>1. T \ {Max(T)} \in SUBSET (1 .. n)
    OBVIOUS
  <2>2. <<T, u>> \in Dom
    BY <2>1
  <2> HIDE DEF Dom
  <2> QED BY <2>2
<1> HIDE DEF step
<1> USE <1>a
<1>4. \E g : Eq(g)
  <2>1. \A T \in SUBSET (1 .. n) : T # {} =>
           \A u \in V[T \ {Max(T)}] : step[<<T, u>>] \in V[T]
    <3>1. SUFFICES ASSUME NEW T \in SUBSET (1 .. n), T # {}, NEW u \in V[T \ {Max(T)}]
                   PROVE  step[<<T, u>>] \in V[T]
      BY Zenon
    <3>2. step[<<T, u>>] = Op(u, list[Max(T)])
      BY <1>3, Zenon
    <3>3. Op(u, list[Max(T)]) \in V[T]
      BY <1>2, <3>1, Zenon
    <3> QED BY <3>2, <3>3
  <2>2. PICK g : /\ FoldsTo(g, t, n, step)
                 /\ \A T \in SUBSET (1 .. n) : g[T] \in V[T]
    BY <2>1, FoldTable, Zenon
  <2>3. ASSUME NEW T \in SUBSET (1 .. n)
        PROVE  g[T] = IF T = {} THEN t ELSE Op(g[T \ {Max(T)}], list[Max(T)])
    <3>1. g[T] = IF T = {} THEN t ELSE step[<<T, g[T \ {Max(T)}]>>]
      BY <2>2 DEF FoldsTo
    <3>2. T \ {Max(T)} \in SUBSET (1 .. n)
      OBVIOUS
    <3>3. g[T \ {Max(T)}] \in V[T \ {Max(T)}]
      BY <2>2, <3>2, Zenon
    <3>4. step[<<T, g[T \ {Max(T)}]>>] = Op(g[T \ {Max(T)}], list[Max(T)])
      BY <1>3, <3>3, Zenon
    <3> QED BY <3>1, <3>4, Zenon
  <2>4. g = [T \in SUBSET (1 .. n) |-> g[T]]
    BY <2>2 DEF FoldsTo
  <2> QED BY <2>3, <2>4
<1>5. Eq(G)
  BY <1>4
<1> HIDE DEF G
<1>6. ASSUME NEW T \in SUBSET (1 .. n), T # {} => G[T \ {Max(T)}] \in V[T \ {Max(T)}]
      PROVE  G[T] \in V[T]
  <2>1. G[T] = IF T = {} THEN t ELSE Op(G[T \ {Max(T)}], list[Max(T)])
    BY <1>5
  <2>2. CASE T = {}
    BY <2>1, <2>2, Zenon
  <2>3. CASE T # {}
    <3>1. Op(G[T \ {Max(T)}], list[Max(T)]) \in V[T]
      BY <1>2, <1>6, <2>3, Zenon
    <3> QED BY <2>1, <2>3, <3>1
  <2> QED BY <2>2, <2>3
<1>7. G[1 .. n] \in V[1 .. n]
  BY <1>6, FoldValues, Zenon
<1> QED BY <1>1, <1>7

(* Sites of the ghost bins Z have been brought back, those of D sent.      *)
Returning(p, s, u, t, D, Z) ==
    /\ u.nlocal = t.nlocal /\ u.id = t.id /\ u \in SiteTables(Bins)
    /\ \E S, h : Packing(p, s, u, S, h, D, D)
    /\ \A k \in 0 .. t.nlocal - 1 : u.bin[k] \notin Z
OwnedOfBin(u, b) == {k \in 0 .. u.nlocal - 1 : u.bin[k] = b}

(* The owned sites of a ghost bin, each once.                              *)
LEMMA OwnedInIs ==
    ASSUME NEW p, NEW s, NEW u, NEW S, NEW h, NEW D, Packing(p, s, u, S, h, D, D),
           NEW b \in Bins \ D
    PROVE  /\ OwnedIn(u, b) \in Seq(0 .. u.nlocal - 1) /\ Distinct(OwnedIn(u, b))
           /\ Elements(OwnedIn(u, b)) = OwnedOfBin(u, b)
<1> DEFINE own == 0 .. u.nlocal - 1
           B == Bins \ D
           list == InBin(u, b)
<1>1. u.nmax \in Nat /\ u \in TableOf(u.nmax, Bins)
  BY ToPassIs
<1>2. Keeps(u, S, B, h) /\ own \subseteq S
  BY DEF Packing
<1>3. B \subseteq Bins /\ b \in B
  OBVIOUS
<1> HIDE DEF B
<1>4. /\ list \in Seq(S) /\ ListFrom(u.binhead[b], u.next, u.prev, list)
      /\ Elements(list) = {k \in S : u.bin[k] = b}
  <2>1. BinSites(u, S, b)
    BY <1>1, <1>2, <1>3, BinSitesAre, Zenon
  <2> QED BY <2>1 DEF BinSites
<1>5. Distinct(list)
  BY <1>4 DEF ListFrom
<1> HIDE DEF list, own
<1>6. /\ Among(list, own) \in Seq(S) /\ Elements(Among(list, own)) = Elements(list) \cap own
      /\ Distinct(Among(list, own))
  BY <1>4, <1>5, AmongIs
<1>7. Elements(Among(list, own)) = {k \in own : u.bin[k] = b}
  BY <1>2, <1>4, <1>6
<1>8. Among(list, own) \in Seq(own)
  BY <1>6, <1>7, SeqIn
<1>9. OwnedIn(u, b) = Among(list, own)
  BY DEF OwnedIn, own, list
<1> QED BY <1>6, <1>7, <1>8, <1>9 DEF own, OwnedOfBin

(* What BackOne does to the place of a site.                               *)
Placing(u, t, i, b, y) ==
    /\ u.nmax = t.nmax /\ u.nlocal = t.nlocal /\ u.freehead = t.freehead /\ u.id = t.id
    /\ u.bin = [t.bin EXCEPT ![i] = b] /\ u.xyz = [t.xyz EXCEPT ![i] = y]
BroughtTo(y, p, u, i, e) == y = Minus(u.xyz[i], Shift(p, e.of)) /\ e.of = u.bin[i]
InBins(u, S, B) == \A k \in S : u.bin[k] \in B
Keeping(u, S, B) == \E h : Keeps(u, S, B, h)

(* Bringing a site back moves it from the list of the ghost bin to that of *)
(* the bin it stands for.                                                  *)
LEMMA BackKeeps ==
    ASSUME NEW n \in Nat, NEW p, NEW u \in TableOf(n, Bins), NEW B, B \subseteq Bins,
           NEW S, NEW h, Keeps(u, S, B, h), InBins(u, S, B), NEW i \in S, NEW e,
           e.to \in B, NEW y \in Point, BroughtTo(y, p, u, i, e),
           NEW v, v = BackOne(p, u, i, e)
    PROVE  /\ v \in TableOf(n, Bins) /\ Placing(v, u, i, e.to, y)
           /\ Keeping(v, S, B)
<1> DEFINE out == DeleteFromBin(u, i, e.of)
           b == e.to
           w == [out EXCEPT !.bin[i] = b, !.xyz[i] = Minus(@, Shift(p, e.of))]
<1>1. S \subseteq 0 .. n - 1 /\ i \in 0 .. n - 1 /\ u.bin[i] \in Bins /\ b \in Bins /\ u.nmax = n
  <2>1. u.nmax = n /\ u.bin \in [0 .. n - 1 -> Bins]
    BY DEF TableOf
  <2>2. S \subseteq 0 .. n - 1
    BY <2>1 DEF Keeps
  <2> QED BY <2>1, <2>2
<1>a. y = Minus(u.xyz[i], Shift(p, e.of)) /\ e.of = u.bin[i] /\ \A k \in S : u.bin[k] \in B
  BY DEF BroughtTo, InBins
<1> USE <1>a
<1>2. out = DeleteFromBin(u, i, u.bin[i])
  OBVIOUS
<1>3. v = AddToBin(w, i, b)
  BY DEF BackOne
<1> HIDE DEF out, b
<1>4. out \in TableOf(n, Bins) /\ RestKept(out, u) /\ out.bin = u.bin /\ Unlinked(out, u, i, u.bin[i])
  BY <1>1, <1>2, AfterDelete
<1> DEFINE h1 == [h EXCEPT ![u.bin[i]] = IF u.prev[i] \notin S THEN u.next[i] ELSE @]
<1>5. Keeps(out, S \ {i}, B, h1)
  BY <1>4, DeleteKeeps
<1>6. /\ w \in TableOf(n, Bins) /\ w.nmax = out.nmax /\ w.nlocal = out.nlocal
      /\ w.freehead = out.freehead /\ w.id = out.id /\ w.next = out.next /\ w.prev = out.prev
      /\ w.binhead = out.binhead
      /\ w.bin = [out.bin EXCEPT ![i] = b] /\ w.xyz = [out.xyz EXCEPT ![i] = y]
  <2>1. out.xyz \in [0 .. n - 1 -> Int \X Int] /\ out.bin \in [0 .. n - 1 -> Bins]
    BY <1>4 DEF TableOf
  <2> DEFINE c == [out.bin EXCEPT ![i] = b]
             z == [out.xyz EXCEPT ![i] = y]
  <2>2. c \in [0 .. n - 1 -> Bins] /\ z \in [0 .. n - 1 -> Int \X Int]
    BY <1>1, <2>1 DEF Point
  <2>3. Minus(out.xyz[i], Shift(p, e.of)) = y
    BY <1>4 DEF RestKept
  <2>4. w = [[out EXCEPT !.bin = c] EXCEPT !.xyz = z]
    <3>1. w = [[out EXCEPT !.bin = c] EXCEPT !.xyz = [out.xyz EXCEPT ![i] = Minus(out.xyz[i], Shift(p, e.of))]]
      BY <1>4 DEF TableOf
    <3> QED BY <2>3, <3>1
  <2> HIDE DEF c, z, w
  <2>5. /\ w \in TableOf(n, Bins) /\ w.nmax = out.nmax /\ w.nlocal = out.nlocal
        /\ w.freehead = out.freehead /\ w.id = out.id /\ w.next = out.next /\ w.prev = out.prev
        /\ w.binhead = out.binhead /\ w.bin = c /\ w.xyz = z
    BY <1>4, <2>2, <2>4 DEF TableOf
  <2> QED BY <2>5 DEF c, z
<1> HIDE DEF w, h1
<1>7. v \in TableOf(n, Bins) /\ RestKept(v, w) /\ v.bin = w.bin /\ Linked(v, w, i, b)
  BY <1>1, <1>3, <1>6, AfterAdd
<1>8. Linked(v, out, i, b)
  BY <1>6, <1>7 DEF Linked
<1>9. u.bin \in [0 .. n - 1 -> Bins] /\ v.bin = [u.bin EXCEPT ![i] = b]
  BY <1>4, <1>6, <1>7 DEF TableOf
<1>10. Keeps(v, (S \ {i}) \cup {i}, B, [h1 EXCEPT ![b] = i])
  <2>1. v.bin[i] = b /\ \A k \in S \ {i} : v.bin[k] = out.bin[k]
    BY <1>1, <1>4, <1>9
  <2>2. \A k \in S \ {i} : out.bin[k] \in B
    BY <1>4
  <2>3. i \in (0 .. n - 1) \ (S \ {i}) /\ b \in B
    BY <1>1 DEF b
  <2> QED BY <1>4, <1>5, <1>7, <1>8, <2>1, <2>2, <2>3, AddKeeps
<1>11. (S \ {i}) \cup {i} = S
  OBVIOUS
<1>12. Placing(v, u, i, b, y)
  BY <1>4, <1>6, <1>7 DEF Placing, RestKept
<1> QED BY <1>7, <1>10, <1>11, <1>12 DEF b, Keeping

(* One site is brought back into the box.                                  *)
LEMMA BackOneIs ==
    ASSUME layout \in Layouts, NEW p \in Proc, NEW s, NEW u, NEW S, NEW h, NEW D \in SUBSET GhostBins,
           Packing(p, s, u, S, h, D, D), NEW e \in Returns(p), e.proc = p,
           NEW i \in 0 .. u.nlocal - 1, u.bin[i] = e.of, NEW v, v = BackOne(p, u, i, e)
    PROVE  /\ \E S2, h2 : Packing(p, s, v, S2, h2, D, D)
           /\ v.nlocal = u.nlocal /\ v.id = u.id /\ ~ IsGhost(e.to)
           /\ \A k \in 0 .. u.nlocal - 1 : v.bin[k] = IF k = i THEN e.to ELSE u.bin[k]
<1> DEFINE n == u.nmax
           B == Bins \ D
           x == u.xyz[i]
           y == Minus(x, Shift(p, e.of))
<1>1. n \in Nat /\ u \in TableOf(n, Bins) /\ u.bin \in [0 .. n - 1 -> Bins] /\ S \subseteq 0 .. n - 1
  BY ToPassIs
<1>2. /\ Keeps(u, S, B, h) /\ u.nlocal \in 0 .. n /\ 0 .. u.nlocal - 1 \subseteq S
      /\ \A k \in S : u.bin[k] \notin D
      /\ \A k \in S \ (0 .. u.nlocal - 1) : IsGhost(u.bin[k])
      /\ u.nlocal = u.nmax => u.freehead = Nil
      /\ \A k \in 0 .. u.nlocal - 1 :
          /\ Close(p, u.xyz[k]) /\ u.bin[k] = Site2Bin(p, u.xyz[k])
          /\ IsGhost(u.bin[k]) => SectorGhost(s, u.bin[k])
  BY DEF Packing
<1>3. u.xyz \in [0 .. n - 1 -> Int \X Int]
  BY <1>1 DEF TableOf
<1>4. i \in S /\ i \in 0 .. n - 1 /\ x \in Point /\ Close(p, x) /\ e.of = Site2Bin(p, x)
  BY <1>1, <1>2, <1>3 DEF Point
<1>5. e.to = GhostIndex(e.of) /\ p = NeighProc(p, 1, e.of) /\ e.of \in Bins /\ e.to \in Bins
  BY DEF Returns, GhostBins
<1> HIDE DEF x
<1>6. y \in Point /\ InDomain(p, y) /\ Site2Bin(p, y) = e.to
  <2> DEFINE g == e.of
  <2>1. g = Site2Bin(p, x) /\ p = NeighProc(p, 1, g)
    BY <1>4, <1>5
  <2> HIDE DEF g
  <2>2. Minus(x, Shift(p, g)) \in Point /\ InDomain(p, Minus(x, Shift(p, g)))
        /\ Site2Bin(p, Minus(x, Shift(p, g))) = GhostIndex(g)
    BY <1>4, <2>1, HomeBin
  <2> QED BY <1>5, <2>2 DEF g
<1>7. ~ IsGhost(e.to) /\ Close(p, y)
  BY <1>6, DomainClose
<1>8. e.to \in B /\ B \subseteq Bins
  BY <1>5, <1>7 DEF GhostBins
<1>9. \A k \in S : u.bin[k] \in B
  BY <1>1, <1>2
<1>10. y = Minus(u.xyz[i], Shift(p, e.of)) /\ e.of = u.bin[i]
  BY DEF x
<1> HIDE DEF B, y
<1>11. v \in TableOf(n, Bins) /\ Placing(v, u, i, e.to, y) /\ Keeping(v, S, B)
  <2>1. BroughtTo(y, p, u, i, e) /\ InBins(u, S, B)
    BY <1>9, <1>10 DEF BroughtTo, InBins
  <2> QED BY <1>1, <1>2, <1>4, <1>6, <1>8, <2>1, BackKeeps
<1>12. PICK h2 : Keeps(v, S, B, h2)
  BY <1>11 DEF Keeping
<1>13. /\ v.nmax = n /\ v.nlocal = u.nlocal /\ v.freehead = u.freehead /\ v.id = u.id
       /\ \A k \in 0 .. n - 1 : /\ v.bin[k] = IF k = i THEN e.to ELSE u.bin[k]
                                /\ v.xyz[k] = IF k = i THEN y ELSE u.xyz[k]
  BY <1>1, <1>3, <1>11 DEF Placing
<1>14. v \in SiteTables(Bins)
  BY <1>1, <1>11, TableIn
<1>15. \A k \in S : v.bin[k] \notin D
  BY <1>1, <1>2, <1>8, <1>13 DEF B
<1>16. \A k \in S \ (0 .. v.nlocal - 1) : IsGhost(v.bin[k])
  BY <1>1, <1>2, <1>13
<1>17. ASSUME NEW k \in 0 .. v.nlocal - 1
       PROVE  /\ Close(p, v.xyz[k]) /\ v.bin[k] = Site2Bin(p, v.xyz[k])
              /\ IsGhost(v.bin[k]) => SectorGhost(s, v.bin[k])
  <2>1. k \in 0 .. u.nlocal - 1 /\ k \in 0 .. n - 1
    BY <1>1, <1>2, <1>13
  <2> QED BY <1>2, <1>6, <1>7, <1>13, <2>1
<1>18. Packing(p, s, v, S, h2, D, D)
  BY <1>2, <1>12, <1>13, <1>14, <1>15, <1>16, <1>17 DEF Packing, B
<1> QED BY <1>1, <1>2, <1>7, <1>13, <1>18

(* The sites of M are still to be brought back from bin b.                 *)
Bringing(p, s, u, t, D, Z, b, M) ==
    Returning(p, s, u, t, D, Z) /\ OwnedOfBin(u, b) = M

(* One more site of a ghost bin is back.                                   *)
LEMMA BringOne ==
    ASSUME layout \in Layouts, NEW p \in Proc, NEW s, NEW u, NEW t, NEW D \in SUBSET GhostBins,
           NEW Z \in SUBSET GhostBins, NEW e \in Returns(p), e.proc = p, NEW b, b = e.of, NEW M,
           Bringing(p, s, u, t, D, Z, b, M), NEW i \in M, NEW v, v = BackOne(p, u, i, e)
    PROVE  Bringing(p, s, v, t, D, Z, b, M \ {i})
<1>1. /\ u.nlocal = t.nlocal /\ u.id = t.id /\ OwnedOfBin(u, b) = M
      /\ \A k \in 0 .. t.nlocal - 1 : u.bin[k] \notin Z
  BY DEF Bringing, Returning
<1>2. PICK S, h : Packing(p, s, u, S, h, D, D)
  BY DEF Bringing, Returning
<1>3. i \in 0 .. u.nlocal - 1 /\ u.bin[i] = e.of
  BY <1>1 DEF OwnedOfBin
<1>4. /\ \E S2, h2 : Packing(p, s, v, S2, h2, D, D)
      /\ v.nlocal = u.nlocal /\ v.id = u.id /\ ~ IsGhost(e.to)
      /\ \A k \in 0 .. u.nlocal - 1 : v.bin[k] = IF k = i THEN e.to ELSE u.bin[k]
  BY <1>2, <1>3, BackOneIs
<1>5. IsGhost(b) /\ b # e.to /\ e.to \notin Z
  BY <1>4 DEF Returns, GhostBins
<1>6. v \in SiteTables(Bins)
  BY <1>4 DEF Packing
<1>7. \A k \in 0 .. t.nlocal - 1 : v.bin[k] \notin Z
  BY <1>1, <1>4, <1>5
<1>8. OwnedOfBin(v, b) = M \ {i}
  BY <1>1, <1>4, <1>5 DEF OwnedOfBin
<1> QED BY <1>1, <1>4, <1>6, <1>7, <1>8 DEF Bringing, Returning

(* A ghost bin whose sites are all brought back.                           *)
LEMMA BackBinIs ==
    ASSUME layout \in Layouts, NEW p \in Proc, NEW s, NEW u, NEW t, NEW D \in SUBSET GhostBins,
           NEW Z \in SUBSET GhostBins, NEW e \in Returns(p), e.proc = p, e.of \notin D,
           Returning(p, s, u, t, D, Z)
    PROVE  Returning(p, s, BackBin(p, u, e), t, D, Z \cup {e.of})
<1> DEFINE b == e.of
           list == OwnedIn(u, b)
           n == Len(list)
           Rest(T) == {list[k] : k \in (1 .. n) \ T}
           V == [T \in SUBSET (1 .. n) |->
                   {v \in SiteTables(Bins) : Bringing(p, s, v, t, D, Z, b, Rest(T))}]
<1>1. PICK S, h : Packing(p, s, u, S, h, D, D)
  BY DEF Returning
<1>2. b \in Bins \ D
  BY DEF Returns, GhostBins
<1>3. /\ list \in Seq(0 .. u.nlocal - 1) /\ Distinct(list) /\ Elements(list) = OwnedOfBin(u, b)
  BY <1>1, <1>2, OwnedInIs
<1> HIDE DEF list
<1>4. n \in Nat /\ DOMAIN list = 1 .. n
  BY <1>3
<1>5. \A j, k \in 1 .. n : list[j] = list[k] => j = k
  BY <1>3 DEF Distinct
<1>6. u \in V[{}]
  <2>1. Rest({}) = OwnedOfBin(u, b)
    BY <1>3 DEF Elements
  <2>2. u \in SiteTables(Bins)
    BY DEF Returning
  <2> HIDE DEF Rest
  <2>3. Bringing(p, s, u, t, D, Z, b, Rest({}))
    BY <2>1 DEF Bringing
  <2> QED BY <2>2, <2>3
<1> HIDE DEF n
<1>7. \A T \in SUBSET (1 .. n) : T # {} =>
        \A v \in V[T \ {Max(T)}] : BackOne(p, v, list[Max(T)], e) \in V[T]
  <2>1. SUFFICES ASSUME NEW T \in SUBSET (1 .. n), T # {}, NEW v \in V[T \ {Max(T)}]
                 PROVE  BackOne(p, v, list[Max(T)], e) \in V[T]
    BY Zenon
  <2> DEFINE m == Max(T)
             i == list[m]
             w == BackOne(p, v, i, e)
  <2>2. m \in T /\ m \in 1 .. n
    BY <1>4, <2>1, MaxOf
  <2>3. T \ {m} \in SUBSET (1 .. n)
    OBVIOUS
  <2> HIDE DEF m
  <2>4. Bringing(p, s, v, t, D, Z, b, Rest(T \ {m}))
    BY <2>1, <2>3 DEF m
  <2>5. i \in Rest(T \ {m})
    BY <2>2
  <2>6. Rest(T) = Rest(T \ {m}) \ {i}
    BY <1>5, <2>2
  <2>7. b = e.of /\ w = BackOne(p, v, i, e)
    OBVIOUS
  <2> HIDE DEF i, Rest, w, b
  <2>8. Bringing(p, s, w, t, D, Z, b, Rest(T \ {m}) \ {i})
    BY <2>4, <2>5, <2>7, BringOne
  <2>9. Bringing(p, s, w, t, D, Z, b, Rest(T))
    BY <2>6, <2>8
  <2>10. w \in SiteTables(Bins)
    BY <2>9 DEF Bringing, Returning
  <2>11. w \in V[T]
    BY <2>9, <2>10
  <2> HIDE DEF V
  <2> QED BY <2>11 DEF w, i, m
<1>8. BackBin(p, u, e) \in V[1 .. n]
  <2> HIDE DEF V
  <2> QED BY <1>4, <1>6, <1>7, BackBinFold DEF list, b
<1>9. 1 .. n \in SUBSET (1 .. n) /\ Rest(1 .. n) = {}
  OBVIOUS
<1> HIDE DEF Rest
<1>10. Bringing(p, s, BackBin(p, u, e), t, D, Z, b, {})
  BY <1>8, <1>9
<1> HIDE DEF V
<1>11. \A k \in 0 .. t.nlocal - 1 : BackBin(p, u, e).bin[k] # b
  BY <1>10 DEF Bringing, Returning, OwnedOfBin
<1> QED BY <1>10, <1>11 DEF Bringing, Returning

(* All ghost bins that a process returns to itself.                        *)
LEMMA BroughtBackIs ==
    ASSUME layout \in Layouts, NEW p \in Proc, NEW s, NEW t, NEW D \in SUBSET GhostBins,
           Returning(p, s, t, t, D, {}), \A e \in Returns(p) : e.proc = p => e.of \notin D,
           NEW Z, Z = {e.of : e \in Elements(To(ReverseList(p, s), p))}
    PROVE  Returning(p, s, BroughtBack(p, t, s), t, D, Z)
<1> DEFINE list == To(ReverseList(p, s), p)
           n == Len(list)
           Done(T) == {list[k].of : k \in T}
           V == [T \in SUBSET (1 .. n) |->
                   {u \in SiteTables(Bins) : Returning(p, s, u, t, D, Done(T))}]
<1>1. /\ list \in Seq(Returns(p)) /\ Distinct(list)
      /\ Elements(list) = {e \in Returns(p) : Listing(s, e.of) /\ e.proc = p}
  BY BackListIs
<1> HIDE DEF list
<1>2. n \in Nat /\ DOMAIN list = 1 .. n /\ \A k \in 1 .. n : list[k] \in Returns(p)
  BY <1>1
<1>3. \A k \in 1 .. n : list[k].proc = p
  <2>1. \A k \in 1 .. n : list[k] \in Elements(list)
    BY <1>1 DEF Elements
  <2> QED BY <1>1, <2>1
<1>4. \A k \in 1 .. n : list[k].of \in GhostBins
  BY <1>2 DEF Returns
<1>5. ASSUME NEW u, NEW Y, Returning(p, s, u, t, D, Y) PROVE u \in SiteTables(Bins)
  BY <1>5 DEF Returning
<1>6. t \in V[{}]
  <2>1. Done({}) = {}
    OBVIOUS
  <2> HIDE DEF Done
  <2> QED BY <1>5, <2>1
<1> HIDE DEF n
<1>7. \A T \in SUBSET (1 .. n) : T # {} =>
        \A v \in V[T \ {Max(T)}] : BackBin(p, v, list[Max(T)]) \in V[T]
  <2>1. SUFFICES ASSUME NEW T \in SUBSET (1 .. n), T # {}, NEW v \in V[T \ {Max(T)}]
                 PROVE  BackBin(p, v, list[Max(T)]) \in V[T]
    BY Zenon
  <2> DEFINE m == Max(T)
             e == list[m]
             Y == Done(T \ {m})
  <2>2. m \in T /\ m \in 1 .. n
    BY <1>2, <2>1, MaxOf
  <2>3. T \ {m} \in SUBSET (1 .. n)
    OBVIOUS
  <2> HIDE DEF m
  <2>4. Returning(p, s, v, t, D, Y)
    BY <2>1, <2>3 DEF m
  <2>5. e \in Returns(p) /\ e.proc = p /\ e.of \notin D
    BY <1>2, <1>3, <2>2
  <2>6. Y \in SUBSET GhostBins
    BY <1>4, <2>2
  <2>7. Done(T) = Y \cup {e.of}
    BY <2>2
  <2> HIDE DEF e, Done, Y
  <2>8. Returning(p, s, BackBin(p, v, e), t, D, Y \cup {e.of})
    BY <2>4, <2>5, <2>6, BackBinIs
  <2>9. BackBin(p, v, e) \in V[T]
    BY <1>5, <2>7, <2>8
  <2> HIDE DEF V
  <2> QED BY <2>9 DEF e, m
<1>8. BroughtBack(p, t, s) \in V[1 .. n]
  <2> HIDE DEF V
  <2> QED BY <1>2, <1>6, <1>7, BroughtFold DEF list
<1>9. 1 .. n \in SUBSET (1 .. n)
  OBVIOUS
<1>10. Returning(p, s, BroughtBack(p, t, s), t, D, Done(1 .. n))
  BY <1>8, <1>9
<1>11. Done(1 .. n) = Z
  BY DEF Elements, n, list
<1> HIDE DEF Done, V
<1> QED BY <1>10, <1>11

(* Where no owned site is in a ghost bin any more the ghosts can go.       *)
Back(p, u, t) ==
    /\ u \in SiteTables(Bins) /\ u.nlocal = t.nlocal
    /\ \A k \in 0 .. t.nlocal - 1 : /\ u.id[k] = t.id[k] /\ InDomain(p, u.xyz[k])
                                    /\ u.bin[k] = Site2Bin(p, u.xyz[k])
    /\ \E q : /\ Whole(u, 0 .. u.nlocal - 1, q) /\ ToTheEnd(u, q) /\ Consecutive(q)
              /\ Len(q) # 0 => q[1] = u.nlocal

(* After the ghost sites are deleted the table is settled but for the sites*)
(* to come.                                                                *)
LEMMA BackIs ==
    ASSUME layout \in Layouts, NEW p \in Proc, NEW s, NEW t, NEW v, NEW D \in SUBSET GhostBins,
           NEW Z, Returning(p, s, v, t, D, Z),
           \A g \in GhostBins : SectorGhost(s, g) => g \in D \cup Z
    PROVE  Back(p, DeleteAllGhosts(v, GhostBins), t)
<1> DEFINE n == v.nmax
           B == Bins \ D
           own == 0 .. v.nlocal - 1
           u == DeleteAllGhosts(v, GhostBins)
<1>1. /\ v.nlocal = t.nlocal /\ v.id = t.id /\ v \in SiteTables(Bins)
      /\ \A k \in 0 .. t.nlocal - 1 : v.bin[k] \notin Z
  BY DEF Returning
<1>2. PICK S, h : Packing(p, s, v, S, h, D, D)
  BY DEF Returning
<1>3. n \in Nat /\ v \in TableOf(n, Bins) /\ S \subseteq 0 .. n - 1 /\ v.bin \in [0 .. n - 1 -> Bins]
  BY <1>2, ToPassIs
<1>4. /\ Keeps(v, S, B, h) /\ v.nlocal \in 0 .. n /\ own \subseteq S
      /\ \A k \in S : v.bin[k] \notin D
      /\ \A k \in S \ own : IsGhost(v.bin[k])
      /\ v.nlocal = n => v.freehead = Nil
      /\ \A k \in own :
          /\ Close(p, v.xyz[k]) /\ v.bin[k] = Site2Bin(p, v.xyz[k])
          /\ IsGhost(v.bin[k]) => SectorGhost(s, v.bin[k])
  BY <1>2 DEF Packing
<1>5. v.xyz \in [0 .. n - 1 -> Int \X Int]
  BY <1>3 DEF TableOf
<1>6. \A k \in own : k \in 0 .. n - 1
  BY <1>3, <1>4
<1>7. ASSUME NEW k \in own PROVE ~ IsGhost(v.bin[k]) /\ InDomain(p, v.xyz[k])
  <2>1. v.bin[k] \in Bins /\ v.xyz[k] \in Point
    BY <1>3, <1>5, <1>6 DEF Point
  <2>2. ~ IsGhost(v.bin[k])
    BY <1>1, <1>4, <2>1 DEF GhostBins
  <2>3. ~ IsGhost(Site2Bin(p, v.xyz[k]))
    BY <1>4, <2>2
  <2> QED BY <2>1, <2>2, <2>3, SiteBinIs
<1>8. {k \in S : v.bin[k] \notin GhostBins} = own
  <2>1. \A k \in S : v.bin[k] \in GhostBins <=> IsGhost(v.bin[k])
    BY <1>3 DEF GhostBins
  <2> HIDE DEF own
  <2> QED BY <1>4, <1>7, <2>1
<1>9. NoPlace \in Bins
  <2>1. NBinX \in Nat \ {0} /\ NBinY \in Nat \ {0}
    BY GridIs DEF Axis
  <2> QED BY <2>1 DEF NoPlace, Bins
<1>10. Bins \ GhostBins \subseteq B /\ B \in SUBSET Bins
  OBVIOUS
<1> HIDE DEF B
<1>11. /\ u \in TableOf(n, Bins) /\ Same(u, v, own) /\ u.nlocal = v.nlocal
       /\ \E q : /\ Whole(u, 0 .. v.nlocal - 1, q) /\ ToTheEnd(u, q) /\ Consecutive(q)
                 /\ Len(q) # 0 => q[1] = v.nlocal
  BY <1>3, <1>4, <1>8, <1>9, <1>10, BareWhole
<1> HIDE DEF u
<1>12. u \in SiteTables(Bins)
  BY <1>3, <1>11, TableIn
<1>13. ASSUME NEW k \in 0 .. t.nlocal - 1
       PROVE  u.id[k] = t.id[k] /\ InDomain(p, u.xyz[k]) /\ u.bin[k] = Site2Bin(p, u.xyz[k])
  <2>1. k \in own
    BY <1>1
  <2>2. u.id[k] = v.id[k] /\ u.xyz[k] = v.xyz[k] /\ u.bin[k] = v.bin[k]
    BY <1>11, <2>1 DEF Same
  <2> QED BY <1>1, <1>4, <1>7, <2>1, <2>2
<1>14. Back(p, u, t)
  BY <1>1, <1>11, <1>12, <1>13 DEF Back
<1> QED BY <1>14 DEF u

(* What p has when its sends are done and its own sites are back, and what *)
(* it gets.                                                                *)
Home(p, s) == DeleteAllGhosts(BroughtBack(p, Drained(p, s).t, s), GhostBins)
Part(out, p) == Among(out, {c \in ToSet(out) : c.to = p})
Comers(p, s) == FlattenSeq([k \in DOMAIN Others(p) |-> Part(Drained(Others(p)[k], s).out, p)])
Peopled(p, s) == FoldLeft(LAMBDA u, c : AddOwned(u, c.id, c.x, c.bin), Home(p, s), Comers(p, s))

(* What one arriving site preserves holds after all of them.               *)
LEMMA PeopledFold ==
    ASSUME NEW p, NEW s, NEW n \in Nat, DOMAIN Comers(p, s) = 1 .. n,
           NEW V, Home(p, s) \in V[{}],
           \A T \in SUBSET (1 .. n) : T # {} =>
              \A v \in V[T \ {Max(T)}] : AddOwned(v, Comers(p, s)[Max(T)].id, Comers(p, s)[Max(T)].x, Comers(p, s)[Max(T)].bin) \in V[T]
    PROVE  Peopled(p, s) \in V[1 .. n]
<1> DEFINE Op(u, e) == AddOwned(u, e.id, e.x, e.bin)
           Eq(g) == g = [T \in SUBSET DOMAIN Comers(p, s) |->
                           IF T = {} THEN Home(p, s) ELSE Op(g[T \ {Max(T)}], Comers(p, s)[Max(T)])]
           G == CHOOSE g : Eq(g)
           Dom == (SUBSET (1 .. n)) \X UNION {V[T] : T \in SUBSET (1 .. n)}
           step == [c \in Dom |-> Op(c[2], Comers(p, s)[Max(c[1])])]
<1>1. Peopled(p, s) = G[DOMAIN Comers(p, s)]
  BY DEF Peopled, FoldLeft, MapThenFoldSet
<1>2. \A T \in SUBSET (1 .. n) : T # {} =>
        \A u \in V[T \ {Max(T)}] : Op(u, Comers(p, s)[Max(T)]) \in V[T]
  OBVIOUS
<1> HIDE DEF Op
<1>3. ASSUME NEW T \in SUBSET (1 .. n), NEW u \in V[T \ {Max(T)}]
      PROVE  step[<<T, u>>] = Op(u, Comers(p, s)[Max(T)])
  <2>1. T \ {Max(T)} \in SUBSET (1 .. n)
    OBVIOUS
  <2>2. <<T, u>> \in Dom
    BY <2>1
  <2> HIDE DEF Dom
  <2> QED BY <2>2
<1> HIDE DEF step
<1>4. \E g : Eq(g)
  <2>1. \A T \in SUBSET (1 .. n) : T # {} =>
           \A u \in V[T \ {Max(T)}] : step[<<T, u>>] \in V[T]
    <3>1. SUFFICES ASSUME NEW T \in SUBSET (1 .. n), T # {}, NEW u \in V[T \ {Max(T)}]
                   PROVE  step[<<T, u>>] \in V[T]
      BY Zenon
    <3>2. step[<<T, u>>] = Op(u, Comers(p, s)[Max(T)])
      BY <1>3, Zenon
    <3>3. Op(u, Comers(p, s)[Max(T)]) \in V[T]
      BY <1>2, <3>1, Zenon
    <3> QED BY <3>2, <3>3
  <2>2. PICK g : /\ FoldsTo(g, Home(p, s), n, step)
                 /\ \A T \in SUBSET (1 .. n) : g[T] \in V[T]
    BY <2>1, FoldTable, Zenon
  <2>3. ASSUME NEW T \in SUBSET (1 .. n)
        PROVE  g[T] = IF T = {} THEN Home(p, s) ELSE Op(g[T \ {Max(T)}], Comers(p, s)[Max(T)])
    <3>1. g[T] = IF T = {} THEN Home(p, s) ELSE step[<<T, g[T \ {Max(T)}]>>]
      BY <2>2 DEF FoldsTo
    <3>2. T \ {Max(T)} \in SUBSET (1 .. n)
      OBVIOUS
    <3>3. g[T \ {Max(T)}] \in V[T \ {Max(T)}]
      BY <2>2, <3>2, Zenon
    <3>4. step[<<T, g[T \ {Max(T)}]>>] = Op(g[T \ {Max(T)}], Comers(p, s)[Max(T)])
      BY <1>3, <3>3, Zenon
    <3> QED BY <3>1, <3>4, Zenon
  <2>4. g = [T \in SUBSET (1 .. n) |-> g[T]]
    BY <2>2 DEF FoldsTo
  <2> QED BY <2>3, <2>4
<1>5. Eq(G)
  BY <1>4
<1> HIDE DEF G
<1>6. ASSUME NEW T \in SUBSET (1 .. n), T # {} => G[T \ {Max(T)}] \in V[T \ {Max(T)}]
      PROVE  G[T] \in V[T]
  <2>1. G[T] = IF T = {} THEN Home(p, s) ELSE Op(G[T \ {Max(T)}], Comers(p, s)[Max(T)])
    BY <1>5
  <2>2. CASE T = {}
    BY <2>1, <2>2, Zenon
  <2>3. CASE T # {}
    <3>1. Op(G[T \ {Max(T)}], Comers(p, s)[Max(T)]) \in V[T]
      BY <1>2, <1>6, <2>3, Zenon
    <3> QED BY <2>1, <2>3, <3>1
  <2> QED BY <2>2, <2>3
<1>7. G[1 .. n] \in V[1 .. n]
  BY <1>6, FoldValues, Zenon
<1> QED BY <1>1, <1>7

(* The exchange in the terms of these lemmas.                              *)
LEMMA MigrantsPeople ==
    ASSUME layout \in Layouts, NEW p \in Proc, NEW s
    PROVE  WithMigrants(p, s) = Peopled(p, s)
<1> DEFINE gone == [q \in Proc |-> Drained(q, s)]
           o == Others(p)
           come == [k \in DOMAIN o |-> LET out == gone[o[k]].out
                                       IN  Among(out, {c \in ToSet(out) : c.to = p})]
           part == [k \in DOMAIN o |-> Part(Drained(o[k], s).out, p)]
<1>1. WithMigrants(p, s) =
         FoldLeft(LAMBDA u, c : AddOwned(u, c.id, c.x, c.bin),
                  DeleteAllGhosts(BroughtBack(p, gone[p].t, s), GhostBins), FlattenSeq(come))
  BY DEF WithMigrants
<1>2. Peopled(p, s) =
         FoldLeft(LAMBDA u, c : AddOwned(u, c.id, c.x, c.bin), Home(p, s), FlattenSeq(part))
  BY DEF Peopled, Comers
<1>3. o \in Seq(Proc)
  BY OthersAre
<1> HIDE DEF o
<1>4. \A k \in DOMAIN o : o[k] \in Proc
  BY <1>3
<1>5. \A q \in Proc : gone[q] = Drained(q, s)
  OBVIOUS
<1> HIDE DEF gone
<1>6. ASSUME NEW k \in DOMAIN o PROVE come[k] = part[k]
  <2>1. gone[o[k]] = Drained(o[k], s)
    BY <1>4, <1>5
  <2> QED BY <2>1 DEF Part
<1>7. come = part
  <2>1. come = [k \in DOMAIN o |-> come[k]] /\ part = [k \in DOMAIN o |-> part[k]]
    OBVIOUS
  <2> HIDE DEF come, part
  <2> QED BY <1>6, <2>1
<1>8. DeleteAllGhosts(BroughtBack(p, gone[p].t, s), GhostBins) = Home(p, s)
  BY <1>5 DEF Home
<1> HIDE DEF come, part
<1> QED BY <1>1, <1>2, <1>7, <1>8

(* What comes to p.                                                        *)
Incoming(p) ==
    {c \in [id : Nat, bin : Bins, to : Proc, x : Point] :
        c.to = p /\ InDomain(p, c.x) /\ Site2Bin(p, c.x) = c.bin}

(* The owned sites have the names N and are at home, all others slots are  *)
(* free, in order.                                                         *)
Joined(p, u, N) ==
    /\ u \in SiteTables(Bins) /\ u.nlocal \in 0 .. u.nmax
    /\ \A k \in 0 .. u.nlocal - 1 : InDomain(p, u.xyz[k]) /\ u.bin[k] = Site2Bin(p, u.xyz[k])
    /\ \E q : /\ Whole(u, 0 .. u.nlocal - 1, q) /\ ToTheEnd(u, q) /\ Consecutive(q)
              /\ Len(q) # 0 => q[1] = u.nlocal
    /\ Named(u) /\ Names(u) = N

(* One more site arrives: the table gets its id, which it did not have.    *)
LEMMA JoinOne ==
    ASSUME layout \in Layouts, NEW p \in Proc, NEW t, NEW N, Joined(p, t, N),
           NEW c \in Incoming(p), c.id \notin N,
           NEW u, u = AddOwned(t, c.id, c.x, c.bin)
    PROVE  Joined(p, u, N \cup {c.id})
<1> DEFINE n == t.nmax
           L == 0 .. t.nlocal - 1
           j == WithFreeSlot(t).freehead
           l == t.nlocal
<1>1. /\ t \in SiteTables(Bins) /\ l \in 0 .. n
      /\ \A k \in L : InDomain(p, t.xyz[k]) /\ t.bin[k] = Site2Bin(p, t.xyz[k])
      /\ Named(t) /\ Names(t) = N
  BY DEF Joined
<1>2. PICK q : /\ Whole(t, L, q) /\ ToTheEnd(t, q) /\ Consecutive(q)
               /\ Len(q) # 0 => q[1] = l
  BY DEF Joined
<1>3. n \in Nat /\ t \in TableOf(n, Bins)
  BY <1>1, TableIs
<1>4. /\ c.id \in Nat /\ c.x \in Int \X Int /\ c.bin \in Bins
      /\ InDomain(p, c.x) /\ Site2Bin(p, c.x) = c.bin
  BY DEF Incoming, Point
<1>5. NoPlace \in Bins
  <2>1. NBinX \in Nat \ {0} /\ NBinY \in Nat \ {0}
    BY GridIs DEF Axis
  <2> QED BY <2>1 DEF NoPlace, Bins
<1>6. /\ u \in SiteTables(Bins) /\ u.nlocal = l + 1
      /\ \E q2 : Obtained(u, t, L, q, j, c.id, c.x, c.bin, q2)
  <2> HIDE DEF L, j
  <2>1. /\ AddOwned(t, c.id, c.x, c.bin) \in SiteTables(Bins)
        /\ AddOwned(t, c.id, c.x, c.bin).nlocal = t.nlocal + 1
        /\ \E q2 : Obtained(AddOwned(t, c.id, c.x, c.bin), t, L, q, WithFreeSlot(t).freehead, c.id, c.x, c.bin, q2)
    BY <1>2, <1>3, <1>4, <1>5, AddOwnedWhole
  <2> QED BY <2>1 DEF j
<1>7. PICK q2 : Obtained(u, t, L, q, j, c.id, c.x, c.bin, q2)
  BY <1>6
<1> HIDE DEF j
<1>8. /\ n <= u.nmax /\ j \in (0 .. u.nmax - 1) \ L
      /\ Whole(u, L \cup {j}, q2)
      /\ u.id[j] = c.id /\ u.xyz[j] = c.x /\ u.bin[j] = c.bin
      /\ \A k \in L : u.id[k] = t.id[k] /\ u.xyz[k] = t.xyz[k] /\ u.bin[k] = t.bin[k]
      /\ ToTheEnd(u, q2) /\ Consecutive(q2) /\ j = IF Len(q) = 0 THEN n ELSE q[1]
  BY <1>2, <1>7 DEF Obtained
<1>9. u.nmax \in Nat /\ u \in TableOf(u.nmax, Bins)
  BY <1>6, TableIs
<1>10. j = l
  <2>1. Free(t, q) /\ Elements(q) = (0 .. n - 1) \ L
    <3> HIDE DEF L, n
    <3> QED BY <1>2, <1>3, WholeIs
  <2>2. q \in Seq(0 .. n - 1)
    BY <2>1 DEF Free
  <2>3. Len(q) = 0 <=> l = n
    BY <1>1, <1>2, <1>3, <2>1, <2>2, FirstFree
  <2> QED BY <1>2, <1>8, <2>3
<1>11. L \cup {j} = 0 .. u.nlocal - 1 /\ u.nlocal \in 0 .. u.nmax
  BY <1>1, <1>3, <1>6, <1>8, <1>9, <1>10
<1>12. Whole(u, 0 .. u.nlocal - 1, q2)
  BY <1>8, <1>11
<1>13. Len(q2) # 0 => q2[1] = u.nlocal
  <2>1. Free(u, q2) /\ Elements(q2) = (0 .. u.nmax - 1) \ (0 .. u.nlocal - 1)
    <3> DEFINE own == 0 .. u.nlocal - 1
               size == u.nmax
    <3>1. Whole(u, own, q2) /\ size \in Nat /\ u \in TableOf(size, Bins)
      BY <1>9, <1>12
    <3> HIDE DEF own, size
    <3>2. Free(u, q2) /\ Elements(q2) = (0 .. size - 1) \ own
      BY <3>1, WholeIs
    <3> QED BY <3>2 DEF own, size
  <2>2. q2 \in Seq(0 .. u.nmax - 1)
    BY <2>1 DEF Free
  <2>3. u.nmax \in Nat /\ u.nlocal \in 0 .. u.nmax /\ Consecutive(q2)
    BY <1>8, <1>9, <1>11
  <2> QED BY <2>1, <2>2, <2>3, FirstFree, SMTT(60)
<1>14. ASSUME NEW k \in 0 .. u.nlocal - 1
       PROVE  InDomain(p, u.xyz[k]) /\ u.bin[k] = Site2Bin(p, u.xyz[k])
  <2>1. k \in L \/ k = j
    BY <1>11
  <2> QED BY <1>1, <1>4, <1>8, <2>1
<1>15. Named(u) /\ Names(u) = N \cup {c.id}
  <2>1. t.nlocal \in Nat /\ u.nlocal = t.nlocal + 1 /\ u.id[t.nlocal] = c.id
        /\ \A k \in 0 .. t.nlocal - 1 : u.id[k] = t.id[k]
    BY <1>1, <1>3, <1>6, <1>8, <1>10
  <2> QED BY <1>1, <2>1, NamesAdd
<1> QED BY <1>6, <1>8, <1>11, <1>12, <1>13, <1>14, <1>15 DEF Joined

(* When all have come the process is ready for the next exchange.          *)
LEMMA JoinedSettled ==
    ASSUME NEW p, NEW u, NEW N, Joined(p, u, N)
    PROVE  Settled(p, u) /\ Named(u) /\ Names(u) = N
<1> DEFINE n == u.nmax
           L == 0 .. u.nlocal - 1
<1>1. u \in SiteTables(Bins) /\ u.nlocal \in 0 .. n
  BY DEF Joined
<1>2. n \in Nat /\ u \in TableOf(n, Bins)
  BY <1>1, TableIs
<1>3. PICK q : Whole(u, L, q) /\ Consecutive(q)
  BY DEF Joined
<1>4. Keeps(u, L, Bins, u.binhead) /\ Free(u, q) /\ Elements(q) = (0 .. n - 1) \ L
  <2> HIDE DEF L, n
  <2> QED BY <1>2, <1>3, WholeIs
<1>5. u.nlocal = n => u.freehead = Nil
  <2>1. q \in Seq(0 .. n - 1) /\ RunsDown(u.next, u.freehead, q)
    BY <1>4 DEF Free
  <2>2. Len(q) = 0 <=> u.nlocal = n
    BY <1>1, <1>2, <1>3, <1>4, <2>1, FirstFree
  <2> QED BY <2>1, <2>2 DEF RunsDown
<1> QED BY <1>1, <1>4, <1>5 DEF Joined, Settled

(* Every site is owned by one process.                                     *)
Ledger(tab) ==
    /\ \A p \in Proc : Named(tab[p])
    /\ \A p, q \in Proc : p # q => Names(tab[p]) \cap Names(tab[q]) = {}
    /\ UNION {Names(tab[p]) : p \in Proc} = Id

(* The ghost bins that p sends.                                            *)
Outward(p, s) == {e.of : e \in Elements(PackList(p, s))}
Inward(p, s) == {e.of : e \in Elements(To(ReverseList(p, s), p))}

(* All processes have packed what they send.                               *)
AllPacked(s) ==
    \A q \in Proc : Draining(q, s, Drained(q, s), Outward(q, s), Names(table[q]))

(* Every process has packed what it has to send.                           *)
LEMMA AllPackedIs ==
    ASSUME layout \in Layouts, Sectored, NEW s, \A q \in Proc : \E K : Equipped(q, table[q], s, K),
           Ledger(table)
    PROVE  AllPacked(s)
<1>1. \A q \in Proc : \E L, f : Fitted(q, table[q], L, f)
  BY DEF Equipped
<1>2. ASSUME NEW q \in Proc
      PROVE  Draining(q, s, Drained(q, s), Outward(q, s), Names(table[q]))
  <2>1. PICK K : Equipped(q, table[q], s, K)
    OBVIOUS
  <2>2. Named(table[q])
    BY DEF Ledger
  <2>3. Draining(q, s, Drained(q, s), {e.of : e \in Elements(PackList(q, s))}, Names(table[q]))
    BY <1>1, <2>1, <2>2, DrainedIs
  <2> QED BY <2>3 DEF Outward
<1> QED BY <1>2 DEF AllPacked

(* The sites that stay, ready for those that come.                         *)
LEMMA HomeIs ==
    ASSUME layout \in Layouts, Sectored, NEW p \in Proc, NEW s, NEW N,
           Draining(p, s, Drained(p, s), Outward(p, s), N)
    PROVE  Joined(p, Home(p, s), Names(Drained(p, s).t))
<1> DEFINE t == Drained(p, s).t
           out == Drained(p, s).out
           D == Outward(p, s)
           Z == Inward(p, s)
           v == BroughtBack(p, t, s)
           u == Home(p, s)
<1>1. Elements(PackList(p, s)) = {e \in Returns(p) : Listing(s, e.of) /\ e.proc # p}
  BY PackListIs
<1>2. Elements(To(ReverseList(p, s), p)) = {e \in Returns(p) : Listing(s, e.of) /\ e.proc = p}
  BY BackListIs
<1>3. D \in SUBSET GhostBins
  BY <1>1 DEF Outward, Returns
<1>4. ASSUME NEW e \in Returns(p), e.proc = p PROVE e.of \notin D
  <2>1. SUFFICES ASSUME e.of \in D PROVE FALSE
    OBVIOUS
  <2>2. PICK d \in Elements(PackList(p, s)) : d.of = e.of
    BY <2>1 DEF Outward
  <2>3. d \in Returns(p) /\ d.proc # p
    BY <1>1
  <2>4. d = e
    BY <2>2, <2>3, SameReturn
  <2> QED BY <1>4, <2>3, <2>4
<1>5. ASSUME NEW g \in GhostBins, SectorGhost(s, g) PROVE g \in D \cup Z
  <2> DEFINE e == [of |-> g, to |-> GhostIndex(g), proc |-> NeighProc(p, 1, g)]
  <2>1. e \in Returns(p) /\ e.of = g
    BY ReturnFor
  <2> HIDE DEF e
  <2>2. Listing(s, e.of)
    BY <1>5, <2>1 DEF Listing
  <2>3. e \in Elements(PackList(p, s)) \/ e \in Elements(To(ReverseList(p, s), p))
    BY <1>1, <1>2, <2>1, <2>2
  <2> QED BY <2>1, <2>3 DEF Outward, Inward
<1>6. /\ Sent(p, t, out, N)
      /\ \E S, h : Packing(p, s, t, S, h, D, D)
  BY DEF Draining
<1>7. t \in SiteTables(Bins)
  BY <1>6 DEF Packing
<1>8. Returning(p, s, t, t, D, {})
  BY <1>6, <1>7 DEF Returning
<1>9. Z = {e.of : e \in Elements(To(ReverseList(p, s), p))}
  BY DEF Inward
<1>10. u = DeleteAllGhosts(v, GhostBins)
  BY DEF Home
<1> HIDE DEF t, D, Z, u
<1>11. Returning(p, s, v, t, D, Z)
  BY <1>3, <1>4, <1>8, <1>9, BroughtBackIs
<1> HIDE DEF v
<1>12. Back(p, u, t)
  BY <1>3, <1>5, <1>10, <1>11, BackIs
<1>13. /\ u \in SiteTables(Bins) /\ u.nlocal = t.nlocal
       /\ \A k \in 0 .. t.nlocal - 1 : /\ u.id[k] = t.id[k] /\ InDomain(p, u.xyz[k])
                                       /\ u.bin[k] = Site2Bin(p, u.xyz[k])
       /\ \E q : /\ Whole(u, 0 .. u.nlocal - 1, q) /\ ToTheEnd(u, q) /\ Consecutive(q)
                 /\ Len(q) # 0 => q[1] = u.nlocal
  BY <1>12 DEF Back
<1>14. Named(t)
  BY <1>6 DEF Sent
<1>15. Named(u) /\ Names(u) = Names(t)
  BY <1>13, <1>14 DEF Named, Names
<1>16. u.nlocal \in 0 .. u.nmax
  <2>1. PICK q : Whole(u, 0 .. u.nlocal - 1, q)
    BY <1>13
  <2>2. u.nmax \in Nat /\ u.nlocal \in Int
    <3>1. u.nmax \in Nat /\ u \in TableOf(u.nmax, Bins)
      BY <1>13, TableIs
    <3> QED BY <3>1 DEF TableOf
  <2>3. t.nlocal \in 0 .. t.nmax /\ t.nmax \in Nat
    BY <1>6, <1>7, TableIs DEF Packing
  <2>4. 0 .. u.nlocal - 1 \subseteq 0 .. u.nmax - 1
    BY <2>1 DEF Whole, Keeps
  <2>5. u.nlocal \in Nat
    BY <1>13, <2>3
  <2>6. u.nlocal # 0 => u.nlocal - 1 \in 0 .. u.nlocal - 1
    BY <2>5
  <2>7. u.nlocal # 0 => u.nlocal - 1 \in 0 .. u.nmax - 1
    BY <2>4, <2>6
  <2> QED BY <2>2, <2>5, <2>7
<1>17. Joined(p, u, Names(t))
  BY <1>13, <1>15, <1>16 DEF Joined
<1> QED BY <1>17 DEF u, t

(* What comes to p: the parcels for it that the others have sent.          *)
Sending(q, s) == Drained(q, s).out

(* The sites that come to a process, all different.                        *)
LEMMA ComersAre ==
    ASSUME layout \in Layouts, NEW p \in Proc, NEW s, AllPacked(s), Ledger(table)
    PROVE  /\ Comers(p, s) \in Seq(Incoming(p))
           /\ \A j, k \in 1 .. Len(Comers(p, s)) :
                 Comers(p, s)[j].id = Comers(p, s)[k].id => j = k
           /\ Elements(Comers(p, s)) =
                 UNION {{c \in Elements(Sending(q, s)) : c.to = p} : q \in Proc \ {p}}
<1> DEFINE o == Others(p)
           ss == [k \in DOMAIN o |-> Part(Sending(o[k], s), p)]
           come == Comers(p, s)
<1>1. o \in Seq(Proc) /\ Distinct(o) /\ Elements(o) = Proc \ {p}
  BY OthersAre
<1>2. come = FlattenSeq(ss)
  BY DEF Comers, Sending
<1>3. ASSUME NEW q \in Proc
      PROVE  /\ Sending(q, s) \in Seq(Parcel(q))
             /\ \A j, k \in 1 .. Len(Sending(q, s)) : Sending(q, s)[j].id = Sending(q, s)[k].id => j = k
             /\ Ids(Sending(q, s)) \subseteq Names(table[q])
  <2>1. Sent(q, Drained(q, s).t, Sending(q, s), Names(table[q]))
    BY DEF AllPacked, Draining, Sending
  <2> QED BY <2>1 DEF Sent
<1>4. ASSUME NEW q \in Proc
      PROVE  /\ Part(Sending(q, s), p) \in Seq(Incoming(p)) /\ Distinct(Part(Sending(q, s), p))
             /\ Elements(Part(Sending(q, s), p)) = {c \in Elements(Sending(q, s)) : c.to = p}
  <2> DEFINE f == Sending(q, s)
             X == {c \in ToSet(f) : c.to = p}
  <2>1. f \in Seq(Parcel(q)) /\ \A j, k \in 1 .. Len(f) : f[j].id = f[k].id => j = k
    BY <1>3
  <2>2. Part(f, p) = Among(f, X)
    BY DEF Part
  <2> HIDE DEF f
  <2>3. Distinct(f)
    BY <2>1 DEF Distinct
  <2>4. ToSet(f) = Elements(f)
    BY <2>1 DEF ToSet, Elements
  <2> HIDE DEF X
  <2>5. /\ Among(f, X) \in Seq(Parcel(q)) /\ Elements(Among(f, X)) = Elements(f) \cap X
        /\ Distinct(Among(f, X))
    BY <2>1, <2>3, AmongIs
  <2>6. Elements(f) \cap X = {c \in Elements(f) : c.to = p}
    BY <2>4 DEF X
  <2>7. Elements(f) \subseteq Parcel(q)
    BY <2>1, ElementsIn
  <2>8. Elements(Among(f, X)) \subseteq Incoming(p)
    BY <2>5, <2>6, <2>7 DEF Parcel, Incoming
  <2>9. Among(f, X) \in Seq(Incoming(p))
    BY <2>5, <2>8, SeqIn
  <2> QED BY <2>2, <2>5, <2>6, <2>9 DEF f
<1> HIDE DEF o, come
<1>5. Len(o) \in Nat /\ DOMAIN o = 1 .. Len(o) /\ \A k \in 1 .. Len(o) : o[k] \in Proc
  BY <1>1
<1>6. ss \in Seq(Seq(Incoming(p))) /\ Len(ss) = Len(o)
  <2>1. \A k \in 1 .. Len(o) : ss[k] \in Seq(Incoming(p))
    BY <1>4, <1>5
  <2>2. ss = [k \in DOMAIN ss |-> ss[k]] /\ DOMAIN ss = DOMAIN o
    OBVIOUS
  <2> HIDE DEF ss
  <2> QED BY <1>1, <2>1, <2>2, MapIs
<1>7. \A k \in 1 .. Len(o) : /\ Distinct(ss[k])
                             /\ Elements(ss[k]) = {c \in Elements(Sending(o[k], s)) : c.to = p}
  BY <1>4, <1>5
<1>8. ASSUME NEW q \in Proc, NEW r \in Proc, NEW c \in Elements(Sending(q, s)),
             NEW d \in Elements(Sending(r, s)), c.id = d.id
      PROVE  q = r /\ c = d
  <2>1. PICK j \in 1 .. Len(Sending(q, s)) : c = Sending(q, s)[j]
    BY DEF Elements
  <2>2. PICK k \in 1 .. Len(Sending(r, s)) : d = Sending(r, s)[k]
    BY DEF Elements
  <2>3. c.id \in Names(table[q]) /\ d.id \in Names(table[r])
    BY <1>3, <2>1, <2>2 DEF Ids
  <2>4. q = r
    BY <1>8, <2>3 DEF Ledger
  <2> QED BY <1>3, <1>8, <2>1, <2>2, <2>4
<1> HIDE DEF ss
<1>9. SlotsApart(ss)
  <2>1. ASSUME NEW j \in 1 .. Len(o), NEW k \in 1 .. Len(o), j # k
        PROVE  Elements(ss[j]) \cap Elements(ss[k]) = {}
    <3>1. SUFFICES ASSUME NEW c \in Elements(ss[j]), c \in Elements(ss[k]) PROVE FALSE
      OBVIOUS
    <3>2. c \in Elements(Sending(o[j], s)) /\ c \in Elements(Sending(o[k], s))
      BY <1>7, <3>1
    <3>3. o[j] = o[k]
      BY <1>5, <1>8, <3>2
    <3> QED BY <1>1, <2>1, <3>3 DEF Distinct
  <2> QED BY <1>6, <1>7, <2>1 DEF SlotsApart
<1>10. /\ come \in Seq(Incoming(p)) /\ Distinct(come)
       /\ Elements(come) = UNION {Elements(ss[k]) : k \in 1 .. Len(ss)}
  BY <1>2, <1>6, <1>9, FlattenIs
<1>11. Elements(come) = UNION {{c \in Elements(Sending(q, s)) : c.to = p} : q \in Proc \ {p}}
  <2>1. ASSUME NEW k \in 1 .. Len(o) PROVE o[k] \in Proc \ {p}
    BY <1>1, <2>1 DEF Elements
  <2>2. ASSUME NEW q \in Proc \ {p} PROVE \E k \in 1 .. Len(o) : o[k] = q
    BY <1>1, <2>2 DEF Elements
  <2> QED BY <1>6, <1>7, <1>10, <2>1, <2>2
<1>12. ASSUME NEW j \in 1 .. Len(come), NEW k \in 1 .. Len(come), come[j].id = come[k].id
       PROVE  j = k
  <2>1. come[j] \in Elements(come) /\ come[k] \in Elements(come)
    BY DEF Elements
  <2>2. PICK q \in Proc : come[j] \in Elements(Sending(q, s))
    BY <1>11, <2>1
  <2>3. PICK r \in Proc : come[k] \in Elements(Sending(r, s))
    BY <1>11, <2>1
  <2>4. come[j] = come[k]
    BY <1>8, <1>12, <2>2, <2>3
  <2> QED BY <1>10, <2>4 DEF Distinct
<1> QED BY <1>10, <1>11, <1>12 DEF come

(* The names that p has when all have come.                                *)
Kin(p, s) == Names(Drained(p, s).t) \cup Ids(Comers(p, s))

(* What a process has packed and what it keeps share the ids it had.       *)
LEMMA SentIs ==
    ASSUME NEW s, AllPacked(s), NEW q \in Proc
    PROVE  /\ \A j, k \in 1 .. Len(Sending(q, s)) : Sending(q, s)[j].id = Sending(q, s)[k].id => j = k
           /\ Ids(Sending(q, s)) \cap Names(Drained(q, s).t) = {}
           /\ Ids(Sending(q, s)) \cup Names(Drained(q, s).t) = Names(table[q])
           /\ Sending(q, s) \in Seq(Parcel(q))
<1>1. Sent(q, Drained(q, s).t, Sending(q, s), Names(table[q]))
  BY DEF AllPacked, Draining, Sending
<1> QED BY <1>1 DEF Sent

(* Each site that comes was packed by another process for this one.        *)
LEMMA ComerIs ==
    ASSUME layout \in Layouts, NEW p \in Proc, NEW s, AllPacked(s), Ledger(table),
           NEW k \in 1 .. Len(Comers(p, s))
    PROVE  \E q \in Proc \ {p} : \E j \in 1 .. Len(Sending(q, s)) :
              Sending(q, s)[j] = Comers(p, s)[k] /\ Sending(q, s)[j].to = p
<1>1. Comers(p, s)[k] \in Elements(Comers(p, s))
  BY DEF Elements
<1>2. PICK q \in Proc \ {p} : Comers(p, s)[k] \in Elements(Sending(q, s)) /\ Comers(p, s)[k].to = p
  BY <1>1, ComersAre
<1> QED BY <1>2 DEF Elements

(* After the exchange the table has the sites that stayed and those that   *)
(* came.                                                                   *)
LEMMA PeopledIs ==
    ASSUME layout \in Layouts, Sectored, NEW p \in Proc, NEW s, AllPacked(s), Ledger(table)
    PROVE  Joined(p, Peopled(p, s), Kin(p, s))
<1> DEFINE list == Comers(p, s)
           n == Len(list)
           N == Names(Drained(p, s).t)
           Known(T) == N \cup {list[k].id : k \in T}
           V == [T \in SUBSET (1 .. n) |-> {u \in SiteTables(Bins) : Joined(p, u, Known(T))}]
<1>1. /\ list \in Seq(Incoming(p))
      /\ \A j, k \in 1 .. Len(list) : list[j].id = list[k].id => j = k
  BY ComersAre
<1>2. ASSUME NEW k \in 1 .. n PROVE list[k].id \notin N
  <2>1. PICK q \in Proc \ {p} : \E j \in 1 .. Len(Sending(q, s)) : Sending(q, s)[j] = list[k]
    BY ComerIs
  <2>2. list[k].id \in Ids(Sending(q, s))
    BY <2>1 DEF Ids
  <2>3. list[k].id \in Names(table[q])
    BY <2>2, SentIs
  <2>5. N \subseteq Names(table[p])
    BY SentIs
  <2>4. Names(table[q]) \cap Names(table[p]) = {}
    BY DEF Ledger
  <2> QED BY <2>3, <2>4, <2>5
<1>3. Joined(p, Home(p, s), N)
  <2>1. Draining(p, s, Drained(p, s), Outward(p, s), Names(table[p]))
    BY DEF AllPacked
  <2> QED BY <2>1, HomeIs
<1> HIDE DEF list, N
<1>4. n \in Nat /\ DOMAIN list = 1 .. n /\ \A k \in 1 .. n : list[k] \in Incoming(p)
  BY <1>1
<1>5. ASSUME NEW u, NEW M, Joined(p, u, M) PROVE u \in SiteTables(Bins)
  BY <1>5 DEF Joined
<1>6. Home(p, s) \in V[{}]
  <2>1. Known({}) = N
    OBVIOUS
  <2> HIDE DEF Known
  <2>2. Joined(p, Home(p, s), Known({}))
    BY <1>3, <2>1
  <2> QED BY <1>5, <2>2
<1>7. \A T \in SUBSET (1 .. n) : T # {} =>
        \A v \in V[T \ {Max(T)}] : AddOwned(v, list[Max(T)].id, list[Max(T)].x, list[Max(T)].bin) \in V[T]
  <2>1. SUFFICES ASSUME NEW T \in SUBSET (1 .. n), T # {}, NEW v \in V[T \ {Max(T)}]
                 PROVE  AddOwned(v, list[Max(T)].id, list[Max(T)].x, list[Max(T)].bin) \in V[T]
    BY Zenon
  <2> DEFINE m == Max(T)
             c == list[m]
             M == Known(T \ {m})
             w == AddOwned(v, c.id, c.x, c.bin)
  <2>2. m \in T /\ m \in 1 .. n
    BY <1>4, <2>1, MaxOf
  <2>3. T \ {m} \in SUBSET (1 .. n)
    OBVIOUS
  <2> HIDE DEF m
  <2>4. Joined(p, v, M)
    BY <2>1, <2>3 DEF m
  <2>5. c \in Incoming(p)
    BY <1>4, <2>2
  <2>6. c.id \notin M
    BY <1>1, <1>2, <2>2
  <2>7. Known(T) = M \cup {c.id}
    BY <2>2
  <2>8. w = AddOwned(v, c.id, c.x, c.bin)
    OBVIOUS
  <2> HIDE DEF c, Known, M, w
  <2>9. Joined(p, w, M \cup {c.id})
    BY <2>4, <2>5, <2>6, <2>8, JoinOne
  <2>10. w \in V[T]
    BY <1>5, <2>7, <2>9
  <2> HIDE DEF V
  <2> QED BY <2>10 DEF w, c, m
<1>8. Peopled(p, s) \in V[1 .. n]
  <2> HIDE DEF V
  <2> QED BY <1>4, <1>6, <1>7, PeopledFold DEF list
<1>9. 1 .. n \in SUBSET (1 .. n)
  OBVIOUS
<1>10. Known(1 .. n) = Kin(p, s)
  BY DEF Kin, Ids, N, list
<1> HIDE DEF Known
<1>11. Joined(p, Peopled(p, s), Known(1 .. n))
  BY <1>8, <1>9
<1> QED BY <1>10, <1>11

(* No name is lost or doubled.                                             *)
LEMMA KinOf ==
    ASSUME layout \in Layouts, NEW s, AllPacked(s), Ledger(table), NEW p \in Proc, NEW name
    PROVE  name \in Kin(p, s) <=>
              \/ name \in Names(Drained(p, s).t)
              \/ \E q \in Proc \ {p} : \E j \in 1 .. Len(Sending(q, s)) :
                    Sending(q, s)[j].id = name /\ Sending(q, s)[j].to = p
<1>1. ASSUME name \in Ids(Comers(p, s))
      PROVE  \E q \in Proc \ {p} : \E j \in 1 .. Len(Sending(q, s)) :
                Sending(q, s)[j].id = name /\ Sending(q, s)[j].to = p
  <2>1. PICK k \in 1 .. Len(Comers(p, s)) : Comers(p, s)[k].id = name
    BY <1>1 DEF Ids
  <2> QED BY <2>1, ComerIs
<1>2. ASSUME NEW q \in Proc \ {p}, NEW j \in 1 .. Len(Sending(q, s)),
             Sending(q, s)[j].id = name, Sending(q, s)[j].to = p
      PROVE  name \in Ids(Comers(p, s))
  <2>1. Sending(q, s)[j] \in Elements(Sending(q, s))
    BY DEF Elements
  <2>2. Sending(q, s)[j] \in Elements(Comers(p, s))
    BY <1>2, <2>1, ComersAre
  <2> QED BY <1>2, <2>2 DEF Elements, Ids
<1> QED BY <1>1, <1>2 DEF Kin

(* No site has two owners after the exchange.                              *)
LEMMA KinApart ==
    ASSUME layout \in Layouts, NEW s, AllPacked(s), Ledger(table), NEW p \in Proc, NEW r \in Proc,
           NEW name, name \in Kin(p, s), name \in Kin(r, s)
    PROVE  p = r
<1>1. ASSUME NEW a \in Proc, name \in Names(Drained(a, s).t) PROVE name \in Names(table[a])
  BY <1>1, SentIs
<1>2. ASSUME NEW q \in Proc, NEW j \in 1 .. Len(Sending(q, s)), Sending(q, s)[j].id = name
      PROVE  name \in Names(table[q]) /\ name \notin Names(Drained(q, s).t)
  <2>1. name \in Ids(Sending(q, s))
    BY <1>2 DEF Ids
  <2> QED BY <2>1, SentIs
<1>3. \A a, c \in Proc : name \in Names(table[a]) /\ name \in Names(table[c]) => a = c
  BY DEF Ledger
<1>4. CASE name \in Names(Drained(p, s).t) /\ name \in Names(Drained(r, s).t)
  BY <1>1, <1>3, <1>4
<1>5. ASSUME NEW a \in Proc, NEW c \in Proc, name \in Names(Drained(a, s).t),
             \E q \in Proc \ {c} : \E j \in 1 .. Len(Sending(q, s)) :
                    Sending(q, s)[j].id = name /\ Sending(q, s)[j].to = c
      PROVE  FALSE
  <2>1. PICK q \in Proc : \E j \in 1 .. Len(Sending(q, s)) : Sending(q, s)[j].id = name
    BY <1>5
  <2>2. name \in Names(table[q]) /\ name \notin Names(Drained(q, s).t)
    BY <1>2, <2>1
  <2>3. q = a
    BY <1>1, <1>3, <1>5, <2>2
  <2> QED BY <1>5, <2>2, <2>3
<1>6. ASSUME \E q \in Proc \ {p} : \E j \in 1 .. Len(Sending(q, s)) :
                    Sending(q, s)[j].id = name /\ Sending(q, s)[j].to = p,
             \E q \in Proc \ {r} : \E j \in 1 .. Len(Sending(q, s)) :
                    Sending(q, s)[j].id = name /\ Sending(q, s)[j].to = r
      PROVE  p = r
  <2>1. PICK q \in Proc : \E j \in 1 .. Len(Sending(q, s)) :
               Sending(q, s)[j].id = name /\ Sending(q, s)[j].to = p
    BY <1>6
  <2>2. PICK a \in Proc : \E k \in 1 .. Len(Sending(a, s)) :
               Sending(a, s)[k].id = name /\ Sending(a, s)[k].to = r
    BY <1>6
  <2>3. name \in Names(table[q]) /\ name \in Names(table[a])
    BY <1>2, <2>1, <2>2
  <2>4. q = a
    BY <1>3, <2>3
  <2>5. PICK j \in 1 .. Len(Sending(q, s)) : Sending(q, s)[j].id = name /\ Sending(q, s)[j].to = p
    BY <2>1
  <2>6. PICK k \in 1 .. Len(Sending(q, s)) : Sending(q, s)[k].id = name /\ Sending(q, s)[k].to = r
    BY <2>2, <2>4
  <2>7. j = k
    BY <2>5, <2>6, SentIs
  <2> QED BY <2>5, <2>6, <2>7
<1> QED BY <1>4, <1>5, <1>6, KinOf

(* Every site has an owner after the exchange.                             *)
LEMMA KinHolds ==
    ASSUME layout \in Layouts, NEW s, AllPacked(s), Ledger(table), NEW q \in Proc, NEW name \in Names(table[q])
    PROVE  \E p \in Proc : name \in Kin(p, s)
<1>1. name \in Ids(Sending(q, s)) \/ name \in Names(Drained(q, s).t)
  BY SentIs
<1>2. CASE name \in Names(Drained(q, s).t)
  BY <1>2, KinOf
<1>3. CASE name \in Ids(Sending(q, s))
  <2>1. PICK j \in 1 .. Len(Sending(q, s)) : Sending(q, s)[j].id = name
    BY <1>3 DEF Ids
  <2>2. Sending(q, s)[j] \in Parcel(q)
    BY SentIs
  <2>3. Sending(q, s)[j].to \in Proc /\ Sending(q, s)[j].to # q
    BY <2>2 DEF Parcel
  <2>4. q \in Proc \ {Sending(q, s)[j].to}
    BY <2>3
  <2> QED BY <2>1, <2>3, <2>4, KinOf
<1> QED BY <1>1, <1>2, <1>3

(* Every site after the exchange was there before.                         *)
LEMMA KinKnown ==
    ASSUME layout \in Layouts, NEW s, AllPacked(s), Ledger(table), NEW p \in Proc, NEW name \in Kin(p, s)
    PROVE  \E q \in Proc : name \in Names(table[q])
<1>1. CASE name \in Names(Drained(p, s).t)
  BY <1>1, SentIs
<1>2. CASE \E q \in Proc \ {p} : \E j \in 1 .. Len(Sending(q, s)) :
              Sending(q, s)[j].id = name /\ Sending(q, s)[j].to = p
  <2>1. PICK q \in Proc : \E j \in 1 .. Len(Sending(q, s)) : Sending(q, s)[j].id = name
    BY <1>2
  <2>2. name \in Ids(Sending(q, s))
    BY <2>1 DEF Ids
  <2> QED BY <2>2, SentIs
<1> QED BY <1>1, <1>2, KinOf

(* The exchange after a sector.                                            *)
LEMMA MigrantsAre ==
    ASSUME layout \in Layouts, Sectored, NEW s, \A q \in Proc : \E K : Equipped(q, table[q], s, K),
           Ledger(table), NEW tab, tab = [p \in Proc |-> WithMigrants(p, s)]
    PROVE  Ledger(tab) /\ \A p \in Proc : Settled(p, tab[p])
<1>1. AllPacked(s)
  BY AllPackedIs
<1>2. ASSUME NEW p \in Proc
      PROVE  Settled(p, tab[p]) /\ Named(tab[p]) /\ Names(tab[p]) = Kin(p, s)
  <2>1. tab[p] = Peopled(p, s)
    BY MigrantsPeople
  <2>2. Joined(p, tab[p], Kin(p, s))
    BY <1>1, <2>1, PeopledIs
  <2> QED BY <2>2, JoinedSettled
<1>3. ASSUME NEW p \in Proc, NEW q \in Proc, p # q PROVE Names(tab[p]) \cap Names(tab[q]) = {}
  <2>1. SUFFICES ASSUME NEW name, name \in Kin(p, s), name \in Kin(q, s) PROVE FALSE
    BY <1>2
  <2> QED BY <1>1, <1>3, <2>1, KinApart
<1>4. UNION {Names(tab[p]) : p \in Proc} = Id
  <2>1. UNION {Names(table[p]) : p \in Proc} = Id
    BY DEF Ledger
  <2>2. ASSUME NEW name \in Id PROVE \E p \in Proc : name \in Names(tab[p])
    <3>1. PICK q \in Proc : name \in Names(table[q])
      BY <2>1
    <3> QED BY <1>1, <1>2, <3>1, KinHolds
  <2>3. ASSUME NEW p \in Proc, NEW name \in Names(tab[p]) PROVE name \in Id
    <3>1. name \in Kin(p, s)
      BY <1>2
    <3>2. PICK q \in Proc : name \in Names(table[q])
      BY <1>1, <3>1, KinKnown
    <3> QED BY <2>1, <3>2
  <2> QED BY <2>2, <2>3
<1> QED BY <1>2, <1>3, <1>4 DEF Ledger

(* The geometry is that of the layout, which no step changes.              *)
SameLayout ==
    /\ Proc' = Proc /\ Bins' = Bins /\ Sectored' = Sectored
    /\ \A p, x : Site2Bin(p, x)' = Site2Bin(p, x)
    /\ \A p, x : InDomain(p, x)' <=> InDomain(p, x)
    /\ \A b : IsGhost(b)' <=> IsGhost(b)
    /\ \A b : GhostIndex(b)' = GhostIndex(b)
    /\ \A s, b : SectorGhost(s, b)' <=> SectorGhost(s, b)
    /\ \A p, x : Close(p, x)' <=> Close(p, x)
    /\ \A p, s, x : InSide(p, s, x)' <=> InSide(p, s, x)

(* The layout does not change.                                             *)
LEMMA LayoutStays ==
    ASSUME layout' = layout
    PROVE  SameLayout
<1>2. NBinX' = NBinX /\ NBinY' = NBinY
  BY DEF NBinX, NBinY
<1>3. Proc' = Proc
  BY DEF Proc
<1>4. \A p : ProcX(p)' = ProcX(p) /\ ProcY(p)' = ProcY(p)
  BY DEF ProcX, ProcY
<1>5. \A p : Lo(p)' = Lo(p)
  BY <1>4 DEF Lo
<1>6. \A p, x : Site2Bin(p, x)' = Site2Bin(p, x)
  BY <1>2, <1>5 DEF Site2Bin
<1>7. Sectored' = Sectored
  BY DEF Sectored
<1>8. \A p, x : InDomain(p, x)' <=> InDomain(p, x)
  BY <1>5 DEF InDomain
<1>9. \A b : IsGhost(b)' <=> IsGhost(b)
  BY <1>2 DEF IsGhost
<1>10. Bins' = Bins
  BY <1>2 DEF Bins
<1>11. \A b : GhostIndex(b)' = GhostIndex(b)
  BY <1>2 DEF GhostIndex
<1>12. \A s, b : SectorGhost(s, b)' <=> SectorGhost(s, b)
  BY <1>2 DEF SectorGhost
<1>13. \A p, x : X1(p, x)' = X1(p, x) /\ X2(p, x)' = X2(p, x)
  BY <1>4 DEF X1, X2
<1>14. \A p, x : Close(p, x)' <=> Close(p, x)
  BY <1>13 DEF Close
<1>15. \A p, s, x : InSide(p, s, x)' <=> InSide(p, s, x)
  BY <1>8, <1>13 DEF InSide
<1> QED BY <1>3, <1>6, <1>7, <1>8, <1>9, <1>10, <1>11, <1>12, <1>14, <1>15 DEF SameLayout

(* So it does not matter whether a table is judged before or after a step. *)
LEMMA SettledStays ==
    ASSUME SameLayout, NEW p, NEW t
    PROVE  Settled(p, t)' <=> Settled(p, t)
BY DEF SameLayout, Settled

(* What is said of a table means the same in both states.                  *)
LEMMA FittedStays ==
    ASSUME SameLayout, NEW p, NEW t, NEW L, NEW q
    PROVE  Fitted(p, t, L, q)' <=> Fitted(p, t, L, q)
BY DEF SameLayout, Fitted

(* The same for the chains of images.                                      *)
LEMMA ImagedStays ==
    ASSUME SameLayout, NEW t, NEW L, NEW im, NEW at
    PROVE  Imaged(t, L, im, at)' <=> Imaged(t, L, im, at)
BY DEF SameLayout, Imaged

(* The same for the places of the owned sites.                             *)
LEMMA ReachStays ==
    ASSUME SameLayout, NEW p, NEW t, NEW s, NEW K, NEW L
    PROVE  /\ InReach(p, t, s, K)' <=> InReach(p, t, s, K)
           /\ AtHome(p, t, L)' <=> AtHome(p, t, L)
<1>1. InReach(p, t, s, K)' <=> InReach(p, t, s, K)
  BY DEF SameLayout, InReach
<1>2. \A im : Imaged(t, L, im, t.bin)' <=> Imaged(t, L, im, t.bin)
  BY ImagedStays
<1>3. AtHome(p, t, L)' <=> AtHome(p, t, L)
  BY <1>2 DEF SameLayout, AtHome
<1> QED BY <1>1, <1>3

(* The same for a table equipped for a sector.                             *)
LEMMA EquippedStays ==
    ASSUME SameLayout, NEW p, NEW t, NEW s, NEW K
    PROVE  Equipped(p, t, s, K)' <=> Equipped(p, t, s, K)
<1>1. \A L, q : Fitted(p, t, L, q)' <=> Fitted(p, t, L, q)
  BY FittedStays
<1>2. InReach(p, t, s, K)' <=> InReach(p, t, s, K)
  BY ReachStays
<1>3. \A L : AtHome(p, t, L)' <=> AtHome(p, t, L)
  BY ReachStays
<1>4. Sectored' = Sectored
  BY DEF SameLayout
<1> QED BY <1>1, <1>2, <1>3, <1>4 DEF Equipped

(* The same for the ledger of owners.                                      *)
LEMMA LedgerStays ==
    ASSUME SameLayout, NEW tab
    PROVE  Ledger(tab)' <=> Ledger(tab)
BY DEF SameLayout, Ledger

(* The counters of the run and of the sweep.                               *)
Counters ==
    /\ phase \in {"forward", "events", "done"}
    /\ iset \in 0 .. layout.nsector - 1 /\ sweep \in 0 .. StopSweeps /\ run \in 1 .. StopRuns
    /\ phase # "done" => sweep < StopSweeps

(* What is chosen from are owned sites, and not more often than there are. *)
Chooses(tab, ch, in, tr) ==
    /\ ch \in [Proc -> SUBSET Nat] /\ in \in [Proc -> SUBSET Nat] /\ tr \in [Proc -> Nat]
    /\ \A p \in Proc : /\ in[p] \subseteq ch[p] /\ ch[p] \subseteq 0 .. tab[p].nlocal - 1
                       /\ tr[p] <= Cardinality(ch[p])

(* The tables are ready for the exchange, or for the moves.                *)
Stage(ph, tab, s, in) ==
    \A p \in Proc : IF ph = "forward" \/ (ph = "done" /\ Sectored) THEN Settled(p, tab[p])
                    ELSE Equipped(p, tab[p], s, in[p])
Inv ==
    /\ layout \in Layouts
    /\ table \in [Proc -> SiteTables(Bins)]
    /\ Counters
    /\ Chooses(table, chosen, insector, tries)
    /\ Ledger(table)
    /\ Stage(phase, table, iset, insector)

(* The same for the stage of the run.                                      *)
LEMMA StageStays ==
    ASSUME SameLayout, NEW ph, NEW tab, NEW s, NEW in
    PROVE  Stage(ph, tab, s, in)' <=> Stage(ph, tab, s, in)
<1>1. \A p, t : Settled(p, t)' <=> Settled(p, t)
  BY SettledStays
<1>2. \A p, t, K : Equipped(p, t, s, K)' <=> Equipped(p, t, s, K)
  BY EquippedStays
<1>3. Proc' = Proc /\ Sectored' = Sectored
  BY DEF SameLayout
<1> QED BY <1>1, <1>2, <1>3 DEF Stage

(* The same for the events left in a sector.                               *)
LEMMA ChoosesStays ==
    ASSUME SameLayout, NEW tab, NEW ch, NEW in, NEW tr
    PROVE  Chooses(tab, ch, in, tr)' <=> Chooses(tab, ch, in, tr)
BY DEF SameLayout, Chooses

(* What is to be shown of a step.                                          *)
LEMMA InvAfter ==
    ASSUME layout' = layout, layout \in Layouts, table' \in [Proc -> SiteTables(Bins)],
           Counters', Chooses(table', chosen', insector', tries'), Ledger(table'),
           Stage(phase', table', iset', insector')
    PROVE  Inv'
<1>1. SameLayout
  BY LayoutStays
<1>2. \A tab : Ledger(tab)' <=> Ledger(tab)
  BY <1>1, LedgerStays
<1>3. \A tab, ch, in, tr : Chooses(tab, ch, in, tr)' <=> Chooses(tab, ch, in, tr)
  BY <1>1, ChoosesStays
<1>4. \A ph, tab, s, in : Stage(ph, tab, s, in)' <=> Stage(ph, tab, s, in)
  BY <1>1, StageStays
<1>5. Ledger(table)'
  BY <1>2
<1>6. Chooses(table, chosen, insector, tries)'
  BY <1>3
<1>7. Stage(phase, table, iset, insector)'
  BY <1>4
<1>8. (table \in [Proc -> SiteTables(Bins)])'
  BY <1>1 DEF SameLayout
<1>9. (layout \in Layouts)'
  OBVIOUS
<1> QED BY <1>5, <1>6, <1>7, <1>8, <1>9 DEF Inv

(* The same sites.                                                         *)
SameOwned(u, t) ==
    u.nlocal = t.nlocal /\ \A k \in 0 .. t.nlocal - 1 : u.id[k] = t.id[k]

(* Owned sites that are the same have the same ids.                        *)
LEMMA SameNames ==
    ASSUME NEW t, NEW u, SameOwned(u, t)
    PROVE  Names(u) = Names(t) /\ (Named(t) => Named(u))
<1>1. Names(u) = Names(t)
  BY DEF SameOwned, Names
<1>2. Named(t) => Named(u)
  BY DEF SameOwned, Named
<1> QED BY <1>1, <1>2

(* Tables with the same owned sites have the same ledger.                  *)
LEMMA LedgerSame ==
    ASSUME NEW tab, NEW tab2, Ledger(tab), \A p \in Proc : SameOwned(tab2[p], tab[p])
    PROVE  Ledger(tab2)
<1>1. \A p \in Proc : Names(tab2[p]) = Names(tab[p]) /\ Named(tab2[p])
  BY SameNames DEF Ledger
<1>2. UNION {Names(tab2[p]) : p \in Proc} = UNION {Names(tab[p]) : p \in Proc}
  BY <1>1
<1> QED BY <1>1, <1>2 DEF Ledger

(* The sites of a sector when it begins.                                   *)
Inside(tab, s) ==
    [p \in Proc |-> {i \in 0 .. tab[p].nlocal - 1 : InSector(p, s, tab[p].xyz[i])}]

(* At the start of a sector the sites inside it can be chosen.             *)
LEMMA BeginChooses ==
    ASSUME NEW tab, \A p \in Proc : tab[p].nlocal \in Nat, NEW s,
           NEW in, in = Inside(tab, s), NEW tr, tr = [p \in Proc |-> Cardinality(in[p])]
    PROVE  Chooses(tab, in, in, tr)
<1>1. ASSUME NEW p \in Proc
      PROVE  /\ in[p] \subseteq 0 .. tab[p].nlocal - 1 /\ in[p] \in SUBSET Nat
             /\ tr[p] = Cardinality(in[p]) /\ Cardinality(in[p]) \in Nat
  <2>1. in[p] \subseteq 0 .. tab[p].nlocal - 1
    BY DEF Inside
  <2>2. tab[p].nlocal - 1 \in Int /\ 0 \in Int
    OBVIOUS
  <2>3. IsFiniteSet(0 .. tab[p].nlocal - 1)
    BY <2>2, FS_Interval, Zenon
  <2>4. IsFiniteSet(in[p])
    BY <2>1, <2>3, FS_Subset
  <2>5. Cardinality(in[p]) \in Nat
    BY <2>4, FS_CardinalityType
  <2>6. 0 .. tab[p].nlocal - 1 \subseteq Nat
    OBVIOUS
  <2> QED BY <2>1, <2>5, <2>6
<1>2. in \in [Proc -> SUBSET Nat]
  BY <1>1 DEF Inside
<1>3. tr \in [Proc -> Nat]
  BY <1>1
<1>4. \A p \in Proc : tr[p] <= Cardinality(in[p])
  BY <1>1
<1> QED BY <1>1, <1>2, <1>3, <1>4 DEF Chooses

(* The counters of a table on either stage.                                *)
LEMMA NlocalIs ==
    ASSUME NEW t, NEW p, Settled(p, t) \/ \E s, K : Equipped(p, t, s, K)
    PROVE  t.nlocal \in Nat /\ t.nmax \in Nat /\ t.nlocal <= t.nmax /\ t \in SiteTables(Bins)
<1>1. t \in SiteTables(Bins) /\ t.nlocal \in 0 .. t.nmax
  <2>1. CASE Settled(p, t)
    BY <2>1 DEF Settled
  <2>2. CASE \E s, K : Equipped(p, t, s, K)
    BY <2>2 DEF Equipped, Fitted
  <2> QED BY <2>1, <2>2
<1>2. t.nmax \in Nat
  BY <1>1, TableIs
<1> QED BY <1>1, <1>2

(* At the start.                                                           *)
LEMMA CreatedAll ==
    ASSUME layout \in Layouts, NEW where \in Starts(layout),
           NEW tab, tab = [p \in Proc |-> Created(p, where)]
    PROVE  (\A p \in Proc : Settled(p, tab[p])) /\ Ledger(tab)
<1>1. ASSUME NEW p \in Proc
      PROVE  Settled(p, tab[p]) /\ Named(tab[p])
             /\ Names(tab[p]) = {n \in Id : InDomain(p, where[n])}
  BY CreatedIs
<1>2. ASSUME NEW n \in Id
      PROVE  \E p \in Proc : \A q \in Proc : InDomain(q, where[n]) <=> q = p
  <2>1. where[n] \in (0 .. layout.px * layout.sx - 1) \X (0 .. layout.py * layout.sy - 1)
    BY StartAssumption
  <2> QED BY <2>1, OneDomain
<1>3. \A p, q \in Proc : p # q => Names(tab[p]) \cap Names(tab[q]) = {}
  BY <1>1, <1>2
<1>4. UNION {Names(tab[p]) : p \in Proc} = Id
  <2>1. \A n \in Id : \E p \in Proc : n \in Names(tab[p])
    BY <1>1, <1>2
  <2>2. \A p \in Proc : Names(tab[p]) \subseteq Id
    BY <1>1
  <2> QED BY <2>1, <2>2
<1> QED BY <1>1, <1>3, <1>4 DEF Ledger

(* create_sites() and bin_sites() give an initial state of the invariant.  *)
LEMMA InitInv == Init => Inv
<1> SUFFICES ASSUME Init PROVE Inv
  OBVIOUS
<1>1. layout \in Layouts /\ phase = "forward" /\ iset = 0 /\ sweep = 0 /\ run = 1
      /\ chosen = [p \in Proc |-> {}] /\ insector = [p \in Proc |-> {}] /\ tries = [p \in Proc |-> 0]
  BY DEF Init
<1>2. PICK where \in Starts(layout) : table = [p \in Proc |-> Created(p, where)]
  BY DEF Init
<1>3. (\A p \in Proc : Settled(p, table[p])) /\ Ledger(table)
  BY <1>1, <1>2, CreatedAll
<1>4. table \in [Proc -> SiteTables(Bins)]
  BY <1>2, <1>3, NlocalIs
<1>5. Counters
  <2>1. layout.nsector \in {1, 2, 4} /\ StopSweeps \in Nat \ {0} /\ StopRuns \in Nat \ {0}
    BY <1>1, GridIs, MoveAssumption
  <2> QED BY <1>1, <2>1 DEF Counters
<1>6. Chooses(table, chosen, insector, tries)
  <2>1. Cardinality({}) = 0
    BY FS_EmptySet
  <2> QED BY <1>1, <2>1 DEF Chooses
<1>7. Stage(phase, table, iset, insector)
  BY <1>1, <1>3 DEF Stage
<1> QED BY <1>1, <1>3, <1>4, <1>5, <1>6, <1>7 DEF Inv

(* The exchange before a sector.                                           *)
LEMMA ForwardInv == Inv /\ Forward => Inv'
<1> SUFFICES ASSUME Inv, Forward PROVE Inv'
  OBVIOUS
<1>1. layout \in Layouts /\ layout' = layout /\ phase = "forward" /\ phase' = "events"
      /\ iset' = iset /\ sweep' = sweep /\ run' = run
  BY DEF Inv, Forward
<1>2. \A q \in Proc : Settled(q, table[q])
  BY <1>1 DEF Inv, Stage
<1>3. table' = [p \in Proc |-> WithGhosts(p, iset)]
  BY DEF Forward
<1>4. \A p \in Proc : table'[p] \in SiteTables(Bins) /\ Boarded(p, table'[p], table[p])
  BY <1>1, <1>2, <1>3, WithGhostsIs
<1>5. table' \in [Proc -> SiteTables(Bins)]
  BY <1>3, <1>4
<1>6. insector' = Inside(table', iset) /\ chosen' = insector'
      /\ tries' = [p \in Proc |-> Cardinality(insector'[p])]
  BY DEF Forward, Begin, Inside
<1>7. \A p \in Proc : SameOwned(table'[p], table[p])
  BY <1>4 DEF Boarded, SameOwned
<1>8. Ledger(table')
  BY <1>7, LedgerSame DEF Inv
<1>9. \A p \in Proc : table'[p].nlocal \in Nat
  BY <1>2, <1>7, NlocalIs DEF SameOwned
<1>10. Chooses(table', chosen', insector', tries')
  BY <1>6, <1>9, BeginChooses
<1>11. \A p \in Proc : Equipped(p, table'[p], iset, insector'[p])
  <2>1. iset \in 0 .. layout.nsector - 1
    BY DEF Inv, Counters
  <2>2. \A p \in Proc : insector'[p] =
            {i \in 0 .. table'[p].nlocal - 1 : InSector(p, iset, table'[p].xyz[i])}
    BY <1>6 DEF Inside
  <2> QED BY <1>1, <1>2, <1>4, <2>1, <2>2, ForwardEquips
<1>12. Stage(phase', table', iset', insector')
  BY <1>1, <1>11 DEF Stage
<1>13. Counters'
  BY <1>1 DEF Inv, Counters
<1> QED BY <1>1, <1>5, <1>8, <1>10, <1>12, <1>13, InvAfter

(* A site that has left the sector is passed over.                         *)
LEMMA SkipInv == ASSUME Inv, NEW p \in Proc, Skip(p) PROVE Inv'
<1>1. layout \in Layouts /\ layout' = layout /\ table' = table /\ phase' = phase
      /\ iset' = iset /\ sweep' = sweep /\ run' = run /\ chosen' = chosen /\ insector' = insector
  BY DEF Inv, Skip
<1>2. tries' = [tries EXCEPT ![p] = @ - 1] /\ tries[p] > 0
  BY DEF Skip
<1>3. Chooses(table, chosen, insector, tries)
  BY DEF Inv
<1>4. tries \in [Proc -> Nat]
  BY <1>3 DEF Chooses
<1>5. tries' \in [Proc -> Nat] /\ \A q \in Proc : tries'[q] <= tries[q]
  BY <1>2, <1>4
<1>6. \A q \in Proc : chosen[q] \in SUBSET Nat /\ Cardinality(chosen[q]) \in Nat
  <2>1. ASSUME NEW q \in Proc PROVE chosen[q] \in SUBSET Nat /\ Cardinality(chosen[q]) \in Nat
    <3>1. chosen[q] \in SUBSET Nat /\ chosen[q] \subseteq 0 .. table[q].nlocal - 1
      BY <1>3 DEF Chooses
    <3>2. table[q].nlocal - 1 \in Int
      BY NlocalIs DEF Inv, Stage
    <3>3. IsFiniteSet(0 .. table[q].nlocal - 1)
      BY <3>2, FS_Interval, 0 \in Int, Zenon
    <3> QED BY <3>1, <3>3, FS_Subset, FS_CardinalityType
  <2> QED BY <2>1
<1>7. \A q \in Proc : tries'[q] <= Cardinality(chosen[q])
  BY <1>3, <1>4, <1>5, <1>6 DEF Chooses
<1>8. Chooses(table', chosen', insector', tries')
  BY <1>1, <1>3, <1>5, <1>7 DEF Chooses
<1>9. Counters'
  BY <1>1 DEF Inv, Counters
<1> QED BY <1>1, <1>8, <1>9, InvAfter DEF Inv

(* What a move that is taken does to the table and to the sites that are   *)
(* still in the sector.                                                    *)
Takes(p, i, x, new, in) ==
    /\ new = Moved(p, [table[p] EXCEPT !.xyz[i] = x], i)
    /\ in = IF Sectored /\ new.bin[i] # table[p].bin[i] /\ ~InSector(p, iset, x)
            THEN insector[p] \ {i} ELSE insector[p]

(* An attempt leaves the table equipped: whatever is tried, accepted or    *)
(* rejected, the lists and the reach of the sites hold.                    *)
LEMMA TakesIs ==
    ASSUME Inv, phase = "events", NEW p \in Proc, NEW i \in insector[p], NEW d \in Moves,
           NEW x, x = Plus(table[p].xyz[i], d), NEW new, NEW in, Takes(p, i, x, new, in)
    PROVE  /\ Equipped(p, new, iset, in) /\ SameOwned(new, table[p])
           /\ in \subseteq insector[p]
<1> DEFINE t == table[p]
           v == [t EXCEPT !.xyz[i] = x]
<1>1. Equipped(p, t, iset, insector[p]) /\ layout \in Layouts /\ iset \in 0 .. layout.nsector - 1
  BY DEF Inv, Stage, Counters
<1>2. in \subseteq insector[p]
  BY DEF Takes
<1>3. i \in 0 .. t.nlocal - 1
  BY DEF Inv, Chooses
<1>4. x = Plus(t.xyz[i], d) /\ v = [t EXCEPT !.xyz[i] = x]
  OBVIOUS
<1>5. new = IF Sectored THEN MoveInSector(p, v, i) ELSE MoveInBox(p, v, i)
  BY DEF Takes, Moved
<1>6. Sectored /\ new.bin[i] # t.bin[i] /\ ~InSector(p, iset, x) => i \notin in
  BY DEF Takes
<1> HIDE DEF t, v
<1>7. CASE Sectored
  <2>1. new = MoveInSector(p, v, i)
    BY <1>5, <1>7
  <2>2. new.bin[i] # t.bin[i] /\ ~InSector(p, iset, x) => i \notin in
    BY <1>6, <1>7
  <2>3. in \in SUBSET insector[p]
    BY <1>2
  <2>4. Equipped(p, new, iset, in) /\ new.nlocal = t.nlocal /\ new.id = t.id
    BY <1>1, <1>4, <1>7, <2>1, <2>2, <2>3, SectorMove
  <2> QED BY <1>2, <2>4 DEF SameOwned, t
<1>8. CASE ~ Sectored
  <2>1. new = MoveInBox(p, v, i)
    BY <1>5, <1>8
  <2>2. AtPlace(v, t, i, x)
    BY <1>4 DEF AtPlace
  <2>3. StillBox(p, new, t)
    BY <1>1, <1>3, <1>4, <1>8, <2>1, <2>2, BoxMove
  <2> QED BY <1>2, <2>3 DEF StillBox, SameOwned, t
<1> QED BY <1>7, <1>8

(* An attempt to move a site preserves the invariant.                      *)
LEMMA TryMoveInv ==
    ASSUME Inv, NEW p \in Proc, NEW i \in Owned(p), NEW d \in Moves, TryMove(p, i, d)
    PROVE  Inv'
<1> DEFINE x == Plus(table[p].xyz[i], d)
           new == Moved(p, [table[p] EXCEPT !.xyz[i] = x], i)
           in == IF Sectored /\ new.bin[i] # table[p].bin[i] /\ ~InSector(p, iset, x)
                 THEN insector[p] \ {i} ELSE insector[p]
<1>1. /\ phase = "events" /\ tries[p] > 0 /\ i \in insector[p]
      /\ tries' = [tries EXCEPT ![p] = @ - 1]
      /\ layout' = layout /\ phase' = phase /\ iset' = iset /\ sweep' = sweep /\ run' = run
      /\ chosen' = chosen
  BY DEF TryMove
<1>2. \/ table' = [table EXCEPT ![p] = new] /\ insector' = [insector EXCEPT ![p] = in]
      \/ table' = table /\ insector' = insector
  BY DEF TryMove
<1>3. Takes(p, i, x, new, in) /\ x = Plus(table[p].xyz[i], d)
  BY DEF Takes
<1> HIDE DEF x, new, in
<1>4. Equipped(p, new, iset, in) /\ SameOwned(new, table[p]) /\ in \subseteq insector[p]
  BY <1>1, <1>3, TakesIs
<1>5. \A q \in Proc : Equipped(q, table[q], iset, insector[q])
  BY <1>1 DEF Inv, Stage
<1>6. Chooses(table, chosen, insector, tries) /\ table \in [Proc -> SiteTables(Bins)]
  BY DEF Inv
<1>7. insector \in [Proc -> SUBSET Nat] /\ tries \in [Proc -> Nat]
  BY <1>6 DEF Chooses
<1>8. \A q \in Proc : /\ Equipped(q, table'[q], iset, insector'[q])
                      /\ SameOwned(table'[q], table[q])
                      /\ insector'[q] \subseteq insector[q]
  <2>1. CASE table' = table /\ insector' = insector
    BY <1>5, <2>1 DEF SameOwned
  <2>2. CASE table' = [table EXCEPT ![p] = new] /\ insector' = [insector EXCEPT ![p] = in]
    <3>1. ASSUME NEW q \in Proc
          PROVE  /\ table'[q] = IF q = p THEN new ELSE table[q]
                 /\ insector'[q] = IF q = p THEN in ELSE insector[q]
      BY <1>6, <1>7, <2>2
    <3>2. ASSUME NEW q \in Proc
          PROVE  /\ Equipped(q, table'[q], iset, insector'[q])
                 /\ SameOwned(table'[q], table[q])
                 /\ insector'[q] \subseteq insector[q]
      <4>1. CASE q = p
        BY <1>4, <3>1, <4>1
      <4>2. CASE q # p
        <5>1. table'[q] = table[q] /\ insector'[q] = insector[q]
          BY <3>1, <4>2
        <5> QED BY <1>5, <5>1 DEF SameOwned
      <4> QED BY <4>1, <4>2
    <3> QED BY <3>2
  <2> QED BY <1>2, <2>1, <2>2
<1>9. table' \in [Proc -> SiteTables(Bins)] /\ insector' \in [Proc -> SUBSET Nat]
  <2>1. new \in SiteTables(Bins)
    BY <1>4, NlocalIs
  <2>2. in \in SUBSET Nat
    BY <1>4, <1>7
  <2> QED BY <1>2, <1>6, <1>7, <2>1, <2>2
<1>10. tries' \in [Proc -> Nat] /\ \A q \in Proc : tries'[q] <= tries[q]
  BY <1>1, <1>7
<1>11. \A q \in Proc : Cardinality(chosen[q]) \in Nat
  <2>1. ASSUME NEW q \in Proc PROVE Cardinality(chosen[q]) \in Nat
    <3>1. chosen[q] \subseteq 0 .. table[q].nlocal - 1
      BY <1>6 DEF Chooses
    <3>4. Equipped(q, table[q], iset, insector[q])
      BY <1>5
    <3>2. table[q].nlocal \in Nat
      BY <3>4, NlocalIs
    <3>5. table[q].nlocal - 1 \in Int
      BY <3>2
    <3>3. IsFiniteSet(0 .. table[q].nlocal - 1)
      BY <3>5, FS_Interval, 0 \in Int, Zenon
    <3> QED BY <3>1, <3>3, FS_Subset, FS_CardinalityType
  <2> QED BY <2>1
<1>12. \A q \in Proc : tries'[q] <= Cardinality(chosen[q])
  BY <1>6, <1>7, <1>10, <1>11 DEF Chooses
<1>13. Chooses(table', chosen', insector', tries')
  BY <1>1, <1>6, <1>8, <1>9, <1>10, <1>12 DEF Chooses, SameOwned
<1>14. Ledger(table')
  BY <1>8, LedgerSame DEF Inv
<1>15. Stage(phase', table', iset', insector')
  BY <1>1, <1>8 DEF Stage
<1>16. Counters'
  BY <1>1 DEF Inv, Counters
<1> QED BY <1>1, <1>9, <1>13, <1>14, <1>15, <1>16, InvAfter DEF Inv

(* The end of a sweep.                                                     *)
LEMMA SweepCounts ==
    ASSUME Inv, phase = "events", SweepDone
    PROVE  /\ sweep' \in 0 .. StopSweeps /\ phase' \in {"forward", "events", "done"}
           /\ phase' # "done" => sweep' < StopSweeps
           /\ phase' = IF sweep' = StopSweeps THEN "done" ELSE IF Sectored THEN "forward" ELSE "events"
<1>1. sweep \in 0 .. StopSweeps /\ sweep < StopSweeps
  BY DEF Inv, Counters
<1>2. StopSweeps \in Nat
  BY MoveAssumption
<1> QED BY <1>1, <1>2 DEF SweepDone

(* The exchange after a sector.                                            *)
LEMMA ReverseInv == Inv /\ ReverseSector => Inv'
<1> SUFFICES ASSUME Inv, ReverseSector PROVE Inv'
  OBVIOUS
<1>1. /\ phase = "events" /\ Sectored /\ \A p \in Proc : tries[p] = 0
      /\ table' = [p \in Proc |-> WithMigrants(p, iset)]
      /\ iset' = NextSet
      /\ IF iset' = 0 THEN SweepDone ELSE phase' = "forward" /\ UNCHANGED sweep
      /\ chosen' = [p \in Proc |-> {}] /\ insector' = [p \in Proc |-> {}]
      /\ layout' = layout /\ run' = run /\ tries' = tries
  BY DEF ReverseSector
<1>2. layout \in Layouts /\ Ledger(table) /\ Counters
  BY DEF Inv
<1>3. \A q \in Proc : Equipped(q, table[q], iset, insector[q])
  BY <1>1 DEF Inv, Stage
<1>4. \A q \in Proc : \E K : Equipped(q, table[q], iset, K)
  BY <1>3
<1>5. Ledger(table') /\ \A p \in Proc : Settled(p, table'[p])
  BY <1>1, <1>2, <1>4, MigrantsAre
<1>6. table' \in [Proc -> SiteTables(Bins)]
  BY <1>1, <1>5, NlocalIs
<1>7. Chooses(table', chosen', insector', tries')
  <2>1. Cardinality({}) = 0
    BY FS_EmptySet
  <2>2. tries \in [Proc -> Nat]
    BY DEF Inv, Chooses
  <2> QED BY <1>1, <2>1, <2>2 DEF Chooses
<1>8. iset' \in 0 .. layout.nsector - 1
  <2>1. layout.nsector \in {1, 2, 4} /\ iset \in 0 .. layout.nsector - 1
    BY <1>2, GridIs DEF Counters
  <2> QED BY <1>1, <2>1 DEF NextSet
<1>9. /\ sweep' \in 0 .. StopSweeps /\ phase' \in {"forward", "done"}
      /\ phase' # "done" => sweep' < StopSweeps
  <2>1. CASE iset' = 0
    <3>1. SweepDone
      BY <1>1, <2>1
    <3> QED BY <1>1, <3>1, SweepCounts
  <2>2. CASE iset' # 0
    BY <1>1, <1>2, <2>2 DEF Counters
  <2> QED BY <2>1, <2>2
<1>10. Counters'
  BY <1>1, <1>2, <1>8, <1>9 DEF Counters
<1>11. Stage(phase', table', iset', insector')
  BY <1>1, <1>5, <1>9 DEF Stage
<1> QED BY <1>1, <1>2, <1>5, <1>6, <1>7, <1>10, <1>11, InvAfter

(* Without sectors it does not matter which sites are chosen from.         *)
LEMMA BoxEquipped ==
    ASSUME ~ Sectored, NEW p, NEW t, NEW s, NEW K, Equipped(p, t, s, K), NEW r, NEW M
    PROVE  Equipped(p, t, r, M)
BY DEF Equipped

(* The end of a sweep, with the exchange and the next sector, preserves the*)
(* invariant.                                                              *)
LEMMA NextSweepInv == Inv /\ NextSweep => Inv'
<1> SUFFICES ASSUME Inv, NextSweep PROVE Inv'
  OBVIOUS
<1>1. /\ phase = "events" /\ ~ Sectored /\ SweepDone /\ table' = table
      /\ layout' = layout /\ iset' = iset /\ run' = run
  BY DEF NextSweep
<1>2. insector' = Inside(table', 0) /\ chosen' = insector'
      /\ tries' = [p \in Proc |-> Cardinality(insector'[p])]
  BY DEF NextSweep, Begin, Inside
<1>3. layout \in Layouts /\ Ledger(table) /\ Counters /\ table \in [Proc -> SiteTables(Bins)]
  BY DEF Inv
<1>4. \A q \in Proc : Equipped(q, table[q], iset, insector[q])
  BY <1>1 DEF Inv, Stage
<1>5. \A q \in Proc : table'[q].nlocal \in Nat
  BY <1>1, <1>4, NlocalIs
<1>6. Chooses(table', chosen', insector', tries')
  BY <1>2, <1>5, BeginChooses
<1>7. /\ sweep' \in 0 .. StopSweeps /\ phase' \in {"events", "done"}
      /\ phase' # "done" => sweep' < StopSweeps
  BY <1>1, SweepCounts
<1>8. Counters'
  BY <1>1, <1>3, <1>7 DEF Counters
<1>9. \A q \in Proc : Equipped(q, table'[q], iset', insector'[q])
  BY <1>1, <1>4, BoxEquipped
<1>10. Stage(phase', table', iset', insector')
  BY <1>1, <1>7, <1>9 DEF Stage
<1> QED BY <1>1, <1>3, <1>6, <1>8, <1>10, InvAfter

(* init() at the start of the next run.                                    *)
LEMMA UnbinnedIs ==
    ASSUME NEW t \in SiteTables(Bins)
    PROVE  Unbinned(t) \in TableOf(t.nmax, Bins) /\ t.nmax \in Nat
<1>1. t.nmax \in Nat /\ t \in TableOf(t.nmax, Bins)
  BY TableIs
<1> DEFINE h == [b \in Bins |-> Nil]
<1>2. h \in [Bins -> Int]
  BY DEF Nil
<1>3. Unbinned(t) = [t EXCEPT !.binhead = h]
  BY DEF Unbinned
<1> HIDE DEF h
<1> QED BY <1>1, <1>2, <1>3 DEF TableOf

(* bin_sites() at the start of a run settles every table.                  *)
LEMMA RebinnedAll ==
    ASSUME Inv, phase = "done", NEW p \in Proc, NEW u, u = Binned(p, table[p])
    PROVE  Settled(p, u) /\ SameOwned(u, table[p])
<1> DEFINE t == table[p]
<1>1. layout \in Layouts
  BY DEF Inv
<1>2. Settled(p, t) \/ (~ Sectored /\ Equipped(p, t, iset, insector[p]))
  BY DEF Inv, Stage
<1> HIDE DEF t
<1>3. t.nlocal \in 0 .. t.nmax /\ t.nmax \in Nat /\ t \in SiteTables(Bins)
  <2>1. Settled(p, t) \/ \E s, K : Equipped(p, t, s, K)
    BY <1>2
  <2>2. t.nlocal \in Nat /\ t.nmax \in Nat /\ t.nlocal <= t.nmax /\ t \in SiteTables(Bins)
    BY <2>1, NlocalIs
  <2> QED BY <2>2
<1>4. Unbinned(t) \in TableOf(t.nmax, Bins)
  BY <1>3, UnbinnedIs
<1>5. /\ t.nlocal = t.nmax => t.freehead = Nil
      /\ \A k \in 0 .. t.nlocal - 1 : InDomain(p, t.xyz[k])
  <2>1. CASE Settled(p, t)
    BY <2>1 DEF Settled
  <2>2. CASE ~ Sectored /\ Equipped(p, t, iset, insector[p])
    <3>1. PICK L, q : Fitted(p, t, L, q) /\ AtHome(p, t, L)
      BY <2>2 DEF Equipped
    <3>2. ASSUME t.nlocal = t.nmax PROVE t.freehead = Nil
      <4>1. Free(t, q) /\ Elements(q) = (0 .. t.nmax - 1) \ L /\ 0 .. t.nlocal - 1 \subseteq L
        BY <3>1 DEF Fitted, Whole
      <4>2. Elements(q) = {} /\ Len(q) \in Nat
        BY <3>2, <4>1 DEF Free
      <4>3. Len(q) = 0
        <5>1. SUFFICES ASSUME Len(q) # 0 PROVE FALSE
          OBVIOUS
        <5>2. 1 \in 1 .. Len(q)
          BY <4>2, <5>1
        <5> QED BY <4>2, <5>2 DEF Elements
      <4> QED BY <4>1, <4>3 DEF Free, RunsDown
    <3> QED BY <3>1, <3>2 DEF AtHome
  <2> QED BY <1>2, <2>1, <2>2
<1>6. u = Binned(p, t)
  BY DEF t
<1>7. Settled(p, u) /\ u.nlocal = t.nlocal /\ u.id = t.id
  BY <1>1, <1>3, <1>4, <1>5, <1>6, BinnedSettled
<1> QED BY <1>7 DEF SameOwned, t

(* The start of another run preserves the invariant.                       *)
LEMMA NextRunInv == Inv /\ NextRun => Inv'
<1> SUFFICES ASSUME Inv, NextRun PROVE Inv'
  OBVIOUS
<1>1. /\ phase = "done" /\ run < StopRuns
      /\ table' = [p \in Proc |-> Binned(p, table[p])]
      /\ phase' = "forward" /\ sweep' = 0 /\ run' = run + 1
      /\ layout' = layout /\ iset' = iset /\ chosen' = chosen /\ insector' = insector
      /\ tries' = tries
  BY DEF NextRun
<1>2. layout \in Layouts /\ Ledger(table) /\ Counters /\ Chooses(table, chosen, insector, tries)
  BY DEF Inv
<1>3. \A p \in Proc : Settled(p, table'[p]) /\ SameOwned(table'[p], table[p])
  BY <1>1, RebinnedAll
<1>4. table' \in [Proc -> SiteTables(Bins)]
  BY <1>1, <1>3, NlocalIs
<1>5. Ledger(table')
  BY <1>2, <1>3, LedgerSame
<1>6. Chooses(table', chosen', insector', tries')
  BY <1>1, <1>2, <1>3 DEF Chooses, SameOwned
<1>7. Counters'
  BY <1>1, <1>2, MoveAssumption DEF Counters
<1>8. Stage(phase', table', iset', insector')
  BY <1>1, <1>3 DEF Stage
<1> QED BY <1>1, <1>2, <1>4, <1>5, <1>6, <1>7, <1>8, InvAfter

(* Nothing changes when no variable does.                                  *)
LEMMA StutterInv == Inv /\ UNCHANGED vars => Inv'
<1> SUFFICES ASSUME Inv, UNCHANGED vars PROVE Inv'
  OBVIOUS
<1>1. /\ layout' = layout /\ table' = table /\ phase' = phase /\ iset' = iset /\ sweep' = sweep
      /\ run' = run /\ chosen' = chosen /\ insector' = insector /\ tries' = tries
  BY DEF vars
<1>2. Counters'
  BY <1>1 DEF Inv, Counters
<1> QED BY <1>1, <1>2, InvAfter DEF Inv

(* Every state the off-lattice driver (app_off_lattice.cpp) reaches, on any*)
(* grid of processes, satisfies the inductive invariant: whole lists and   *)
(* free list in every table, each site with one owner, and the tables at   *)
(* the stage their run is at.                                              *)
THEOREM Invariance == Spec => []Inv
<1>1. Init => Inv
  BY InitInv
<1>2. Inv /\ [Next]_vars => Inv'
  <2> SUFFICES ASSUME Inv, [Next]_vars PROVE Inv'
    OBVIOUS
  <2>1. CASE Forward
    BY <2>1, ForwardInv
  <2>2. CASE ReverseSector
    BY <2>2, ReverseInv
  <2>3. CASE NextSweep
    BY <2>3, NextSweepInv
  <2>4. CASE NextRun
    BY <2>4, NextRunInv
  <2>5. CASE Finished
    BY <2>5, StutterInv DEF Finished
  <2>6. ASSUME NEW p \in Proc, Skip(p) PROVE Inv'
    BY <2>6, SkipInv
  <2>7. ASSUME NEW p \in Proc, NEW i \in Owned(p), NEW d \in Moves, TryMove(p, i, d) PROVE Inv'
    BY <2>7, TryMoveInv
  <2>8. CASE UNCHANGED vars
    BY <2>8, StutterInv
  <2> QED BY <2>1, <2>2, <2>3, <2>4, <2>5, <2>6, <2>7, <2>8 DEF Next
<1> QED BY <1>1, <1>2, PTL DEF Spec

(* The lists of a table hold the sites L: owned ones, and ghosts in ghost  *)
(* bins.  Each site is in the bin it is in.                                *)
Lists(p, t, L) ==
    /\ t \in SiteTables(Bins) /\ t.nlocal \in 0 .. t.nmax
    /\ Keeps(t, L, Bins, t.binhead)
    /\ \A k \in L : /\ t.bin[k] = Site2Bin(p, t.xyz[k])
                    /\ k \in 0 .. t.nlocal - 1 \/ IsGhost(t.bin[k])
    /\ 0 .. t.nlocal - 1 \subseteq L /\ IsFiniteSet(L)

(* The count of the sites in the lists.                                    *)
Counting(t, flag) ==
    LET lists == [b \in Bins |-> InBin(t, b)]
        Count(a, b) == a + (IF ~flag /\ IsGhost(b) THEN 0 ELSE Len(lists[b]))
    IN  FoldLeft(Count, 0, BinList)
CountOne(t, flag, a, b) ==
    a + (IF ~flag /\ IsGhost(b) THEN 0 ELSE Len([c \in Bins |-> InBin(t, c)][b]))

(* What counting one bin preserves holds after all bins.                   *)
LEMMA CountFold ==
    ASSUME NEW t, NEW flag, NEW n \in Nat, DOMAIN BinList = 1 .. n,
           NEW V, 0 \in V[{}],
           \A T \in SUBSET (1 .. n) : T # {} =>
              \A v \in V[T \ {Max(T)}] : CountOne(t, flag, v, BinList[Max(T)]) \in V[T]
    PROVE  Counting(t, flag) \in V[1 .. n]
<1> DEFINE Op(u, e) == CountOne(t, flag, u, e)
           Eq(g) == g = [T \in SUBSET DOMAIN BinList |->
                           IF T = {} THEN 0 ELSE Op(g[T \ {Max(T)}], BinList[Max(T)])]
           G == CHOOSE g : Eq(g)
           Dom == (SUBSET (1 .. n)) \X UNION {V[T] : T \in SUBSET (1 .. n)}
           step == [c \in Dom |-> Op(c[2], BinList[Max(c[1])])]
<1>1. Counting(t, flag) = G[DOMAIN BinList]
  BY DEF Counting, CountOne, FoldLeft, MapThenFoldSet
<1>2. \A T \in SUBSET (1 .. n) : T # {} =>
        \A u \in V[T \ {Max(T)}] : Op(u, BinList[Max(T)]) \in V[T]
  OBVIOUS
<1> HIDE DEF Op
<1>3. ASSUME NEW T \in SUBSET (1 .. n), NEW u \in V[T \ {Max(T)}]
      PROVE  step[<<T, u>>] = Op(u, BinList[Max(T)])
  <2>1. T \ {Max(T)} \in SUBSET (1 .. n)
    OBVIOUS
  <2>2. <<T, u>> \in Dom
    BY <2>1
  <2> HIDE DEF Dom
  <2> QED BY <2>2
<1> HIDE DEF step
<1>4. \E g : Eq(g)
  <2>1. \A T \in SUBSET (1 .. n) : T # {} =>
           \A u \in V[T \ {Max(T)}] : step[<<T, u>>] \in V[T]
    <3>1. SUFFICES ASSUME NEW T \in SUBSET (1 .. n), T # {}, NEW u \in V[T \ {Max(T)}]
                   PROVE  step[<<T, u>>] \in V[T]
      BY Zenon
    <3>2. step[<<T, u>>] = Op(u, BinList[Max(T)])
      BY <1>3, Zenon
    <3>3. Op(u, BinList[Max(T)]) \in V[T]
      BY <1>2, <3>1, Zenon
    <3> QED BY <3>2, <3>3
  <2>2. PICK g : /\ FoldsTo(g, 0, n, step)
                 /\ \A T \in SUBSET (1 .. n) : g[T] \in V[T]
    BY <2>1, FoldTable, Zenon
  <2>3. ASSUME NEW T \in SUBSET (1 .. n)
        PROVE  g[T] = IF T = {} THEN 0 ELSE Op(g[T \ {Max(T)}], BinList[Max(T)])
    <3>1. g[T] = IF T = {} THEN 0 ELSE step[<<T, g[T \ {Max(T)}]>>]
      BY <2>2 DEF FoldsTo
    <3>2. T \ {Max(T)} \in SUBSET (1 .. n)
      OBVIOUS
    <3>3. g[T \ {Max(T)}] \in V[T \ {Max(T)}]
      BY <2>2, <3>2, Zenon
    <3>4. step[<<T, g[T \ {Max(T)}]>>] = Op(g[T \ {Max(T)}], BinList[Max(T)])
      BY <1>3, <3>3, Zenon
    <3> QED BY <3>1, <3>4, Zenon
  <2>4. g = [T \in SUBSET (1 .. n) |-> g[T]]
    BY <2>2 DEF FoldsTo
  <2> QED BY <2>3, <2>4
<1>5. Eq(G)
  BY <1>4
<1> HIDE DEF G
<1>6. ASSUME NEW T \in SUBSET (1 .. n), T # {} => G[T \ {Max(T)}] \in V[T \ {Max(T)}]
      PROVE  G[T] \in V[T]
  <2>1. G[T] = IF T = {} THEN 0 ELSE Op(G[T \ {Max(T)}], BinList[Max(T)])
    BY <1>5
  <2>2. CASE T = {}
    BY <2>1, <2>2, Zenon
  <2>3. CASE T # {}
    <3>1. Op(G[T \ {Max(T)}], BinList[Max(T)]) \in V[T]
      BY <1>2, <1>6, <2>3, Zenon
    <3> QED BY <2>1, <2>3, <3>1
  <2> QED BY <2>2, <2>3
<1>7. G[1 .. n] \in V[1 .. n]
  BY <1>6, FoldValues, Zenon
<1> QED BY <1>1, <1>7

(* The list of a bin is as long as the bin has sites.                      *)
LEMMA ListLen ==
    ASSUME layout \in Layouts, NEW p, NEW t, NEW L, Lists(p, t, L), NEW b \in Bins
    PROVE  /\ BinSites(t, L, b) /\ InBin(t, b) \in Seq(0 .. t.nmax - 1)
           /\ IsFiniteSet({k \in L : t.bin[k] = b})
           /\ Len(InBin(t, b)) = Cardinality({k \in L : t.bin[k] = b})
<1>1. t.nmax \in Nat /\ t \in TableOf(t.nmax, Bins) /\ Keeps(t, L, Bins, t.binhead)
  BY TableIs DEF Lists
<1>2. Bins \subseteq Bins
  OBVIOUS
<1>3. BinSites(t, L, b)
  BY <1>1, <1>2, BinSitesAre
<1>4. IsFiniteSet(L)
  BY DEF Lists
<1>5. InBin(t, b) \in Seq(L) /\ Distinct(InBin(t, b)) /\ Elements(InBin(t, b)) = {k \in L : t.bin[k] = b}
  BY <1>3 DEF BinSites, ListFrom
<1>6. Len(InBin(t, b)) = Cardinality(Elements(InBin(t, b)))
  BY <1>4, <1>5, DistinctLen
<1>7. IsFiniteSet({k \in L : t.bin[k] = b})
  <2>1. {k \in L : t.bin[k] = b} \subseteq L
    OBVIOUS
  <2> QED BY <1>4, <2>1, FS_Subset
<1>8. InBin(t, b) \in Seq(0 .. t.nmax - 1)
  BY <1>1, <1>2, InBinIs
<1> QED BY <1>3, <1>5, <1>6, <1>7, <1>8

(* Each site is counted once.                                              *)
LEMMA CountIs ==
    ASSUME layout \in Layouts, NEW p, NEW t, NEW L, Lists(p, t, L), NEW flag,
           \A k \in L : ~ flag => ~ IsGhost(t.bin[k])
    PROVE  Counting(t, flag) = Cardinality(L)
<1> DEFINE n == Len(BinList)
           Met(T) == {k \in L : \E m \in T : t.bin[k] = BinList[m]}
           V == [T \in SUBSET (1 .. n) |-> {Cardinality(Met(T))}]
<1>1. BinList \in Seq(Bins) /\ Distinct(BinList) /\ Elements(BinList) = Bins
  BY BinListIs
<1>2. n \in Nat /\ DOMAIN BinList = 1 .. n /\ \A m \in 1 .. n : BinList[m] \in Bins
  BY <1>1
<1>3. IsFiniteSet(L)
  BY DEF Lists
<1>4. ASSUME NEW T PROVE IsFiniteSet(Met(T)) /\ Cardinality(Met(T)) \in Nat
  <2>1. Met(T) \subseteq L
    OBVIOUS
  <2> HIDE DEF Met
  <2> QED BY <1>3, <2>1, FS_Subset, FS_CardinalityType
<1>5. ASSUME NEW T \in SUBSET (1 .. n), T # {}
      PROVE  CountOne(t, flag, Cardinality(Met(T \ {Max(T)})), BinList[Max(T)]) = Cardinality(Met(T))
  <2> DEFINE m == Max(T)
             b == BinList[m]
             R == T \ {m}
             New == {k \in L : t.bin[k] = b}
  <2>1. m \in T /\ m \in 1 .. n
    BY <1>2, <1>5, MaxOf
  <2> HIDE DEF m
  <2>2. b \in Bins
    BY <1>2, <2>1
  <2>3. Met(T) = Met(R) \cup New
    BY <2>1
  <2>4. Met(R) \cap New = {}
    BY <1>1, <2>1 DEF Distinct
  <2>5. IsFiniteSet(New) /\ Len(InBin(t, b)) = Cardinality(New)
    BY <2>2, ListLen
  <2>6. (~ flag /\ IsGhost(b)) => New = {}
    OBVIOUS
  <2> HIDE DEF New, Met
  <2>7. IsFiniteSet(Met(R)) /\ Cardinality(Met(R)) \in Nat /\ Cardinality(New) \in Nat
    BY <1>4, <2>5, FS_CardinalityType
  <2>8. Cardinality(Met(T)) = Cardinality(Met(R)) + Cardinality(New)
    <3>1. Cardinality(Met(R) \cup New) = Cardinality(Met(R)) + Cardinality(New)
      <4>1. Cardinality(Met(R) \cap New) = 0
        BY <2>4, FS_EmptySet
      <4>2. Cardinality(Met(R) \cup New) =
               Cardinality(Met(R)) + Cardinality(New) - Cardinality(Met(R) \cap New)
        BY <2>5, <2>7, FS_Union
      <4> QED BY <2>7, <4>1, <4>2
    <3> QED BY <2>3, <3>1
  <2>9. [c \in Bins |-> InBin(t, c)][b] = InBin(t, b)
    BY <2>2
  <2> HIDE DEF b, R
  <2>10. CountOne(t, flag, Cardinality(Met(R)), b) = Cardinality(Met(T))
    <3>1. CASE ~ flag /\ IsGhost(b)
      <4>1. Cardinality(New) = 0
        BY <2>6, <3>1, FS_EmptySet
      <4> QED BY <2>7, <2>8, <3>1, <4>1 DEF CountOne
    <3>2. CASE ~ (~ flag /\ IsGhost(b))
      BY <2>5, <2>7, <2>8, <2>9, <3>2 DEF CountOne
    <3> QED BY <3>1, <3>2
  <2> QED BY <2>10 DEF R, b, m
<1>6. 0 \in V[{}]
  <2>1. Met({}) = {}
    OBVIOUS
  <2>2. Cardinality(Met({})) = 0
    BY <2>1, FS_EmptySet
  <2> HIDE DEF Met
  <2> QED BY <2>2
<1>7. \A T \in SUBSET (1 .. n) : T # {} =>
        \A v \in V[T \ {Max(T)}] : CountOne(t, flag, v, BinList[Max(T)]) \in V[T]
  <2>1. SUFFICES ASSUME NEW T \in SUBSET (1 .. n), T # {}, NEW v \in V[T \ {Max(T)}]
                 PROVE  CountOne(t, flag, v, BinList[Max(T)]) \in V[T]
    BY Zenon
  <2> HIDE DEF Met
  <2>2. T \ {Max(T)} \in SUBSET (1 .. n)
    OBVIOUS
  <2>3. v = Cardinality(Met(T \ {Max(T)}))
    BY <2>2
  <2>4. CountOne(t, flag, v, BinList[Max(T)]) = Cardinality(Met(T))
    BY <1>5, <2>1, <2>3
  <2> QED BY <2>4
<1>8. Counting(t, flag) \in V[1 .. n]
  <2> HIDE DEF V, n
  <2> QED BY <1>2, <1>6, <1>7, CountFold
<1>9. 1 .. n \in SUBSET (1 .. n)
  OBVIOUS
<1>10. Met(1 .. n) = L
  <2>1. ASSUME NEW k \in L PROVE \E m \in 1 .. n : t.bin[k] = BinList[m]
    <3>1. t.bin[k] \in Bins
      <4>1. t.nmax \in Nat /\ t \in TableOf(t.nmax, Bins) /\ Keeps(t, L, Bins, t.binhead)
        BY TableIs DEF Lists
      <4>2. t.bin \in [0 .. t.nmax - 1 -> Bins] /\ L \subseteq 0 .. t.nmax - 1
        BY <4>1 DEF TableOf, Keeps
      <4> QED BY <4>2
    <3>2. t.bin[k] \in Elements(BinList)
      BY <1>1, <3>1
    <3> QED BY <3>2 DEF Elements
  <2> QED BY <2>1
<1> HIDE DEF Met
<1>11. Counting(t, flag) = Cardinality(Met(1 .. n))
  BY <1>8, <1>9
<1> QED BY <1>10, <1>11

(* The invariant has the types.                                            *)
LEMMA InvTypeOK == Inv => TypeOK
<1> SUFFICES ASSUME Inv PROVE TypeOK
  OBVIOUS
<1>1. ASSUME NEW p \in Proc
      PROVE  /\ insector[p] \subseteq chosen[p] /\ chosen[p] \subseteq Owned(p)
             /\ tries[p] \in 0 .. Cardinality(chosen[p])
             /\ table[p].nlocal \in 0 .. table[p].nmax
             /\ DOMAIN table[p].next = 0 .. table[p].nmax - 1
  <2>1. insector[p] \subseteq chosen[p] /\ chosen[p] \subseteq Owned(p)
        /\ tries[p] \in Nat /\ tries[p] <= Cardinality(chosen[p])
    BY DEF Inv, Chooses, Owned
  <2>2. table[p] \in SiteTables(Bins)
    BY DEF Inv
  <2>3. Settled(p, table[p]) \/ \E s, K : Equipped(p, table[p], s, K)
    BY DEF Inv, Stage
  <2>4. table[p].nlocal \in Nat /\ table[p].nmax \in Nat /\ table[p].nlocal <= table[p].nmax
    BY <2>3, NlocalIs
  <2>5. table[p].next \in [0 .. table[p].nmax - 1 -> Int]
    BY <2>2, TableIs DEF TableOf
  <2>6. IsFiniteSet(chosen[p])
    <3>1. chosen[p] \subseteq 0 .. table[p].nlocal - 1
      BY <2>1 DEF Owned
    <3>2. table[p].nlocal - 1 \in Int
      BY <2>4
    <3>3. IsFiniteSet(0 .. table[p].nlocal - 1)
      BY <3>2, FS_Interval, 0 \in Int, Zenon
    <3> QED BY <3>1, <3>3, FS_Subset
  <2>7. Cardinality(chosen[p]) \in Nat
    BY <2>6, FS_CardinalityType
  <2>8. tries[p] \in 0 .. Cardinality(chosen[p])
    BY <2>1, <2>7
  <2> QED BY <2>1, <2>4, <2>5, <2>8
<1>2. Counters /\ layout \in Layouts
  BY DEF Inv
<1> QED BY <1>1, <1>2 DEF Counters, TypeOK

(* The lists while ghosts are there, and while they are not.               *)
LEMMA FittedLists ==
    ASSUME NEW p, NEW t, NEW L, NEW q, Fitted(p, t, L, q)
    PROVE  /\ Lists(p, t, L) /\ t.nghost = Cardinality(L) - t.nlocal
           /\ Cardinality(L) \in Nat
<1> DEFINE own == 0 .. t.nlocal - 1
<1>1. t.nmax \in Nat /\ IsFiniteSet(L) /\ t \in TableOf(t.nmax, Bins) /\ t.nlocal \in Int
  BY FittedIs
<1>2. t \in SiteTables(Bins) /\ t.nlocal \in 0 .. t.nmax /\ own \subseteq L
  BY DEF Fitted
<1>3. Whole(t, L, q)
  BY DEF Fitted
<1>4. Keeps(t, L, Bins, t.binhead)
  BY <1>1, <1>3, WholeIs
<1>5. /\ \A k \in L : t.bin[k] = Site2Bin(p, t.xyz[k])
      /\ \A k \in L \ own : IsGhost(t.bin[k])
      /\ t.nghost = Cardinality(L \ own)
  BY DEF Fitted
<1>6. IsFiniteSet(own) /\ Cardinality(own) = t.nlocal
  <2>1. t.nlocal - 1 \in Int /\ 0 \in Int
    BY <1>1
  <2>2. IsFiniteSet(own) /\ Cardinality(own) = IF 0 > t.nlocal - 1 THEN 0 ELSE (t.nlocal - 1) - 0 + 1
    BY <2>1, FS_Interval, Zenon
  <2> HIDE DEF own
  <2> QED BY <1>1, <1>2, <2>2
<1>7. Lists(p, t, L)
  <2>1. \A k \in L : k \in own \/ IsGhost(t.bin[k])
    BY <1>5
  <2> QED BY <1>1, <1>2, <1>4, <1>5, <2>1 DEF Lists
<1> HIDE DEF own
<1>8. L \cap own = own
  BY <1>2
<1>9. Cardinality(L \ own) = Cardinality(L) - Cardinality(L \cap own)
  BY <1>1, FS_Difference
<1>10. Cardinality(L) \in Nat
  BY <1>1, FS_CardinalityType
<1> QED BY <1>5, <1>6, <1>7, <1>8, <1>9, <1>10

(* A settled table has lists of its owned sites.                           *)
LEMMA SettledLists ==
    ASSUME layout \in Layouts, NEW p \in Proc, NEW t, Settled(p, t)
    PROVE  /\ Lists(p, t, 0 .. t.nlocal - 1) /\ Cardinality(0 .. t.nlocal - 1) = t.nlocal
           /\ \A k \in 0 .. t.nlocal - 1 : ~ IsGhost(t.bin[k])
<1> DEFINE own == 0 .. t.nlocal - 1
<1>1. t.nlocal \in Nat /\ t.nmax \in Nat /\ t \in SiteTables(Bins) /\ t.nlocal <= t.nmax
  BY NlocalIs
<1>2. /\ Keeps(t, own, Bins, t.binhead)
      /\ \A k \in own : InDomain(p, t.xyz[k]) /\ t.bin[k] = Site2Bin(p, t.xyz[k])
  BY DEF Settled
<1>3. IsFiniteSet(own) /\ Cardinality(own) = t.nlocal
  <2>1. t.nlocal - 1 \in Int /\ 0 \in Int
    BY <1>1
  <2>2. IsFiniteSet(own) /\ Cardinality(own) = IF 0 > t.nlocal - 1 THEN 0 ELSE (t.nlocal - 1) - 0 + 1
    BY <2>1, FS_Interval, Zenon
  <2> HIDE DEF own
  <2> QED BY <1>1, <2>2
<1>4. \A k \in own : t.xyz[k] \in Point
  BY <1>1, TableIs DEF TableOf, Point
<1>5. \A k \in own : ~ IsGhost(t.bin[k])
  BY <1>2, <1>4, SiteBinIs
<1>6. t.nlocal \in 0 .. t.nmax
  BY <1>1
<1>7. Lists(p, t, own)
  BY <1>1, <1>2, <1>3, <1>6 DEF Lists
<1> QED BY <1>3, <1>5, <1>7

(* A process passes the test of check().                                   *)
Linked2(p, t) ==
    \A b \in Bins : \A k \in 1 .. Len(InBin(t, b)) :
        LET m == InBin(t, b)[k]
        IN  /\ t.bin[m] = b /\ Site2Bin(p, t.xyz[m]) = b
            /\ t.prev[m] = IF k = 1 THEN Nil ELSE InBin(t, b)[k - 1]
            /\ ~IsGhost(b) => m < t.nlocal

(* Lists in the terms of check().                                          *)
LEMMA ListsLinked ==
    ASSUME layout \in Layouts, NEW p, NEW t, NEW L, Lists(p, t, L)
    PROVE  Linked2(p, t)
<1>1. t.nmax \in Nat /\ t \in TableOf(t.nmax, Bins) /\ Keeps(t, L, Bins, t.binhead)
      /\ t.nlocal \in 0 .. t.nmax
  BY TableIs DEF Lists
<1>2. ASSUME NEW b \in Bins, NEW k \in 1 .. Len(InBin(t, b)), NEW m, m = InBin(t, b)[k]
      PROVE  /\ t.bin[m] = b /\ Site2Bin(p, t.xyz[m]) = b
             /\ t.prev[m] = IF k = 1 THEN Nil ELSE InBin(t, b)[k - 1]
             /\ ~IsGhost(b) => m < t.nlocal
  <2> DEFINE q == InBin(t, b)
  <2>1. q \in Seq(L) /\ ListFrom(t.binhead[b], t.next, t.prev, q)
        /\ Elements(q) = {j \in L : t.bin[j] = b}
    <3>1. BinSites(t, L, b)
      BY ListLen
    <3> QED BY <3>1 DEF BinSites
  <2>2. m = q[k] /\ k \in 1 .. Len(q)
    BY <1>2
  <2> HIDE DEF q
  <2>3. m \in L /\ t.bin[m] = b
    BY <2>1, <2>2 DEF Elements
  <2>4. Site2Bin(p, t.xyz[m]) = b /\ (m \in 0 .. t.nlocal - 1 \/ IsGhost(b))
    BY <2>3 DEF Lists
  <2>5. ~IsGhost(b) => m < t.nlocal
    BY <1>1, <2>4
  <2>6. CASE k = 1
    <3>1. m = t.binhead[b]
      BY <2>1, <2>2, <2>6 DEF ListFrom, RunsDown
    <3>2. b \in DOMAIN t.binhead
      BY <1>1 DEF TableOf
    <3>3. m # Nil
      BY <1>1, <2>3, NextOf
    <3>4. t.prev[t.binhead[b]] \notin L
      BY <1>1, <3>1, <3>2, <3>3, NextOf
    <3>5. t.prev[m] = Nil
      BY <1>1, <2>3, <3>1, <3>4 DEF Keeps
    <3> QED BY <2>3, <2>4, <2>5, <2>6, <3>5
  <2>7. CASE k # 1
    <3>1. k \in 2 .. Len(q)
      BY <2>2, <2>7
    <3>2. t.prev[m] = q[k - 1]
      BY <2>1, <2>2, <3>1 DEF ListFrom
    <3> QED BY <2>3, <2>4, <2>5, <2>7, <3>2 DEF q
  <2> QED BY <2>6, <2>7
<1> QED BY <1>2 DEF Linked2

Counted(p) ==
    LET t    == table[p]
        flag == phase = "events" \/ (~Sectored /\ phase = "done")
    IN  Counting(t, flag) = t.nlocal + (IF flag THEN t.nghost ELSE 0)
IsList(q) == DOMAIN q = 1 .. Len(q)

(* The parts of check().                                                   *)
LEMMA PassesParts ==
    ASSUME \A p \in Proc : Linked2(p, table[p]) /\ Counted(p)
                           /\ \A b \in Bins : IsList(InBin(table[p], b))
    PROVE  CheckPasses
<1>1. ASSUME NEW p \in Proc
      PROVE  LET t     == table[p]
                 flag  == phase = "events" \/ (~Sectored /\ phase = "done")
                 lists == [b \in Bins |-> InBin(t, b)]
             IN  /\ \A b \in Bins : \A k \in DOMAIN lists[b] :
                      LET m == lists[b][k]
                      IN  /\ t.bin[m] = b /\ Site2Bin(p, t.xyz[m]) = b
                          /\ t.prev[m] = IF k = 1 THEN Nil ELSE lists[b][k - 1]
                          /\ ~IsGhost(b) => m < t.nlocal
                 /\ LET Count(a, b) == a + (IF ~flag /\ IsGhost(b) THEN 0 ELSE Len(lists[b]))
                    IN  FoldLeft(Count, 0, BinList) = t.nlocal + (IF flag THEN t.nghost ELSE 0)
  <2> DEFINE t == table[p]
             lists == [b \in Bins |-> InBin(t, b)]
  <2>1. Counted(p)
    OBVIOUS
  <2>2. \A b \in Bins : lists[b] = InBin(t, b) /\ DOMAIN lists[b] = 1 .. Len(InBin(t, b))
    BY DEF IsList
  <2>3. Linked2(p, t)
    OBVIOUS
  <2> HIDE DEF lists
  <2>4. ASSUME NEW b \in Bins, NEW k \in DOMAIN lists[b]
        PROVE  LET m == lists[b][k]
               IN  /\ t.bin[m] = b /\ Site2Bin(p, t.xyz[m]) = b
                   /\ t.prev[m] = IF k = 1 THEN Nil ELSE lists[b][k - 1]
                   /\ ~IsGhost(b) => m < t.nlocal
    <3>1. lists[b] = InBin(t, b) /\ k \in 1 .. Len(InBin(t, b))
      BY <2>2
    <3> HIDE DEF t
    <3> QED BY <2>3, <3>1 DEF Linked2
  <2> QED BY <2>1, <2>4 DEF Counted, Counting, lists
<1> QED BY <1>1 DEF CheckPasses

(* The invariant has the lists that check() looks at.                      *)
LEMMA InvLists ==
    ASSUME Inv, NEW p \in Proc
    PROVE  \E L : /\ Lists(p, table[p], L)
                  /\ IF phase = "events" \/ (~Sectored /\ phase = "done")
                     THEN /\ table[p].nghost = Cardinality(L) - table[p].nlocal
                          /\ Cardinality(L) \in Nat
                     ELSE /\ table[p].nlocal = Cardinality(L)
                          /\ \A k \in L : ~ IsGhost(table[p].bin[k])
<1>1. layout \in Layouts /\ phase \in {"forward", "events", "done"}
  BY DEF Inv, Counters
<1>2. CASE phase = "events" \/ (~Sectored /\ phase = "done")
  <2>1. Equipped(p, table[p], iset, insector[p])
    BY <1>2 DEF Inv, Stage
  <2>2. PICK L, q : Fitted(p, table[p], L, q)
    BY <2>1 DEF Equipped
  <2>3. Lists(p, table[p], L) /\ table[p].nghost = Cardinality(L) - table[p].nlocal
        /\ Cardinality(L) \in Nat
    BY <2>2, FittedLists
  <2> QED BY <1>2, <2>3
<1>3. CASE ~ (phase = "events" \/ (~Sectored /\ phase = "done"))
  <2>1. Settled(p, table[p])
    BY <1>1, <1>3 DEF Inv, Stage
  <2> DEFINE L == 0 .. table[p].nlocal - 1
  <2>2. Lists(p, table[p], L) /\ table[p].nlocal = Cardinality(L)
        /\ \A k \in L : ~ IsGhost(table[p].bin[k])
    BY <1>1, <2>1, SettledLists
  <2> HIDE DEF L
  <2> QED BY <1>3, <2>2
<1> QED BY <1>2, <1>3

(* The invariant passes check().                                           *)
LEMMA InvCheckPasses == Inv => CheckPasses
<1> SUFFICES ASSUME Inv PROVE CheckPasses
  OBVIOUS
<1>1. layout \in Layouts
  BY DEF Inv
<1>2. ASSUME NEW p \in Proc
      PROVE  Linked2(p, table[p]) /\ Counted(p) /\ \A b \in Bins : IsList(InBin(table[p], b))
  <2> DEFINE flag == phase = "events" \/ (~Sectored /\ phase = "done")
  <2>1. PICK L : /\ Lists(p, table[p], L)
                 /\ IF flag
                    THEN /\ table[p].nghost = Cardinality(L) - table[p].nlocal
                         /\ Cardinality(L) \in Nat
                    ELSE /\ table[p].nlocal = Cardinality(L)
                         /\ \A k \in L : ~ IsGhost(table[p].bin[k])
    BY InvLists
  <2>2. Linked2(p, table[p])
    BY <1>1, <2>1, ListsLinked
  <2>3. Counting(table[p], flag) = Cardinality(L)
    <3> HIDE DEF flag
    <3>1. \A k \in L : ~ flag => ~ IsGhost(table[p].bin[k])
      BY <2>1
    <3> QED BY <1>1, <2>1, <3>1, CountIs
  <2>4. table[p].nlocal \in Int
    BY <2>1 DEF Lists
  <2>5. Cardinality(L) = table[p].nlocal + (IF flag THEN table[p].nghost ELSE 0)
    <3> HIDE DEF flag
    <3> QED BY <2>1, <2>4
  <2>6. ASSUME NEW b \in Bins PROVE IsList(InBin(table[p], b))
    <3>1. InBin(table[p], b) \in Seq(0 .. table[p].nmax - 1)
      BY <1>1, <2>1, ListLen
    <3> QED BY <3>1 DEF IsList
  <2> QED BY <2>2, <2>3, <2>5, <2>6 DEF Counted
<1> QED BY <1>2, PassesParts

(* The slots of a table that lists its sites and chains the others.        *)
LEMMA SlotsOf ==
    ASSUME layout \in Layouts, NEW p, NEW t, NEW L, NEW q, Fitted(p, t, L, q)
    PROVE  /\ FreeSlots(t) = q /\ Ghosts(t) = L \ (0 .. t.nlocal - 1)
           /\ ToSet(FreeSlots(t)) = (0 .. t.nmax - 1) \ L
           /\ Len(FreeSlots(t)) = t.nfree
           /\ t.nlocal + t.nghost + t.nfree = t.nmax
<1>1. t.nmax \in Nat /\ IsFiniteSet(L) /\ t \in TableOf(t.nmax, Bins) /\ L \subseteq 0 .. t.nmax - 1
      /\ t.nlocal \in Int
  BY FittedIs
<1>2. Whole(t, L, q)
  BY DEF Fitted
<1>3. Free(t, q) /\ Elements(q) = (0 .. t.nmax - 1) \ L
  BY <1>2 DEF Whole
<1>4. q \in Seq(0 .. t.nmax - 1) /\ Distinct(q) /\ RunsDown(t.next, t.freehead, q) /\ t.nfree = Len(q)
  BY <1>3 DEF Free
<1>5. FreeSlots(t) = q
  <2>1. t.next \in [0 .. t.nmax - 1 -> Int]
    BY <1>1 DEF TableOf
  <2>2. Chain(t, t.freehead) = q
    BY <1>1, <1>4, <2>1, ChainIs
  <2> QED BY <2>2 DEF FreeSlots
<1>6. ToSet(q) = Elements(q)
  BY <1>4 DEF ToSet, Elements
<1>7. Lists(p, t, L) /\ t.nghost = Cardinality(L) - t.nlocal /\ Cardinality(L) \in Nat
  BY FittedLists
<1>8. Ghosts(t) = L \ (0 .. t.nlocal - 1)
  <2>1. ASSUME NEW b \in Bins PROVE ToSet(InBin(t, b)) = {k \in L : t.bin[k] = b}
    <3>1. BinSites(t, L, b)
      BY <1>7, ListLen
    <3>2. InBin(t, b) \in Seq(L) /\ Elements(InBin(t, b)) = {k \in L : t.bin[k] = b}
      BY <3>1 DEF BinSites
    <3>3. ToSet(InBin(t, b)) = Elements(InBin(t, b))
      BY <3>2 DEF ToSet, Elements
    <3> QED BY <3>2, <3>3
  <2>2. \A k \in L : t.bin[k] \in Bins
    BY <1>1 DEF TableOf
  <2>3. UNION {ToSet(InBin(t, b)) : b \in Bins} = L
    BY <2>1, <2>2
  <2> QED BY <2>3 DEF Ghosts
<1>9. Cardinality(L) + Len(q) = t.nmax
  <2> DEFINE all == 0 .. t.nmax - 1
  <2>1. t.nmax - 1 \in Int /\ 0 \in Int
    BY <1>1
  <2>2. IsFiniteSet(all) /\ Cardinality(all) = IF 0 > t.nmax - 1 THEN 0 ELSE (t.nmax - 1) - 0 + 1
    BY <2>1, FS_Interval, Zenon
  <2>3. L \subseteq all /\ Elements(q) = all \ L /\ q \in Seq(all)
    BY <1>1, <1>3, <1>4
  <2> HIDE DEF all
  <2>4. Cardinality(all) = t.nmax
    BY <1>1, <2>2
  <2>5. all \cap L = L
    BY <2>3
  <2>6. Cardinality(all \ L) = Cardinality(all) - Cardinality(all \cap L)
    BY <2>2, FS_Difference
  <2>7. Len(q) = Cardinality(Elements(q))
    BY <1>4, <2>2, <2>3, DistinctLen
  <2>8. Cardinality(all \ L) = t.nmax - Cardinality(L)
    BY <2>4, <2>5, <2>6
  <2>9. Len(q) = Cardinality(all \ L)
    BY <2>3, <2>7
  <2> QED BY <1>1, <1>7, <2>8, <2>9
<1>10. Len(q) \in Nat
  BY <1>4
<1> QED BY <1>1, <1>3, <1>4, <1>5, <1>6, <1>7, <1>8, <1>9, <1>10

(* The invariant accounts for every slot.                                  *)
LEMMA InvSlotsAccounted == Inv => SlotsAccounted
<1> SUFFICES ASSUME Inv, NEW p \in Proc, phase = "events"
             PROVE  LET t == table[p]
                    IN  /\ Ghosts(t) \cap ToSet(FreeSlots(t)) = {}
                        /\ Owned(p) \cap ToSet(FreeSlots(t)) = {}
                        /\ Len(FreeSlots(t)) = t.nfree
                        /\ Cardinality(Ghosts(t)) = t.nghost
                        /\ t.nlocal + t.nghost + t.nfree = t.nmax
  BY DEF SlotsAccounted
<1> DEFINE t == table[p]
<1>1. Equipped(p, t, iset, insector[p]) /\ layout \in Layouts
  BY DEF Inv, Stage
<1>2. Owned(p) = 0 .. t.nlocal - 1
  BY DEF Owned
<1> HIDE DEF t
<1>3. PICK L, q : Fitted(p, t, L, q)
  BY <1>1 DEF Equipped
<1>4. /\ Ghosts(t) = L \ (0 .. t.nlocal - 1)
      /\ ToSet(FreeSlots(t)) = (0 .. t.nmax - 1) \ L
      /\ Len(FreeSlots(t)) = t.nfree
      /\ t.nlocal + t.nghost + t.nfree = t.nmax
  BY <1>1, <1>3, SlotsOf
<1>5. t.nghost = Cardinality(L \ (0 .. t.nlocal - 1)) /\ 0 .. t.nlocal - 1 \subseteq L
  BY <1>3 DEF Fitted
<1> QED BY <1>2, <1>4, <1>5 DEF t

(* Each site has one owner.                                                *)
LEMMA OneHolder ==
    ASSUME Ledger(table), NEW n \in Id
    PROVE  \E p \in Proc : \E i \in Owned(p) : Holders(n) = {<<p, i>>}
<1>1. UNION {Names(table[p]) : p \in Proc} = Id
  BY DEF Ledger
<1>2. PICK p \in Proc : n \in Names(table[p])
  BY <1>1
<1>3. PICK i \in 0 .. table[p].nlocal - 1 : table[p].id[i] = n
  BY <1>2 DEF Names
<1>4. ASSUME NEW r \in Proc, NEW j \in Owned(r), table[r].id[j] = n PROVE r = p /\ j = i
  <2>1. n \in Names(table[r])
    BY <1>4 DEF Names, Owned
  <2>2. r = p
    BY <1>2, <2>1 DEF Ledger
  <2>3. j = i
    BY <1>3, <1>4, <2>2 DEF Ledger, Named, Owned
  <2> QED BY <2>2, <2>3
<1>5. \A h : h \in UNION {{r} \X Owned(r) : r \in Proc}
               <=> \E r \in Proc : \E j \in Owned(r) : h = <<r, j>>
  OBVIOUS
<1>6. i \in Owned(p)
  BY DEF Owned
<1>7. \A h : h \in Holders(n) <=> h = <<p, i>>
  BY <1>3, <1>4, <1>5, <1>6 DEF Holders
<1>8. Holders(n) = {<<p, i>>}
  BY <1>7
<1> QED BY <1>6, <1>8

(* Each site is owned by one process, between sectors by the one whose     *)
(* sub-domain it is in.                                                    *)
OwnedAtHome ==
    \A n \in Id :
        /\ Cardinality(Holders(n)) = 1
        /\ phase # "events" => \A h \in Holders(n) : InDomain(h[1], table[h[1]].xyz[h[2]])

(* The invariant has the owners at home.                                   *)
LEMMA InvOwnedAtHome == Inv => OwnedAtHome
<1> SUFFICES ASSUME Inv, NEW n \in Id
             PROVE  /\ Cardinality(Holders(n)) = 1
                    /\ phase # "events" => \A h \in Holders(n) : InDomain(h[1], table[h[1]].xyz[h[2]])
  BY DEF OwnedAtHome
<1>1. PICK p \in Proc : \E i \in Owned(p) : Holders(n) = {<<p, i>>}
  BY OneHolder DEF Inv
<1>2. PICK i \in Owned(p) : Holders(n) = {<<p, i>>}
  BY <1>1
<1>3. Cardinality(Holders(n)) = 1
  BY <1>2, FS_Singleton
<1>4. ASSUME phase # "events" PROVE InDomain(p, table[p].xyz[i])
  <2>1. CASE Settled(p, table[p])
    BY <2>1 DEF Settled, Owned
  <2>2. CASE ~ Sectored /\ Equipped(p, table[p], iset, insector[p])
    BY <2>2 DEF Equipped, AtHome, Owned
  <2>3. phase \in {"forward", "events", "done"}
    BY DEF Inv, Counters
  <2> QED BY <1>4, <2>1, <2>2, <2>3 DEF Inv, Stage
<1> QED BY <1>2, <1>3, <1>4

(* With four sectors, or none, it is in one of them.                       *)
LEMMA InvOneOwner ==
    ASSUME \A L \in Layouts : L.nsector # 2, Inv
    PROVE  OneOwner
<1>1. OwnedAtHome /\ layout \in Layouts
  BY InvOwnedAtHome DEF Inv
<1>2. ASSUME NEW n \in Id, phase # "events", NEW h \in Holders(n)
      PROVE  Cardinality({s \in 0 .. layout.nsector - 1 :
                             InSector(h[1], s, table[h[1]].xyz[h[2]])}) = 1
  <2>1. InDomain(h[1], table[h[1]].xyz[h[2]])
    BY <1>1, <1>2 DEF OwnedAtHome
  <2>2. h[1] \in Proc /\ h[2] \in Owned(h[1])
    BY <1>2 DEF Holders
  <2>3. table[h[1]].xyz[h[2]] \in Point
    <3>1. table[h[1]] \in SiteTables(Bins)
      BY <2>2 DEF Inv
    <3>2. Settled(h[1], table[h[1]]) \/ \E s, K : Equipped(h[1], table[h[1]], s, K)
      BY <2>2 DEF Inv, Stage
    <3>3. table[h[1]].nlocal <= table[h[1]].nmax /\ table[h[1]].nlocal \in Nat
          /\ table[h[1]].nmax \in Nat
      BY <3>2, NlocalIs
    <3>4. h[2] \in 0 .. table[h[1]].nmax - 1
      BY <2>2, <3>3 DEF Owned
    <3>5. table[h[1]].xyz \in [0 .. table[h[1]].nmax - 1 -> Point]
      BY <3>1, TableIs DEF TableOf, Point
    <3> QED BY <3>4, <3>5
  <2>4. layout.nsector # 2
    BY <1>1
  <2> QED BY <1>1, <2>1, <2>2, <2>3, <2>4, OneSector
<1> QED BY <1>1, <1>2 DEF OneOwner, OwnedAtHome

(* The tables, lists and counters of the driver always have their types.   *)
THEOREM TypeCorrect == Spec => []TypeOK
  BY Invariance, InvTypeOK, PTL

(* AppOffLattice::check() never fails: the number of sites in the bins is  *)
(* nlocal and nghost, no owned site is in a ghost bin when none should be, *)
(* each site is in the bin its position says, and the links of every list  *)
(* run both ways.                                                          *)
THEOREM ListsAreChecked == Spec => []CheckPasses
  BY Invariance, InvCheckPasses, PTL

(* No slot of a table is lost or used twice: the lists of the bins and the *)
(* free list share all nmax slots, and the free list has nfree of them.    *)
THEOREM NoSlotLost == Spec => []SlotsAccounted
  BY Invariance, InvSlotsAccounted, PTL

(* With any number of sectors: every site has exactly one owner at all     *)
(* times, and between the events of sectors lies in the box of its owner.  *)
THEOREM OwnersAtHome == Spec => []OwnedAtHome
  BY Invariance, InvOwnedAtHome, PTL

(* Every site has exactly one owner at all times, and between the events of*)
(* sectors lies in the box of its owner and in one sector of it. The       *)
(* hypothesis leaves out two sectors in two dimensions, which cover only   *)
(* the lower half of the box (app_off_lattice.cpp:823).                    *)
THEOREM EachHasOneOwner ==
    ASSUME \A L \in Layouts : L.nsector # 2
    PROVE  Spec => []OneOwner
<1>1. Inv => OneOwner
  BY InvOneOwner
<1> QED BY Invariance, <1>1, PTL
=============================================================================
