----------------------------- MODULE SiteLists -----------------------------
(***************************************************************************)
(* The lists of the sites of one process of an off-lattice application     *)
(* (app_off_lattice.cpp): slots 0 .. nlocal - 1 hold the owned sites, the  *)
(* slots above hold ghost sites or are chained in the free list, and every *)
(* site is in the doubly linked list of the spatial bin it is in.  Slots   *)
(* are shared by next: it links sites of a bin and the free list alike.    *)
(*                                                                         *)
(* A table is a record of the arrays and counters of the class; the        *)
(* operators return the table after the call.  -1 ends a list.  These do   *)
(* not need more slots than there are; those that may are in SiteTable.    *)
(***************************************************************************)
EXTENDS Integers, FiniteSets, Sequences, SequencesExt

Nil == -1
NoSite == 0             \* id in a slot never written
NoPlace == <<0, 0>>     \* position and bin in a slot never written

(* A finite set of numbers in ascending order: the jth has j up to itself. *)
Sorted(X) ==
    [j \in 1 .. Cardinality(X) |-> CHOOSE k \in X : Cardinality({i \in X : i <= k}) = j]

(* The elements of s that are in the set S, in their order.                *)
Among(s, S) ==
    LET at == Sorted({k \in DOMAIN s : s[k] \in S})
    IN  [j \in DOMAIN at |-> s[at[j]]]

-----------------------------------------------------------------------------
(* The lists of the bins.                                                  *)

(* The link to site i in the list of b goes on to the site after it.       *)
Bypassed(t, i, b) ==
    IF t.prev[i] = Nil THEN [t EXCEPT !.binhead[b] = t.next[i]]
    ELSE [t EXCEPT !.next[t.prev[i]] = t.next[i]]

(* Variant: the next site keeps its pointer to the one that left.          *)
DeleteOneWay(t, i, b) == Bypassed(t, i, b)

(* delete_from_bin()                                                       *)
DeleteFromBin(t, i, b) ==
    IF t.next[i] = Nil THEN Bypassed(t, i, b)
    ELSE [Bypassed(t, i, b) EXCEPT !.prev[t.next[i]] = t.prev[i]]

(* add_to_bin(): in front of the others.                                   *)
AddToBin(t, i, b) ==
    LET h     == t.binhead[b]
        front == [t EXCEPT !.binhead[b] = i, !.next[i] = h, !.prev[i] = Nil]
    IN  IF h = Nil THEN front ELSE [front EXCEPT !.prev[h] = i]

(* The slots met on the way from slot h by next, in order, but no more     *)
(* than one above their number when the way does not end.                  *)
Chain(t, h) ==
    LET met[n \in Nat] ==
            IF n = 0 THEN <<>>
            ELSE LET q == met[n - 1]
                     m == IF q = <<>> THEN h ELSE t.next[Last(q)]
                 IN  IF m \in 0 .. t.nmax - 1 THEN Append(q, m) ELSE q
    IN  met[t.nmax + 1]

InBin(t, b) == Chain(t, t.binhead[b])

-----------------------------------------------------------------------------
(* The free list.                                                          *)

FreeSlots(t) == Chain(t, t.freehead)

(* What a free slot holds is never read; it is blanked here so that tables *)
(* that differ in nothing else are equal.                                  *)
Blank(t, S) ==
    LET Reset(f, x) == [k \in 0 .. t.nmax - 1 |-> IF k \in S THEN x ELSE f[k]]
    IN  [t EXCEPT !.id = Reset(@, NoSite), !.xyz = Reset(@, NoPlace),
                  !.bin = Reset(@, NoPlace), !.prev = Reset(@, Nil),
                  !.nextimage = Reset(@, Nil)]

(* Variant: the ghost is still counted.                                    *)
AddToFreeUncounted(t, j) ==
    Blank([t EXCEPT !.next[j] = t.freehead, !.freehead = j, !.nfree = @ + 1], {j})

AddToFree(t, j) ==
    Blank([t EXCEPT !.next[j] = t.freehead, !.freehead = j,
                    !.nfree = @ + 1, !.nghost = @ - 1], {j})

(* delete_all_ghosts(): every slot above the owned ones is free, in order, *)
(* and the ghost bins are empty.                                           *)
DeleteAllGhosts(t, ghostbins) ==
    Blank([t EXCEPT
             !.freehead = IF t.nmax > t.nlocal THEN t.nlocal ELSE @,
             !.next = [k \in 0 .. t.nmax - 1 |->
                         IF k < t.nlocal THEN t.next[k]
                         ELSE IF k = t.nmax - 1 THEN Nil ELSE k + 1],
             !.nfree = t.nmax - t.nlocal,
             !.nghost = 0,
             !.binhead = [b \in DOMAIN t.binhead |->
                            IF b \in ghostbins THEN Nil ELSE t.binhead[b]]],
          t.nlocal .. t.nmax - 1)

-----------------------------------------------------------------------------
(* Deleting an owned site: the last one takes its slot.                    *)

(* Variant: the slot the next site was in before the call.                 *)
NextBeforeDelete(t, i) == t.next[i]

(* What delete_owned_site(i) returns: the site after i in its bin, by the  *)
(* slot it is in when the call is over.                                    *)
NextAfterDelete(t, i) == IF t.next[i] = t.nlocal - 1 THEN i ELSE t.next[i]

(* The copy of the last site to slot i.                                    *)
CopiedTo(t, i, last) ==
    [t EXCEPT !.id[i] = t.id[last], !.xyz[i] = t.xyz[last], !.bin[i] = t.bin[last],
              !.next[i] = t.next[last], !.prev[i] = t.prev[last],
              !.nextimage[i] = t.nextimage[last]]

(* The links to the site that is now in slot i, from both sides.           *)
LinkedBefore(t, i) ==
    IF t.prev[i] = Nil THEN [t EXCEPT !.binhead[t.bin[i]] = i]
    ELSE [t EXCEPT !.next[t.prev[i]] = i]

LinkedAfter(t, i) ==
    IF t.next[i] = Nil THEN t ELSE [t EXCEPT !.prev[t.next[i]] = i]

DeleteOwned(t, i) ==
    LET last == t.nlocal - 1
        here == CopiedTo(DeleteFromBin(t, i, t.bin[i]), i, last)
    IN  [LinkedAfter(LinkedBefore(here, i), i)
           EXCEPT !.next[last] = t.freehead, !.freehead = last,
                  !.nfree = @ + 1, !.nlocal = last]

-----------------------------------------------------------------------------
(* Periodic images, kept when one process runs without sectors.            *)

Images(t, i) == Chain([t EXCEPT !.next = t.nextimage], t.nextimage[i])

DeleteImages(t, i) ==
    LET Drop(u, j) == AddToFree(DeleteFromBin(u, j, t.bin[j]), j)
    IN  [FoldLeft(Drop, t, Images(t, i)) EXCEPT !.nextimage[i] = Nil]
=============================================================================
