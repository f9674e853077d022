----------------------------- MODULE SiteTable -----------------------------
(***************************************************************************)
(* The calls on the site table of SiteLists that take a slot: grow(0),     *)
(* which extends the arrays when no slot is free, and the calls that put a *)
(* new site, a ghost site or a periodic image into the first free slot.    *)
(***************************************************************************)
EXTENDS SiteLists

CONSTANT DELTA     \* number of slots by which grow(0) extends the arrays

ASSUME DeltaAssumption == DELTA \in Nat \ {0}

(* grow(0), then add_free(oldmax): the new slots are chained, in order, to *)
(* the slot below them, or are the whole list.                             *)
Grow(t) ==
    LET size == t.nmax + DELTA
        Extend(f, x) == [k \in 0 .. size - 1 |-> IF k < t.nmax THEN f[k] ELSE x]
        Linked(k) == IF k = size - 1 THEN Nil
                     ELSE IF k >= t.nmax \/ (k = t.nmax - 1 /\ t.freehead # Nil) THEN k + 1
                     ELSE t.next[k]
    IN  [t EXCEPT !.nmax = size, !.id = Extend(@, NoSite), !.xyz = Extend(@, NoPlace),
                  !.bin = Extend(@, NoPlace), !.prev = Extend(@, Nil),
                  !.nextimage = Extend(@, Nil),
                  !.next = [k \in 0 .. size - 1 |-> Linked(k)],
                  !.freehead = IF @ = Nil THEN t.nmax ELSE @,
                  !.nfree = @ + DELTA]

(* The swaps call both until n sites fit.                                  *)
GrowTo(t, n) ==
    LET grown[k \in Nat] == IF k = 0 THEN t ELSE Grow(grown[k - 1])
    IN  IF n <= t.nmax THEN t ELSE grown[(n - t.nmax + DELTA - 1) \div DELTA]

WithFreeSlot(t) == IF t.nfree = 0 THEN Grow(t) ELSE t

(* Slot off the free list, for a site of identity n at x in bin b.         *)
TakeSlot(t, n, x, b) ==
    LET u == WithFreeSlot(t)
        j == u.freehead
    IN  AddToBin([u EXCEPT !.freehead = u.next[j], !.nfree = @ - 1,
                           !.id[j] = n, !.xyz[j] = x, !.bin[j] = b], j, b)

(* new_ghost_site() and what its callers write into the slot.              *)
AddGhost(t, n, x, b) == [TakeSlot(t, n, x, b) EXCEPT !.nghost = @ + 1]

(* new_owned_site(), likewise.                                             *)
AddOwned(t, n, x, b) == [TakeSlot(t, n, x, b) EXCEPT !.nlocal = @ + 1]

(* One more image, at x in ghost bin b, of the owned site i.               *)
AddImage(t, i, x, b) ==
    LET j == WithFreeSlot(t).freehead
        u == AddGhost(t, t.id[i], x, b)
    IN  [u EXCEPT !.nextimage[j] = u.nextimage[i], !.nextimage[i] = j]
=============================================================================
