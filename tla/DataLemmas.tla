----------------------------- MODULE DataLemmas -----------------------------
(***************************************************************************)
(* Lemmas about data that proofs about several components need: sets of    *)
(* numbers, recursive functions, sums, queues, rows of sites, folds over   *)
(* sequences, and the lists of linked sites of SiteLists.  Where a proof   *)
(* would go by induction it looks for a smallest counterexample.           *)
(***************************************************************************)
EXTENDS Integers, FiniteSets, Sequences, SequencesExt, Sums, Decomposition,
        SiteLists, FiniteSetTheorems, WellFoundedInduction, TLAPS

(* Every non-empty set of natural numbers has a least element: the         *)
(* intervals 0 .. x of the members x of the set are finite sets, which     *)
(* strict inclusion orders well.                                           *)
THEOREM LeastElement ==
    ASSUME NEW T \in SUBSET Nat, T # {}
    PROVE  \E x \in T : \A y \in T : x <= y
<1> DEFINE U == {0 .. x : x \in T}
           Below == StrictSubsetOrdering(Nat)
           Fin == FiniteSubsetsOf(Nat)
<1>1. IsWellFoundedOn(Below, Fin)
  BY FS_StrictSubsetOrderingWellFounded
<1>2. U \subseteq Fin
  <2>1. SUFFICES ASSUME NEW x \in T PROVE 0 .. x \in Fin
    OBVIOUS
  <2>2. IsFiniteSet(0 .. x)
    BY FS_Interval
  <2> QED BY <2>2 DEF FiniteSubsetsOf
<1>3. U # {}
  OBVIOUS
<1>4. PICK I \in U : \A J \in U : ~ (<<J, I>> \in Below)
  <2> HIDE DEF U, Below, Fin
  <2> QED BY <1>1, <1>2, <1>3, WFMin
<1>5. PICK x \in T : I = 0 .. x
  OBVIOUS
<1>6. ASSUME NEW y \in T, ~ (x <= y) PROVE FALSE
  <2>1. 0 .. y \in U
    OBVIOUS
  <2>2. 0 .. y \subseteq 0 .. x /\ 0 .. y # 0 .. x
    BY <1>6
  <2>3. 0 .. y \in SUBSET Nat /\ 0 .. x \in SUBSET Nat
    OBVIOUS
  <2>4. <<0 .. y, I>> \in Below
    BY <1>5, <2>2, <2>3 DEF StrictSubsetOrdering
  <2> QED BY <1>4, <2>1, <2>4
<1> QED BY <1>6

-----------------------------------------------------------------------------
(* Recursive functions on the natural numbers.                             *)

(* g is the recursive function up to n.                                    *)
UpTo(g, n, base, step, X) ==
    /\ g \in [0 .. n -> X]
    /\ g[0] = base
    /\ \A k \in Nat : k < n => g[k + 1] = step[<<k, g[k]>>]

(* Any two agree as far as both go, ...                                    *)
LEMMA UpToAgree ==
    ASSUME NEW X, NEW base, NEW step,
           NEW n \in Nat, NEW g, UpTo(g, n, base, step, X),
           NEW m \in Nat, NEW h, UpTo(h, m, base, step, X),
           NEW k \in Nat, k <= n, k <= m
    PROVE  g[k] = h[k]
<1> DEFINE D == {j \in Nat : j <= n /\ j <= m /\ g[j] # h[j]}
<1>1. SUFFICES ASSUME D # {} PROVE FALSE
  OBVIOUS
<1>2. PICK j \in D : \A i \in D : j <= i
  <2>1. D \in SUBSET Nat
    OBVIOUS
  <2> HIDE DEF D
  <2> QED BY <1>1, <2>1, LeastElement
<1>3. j # 0
  BY DEF UpTo
<1>4. j - 1 \in Nat /\ j - 1 < n /\ j - 1 < m /\ (j - 1) + 1 = j
  BY <1>3
<1>5. j - 1 \notin D
  BY <1>2, <1>4
<1>6. g[j - 1] = h[j - 1]
  BY <1>4, <1>5
<1>7. g[(j - 1) + 1] = step[<<j - 1, g[j - 1]>>] /\ h[(j - 1) + 1] = step[<<j - 1, h[j - 1]>>]
  <2> HIDE DEF D
  <2> QED BY <1>4 DEF UpTo
<1>8. g[j] = h[j]
  BY <1>4, <1>6, <1>7
<1> QED BY <1>8

(* ... there is one for each n, ...                                        *)
LEMMA UpToExists ==
    ASSUME NEW X, NEW base \in X, NEW step \in [Nat \X X -> X], NEW n \in Nat
    PROVE  \E g : UpTo(g, n, base, step, X)
<1> DEFINE D == {m \in Nat : ~ \E g : UpTo(g, m, base, step, X)}
<1>1. SUFFICES ASSUME D # {} PROVE FALSE
  OBVIOUS
<1>2. PICK m \in D : \A i \in D : m <= i
  <2>1. D \in SUBSET Nat
    OBVIOUS
  <2> HIDE DEF D
  <2> QED BY <1>1, <2>1, LeastElement
<1>3. m \in Nat /\ ~ \E g : UpTo(g, m, base, step, X)
  OBVIOUS
<1>4. CASE m = 0
  <2>1. UpTo([k \in 0 .. 0 |-> base], 0, base, step, X)
    BY DEF UpTo
  <2> QED BY <1>3, <1>4, <2>1
<1>5. CASE m # 0
  <2>1. m - 1 \in Nat /\ m - 1 \notin D /\ (m - 1) + 1 = m
    BY <1>2, <1>3, <1>5
  <2>2. PICK g : UpTo(g, m - 1, base, step, X)
    BY <2>1
  <2> DEFINE h == [k \in 0 .. m |-> IF k = m THEN step[<<m - 1, g[m - 1]>>] ELSE g[k]]
  <2>3. /\ g \in [0 .. m - 1 -> X] /\ g[0] = base
        /\ \A k \in Nat : k < m - 1 => g[k + 1] = step[<<k, g[k]>>]
    <3> HIDE DEF D
    <3> QED BY <2>2 DEF UpTo
  <2>4. g[m - 1] \in X
    <3>1. m - 1 \in 0 .. m - 1
      BY <2>1
    <3> HIDE DEF D
    <3> QED BY <2>3, <3>1
  <2>5. step[<<m - 1, g[m - 1]>>] \in X
    <3>1. <<m - 1, g[m - 1]>> \in Nat \X X
      BY <2>1, <2>4
    <3> HIDE DEF D
    <3> QED BY <3>1
  <2>6. h \in [0 .. m -> X]
    <3>1. \A k \in 0 .. m : k # m => k \in 0 .. m - 1
      BY <1>3
    <3> HIDE DEF D
    <3> QED BY <2>3, <2>5, <3>1
  <2>7. h[0] = base
    BY <1>3, <1>5, <2>3
  <2>8. ASSUME NEW k \in Nat, k < m PROVE h[k + 1] = step[<<k, h[k]>>]
    <3>1. k \in 0 .. m /\ k + 1 \in 0 .. m /\ k # m /\ h[k] = g[k]
      BY <1>3, <2>8
    <3>2. CASE k = m - 1
      BY <1>3, <3>1, <3>2
    <3>3. CASE k # m - 1
      <4>1. k < m - 1 /\ k + 1 # m
        BY <1>3, <2>8, <3>3
      <4> HIDE DEF D
      <4> QED BY <2>3, <3>1, <4>1
    <3> QED BY <3>2, <3>3
  <2> HIDE DEF h, D
  <2>9. UpTo(h, m, base, step, X)
    BY <2>6, <2>7, <2>8 DEF UpTo
  <2> QED BY <1>3, <2>9
<1> QED BY <1>4, <1>5

(* ... and so a function on all of Nat is defined by its first value and   *)
(* the step from each to the next.                                         *)
Recurs(f, base, step, X) ==
    /\ f \in [Nat -> X]
    /\ f[0] = base
    /\ \A n \in Nat : f[n + 1] = step[<<n, f[n]>>]

LEMMA RecursionOnNat ==
    ASSUME NEW X, NEW base \in X, NEW step \in [Nat \X X -> X]
    PROVE  \E f : Recurs(f, base, step, X)
<1> DEFINE G(n) == CHOOSE g : UpTo(g, n, base, step, X)
           f == [n \in Nat |-> G(n)[n]]
<1>1. ASSUME NEW n \in Nat PROVE UpTo(G(n), n, base, step, X)
  BY UpToExists
<1> HIDE DEF G
<1>2. f \in [Nat -> X]
  <2>1. ASSUME NEW n \in Nat PROVE G(n)[n] \in X
    <3>1. G(n) \in [0 .. n -> X] /\ n \in 0 .. n
      BY <1>1 DEF UpTo
    <3> QED BY <3>1
  <2> QED BY <2>1
<1>3. f[0] = base
  BY <1>1 DEF UpTo
<1>4. ASSUME NEW n \in Nat PROVE f[n + 1] = step[<<n, f[n]>>]
  <2>1. n + 1 \in Nat /\ n < n + 1 /\ n <= n /\ n <= n + 1
    OBVIOUS
  <2>2. UpTo(G(n + 1), n + 1, base, step, X) /\ UpTo(G(n), n, base, step, X)
    BY <1>1, <2>1
  <2>3. G(n + 1)[n] = G(n)[n]
    BY <2>1, <2>2, UpToAgree
  <2>4. G(n + 1)[n + 1] = step[<<n, G(n + 1)[n]>>]
    BY <2>1, <2>2 DEF UpTo
  <2>5. f[n + 1] = G(n + 1)[n + 1] /\ f[n] = G(n)[n]
    BY <2>1
  <2> HIDE DEF f
  <2> QED BY <2>3, <2>4, <2>5
<1> HIDE DEF f
<1>5. Recurs(f, base, step, X)
  BY <1>2, <1>3, <1>4 DEF Recurs
<1> QED BY <1>5

-----------------------------------------------------------------------------
(* Sums.  SumOver(f, S) takes the members of S one after the other in the  *)
(* order of CHOOSE, by a recursive function on the subsets of S.  That the *)
(* function exists, and that the order does not matter, is shown by way of *)
(* smallest counterexamples.                                               *)

Chosen(S) == CHOOSE x \in S : TRUE

(* g is the recursive function of the sums of f over the subsets of S.     *)
SumTable(g, f, S) ==
    g = [T \in SUBSET S |-> IF T = {} THEN 0 ELSE f[Chosen(T)] + g[T \ {Chosen(T)}]]

LEMMA SumIs == ASSUME NEW f, NEW S PROVE SumOver(f, S) = (CHOOSE g : SumTable(g, f, S))[S]
BY DEF SumOver, MapThenSumSet, MapThenFoldSet, SumTable, Chosen

(* A non-empty set of subsets of a finite set has a smallest member.       *)
LEMMA Smallest ==
    ASSUME NEW S, IsFiniteSet(S), NEW D \in SUBSET SUBSET S, D # {}
    PROVE  \E T \in D : \A U \in D : U \subseteq T => U = T
<1> DEFINE sizes == {Cardinality(T) : T \in D}
<1>1. \A T \in D : IsFiniteSet(T) /\ Cardinality(T) \in Nat
  BY FS_Subset, FS_CardinalityType
<1>2. sizes \in SUBSET Nat /\ sizes # {}
  BY <1>1
<1>3. PICK n \in sizes : \A m \in sizes : n <= m
  <2> HIDE DEF sizes
  <2> QED BY <1>2, LeastElement
<1>4. PICK T \in D : n = Cardinality(T)
  OBVIOUS
<1>5. ASSUME NEW U \in D, U \subseteq T PROVE U = T
  <2>1. Cardinality(T) <= Cardinality(U)
    BY <1>3, <1>4
  <2>2. Cardinality(U) <= Cardinality(T) /\ (Cardinality(T) = Cardinality(U) => T = U)
    BY <1>1, <1>5, FS_Subset
  <2> QED BY <1>1, <2>1, <2>2
<1> QED BY <1>5

LEMMA ChosenIn == ASSUME NEW S, S # {} PROVE Chosen(S) \in S
BY DEF Chosen

LEMMA SumsOfSubset ==
    ASSUME NEW f, NEW S, NEW g, SumTable(g, f, S), NEW T \in SUBSET S
    PROVE  SumTable([U \in SUBSET T |-> g[U]], f, T)
<1> DEFINE h == [U \in SUBSET T |-> g[U]]
<1>1. ASSUME NEW U \in SUBSET T
      PROVE  h[U] = IF U = {} THEN 0 ELSE f[Chosen(U)] + h[U \ {Chosen(U)}]
  <2>1. U \in SUBSET S /\ U \ {Chosen(U)} \in SUBSET T
    OBVIOUS
  <2>2. g[U] = IF U = {} THEN 0 ELSE f[Chosen(U)] + g[U \ {Chosen(U)}]
    BY <2>1 DEF SumTable
  <2> QED BY <2>1, <2>2
<1>2. h = [U \in SUBSET T |-> h[U]]
  OBVIOUS
<1> HIDE DEF h
<1>3. h = [U \in SUBSET T |-> IF U = {} THEN 0 ELSE f[Chosen(U)] + h[U \ {Chosen(U)}]]
  BY <1>1, <1>2
<1> QED BY <1>3 DEF SumTable, h

LEMMA SumsAgree ==
    ASSUME NEW f, NEW S, IsFiniteSet(S), NEW g, NEW h, SumTable(g, f, S), SumTable(h, f, S)
    PROVE  \A T \in SUBSET S : g[T] = h[T]
<1> DEFINE D == {T \in SUBSET S : g[T] # h[T]}
<1>1. SUFFICES ASSUME D # {} PROVE FALSE
  OBVIOUS
<1>2. PICK T \in D : \A U \in D : U \subseteq T => U = T
  <2>1. D \in SUBSET SUBSET S
    OBVIOUS
  <2> HIDE DEF D
  <2> QED BY <1>1, <2>1, Smallest
<1> DEFINE U == T \ {Chosen(T)}
<1>3. /\ g[T] = IF T = {} THEN 0 ELSE f[Chosen(T)] + g[U]
      /\ h[T] = IF T = {} THEN 0 ELSE f[Chosen(T)] + h[U]
  BY DEF SumTable
<1>4. CASE T = {}
  BY <1>3, <1>4
<1>5. CASE T # {}
  <2>1. U \subseteq T /\ U # T
    BY <1>5, ChosenIn
  <2>2. g[U] = h[U]
    <3>1. U \notin D
      BY <1>2, <2>1
    <3> QED BY <2>1, <3>1
  <2> QED BY <1>3, <1>5, <2>2
<1> QED BY <1>4, <1>5

LEMMA SumsExist ==
    ASSUME NEW f, NEW S, IsFiniteSet(S)
    PROVE  \E g : SumTable(g, f, S)
<1> DEFINE D == {T \in SUBSET S : ~ \E g : SumTable(g, f, T)}
<1>1. SUFFICES ASSUME D # {} PROVE FALSE
  OBVIOUS
<1>2. PICK T \in D : \A U \in D : U \subseteq T => U = T
  <2>1. D \in SUBSET SUBSET S
    OBVIOUS
  <2> HIDE DEF D
  <2> QED BY <1>1, <2>1, Smallest
<1> DEFINE H(U) == CHOOSE g : SumTable(g, f, U)
           Rest(U) == U \ {Chosen(U)}
           G == [U \in SUBSET T |-> IF U = {} THEN 0 ELSE f[Chosen(U)] + H(Rest(U))[Rest(U)]]
<1>3. T \in SUBSET S /\ ~ \E g : SumTable(g, f, T)
  OBVIOUS
<1>4. ASSUME NEW U \in SUBSET T, U # T PROVE SumTable(H(U), f, U) /\ IsFiniteSet(U)
  <2>1. U \in SUBSET S
    BY <1>3
  <2>2. U \notin D
    BY <1>2, <1>4
  <2>3. \E g : SumTable(g, f, U)
    BY <2>1, <2>2
  <2>4. IsFiniteSet(U)
    BY <2>1, FS_Subset
  <2> QED BY <2>3, <2>4
<1>5. ASSUME NEW U \in SUBSET T, U # {} PROVE H(Rest(U))[Rest(U)] = G[Rest(U)]
  <2> DEFINE V == Rest(U)
             W == Rest(V)
  <2>1. V \in SUBSET T /\ V # T
    BY <1>5, ChosenIn
  <2>2. SumTable(H(V), f, V)
    BY <1>4, <2>1
  <2> HIDE DEF V
  <2>3. H(V)[V] = IF V = {} THEN 0 ELSE f[Chosen(V)] + H(V)[W]
    <3>1. V \in SUBSET V
      OBVIOUS
    <3> HIDE DEF H
    <3> QED BY <2>2, <3>1 DEF SumTable
  <2>4. G[V] = IF V = {} THEN 0 ELSE f[Chosen(V)] + H(W)[W]
    <3> HIDE DEF H
    <3> QED BY <2>1
  <2>5. ASSUME V # {} PROVE H(V)[W] = H(W)[W]
    <3>1. W \in SUBSET V /\ W \in SUBSET T /\ W # T
      BY <2>1
    <3>2. SumTable(H(W), f, W) /\ IsFiniteSet(W)
      BY <1>4, <3>1
    <3> HIDE DEF H, W
    <3>3. SumTable([X \in SUBSET W |-> H(V)[X]], f, W)
      BY <2>2, <3>1, SumsOfSubset
    <3>4. W \in SUBSET W
      OBVIOUS
    <3>5. [X \in SUBSET W |-> H(V)[X]][W] = H(W)[W]
      BY <3>2, <3>3, <3>4, SumsAgree
    <3> QED BY <3>4, <3>5
  <2>6. H(V)[V] = G[V]
    <3> HIDE DEF H, W, G
    <3> QED BY <2>3, <2>4, <2>5
  <2> QED BY <2>6 DEF V
<1>6. SumTable(G, f, T)
  <2>1. \A U \in SUBSET T : G[U] = IF U = {} THEN 0 ELSE f[Chosen(U)] + G[Rest(U)]
    <3>1. SUFFICES ASSUME NEW U \in SUBSET T
                   PROVE  G[U] = IF U = {} THEN 0 ELSE f[Chosen(U)] + G[Rest(U)]
      OBVIOUS
    <3>2. G[U] = IF U = {} THEN 0 ELSE f[Chosen(U)] + H(Rest(U))[Rest(U)]
      <4> HIDE DEF H, Rest
      <4> QED OBVIOUS
    <3>3. U # {} => H(Rest(U))[Rest(U)] = G[Rest(U)]
      BY <1>5
    <3> HIDE DEF G, H, Rest
    <3> QED BY <3>2, <3>3
  <2>2. G = [U \in SUBSET T |-> G[U]]
    OBVIOUS
  <2> HIDE DEF G
  <2>3. G = [U \in SUBSET T |-> IF U = {} THEN 0 ELSE f[Chosen(U)] + G[U \ {Chosen(U)}]]
    BY <2>1, <2>2
  <2> QED BY <2>3 DEF SumTable
<1> HIDE DEF G
<1> QED BY <1>3, <1>6

(* What SumOver computes.                                                  *)
LEMMA SumUnfolds ==
    ASSUME NEW f, NEW S, IsFiniteSet(S)
    PROVE  /\ S = {} => SumOver(f, S) = 0
           /\ S # {} => SumOver(f, S) = f[Chosen(S)] + SumOver(f, S \ {Chosen(S)})
<1> DEFINE g == CHOOSE x : SumTable(x, f, S)
           T == S \ {Chosen(S)}
           h == CHOOSE x : SumTable(x, f, T)
<1>1. SumTable(g, f, S) /\ SumOver(f, S) = g[S]
  BY SumsExist, SumIs
<1>2. IsFiniteSet(T) /\ T \in SUBSET S
  BY FS_Subset
<1>3. SumTable(h, f, T) /\ SumOver(f, T) = h[T]
  <2> HIDE DEF T
  <2> QED BY <1>2, SumsExist, SumIs
<1> HIDE DEF g, h
<1>4. g[T] = h[T]
  <2>1. SumTable([U \in SUBSET T |-> g[U]], f, T)
    <3> HIDE DEF T
    <3> QED BY <1>1, <1>2, SumsOfSubset
  <2>2. T \in SUBSET T
    OBVIOUS
  <2> HIDE DEF T
  <2>3. [U \in SUBSET T |-> g[U]][T] = h[T]
    BY <1>2, <1>3, <2>1, <2>2, SumsAgree
  <2> QED BY <2>2, <2>3
<1>5. S \in SUBSET S
  OBVIOUS
<1>6. g[S] = IF S = {} THEN 0 ELSE f[Chosen(S)] + g[T]
  BY <1>1, <1>5 DEF SumTable
<1> QED BY <1>1, <1>3, <1>4, <1>6

(* Sums of natural numbers are natural numbers.                            *)
LEMMA SumType ==
    ASSUME NEW f, NEW S, IsFiniteSet(S), \A x \in S : f[x] \in Nat
    PROVE  SumOver(f, S) \in Nat
<1> DEFINE D == {T \in SUBSET S : SumOver(f, T) \notin Nat}
<1>1. SUFFICES ASSUME D # {} PROVE FALSE
  OBVIOUS
<1>2. PICK T \in D : \A U \in D : U \subseteq T => U = T
  <2>1. D \in SUBSET SUBSET S
    OBVIOUS
  <2> HIDE DEF D
  <2> QED BY <1>1, <2>1, Smallest
<1>3. IsFiniteSet(T)
  BY FS_Subset
<1>4. T # {}
  <2>1. T = {} => SumOver(f, T) = 0
    BY <1>3, SumUnfolds
  <2>2. SumOver(f, T) \notin Nat
    OBVIOUS
  <2> QED BY <2>1, <2>2
<1>5. Chosen(T) \in T /\ SumOver(f, T) = f[Chosen(T)] + SumOver(f, T \ {Chosen(T)})
  BY <1>3, <1>4, SumUnfolds, ChosenIn
<1>6. T \ {Chosen(T)} \notin D
  BY <1>2, <1>5
<1>7. SumOver(f, T \ {Chosen(T)}) \in Nat
  BY <1>6
<1> QED BY <1>5, <1>7

(* A sum is that without x, whatever x, and the value of x.                *)
LEMMA SumWithout ==
    ASSUME NEW f, NEW S, IsFiniteSet(S), \A x \in S : f[x] \in Nat
    PROVE  \A x \in S : SumOver(f, S) = f[x] + SumOver(f, S \ {x})
<1> DEFINE Wrong(T, x) == SumOver(f, T) # f[x] + SumOver(f, T \ {x})
           D == {T \in SUBSET S : \E x \in T : Wrong(T, x)}
<1>1. SUFFICES ASSUME D # {} PROVE FALSE
  OBVIOUS
<1>2. PICK T \in D : \A U \in D : U \subseteq T => U = T
  <2>1. D \in SUBSET SUBSET S
    OBVIOUS
  <2> HIDE DEF D
  <2> QED BY <1>1, <2>1, Smallest
<1>3. PICK x \in T : Wrong(T, x)
  OBVIOUS
<1> DEFINE c == Chosen(T)
           both == (T \ {x}) \ {c}
<1>4. IsFiniteSet(T) /\ T # {} /\ T \in SUBSET S
  BY <1>3, FS_Subset
<1>5. c \in T /\ SumOver(f, T) = f[c] + SumOver(f, T \ {c})
  BY <1>4, SumUnfolds, ChosenIn
<1>6. c # x
  BY <1>3, <1>5
<1>7. ASSUME NEW U \in SUBSET T, U # T, NEW y \in U
      PROVE  SumOver(f, U) = f[y] + SumOver(f, U \ {y})
  <2>1. U \in SUBSET S /\ U \notin D
    BY <1>2, <1>4, <1>7
  <2> QED BY <2>1
<1>8. (T \ {c}) \ {x} = both /\ both \in SUBSET S
  BY <1>4
<1> HIDE DEF c
<1>9. SumOver(f, T \ {c}) = f[x] + SumOver(f, both)
  <2>1. T \ {c} # T /\ x \in T \ {c}
    BY <1>5, <1>6
  <2> QED BY <1>7, <1>8, <2>1
<1>10. SumOver(f, T \ {x}) = f[c] + SumOver(f, both)
  <2>1. T \ {x} # T /\ c \in T \ {x}
    BY <1>5, <1>6
  <2> QED BY <1>7, <2>1
<1>11. f[c] \in Nat /\ f[x] \in Nat /\ SumOver(f, both) \in Nat
  <2>1. IsFiniteSet(both) /\ \A y \in both : f[y] \in Nat
    BY <1>8, FS_Subset
  <2> HIDE DEF both
  <2> QED BY <1>4, <1>5, <2>1, SumType
<1> HIDE DEF both, D
<1>12. SumOver(f, T) = f[x] + SumOver(f, T \ {x})
  BY <1>5, <1>9, <1>10, <1>11
<1> QED BY <1>3, <1>12

(* A sum depends on the values in the set only.                            *)
LEMMA SumSame ==
    ASSUME NEW f, NEW g, NEW S, IsFiniteSet(S), \A x \in S : f[x] = g[x]
    PROVE  SumOver(f, S) = SumOver(g, S)
<1> DEFINE D == {T \in SUBSET S : SumOver(f, T) # SumOver(g, T)}
<1>1. SUFFICES ASSUME D # {} PROVE FALSE
  OBVIOUS
<1>2. PICK T \in D : \A U \in D : U \subseteq T => U = T
  <2>1. D \in SUBSET SUBSET S
    OBVIOUS
  <2> HIDE DEF D
  <2> QED BY <1>1, <2>1, Smallest
<1>3. IsFiniteSet(T)
  BY FS_Subset
<1>4. T # {}
  BY <1>3, SumUnfolds
<1>5. /\ Chosen(T) \in T
      /\ SumOver(f, T) = f[Chosen(T)] + SumOver(f, T \ {Chosen(T)})
      /\ SumOver(g, T) = g[Chosen(T)] + SumOver(g, T \ {Chosen(T)})
  BY <1>3, <1>4, SumUnfolds, ChosenIn
<1>6. T \ {Chosen(T)} \notin D
  BY <1>2, <1>5
<1> QED BY <1>5, <1>6

(* One value of the set is changed, or one outside it.                     *)
LEMMA SumChanged ==
    ASSUME NEW f, NEW S, IsFiniteSet(S), \A x \in S : f[x] \in Nat,
           NEW g, NEW n, \A x \in S \ {n} : g[x] = f[x], n \in S => g[n] \in Nat
    PROVE  /\ n \in S => SumOver(g, S) = SumOver(f, S) - f[n] + g[n]
           /\ n \notin S => SumOver(g, S) = SumOver(f, S)
           /\ SumOver(f, S) \in Nat
<1>1. CASE n \in S
  <2>1. IsFiniteSet(S \ {n})
    BY FS_Subset
  <2>2. SumOver(g, S \ {n}) = SumOver(f, S \ {n})
    BY <2>1, SumSame
  <2>3. /\ SumOver(f, S) = f[n] + SumOver(f, S \ {n})
        /\ SumOver(g, S) = g[n] + SumOver(g, S \ {n})
    BY <1>1, SumWithout
  <2>4. SumOver(f, S \ {n}) \in Nat /\ f[n] \in Nat /\ g[n] \in Nat
    BY <1>1, <2>1, SumType
  <2> QED BY <1>1, <2>2, <2>3, <2>4
<1>2. CASE n \notin S
  BY <1>2, SumSame, SumType
<1> QED BY <1>1, <1>2

(* A sum is at least each of its values, and zero if all of them are.      *)
LEMMA SumBounds ==
    ASSUME NEW f, NEW S, IsFiniteSet(S), \A x \in S : f[x] \in Nat
    PROVE  /\ SumOver(f, S) \in Nat
           /\ \A x \in S : f[x] <= SumOver(f, S)
           /\ (\A x \in S : f[x] = 0) => SumOver(f, S) = 0
<1>1. ASSUME NEW x \in S PROVE f[x] <= SumOver(f, S)
  <2>1. IsFiniteSet(S \ {x})
    BY FS_Subset
  <2>2. SumOver(f, S \ {x}) \in Nat
    BY <2>1, SumType
  <2> QED BY <2>2, SumWithout
<1>2. ASSUME \A x \in S : f[x] = 0 PROVE SumOver(f, S) = 0
  <2> DEFINE D == {T \in SUBSET S : SumOver(f, T) # 0}
  <2>2. SUFFICES ASSUME D # {} PROVE FALSE
    OBVIOUS
  <2>3. PICK T \in D : \A U \in D : U \subseteq T => U = T
    <3>1. D \in SUBSET SUBSET S
      OBVIOUS
    <3> HIDE DEF D
    <3> QED BY <2>2, <3>1, Smallest
  <2>4. IsFiniteSet(T)
    BY FS_Subset
  <2>5. T # {}
    BY <2>4, SumUnfolds
  <2>6. Chosen(T) \in T /\ SumOver(f, T) = f[Chosen(T)] + SumOver(f, T \ {Chosen(T)})
    BY <2>4, <2>5, SumUnfolds, ChosenIn
  <2>7. T \ {Chosen(T)} \notin D
    BY <2>3, <2>6
  <2> QED BY <1>2, <2>6, <2>7
<1> QED BY <1>1, <1>2, SumType

-----------------------------------------------------------------------------
(* Queues.                                                                 *)

(* A queue holds messages for the sets st[1], st[2], ...: those from lo to *)
(* below hi for which there is something to send, in their order; tr[t]    *)
(* are the sites that are sent for set t.                                  *)
Holds(queue, st, lo, hi, tr, V) ==
    /\ Len(st) = Len(queue)
    /\ \A a \in 1 .. Len(st) : /\ lo <= st[a] /\ st[a] < hi /\ tr[st[a]] # {}
                              /\ queue[a] \in [tr[st[a]] -> V]
    /\ \A a, b \in 1 .. Len(st) : a < b => st[a] < st[b]
    /\ \A t \in Nat : tr[t] # {} /\ lo <= t /\ t < hi => \E a \in 1 .. Len(st) : st[a] = t

(* A message is sent for set hi ...                                        *)
LEMMA HoldsOneMore ==
    ASSUME NEW M, NEW queue \in Seq(M), NEW st \in Seq(Nat), NEW lo \in Nat, NEW hi \in Nat,
           NEW tr, NEW V, Holds(queue, st, lo, hi, tr, V), lo <= hi, tr[hi] # {},
           NEW m \in M, m \in [tr[hi] -> V]
    PROVE  Append(st, hi) \in Seq(Nat) /\ Holds(Append(queue, m), Append(st, hi), lo, hi + 1, tr, V)
<1> DEFINE n == Len(st)
           su == Append(st, hi)
           qu == Append(queue, m)
<1>1. n \in Nat /\ Len(queue) = n /\ \A a \in 1 .. n : st[a] \in Nat
  BY DEF Holds
<1>2. su \in Seq(Nat) /\ Len(su) = n + 1 /\ su[n + 1] = hi /\ \A a \in 1 .. n : su[a] = st[a]
  OBVIOUS
<1>3. Len(qu) = n + 1 /\ qu[n + 1] = m /\ \A a \in 1 .. n : qu[a] = queue[a]
  BY <1>1
<1>4. \A a \in 1 .. n : /\ lo <= st[a] /\ st[a] < hi /\ tr[st[a]] # {}
                       /\ queue[a] \in [tr[st[a]] -> V]
  BY DEF Holds
<1>5. \A a, b \in 1 .. n : a < b => st[a] < st[b]
  BY DEF Holds
<1>6. \A t \in Nat : tr[t] # {} /\ lo <= t /\ t < hi => \E a \in 1 .. n : st[a] = t
  BY DEF Holds
<1> HIDE DEF n, su, qu
<1>7. \A a \in 1 .. n + 1 : a \in 1 .. n \/ a = n + 1
  BY <1>1
<1>8. ASSUME NEW a \in 1 .. n + 1
      PROVE  lo <= su[a] /\ su[a] < hi + 1 /\ tr[su[a]] # {} /\ qu[a] \in [tr[su[a]] -> V]
  <2>1. CASE a \in 1 .. n
    <3>1. su[a] = st[a] /\ qu[a] = queue[a] /\ st[a] \in Nat /\ st[a] < hi
      BY <1>1, <1>2, <1>3, <1>4, <2>1
    <3>2. st[a] < hi + 1
      BY <3>1
    <3> QED BY <1>4, <2>1, <3>1, <3>2
  <2>2. CASE a = n + 1
    BY <1>2, <1>3, <2>2
  <2> QED BY <1>7, <1>8, <2>1, <2>2
<1>9. ASSUME NEW a \in 1 .. n + 1, NEW b \in 1 .. n + 1, a < b PROVE su[a] < su[b]
  <2>1. a \in 1 .. n
    BY <1>1, <1>9
  <2>2. su[a] = st[a] /\ st[a] < hi
    BY <1>2, <1>4, <2>1
  <2> QED BY <1>2, <1>5, <1>7, <1>9, <2>1, <2>2
<1>10. ASSUME NEW t \in Nat, tr[t] # {}, lo <= t, t < hi + 1
       PROVE  \E a \in 1 .. n + 1 : su[a] = t
  <2>1. CASE t = hi
    BY <1>1, <1>2, <2>1
  <2>2. CASE t # hi
    <3>1. PICK a \in 1 .. n : st[a] = t
      BY <1>6, <1>10, <2>2
    <3>2. a \in 1 .. n + 1 /\ su[a] = t
      BY <1>1, <1>2, <3>1
    <3> QED BY <3>2
  <2> QED BY <2>1, <2>2
<1>11. Holds(qu, su, lo, hi + 1, tr, V)
  BY <1>2, <1>3, <1>8, <1>9, <1>10 DEF Holds
<1> QED BY <1>2, <1>11 DEF su, qu

(* ... or none, if there is nothing to send.                               *)
LEMMA HoldsNoMore ==
    ASSUME NEW queue, NEW st \in Seq(Nat), NEW lo \in Nat, NEW hi \in Nat,
           NEW tr, NEW V, Holds(queue, st, lo, hi, tr, V), tr[hi] = {}
    PROVE  Holds(queue, st, lo, hi + 1, tr, V)
<1>1. \A a \in 1 .. Len(st) : st[a] \in Nat
  OBVIOUS
<1>2. \A a \in 1 .. Len(st) : /\ lo <= st[a] /\ st[a] < hi + 1 /\ tr[st[a]] # {}
                             /\ queue[a] \in [tr[st[a]] -> V]
  BY <1>1 DEF Holds
<1>3. \A t \in Nat : t < hi + 1 => t < hi \/ t = hi
  OBVIOUS
<1>4. \A t \in Nat : tr[t] # {} /\ lo <= t /\ t < hi + 1 => \E a \in 1 .. Len(st) : st[a] = t
  BY <1>3 DEF Holds
<1> QED BY <1>2, <1>4 DEF Holds

(* The message for set lo is the oldest, and is taken ...                  *)
LEMMA HoldsOneLess ==
    ASSUME NEW M, NEW queue \in Seq(M), NEW st \in Seq(Nat), NEW lo \in Nat, NEW hi \in Nat,
           NEW tr, NEW V, Holds(queue, st, lo, hi, tr, V), queue # <<>>, tr[lo] # {}
    PROVE  /\ lo < hi /\ 1 \in 1 .. Len(st) /\ st[1] = lo
           /\ Head(queue) = queue[1] /\ queue[1] \in [tr[lo] -> V]
           /\ Tail(queue) \in Seq(M) /\ Tail(st) \in Seq(Nat)
           /\ \A a \in 1 .. Len(Tail(st)) : /\ a + 1 \in 1 .. Len(st)
                                            /\ Tail(st)[a] = st[a + 1]
                                            /\ Tail(queue)[a] = queue[a + 1]
           /\ Holds(Tail(queue), Tail(st), lo + 1, hi, tr, V)
<1> DEFINE n == Len(st)
           su == Tail(st)
           qu == Tail(queue)
<1>1. n \in Nat \ {0} /\ Len(queue) = n /\ 1 \in 1 .. n /\ \A a \in 1 .. n : st[a] \in Nat
  BY DEF Holds
<1>2. st # <<>>
  BY <1>1
<1>3. su \in Seq(Nat) /\ Len(su) = n - 1 /\ \A a \in 1 .. n - 1 : su[a] = st[a + 1]
  BY <1>2
<1>4. qu \in Seq(M) /\ Len(qu) = n - 1 /\ \A a \in 1 .. n - 1 : qu[a] = queue[a + 1]
  BY <1>1
<1>5. \A a \in 1 .. n : /\ lo <= st[a] /\ st[a] < hi /\ tr[st[a]] # {}
                       /\ queue[a] \in [tr[st[a]] -> V]
  BY DEF Holds
<1>6. \A a, b \in 1 .. n : a < b => st[a] < st[b]
  BY DEF Holds
<1>7. \A t \in Nat : tr[t] # {} /\ lo <= t /\ t < hi => \E a \in 1 .. n : st[a] = t
  BY DEF Holds
<1>8. Head(queue) = queue[1]
  OBVIOUS
<1> HIDE DEF n, su, qu
<1>9. lo < hi
  BY <1>1, <1>5
<1>10. PICK c \in 1 .. n : st[c] = lo
  BY <1>7, <1>9
<1>11. st[1] = lo
  <2>1. ASSUME c # 1 PROVE FALSE
    <3>1. 1 < c
      BY <1>1, <2>1
    <3>2. st[1] < st[c] /\ lo <= st[1] /\ st[1] \in Nat
      BY <1>1, <1>5, <1>6, <3>1
    <3> QED BY <1>10, <3>2
  <2> QED BY <1>10, <2>1
<1>12. ASSUME NEW a \in 1 .. n - 1
       PROVE  /\ a + 1 \in 1 .. n /\ st[1] < st[a + 1]
              /\ lo + 1 <= su[a] /\ su[a] < hi /\ tr[su[a]] # {}
              /\ qu[a] \in [tr[su[a]] -> V]
  <2>1. a + 1 \in 1 .. n /\ 1 < a + 1
    BY <1>1
  <2>2. su[a] = st[a + 1] /\ qu[a] = queue[a + 1]
    BY <1>3, <1>4
  <2>3. st[1] < st[a + 1] /\ st[a + 1] \in Nat
    BY <1>1, <1>6, <2>1
  <2>4. lo + 1 <= st[a + 1]
    BY <1>11, <2>3
  <2> QED BY <1>5, <2>1, <2>2, <2>3, <2>4
<1>13. ASSUME NEW a \in 1 .. n - 1, NEW b \in 1 .. n - 1, a < b PROVE su[a] < su[b]
  <2>1. a + 1 \in 1 .. n /\ b + 1 \in 1 .. n /\ a + 1 < b + 1
    BY <1>1, <1>13
  <2> QED BY <1>3, <1>6, <2>1
<1>14. ASSUME NEW t \in Nat, tr[t] # {}, lo + 1 <= t, t < hi
       PROVE  \E a \in 1 .. n - 1 : su[a] = t
  <2>0. lo <= t
    BY <1>14
  <2>1. PICK a \in 1 .. n : st[a] = t
    <3> HIDE DEF Holds
    <3> QED BY <1>7, <1>14, <2>0
  <2>2. a # 1
    BY <1>11, <1>14, <2>1
  <2>3. a - 1 \in 1 .. n - 1 /\ (a - 1) + 1 = a
    BY <1>1, <2>2
  <2> QED BY <1>3, <2>1, <2>3
<1>15. Holds(qu, su, lo + 1, hi, tr, V)
  BY <1>3, <1>4, <1>12, <1>13, <1>14 DEF Holds
<1>16. queue[1] \in [tr[lo] -> V]
  BY <1>1, <1>5, <1>11
<1> QED BY <1>1, <1>3, <1>4, <1>8, <1>9, <1>11, <1>12, <1>15, <1>16 DEF su, qu, n

(* ... or there is none.                                                   *)
LEMMA HoldsNoLess ==
    ASSUME NEW queue, NEW st \in Seq(Nat), NEW lo \in Nat, NEW hi \in Nat,
           NEW tr, NEW V, Holds(queue, st, lo, hi, tr, V), tr[lo] = {}
    PROVE  Holds(queue, st, lo + 1, hi, tr, V)
<1>1. ASSUME NEW a \in 1 .. Len(st)
      PROVE  /\ lo + 1 <= st[a] /\ st[a] < hi /\ tr[st[a]] # {}
             /\ queue[a] \in [tr[st[a]] -> V]
  <2>1. /\ lo <= st[a] /\ st[a] < hi /\ tr[st[a]] # {}
        /\ queue[a] \in [tr[st[a]] -> V]
    BY DEF Holds
  <2>3. st[a] \in Nat
    OBVIOUS
  <2>2. st[a] # lo
    BY <2>1
  <2> QED BY <2>1, <2>2, <2>3
<1>2. \A t \in Nat : lo + 1 <= t => lo <= t
  OBVIOUS
<1>3. \A t \in Nat : tr[t] # {} /\ lo + 1 <= t /\ t < hi => \E a \in 1 .. Len(st) : st[a] = t
  BY <1>2 DEF Holds
<1> QED BY <1>1, <1>3 DEF Holds

-----------------------------------------------------------------------------
(* How sites are dealt out (Decomposition).                                *)

LEMMA Division ==
    ASSUME NEW a \in Nat, NEW n \in Nat \ {0}
    PROVE  /\ a \div n \in Nat
           /\ n * (a \div n) <= a /\ a < n * (a \div n) + n
OBVIOUS

(* An interval in which an integer has just one multiple of n below.       *)
LEMMA ColumnOf ==
    ASSUME NEW n \in Nat \ {0}, NEW m \in Nat \ {0}, NEW x \in 0 .. n - 1
    PROVE  /\ x * m \in Nat
           /\ Column(x, n, m) \in 0 .. m - 1
           /\ n * Column(x, n, m) <= x * m
           /\ x * m < n * Column(x, n, m) + n
           /\ Half(x, n, m) \in {0, 1}
<1>1. x * m \in Nat
  OBVIOUS
<1>2. /\ Column(x, n, m) \in Nat
      /\ n * Column(x, n, m) <= x * m
      /\ x * m < n * Column(x, n, m) + n
  BY <1>1, Division DEF Column
<1>3. x * m < n * m
  OBVIOUS
<1>4. \A c \in Nat : n * c < n * m => c < m
  OBVIOUS
<1>5. n * Column(x, n, m) < n * m
  <2> DEFINE a == n * Column(x, n, m)
  <2>1. a \in Nat /\ n * m \in Nat
    BY <1>2
  <2> HIDE DEF a
  <2> QED BY <1>1, <1>2, <1>3, <2>1 DEF a
<1>6. Column(x, n, m) < m
  BY <1>2, <1>4, <1>5
<1> QED BY <1>1, <1>2, <1>6 DEF Half

(* Beside is symmetric, and stays on the line.                             *)
LEMMA BesideOf ==
    ASSUME NEW n \in Nat \ {0}, NEW x \in 0 .. n - 1
    PROVE  /\ Beside(x, n) \subseteq 0 .. n - 1
           /\ \A y \in Beside(x, n) : x \in Beside(y, n)
           /\ \A y \in Beside(x, n) :
                y = x + 1 \/ x = y + 1 \/ (x = n - 1 /\ y = 0) \/ (y = n - 1 /\ x = 0)
           /\ n % 2 = 0 => \A y \in Beside(x, n) : y % 2 # x % 2
<1>1. \A z \in 0 .. n - 1 : /\ (z + 1) % n = IF z = n - 1 THEN 0 ELSE z + 1
                            /\ (z + n - 1) % n = IF z = 0 THEN n - 1 ELSE z - 1
  OBVIOUS
<1>2. \A z \in 0 .. n - 1 :
        Beside(z, n) = {IF z = n - 1 THEN 0 ELSE z + 1, IF z = 0 THEN n - 1 ELSE z - 1} \ {z}
  BY <1>1 DEF Beside
<1>3. Beside(x, n) \subseteq 0 .. n - 1
  BY <1>2
<1>4. ASSUME NEW y \in Beside(x, n) PROVE x \in Beside(y, n)
  BY <1>2, <1>3, <1>4
<1>5. ASSUME NEW y \in Beside(x, n)
      PROVE  y = x + 1 \/ x = y + 1 \/ (x = n - 1 /\ y = 0) \/ (y = n - 1 /\ x = 0)
  <2>1. y = (IF x = n - 1 THEN 0 ELSE x + 1) \/ y = (IF x = 0 THEN n - 1 ELSE x - 1)
    BY <1>2, <1>5
  <2> QED BY <2>1
<1>6. ASSUME n % 2 = 0, NEW y \in Beside(x, n) PROVE y % 2 # x % 2
  <2>1. y \in 0 .. n - 1
    BY <1>3, <1>6
  <2> QED BY <1>5, <1>6, <2>1
<1>7. n % 2 = 0 => \A y \in Beside(x, n) : y % 2 # x % 2
  BY <1>6
<1> QED BY <1>3, <1>4, <1>5, <1>7, Zenon

-----------------------------------------------------------------------------
(* What holds for 0 and for each number from that for the one before.      *)
LEMMA UpTo_n ==
    ASSUME NEW n \in Nat, NEW D, 0 \in D, \A k \in 1 .. n : k - 1 \in D => k \in D
    PROVE  n \in D /\ \A k \in 0 .. n : k \in D
<1> DEFINE T == {k \in 0 .. n : k \notin D}
<1>1. SUFFICES ASSUME T # {} PROVE FALSE
  <2>1. n \in 0 .. n
    OBVIOUS
  <2> QED BY <2>1
<1>2. PICK k \in T : \A j \in T : k <= j
  <2>1. T \in SUBSET Nat
    OBVIOUS
  <2> HIDE DEF T
  <2> QED BY <1>1, <2>1, LeastElement
<1>3. k # 0 /\ k \in 0 .. n
  OBVIOUS
<1>4. k - 1 \in 0 .. n /\ k - 1 \notin T
  BY <1>2, <1>3
<1> QED BY <1>3, <1>4

(* A member of a set of integers that bounds the others is its largest.    *)
LEMMA MaxUpTo ==
    ASSUME NEW T, NEW n \in T, \A k \in T : k \in Int /\ k <= n
    PROVE  Max(T) = n
<1>1. n \in Int
  OBVIOUS
<1>2. \A x \in T : (\A y \in T : x >= y) => x = n
  BY <1>1
<1>3. \A y \in T : n >= y
  BY <1>1
<1> QED BY <1>2, <1>3 DEF Max

(* A nonempty set of positions has a largest one.                          *)
LEMMA MaxOf ==
    ASSUME NEW n \in Nat, NEW T \in SUBSET (1 .. n), T # {}
    PROVE  Max(T) \in T /\ \A k \in T : k <= Max(T)
<1> DEFINE U == {n - k : k \in T}
<1>1. U \in SUBSET Nat /\ U # {}
  <2>1. \A k \in T : k \in Int /\ k <= n
    OBVIOUS
  <2>2. \A k \in T : n - k \in Nat
    BY <2>1
  <2> QED BY <2>2
<1>2. PICK d \in U : \A e \in U : d <= e
  <2> HIDE DEF U
  <2> QED BY <1>1, LeastElement
<1>3. PICK k \in T : d = n - k
  OBVIOUS
<1>4. \A j \in T : j \in Int /\ j <= k
  <2>1. \A j \in T : j \in Int /\ n - j \in U
    OBVIOUS
  <2> HIDE DEF U
  <2> QED BY <1>2, <1>3, <2>1
<1>5. Max(T) = k
  <2> HIDE DEF U
  <2> QED BY <1>3, <1>4, MaxUpTo, Zenon
<1> QED BY <1>4, <1>5

(* FoldLeft is a recursive function on the subsets of the domain.  When    *)
(* the step leads from V[T] to the value's set for one element more, there *)
(* is such a function and all its values are in V.                         *)
FoldsTo(g, base, n, step) ==
    g = [T \in SUBSET (1 .. n) |->
            IF T = {} THEN base ELSE step[<<T, g[T \ {Max(T)}]>>]]

(* A fold over the positions 1 .. n exists as a table over their subsets,  *)
(* each value in the set V[T] that the steps preserve.                     *)
LEMMA FoldTable ==
    ASSUME NEW n \in Nat, NEW V, NEW base \in V[{}], NEW step,
           \A T \in SUBSET (1 .. n) : T # {} =>
              \A u \in V[T \ {Max(T)}] : step[<<T, u>>] \in V[T]
    PROVE  \E g : FoldsTo(g, base, n, step) /\ \A T \in SUBSET (1 .. n) : g[T] \in V[T]
<1> DEFINE Good(g, k) ==
             \A T \in SUBSET (1 .. k) :
                /\ g[T] \in V[T]
                /\ g[T] = IF T = {} THEN base ELSE step[<<T, g[T \ {Max(T)}]>>]
           D == {k \in 0 .. n : \E g : Good(g, k)}
<1>1. 0 \in D
  <2> DEFINE g == [T \in SUBSET (1 .. 0) |-> base]
  <2>1. \A T \in SUBSET (1 .. 0) : T = {}
    OBVIOUS
  <2>2. g[{}] = base
    OBVIOUS
  <2>3. Good(g, 0)
    <3> HIDE DEF g
    <3> QED BY <2>1, <2>2, Zenon
  <2> HIDE DEF g, Good
  <2> QED BY <2>3
<1>2. ASSUME NEW k \in 1 .. n, k - 1 \in D PROVE k \in D
  <2>1. PICK f : Good(f, k - 1)
    BY <1>2
  <2> DEFINE g == [T \in SUBSET (1 .. k) |->
                     IF k \in T THEN step[<<T, f[T \ {k}]>>] ELSE f[T]]
  <2>2. ASSUME NEW T \in SUBSET (1 .. k)
        PROVE  /\ T \in SUBSET (1 .. n)
               /\ k \in T => T \ {k} \in SUBSET (1 .. (k - 1)) /\ Max(T) = k
               /\ k \notin T => T \in SUBSET (1 .. (k - 1))
    <3>1. \A j \in T : j \in Int /\ j <= k
      OBVIOUS
    <3>2. k \in T => Max(T) = k
      BY <3>1, MaxUpTo
    <3>3. k \in T => T \ {k} \in SUBSET (1 .. (k - 1))
      BY <3>1
    <3>4. k \notin T => T \in SUBSET (1 .. (k - 1))
      BY <3>1
    <3>5. T \in SUBSET (1 .. n)
      OBVIOUS
    <3> QED BY <3>2, <3>3, <3>4, <3>5
  <2>3. ASSUME NEW T \in SUBSET (1 .. k)
        PROVE  /\ g[T] \in V[T]
               /\ g[T] = IF T = {} THEN base ELSE step[<<T, g[T \ {Max(T)}]>>]
    <3>1. CASE k \in T
      <4>1. g[T \ {k}] = f[T \ {k}]
        OBVIOUS
      <4>2. g[T] = step[<<T, f[T \ {k}]>>]
        BY <3>1
      <4>3. f[T \ {k}] \in V[T \ {k}]
        BY <2>1, <2>2, <3>1
      <4> HIDE DEF g
      <4> QED BY <2>2, <3>1, <4>1, <4>2, <4>3
    <3>2. CASE k \notin T
      <4>1. g[T] = f[T] /\ g[T \ {Max(T)}] = f[T \ {Max(T)}]
        BY <3>2
      <4>2. f[T] \in V[T] /\ f[T] = IF T = {} THEN base ELSE step[<<T, f[T \ {Max(T)}]>>]
        BY <2>1, <2>2, <3>2
      <4> HIDE DEF g
      <4> QED BY <4>1, <4>2
    <3> QED BY <3>1, <3>2
  <2>4. Good(g, k)
    <3> HIDE DEF g
    <3> QED BY <2>3
  <2> HIDE DEF g, Good
  <2> QED BY <2>4
<1>3. n \in D
  <2> HIDE DEF D
  <2> QED BY <1>1, <1>2, UpTo_n
<1>4. PICK f : Good(f, n)
  BY <1>3
<1> DEFINE g == [T \in SUBSET (1 .. n) |-> f[T]]
<1>5. ASSUME NEW T \in SUBSET (1 .. n)
      PROVE  /\ g[T] \in V[T]
             /\ g[T] = IF T = {} THEN base ELSE step[<<T, g[T \ {Max(T)}]>>]
  <2>1. T \ {Max(T)} \in SUBSET (1 .. n)
    OBVIOUS
  <2>2. g[T] = f[T] /\ g[T \ {Max(T)}] = f[T \ {Max(T)}]
    BY <2>1
  <2> HIDE DEF g
  <2> QED BY <1>4, <2>2
<1>6. g = [T \in SUBSET (1 .. n) |-> g[T]]
  OBVIOUS
<1> HIDE DEF g
<1>7. FoldsTo(g, base, n, step)
  BY <1>5, <1>6 DEF FoldsTo
<1> QED BY <1>5, <1>7

(* Every function that is computed by the same steps has its values there. *)
LEMMA FoldValues ==
    ASSUME NEW n \in Nat, NEW V, NEW G,
           \A T \in SUBSET (1 .. n) :
              (T # {} => G[T \ {Max(T)}] \in V[T \ {Max(T)}]) => G[T] \in V[T]
    PROVE  G[1 .. n] \in V[1 .. n]
<1> DEFINE D == {k \in 0 .. n : G[1 .. k] \in V[1 .. k]}
<1>1. 0 \in D
  <2>1. 1 .. 0 = {}
    OBVIOUS
  <2>2. G[{}] \in V[{}]
    OBVIOUS
  <2> QED BY <2>1, <2>2
<1>2. ASSUME NEW k \in 1 .. n, k - 1 \in D PROVE k \in D
  <2> DEFINE T == 1 .. k
  <2>1. k \in T /\ \A j \in T : j \in Int /\ j <= k
    OBVIOUS
  <2>2. Max(T) = k
    <3> HIDE DEF T
    <3> QED BY <2>1, MaxUpTo
  <2>3. T \in SUBSET (1 .. n) /\ T \ {k} = 1 .. (k - 1)
    OBVIOUS
  <2>4. G[T \ {k}] \in V[T \ {k}]
    BY <1>2, <2>3
  <2>5. G[T] \in V[T]
    <3> HIDE DEF T
    <3> QED BY <2>2, <2>3, <2>4
  <2> QED BY <2>5
<1>3. n \in D
  <2> HIDE DEF D
  <2> QED BY <1>1, <1>2, UpTo_n
<1> QED BY <1>3

(* The same for a recursive function on the natural numbers.               *)
StepsTo(f, base, step) ==
    f = [n \in Nat |-> IF n = 0 THEN base ELSE step[<<n - 1, f[n - 1]>>]]

(* The values after 0, 1, 2 .. steps exist as a table, each in V[n].       *)
LEMMA StepsTable ==
    ASSUME NEW V, NEW base \in V[0], NEW step,
           \A n \in Nat : \A u \in V[n] : step[<<n, u>>] \in V[n + 1]
    PROVE  \E f : StepsTo(f, base, step) /\ \A n \in Nat : f[n] \in V[n]
<1> DEFINE X == UNION {V[n] : n \in Nat}
           go == [c \in Nat \X X |-> IF c[2] \in V[c[1]] THEN step[c] ELSE base]
<1>1. base \in X /\ \A n \in Nat : V[n] \subseteq X
  OBVIOUS
<1>2. go \in [Nat \X X -> X]
  <2>1. ASSUME NEW c \in Nat \X X PROVE (IF c[2] \in V[c[1]] THEN step[c] ELSE base) \in X
    <3>1. c = <<c[1], c[2]>> /\ c[1] \in Nat /\ c[1] + 1 \in Nat
      OBVIOUS
    <3>2. c[2] \in V[c[1]] => step[c] \in V[c[1] + 1]
      BY <3>1
    <3> HIDE DEF X
    <3> QED BY <1>1, <3>1, <3>2
  <2> HIDE DEF X
  <2> QED BY <2>1
<1>3. PICK f : Recurs(f, base, go, X)
  <2> HIDE DEF X, go
  <2> QED BY <1>1, <1>2, RecursionOnNat
<1>4. \A n \in Nat : f[n] \in V[n] => f[n + 1] = step[<<n, f[n]>>]
  <2>1. SUFFICES ASSUME NEW n \in Nat, f[n] \in V[n] PROVE f[n + 1] = step[<<n, f[n]>>]
    OBVIOUS
  <2>2. f[n + 1] = go[<<n, f[n]>>] /\ f[n] \in X
    <3> HIDE DEF go
    <3> QED BY <1>3 DEF Recurs
  <2> HIDE DEF X
  <2> QED BY <2>1, <2>2
<1> HIDE DEF X, go
<1>5. \A n \in Nat : f[n] \in V[n]
  <2>1. SUFFICES ASSUME NEW n \in Nat PROVE f[n] \in V[n]
    OBVIOUS
  <2> DEFINE D == {k \in 0 .. n : f[k] \in V[k]}
  <2>2. 0 \in D
    BY <1>3 DEF Recurs
  <2>3. ASSUME NEW k \in 1 .. n, k - 1 \in D PROVE k \in D
    <3>1. k - 1 \in Nat /\ (k - 1) + 1 = k
      OBVIOUS
    <3>2. f[k - 1] \in V[k - 1]
      BY <2>3
    <3>3. step[<<k - 1, f[k - 1]>>] \in V[k]
      BY <3>1, <3>2
    <3>4. f[k] = step[<<k - 1, f[k - 1]>>]
      <4>1. f[(k - 1) + 1] = step[<<k - 1, f[k - 1]>>]
        BY <1>4, <3>1, <3>2, Zenon
      <4> QED BY <3>1, <4>1
    <3> QED BY <3>3, <3>4
  <2>4. n \in D
    <3> HIDE DEF D
    <3> QED BY <2>2, <2>3, UpTo_n
  <2> QED BY <2>4
<1>6. ASSUME NEW n \in Nat
      PROVE  f[n] = IF n = 0 THEN base ELSE step[<<n - 1, f[n - 1]>>]
  <2>1. CASE n = 0
    BY <1>3, <2>1 DEF Recurs
  <2>2. CASE n # 0
    <3>1. n - 1 \in Nat /\ (n - 1) + 1 = n
      BY <2>2
    <3>2. f[(n - 1) + 1] = step[<<n - 1, f[n - 1]>>]
      BY <1>4, <1>5, <3>1, Zenon
    <3> QED BY <2>2, <3>1, <3>2
  <2> QED BY <2>1, <2>2
<1>7. DOMAIN f = Nat /\ f = [n \in Nat |-> f[n]]
  BY <1>3 DEF Recurs
<1> QED BY <1>5, <1>6, <1>7 DEF StepsTo

(* What every step preserves holds after n steps.                          *)
LEMMA StepsValues ==
    ASSUME NEW V, NEW f, NEW n \in Nat, f[0] \in V[0],
           \A k \in Nat : f[k] \in V[k] => f[k + 1] \in V[k + 1]
    PROVE  f[n] \in V[n]
<1> DEFINE D == {k \in 0 .. n : f[k] \in V[k]}
<1>1. 0 \in D
  OBVIOUS
<1>2. ASSUME NEW k \in 1 .. n, k - 1 \in D PROVE k \in D
  <2>1. k - 1 \in Nat /\ (k - 1) + 1 = k
    OBVIOUS
  <2> QED BY <1>2, <2>1
<1>3. n \in D
  <2> HIDE DEF D
  <2> QED BY <1>1, <1>2, UpTo_n
<1> QED BY <1>3

Distinct(q) == \A i, j \in 1 .. Len(q) : q[i] = q[j] => i = j
Elements(q) == {q[i] : i \in 1 .. Len(q)}

(* The elements of two sequences put behind each other.                    *)
LEMMA ConcatIs ==
    ASSUME NEW E, NEW q \in Seq(E), NEW r \in Seq(E)
    PROVE  /\ q \o r \in Seq(E)
           /\ Elements(q \o r) = Elements(q) \cup Elements(r)
           /\ Distinct(q) /\ Distinct(r) /\ Elements(q) \cap Elements(r) = {}
                => Distinct(q \o r)
<1> DEFINE w == q \o r
           m == Len(q)
           l == Len(r)
<1>1. /\ w \in Seq(E) /\ Len(w) = m + l /\ m \in Nat /\ l \in Nat
      /\ \A i \in 1 .. m : w[i] = q[i]
      /\ \A i \in 1 .. l : w[m + i] = r[i]
  OBVIOUS
<1> HIDE DEF w
<1>2. /\ Elements(q) = {q[i] : i \in 1 .. m} /\ Elements(r) = {r[i] : i \in 1 .. l}
      /\ Elements(w) = {w[i] : i \in 1 .. m + l}
  BY <1>1 DEF Elements
<1>3. /\ Distinct(q) <=> \A i, j \in 1 .. m : q[i] = q[j] => i = j
      /\ Distinct(r) <=> \A i, j \in 1 .. l : r[i] = r[j] => i = j
      /\ Distinct(w) <=> \A i, j \in 1 .. m + l : w[i] = w[j] => i = j
  BY <1>1 DEF Distinct
<1> HIDE DEF m, l
<1>4. \A i \in 1 .. m + l : i \in 1 .. m \/ (i - m \in 1 .. l /\ m + (i - m) = i)
  BY <1>1
<1>5. /\ \A i \in 1 .. m : i \in 1 .. m + l
      /\ \A i \in 1 .. l : m + i \in 1 .. m + l
  BY <1>1
<1>6. ASSUME NEW i \in 1 .. m + l
      PROVE  \/ i \in 1 .. m /\ w[i] = q[i]
             \/ i - m \in 1 .. l /\ i \notin 1 .. m /\ w[i] = r[i - m]
  <2>1. CASE i \in 1 .. m
    BY <1>1, <2>1
  <2>2. CASE i \notin 1 .. m
    <3>1. i - m \in 1 .. l /\ m + (i - m) = i
      BY <1>4, <2>2
    <3>2. w[m + (i - m)] = r[i - m]
      BY <1>1, <3>1
    <3> QED BY <2>2, <3>1, <3>2
  <2> QED BY <2>1, <2>2
<1>7. Elements(w) = Elements(q) \cup Elements(r)
  <2>1. Elements(w) \subseteq Elements(q) \cup Elements(r)
    BY <1>2, <1>6
  <2>2. \A i \in 1 .. m : q[i] \in Elements(w)
    BY <1>1, <1>2, <1>5
  <2>3. \A i \in 1 .. l : r[i] \in Elements(w)
    BY <1>1, <1>2, <1>5
  <2> QED BY <1>2, <2>1, <2>2, <2>3
<1>8. ASSUME Distinct(q), Distinct(r), Elements(q) \cap Elements(r) = {}
      PROVE  Distinct(w)
  <2>1. \A i \in 1 .. m, j \in 1 .. l : q[i] # r[j]
    BY <1>2, <1>8
  <2>2. SUFFICES ASSUME NEW i \in 1 .. m + l, NEW j \in 1 .. m + l, w[i] = w[j]
                 PROVE  i = j
    BY <1>3
  <2>3. \/ i \in 1 .. m /\ w[i] = q[i]
        \/ i - m \in 1 .. l /\ i \notin 1 .. m /\ w[i] = r[i - m]
    BY <1>6
  <2>4. \/ j \in 1 .. m /\ w[j] = q[j]
        \/ j - m \in 1 .. l /\ j \notin 1 .. m /\ w[j] = r[j - m]
    BY <1>6
  <2>5. CASE i \in 1 .. m /\ j \in 1 .. m
    BY <1>3, <1>8, <2>2, <2>3, <2>4, <2>5
  <2>6. CASE ~(i \in 1 .. m) /\ ~(j \in 1 .. m)
    <3>1. i - m = j - m
      BY <1>3, <1>8, <2>2, <2>3, <2>4, <2>6
    <3> QED BY <1>1, <3>1
  <2>7. CASE ~((i \in 1 .. m) <=> (j \in 1 .. m))
    BY <2>1, <2>2, <2>3, <2>4, <2>7
  <2> QED BY <2>5, <2>6, <2>7
<1> QED BY <1>1, <1>7, <1>8 DEF w

(* FlattenSeq puts sequences behind each other.                            *)
SlotsApart(ss) ==
    /\ \A k \in 1 .. Len(ss) : Distinct(ss[k])
    /\ \A j, k \in 1 .. Len(ss) : j # k => Elements(ss[j]) \cap Elements(ss[k]) = {}

(* FlattenSeq has the elements of its sequences, each once when they are   *)
(* apart.                                                                  *)
LEMMA FlattenIs ==
    ASSUME NEW E, NEW ss \in Seq(Seq(E))
    PROVE  /\ FlattenSeq(ss) \in Seq(E)
           /\ Elements(FlattenSeq(ss)) = UNION {Elements(ss[k]) : k \in 1 .. Len(ss)}
           /\ SlotsApart(ss) => Distinct(FlattenSeq(ss))
<1> DEFINE n == Len(ss)
           Eq(f) == f = [i \in 1 .. n |-> IF i = 1 THEN ss[i] ELSE f[i - 1] \o ss[i]]
           F == CHOOSE f : Eq(f)
           Upto(k) == UNION {Elements(ss[i]) : i \in 1 .. k}
           Fine(q, k) == /\ q \in Seq(E) /\ Elements(q) = Upto(k)
                         /\ SlotsApart(ss) => Distinct(q)
<1>1. n \in Nat /\ \A k \in 1 .. n : ss[k] \in Seq(E)
  OBVIOUS
<1>a. SlotsApart(ss) => /\ \A k \in 1 .. n : Distinct(ss[k])
                   /\ \A j, k \in 1 .. n : j # k => Elements(ss[j]) \cap Elements(ss[k]) = {}
  BY DEF SlotsApart
<1>2. CASE n = 0
  <2>1. FlattenSeq(ss) = ss /\ ss = <<>>
    BY <1>2 DEF FlattenSeq
  <2>2. <<>> \in Seq(E) /\ Elements(<<>>) = {} /\ Distinct(<<>>)
    BY DEF Elements, Distinct
  <2>3. UNION {Elements(ss[k]) : k \in 1 .. Len(ss)} = {}
    BY <1>2
  <2> QED BY <2>1, <2>2, <2>3
<1>3. CASE n # 0
  <2>1. FlattenSeq(ss) = F[n]
    BY <1>3 DEF FlattenSeq
  <2> DEFINE V == [k \in Nat |-> {q \in Seq(E) : k + 1 <= n => Fine(q, k + 1)}]
             step == [c \in Nat \X Seq(E) |->
                        IF c[1] + 2 <= n THEN c[2] \o ss[c[1] + 2] ELSE c[2]]
  <2>2. ASSUME NEW k \in 2 .. n, NEW q \in Seq(E), Fine(q, k - 1)
        PROVE  q \o ss[k] \in Seq(E) /\ Fine(q \o ss[k], k)
    <3>1. k \in 1 .. n /\ ss[k] \in Seq(E)
      BY <1>1
    <3>2. Upto(k) = Upto(k - 1) \cup Elements(ss[k])
      <4>1. \A i \in 1 .. k : i \in 1 .. (k - 1) \/ i = k
        BY <3>1
      <4>2. \A i \in 1 .. (k - 1) : i \in 1 .. k
        BY <3>1
      <4>3. k \in 1 .. k
        BY <3>1
      <4>4. Upto(k - 1) \subseteq Upto(k)
        BY <4>2
      <4>5. Elements(ss[k]) \subseteq Upto(k)
        BY <4>3
      <4>6. Upto(k) \subseteq Upto(k - 1) \cup Elements(ss[k])
        BY <4>1
      <4> HIDE DEF Upto
      <4> QED BY <4>4, <4>5, <4>6
    <3>3. SlotsApart(ss) => Upto(k - 1) \cap Elements(ss[k]) = {}
      <4>1. \A i \in 1 .. (k - 1) : i \in 1 .. n /\ i # k
        BY <3>1
      <4>2. SlotsApart(ss) => \A i \in 1 .. (k - 1) : Elements(ss[i]) \cap Elements(ss[k]) = {}
        BY <1>a, <3>1, <4>1
      <4> QED BY <4>2
    <3> HIDE DEF Upto, n
    <3>4. q \o ss[k] \in Seq(E) /\ Elements(q \o ss[k]) = Elements(q) \cup Elements(ss[k])
      BY <3>1, ConcatIs
    <3>5. SlotsApart(ss) => Distinct(q) /\ Distinct(ss[k]) /\ Elements(q) \cap Elements(ss[k]) = {}
      BY <1>a, <2>2, <3>1, <3>3
    <3>6. SlotsApart(ss) => Distinct(q \o ss[k])
      BY <3>1, <3>5, ConcatIs
    <3> QED BY <2>2, <3>2, <3>4, <3>6
  <2>3. ss[1] \in Seq(E) /\ Fine(ss[1], 1)
    <3>1. 1 \in 1 .. n /\ ss[1] \in Seq(E)
      BY <1>1, <1>3
    <3>2. Upto(1) = Elements(ss[1])
      <4>1. \A i \in 1 .. 1 : i = 1
        OBVIOUS
      <4>2. 1 \in 1 .. 1
        OBVIOUS
      <4> QED BY <4>1, <4>2
    <3> HIDE DEF Upto, n
    <3> QED BY <1>a, <3>1, <3>2
  <2> HIDE DEF Fine
  <2>4. \A k \in Nat : \A q \in V[k] : step[<<k, q>>] \in V[k + 1]
    <3>1. SUFFICES ASSUME NEW k \in Nat, NEW q \in V[k] PROVE step[<<k, q>>] \in V[k + 1]
      OBVIOUS
    <3>2. q \in Seq(E) /\ (k + 1 <= n => Fine(q, k + 1))
      OBVIOUS
    <3>3. step[<<k, q>>] = IF k + 2 <= n THEN q \o ss[k + 2] ELSE q
      BY <3>2
    <3>4. k + 1 \in Nat /\ (k + 1) + 1 = k + 2 /\ (k + 2) - 1 = k + 1
          /\ (k + 2 <= n => k + 2 \in 2 .. n /\ k + 1 <= n)
      BY <1>1
    <3> HIDE DEF step, n
    <3>5. CASE k + 2 <= n
      <4>1. q \o ss[k + 2] \in Seq(E) /\ Fine(q \o ss[k + 2], k + 2)
        <5>1. k + 2 \in 2 .. n /\ Fine(q, (k + 2) - 1)
          BY <3>2, <3>4, <3>5
        <5> QED BY <2>2, <3>2, <5>1
      <4> QED BY <3>3, <3>4, <3>5, <4>1
    <3>6. CASE ~(k + 2 <= n)
      BY <3>2, <3>3, <3>4, <3>6
    <3> QED BY <3>5, <3>6
  <2>5. ss[1] \in V[0]
    BY <2>3
  <2>6. PICK h : /\ h = [k \in Nat |-> IF k = 0 THEN ss[1] ELSE step[<<k - 1, h[k - 1]>>]]
                 /\ \A k \in Nat : h[k] \in V[k]
    <3>1. \E f : StepsTo(f, ss[1], step) /\ \A k \in Nat : f[k] \in V[k]
      <4> HIDE DEF V, step
      <4> QED BY <2>4, <2>5, StepsTable, Zenon
    <3> HIDE DEF V, step
    <3> QED BY <3>1 DEF StepsTo
  <2> DEFINE f == [i \in 1 .. n |-> h[i - 1]]
  <2>7. ASSUME NEW i \in 1 .. n PROVE f[i] = IF i = 1 THEN ss[i] ELSE f[i - 1] \o ss[i]
    <3>1. CASE i = 1
      BY <2>6, <3>1
    <3>2. CASE i # 1
      <4>1. /\ i - 1 \in Nat /\ i - 1 # 0 /\ (i - 1) - 1 = i - 2 /\ i - 2 \in Nat
            /\ i - 1 \in 1 .. n /\ (i - 2) + 2 = i /\ i <= n
        BY <1>1, <3>2
      <4>2. h[i - 1] = step[<<i - 2, h[i - 2]>>]
        <5> HIDE DEF step, V
        <5> QED BY <2>6, <4>1
      <4>3. h[i - 2] \in Seq(E)
        BY <2>6, <4>1
      <4>4. step[<<i - 2, h[i - 2]>>] = h[i - 2] \o ss[i]
        BY <4>1, <4>3
      <4>5. f[i] = h[i - 1] /\ f[i - 1] = h[i - 2]
        BY <4>1
      <4> HIDE DEF f, step
      <4> QED BY <3>2, <4>2, <4>4, <4>5
    <3> QED BY <3>1, <3>2
  <2>8. Eq(f)
    <3>1. f = [i \in 1 .. n |-> f[i]]
      OBVIOUS
    <3> HIDE DEF f, n
    <3> QED BY <2>7, <3>1
  <2>9. Eq(F)
    <3> HIDE DEF f, Eq
    <3> QED BY <2>8
  <2> HIDE DEF F, f
  <2> DEFINE D == {k \in 0 .. n : k # 0 => F[k] \in Seq(E) /\ Fine(F[k], k)}
  <2>10. 0 \in D
    BY <1>1
  <2>11. ASSUME NEW k \in 1 .. n, k - 1 \in D PROVE k \in D
    <3>1. F[k] = IF k = 1 THEN ss[k] ELSE F[k - 1] \o ss[k]
      BY <2>9
    <3>2. CASE k = 1
      BY <2>3, <3>1, <3>2
    <3>3. CASE k # 1
      <4>1. k \in 2 .. n /\ F[k - 1] \in Seq(E) /\ Fine(F[k - 1], k - 1)
        BY <1>1, <2>11, <3>3
      <4>2. F[k - 1] \o ss[k] \in Seq(E) /\ Fine(F[k - 1] \o ss[k], k)
        BY <2>2, <4>1, Zenon
      <4>3. F[k] = F[k - 1] \o ss[k]
        BY <3>1, <3>3
      <4>4. F[k] \in Seq(E) /\ Fine(F[k], k)
        BY <4>2, <4>3
      <4> QED BY <4>4
    <3> QED BY <3>2, <3>3
  <2>12. n \in D
    <3> HIDE DEF D, n
    <3> QED BY <1>1, <2>10, <2>11, UpTo_n
  <2>13. F[n] \in Seq(E) /\ Fine(F[n], n)
    BY <1>3, <2>12
  <2> QED BY <2>1, <2>13 DEF Fine
<1> QED BY <1>2, <1>3

(* The links f lead from h through the sites of q, one after the other.    *)
RunsDown(f, h, q) ==
    /\ h = IF Len(q) = 0 THEN Nil ELSE q[1]
    /\ \A k \in 1 .. Len(q) : f[q[k]] = IF k = Len(q) THEN Nil ELSE q[k + 1]

(* A sequence with an element put before it.                               *)
LEMMA PrependIs ==
    ASSUME NEW E, NEW e \in E, NEW q \in Seq(E)
    PROVE  /\ <<e>> \o q \in Seq(E) /\ Len(<<e>> \o q) = Len(q) + 1
           /\ (<<e>> \o q)[1] = e
           /\ \A i \in 1 .. Len(q) : (<<e>> \o q)[i + 1] = q[i]
           /\ Elements(<<e>> \o q) = {e} \cup Elements(q)
           /\ Distinct(q) /\ e \notin Elements(q) => Distinct(<<e>> \o q)
<1>1. <<e>> \in Seq(E) /\ Len(<<e>>) = 1 /\ <<e>>[1] = e
  OBVIOUS
<1>2. Elements(<<e>>) = {e} /\ Distinct(<<e>>)
  BY DEF Elements, Distinct
<1>3. /\ <<e>> \o q \in Seq(E) /\ Elements(<<e>> \o q) = Elements(<<e>>) \cup Elements(q)
  <2>1. \A r \in Seq(E) : r \o q \in Seq(E) /\ Elements(r \o q) = Elements(r) \cup Elements(q)
    BY ConcatIs
  <2> QED BY <1>1, <2>1, Zenon
<1>4. Distinct(q) /\ e \notin Elements(q) => Distinct(<<e>> \o q)
  <2>1. SUFFICES ASSUME Distinct(q), e \notin Elements(q) PROVE Distinct(<<e>> \o q)
    OBVIOUS
  <2>2. Elements(<<e>>) \cap Elements(q) = {}
    BY <1>2, <2>1
  <2> QED BY <1>1, <1>2, <2>1, <2>2, ConcatIs
<1> QED BY <1>2, <1>3, <1>4

(* No more distinct numbers than there are.                                *)
LEMMA DistinctLen ==
    ASSUME NEW E, IsFiniteSet(E), NEW q \in Seq(E), Distinct(q)
    PROVE  /\ Len(q) = Cardinality(Elements(q))
           /\ Cardinality(Elements(q)) <= Cardinality(E)
<1> DEFINE n == Len(q)
           f == [i \in 1 .. n |-> q[i]]
<1>1. n \in Nat /\ Elements(q) \subseteq E
  BY DEF Elements
<1>2. f \in Bijection(1 .. n, Elements(q))
  <2>1. f \in [1 .. n -> Elements(q)]
    BY DEF Elements
  <2>2. \A i, j \in 1 .. n : f[i] = f[j] => i = j
    BY DEF Distinct
  <2>3. \A e \in Elements(q) : \E i \in 1 .. n : f[i] = e
    BY DEF Elements
  <2> HIDE DEF f, n
  <2> QED BY <2>1, <2>2, <2>3 DEF Bijection, Injection, Surjection, IsInjective
<1>3. IsFiniteSet(1 .. n) /\ Cardinality(1 .. n) = n
  <2>1. Cardinality(1 .. n) = IF 1 > n THEN 0 ELSE n - 1 + 1
    BY <1>1, FS_Interval
  <2> QED BY <1>1, <2>1, FS_Interval, SMTT(30)
<1>4. ExistsBijection(1 .. n, Elements(q))
  <2> HIDE DEF f, n
  <2> QED BY <1>2 DEF ExistsBijection
<1>5. Cardinality(Elements(q)) = n
  <2> HIDE DEF f, n
  <2> QED BY <1>3, <1>4, FS_Bijection
<1> QED BY <1>1, <1>5, FS_Subset

(* Chain follows such links to the end.                                    *)
LEMMA ChainIs ==
    ASSUME NEW t, t.nmax \in Nat, t.next \in [0 .. t.nmax - 1 -> Int], NEW h,
           NEW q \in Seq(0 .. t.nmax - 1), Distinct(q), RunsDown(t.next, h, q)
    PROVE  Chain(t, h) = q
<1> DEFINE slots == 0 .. t.nmax - 1
           L == Len(q)
           On(r) == IF r = <<>> THEN h ELSE t.next[Last(r)]
           More(r) == IF On(r) \in slots THEN Append(r, On(r)) ELSE r
           Eq(met) == met = [n \in Nat |-> IF n = 0 THEN <<>> ELSE More(met[n - 1])]
           M == CHOOSE met : Eq(met)
           At(k) == IF k = L + 1 THEN Nil ELSE q[k]
           First(d) == [i \in 1 .. d |-> q[i]]
<1>1. Chain(t, h) = M[t.nmax + 1]
  BY DEF Chain
<1> HIDE DEF On
<1>2. \E met : Eq(met)
  <2> DEFINE X == Seq(slots)
             V == [n \in Nat |-> X]
             step == [c \in Nat \X X |-> More(c[2])]
  <2>1. <<>> \in X
    OBVIOUS
  <2>2. ASSUME NEW u \in X PROVE More(u) \in X
    <3>1. u \in Seq(slots) /\ (On(u) \in slots => Append(u, On(u)) \in Seq(slots))
      <4> HIDE DEF slots
      <4> QED OBVIOUS
    <3> QED BY <3>1
  <2> HIDE DEF X, More
  <2>3. \A n \in Nat : \A u \in V[n] : step[<<n, u>>] \in V[n + 1]
    BY <2>2
  <2>4. <<>> \in V[0]
    BY <2>1
  <2>5. PICK f : StepsTo(f, <<>>, step) /\ \A n \in Nat : f[n] \in V[n]
    <3> HIDE DEF V, step
    <3> QED BY <2>3, <2>4, StepsTable, Zenon
  <2>6. ASSUME NEW n \in Nat PROVE f[n] = IF n = 0 THEN <<>> ELSE More(f[n - 1])
    <3>1. f[n] = IF n = 0 THEN <<>> ELSE step[<<n - 1, f[n - 1]>>]
      <4> HIDE DEF step, V
      <4> QED BY <2>5, Zenon DEF StepsTo
    <3>2. n # 0 => n - 1 \in Nat /\ f[n - 1] \in X
      BY <2>5
    <3>3. n # 0 => step[<<n - 1, f[n - 1]>>] = More(f[n - 1])
      BY <3>2
    <3> QED BY <3>1, <3>3
  <2>7. f = [n \in Nat |-> f[n]]
    BY <2>5 DEF StepsTo
  <2> QED BY <2>6, <2>7
<1>3. Eq(M)
  BY <1>2, Zenon
<1>4. M[0] = <<>> /\ \A n \in Nat : n # 0 => M[n] = More(M[n - 1])
  <2> HIDE DEF M, More
  <2> QED BY <1>3
<1> HIDE DEF M
<1>5. L \in Nat /\ \A k \in 1 .. L : q[k] \in slots /\ t.next[q[k]] = At(k + 1)
  BY SMTT(30) DEF RunsDown
<1>6. h = At(1) /\ Nil \notin slots
  BY <1>5 DEF RunsDown, Nil
<1>7. ASSUME NEW d \in 0 .. L
      PROVE  /\ First(d) \in Seq(slots) /\ Len(First(d)) = d
             /\ On(First(d)) = At(d + 1)
  <2>1. First(d) \in Seq(slots) /\ Len(First(d)) = d
    BY <1>5
  <2>2. CASE d = 0
    <3>1. First(d) = <<>>
      BY <2>1, <2>2
    <3> QED BY <1>6, <2>1, <2>2, <3>1 DEF On
  <2>3. CASE d # 0
    <3>1. First(d) # <<>> /\ First(d)[d] = q[d] /\ d \in 1 .. L
      BY <2>1, <2>3, SMTT(30)
    <3>2. Last(First(d)) = q[d]
      BY <2>1, <3>1 DEF Last
    <3> HIDE DEF First
    <3> QED BY <1>5, <2>1, <3>1, <3>2 DEF On
  <2> QED BY <2>2, <2>3
<1> HIDE DEF slots
<1>8. ASSUME NEW n \in Nat
      PROVE  M[n] = First(IF n <= L THEN n ELSE L)
  <2> DEFINE D == {d \in 0 .. n : M[d] = First(IF d <= L THEN d ELSE L)}
  <2>1. 0 \in D
    <3>1. First(0) = <<>>
      OBVIOUS
    <3> QED BY <1>4, <1>5, <3>1
  <2>2. ASSUME NEW d \in 1 .. n, d - 1 \in D PROVE d \in D
    <3>1. M[d] = More(M[d - 1]) /\ d - 1 \in Nat
      BY <1>4
    <3>2. M[d - 1] = First(IF d - 1 <= L THEN d - 1 ELSE L)
      BY <2>2
    <3>3. CASE d <= L
      <4>1. d - 1 \in 0 .. L /\ d \in 1 .. L /\ d - 1 <= L /\ (d - 1) + 1 = d /\ d # L + 1
        BY <1>5, <3>3
      <4>2. /\ First(d - 1) \in Seq(slots) /\ Len(First(d - 1)) = d - 1
            /\ On(First(d - 1)) = q[d] /\ q[d] \in slots
        BY <1>5, <1>7, <4>1
      <4>3. More(First(d - 1)) = Append(First(d - 1), q[d])
        BY <4>2
      <4>4. Append(First(d - 1), q[d]) = First(d)
        <5>1. First(d) \in Seq(slots) /\ Len(First(d)) = d
          BY <1>7, <4>1
        <5>2. \A i \in 1 .. d : Append(First(d - 1), q[d])[i] = First(d)[i]
          BY <4>1, <4>2
        <5> HIDE DEF First
        <5> QED BY <4>1, <4>2, <5>1, <5>2
      <4> HIDE DEF First, More
      <4>5. M[d] = First(d)
        BY <3>1, <3>2, <4>1, <4>3, <4>4
      <4> QED BY <3>3, <4>5
    <3>4. CASE ~(d <= L)
      <4>1. M[d - 1] = First(L) /\ L \in 0 .. L
        <5>1. ~(d - 1 <= L) \/ d - 1 = L
          BY <1>5, <3>4
        <5> HIDE DEF First
        <5> QED BY <1>5, <3>2, <5>1
      <4>2. On(First(L)) = Nil
        <5> HIDE DEF First
        <5> QED BY <1>7, <4>1
      <4>3. More(First(L)) = First(L)
        BY <1>6, <4>2
      <4> HIDE DEF First, More
      <4>4. M[d] = First(L)
        BY <3>1, <4>1, <4>3
      <4> QED BY <3>4, <4>4
    <3> QED BY <3>3, <3>4
  <2>3. n \in D
    <3> HIDE DEF D
    <3> QED BY <2>1, <2>2, UpTo_n
  <2> QED BY <2>3
<1>9. L <= t.nmax
  <2>1. Cardinality(slots) = t.nmax /\ IsFiniteSet(slots)
    <3>1. t.nmax - 1 \in Int /\ 0 \in Int
      OBVIOUS
    <3>2. /\ IsFiniteSet(0 .. t.nmax - 1)
          /\ Cardinality(0 .. t.nmax - 1) = IF 0 > t.nmax - 1 THEN 0 ELSE t.nmax - 1 - 0 + 1
      BY <3>1, FS_Interval
    <3> QED BY <3>2 DEF slots
  <2>2. q \in Seq(slots)
    BY DEF slots
  <2> HIDE DEF L
  <2>3. Len(q) = Cardinality(Elements(q)) /\ Cardinality(Elements(q)) <= Cardinality(slots)
    BY <2>1, <2>2, DistinctLen
  <2> QED BY <2>1, <2>3 DEF L
<1>10. First(L) = q
  <2>1. First(L) = [i \in 1 .. L |-> q[i]] /\ q = [i \in 1 .. L |-> q[i]]
    BY <1>5
  <2> QED BY <2>1
<1>11. M[t.nmax + 1] = q
  <2>1. t.nmax + 1 \in Nat /\ (t.nmax + 1 <= L => t.nmax + 1 = L)
    BY <1>5, <1>9
  <2>2. M[t.nmax + 1] = First(L)
    <3> HIDE DEF First
    <3> QED BY <1>8, <2>1
  <2> QED BY <1>10, <2>2
<1> QED BY <1>1, <1>11

(* The sites S are linked both ways, each in the list of the bin it is in, *)
(* whose first site is h[b], and to nothing outside S.  As S is finite and *)
(* no list runs in a circle, each is met once on the way from the head of  *)
(* its bin.                                                                *)
HeadsIn(h, prev, bin, S) ==
    \A b \in DOMAIN h : h[b] # Nil => h[b] \in S /\ bin[h[b]] = b /\ prev[h[b]] \notin S
NextIn(next, prev, bin, S) ==
    \A k \in S : next[k] # Nil => next[k] \in S /\ bin[next[k]] = bin[k] /\ prev[next[k]] = k
PrevIn(h, next, prev, bin, S) ==
    \A k \in S : IF prev[k] \in S THEN bin[prev[k]] = bin[k] /\ next[prev[k]] = k
                 ELSE bin[k] \in DOMAIN h /\ h[bin[k]] = k

(* No list runs in a circle: sites can be numbered so that next ascends.   *)
Ascending(next, S, rank) == \A k \in S : next[k] # Nil => rank[k] < rank[next[k]]
Listed(h, next, prev, bin, S) ==
    /\ HeadsIn(h, prev, bin, S) /\ NextIn(next, prev, bin, S)
    /\ PrevIn(h, next, prev, bin, S)
    /\ \E rank \in [S -> Int] : Ascending(next, S, rank)

(* A site leaves: the links to it go on to the sites beside it.            *)
Detached(h, next, prev, bin, i, h2, next2, prev2, bin2, S) ==
    /\ DOMAIN h2 = DOMAIN h
    /\ \A b \in DOMAIN h :
          h2[b] = IF prev[i] \notin S /\ b = bin[i] THEN next[i] ELSE h[b]
    /\ \A k \in S \ {i} :
          /\ bin2[k] = bin[k]
          /\ next2[k] = IF k = prev[i] THEN next[i] ELSE next[k]
          /\ prev2[k] = IF k = next[i] THEN prev[i] ELSE prev[k]

(* Taking a site out leaves lists of the others, none of which points to   *)
(* it.                                                                     *)
LEMMA LeaveLists ==
    ASSUME NEW S, Nil \notin S, NEW i \in S, NEW h, NEW next, NEW prev, NEW bin,
           Listed(h, next, prev, bin, S), NEW h2, NEW next2, NEW prev2, NEW bin2,
           Detached(h, next, prev, bin, i, h2, next2, prev2, bin2, S)
    PROVE  /\ Listed(h2, next2, prev2, bin2, S \ {i})
           /\ \A k \in S \ {i} : prev2[k] # i /\ next2[k] # i
           /\ prev[i] # i /\ next[i] # i
<1>1. PICK rank \in [S -> Int] : Ascending(next, S, rank)
  BY DEF Listed
<1>2. next[i] # i /\ prev[i] # i
  <2>1. next[i] # i
    BY <1>1 DEF Ascending
  <2> QED BY <2>1 DEF Listed, PrevIn
<1>3. /\ \A k \in S : next[k] # Nil => next[k] \in S /\ bin[next[k]] = bin[k] /\ prev[next[k]] = k
      /\ \A k \in S : IF prev[k] \in S THEN bin[prev[k]] = bin[k] /\ next[prev[k]] = k
                      ELSE bin[k] \in DOMAIN h /\ h[bin[k]] = k
      /\ \A b \in DOMAIN h : h[b] # Nil => h[b] \in S /\ bin[h[b]] = b /\ prev[h[b]] \notin S
  BY DEF Listed, HeadsIn, NextIn, PrevIn
<1>4. /\ DOMAIN h2 = DOMAIN h
      /\ \A b \in DOMAIN h :
            h2[b] = IF prev[i] \notin S /\ b = bin[i] THEN next[i] ELSE h[b]
      /\ \A k \in S \ {i} :
            /\ bin2[k] = bin[k]
            /\ next2[k] = IF k = prev[i] THEN next[i] ELSE next[k]
            /\ prev2[k] = IF k = next[i] THEN prev[i] ELSE prev[k]
  BY DEF Detached
<1>5. HeadsIn(h2, prev2, bin2, S \ {i})
  <2>1. SUFFICES ASSUME NEW b \in DOMAIN h, h2[b] # Nil
                 PROVE  h2[b] \in S \ {i} /\ bin2[h2[b]] = b /\ prev2[h2[b]] \notin S \ {i}
    BY <1>4 DEF HeadsIn
  <2>2. CASE prev[i] \notin S /\ b = bin[i]
    <3>1. h2[b] = next[i] /\ next[i] \in S \ {i} /\ bin[next[i]] = b
      BY <1>2, <1>3, <1>4, <2>1, <2>2
    <3>2. prev2[next[i]] = prev[i] /\ bin2[next[i]] = b
      BY <1>4, <3>1
    <3> QED BY <2>2, <3>1, <3>2
  <2>3. CASE ~(prev[i] \notin S /\ b = bin[i])
    <3>1. h2[b] = h[b] /\ h[b] \in S /\ bin[h[b]] = b /\ prev[h[b]] \notin S
      BY <1>3, <1>4, <2>1, <2>3
    <3>2. h[b] # i
      BY <2>3, <3>1
    <3>3. h[b] # next[i]
      BY <1>3, <3>1
    <3> QED BY <1>4, <3>1, <3>2, <3>3
  <2> QED BY <2>2, <2>3
<1>6. NextIn(next2, prev2, bin2, S \ {i})
  <2>1. SUFFICES ASSUME NEW k \in S \ {i}, next2[k] # Nil
                 PROVE  /\ next2[k] \in S \ {i} /\ bin2[next2[k]] = bin2[k]
                        /\ prev2[next2[k]] = k
    BY DEF NextIn
  <2>2. CASE k = prev[i]
    <3>1. next2[k] = next[i] /\ next[i] \in S \ {i} /\ bin[next[i]] = bin[i] /\ bin[k] = bin[i]
      BY <1>2, <1>3, <1>4, <2>1, <2>2
    <3> QED BY <1>4, <2>2, <3>1
  <2>3. CASE k # prev[i]
    <3>1. next2[k] = next[k] /\ next[k] \in S /\ bin[next[k]] = bin[k] /\ prev[next[k]] = k
      BY <1>3, <1>4, <2>1, <2>3
    <3>2. next[k] # i /\ next[k] # next[i]
      BY <1>3, <2>3, <3>1
    <3> QED BY <1>4, <3>1, <3>2
  <2> QED BY <2>2, <2>3
<1>7. PrevIn(h2, next2, prev2, bin2, S \ {i})
  <2>1. SUFFICES ASSUME NEW k \in S \ {i}
                 PROVE  IF prev2[k] \in S \ {i}
                        THEN bin2[prev2[k]] = bin2[k] /\ next2[prev2[k]] = k
                        ELSE bin2[k] \in DOMAIN h2 /\ h2[bin2[k]] = k
    BY DEF PrevIn
  <2>2. bin[k] \in DOMAIN h2 => h2[bin[k]] = IF prev[i] \notin S /\ bin[k] = bin[i] THEN next[i] ELSE h[bin[k]]
    BY <1>4
  <2>3. CASE k = next[i]
    <3>1. prev2[k] = prev[i] /\ bin2[k] = bin[k] /\ bin[k] = bin[i]
      BY <1>3, <1>4, <2>1, <2>3
    <3>2. CASE prev[i] \in S
      BY <1>2, <1>3, <1>4, <2>3, <3>1, <3>2
    <3>3. CASE prev[i] \notin S
      <4>1. bin[i] \in DOMAIN h
        BY <1>3, <3>3
      <4> QED BY <1>4, <2>3, <3>1, <3>3, <4>1
    <3> QED BY <3>2, <3>3
  <2>4. CASE k # next[i]
    <3>1. prev2[k] = prev[k] /\ bin2[k] = bin[k] /\ prev[k] # i
      BY <1>3, <1>4, <2>1, <2>4
    <3>2. CASE prev[k] \in S
      BY <1>3, <1>4, <2>4, <3>1, <3>2
    <3>3. CASE prev[k] \notin S
      BY <1>3, <1>4, <2>1, <2>4, <3>1, <3>3
    <3> QED BY <3>2, <3>3
  <2> QED BY <2>3, <2>4
<1>8. \E r \in [S \ {i} -> Int] : Ascending(next2, S \ {i}, r)
  <2> DEFINE new == [k \in S \ {i} |-> rank[k]]
  <2>1. new \in [S \ {i} -> Int]
    OBVIOUS
  <2>2. ASSUME NEW k \in S \ {i}, next2[k] # Nil
        PROVE  rank[k] < rank[next2[k]] /\ next2[k] \in S \ {i}
    <3>1. next2[k] \in S \ {i}
      BY <1>6, <2>2 DEF NextIn
    <3>2. CASE k = prev[i]
      <4>1. next[k] = i /\ next2[k] = next[i] /\ next[i] # Nil
        BY <1>3, <1>4, <2>2, <3>2
      <4>2. rank[k] < rank[i] /\ rank[i] < rank[next[i]] /\ next[i] \in S
        BY <1>1, <1>3, <4>1 DEF Ascending
      <4> QED BY <3>1, <4>1, <4>2
    <3>3. CASE k # prev[i]
      BY <1>1, <1>4, <2>2, <3>1, <3>3 DEF Ascending
    <3> QED BY <3>2, <3>3
  <2>3. Ascending(next2, S \ {i}, new)
    BY <2>2 DEF Ascending
  <2> QED BY <2>1, <2>3
<1>9. \A k \in S \ {i} : prev2[k] # i /\ next2[k] # i
  BY <1>2, <1>3, <1>4
<1> QED BY <1>2, <1>5, <1>6, <1>7, <1>8, <1>9 DEF Listed

(* A site joins the list of the bin it is in, in front.                    *)
Come(h, next, prev, bin, i, h2, next2, prev2, bin2, S) ==
    /\ DOMAIN h2 = DOMAIN h /\ bin2[i] \in DOMAIN h
    /\ \A b \in DOMAIN h : h2[b] = IF b = bin2[i] THEN i ELSE h[b]
    /\ next2[i] = h[bin2[i]] /\ prev2[i] \notin S \cup {i}
    /\ \A k \in S : /\ prev[k] # i /\ next[k] # i
                    /\ bin2[k] = bin[k] /\ next2[k] = next[k]
                    /\ prev2[k] = IF k = h[bin2[i]] THEN i ELSE prev[k]

(* Putting a site before the head of its list gives lists with that site.  *)
LEMMA JoinLists ==
    ASSUME NEW S, Nil \notin S, NEW i, i \notin S, i # Nil, NEW h, NEW next, NEW prev, NEW bin,
           Listed(h, next, prev, bin, S), NEW h2, NEW next2, NEW prev2, NEW bin2,
           Come(h, next, prev, bin, i, h2, next2, prev2, bin2, S)
    PROVE  Listed(h2, next2, prev2, bin2, S \cup {i})
<1>1. PICK rank \in [S -> Int] : Ascending(next, S, rank)
  BY DEF Listed
<1>2. /\ \A k \in S : next[k] # Nil => next[k] \in S /\ bin[next[k]] = bin[k] /\ prev[next[k]] = k
      /\ \A k \in S : IF prev[k] \in S THEN bin[prev[k]] = bin[k] /\ next[prev[k]] = k
                      ELSE bin[k] \in DOMAIN h /\ h[bin[k]] = k
      /\ \A b \in DOMAIN h : h[b] # Nil => h[b] \in S /\ bin[h[b]] = b /\ prev[h[b]] \notin S
  BY DEF Listed, HeadsIn, NextIn, PrevIn
<1> DEFINE b == bin2[i]
<1>3. /\ DOMAIN h2 = DOMAIN h /\ b \in DOMAIN h
      /\ \A c \in DOMAIN h : h2[c] = IF c = b THEN i ELSE h[c]
      /\ next2[i] = h[b] /\ prev2[i] \notin S \cup {i}
      /\ \A k \in S : /\ prev[k] # i /\ next[k] # i
                      /\ bin2[k] = bin[k] /\ next2[k] = next[k]
                      /\ prev2[k] = IF k = h[b] THEN i ELSE prev[k]
  BY DEF Come
<1>4. h[b] # Nil => h[b] \in S /\ bin[h[b]] = b /\ prev[h[b]] \notin S /\ h[b] # i
  BY <1>2, <1>3
<1>5. HeadsIn(h2, prev2, bin2, S \cup {i})
  <2>1. SUFFICES ASSUME NEW c \in DOMAIN h, h2[c] # Nil
                 PROVE  h2[c] \in S \cup {i} /\ bin2[h2[c]] = c /\ prev2[h2[c]] \notin S \cup {i}
    BY <1>3 DEF HeadsIn
  <2>2. CASE c = b
    BY <1>3, <2>2
  <2>3. CASE c # b
    <3>1. h2[c] = h[c] /\ h[c] \in S /\ bin[h[c]] = c /\ prev[h[c]] \notin S
      BY <1>2, <1>3, <2>1, <2>3
    <3>2. h[c] # h[b]
      BY <1>2, <1>3, <2>3, <3>1
    <3> QED BY <1>3, <3>1, <3>2
  <2> QED BY <2>2, <2>3
<1>6. NextIn(next2, prev2, bin2, S \cup {i})
  <2>1. SUFFICES ASSUME NEW k \in S \cup {i}, next2[k] # Nil
                 PROVE  /\ next2[k] \in S \cup {i} /\ bin2[next2[k]] = bin2[k]
                        /\ prev2[next2[k]] = k
    BY DEF NextIn
  <2>2. CASE k = i
    BY <1>3, <1>4, <2>1, <2>2
  <2>3. CASE k # i
    <3>1. k \in S /\ next2[k] = next[k] /\ next[k] \in S /\ bin[next[k]] = bin[k] /\ prev[next[k]] = k
      BY <1>2, <1>3, <2>1, <2>3
    <3>2. next[k] # h[b]
      BY <1>4, <3>1
    <3> QED BY <1>3, <3>1, <3>2
  <2> QED BY <2>2, <2>3
<1>7. PrevIn(h2, next2, prev2, bin2, S \cup {i})
  <2>1. SUFFICES ASSUME NEW k \in S \cup {i}
                 PROVE  IF prev2[k] \in S \cup {i}
                        THEN bin2[prev2[k]] = bin2[k] /\ next2[prev2[k]] = k
                        ELSE bin2[k] \in DOMAIN h2 /\ h2[bin2[k]] = k
    BY DEF PrevIn
  <2>2. CASE k = i
    BY <1>3, <2>2
  <2>3. CASE k # i /\ k = h[b]
    <3>1. k \in S /\ k # Nil
      BY <2>3
    <3>2. prev2[k] = i /\ bin2[k] = b /\ next2[i] = k
      BY <1>3, <1>4, <2>3, <3>1
    <3> QED BY <3>2
  <2>4. CASE k # i /\ k # h[b]
    <3>1. k \in S /\ prev2[k] = prev[k] /\ bin2[k] = bin[k] /\ prev[k] # i
      BY <1>3, <2>4
    <3>2. CASE prev[k] \in S
      BY <1>2, <1>3, <3>1, <3>2
    <3>3. CASE prev[k] \notin S
      <4>1. bin[k] \in DOMAIN h /\ h[bin[k]] = k
        BY <1>2, <3>1, <3>3
      <4>2. bin[k] # b
        BY <2>4, <4>1
      <4>3. h2[bin[k]] = k
        BY <1>3, <4>1, <4>2
      <4> QED BY <1>3, <3>1, <3>3, <4>1, <4>3
    <3> QED BY <3>2, <3>3
  <2> QED BY <2>2, <2>3, <2>4
<1>8. \E r \in [S \cup {i} -> Int] : Ascending(next2, S \cup {i}, r)
  <2> DEFINE front == IF h[b] = Nil THEN 0 ELSE rank[h[b]] - 1
  <2>1. front \in Int /\ (h[b] # Nil => front < rank[h[b]])
    BY <1>4
  <2> HIDE DEF front
  <2> DEFINE new == [k \in S \cup {i} |-> IF k = i THEN front ELSE rank[k]]
  <2>2. new \in [S \cup {i} -> Int]
    BY <2>1
  <2>3. ASSUME NEW k \in S \cup {i}, next2[k] # Nil PROVE new[k] < new[next2[k]]
    <3>1. CASE k = i
      <4>1. next2[k] = h[b] /\ h[b] \in S /\ h[b] # i
        BY <1>3, <1>4, <2>3, <3>1
      <4> QED BY <2>1, <3>1, <4>1
    <3>2. CASE k # i
      <4>1. next2[k] = next[k] /\ next[k] \in S /\ next[k] # i /\ k \in S
        BY <1>2, <1>3, <2>3, <3>2
      <4>2. rank[k] < rank[next[k]]
        BY <1>1, <2>3, <4>1 DEF Ascending
      <4> QED BY <3>2, <4>1, <4>2
    <3> QED BY <3>1, <3>2
  <2>4. Ascending(next2, S \cup {i}, new)
    BY <2>3 DEF Ascending
  <2> QED BY <2>2, <2>4
<1> QED BY <1>5, <1>6, <1>7, <1>8 DEF Listed

(* The site in slot l moves to slot m, and the links to it with it.        *)
Rename(h, next, prev, bin, l, m, h2, next2, prev2, bin2, S) ==
    /\ DOMAIN h2 = DOMAIN h
    /\ \A b \in DOMAIN h : h2[b] = IF h[b] = l THEN m ELSE h[b]
    /\ bin2[m] = bin[l] /\ next2[m] = next[l] /\ prev2[m] = prev[l]
    /\ \A k \in S \ {l} :
          /\ prev[k] # m /\ next[k] # m
          /\ bin2[k] = bin[k]
          /\ next2[k] = IF k = prev[l] THEN m ELSE next[k]
          /\ prev2[k] = IF k = next[l] THEN m ELSE prev[k]

(* A site that changes its slot leaves lists of the renumbered sites.      *)
LEMMA RenameLists ==
    ASSUME NEW S, Nil \notin S, NEW l \in S, NEW m, m \notin S, m # Nil,
           NEW h, NEW next, NEW prev, NEW bin, Listed(h, next, prev, bin, S),
           prev[l] # m,
           NEW h2, NEW next2, NEW prev2, NEW bin2,
           Rename(h, next, prev, bin, l, m, h2, next2, prev2, bin2, S)
    PROVE  Listed(h2, next2, prev2, bin2, (S \ {l}) \cup {m})
<1> DEFINE S2 == (S \ {l}) \cup {m}
<1>1. PICK rank \in [S -> Int] : Ascending(next, S, rank)
  BY DEF Listed
<1>2. /\ \A k \in S : next[k] # Nil => next[k] \in S /\ bin[next[k]] = bin[k] /\ prev[next[k]] = k
      /\ \A k \in S : IF prev[k] \in S THEN bin[prev[k]] = bin[k] /\ next[prev[k]] = k
                      ELSE bin[k] \in DOMAIN h /\ h[bin[k]] = k
      /\ \A b \in DOMAIN h : h[b] # Nil => h[b] \in S /\ bin[h[b]] = b /\ prev[h[b]] \notin S
  BY DEF Listed, HeadsIn, NextIn, PrevIn
<1>3. /\ DOMAIN h2 = DOMAIN h
      /\ \A b \in DOMAIN h : h2[b] = IF h[b] = l THEN m ELSE h[b]
      /\ bin2[m] = bin[l] /\ next2[m] = next[l] /\ prev2[m] = prev[l]
      /\ \A k \in S \ {l} :
            /\ prev[k] # m /\ next[k] # m
            /\ bin2[k] = bin[k]
            /\ next2[k] = IF k = prev[l] THEN m ELSE next[k]
            /\ prev2[k] = IF k = next[l] THEN m ELSE prev[k]
  BY DEF Rename
<1>4. next[l] # l /\ prev[l] # l
  <2>1. next[l] # l
    BY <1>1 DEF Ascending
  <2> QED BY <1>2, <2>1
<1>5. HeadsIn(h2, prev2, bin2, S2)
  <2>1. SUFFICES ASSUME NEW b \in DOMAIN h, h2[b] # Nil
                 PROVE  h2[b] \in S2 /\ bin2[h2[b]] = b /\ prev2[h2[b]] \notin S2
    BY <1>3 DEF HeadsIn
  <2>2. CASE h[b] = l
    BY <1>2, <1>3, <2>2
  <2>3. CASE h[b] # l
    <3>1. h2[b] = h[b] /\ h[b] \in S \ {l} /\ bin[h[b]] = b /\ prev[h[b]] \notin S
      BY <1>2, <1>3, <2>1, <2>3
    <3>2. h[b] # next[l]
      BY <1>2, <3>1
    <3> QED BY <1>3, <3>1, <3>2
  <2> QED BY <2>2, <2>3
<1>6. NextIn(next2, prev2, bin2, S2)
  <2>1. SUFFICES ASSUME NEW k \in S2, next2[k] # Nil
                 PROVE  next2[k] \in S2 /\ bin2[next2[k]] = bin2[k] /\ prev2[next2[k]] = k
    BY DEF NextIn
  <2>2. CASE k = m
    <3>1. next2[k] = next[l] /\ next[l] \in S \ {l} /\ bin[next[l]] = bin[l]
      BY <1>2, <1>3, <1>4, <2>1, <2>2
    <3> QED BY <1>3, <2>2, <3>1
  <2>3. CASE k # m /\ k = prev[l]
    <3>1. k \in S \ {l} /\ next2[k] = m /\ bin[k] = bin[l]
      BY <1>2, <1>3, <2>1, <2>3
    <3> QED BY <1>3, <2>3, <3>1
  <2>4. CASE k # m /\ k # prev[l]
    <3>1. k \in S \ {l} /\ next2[k] = next[k]
      BY <1>3, <2>1, <2>4
    <3>2. next[k] \in S /\ bin[next[k]] = bin[k] /\ prev[next[k]] = k
      BY <1>2, <2>1, <3>1
    <3>3. next[k] # l /\ next[k] # next[l]
      BY <1>2, <2>4, <3>1, <3>2
    <3> QED BY <1>3, <3>1, <3>2, <3>3
  <2> QED BY <2>2, <2>3, <2>4
<1>7. PrevIn(h2, next2, prev2, bin2, S2)
  <2>1. SUFFICES ASSUME NEW k \in S2
                 PROVE  IF prev2[k] \in S2 THEN bin2[prev2[k]] = bin2[k] /\ next2[prev2[k]] = k
                        ELSE bin2[k] \in DOMAIN h2 /\ h2[bin2[k]] = k
    BY DEF PrevIn
  <2>2. CASE k = m
    <3>1. CASE prev[l] \in S
      BY <1>2, <1>3, <1>4, <2>2, <3>1
    <3>2. CASE prev[l] \notin S
      BY <1>2, <1>3, <2>2, <3>2
    <3> QED BY <3>1, <3>2
  <2>3. CASE k # m /\ k = next[l]
    <3>1. k \in S \ {l} /\ k # Nil
      BY <2>1, <2>3
    <3>2. bin[k] = bin[l] /\ prev2[k] = m
      BY <1>2, <1>3, <2>3, <3>1
    <3> QED BY <1>3, <2>3, <3>1, <3>2
  <2>4. CASE k # m /\ k # next[l]
    <3>1. k \in S \ {l} /\ prev2[k] = prev[k] /\ bin2[k] = bin[k] /\ prev[k] # m
      BY <1>3, <2>1, <2>4
    <3>2. CASE prev[k] \in S
      <4>1. bin[prev[k]] = bin[k] /\ next[prev[k]] = k
        BY <1>2, <3>1, <3>2
      <4>2. prev[k] # l
        BY <2>4, <4>1
      <4>3. prev[k] # prev[l]
        <5>1. prev[l] \in S => next[prev[l]] = l
          BY <1>2
        <5> QED BY <3>1, <3>2, <4>1, <5>1
      <4> QED BY <1>3, <3>1, <3>2, <4>1, <4>2, <4>3
    <3>3. CASE prev[k] \notin S
      BY <1>2, <1>3, <3>1, <3>3
    <3> QED BY <3>2, <3>3
  <2> QED BY <2>2, <2>3, <2>4
<1>8. \E r \in [S2 -> Int] : Ascending(next2, S2, r)
  <2> DEFINE new == [k \in S2 |-> IF k = m THEN rank[l] ELSE rank[k]]
  <2>1. new \in [S2 -> Int]
    OBVIOUS
  <2>2. ASSUME NEW k \in S2, next2[k] # Nil PROVE new[k] < new[next2[k]]
    <3>0. next2[k] \in S2
      BY <1>6, <2>2 DEF NextIn
    <3>1. CASE k = m
      <4>1. next2[k] = next[l] /\ next[l] # m /\ next[l] # Nil
        BY <1>2, <1>3, <2>2, <3>1
      <4>2. rank[l] < rank[next[l]]
        BY <1>1, <4>1 DEF Ascending
      <4> QED BY <3>0, <3>1, <4>1, <4>2
    <3>2. CASE k # m /\ k = prev[l]
      <4>1. k \in S /\ next[k] = l /\ l # Nil /\ next2[k] = m
        BY <1>2, <1>3, <3>2
      <4>2. rank[k] < rank[l]
        BY <1>1, <4>1 DEF Ascending
      <4> QED BY <3>0, <3>2, <4>1, <4>2
    <3>3. CASE k # m /\ k # prev[l]
      <4>1. k \in S /\ next2[k] = next[k] /\ next[k] # m
        BY <1>3, <3>3
      <4>2. rank[k] < rank[next[k]]
        BY <1>1, <2>2, <4>1 DEF Ascending
      <4> QED BY <3>0, <3>3, <4>1, <4>2
    <3> QED BY <3>1, <3>2, <3>3
  <2>3. Ascending(next2, S2, new)
    BY <2>2 DEF Ascending
  <2> QED BY <2>1, <2>3
<1> QED BY <1>5, <1>6, <1>7, <1>8 DEF Listed

(* Of sets given by the elements of P, one that includes no other.         *)
LEMMA SmallestOf ==
    ASSUME NEW S, IsFiniteSet(S), NEW P, P # {}, NEW f, \A m \in P : f[m] \subseteq S
    PROVE  \E m \in P : \A n \in P : f[n] \subseteq f[m] => f[n] = f[m]
<1> DEFINE DD == {f[m] : m \in P}
<1>1. DD \in SUBSET SUBSET S /\ DD # {}
  OBVIOUS
<1>2. \E T \in DD : \A U \in DD : U \subseteq T => U = T
  <2> HIDE DEF DD
  <2> QED BY <1>1, Smallest
<1> QED BY <1>2

(* The list of a bin as a sequence.                                        *)
ListFrom(h, next, prev, q) ==
    /\ Distinct(q) /\ RunsDown(next, h, q)
    /\ \A k \in 2 .. Len(q) : prev[q[k]] = q[k - 1]
IsListOf(q, head, next, prev, bin, S, b) ==
    q \in Seq(S) /\ ListFrom(head, next, prev, q) /\ Elements(q) = {k \in S : bin[k] = b}

(* The sites of a bin are one sequence that starts at the head of the bin, *)
(* follows next and has each of them once.                                 *)
LEMMA ListOf ==
    ASSUME NEW S, IsFiniteSet(S), S \subseteq Int, Nil \notin S,
           NEW h, NEW next, NEW prev, NEW bin,
           Listed(h, next, prev, bin, S), NEW b \in DOMAIN h
    PROVE  \E q : IsListOf(q, h[b], next, prev, bin, S, b)
<1>0. SUFFICES \E q \in Seq(S) : /\ ListFrom(h[b], next, prev, q)
                                  /\ Elements(q) = {k \in S : bin[k] = b}
  BY DEF IsListOf
<1>1. PICK rank \in [S -> Int] : Ascending(next, S, rank)
  BY DEF Listed
<1>2. /\ \A k \in S : next[k] # Nil => next[k] \in S /\ bin[next[k]] = bin[k] /\ prev[next[k]] = k
      /\ \A k \in S : IF prev[k] \in S THEN bin[prev[k]] = bin[k] /\ next[prev[k]] = k
                      ELSE bin[k] \in DOMAIN h /\ h[bin[k]] = k
      /\ \A c \in DOMAIN h : h[c] # Nil => h[c] \in S /\ bin[h[c]] = c /\ prev[h[c]] \notin S
  BY DEF Listed, HeadsIn, NextIn, PrevIn
<1> DEFINE From(m, q) == /\ q \in Seq(S) /\ Distinct(q) /\ RunsDown(next, m, q) /\ Len(q) # 0
                         /\ \A k \in Elements(q) : bin[k] = bin[m] /\ rank[m] <= rank[k]
                         /\ \A k \in 2 .. Len(q) : prev[q[k]] = q[k - 1]
           Bad == {m \in S : ~ \E q : From(m, q)}
           Above == [m \in S |-> {k \in S : rank[m] <= rank[k]}]
<1>3. Bad = {}
  <2>1. SUFFICES ASSUME Bad # {} PROVE FALSE
    OBVIOUS
  <2>2. PICK m \in Bad : \A n \in Bad : Above[n] \subseteq Above[m] => Above[n] = Above[m]
    <3>1. \A m \in Bad : Above[m] \subseteq S
      OBVIOUS
    <3> HIDE DEF Above, Bad
    <3> QED BY <2>1, <3>1, SmallestOf
  <2>3. m \in S /\ ~ \E q : From(m, q)
    OBVIOUS
  <2>4. next[m] # Nil
    <3>1. SUFFICES ASSUME next[m] = Nil PROVE FALSE
      OBVIOUS
    <3>2. From(m, <<m>>)
      <4>1. <<m>> \in Seq(S) /\ Len(<<m>>) = 1 /\ <<m>>[1] = m
        BY <2>3
      <4>2. Distinct(<<m>>) /\ Elements(<<m>>) = {m}
        BY DEF Distinct, Elements
      <4>3. RunsDown(next, m, <<m>>)
        BY <3>1, <4>1 DEF RunsDown
      <4>4. rank[m] \in Int
        BY <2>3
      <4> QED BY <4>1, <4>2, <4>3, <4>4
    <3> QED BY <2>3, <3>2
  <2> DEFINE n == next[m]
  <2>5. n \in S /\ bin[n] = bin[m] /\ prev[n] = m /\ rank[m] < rank[n]
    BY <1>1, <1>2, <2>3, <2>4 DEF Ascending
  <2>6. PICK q : From(n, q)
    <3>1. Above[n] \subseteq Above[m] /\ m \in Above[m] /\ m \notin Above[n]
      <4>1. \A k \in S : rank[k] \in Int
        OBVIOUS
      <4>2. /\ Above[n] = {k \in S : rank[n] <= rank[k]}
            /\ Above[m] = {k \in S : rank[m] <= rank[k]}
        BY <2>3, <2>5
      <4> HIDE DEF Above, n
      <4>3. rank[n] \in Int /\ rank[m] \in Int /\ rank[m] < rank[n]
        BY <2>3, <2>5, <4>1
      <4>4. \A k \in S : rank[n] <= rank[k] => rank[m] <= rank[k]
        BY <4>1, <4>3
      <4>5. ~(rank[n] <= rank[m]) /\ rank[m] <= rank[m]
        BY <4>3
      <4> QED BY <2>3, <4>2, <4>4, <4>5, Zenon
    <3>2. n \notin Bad
      <4> HIDE DEF Above, Bad, n
      <4> QED BY <2>2, <3>1
    <3> HIDE DEF From, n
    <3> QED BY <2>5, <3>2
  <2> DEFINE w == <<m>> \o q
             l == Len(q)
  <2>7. /\ l \in Nat /\ l # 0 /\ q \in Seq(S) /\ Distinct(q) /\ q[1] = n
        /\ \A k \in 1 .. l : next[q[k]] = IF k = l THEN Nil ELSE q[k + 1]
        /\ \A k \in Elements(q) : bin[k] = bin[n] /\ rank[n] <= rank[k]
        /\ \A k \in 2 .. l : prev[q[k]] = q[k - 1]
    BY <2>6 DEF RunsDown
  <2> HIDE DEF n
  <2>8. m \notin Elements(q)
    <3>1. rank[m] \in Int /\ rank[n] \in Int
      BY <2>3, <2>5
    <3> QED BY <2>5, <2>7, <3>1
  <2>9. /\ w \in Seq(S) /\ Len(w) = l + 1 /\ w[1] = m
        /\ \A i \in 1 .. l : w[i + 1] = q[i]
        /\ Elements(w) = {m} \cup Elements(q)
        /\ Distinct(w)
    <3>1. m \in S /\ q \in Seq(S) /\ Distinct(q) /\ m \notin Elements(q)
      BY <2>3, <2>7, <2>8
    <3>2. /\ w \in Seq(S) /\ Len(w) = Len(q) + 1
          /\ w[1] = m
          /\ \A i \in 1 .. Len(q) : w[i + 1] = q[i]
          /\ Elements(w) = {m} \cup Elements(q)
          /\ Distinct(q) /\ m \notin Elements(q) => Distinct(w)
      BY <3>1, PrependIs
    <3> QED BY <3>1, <3>2
  <2> HIDE DEF w
  <2> HIDE DEF l
  <2>10. \A k \in 1 .. l + 1 : k # 1 => k - 1 \in 1 .. l /\ (k - 1) + 1 = k /\ w[k] = q[k - 1]
    <3>1. SUFFICES ASSUME NEW k \in 1 .. l + 1, k # 1
                   PROVE  k - 1 \in 1 .. l /\ (k - 1) + 1 = k /\ w[k] = q[k - 1]
      OBVIOUS
    <3>2. k - 1 \in 1 .. l /\ (k - 1) + 1 = k
      BY <2>7, <3>1
    <3>3. w[(k - 1) + 1] = q[k - 1]
      BY <2>9, <3>2
    <3> QED BY <3>2, <3>3
  <2>11. RunsDown(next, m, w)
    <3>1. ASSUME NEW k \in 1 .. l + 1
          PROVE  next[w[k]] = IF k = l + 1 THEN Nil ELSE w[k + 1]
      <4>1. CASE k = 1
        <5>1. next[w[k]] = n /\ k # l + 1 /\ 1 \in 1 .. l
          BY <2>7, <2>9, <4>1 DEF n
        <5>2. w[1 + 1] = q[1]
          BY <2>9, <5>1
        <5> QED BY <2>7, <4>1, <5>1, <5>2
      <4>2. CASE k # 1
        <5>1. k - 1 \in 1 .. l /\ (k - 1) + 1 = k /\ w[k] = q[k - 1]
          BY <2>10, <4>2
        <5>2. next[q[k - 1]] = IF k - 1 = l THEN Nil ELSE q[(k - 1) + 1]
          BY <2>7, <5>1
        <5>3. k # l + 1 => k \in 1 .. l
          BY <2>7, <4>2
        <5>4. k # l + 1 => w[k + 1] = q[k]
          BY <2>9, <5>3
        <5>5. k - 1 = l <=> k = l + 1
          BY <2>7
        <5> QED BY <5>1, <5>2, <5>4, <5>5
      <4> QED BY <4>1, <4>2
    <3> QED BY <2>7, <2>9, <3>1 DEF RunsDown
  <2>12. \A k \in Elements(w) : bin[k] = bin[m] /\ rank[m] <= rank[k]
    <3>1. rank[m] \in Int /\ rank[n] \in Int /\ \A k \in Elements(q) : rank[k] \in Int
      <4>1. Elements(q) \subseteq S
        BY <2>7 DEF Elements
      <4> QED BY <2>3, <2>5, <4>1
    <3> QED BY <2>5, <2>7, <2>9, <3>1
  <2>13. \A k \in 2 .. l + 1 : prev[w[k]] = w[k - 1]
    <3>1. SUFFICES ASSUME NEW k \in 2 .. l + 1 PROVE prev[w[k]] = w[k - 1]
      OBVIOUS
    <3>2. k \in 1 .. l + 1 /\ k # 1 /\ k - 1 \in 1 .. l
      BY <2>7
    <3>3. w[k] = q[k - 1]
      BY <2>10, <3>2
    <3>4. CASE k = 2
      BY <2>5, <2>7, <2>9, <3>3, <3>4
    <3>5. CASE k # 2
      <4>1. k - 1 \in 2 .. l /\ k - 1 \in 1 .. l + 1 /\ k - 1 # 1
        BY <2>7, <3>5
      <4>2. w[k - 1] = q[(k - 1) - 1]
        BY <2>10, <4>1
      <4>3. prev[q[k - 1]] = q[(k - 1) - 1]
        BY <2>7, <4>1
      <4> QED BY <3>3, <4>2, <4>3
    <3> QED BY <3>4, <3>5
  <2>14. From(m, w)
    <3>1. l + 1 # 0
      BY <2>7
    <3> QED BY <2>9, <2>11, <2>12, <2>13, <3>1
  <2> HIDE DEF From
  <2> QED BY <2>3, <2>14
<1>4. CASE h[b] = Nil
  <2>1. ListFrom(h[b], next, prev, <<>>) /\ <<>> \in Seq(S) /\ Elements(<<>>) = {}
    BY <1>4 DEF ListFrom, Distinct, RunsDown, Elements
  <2>2. {k \in S : bin[k] = b} = {}
    <3> DEFINE In == {k \in S : bin[k] = b}
               Below == [m \in S |-> {k \in S : rank[k] <= rank[m]}]
    <3>1. SUFFICES ASSUME In # {} PROVE FALSE
      OBVIOUS
    <3>2. PICK m \in In : \A n \in In : Below[n] \subseteq Below[m] => Below[n] = Below[m]
      <4>1. \A m \in In : Below[m] \subseteq S
        OBVIOUS
      <4> HIDE DEF Below, In
      <4> QED BY <3>1, <4>1, SmallestOf
    <3>3. m \in S /\ bin[m] = b /\ rank[m] \in Int
      OBVIOUS
    <3>4. prev[m] \in S /\ bin[prev[m]] = b /\ next[prev[m]] = m
      BY <1>2, <1>4, <3>3
    <3>5. rank[prev[m]] < rank[m] /\ rank[prev[m]] \in Int
      BY <1>1, <3>3, <3>4 DEF Ascending
    <3>6. Below[prev[m]] \subseteq Below[m] /\ m \notin Below[prev[m]] /\ m \in Below[m]
      <4>1. \A k \in S : rank[k] \in Int
        OBVIOUS
      <4>2. /\ Below[prev[m]] = {k \in S : rank[k] <= rank[prev[m]]}
            /\ Below[m] = {k \in S : rank[k] <= rank[m]}
        BY <3>3, <3>4
      <4> HIDE DEF Below
      <4>3. \A k \in S : rank[k] <= rank[prev[m]] => rank[k] <= rank[m]
        BY <3>3, <3>5, <4>1
      <4>4. ~(rank[m] <= rank[prev[m]]) /\ rank[m] <= rank[m]
        BY <3>3, <3>5
      <4> QED BY <3>3, <4>2, <4>3, <4>4, Zenon
    <3>7. prev[m] \in In
      BY <3>4
    <3> HIDE DEF Below, In
    <3> QED BY <3>2, <3>6, <3>7
  <2> QED BY <2>1, <2>2
<1>5. CASE h[b] # Nil
  <2>1. h[b] \in S /\ bin[h[b]] = b
    BY <1>2, <1>5
  <2>2. PICK q : From(h[b], q)
    <3> HIDE DEF From
    <3> QED BY <1>3, <2>1
  <2>3. /\ q \in Seq(S) /\ Len(q) \in Nat /\ Len(q) # 0 /\ q[1] = h[b]
        /\ \A k \in 1 .. Len(q) : next[q[k]] = IF k = Len(q) THEN Nil ELSE q[k + 1]
        /\ \A k \in Elements(q) : bin[k] = b
        /\ ListFrom(h[b], next, prev, q)
    BY <2>1, <2>2 DEF RunsDown, ListFrom
  <2> HIDE DEF From
  <2>4. Elements(q) \subseteq {k \in S : bin[k] = b}
    BY <2>3 DEF Elements
  <2> DEFINE In == {k \in S : bin[k] = b /\ k \notin Elements(q)}
             Below == [m \in S |-> {k \in S : rank[k] <= rank[m]}]
  <2>5. In = {}
    <3>1. SUFFICES ASSUME In # {} PROVE FALSE
      OBVIOUS
    <3>2. PICK m \in In : \A n \in In : Below[n] \subseteq Below[m] => Below[n] = Below[m]
      <4>1. \A m \in In : Below[m] \subseteq S
        OBVIOUS
      <4> HIDE DEF Below, In
      <4> QED BY <3>1, <4>1, SmallestOf
    <3>3. m \in S /\ bin[m] = b /\ rank[m] \in Int /\ m \notin Elements(q)
      OBVIOUS
    <3>4. q[1] \in Elements(q)
      <4>1. 1 \in 1 .. Len(q)
        BY <2>3
      <4> QED BY <4>1 DEF Elements
    <3>5. prev[m] \in S /\ bin[prev[m]] = b /\ next[prev[m]] = m
      BY <1>2, <2>3, <3>3, <3>4
    <3>6. rank[prev[m]] < rank[m] /\ rank[prev[m]] \in Int
      BY <1>1, <3>3, <3>5 DEF Ascending
    <3>7. Below[prev[m]] \subseteq Below[m] /\ m \notin Below[prev[m]] /\ m \in Below[m]
      <4>1. \A k \in S : rank[k] \in Int
        OBVIOUS
      <4>2. /\ Below[prev[m]] = {k \in S : rank[k] <= rank[prev[m]]}
            /\ Below[m] = {k \in S : rank[k] <= rank[m]}
        BY <3>3, <3>5
      <4> HIDE DEF Below
      <4>3. \A k \in S : rank[k] <= rank[prev[m]] => rank[k] <= rank[m]
        BY <3>3, <3>6, <4>1
      <4>4. ~(rank[m] <= rank[prev[m]]) /\ rank[m] <= rank[m]
        BY <3>3, <3>6
      <4> QED BY <3>3, <4>2, <4>3, <4>4, Zenon
    <3>8. prev[m] \notin In
      <4> HIDE DEF Below, In
      <4> QED BY <3>2, <3>7
    <3>9. PICK j \in 1 .. Len(q) : q[j] = prev[m]
      BY <3>5, <3>8 DEF Elements
    <3>10. j # Len(q) /\ q[j + 1] = m
      BY <2>3, <3>3, <3>5, <3>9
    <3>11. j + 1 \in 1 .. Len(q)
      BY <2>3, <3>10
    <3> QED BY <3>3, <3>10, <3>11 DEF Elements
  <2>6. Elements(q) = {k \in S : bin[k] = b}
    BY <2>4, <2>5
  <2> QED BY <2>3, <2>6
<1> QED BY <1>4, <1>5

(* The tables with n slots and the given bins.                             *)
TableOf(n, Places) ==
    [nmax : {n}, nlocal : Int, nghost : Int, nfree : Int, freehead : Int,
     id : [0 .. n - 1 -> Nat], xyz : [0 .. n - 1 -> Int \X Int],
     bin : [0 .. n - 1 -> Places], prev : [0 .. n - 1 -> Int],
     next : [0 .. n - 1 -> Int], nextimage : [0 .. n - 1 -> Int],
     binhead : [Places -> Int]]
SiteTables(Places) == UNION {TableOf(n, Places) : n \in Nat}

(* A table is of the kind its number of slots says.                        *)
LEMMA TableIs ==
    ASSUME NEW Places, NEW t \in SiteTables(Places)
    PROVE  t.nmax \in Nat /\ t \in TableOf(t.nmax, Places)
<1>1. PICK n \in Nat : t \in TableOf(n, Places)
  BY DEF SiteTables
<1>2. t.nmax = n
  BY <1>1 DEF TableOf
<1> QED BY <1>1, <1>2

(* A table of n slots is a table.                                          *)
LEMMA TableIn ==
    ASSUME NEW Places, NEW n \in Nat, NEW t \in TableOf(n, Places)
    PROVE  t \in SiteTables(Places) /\ t.nmax = n
BY DEF SiteTables, TableOf

(* What the calls on lists leave alone.                                    *)
RestKept(u, t) ==
    /\ u.nmax = t.nmax /\ u.nlocal = t.nlocal /\ u.nghost = t.nghost /\ u.nfree = t.nfree
    /\ u.freehead = t.freehead /\ u.id = t.id /\ u.xyz = t.xyz
    /\ u.nextimage = t.nextimage

(* What delete_from_bin() does.                                            *)
Unlinked(u, t, i, b) ==
    /\ u.next = IF t.prev[i] = Nil THEN t.next ELSE [t.next EXCEPT ![t.prev[i]] = t.next[i]]
    /\ u.binhead = IF t.prev[i] = Nil THEN [t.binhead EXCEPT ![b] = t.next[i]] ELSE t.binhead
    /\ u.prev = IF t.next[i] = Nil THEN t.prev ELSE [t.prev EXCEPT ![t.next[i]] = t.prev[i]]

(* What delete_from_bin() changes in a table.                              *)
LEMMA AfterDelete ==
    ASSUME NEW n \in Nat, NEW Places, NEW t \in TableOf(n, Places),
           NEW i \in 0 .. n - 1, NEW b \in Places
    PROVE  LET u == DeleteFromBin(t, i, b)
           IN  u \in TableOf(n, Places) /\ RestKept(u, t) /\ u.bin = t.bin /\ Unlinked(u, t, i, b)
<1> DEFINE fore == Bypassed(t, i, b)
           u == DeleteFromBin(t, i, b)
<1>1. t.next[i] \in Int /\ t.prev[i] \in Int
  BY DEF TableOf
<1>2. /\ fore \in TableOf(n, Places) /\ RestKept(fore, t) /\ fore.bin = t.bin
      /\ fore.next = IF t.prev[i] = Nil THEN t.next ELSE [t.next EXCEPT ![t.prev[i]] = t.next[i]]
      /\ fore.binhead = IF t.prev[i] = Nil THEN [t.binhead EXCEPT ![b] = t.next[i]] ELSE t.binhead
      /\ fore.prev = t.prev
  <2>1. CASE t.prev[i] = Nil
    <3>1. fore = [t EXCEPT !.binhead[b] = t.next[i]]
      BY <2>1 DEF Bypassed
    <3> HIDE DEF fore
    <3> QED BY <1>1, <2>1, <3>1 DEF TableOf, RestKept
  <2>2. CASE t.prev[i] # Nil
    <3>1. fore = [t EXCEPT !.next[t.prev[i]] = t.next[i]]
      BY <2>2 DEF Bypassed
    <3> HIDE DEF fore
    <3> QED BY <1>1, <2>2, <3>1 DEF TableOf, RestKept
  <2> QED BY <2>1, <2>2
<1>3. u = IF t.next[i] = Nil THEN fore ELSE [fore EXCEPT !.prev[t.next[i]] = t.prev[i]]
  BY DEF DeleteFromBin
<1> HIDE DEF fore, u
<1>4. CASE t.next[i] = Nil
  <2>1. u = fore
    BY <1>3, <1>4
  <2> QED BY <1>2, <1>4, <2>1 DEF Unlinked, u
<1>5. CASE t.next[i] # Nil
  <2>1. u = [fore EXCEPT !.prev[t.next[i]] = t.prev[i]]
    BY <1>3, <1>5
  <2>2. /\ u \in TableOf(n, Places) /\ RestKept(u, fore) /\ u.bin = fore.bin
        /\ u.next = fore.next /\ u.binhead = fore.binhead
        /\ u.prev = [fore.prev EXCEPT ![t.next[i]] = t.prev[i]]
    BY <1>1, <1>2, <2>1 DEF TableOf, RestKept
  <2>3. RestKept(u, t)
    BY <1>2, <2>2 DEF RestKept
  <2> QED BY <1>2, <1>5, <2>2, <2>3 DEF Unlinked, u
<1> QED BY <1>4, <1>5

(* What add_to_bin() does.                                                 *)
Linked(u, t, i, b) ==
    /\ u.binhead = [t.binhead EXCEPT ![b] = i]
    /\ u.next = [t.next EXCEPT ![i] = t.binhead[b]]
    /\ u.prev = IF t.binhead[b] = Nil THEN [t.prev EXCEPT ![i] = Nil]
                ELSE [[t.prev EXCEPT ![i] = Nil] EXCEPT ![t.binhead[b]] = i]

(* What add_to_bin() changes in a table.                                   *)
LEMMA AfterAdd ==
    ASSUME NEW n \in Nat, NEW Places, NEW t \in TableOf(n, Places),
           NEW i \in 0 .. n - 1, NEW b \in Places
    PROVE  LET u == AddToBin(t, i, b)
           IN  u \in TableOf(n, Places) /\ RestKept(u, t) /\ u.bin = t.bin /\ Linked(u, t, i, b)
<1> DEFINE front == [t EXCEPT !.binhead[b] = i, !.next[i] = t.binhead[b], !.prev[i] = Nil]
           u == AddToBin(t, i, b)
<1>0. t.binhead[b] \in Int /\ Nil \in Int /\ i \in Int
  BY DEF TableOf, Nil
<1>1. /\ front \in TableOf(n, Places) /\ RestKept(front, t) /\ front.bin = t.bin
      /\ front.binhead = [t.binhead EXCEPT ![b] = i]
      /\ front.next = [t.next EXCEPT ![i] = t.binhead[b]]
      /\ front.prev = [t.prev EXCEPT ![i] = Nil]
  BY <1>0 DEF TableOf, RestKept
<1>2. u = IF t.binhead[b] = Nil THEN front ELSE [front EXCEPT !.prev[t.binhead[b]] = i]
  BY DEF AddToBin
<1> HIDE DEF front, u
<1>3. CASE t.binhead[b] = Nil
  <2>1. u = front
    BY <1>2, <1>3
  <2> QED BY <1>1, <1>3, <2>1 DEF Linked, u
<1>4. CASE t.binhead[b] # Nil
  <2>1. u = [front EXCEPT !.prev[t.binhead[b]] = i]
    BY <1>2, <1>4
  <2>2. /\ u \in TableOf(n, Places) /\ RestKept(u, front) /\ u.bin = front.bin
        /\ u.next = front.next /\ u.binhead = front.binhead
        /\ u.prev = [front.prev EXCEPT ![t.binhead[b]] = i]
    BY <1>0, <1>1, <2>1 DEF TableOf, RestKept
  <2>3. RestKept(u, t)
    BY <1>1, <2>2 DEF RestKept
  <2> QED BY <1>1, <1>4, <2>2, <2>3 DEF Linked, u
<1> QED BY <1>3, <1>4

(* What Rebinned does: delete_from_bin(), then add_to_bin() for another.   *)
LEMMA AfterRebin ==
    ASSUME NEW n \in Nat, NEW Places, NEW t \in TableOf(n, Places),
           NEW i \in 0 .. n - 1, NEW b \in Places
    PROVE  \E v \in TableOf(n, Places) :
              LET u == [AddToBin(v, i, b) EXCEPT !.bin[i] = b]
              IN  /\ v = DeleteFromBin(t, i, t.bin[i])
                  /\ RestKept(v, t) /\ v.bin = t.bin /\ Unlinked(v, t, i, t.bin[i])
                  /\ u \in TableOf(n, Places) /\ RestKept(u, v) /\ u.bin = [v.bin EXCEPT ![i] = b]
                  /\ Linked(u, v, i, b)
<1> DEFINE v == DeleteFromBin(t, i, t.bin[i])
           w == AddToBin(v, i, b)
           u == [w EXCEPT !.bin[i] = b]
<1>1. t.bin[i] \in Places
  BY DEF TableOf
<1>2. v \in TableOf(n, Places) /\ RestKept(v, t) /\ v.bin = t.bin /\ Unlinked(v, t, i, t.bin[i])
  BY <1>1, AfterDelete
<1> HIDE DEF v
<1>3. w \in TableOf(n, Places) /\ RestKept(w, v) /\ w.bin = v.bin /\ Linked(w, v, i, b)
  BY <1>2, AfterAdd
<1> HIDE DEF w
<1>4. u \in TableOf(n, Places) /\ RestKept(u, w) /\ u.bin = [w.bin EXCEPT ![i] = b]
      /\ u.next = w.next /\ u.prev = w.prev /\ u.binhead = w.binhead
  BY <1>3 DEF TableOf, RestKept
<1>5. RestKept(u, v) /\ Linked(u, v, i, b) /\ u.bin = [v.bin EXCEPT ![i] = b]
  <2> HIDE DEF u
  <2> QED BY <1>3, <1>4 DEF RestKept, Linked
<1> QED BY <1>2, <1>4, <1>5 DEF v, w

(* What delete_owned_site(i) does after delete_from_bin(): the site in     *)
(* slot last is copied to slot i and the links to it repaired.             *)
Renumbered(u, out, i, last, free) ==
    LET p    == out.prev[last]
        n    == out.next[last]
        next == [out.next EXCEPT ![i] = n]
        prev == [out.prev EXCEPT ![i] = p]
    IN  /\ u.bin = [out.bin EXCEPT ![i] = out.bin[last]]
        /\ u.id = [out.id EXCEPT ![i] = out.id[last]]
        /\ u.xyz = [out.xyz EXCEPT ![i] = out.xyz[last]]
        /\ u.binhead = IF p = Nil THEN [out.binhead EXCEPT ![out.bin[last]] = i]
                       ELSE out.binhead
        /\ u.next = [(IF p = Nil THEN next ELSE [next EXCEPT ![p] = i])
                        EXCEPT ![last] = free]
        /\ u.prev = LET nx == IF i = p THEN i ELSE n
                    IN  IF nx = Nil THEN prev ELSE [prev EXCEPT ![nx] = i]
        /\ u.nlocal = last /\ u.freehead = last /\ u.nfree = out.nfree + 1
        /\ u.nghost = out.nghost

(* What delete_owned_site() changes in a table, apart from the lists: the  *)
(* last owned site takes the slot.                                         *)
LEMMA AfterDeleteOwned ==
    ASSUME NEW n \in Nat, NEW Places, NEW t \in TableOf(n, Places),
           NEW i \in 0 .. n - 1, t.nlocal - 1 \in 0 .. n - 1
    PROVE  /\ DeleteOwned(t, i) \in TableOf(n, Places)
           /\ Renumbered(DeleteOwned(t, i), DeleteFromBin(t, i, t.bin[i]), i,
                         t.nlocal - 1, t.freehead)
<1> DEFINE last == t.nlocal - 1
           out  == DeleteFromBin(t, i, t.bin[i])
           p    == out.prev[last]
           nn   == out.next[last]
           here == CopiedTo(out, i, last)
           fore == LinkedBefore(here, i)
           aft  == LinkedAfter(fore, i)
           u    == DeleteOwned(t, i)
<1>1. u = [aft EXCEPT !.next[last] = t.freehead, !.freehead = last,
                      !.nfree = @ + 1, !.nlocal = last]
  BY DEF DeleteOwned
<1>2. out \in TableOf(n, Places) /\ RestKept(out, t)
  <2>1. t.bin[i] \in Places
    BY DEF TableOf
  <2> QED BY <2>1, AfterDelete
<1>3. last \in 0 .. n - 1 /\ last \in Int /\ t.freehead \in Int
  BY DEF TableOf
<1> HIDE DEF u, out, last
<1>4. /\ out.id[last] \in Nat /\ out.xyz[last] \in Int \X Int /\ out.bin[last] \in Places
      /\ nn \in Int /\ p \in Int /\ out.nextimage[last] \in Int
  BY <1>2, <1>3 DEF TableOf
<1>5. /\ here \in TableOf(n, Places)
      /\ here.id = [out.id EXCEPT ![i] = out.id[last]]
      /\ here.xyz = [out.xyz EXCEPT ![i] = out.xyz[last]]
      /\ here.bin = [out.bin EXCEPT ![i] = out.bin[last]]
      /\ here.next = [out.next EXCEPT ![i] = nn] /\ here.prev = [out.prev EXCEPT ![i] = p]
      /\ here.binhead = out.binhead
      /\ here.nfree = out.nfree /\ here.nghost = out.nghost
  BY <1>2, <1>4 DEF TableOf, CopiedTo
<1>6. here.bin[i] = out.bin[last] /\ here.prev[i] = p /\ here.next[i] = nn
  <2> HIDE DEF here
  <2> QED BY <1>2, <1>5 DEF TableOf
<1> HIDE DEF here
<1>7. /\ fore \in TableOf(n, Places)
      /\ fore.id = here.id /\ fore.xyz = here.xyz /\ fore.bin = here.bin
      /\ fore.prev = here.prev
      /\ fore.binhead = IF p = Nil THEN [here.binhead EXCEPT ![out.bin[last]] = i]
                        ELSE here.binhead
      /\ fore.next = IF p = Nil THEN here.next ELSE [here.next EXCEPT ![p] = i]
      /\ fore.nfree = here.nfree /\ fore.nghost = here.nghost
  <2>0. here \in TableOf(n, Places) /\ i \in Int
    BY <1>5
  <2>1. CASE p = Nil
    <3>1. fore = [here EXCEPT !.binhead[out.bin[last]] = i]
      BY <1>6, <2>1 DEF LinkedBefore
    <3> HIDE DEF fore, p
    <3>2. fore \in TableOf(n, Places)
      BY <2>0, <3>1 DEF TableOf
    <3> QED BY <2>0, <2>1, <3>1, <3>2 DEF TableOf
  <2>2. CASE p # Nil
    <3>1. fore = [here EXCEPT !.next[p] = i]
      BY <1>6, <2>2 DEF LinkedBefore
    <3> HIDE DEF fore, p
    <3>2. fore \in TableOf(n, Places)
      BY <2>0, <3>1 DEF TableOf
    <3> QED BY <2>0, <2>2, <3>1, <3>2 DEF TableOf
  <2> QED BY <2>1, <2>2
<1> DEFINE nx == IF i = p THEN i ELSE nn
<1>8. fore.next[i] = nx
  <2>1. here.next \in [0 .. n - 1 -> Int]
    BY <1>5 DEF TableOf
  <2>2. i = p => p # Nil
    BY DEF Nil
  <2> HIDE DEF fore, p, nn
  <2> QED BY <1>6, <1>7, <2>1, <2>2
<1>9. nx \in Int
  BY <1>4
<1> HIDE DEF fore, nx
<1>10. /\ aft \in TableOf(n, Places)
       /\ aft.id = fore.id /\ aft.xyz = fore.xyz /\ aft.bin = fore.bin
       /\ aft.binhead = fore.binhead /\ aft.next = fore.next
       /\ aft.prev = IF nx = Nil THEN fore.prev ELSE [fore.prev EXCEPT ![nx] = i]
       /\ aft.nfree = fore.nfree /\ aft.nghost = fore.nghost
  <2>0. fore \in TableOf(n, Places) /\ i \in Int
    BY <1>7
  <2>1. CASE nx = Nil
    <3>1. aft = fore
      BY <1>8, <2>1 DEF LinkedAfter
    <3> HIDE DEF aft
    <3> QED BY <1>7, <2>1, <3>1
  <2>2. CASE nx # Nil
    <3>1. aft = [fore EXCEPT !.prev[nx] = i]
      BY <1>8, <2>2 DEF LinkedAfter
    <3> HIDE DEF aft
    <3>2. aft \in TableOf(n, Places)
      BY <2>0, <3>1 DEF TableOf
    <3> QED BY <2>0, <2>2, <3>1, <3>2 DEF TableOf
  <2> QED BY <2>1, <2>2
<1> HIDE DEF aft
<1>11. /\ u \in TableOf(n, Places)
       /\ u.id = aft.id /\ u.xyz = aft.xyz /\ u.bin = aft.bin /\ u.binhead = aft.binhead
       /\ u.prev = aft.prev
       /\ u.next = [aft.next EXCEPT ![last] = t.freehead]
       /\ u.nlocal = last /\ u.freehead = last /\ u.nfree = aft.nfree + 1
       /\ u.nghost = aft.nghost
  <2>1. aft \in TableOf(n, Places)
    BY <1>10
  <2> DEFINE v == [aft EXCEPT !.next[last] = t.freehead]
  <2>2. v \in TableOf(n, Places) /\ v.next = [aft.next EXCEPT ![last] = t.freehead]
    BY <1>3, <2>1 DEF TableOf
  <2>3. u = [v EXCEPT !.freehead = last, !.nfree = @ + 1, !.nlocal = last]
    BY <1>1, <2>1 DEF TableOf
  <2>4. /\ v.id = aft.id /\ v.xyz = aft.xyz /\ v.bin = aft.bin /\ v.binhead = aft.binhead
        /\ v.prev = aft.prev /\ v.nfree = aft.nfree /\ v.nghost = aft.nghost
    BY <2>1 DEF TableOf
  <2> HIDE DEF v
  <2>5. u \in TableOf(n, Places)
    <3>1. v.nfree + 1 \in Int
      BY <2>2 DEF TableOf
    <3>2. [v EXCEPT !.freehead = last] \in TableOf(n, Places)
      BY <1>3, <2>2 DEF TableOf
    <3>3. [v EXCEPT !.freehead = last, !.nfree = @ + 1] \in TableOf(n, Places)
      BY <3>1, <3>2, <2>2 DEF TableOf
    <3> QED BY <1>3, <2>3, <3>3 DEF TableOf
  <2> QED BY <1>3, <2>2, <2>3, <2>4, <2>5 DEF TableOf
<1>12. /\ u.bin = [out.bin EXCEPT ![i] = out.bin[last]]
       /\ u.id = [out.id EXCEPT ![i] = out.id[last]]
       /\ u.xyz = [out.xyz EXCEPT ![i] = out.xyz[last]]
       /\ u.binhead = IF p = Nil THEN [out.binhead EXCEPT ![out.bin[last]] = i]
                      ELSE out.binhead
       /\ u.next = [(IF p = Nil THEN [out.next EXCEPT ![i] = nn]
                     ELSE [[out.next EXCEPT ![i] = nn] EXCEPT ![p] = i])
                       EXCEPT ![last] = t.freehead]
       /\ u.nlocal = last /\ u.freehead = last /\ u.nfree = out.nfree + 1
       /\ u.nghost = out.nghost
  <2>1. /\ u.bin = here.bin /\ u.id = here.id /\ u.xyz = here.xyz
        /\ u.binhead = fore.binhead /\ u.next = [fore.next EXCEPT ![last] = t.freehead]
        /\ u.nlocal = last /\ u.freehead = last
        /\ u.nfree = out.nfree + 1 /\ u.nghost = out.nghost
    BY <1>5, <1>7, <1>10, <1>11
  <2> QED BY <1>5, <1>7, <2>1
<1>13. u.prev = IF nx = Nil THEN [out.prev EXCEPT ![i] = p]
                ELSE [[out.prev EXCEPT ![i] = p] EXCEPT ![nx] = i]
  BY <1>5, <1>7, <1>10, <1>11
<1>14. Renumbered(u, out, i, last, t.freehead)
  BY <1>12, <1>13 DEF Renumbered, nx
<1> QED BY <1>11, <1>14 DEF u, out, last

(* The lists of table t hold the sites S; the lists of the bins B start at *)
(* their heads, the others where h says.                                   *)
Keeps(t, S, B, h) ==
    /\ S \subseteq 0 .. t.nmax - 1
    /\ DOMAIN h = DOMAIN t.binhead
    /\ \A b \in B : h[b] = t.binhead[b]
    /\ Listed(h, t.next, t.prev, t.bin, S)
    /\ \A k \in S : t.bin[k] \in B /\ t.prev[k] \notin S => t.prev[k] = Nil
Alike(next, prev, bin, next2, prev2, bin2, S) ==
    \A k \in S : /\ next2[k] = next[k] /\ bin2[k] = bin[k]
                 /\ prev2[k] = prev[k] \/ {prev[k], prev2[k]} \cap S = {}

(* Only the links of these sites and the heads of these bins matter, and   *)
(* not what the first site of a list has before it.                        *)
LEMMA SameLists ==
    ASSUME NEW S, NEW h, NEW next, NEW prev, NEW bin, Listed(h, next, prev, bin, S),
           NEW next2, NEW prev2, NEW bin2,
           Alike(next, prev, bin, next2, prev2, bin2, S)
    PROVE  Listed(h, next2, prev2, bin2, S)
<1>1. HeadsIn(h, prev2, bin2, S)
  BY DEF Listed, HeadsIn, Alike
<1>2. NextIn(next2, prev2, bin2, S)
  BY DEF Listed, NextIn, Alike
<1>3. PrevIn(h, next2, prev2, bin2, S)
  BY DEF Listed, PrevIn, Alike
<1>4. \E rank \in [S -> Int] : Ascending(next2, S, rank)
  BY DEF Listed, Ascending, Alike
<1> QED BY <1>1, <1>2, <1>3, <1>4 DEF Listed

(* A change that leaves the links and bins of the sites of S alone keeps   *)
(* their lists.                                                            *)
LEMMA SameKeeps ==
    ASSUME NEW t, NEW S, NEW B, NEW h, Keeps(t, S, B, h), NEW u,
           S \subseteq 0 .. u.nmax - 1, DOMAIN u.binhead = DOMAIN t.binhead,
           \A b \in B : u.binhead[b] = t.binhead[b],
           \A k \in S : /\ u.next[k] = t.next[k] /\ u.bin[k] = t.bin[k]
                        /\ \/ u.prev[k] = t.prev[k]
                           \/ t.bin[k] \notin B /\ {t.prev[k], u.prev[k]} \cap S = {}
    PROVE  Keeps(u, S, B, h)
<1>1. Listed(h, t.next, t.prev, t.bin, S)
  BY DEF Keeps
<1>2. Listed(h, u.next, u.prev, u.bin, S)
  <2>1. Alike(t.next, t.prev, t.bin, u.next, u.prev, u.bin, S)
    BY DEF Alike
  <2> QED BY <1>1, <2>1, SameLists, Zenon
<1> QED BY <1>2 DEF Keeps

(* Who follows a site of a list, or leads it, is a site of the same bin.   *)
LEMMA NextOf ==
    ASSUME NEW t, NEW S, NEW B, NEW h, Keeps(t, S, B, h)
    PROVE  /\ Nil \notin S
           /\ \A k \in S : t.next[k] # Nil => t.next[k] \in S /\ t.bin[t.next[k]] = t.bin[k]
           /\ \A b \in DOMAIN h : h[b] # Nil => h[b] \in S /\ t.bin[h[b]] = b
           /\ \A b \in DOMAIN h : h[b] # Nil => t.prev[h[b]] \notin S
<1>1. Nil \notin S
  BY DEF Keeps, Nil
<1>2. HeadsIn(h, t.prev, t.bin, S) /\ NextIn(t.next, t.prev, t.bin, S)
  BY DEF Keeps, Listed
<1> QED BY <1>1, <1>2 DEF HeadsIn, NextIn

(* delete_from_bin() keeps the lists of the other sites, and none of them  *)
(* points to the one that left.                                            *)
LEMMA DeleteKeeps ==
    ASSUME NEW n \in Nat, NEW Places, NEW t \in TableOf(n, Places), NEW B,
           B \subseteq Places, NEW S, NEW h, Keeps(t, S, B, h), NEW i \in S,
           NEW u \in TableOf(n, Places), u.bin = t.bin, Unlinked(u, t, i, t.bin[i])
    PROVE  /\ Keeps(u, S \ {i}, B,
                    [h EXCEPT ![t.bin[i]] = IF t.prev[i] \notin S THEN t.next[i] ELSE @])
           /\ \A k \in S \ {i} : u.prev[k] # i /\ u.next[k] # i
           /\ t.prev[i] # i /\ t.next[i] # i
<1> DEFINE h2 == [h EXCEPT ![t.bin[i]] = IF t.prev[i] \notin S THEN t.next[i] ELSE @]
<1>1. /\ t.nmax = n /\ u.nmax = n /\ DOMAIN t.binhead = Places /\ DOMAIN u.binhead = Places
      /\ t.next \in [0 .. n - 1 -> Int] /\ t.prev \in [0 .. n - 1 -> Int]
      /\ t.binhead \in [Places -> Int]
  BY DEF TableOf
<1>2. S \subseteq 0 .. n - 1 /\ Nil \notin S /\ DOMAIN h = Places
  BY <1>1 DEF Keeps, Nil
<1>3. Detached(h, t.next, t.prev, t.bin, i, h2, u.next, u.prev, u.bin, S)
  <2>1. DOMAIN h2 = DOMAIN h
    OBVIOUS
  <2>2. \A b \in DOMAIN h : h2[b] = IF t.prev[i] \notin S /\ b = t.bin[i] THEN t.next[i] ELSE h[b]
    OBVIOUS
  <2>3. ASSUME NEW k \in S \ {i}
        PROVE  /\ u.bin[k] = t.bin[k]
               /\ u.next[k] = IF k = t.prev[i] THEN t.next[i] ELSE t.next[k]
               /\ u.prev[k] = IF k = t.next[i] THEN t.prev[i] ELSE t.prev[k]
    <3>1. k \in 0 .. n - 1 /\ k # Nil
      BY <1>2
    <3>2. u.next[k] = IF k = t.prev[i] THEN t.next[i] ELSE t.next[k]
      BY <1>1, <3>1 DEF Unlinked
    <3>3. u.prev[k] = IF k = t.next[i] THEN t.prev[i] ELSE t.prev[k]
      BY <1>1, <3>1 DEF Unlinked
    <3> QED BY <3>2, <3>3
  <2> HIDE DEF h2
  <2> QED BY <2>1, <2>2, <2>3 DEF Detached
<1>4. Listed(h, t.next, t.prev, t.bin, S)
  BY DEF Keeps
<1>5. DOMAIN h2 = Places
  BY <1>2
<1>6. ASSUME NEW b \in B PROVE h2[b] = u.binhead[b]
  <2>1. h[b] = t.binhead[b]
    BY DEF Keeps
  <2>2. CASE b = t.bin[i]
    <3>1. t.prev[i] \notin S <=> t.prev[i] = Nil
      BY <1>2, <2>2 DEF Keeps
    <3>2. CASE b \in Places
      <4>1. h2[b] = IF t.prev[i] \notin S THEN t.next[i] ELSE h[b]
        BY <1>2, <2>2, <3>2
      <4>2. u.binhead[b] = IF t.prev[i] = Nil THEN t.next[i] ELSE t.binhead[b]
        BY <1>1, <2>2, <3>2 DEF Unlinked
      <4> QED BY <2>1, <3>1, <4>1, <4>2
    <3>3. CASE b \notin Places
      <4>1. t.bin[i] \in Places
        BY <1>2 DEF TableOf
      <4> QED BY <2>2, <3>3, <4>1
    <3> QED BY <3>2, <3>3
  <2>3. CASE b # t.bin[i]
    <3>1. CASE b \in Places
      <4>1. h2[b] = h[b]
        BY <1>2, <2>3, <3>1
      <4>2. u.binhead[b] = t.binhead[b]
        BY <1>1, <2>3, <3>1 DEF Unlinked
      <4> QED BY <2>1, <4>1, <4>2
    <3> QED BY <3>1
  <2> QED BY <2>2, <2>3
<1> HIDE DEF h2
<1>7. /\ Listed(h2, u.next, u.prev, u.bin, S \ {i})
      /\ \A k \in S \ {i} : u.prev[k] # i /\ u.next[k] # i
      /\ t.prev[i] # i /\ t.next[i] # i
  BY <1>2, <1>3, <1>4, LeaveLists
<1>8. ASSUME NEW k \in S \ {i}, u.bin[k] \in B, u.prev[k] \notin S \ {i}
      PROVE  u.prev[k] = Nil
  <2>1. u.prev[k] = IF k = t.next[i] THEN t.prev[i] ELSE t.prev[k]
    BY <1>3 DEF Detached
  <2>2. u.prev[k] # i
    BY <1>7
  <2>3. u.prev[k] \notin S
    BY <1>8, <2>2
  <2>4. CASE k = t.next[i]
    <3>1. t.bin[k] = t.bin[i]
      <4>1. NextIn(t.next, t.prev, t.bin, S)
        BY <1>4 DEF Listed
      <4> QED BY <1>2, <2>4, <4>1 DEF NextIn
    <3>2. t.bin[i] \in B
      BY <1>8, <3>1
    <3> QED BY <2>1, <2>3, <2>4, <3>2 DEF Keeps
  <2>5. CASE k # t.next[i]
    BY <1>8, <2>1, <2>3, <2>5 DEF Keeps
  <2> QED BY <2>4, <2>5
<1>9. Keeps(u, S \ {i}, B, h2)
  BY <1>1, <1>2, <1>5, <1>6, <1>7, <1>8 DEF Keeps
<1> QED BY <1>7, <1>9 DEF h2

(* add_to_bin() keeps the lists and adds the site to the one of its bin.   *)
LEMMA AddKeeps ==
    ASSUME NEW n \in Nat, NEW Places, NEW t \in TableOf(n, Places), NEW B, B \subseteq Places,
           NEW S, NEW h, Keeps(t, S, B, h), NEW i \in (0 .. n - 1) \ S, NEW b \in B,
           \A k \in S : t.bin[k] \in B,
           NEW u \in TableOf(n, Places), u.bin[i] = b, \A k \in S : u.bin[k] = t.bin[k],
           Linked(u, t, i, b)
    PROVE  Keeps(u, S \cup {i}, B, [h EXCEPT ![b] = i])
<1> DEFINE h2 == [h EXCEPT ![b] = i]
<1>1. /\ t.nmax = n /\ u.nmax = n /\ DOMAIN t.binhead = Places /\ DOMAIN u.binhead = Places
      /\ t.next \in [0 .. n - 1 -> Int] /\ t.prev \in [0 .. n - 1 -> Int]
      /\ t.binhead \in [Places -> Int]
  BY DEF TableOf
<1>2. S \subseteq 0 .. n - 1 /\ Nil \notin S /\ DOMAIN h = Places /\ i # Nil /\ b \in Places
  BY <1>1 DEF Keeps, Nil
<1>3. Listed(h, t.next, t.prev, t.bin, S) /\ \A c \in B : h[c] = t.binhead[c]
  BY DEF Keeps
<1>4. h[b] = t.binhead[b] /\ (h[b] # Nil => h[b] \in S)
  BY <1>2, <1>3 DEF Listed, HeadsIn
<1>5. \A k \in S : (t.next[k] # Nil => t.next[k] \in S) /\ (t.prev[k] \notin S => t.prev[k] = Nil)
  BY <1>3 DEF Keeps, Listed, NextIn
<1>6. u.prev[i] = Nil
  BY <1>1, <1>4 DEF Linked
<1>7. Come(h, t.next, t.prev, t.bin, i, h2, u.next, u.prev, u.bin, S)
  <2>1. DOMAIN h2 = DOMAIN h /\ u.bin[i] \in DOMAIN h
    BY <1>2
  <2>2. \A c \in DOMAIN h : h2[c] = IF c = u.bin[i] THEN i ELSE h[c]
    OBVIOUS
  <2>3. u.next[i] = h[u.bin[i]] /\ u.prev[i] \notin S \cup {i}
    BY <1>1, <1>2, <1>4, <1>6 DEF Linked
  <2>4. ASSUME NEW k \in S
        PROVE  /\ t.prev[k] # i /\ t.next[k] # i
               /\ u.bin[k] = t.bin[k] /\ u.next[k] = t.next[k]
               /\ u.prev[k] = IF k = h[u.bin[i]] THEN i ELSE t.prev[k]
    <3>1. k \in 0 .. n - 1 /\ k # i /\ k # Nil
      BY <1>2
    <3>2. t.prev[k] # i /\ t.next[k] # i
      BY <1>2, <1>5
    <3>3. u.next[k] = t.next[k]
      BY <1>1, <3>1 DEF Linked
    <3>4. u.prev[k] = IF k = h[b] THEN i ELSE t.prev[k]
      BY <1>1, <1>4, <3>1, SMTT(30) DEF Linked
    <3> QED BY <3>2, <3>3, <3>4
  <2> HIDE DEF h2
  <2> QED BY <2>1, <2>2, <2>3, <2>4 DEF Come
<1>8. DOMAIN h2 = Places /\ \A c \in B : h2[c] = u.binhead[c]
  <2>1. \A c \in B : c \in Places /\ h[c] = t.binhead[c]
    BY <1>3
  <2> QED BY <1>1, <1>2, <2>1 DEF Linked
<1> HIDE DEF h2
<1>9. Listed(h2, u.next, u.prev, u.bin, S \cup {i})
  BY <1>2, <1>3, <1>7, JoinLists
<1>10. ASSUME NEW k \in S \cup {i}, u.prev[k] \notin S \cup {i} PROVE u.prev[k] = Nil
  <2>1. CASE k = i
    BY <1>6, <2>1
  <2>2. CASE k \in S
    <3>1. u.prev[k] = IF k = h[u.bin[i]] THEN i ELSE t.prev[k]
      BY <1>7, <2>2 DEF Come
    <3> QED BY <1>5, <1>10, <2>2, <3>1
  <2> QED BY <2>1, <2>2
<1>11. Keeps(u, S \cup {i}, B, h2)
  BY <1>1, <1>2, <1>8, <1>9, <1>10 DEF Keeps
<1> QED BY <1>11 DEF h2

(* The walk goes on from the first site of a list that is not of B; that   *)
(* site is passed.                                                         *)
LEMMA PassHead ==
    ASSUME NEW t, NEW S, NEW B, NEW h, Keeps(t, S, B, h),
           NEW b \in DOMAIN h, b \notin B, h[b] # Nil
    PROVE  Keeps(t, S \ {h[b]}, B, [h EXCEPT ![b] = t.next[h[b]]])
<1> DEFINE m == h[b]
           g == [h EXCEPT ![b] = t.next[m]]
           R == S \ {m}
<1>1. /\ HeadsIn(h, t.prev, t.bin, S) /\ NextIn(t.next, t.prev, t.bin, S)
      /\ PrevIn(h, t.next, t.prev, t.bin, S)
  BY DEF Keeps, Listed
<1>2. Nil \notin S /\ m \in S /\ t.bin[m] = b /\ t.prev[m] \notin S
  BY <1>1, NextOf
<1>3. PICK rank \in [S -> Int] : Ascending(t.next, S, rank)
  BY DEF Keeps, Listed
<1>4. ASSUME NEW k \in S, t.next[k] # Nil PROVE t.next[k] # m /\ t.next[k] \in S
  <2>1. t.next[k] \in S /\ t.prev[t.next[k]] = k
    BY <1>1, <1>4 DEF NextIn
  <2> QED BY <1>2, <2>1
<1>5. ASSUME NEW c \in DOMAIN h, c # b, h[c] # Nil PROVE h[c] # m
  BY <1>1, <1>2, <1>5 DEF HeadsIn
<1>6. HeadsIn(g, t.prev, t.bin, R)
  <2>1. ASSUME NEW c \in DOMAIN g, g[c] # Nil
        PROVE  g[c] \in R /\ t.bin[g[c]] = c /\ t.prev[g[c]] \notin R
    <3>1. CASE c = b
      <4>1. g[c] = t.next[m]
        BY <3>1
      <4> HIDE DEF g, m
      <4>2. g[c] \in S /\ t.bin[g[c]] = b /\ t.prev[g[c]] = m
        BY <1>1, <1>2, <2>1, <4>1 DEF NextIn
      <4>3. g[c] # m
        BY <1>2, <1>4, <2>1, <4>1
      <4> QED BY <3>1, <4>2, <4>3
    <3>2. CASE c # b
      <4>1. g[c] = h[c] /\ c \in DOMAIN h
        BY <3>2
      <4> HIDE DEF g, m
      <4>2. g[c] \in S /\ t.bin[g[c]] = c /\ t.prev[g[c]] \notin S
        BY <1>1, <2>1, <4>1 DEF HeadsIn
      <4> QED BY <1>5, <2>1, <3>2, <4>1, <4>2
    <3> QED BY <3>1, <3>2
  <2> QED BY <2>1 DEF HeadsIn
<1>7. NextIn(t.next, t.prev, t.bin, R)
  <2>1. ASSUME NEW k \in R, t.next[k] # Nil
        PROVE  t.next[k] \in R /\ t.bin[t.next[k]] = t.bin[k] /\ t.prev[t.next[k]] = k
    <3> HIDE DEF m
    <3> QED BY <1>1, <1>4, <2>1 DEF NextIn
  <2> QED BY <2>1 DEF NextIn
<1>8. PrevIn(g, t.next, t.prev, t.bin, R)
  <2>1. ASSUME NEW k \in R
        PROVE  IF t.prev[k] \in R THEN t.bin[t.prev[k]] = t.bin[k] /\ t.next[t.prev[k]] = k
               ELSE t.bin[k] \in DOMAIN g /\ g[t.bin[k]] = k
    <3>0. DOMAIN g = DOMAIN h
      OBVIOUS
    <3>1. CASE t.prev[k] \in R
      <4> HIDE DEF m, g
      <4> QED BY <1>1, <3>1 DEF PrevIn
    <3>2. CASE t.prev[k] = m
      <4>1. t.bin[k] = b /\ t.next[m] = k
        BY <1>1, <1>2, <3>2 DEF PrevIn
      <4>2. g[b] = t.next[m]
        OBVIOUS
      <4> HIDE DEF m, g
      <4> QED BY <3>0, <3>2, <4>1, <4>2
    <3>3. CASE t.prev[k] \notin S
      <4>1. t.bin[k] \in DOMAIN h /\ h[t.bin[k]] = k
        BY <1>1, <3>3 DEF PrevIn
      <4>2. t.bin[k] # b
        BY <4>1
      <4>3. g[t.bin[k]] = k
        BY <4>1, <4>2
      <4> HIDE DEF m, g
      <4> QED BY <3>0, <3>3, <4>1, <4>3
    <3> QED BY <3>1, <3>2, <3>3
  <2> HIDE DEF g, R
  <2> QED BY <2>1 DEF PrevIn
<1>9. Listed(g, t.next, t.prev, t.bin, R)
  <2>1. [k \in R |-> rank[k]] \in [R -> Int]
    OBVIOUS
  <2>2. Ascending(t.next, R, [k \in R |-> rank[k]])
    BY <1>3, <1>7 DEF Ascending, NextIn
  <2> HIDE DEF g, R
  <2> QED BY <1>6, <1>7, <1>8, <2>1, <2>2 DEF Listed
<1>10. ASSUME NEW k \in R, t.bin[k] \in B, t.prev[k] \notin R PROVE t.prev[k] = Nil
  <2>1. t.prev[k] # m
    <3>1. ASSUME t.prev[k] = m PROVE FALSE
      BY <1>1, <1>2, <1>10, <3>1 DEF PrevIn
    <3> QED BY <3>1
  <2>2. t.prev[k] \notin S
    BY <1>10, <2>1
  <2> QED BY <1>10, <2>2 DEF Keeps
<1>11. /\ R \subseteq 0 .. t.nmax - 1 /\ DOMAIN g = DOMAIN t.binhead
       /\ \A c \in B : g[c] = t.binhead[c]
  <2>1. \A c \in B : g[c] = h[c]
    OBVIOUS
  <2> HIDE DEF m
  <2> QED BY <2>1 DEF Keeps
<1> HIDE DEF g, R
<1>12. Keeps(t, R, B, g)
  BY <1>9, <1>10, <1>11 DEF Keeps
<1> QED BY <1>12 DEF g, R

(* The lists of some of the bins alone.                                    *)
LEMMA KeepsSome ==
    ASSUME NEW t, NEW S, NEW B, NEW h, Keeps(t, S, B, h), B \subseteq DOMAIN h,
           NEW C \in SUBSET B
    PROVE  Keeps(t, {k \in S : t.bin[k] \in C}, C,
                 [b \in DOMAIN h |-> IF b \in C THEN h[b] ELSE Nil])
<1> DEFINE R == {k \in S : t.bin[k] \in C}
           g == [b \in DOMAIN h |-> IF b \in C THEN h[b] ELSE Nil]
<1>1. /\ HeadsIn(h, t.prev, t.bin, S) /\ NextIn(t.next, t.prev, t.bin, S)
      /\ PrevIn(h, t.next, t.prev, t.bin, S)
  BY DEF Keeps, Listed
<1>2. PICK rank \in [S -> Int] : Ascending(t.next, S, rank)
  BY DEF Keeps, Listed
<1>3. HeadsIn(g, t.prev, t.bin, R)
  <2>1. ASSUME NEW c \in DOMAIN g, g[c] # Nil
        PROVE  g[c] \in R /\ t.bin[g[c]] = c /\ t.prev[g[c]] \notin R
    <3>1. c \in DOMAIN h /\ c \in C /\ g[c] = h[c]
      BY <2>1
    <3> HIDE DEF g
    <3> QED BY <1>1, <2>1, <3>1 DEF HeadsIn
  <2> QED BY <2>1 DEF HeadsIn
<1>4. NextIn(t.next, t.prev, t.bin, R)
  BY <1>1 DEF NextIn
<1>5. PrevIn(g, t.next, t.prev, t.bin, R)
  <2>1. ASSUME NEW k \in R
        PROVE  IF t.prev[k] \in R THEN t.bin[t.prev[k]] = t.bin[k] /\ t.next[t.prev[k]] = k
               ELSE t.bin[k] \in DOMAIN g /\ g[t.bin[k]] = k
    <3>1. CASE t.prev[k] \in R
      <4> HIDE DEF g
      <4> QED BY <1>1, <3>1 DEF PrevIn
    <3>2. CASE t.prev[k] \notin R
      <4>1. t.prev[k] \notin S
        BY <1>1, <3>2 DEF PrevIn
      <4>2. t.bin[k] \in DOMAIN h /\ h[t.bin[k]] = k /\ t.bin[k] \in C
        BY <1>1, <4>1 DEF PrevIn
      <4>3. t.bin[k] \in DOMAIN g /\ g[t.bin[k]] = k
        BY <4>2
      <4> HIDE DEF g, R
      <4> QED BY <3>2, <4>3
    <3> QED BY <3>1, <3>2
  <2> HIDE DEF g, R
  <2> QED BY <2>1 DEF PrevIn
<1>6. Listed(g, t.next, t.prev, t.bin, R)
  <2>1. [k \in R |-> rank[k]] \in [R -> Int]
    OBVIOUS
  <2>2. Ascending(t.next, R, [k \in R |-> rank[k]])
    BY <1>2, <1>4 DEF Ascending, NextIn
  <2> HIDE DEF g, R
  <2> QED BY <1>3, <1>4, <1>5, <2>1, <2>2 DEF Listed
<1>7. ASSUME NEW k \in R, t.prev[k] \notin R PROVE t.prev[k] = Nil
  <2>1. t.prev[k] \notin S
    BY <1>1, <1>7 DEF PrevIn
  <2> QED BY <2>1 DEF Keeps
<1>8. /\ R \subseteq 0 .. t.nmax - 1 /\ DOMAIN g = DOMAIN t.binhead
      /\ \A c \in DOMAIN h : c \in C => g[c] = h[c]
  BY DEF Keeps
<1>9. \A c \in C : g[c] = t.binhead[c]
  <2>1. SUFFICES ASSUME NEW c \in C PROVE g[c] = t.binhead[c]
    OBVIOUS
  <2>2. c \in DOMAIN h => g[c] = t.binhead[c]
    BY <1>8 DEF Keeps
  <2> QED BY <2>2
<1> HIDE DEF g, R
<1>10. Keeps(t, R, C, g)
  BY <1>6, <1>7, <1>8, <1>9 DEF Keeps
<1> QED BY <1>10 DEF g, R

(* The list of a bin is what is met on the way from its head.              *)
LEMMA InBinIs ==
    ASSUME NEW n \in Nat, NEW Places, NEW t \in TableOf(n, Places), NEW B, B \subseteq Places,
           NEW S, NEW h, Keeps(t, S, B, h), NEW b \in B
    PROVE  /\ InBin(t, b) \in Seq(S) /\ InBin(t, b) \in Seq(0 .. n - 1)
           /\ ListFrom(t.binhead[b], t.next, t.prev, InBin(t, b))
           /\ Elements(InBin(t, b)) = {k \in S : t.bin[k] = b}
<1>1. /\ t.nmax = n /\ DOMAIN t.binhead = Places /\ t.next \in [0 .. n - 1 -> Int]
      /\ S \subseteq 0 .. n - 1 /\ h[b] = t.binhead[b] /\ b \in DOMAIN h /\ Nil \notin S
  <2>1. t.nmax = n /\ DOMAIN t.binhead = Places /\ t.next \in [0 .. n - 1 -> Int]
    BY DEF TableOf
  <2>2. S \subseteq 0 .. n - 1 /\ h[b] = t.binhead[b] /\ b \in DOMAIN h
    BY <2>1 DEF Keeps
  <2>3. Nil \notin S
    BY NextOf, Zenon
  <2> QED BY <2>1, <2>2, <2>3
<1>2. IsFiniteSet(S) /\ S \subseteq Int
  <2>1. 0 \in Int /\ n - 1 \in Int
    OBVIOUS
  <2>2. IsFiniteSet(0 .. n - 1)
    BY <2>1, FS_Interval
  <2>3. S \in SUBSET (0 .. n - 1)
    BY <1>1
  <2>4. IsFiniteSet(S)
    BY <2>2, <2>3, FS_Subset, Zenon
  <2> QED BY <1>1, <2>4
<1>3. Listed(h, t.next, t.prev, t.bin, S)
  BY DEF Keeps
<1>4. PICK q : IsListOf(q, h[b], t.next, t.prev, t.bin, S, b)
  BY <1>1, <1>2, <1>3, ListOf, Zenon
<1>5. q \in Seq(S) /\ q \in Seq(0 .. n - 1)
  <2>1. q \in Seq(S) /\ S \subseteq 0 .. n - 1
    BY <1>1, <1>4 DEF IsListOf
  <2>2. ASSUME NEW i \in 1 .. Len(q) PROVE q[i] \in 0 .. n - 1
    <3>1. q[i] \in S
      BY <2>1, SMT
    <3> QED BY <2>1, <3>1, Zenon
  <2> QED BY <2>1, <2>2
<1>6. Distinct(q) /\ RunsDown(t.next, t.binhead[b], q)
  BY <1>1, <1>4 DEF ListFrom, IsListOf
<1>7. Chain(t, t.binhead[b]) = q
  BY <1>1, <1>5, <1>6, ChainIs
<1> QED BY <1>1, <1>4, <1>5, <1>7 DEF InBin, IsListOf

(* No site is before or behind itself.                                     *)
LEMMA NoSelf ==
    ASSUME NEW t, NEW S, NEW B, NEW h, Keeps(t, S, B, h), NEW k \in S
    PROVE  t.prev[k] # k /\ t.next[k] # k
<1>1. PICK rank \in [S -> Int] : Ascending(t.next, S, rank)
  BY DEF Keeps, Listed
<1>2. Nil \notin S
  BY NextOf, Zenon
<1>3. t.next[k] # k
  <2>1. SUFFICES ASSUME t.next[k] = k PROVE FALSE
    OBVIOUS
  <2>2. rank[k] < rank[k] /\ rank[k] \in Int
    BY <1>1, <1>2, <2>1 DEF Ascending
  <2> QED BY <2>2
<1>4. t.prev[k] = k => t.next[k] = k
  BY DEF Keeps, Listed, PrevIn
<1> QED BY <1>3, <1>4

(* The heads of the lists without m; those when m has the slot of l.       *)
Without(h1, h, t, m, S) ==
    h1 = [h EXCEPT ![t.bin[m]] = IF t.prev[m] \notin S THEN t.next[m] ELSE @]
Anew(h2, h, h1, l, m) == h2 = [b \in DOMAIN h |-> IF h1[b] = l THEN m ELSE h1[b]]
Parting(t, m, S, B) == m = t.nlocal - 1 => t.bin[m] \notin B /\ t.prev[m] \notin S

(* The last site has the slot of m.                                        *)
Vacated(u, t, m) ==
    LET last == t.nlocal - 1
    IN  /\ u.nlocal = last /\ u.freehead = last
        /\ u.bin = [t.bin EXCEPT ![m] = t.bin[last]]
        /\ u.id = [t.id EXCEPT ![m] = t.id[last]]
        /\ u.xyz = [t.xyz EXCEPT ![m] = t.xyz[last]]

(* delete_owned_site(m): the lists are left by m, and the site in the last *)
(* slot is in them by its new slot.  A last site that is itself deleted    *)
(* links itself back into its list, which is why it must be of no bin of B *)
(* then and the first of what is left of its list.                         *)
LEMMA DeleteOwnedKeeps ==
    ASSUME NEW n \in Nat, NEW Places, NEW t \in TableOf(n, Places), NEW B,
           B \subseteq Places, NEW S, NEW h, Keeps(t, S, B, h), NEW m \in S,
           t.nlocal - 1 \in S,
           Parting(t, m, S, B), NEW h1, Without(h1, h, t, m, S),
           NEW h2, Anew(h2, h, h1, t.nlocal - 1, m), NEW u, u = DeleteOwned(t, m)
    PROVE  u \in TableOf(n, Places) /\ Keeps(u, S \ {t.nlocal - 1}, B, h2) /\ Vacated(u, t, m)
<1> DEFINE l == t.nlocal - 1
           out == DeleteFromBin(t, m, t.bin[m])
           p == out.prev[l]
           nx == IF m = p THEN m ELSE out.next[l]
<1>a. /\ h1 = [h EXCEPT ![t.bin[m]] = IF t.prev[m] \notin S THEN t.next[m] ELSE @]
      /\ m = l => t.bin[m] \notin B /\ t.prev[m] \notin S
      /\ h2 = [b \in DOMAIN h |-> IF h1[b] = l THEN m ELSE h1[b]]
  BY DEF Without, Anew, Parting
<1> USE <1>a
<1>1. S \subseteq 0 .. n - 1 /\ t.bin \in [0 .. n - 1 -> Places] /\ Nil \notin S
  <2>1. t.nmax = n /\ t.bin \in [0 .. n - 1 -> Places]
    BY DEF TableOf
  <2>2. S \subseteq 0 .. n - 1
    BY <2>1 DEF Keeps
  <2> QED BY <2>1, <2>2 DEF Nil
<1>2. m \in 0 .. n - 1 /\ l \in 0 .. n - 1 /\ m \in S /\ l \in S /\ t.bin[m] \in Places
  BY <1>1
<1>3. out \in TableOf(n, Places) /\ RestKept(out, t) /\ out.bin = t.bin /\ Unlinked(out, t, m, t.bin[m])
  BY <1>2, AfterDelete
<1>4. /\ u \in TableOf(n, Places)
      /\ Renumbered(u, out, m, l, t.freehead)
  BY <1>2, AfterDeleteOwned
<1> HIDE DEF out, l
<1>13. u.prev = IF nx = Nil THEN [out.prev EXCEPT ![m] = p]
                ELSE [[out.prev EXCEPT ![m] = p] EXCEPT ![nx] = m]
  BY <1>4 DEF Renumbered
<1>5. /\ Keeps(out, S \ {m}, B, h1)
      /\ \A k \in S \ {m} : out.prev[k] # m /\ out.next[k] # m
      /\ t.prev[m] # m /\ t.next[m] # m
  BY <1>3, DeleteKeeps
<1>6. /\ out.next \in [0 .. n - 1 -> Int] /\ out.prev \in [0 .. n - 1 -> Int]
      /\ out.bin \in [0 .. n - 1 -> Places] /\ DOMAIN out.binhead = Places
      /\ DOMAIN u.binhead = Places /\ u.nmax = n /\ DOMAIN h1 = Places /\ DOMAIN h = Places
  <2>1. DOMAIN out.binhead = Places /\ DOMAIN u.binhead = Places /\ u.nmax = n
    BY <1>3, <1>4 DEF TableOf
  <2>2. DOMAIN h1 = Places
    BY <1>5, <2>1 DEF Keeps
  <2>3. DOMAIN h = DOMAIN h1
    OBVIOUS
  <2>4. /\ out.next \in [0 .. n - 1 -> Int] /\ out.prev \in [0 .. n - 1 -> Int]
        /\ out.bin \in [0 .. n - 1 -> Places]
    BY <1>3 DEF TableOf
  <2> QED BY <2>1, <2>2, <2>3, <2>4
<1>7. /\ u.bin = [out.bin EXCEPT ![m] = out.bin[l]]
      /\ u.binhead = IF p = Nil THEN [out.binhead EXCEPT ![out.bin[l]] = m] ELSE out.binhead
      /\ u.next = [(IF p = Nil THEN [out.next EXCEPT ![m] = out.next[l]]
                    ELSE [[out.next EXCEPT ![m] = out.next[l]] EXCEPT ![p] = m])
                      EXCEPT ![l] = t.freehead]
  BY <1>4 DEF Renumbered
<1>8. /\ u.nlocal = l /\ u.freehead = l
      /\ u.bin = [t.bin EXCEPT ![m] = t.bin[l]]
      /\ u.id = [t.id EXCEPT ![m] = t.id[l]]
      /\ u.xyz = [t.xyz EXCEPT ![m] = t.xyz[l]]
  BY <1>3, <1>4 DEF Renumbered, RestKept
<1>9. DOMAIN h2 = Places
  BY <1>6
<1>10. Keeps(u, S \ {l}, B, h2)
  <2>1. CASE m = l
    <3>1. t.bin[m] \notin B /\ t.prev[m] \notin S
      BY <2>1 DEF l
    <3>2. out.prev[m] = t.prev[m]
      <4>1. t.prev \in [0 .. n - 1 -> Int]
        BY DEF TableOf
      <4> QED BY <1>2, <1>3, <1>5, <4>1 DEF Unlinked
    <3>3. p = t.prev[m] /\ p \notin S /\ m # p /\ nx = out.next[m]
      BY <1>2, <2>1, <3>1, <3>2
    <3> HIDE DEF p, nx
    <3>4. h2 = h1
      <4>1. \A b \in DOMAIN h1 : h1[b] # Nil => h1[b] \in S \ {m}
        BY <1>5, NextOf
      <4>2. \A b \in DOMAIN h1 : h1[b] # l
        BY <1>1, <1>2, <2>1, <4>1
      <4>3. h1 = [b \in DOMAIN h1 |-> h1[b]]
        OBVIOUS
      <4> QED BY <1>6, <4>2, <4>3
    <3>5. ASSUME NEW k \in S \ {m}
          PROVE  /\ u.next[k] = out.next[k] /\ u.bin[k] = out.bin[k]
                 /\ \/ u.prev[k] = out.prev[k]
                    \/ out.bin[k] \notin B /\ {out.prev[k], u.prev[k]} \cap (S \ {m}) = {}
      <4>1. k \in 0 .. n - 1 /\ k # m /\ k # l /\ k # p
        BY <1>1, <2>1, <3>3
      <4>2. u.next[k] = out.next[k] /\ u.bin[k] = out.bin[k]
        BY <1>6, <1>7, <2>1, <4>1
      <4>3. CASE k # nx
        BY <1>13, <1>6, <4>1, <4>2, <4>3
      <4>4. CASE k = nx
        <5>1. u.prev[k] = m
          BY <1>1, <1>13, <1>6, <4>1, <4>4
        <5>2. out.next[m] = t.next[m]
          <6>1. t.next \in [0 .. n - 1 -> Int]
            BY DEF TableOf
          <6> QED BY <1>2, <1>3, <1>5, <6>1 DEF Unlinked
        <5>3. k = t.next[m] /\ k # Nil
          BY <1>1, <3>3, <4>4, <5>2
        <5>4. t.bin[k] = t.bin[m] /\ out.bin[k] \notin B
          <6>1. t.next[m] \in S /\ t.bin[t.next[m]] = t.bin[m]
            BY <5>3, NextOf
          <6> QED BY <1>3, <3>1, <5>3, <6>1
        <5>5. out.prev[k] = t.prev[m]
          <6>1. t.prev \in [0 .. n - 1 -> Int]
            BY DEF TableOf
          <6> QED BY <1>3, <4>1, <5>3, <6>1 DEF Unlinked
        <5> QED BY <3>1, <4>2, <5>1, <5>4, <5>5
      <4> QED BY <4>3, <4>4
    <3>6. ASSUME NEW b \in B PROVE u.binhead[b] = out.binhead[b]
      <4>1. out.bin[l] # b
        BY <1>3, <2>1, <3>1
      <4> QED BY <1>6, <1>7, <4>1
    <3>7. S \ {m} \subseteq 0 .. u.nmax - 1 /\ DOMAIN u.binhead = DOMAIN out.binhead
      BY <1>1, <1>6
    <3>8. Keeps(u, S \ {m}, B, h1)
      BY <1>5, <3>5, <3>6, <3>7, SameKeeps, SMTT(30)
    <3> QED BY <2>1, <3>4, <3>8
  <2>2. CASE m # l
    <3> DEFINE R == S \ {m}
               next == out.next
               prev == out.prev
    <3>1. l \in R /\ m \notin R /\ m # Nil /\ Nil \notin R /\ prev[l] # m
      BY <1>1, <1>2, <1>5, <2>2
    <3>2. nx = next[l] /\ next[l] # m
      BY <1>5, <3>1
    <3>3. Listed(h1, next, prev, out.bin, R)
      BY <1>5 DEF Keeps
    <3>4. prev[l] # l /\ next[l] # l
      BY <1>5, <3>1, NoSelf
    <3> HIDE DEF p, nx
    <3>5. p = prev[l]
      BY DEF p
    <3>6. u.bin[m] = out.bin[l] /\ u.next[m] = next[l] /\ u.prev[m] = prev[l]
      <4>1. u.bin[m] = out.bin[l]
        BY <1>2, <1>6, <1>7
      <4>2. u.next[m] = next[l]
        BY <1>2, <1>6, <1>7, <2>2, <3>1, <3>5
      <4>3. u.prev[m] = prev[l]
        BY <1>2, <1>13, <1>6, <3>2, <3>5
      <4> QED BY <4>1, <4>2, <4>3
    <3>7. ASSUME NEW k \in R \ {l}
          PROVE  /\ prev[k] # m /\ next[k] # m
                 /\ u.bin[k] = out.bin[k]
                 /\ u.next[k] = IF k = prev[l] THEN m ELSE next[k]
                 /\ u.prev[k] = IF k = next[l] THEN m ELSE prev[k]
      <4>1. k \in 0 .. n - 1 /\ k # m /\ k # l /\ k # Nil
        BY <1>1
      <4>2. u.bin[k] = out.bin[k]
        BY <1>6, <1>7, <4>1
      <4>3. u.next[k] = IF k = prev[l] THEN m ELSE next[k]
        BY <1>6, <1>7, <3>5, <4>1
      <4>4. u.prev[k] = IF k = next[l] THEN m ELSE prev[k]
        BY <1>13, <1>6, <3>2, <4>1
      <4> QED BY <1>5, <4>2, <4>3, <4>4
    <3>8. Rename(h1, next, prev, out.bin, l, m, h2, u.next, u.prev, u.bin, R)
      <4>1. DOMAIN h2 = DOMAIN h1 /\ \A b \in DOMAIN h1 : h2[b] = IF h1[b] = l THEN m ELSE h1[b]
        BY <1>6
      <4> HIDE DEF R, next, prev
      <4> QED BY <3>6, <3>7, <4>1 DEF Rename
    <3>9. Listed(h2, u.next, u.prev, u.bin, (R \ {l}) \cup {m})
      <4> HIDE DEF R, next, prev
      <4> QED BY <3>1, <3>3, <3>8, RenameLists, Zenon
    <3>10. (R \ {l}) \cup {m} = S \ {l}
      BY <1>2, <2>2
    <3>11. ASSUME NEW b \in B PROVE h2[b] = u.binhead[b]
      <4>1. h1[b] = out.binhead[b] /\ b \in Places
        BY <1>5 DEF Keeps
      <4>2. h1[b] = l => prev[l] = Nil /\ b = out.bin[l]
        <5>1. SUFFICES ASSUME h1[b] = l PROVE prev[l] = Nil /\ b = out.bin[l]
          OBVIOUS
        <5>2. l # Nil /\ b \in DOMAIN h1
          BY <1>1, <1>2, <1>6, <4>1, SMTT(30)
        <5>3. out.bin[l] = b /\ prev[l] \notin R
          BY <3>3, <5>1, <5>2 DEF Listed, HeadsIn
        <5>4. prev[l] = Nil
          BY <1>5, <3>1, <5>3 DEF Keeps
        <5> QED BY <5>3, <5>4
      <4>3. prev[l] = Nil /\ b = out.bin[l] => h1[b] = l
        BY <3>1, <3>3 DEF Listed, PrevIn
      <4>4. h2[b] = IF h1[b] = l THEN m ELSE h1[b]
        BY <1>6, <4>1
      <4>5. u.binhead[b] = IF prev[l] = Nil /\ b = out.bin[l] THEN m ELSE out.binhead[b]
        BY <1>6, <1>7, <3>5, <4>1
      <4> QED BY <4>1, <4>2, <4>3, <4>4, <4>5
    <3>12. ASSUME NEW k \in S \ {l}, u.bin[k] \in B, u.prev[k] \notin S \ {l}
           PROVE  u.prev[k] = Nil
      <4>1. CASE k = m
        <5>1. u.prev[k] = prev[l] /\ prev[l] \notin R /\ out.bin[l] \in B
          BY <3>1, <3>4, <3>6, <3>12, <4>1
        <5> QED BY <1>5, <3>1, <5>1 DEF Keeps
      <4>2. CASE k # m
        <5>1. k \in R \ {l} /\ m \in S \ {l}
          BY <1>2, <2>2, <4>2
        <5>2. u.prev[k] = IF k = next[l] THEN m ELSE prev[k]
          BY <3>7, <5>1
        <5>3. k # next[l] /\ u.prev[k] = prev[k]
          BY <3>12, <5>1, <5>2
        <5>4. prev[k] # l
          <6>1. SUFFICES ASSUME prev[k] = l PROVE FALSE
            OBVIOUS
          <6>2. next[l] = k
            BY <3>1, <3>3, <5>1, <6>1 DEF Listed, PrevIn
          <6> QED BY <5>3, <6>2
        <5>5. prev[k] \notin R /\ out.bin[k] \in B
          BY <3>7, <3>12, <5>1, <5>3, <5>4
        <5> QED BY <1>5, <5>1, <5>3, <5>5 DEF Keeps
      <4> QED BY <4>1, <4>2
    <3>13. S \ {l} \subseteq 0 .. u.nmax - 1 /\ DOMAIN h2 = DOMAIN u.binhead
      BY <1>1, <1>6, <1>9
    <3> HIDE DEF R, next, prev
    <3> QED BY <3>9, <3>10, <3>11, <3>12, <3>13 DEF Keeps
  <2> QED BY <2>1, <2>2
<1> QED BY <1>4, <1>8, <1>10 DEF l, Vacated

(* The free list, as a sequence.                                           *)
Free(t, q) ==
    /\ q \in Seq(0 .. t.nmax - 1) /\ Distinct(q)
    /\ RunsDown(t.next, t.freehead, q) /\ t.nfree = Len(q)

(* It ends with the last slot; it is in order.                             *)
ToTheEnd(t, q) == Len(q) = 0 \/ q[Len(q)] = t.nmax - 1
Consecutive(q) == \A k \in 1 .. Len(q) : q[k] = q[1] + k - 1

(* All lists hold the sites L, and every other slot is free.               *)
Whole(t, L, q) ==
    /\ Keeps(t, L, DOMAIN t.binhead, t.binhead)
    /\ Free(t, q) /\ Elements(q) = (0 .. t.nmax - 1) \ L

(* What of a site is not about lists.                                      *)
Same(u, t, K) ==
    \A k \in K : /\ u.id[k] = t.id[k] /\ u.xyz[k] = t.xyz[k] /\ u.bin[k] = t.bin[k]
                 /\ u.nextimage[k] = t.nextimage[k]

(* A change that leaves the free slots alone keeps the free list.          *)
LEMMA FreeSame ==
    ASSUME NEW t, NEW q, Free(t, q), NEW u, t.nmax \in Int, u.nmax \in Int, t.nmax <= u.nmax,
           u.freehead = t.freehead, u.nfree = t.nfree,
           \A k \in Elements(q) : u.next[k] = t.next[k]
    PROVE  Free(u, q)
<1>1. q \in Seq(0 .. t.nmax - 1) /\ Distinct(q) /\ RunsDown(t.next, t.freehead, q) /\ t.nfree = Len(q)
  BY DEF Free
<1>2. q \in Seq(0 .. u.nmax - 1)
  <2>1. ASSUME NEW k \in 1 .. Len(q) PROVE q[k] \in 0 .. u.nmax - 1
    <3>1. q[k] \in 0 .. t.nmax - 1
      BY <1>1
    <3> QED BY <3>1
  <2> QED BY <1>1, <2>1
<1>3. RunsDown(u.next, u.freehead, q)
  <2>1. \A k \in 1 .. Len(q) : q[k] \in Elements(q)
    BY DEF Elements
  <2> QED BY <1>1, <2>1 DEF RunsDown
<1> QED BY <1>1, <1>2, <1>3 DEF Free

(* A function on 1 .. n is a sequence.                                     *)
LEMMA SeqIs ==
    ASSUME NEW E, NEW n \in Nat, NEW f \in [1 .. n -> E]
    PROVE  f \in Seq(E) /\ Len(f) = n
OBVIOUS

(* In a whole table the lists of the sites of L and the free list share the*)
(* slots between them.                                                     *)
LEMMA WholeIs ==
    ASSUME NEW n \in Nat, NEW Places, NEW t \in TableOf(n, Places), NEW L, NEW q, Whole(t, L, q)
    PROVE  /\ Keeps(t, L, Places, t.binhead) /\ Free(t, q)
           /\ Elements(q) = (0 .. n - 1) \ L /\ L \subseteq 0 .. n - 1 /\ t.nmax = n
           /\ DOMAIN t.binhead = Places
<1>1. t.nmax = n /\ DOMAIN t.binhead = Places
  BY DEF TableOf
<1>2. L \subseteq 0 .. n - 1
  BY <1>1 DEF Whole, Keeps
<1> QED BY <1>1, <1>2 DEF Whole

(* The table has only become larger.                                       *)
Larger(u, t) ==
    /\ t.nmax <= u.nmax /\ u.nlocal = t.nlocal /\ u.nghost = t.nghost
    /\ u.binhead = t.binhead /\ Same(u, t, 0 .. t.nmax - 1)

(* A sequence without its first element.                                   *)
LEMMA TailIs ==
    ASSUME NEW E, NEW q \in Seq(E), Len(q) # 0, Distinct(q)
    PROVE  /\ Tail(q) \in Seq(E) /\ Len(Tail(q)) = Len(q) - 1
           /\ \A k \in 1 .. Len(q) - 1 : Tail(q)[k] = q[k + 1]
           /\ Distinct(Tail(q)) /\ q[1] \notin Elements(Tail(q))
           /\ Elements(q) = {q[1]} \cup Elements(Tail(q))
<1>1. Tail(q) \in Seq(E) /\ Len(Tail(q)) = Len(q) - 1 /\ Len(q) \in Nat
  <2>1. q # <<>>
    OBVIOUS
  <2> QED BY <2>1
<1>2. \A k \in 1 .. Len(q) - 1 : Tail(q)[k] = q[k + 1]
  OBVIOUS
<1>3. Distinct(Tail(q))
  <2>1. ASSUME NEW i \in 1 .. Len(q) - 1, NEW j \in 1 .. Len(q) - 1, Tail(q)[i] = Tail(q)[j]
        PROVE  i = j
    <3>1. i + 1 \in 1 .. Len(q) /\ j + 1 \in 1 .. Len(q) /\ q[i + 1] = q[j + 1]
      BY <1>1, <1>2, <2>1
    <3>2. i + 1 = j + 1
      BY <3>1 DEF Distinct
    <3> QED BY <3>2
  <2> QED BY <1>1, <2>1 DEF Distinct
<1>4. q[1] \notin Elements(Tail(q))
  <2>1. ASSUME NEW i \in 1 .. Len(q) - 1, Tail(q)[i] = q[1] PROVE FALSE
    <3>1. i + 1 \in 1 .. Len(q) /\ 1 \in 1 .. Len(q) /\ q[i + 1] = q[1] /\ i + 1 # 1
      BY <1>1, <1>2, <2>1
    <3> QED BY <3>1 DEF Distinct
  <2> QED BY <1>1, <2>1 DEF Elements
<1>5. Elements(q) = {q[1]} \cup Elements(Tail(q))
  <2>1. ASSUME NEW i \in 1 .. Len(q) PROVE i = 1 \/ \E k \in 1 .. Len(q) - 1 : q[i] = Tail(q)[k]
    <3>1. i # 1 => i - 1 \in 1 .. Len(q) - 1 /\ (i - 1) + 1 = i
      BY <1>1
    <3> QED BY <1>2, <3>1
  <2>2. ASSUME NEW k \in 1 .. Len(q) - 1 PROVE \E i \in 1 .. Len(q) : Tail(q)[k] = q[i]
    <3>1. k + 1 \in 1 .. Len(q)
      BY <1>1
    <3> QED BY <1>2, <3>1
  <2>3. 1 \in 1 .. Len(q)
    BY <1>1
  <2> QED BY <1>1, <2>1, <2>2, <2>3 DEF Elements
<1> QED BY <1>1, <1>2, <1>3, <1>4, <1>5

(* new_owned_site(), new_ghost_site(): slot j comes off the free list and  *)
(* into the list of b.                                                     *)
Took(u, t, L, q, j, name, x, b, q2) ==
    /\ t.nmax <= u.nmax /\ j \in (0 .. u.nmax - 1) \ L
    /\ Whole(u, L \cup {j}, q2)
    /\ u.nlocal = t.nlocal /\ u.nghost = t.nghost /\ Same(u, t, L)
    /\ u.id[j] = name /\ u.xyz[j] = x /\ u.bin[j] = b
    /\ ToTheEnd(t, q) =>
          /\ ToTheEnd(u, q2)
          /\ Consecutive(q) => Consecutive(q2) /\ j = IF Len(q) = 0 THEN t.nmax ELSE q[1]
TakenFrom(u, t, j, name, x, b) ==
    /\ j = t.freehead
    /\ u = AddToBin([t EXCEPT !.freehead = t.next[j], !.nfree = @ - 1,
                              !.id[j] = name, !.xyz[j] = x, !.bin[j] = b], j, b)

(* Taking the first free slot keeps the table whole, with one site more.   *)
LEMMA TakeFirst ==
    ASSUME NEW n \in Nat, NEW Places, NEW t \in TableOf(n, Places),
           NEW L, NEW q, Whole(t, L, q), Len(q) # 0,
           NEW name \in Nat, NEW x \in Int \X Int, NEW b \in Places,
           NEW u, NEW j, TakenFrom(u, t, j, name, x, b)
    PROVE  u \in TableOf(n, Places) /\ j = q[1] /\ Took(u, t, L, q, j, name, x, b, Tail(q))
<1> DEFINE w == [t EXCEPT !.freehead = t.next[j], !.nfree = @ - 1,
                          !.id[j] = name, !.xyz[j] = x, !.bin[j] = b]
           r == Tail(q)
<1>0. u = AddToBin(w, j, b)
  BY DEF TakenFrom
<1>1. /\ Keeps(t, L, Places, t.binhead) /\ Free(t, q)
      /\ Elements(q) = (0 .. n - 1) \ L /\ L \subseteq 0 .. n - 1 /\ t.nmax = n
      /\ DOMAIN t.binhead = Places
  BY WholeIs
<1>2. /\ q \in Seq(0 .. n - 1) /\ Distinct(q) /\ RunsDown(t.next, j, q) /\ t.nfree = Len(q)
      /\ Len(q) \in Nat
  BY <1>1 DEF Free, TakenFrom
<1>3. /\ r \in Seq(0 .. n - 1) /\ Len(r) = Len(q) - 1
      /\ \A k \in 1 .. Len(q) - 1 : r[k] = q[k + 1]
      /\ Distinct(r) /\ q[1] \notin Elements(r)
      /\ Elements(q) = {q[1]} \cup Elements(r)
  BY <1>2, TailIs
<1>4. j = q[1] /\ t.next[j] = IF Len(q) = 1 THEN Nil ELSE q[2]
  <2>1. 1 \in 1 .. Len(q) /\ 1 + 1 = 2
    BY <1>2
  <2>2. j = t.freehead
    BY DEF TakenFrom
  <2>3. j = q[1] /\ t.next[q[1]] = IF 1 = Len(q) THEN Nil ELSE q[1 + 1]
    BY <1>2, <2>1, <2>2 DEF RunsDown
  <2> QED BY <2>1, <2>3
<1>5. j \in 0 .. n - 1 /\ j \notin L
  BY <1>1, <1>3, <1>4
<1>6. /\ t.id \in [0 .. n - 1 -> Nat] /\ t.xyz \in [0 .. n - 1 -> Int \X Int]
      /\ t.bin \in [0 .. n - 1 -> Places] /\ t.next \in [0 .. n - 1 -> Int]
      /\ t.nfree \in Int /\ t.binhead \in [Places -> Int]
  BY DEF TableOf
<1>7. t.next[j] \in Int
  BY <1>5, <1>6
<1>8. /\ w \in TableOf(n, Places)
      /\ w.next = t.next /\ w.prev = t.prev /\ w.binhead = t.binhead /\ w.nextimage = t.nextimage
      /\ w.id = [t.id EXCEPT ![j] = name] /\ w.xyz = [t.xyz EXCEPT ![j] = x]
      /\ w.bin = [t.bin EXCEPT ![j] = b]
      /\ w.freehead = t.next[j] /\ w.nfree = t.nfree - 1
      /\ w.nlocal = t.nlocal /\ w.nghost = t.nghost /\ w.nmax = n
  <2> DEFINE w1 == [t EXCEPT !.freehead = t.next[j], !.nfree = @ - 1]
             w2 == [w1 EXCEPT !.id[j] = name, !.xyz[j] = x]
  <2>1. /\ w1 \in TableOf(n, Places)
        /\ w1.next = t.next /\ w1.prev = t.prev /\ w1.binhead = t.binhead
        /\ w1.nextimage = t.nextimage
        /\ w1.id = t.id /\ w1.xyz = t.xyz /\ w1.bin = t.bin
        /\ w1.freehead = t.next[j] /\ w1.nfree = t.nfree - 1
        /\ w1.nlocal = t.nlocal /\ w1.nghost = t.nghost
    <3>1. t.nfree - 1 \in Int
      BY <1>6
    <3>2. [t EXCEPT !.freehead = t.next[j]] \in TableOf(n, Places)
      BY <1>7 DEF TableOf
    <3>3. w1 \in TableOf(n, Places)
      BY <3>1, <3>2 DEF TableOf
    <3> QED BY <3>3 DEF TableOf
  <2> HIDE DEF w1
  <2>2. /\ w2 \in TableOf(n, Places)
        /\ w2.next = t.next /\ w2.prev = t.prev /\ w2.binhead = t.binhead
        /\ w2.nextimage = t.nextimage
        /\ w2.id = [t.id EXCEPT ![j] = name] /\ w2.xyz = [t.xyz EXCEPT ![j] = x]
        /\ w2.bin = t.bin
        /\ w2.freehead = t.next[j] /\ w2.nfree = t.nfree - 1
        /\ w2.nlocal = t.nlocal /\ w2.nghost = t.nghost
    BY <2>1 DEF TableOf
  <2>3. w = [w2 EXCEPT !.bin[j] = b]
    BY DEF w1
  <2> HIDE DEF w2, w
  <2> QED BY <2>2, <2>3 DEF TableOf
<1> HIDE DEF w
<1>9. u \in TableOf(n, Places) /\ RestKept(u, w) /\ u.bin = w.bin /\ Linked(u, w, j, b)
  BY <1>0, <1>5, <1>8, AfterAdd
<1>10. /\ u.nmax = n /\ u.nlocal = t.nlocal /\ u.nghost = t.nghost /\ u.nfree = t.nfree - 1
       /\ u.freehead = t.next[j]
       /\ u.id = [t.id EXCEPT ![j] = name] /\ u.xyz = [t.xyz EXCEPT ![j] = x]
       /\ u.bin = [t.bin EXCEPT ![j] = b] /\ u.nextimage = t.nextimage
       /\ u.binhead = [t.binhead EXCEPT ![b] = j]
       /\ u.next = [t.next EXCEPT ![j] = t.binhead[b]]
       /\ DOMAIN u.binhead = Places
  <2>1. /\ u.nmax = w.nmax /\ u.nlocal = w.nlocal /\ u.nghost = w.nghost /\ u.nfree = w.nfree
        /\ u.freehead = w.freehead /\ u.id = w.id /\ u.xyz = w.xyz /\ u.nextimage = w.nextimage
        /\ u.binhead = [w.binhead EXCEPT ![b] = j] /\ u.next = [w.next EXCEPT ![j] = w.binhead[b]]
    BY <1>9 DEF RestKept, Linked
  <2>2. DOMAIN u.binhead = Places
    BY <1>9 DEF TableOf
  <2> QED BY <1>8, <1>9, <2>1, <2>2
<1>11. \A k \in L : k \in 0 .. n - 1 /\ k # j
  BY <1>1, <1>5
<1>12. Keeps(w, L, Places, t.binhead)
  <2>1. \A k \in L : w.next[k] = t.next[k] /\ w.bin[k] = t.bin[k] /\ w.prev[k] = t.prev[k]
    BY <1>6, <1>8, <1>11
  <2>2. L \subseteq 0 .. w.nmax - 1 /\ DOMAIN w.binhead = DOMAIN t.binhead
        /\ \A c \in Places : w.binhead[c] = t.binhead[c]
    BY <1>1, <1>8
  <2>3. Keeps(t, L, Places, t.binhead)
    BY <1>1
  <2>4. \A k \in L : /\ w.next[k] = t.next[k] /\ w.bin[k] = t.bin[k]
                     /\ \/ w.prev[k] = t.prev[k]
                        \/ t.bin[k] \notin Places /\ {t.prev[k], w.prev[k]} \cap L = {}
    BY <2>1, Zenon
  <2>5. L \subseteq 0 .. w.nmax - 1
    BY <2>2
  <2>6. DOMAIN w.binhead = DOMAIN t.binhead
    BY <2>2
  <2>7. \A c \in Places : w.binhead[c] = t.binhead[c]
    BY <2>2
  <2> QED BY <2>3, <2>4, <2>5, <2>6, <2>7, SameKeeps, Zenon
<1>13. Keeps(u, L \cup {j}, Places, [t.binhead EXCEPT ![b] = j])
  <2>1. u.bin[j] = b /\ \A k \in L : u.bin[k] = w.bin[k] /\ w.bin[k] \in Places
    <3>1. w.bin \in [0 .. n - 1 -> Places]
      BY <1>8 DEF TableOf
    <3> QED BY <1>5, <1>6, <1>9, <1>10, <1>11, <3>1
  <2>2. j \in (0 .. n - 1) \ L
    BY <1>5
  <2>3. w \in TableOf(n, Places) /\ u \in TableOf(n, Places) /\ Linked(u, w, j, b)
    BY <1>8, <1>9
  <2>4. u.bin[j] = b /\ (\A k \in L : u.bin[k] = w.bin[k]) /\ (\A k \in L : w.bin[k] \in Places)
    BY <2>1
  <2>5. Places \subseteq Places
    OBVIOUS
  <2> QED BY <1>12, <2>2, <2>3, <2>4, <2>5, AddKeeps, ZenonT(60)
<1>14. Keeps(u, L \cup {j}, DOMAIN u.binhead, u.binhead)
  BY <1>10, <1>13
<1>15. \A k \in 1 .. Len(r) : u.next[r[k]] = t.next[r[k]] /\ r[k] \in 0 .. n - 1
  <2>1. SUFFICES ASSUME NEW k \in 1 .. Len(r)
                 PROVE  u.next[r[k]] = t.next[r[k]] /\ r[k] \in 0 .. n - 1
    OBVIOUS
  <2>2. r[k] \in Elements(r) /\ r[k] \in 0 .. n - 1
    BY <1>3 DEF Elements
  <2>3. r[k] # j
    BY <1>3, <1>4, <2>2
  <2> QED BY <1>6, <1>10, <2>2, <2>3
<1>16. RunsDown(u.next, u.freehead, r)
  <2>1. u.freehead = IF Len(r) = 0 THEN Nil ELSE r[1]
    <3>1. CASE Len(q) = 1
      BY <1>3, <1>4, <1>10, <3>1
    <3>2. CASE Len(q) # 1
      <4>1. 1 \in 1 .. Len(q) - 1 /\ Len(r) # 0
        BY <1>2, <1>3, <3>2
      <4> QED BY <1>3, <1>4, <1>10, <3>2, <4>1
    <3> QED BY <3>1, <3>2
  <2>2. ASSUME NEW k \in 1 .. Len(r)
        PROVE  u.next[r[k]] = IF k = Len(r) THEN Nil ELSE r[k + 1]
    <3>1. k \in 1 .. Len(q) - 1 /\ k + 1 \in 1 .. Len(q) /\ r[k] = q[k + 1]
      BY <1>2, <1>3
    <3>2. t.next[q[k + 1]] = IF k + 1 = Len(q) THEN Nil ELSE q[(k + 1) + 1]
      BY <1>2, <3>1 DEF RunsDown
    <3>3. k = Len(r) <=> k + 1 = Len(q)
      BY <1>2, <1>3
    <3>4. k # Len(r) => r[k + 1] = q[(k + 1) + 1]
      <4>1. k # Len(r) => k + 1 \in 1 .. Len(q) - 1
        <5>1. k \in 1 .. Len(q) - 1 /\ Len(r) = Len(q) - 1 /\ Len(q) \in Nat
          BY <1>2, <1>3, <3>1
        <5> HIDE DEF r
        <5> QED BY <5>1
      <4> QED BY <1>3, <4>1
    <3> QED BY <1>15, <3>1, <3>2, <3>3, <3>4
  <2> QED BY <2>1, <2>2 DEF RunsDown
<1>17. Free(u, r)
  BY <1>2, <1>3, <1>10, <1>16 DEF Free
<1>18. Whole(u, L \cup {j}, r)
  <2>1. Elements(r) = (0 .. n - 1) \ (L \cup {j})
    BY <1>1, <1>3, <1>4
  <2> QED BY <1>10, <1>14, <1>17, <2>1 DEF Whole
<1>19. Same(u, t, L)
  BY <1>6, <1>10, <1>11 DEF Same
<1>20. ToTheEnd(t, q) =>
          /\ ToTheEnd(u, r)
          /\ Consecutive(q) => Consecutive(r) /\ j = IF Len(q) = 0 THEN t.nmax ELSE q[1]
  <2>1. SUFFICES ASSUME ToTheEnd(t, q) PROVE ToTheEnd(u, r) /\ (Consecutive(q) => Consecutive(r))
    BY <1>4
  <2>2. ToTheEnd(u, r)
    <3>1. Len(r) # 0 => r[Len(r)] = q[Len(q)]
      <4>1. Len(r) # 0 => Len(r) \in 1 .. Len(q) - 1 /\ Len(r) + 1 = Len(q)
        BY <1>2, <1>3
      <4> QED BY <1>3, <4>1
    <3> QED BY <1>1, <1>10, <2>1, <3>1 DEF ToTheEnd
  <2>3. ASSUME Consecutive(q), NEW k \in 1 .. Len(r) PROVE r[k] = r[1] + k - 1
    <3>1. /\ k \in 1 .. Len(q) - 1 /\ 1 \in 1 .. Len(q) - 1
          /\ k + 1 \in 1 .. Len(q) /\ 2 \in 1 .. Len(q)
      BY <1>2, <1>3
    <3>2. r[k] = q[k + 1] /\ r[1] = q[2]
      BY <1>3, <3>1
    <3>3. q[k + 1] = q[1] + (k + 1) - 1 /\ q[2] = q[1] + 2 - 1
      BY <2>3, <3>1 DEF Consecutive
    <3>4. q[1] \in Int
      BY <1>4, <1>5
    <3> QED BY <3>2, <3>3, <3>4
  <2> QED BY <2>2, <2>3 DEF Consecutive
<1>21. u.id[j] = name /\ u.xyz[j] = x /\ u.bin[j] = b
  BY <1>5, <1>6, <1>10
<1>22. Took(u, t, L, q, j, name, x, b, r)
  BY <1>1, <1>5, <1>10, <1>18, <1>19, <1>20, <1>21 DEF Took
<1> QED BY <1>4, <1>9, <1>22

(* Whether a table is whole depends on its links, bins and counters only.  *)
LEMMA WholeSame ==
    ASSUME NEW t, NEW L, NEW q, Whole(t, L, q), NEW u,
           u.nmax = t.nmax, u.next = t.next, u.prev = t.prev, u.bin = t.bin,
           u.binhead = t.binhead, u.freehead = t.freehead, u.nfree = t.nfree
    PROVE  Whole(u, L, q) /\ (ToTheEnd(t, q) => ToTheEnd(u, q))
<1>1. Keeps(u, L, DOMAIN u.binhead, u.binhead)
  BY DEF Whole, Keeps
<1> QED BY <1>1 DEF Whole, Free, ToTheEnd

(* The table has one site more, in slot j.                                 *)
Obtained(u, t, L, q, j, name, x, b, q2) ==
    /\ t.nmax <= u.nmax /\ j \in (0 .. u.nmax - 1) \ L
    /\ Whole(u, L \cup {j}, q2)
    /\ u.id[j] = name /\ u.xyz[j] = x /\ u.bin[j] = b
    /\ \A k \in L : u.id[k] = t.id[k] /\ u.xyz[k] = t.xyz[k] /\ u.bin[k] = t.bin[k]
    /\ ToTheEnd(t, q) =>
          /\ ToTheEnd(u, q2)
          /\ Consecutive(q) => Consecutive(q2) /\ j = IF Len(q) = 0 THEN t.nmax ELSE q[1]

(* delete_from_bin() leaves the slot between the lists: in none of a bin   *)
(* and not free.                                                           *)
LEMMA DeleteWhole ==
    ASSUME NEW n \in Nat, NEW Places, NEW t \in TableOf(n, Places),
           NEW L, NEW q, Whole(t, L, q), NEW i \in L,
           NEW v \in TableOf(n, Places), RestKept(v, t), v.bin = t.bin,
           Unlinked(v, t, i, t.bin[i])
    PROVE  /\ Keeps(v, L \ {i}, Places, v.binhead) /\ Free(v, q)
           /\ i \in 0 .. n - 1 /\ i \notin Elements(q) /\ L \subseteq 0 .. n - 1
           /\ Elements(q) = (0 .. n - 1) \ L
<1>1. /\ Keeps(t, L, Places, t.binhead) /\ Free(t, q)
      /\ Elements(q) = (0 .. n - 1) \ L /\ L \subseteq 0 .. n - 1 /\ t.nmax = n
      /\ DOMAIN t.binhead = Places
  BY WholeIs
<1>2. i \in 0 .. n - 1 /\ i \notin Elements(q)
  BY <1>1
<1>3. t.bin \in [0 .. n - 1 -> Places] /\ t.next \in [0 .. n - 1 -> Int]
  BY DEF TableOf
<1>4. t.bin[i] \in Places
  BY <1>2, <1>3
<1>5. t.prev[i] \notin L <=> t.prev[i] = Nil
  <2>1. Nil \notin L
    BY <1>1, NextOf
  <2>2. t.prev[i] \notin L => t.prev[i] = Nil
    BY <1>1, <1>4 DEF Keeps
  <2> QED BY <2>1, <2>2
<1>6. Keeps(v, L \ {i}, Places,
            [t.binhead EXCEPT ![t.bin[i]] = IF t.prev[i] \notin L THEN t.next[i] ELSE @])
  <2>1. Places \subseteq Places
    OBVIOUS
  <2> QED BY <1>1, <2>1, DeleteKeeps, Zenon
<1>7. [t.binhead EXCEPT ![t.bin[i]] = IF t.prev[i] \notin L THEN t.next[i] ELSE @] = v.binhead
  <2>1. v.binhead = IF t.prev[i] = Nil THEN [t.binhead EXCEPT ![t.bin[i]] = t.next[i]]
                    ELSE t.binhead
    BY DEF Unlinked
  <2>2. CASE t.prev[i] = Nil
    BY <1>5, <2>1, <2>2
  <2>3. CASE t.prev[i] # Nil
    <3>1. t.binhead \in [Places -> Int]
      BY DEF TableOf
    <3> QED BY <1>5, <2>1, <2>3, <3>1
  <2> QED BY <2>2, <2>3
<1>8. Free(v, q)
  <2>1. \A k \in Elements(q) : v.next[k] = t.next[k]
    <3>1. SUFFICES ASSUME NEW k \in Elements(q) PROVE v.next[k] = t.next[k]
      OBVIOUS
    <3>2. k \in 0 .. n - 1 /\ k \notin L
      BY <1>1
    <3>3. v.next = IF t.prev[i] = Nil THEN t.next ELSE [t.next EXCEPT ![t.prev[i]] = t.next[i]]
      BY DEF Unlinked
    <3>4. t.prev[i] # Nil => k # t.prev[i]
      BY <1>5, <3>2
    <3> QED BY <1>3, <3>2, <3>3, <3>4
  <2>2. /\ t.nmax \in Int /\ v.nmax \in Int /\ t.nmax <= v.nmax
        /\ v.freehead = t.freehead /\ v.nfree = t.nfree
    BY <1>1 DEF RestKept
  <2> QED BY <1>1, <2>1, <2>2, FreeSame
<1>9. Keeps(v, L \ {i}, Places, v.binhead)
  BY <1>6, <1>7
<1> QED BY <1>1, <1>2, <1>8, <1>9

(* Rebinned: the site stays, in another list.                              *)
LEMMA RebinWhole ==
    ASSUME NEW n \in Nat, NEW Places, NEW t \in TableOf(n, Places),
           NEW L, NEW q, Whole(t, L, q), NEW i \in L, NEW b \in Places
    PROVE  LET u == [AddToBin(DeleteFromBin(t, i, t.bin[i]), i, b) EXCEPT !.bin[i] = b]
           IN  /\ u \in TableOf(n, Places) /\ RestKept(u, t)
               /\ u.bin = [t.bin EXCEPT ![i] = b] /\ Whole(u, L, q)
<1>1. L \subseteq 0 .. n - 1 /\ i \in 0 .. n - 1 /\ t.nmax = n
  BY WholeIs
<1>2. PICK v \in TableOf(n, Places) :
              LET u == [AddToBin(v, i, b) EXCEPT !.bin[i] = b]
              IN  /\ v = DeleteFromBin(t, i, t.bin[i])
                  /\ RestKept(v, t) /\ v.bin = t.bin /\ Unlinked(v, t, i, t.bin[i])
                  /\ u \in TableOf(n, Places) /\ RestKept(u, v) /\ u.bin = [v.bin EXCEPT ![i] = b]
                  /\ Linked(u, v, i, b)
  BY <1>1, AfterRebin, ZenonT(60)
<1> DEFINE u == [AddToBin(v, i, b) EXCEPT !.bin[i] = b]
<1>3. /\ v = DeleteFromBin(t, i, t.bin[i]) /\ v \in TableOf(n, Places)
      /\ RestKept(v, t) /\ v.bin = t.bin /\ Unlinked(v, t, i, t.bin[i])
      /\ u \in TableOf(n, Places) /\ RestKept(u, v) /\ u.bin = [v.bin EXCEPT ![i] = b]
      /\ Linked(u, v, i, b)
  BY <1>2
<1> HIDE DEF u
<1>4. RestKept(u, t) /\ u.bin = [t.bin EXCEPT ![i] = b] /\ t.bin \in [0 .. n - 1 -> Places]
  BY <1>3 DEF RestKept, TableOf
<1>5. /\ Keeps(v, L \ {i}, Places, v.binhead) /\ Free(v, q)
      /\ i \in 0 .. n - 1 /\ i \notin Elements(q) /\ Elements(q) = (0 .. n - 1) \ L
  <2>1. v \in TableOf(n, Places)
    BY <1>3
  <2>2. RestKept(v, t)
    BY <1>3
  <2>3. v.bin = t.bin
    BY <1>3
  <2>4. Unlinked(v, t, i, t.bin[i])
    BY <1>3
  <2> QED BY <2>1, <2>2, <2>3, <2>4, DeleteWhole, Zenon
<1>6. Keeps(u, (L \ {i}) \cup {i}, Places, [v.binhead EXCEPT ![b] = i])
  <2>1. i \in (0 .. n - 1) \ (L \ {i})
    BY <1>1
  <2>2. Places \subseteq Places
    OBVIOUS
  <2>3. \A k \in L \ {i} : v.bin[k] \in Places
    BY <1>1, <1>3, <1>4
  <2>4. u.bin[i] = b
    BY <1>1, <1>4
  <2>5. \A k \in L \ {i} : u.bin[k] = v.bin[k]
    BY <1>1, <1>3, <1>4
  <2>6. v \in TableOf(n, Places) /\ u \in TableOf(n, Places)
    BY <1>3
  <2>7. Linked(u, v, i, b)
    BY <1>3
  <2>8. Keeps(v, L \ {i}, Places, v.binhead)
    BY <1>5
  <2> QED BY <2>1, <2>2, <2>3, <2>4, <2>5, <2>6, <2>7, <2>8, AddKeeps, Zenon
<1>7. Keeps(u, L, DOMAIN u.binhead, u.binhead)
  <2>1. u.binhead = [v.binhead EXCEPT ![b] = i]
    BY <1>3 DEF Linked
  <2>2. DOMAIN u.binhead = Places
    BY <1>3 DEF TableOf
  <2>3. (L \ {i}) \cup {i} = L
    OBVIOUS
  <2> QED BY <1>6, <2>1, <2>2, <2>3
<1>8. Free(u, q)
  <2>1. /\ v.nmax \in Int /\ u.nmax \in Int /\ v.nmax <= u.nmax
        /\ u.freehead = v.freehead /\ u.nfree = v.nfree
    BY <1>1, <1>3 DEF RestKept
  <2>2. u.next = [v.next EXCEPT ![i] = v.binhead[b]]
    BY <1>3 DEF Linked
  <2>3. v.next \in [0 .. n - 1 -> Int]
    BY DEF TableOf
  <2>4. \A k \in Elements(q) : u.next[k] = v.next[k]
    BY <1>5, <2>2, <2>3
  <2> QED BY <1>5, <2>1, <2>4, FreeSame
<1>9. Whole(u, L, q)
  <2>1. u.nmax = n
    BY <1>1, <1>4 DEF RestKept
  <2> QED BY <1>5, <1>7, <1>8, <2>1 DEF Whole
<1> QED BY <1>3, <1>4, <1>9 DEF u

(* What AddToFree does.                                                    *)
Freed(u, t, j) ==
    /\ u.nlocal = t.nlocal /\ u.nghost = t.nghost - 1
    /\ u.nfree = t.nfree + 1 /\ u.freehead = j /\ u.binhead = t.binhead
    /\ u.next = [t.next EXCEPT ![j] = t.freehead]
    /\ \A k \in (0 .. t.nmax - 1) \ {j} :
          /\ u.prev[k] = t.prev[k] /\ u.bin[k] = t.bin[k] /\ u.id[k] = t.id[k]
          /\ u.xyz[k] = t.xyz[k] /\ u.nextimage[k] = t.nextimage[k]

(* What add_to_free() changes in a table.                                  *)
LEMMA AfterFree ==
    ASSUME NEW n \in Nat, NEW Places, NoPlace \in Places, NEW t \in TableOf(n, Places),
           NEW j \in 0 .. n - 1
    PROVE  LET u == AddToFree(t, j)
           IN  u \in TableOf(n, Places) /\ Freed(u, t, j)
<1> DEFINE w == [t EXCEPT !.next[j] = t.freehead, !.freehead = j,
                          !.nfree = @ + 1, !.nghost = @ - 1]
           Reset(f, x) == [k \in 0 .. w.nmax - 1 |-> IF k \in {j} THEN x ELSE f[k]]
           u == AddToFree(t, j)
<1>1. /\ t.nfree \in Int /\ t.nghost \in Int /\ t.freehead \in Int
      /\ t.next \in [0 .. n - 1 -> Int]
  BY DEF TableOf
<1>2. /\ w \in TableOf(n, Places) /\ w.nmax = n
      /\ w.nlocal = t.nlocal /\ w.nghost = t.nghost - 1
      /\ w.nfree = t.nfree + 1 /\ w.freehead = j /\ w.binhead = t.binhead
      /\ w.next = [t.next EXCEPT ![j] = t.freehead]
      /\ w.prev = t.prev /\ w.bin = t.bin /\ w.id = t.id /\ w.xyz = t.xyz
      /\ w.nextimage = t.nextimage
  <2>1. t.nfree + 1 \in Int /\ t.nghost - 1 \in Int /\ j \in Int
    BY <1>1
  <2>2. [t.next EXCEPT ![j] = t.freehead] \in [0 .. n - 1 -> Int]
    BY <1>1
  <2>3. [t EXCEPT !.next[j] = t.freehead, !.freehead = j] \in TableOf(n, Places)
    BY <2>1, <2>2 DEF TableOf
  <2>4. w \in TableOf(n, Places)
    BY <2>1, <2>3 DEF TableOf
  <2>5. /\ w.nmax = n
        /\ w.nlocal = t.nlocal /\ w.nghost = t.nghost - 1
        /\ w.nfree = t.nfree + 1 /\ w.freehead = j /\ w.binhead = t.binhead
    BY DEF TableOf
  <2>6. /\ w.next = [t.next EXCEPT ![j] = t.freehead]
        /\ w.prev = t.prev /\ w.bin = t.bin /\ w.id = t.id /\ w.xyz = t.xyz
        /\ w.nextimage = t.nextimage
    BY DEF TableOf
  <2> QED BY <2>4, <2>5, <2>6
<1>3. u = [w EXCEPT !.id = Reset(@, NoSite), !.xyz = Reset(@, NoPlace),
                    !.bin = Reset(@, NoPlace), !.prev = Reset(@, Nil),
                    !.nextimage = Reset(@, Nil)]
  BY DEF AddToFree, Blank
<1> HIDE DEF w
<1>4. Reset(w.id, NoSite) \in [0 .. n - 1 -> Nat]
  BY <1>2 DEF TableOf, NoSite
<1>5. Reset(w.xyz, NoPlace) \in [0 .. n - 1 -> Int \X Int]
  <2>1. NoPlace \in Int \X Int
    BY DEF NoPlace
  <2> QED BY <1>2, <2>1 DEF TableOf
<1>6. Reset(w.bin, NoPlace) \in [0 .. n - 1 -> Places]
  BY <1>2 DEF TableOf
<1>7. Reset(w.prev, Nil) \in [0 .. n - 1 -> Int]
  BY <1>2 DEF TableOf, Nil
<1>8. Reset(w.nextimage, Nil) \in [0 .. n - 1 -> Int]
  BY <1>2 DEF TableOf, Nil
<1>9. /\ \A k \in (0 .. n - 1) \ {j} :
            /\ Reset(w.prev, Nil)[k] = t.prev[k] /\ Reset(w.bin, NoPlace)[k] = t.bin[k]
            /\ Reset(w.id, NoSite)[k] = t.id[k] /\ Reset(w.xyz, NoPlace)[k] = t.xyz[k]
            /\ Reset(w.nextimage, Nil)[k] = t.nextimage[k]
  BY <1>2
<1> HIDE DEF Reset, u
<1>10. /\ u \in TableOf(n, Places) /\ u.nmax = w.nmax
       /\ u.nlocal = w.nlocal /\ u.nghost = w.nghost
       /\ u.nfree = w.nfree /\ u.freehead = w.freehead /\ u.binhead = w.binhead
       /\ u.next = w.next
       /\ u.prev = Reset(w.prev, Nil) /\ u.bin = Reset(w.bin, NoPlace)
       /\ u.id = Reset(w.id, NoSite)
       /\ u.xyz = Reset(w.xyz, NoPlace) /\ u.nextimage = Reset(w.nextimage, Nil)
  BY <1>2, <1>3, <1>4, <1>5, <1>6, <1>7, <1>8, ZenonT(60) DEF TableOf
<1>11. \A k \in (0 .. n - 1) \ {j} :
                     /\ u.prev[k] = t.prev[k] /\ u.bin[k] = t.bin[k] /\ u.id[k] = t.id[k]
                     /\ u.xyz[k] = t.xyz[k] /\ u.nextimage[k] = t.nextimage[k]
  BY <1>9, <1>10
<1>12. t.nmax = n
  BY DEF TableOf
<1>13. Freed(u, t, j)
  BY <1>2, <1>10, <1>11, <1>12 DEF Freed
<1> QED BY <1>10, <1>13 DEF u

(* Taking a site out of its bin and freeing its slot keeps the table whole.*)
LEMMA DropWhole ==
    ASSUME NEW n \in Nat, NEW Places, NoPlace \in Places, NEW t \in TableOf(n, Places),
           NEW L, NEW q, Whole(t, L, q), NEW j \in L
    PROVE  LET u == AddToFree(DeleteFromBin(t, j, t.bin[j]), j)
           IN  /\ u \in TableOf(n, Places) /\ Whole(u, L \ {j}, <<j>> \o q)
               /\ Same(u, t, L \ {j}) /\ u.nlocal = t.nlocal /\ u.nghost = t.nghost - 1
<1> DEFINE v == DeleteFromBin(t, j, t.bin[j])
           u == AddToFree(v, j)
<1>1. L \subseteq 0 .. n - 1 /\ j \in 0 .. n - 1 /\ t.nmax = n
  BY WholeIs
<1>2. t.bin[j] \in Places
  BY <1>1 DEF TableOf
<1>3. /\ v \in TableOf(n, Places) /\ RestKept(v, t) /\ v.bin = t.bin
      /\ Unlinked(v, t, j, t.bin[j])
  BY <1>1, <1>2, AfterDelete
<1> HIDE DEF v
<1>4. /\ Keeps(v, L \ {j}, Places, v.binhead) /\ Free(v, q)
      /\ j \notin Elements(q) /\ Elements(q) = (0 .. n - 1) \ L
  BY <1>3, DeleteWhole, Zenon
<1>5. /\ u \in TableOf(n, Places) /\ u.nlocal = v.nlocal /\ u.nghost = v.nghost - 1
      /\ u.nfree = v.nfree + 1 /\ u.freehead = j /\ u.binhead = v.binhead
      /\ u.next = [v.next EXCEPT ![j] = v.freehead]
      /\ \A k \in (0 .. n - 1) \ {j} :
                     /\ u.prev[k] = v.prev[k] /\ u.bin[k] = v.bin[k] /\ u.id[k] = v.id[k]
                     /\ u.xyz[k] = v.xyz[k] /\ u.nextimage[k] = v.nextimage[k]
  <2>1. u \in TableOf(n, Places) /\ Freed(u, v, j)
    BY <1>1, <1>3, AfterFree, Zenon
  <2> HIDE DEF u
  <2>2. v.nmax = n
    BY <1>3 DEF TableOf
  <2> QED BY <2>1, <2>2 DEF Freed
<1> HIDE DEF u
<1>6. /\ u.nmax = n /\ v.nmax = n /\ v.next \in [0 .. n - 1 -> Int]
      /\ DOMAIN u.binhead = Places /\ DOMAIN v.binhead = Places
  BY <1>3, <1>5 DEF TableOf
<1>7. L \ {j} \subseteq (0 .. n - 1) \ {j}
  BY <1>1
<1>8. \A k \in L \ {j} : u.next[k] = v.next[k]
  BY <1>5, <1>6, <1>7
<1>9. Keeps(u, L \ {j}, DOMAIN u.binhead, u.binhead)
  <2>1. \A k \in L \ {j} : /\ u.next[k] = v.next[k] /\ u.bin[k] = v.bin[k]
                           /\ \/ u.prev[k] = v.prev[k]
                              \/ v.bin[k] \notin Places /\ {v.prev[k], u.prev[k]} \cap (L \ {j}) = {}
    BY <1>5, <1>7, <1>8
  <2>2. L \ {j} \subseteq 0 .. u.nmax - 1
    BY <1>6, <1>7
  <2>3. DOMAIN u.binhead = DOMAIN v.binhead
    BY <1>6
  <2>4. \A b \in Places : u.binhead[b] = v.binhead[b]
    BY <1>5
  <2>5. Keeps(u, L \ {j}, Places, v.binhead)
    BY <1>4, <2>1, <2>2, <2>3, <2>4, SameKeeps, Zenon
  <2> QED BY <1>5, <1>6, <2>5
<1>10. /\ q \in Seq(0 .. n - 1) /\ Distinct(q) /\ RunsDown(v.next, v.freehead, q)
       /\ v.nfree = Len(q) /\ Len(q) \in Nat
  BY <1>4, <1>6 DEF Free
<1> DEFINE r == <<j>> \o q
<1>11. /\ r \in Seq(0 .. n - 1) /\ Len(r) = Len(q) + 1 /\ r[1] = j
       /\ \A k \in 1 .. Len(q) : r[k + 1] = q[k]
       /\ Elements(r) = {j} \cup Elements(q) /\ Distinct(r)
  <2>1. Distinct(q) /\ q \in Seq(0 .. n - 1) /\ j \notin Elements(q) /\ j \in 0 .. n - 1
    BY <1>1, <1>4, <1>10
  <2> QED BY <1>10, <2>1, PrependIs, SMTT(30)
<1> HIDE DEF r
<1>12. RunsDown(u.next, u.freehead, r)
  <2>1. u.freehead = IF Len(r) = 0 THEN Nil ELSE r[1]
    BY <1>5, <1>10, <1>11
  <2>2. ASSUME NEW k \in 1 .. Len(r)
        PROVE  u.next[r[k]] = IF k = Len(r) THEN Nil ELSE r[k + 1]
    <3>1. CASE k = 1
      <4>1. u.next[j] = v.freehead
        BY <1>1, <1>5, <1>6
      <4>2. v.freehead = IF Len(q) = 0 THEN Nil ELSE q[1]
        BY <1>10 DEF RunsDown
      <4>3. Len(q) # 0 => r[1 + 1] = q[1]
        <5>1. Len(q) # 0 => 1 \in 1 .. Len(q)
          BY <1>10
        <5> QED BY <1>11, <5>1
      <4>4. 1 = Len(r) <=> Len(q) = 0
        BY <1>10, <1>11
      <4> QED BY <1>11, <3>1, <4>1, <4>2, <4>3, <4>4
    <3>2. CASE k # 1
      <4> DEFINE m == k - 1
      <4>1. m \in 1 .. Len(q) /\ k = m + 1
        BY <1>10, <1>11, <3>2
      <4> HIDE DEF m
      <4>2. r[k] = q[m] /\ q[m] \in Elements(q)
        BY <1>11, <4>1 DEF Elements
      <4>3. u.next[q[m]] = v.next[q[m]]
        BY <1>4, <1>5, <1>6, <4>2
      <4>4. v.next[q[m]] = IF m = Len(q) THEN Nil ELSE q[m + 1]
        BY <1>10, <4>1 DEF RunsDown
      <4>5. m = Len(q) <=> k = Len(r)
        BY <1>10, <1>11, <4>1, SMTT(30)
      <4>6. m # Len(q) => r[k + 1] = q[m + 1]
        <5>1. m # Len(q) => m + 1 \in 1 .. Len(q)
          BY <1>10, <4>1
        <5> QED BY <1>11, <4>1, <5>1
      <4> QED BY <4>2, <4>3, <4>4, <4>5, <4>6
    <3> QED BY <3>1, <3>2
  <2> QED BY <2>1, <2>2 DEF RunsDown
<1>13. Free(u, r)
  <2>1. u.nfree = Len(r)
    BY <1>5, <1>10, <1>11
  <2> QED BY <1>6, <1>11, <1>12, <2>1 DEF Free
<1>14. Whole(u, L \ {j}, r)
  <2>1. Elements(r) = (0 .. n - 1) \ (L \ {j})
    BY <1>1, <1>4, <1>11
  <2> QED BY <1>6, <1>9, <1>13, <2>1 DEF Whole
<1>15. Same(u, t, L \ {j}) /\ u.nlocal = t.nlocal /\ u.nghost = t.nghost - 1
  BY <1>3, <1>5, <1>7 DEF Same, RestKept
<1> QED BY <1>5, <1>14, <1>15 DEF u, v, r

(* What delete_all_ghosts() does.                                          *)
Bared(u, t, G) ==
    /\ u.nlocal = t.nlocal /\ u.nghost = 0 /\ u.nfree = t.nmax - t.nlocal
    /\ u.freehead = (IF t.nmax > t.nlocal THEN t.nlocal ELSE t.freehead)
    /\ \A b \in DOMAIN t.binhead : u.binhead[b] = IF b \in G THEN Nil ELSE t.binhead[b]
    /\ \A k \in 0 .. t.nmax - 1 :
          u.next[k] = IF k < t.nlocal THEN t.next[k]
                      ELSE IF k = t.nmax - 1 THEN Nil ELSE k + 1
    /\ \A k \in 0 .. t.nlocal - 1 : u.prev[k] = t.prev[k]
    /\ Same(u, t, 0 .. t.nlocal - 1)

(* What deleting all ghost sites changes in a table.                       *)
LEMMA AfterBare ==
    ASSUME NEW n \in Nat, NEW Places, NoPlace \in Places, NEW t \in TableOf(n, Places),
           t.nlocal \in 0 .. n, NEW G
    PROVE  LET u == DeleteAllGhosts(t, G) IN u \in TableOf(n, Places) /\ Bared(u, t, G)
<1> DEFINE fh == IF t.nmax > t.nlocal THEN t.nlocal ELSE t.freehead
           nx == [k \in 0 .. t.nmax - 1 |-> IF k < t.nlocal THEN t.next[k]
                                            ELSE IF k = t.nmax - 1 THEN Nil ELSE k + 1]
           bh == [b \in DOMAIN t.binhead |-> IF b \in G THEN Nil ELSE t.binhead[b]]
           w == [t EXCEPT !.freehead = IF t.nmax > t.nlocal THEN t.nlocal ELSE @,
                          !.next = nx, !.nfree = t.nmax - t.nlocal, !.nghost = 0,
                          !.binhead = bh]
           Reset(f, x) == [k \in 0 .. w.nmax - 1 |-> IF k \in t.nlocal .. t.nmax - 1 THEN x ELSE f[k]]
           u == DeleteAllGhosts(t, G)
<1>1. /\ t.nmax = n /\ t.freehead \in Int /\ t.nlocal \in Int
      /\ t.next \in [0 .. n - 1 -> Int] /\ t.binhead \in [Places -> Int]
  BY DEF TableOf
<1>2. fh \in Int
  BY <1>1
<1>3. nx \in [0 .. n - 1 -> Int]
  BY <1>1 DEF Nil
<1>4. bh \in [Places -> Int]
  BY <1>1 DEF Nil
<1>5. w = [t EXCEPT !.freehead = fh, !.next = nx, !.nfree = t.nmax - t.nlocal, !.nghost = 0,
                    !.binhead = bh]
  OBVIOUS
<1>6. u = [w EXCEPT !.id = Reset(@, NoSite), !.xyz = Reset(@, NoPlace),
                    !.bin = Reset(@, NoPlace), !.prev = Reset(@, Nil),
                    !.nextimage = Reset(@, Nil)]
  BY DEF DeleteAllGhosts, Blank
<1> HIDE DEF w
<1>7. /\ \A k \in 0 .. n - 1 : nx[k] = IF k < t.nlocal THEN t.next[k]
                                       ELSE IF k = n - 1 THEN Nil ELSE k + 1
      /\ \A b \in Places : bh[b] = IF b \in G THEN Nil ELSE t.binhead[b]
      /\ fh = IF n > t.nlocal THEN t.nlocal ELSE t.freehead
  BY <1>1
<1> HIDE DEF nx, bh, fh
<1>8. /\ w \in TableOf(n, Places) /\ w.nmax = n
      /\ w.nlocal = t.nlocal /\ w.nghost = 0
      /\ w.nfree = n - t.nlocal /\ w.freehead = fh /\ w.binhead = bh
      /\ w.next = nx
      /\ w.prev = t.prev /\ w.bin = t.bin /\ w.id = t.id /\ w.xyz = t.xyz
      /\ w.nextimage = t.nextimage
  <2>1. n - t.nlocal \in Int /\ t.nmax - t.nlocal = n - t.nlocal
    BY <1>1
  <2>2. [t EXCEPT !.freehead = fh, !.next = nx] \in TableOf(n, Places)
    BY <1>2, <1>3 DEF TableOf
  <2>3. w \in TableOf(n, Places)
    <3> DEFINE y == [t EXCEPT !.freehead = fh, !.next = nx]
    <3>1. [y EXCEPT !.nfree = t.nmax - t.nlocal, !.nghost = 0] \in TableOf(n, Places)
      <4>1. y \in TableOf(n, Places)
        BY <2>2
      <4> HIDE DEF y
      <4>2. t.nmax - t.nlocal \in Int
        BY <2>1
      <4>3. \A d \in Int : [y EXCEPT !.nfree = d] \in TableOf(n, Places)
        BY <4>1 DEF TableOf
      <4>4. ASSUME NEW z \in TableOf(n, Places)
            PROVE  [z EXCEPT !.nghost = 0] \in TableOf(n, Places)
        <5>1. \A d \in Int : [z EXCEPT !.nghost = d] \in TableOf(n, Places)
          BY DEF TableOf
        <5> QED BY <5>1
      <4>5. [[y EXCEPT !.nfree = t.nmax - t.nlocal] EXCEPT !.nghost = 0] \in TableOf(n, Places)
        BY <4>2, <4>3, <4>4
      <4>6. [y EXCEPT !.nfree = t.nmax - t.nlocal, !.nghost = 0]
              = [[y EXCEPT !.nfree = t.nmax - t.nlocal] EXCEPT !.nghost = 0]
        OBVIOUS
      <4> QED BY <4>5, <4>6
    <3> DEFINE z == [y EXCEPT !.nfree = t.nmax - t.nlocal, !.nghost = 0]
    <3>2. w = [z EXCEPT !.binhead = bh]
      BY <1>5
    <3> HIDE DEF z
    <3>3. z \in TableOf(n, Places)
      BY <3>1 DEF z
    <3> QED BY <1>4, <3>2, <3>3 DEF TableOf
  <2>5. /\ w.nmax = n
        /\ w.nlocal = t.nlocal /\ w.nghost = 0
        /\ w.nfree = n - t.nlocal /\ w.freehead = fh /\ w.binhead = bh
        /\ w.next = nx
    BY <1>1, <1>5, <2>1 DEF TableOf
  <2>6. /\ w.prev = t.prev /\ w.bin = t.bin /\ w.id = t.id /\ w.xyz = t.xyz
        /\ w.nextimage = t.nextimage
    BY <1>5 DEF TableOf
  <2> QED BY <2>3, <2>5, <2>6
<1>9. /\ t.id \in [0 .. n - 1 -> Nat] /\ t.xyz \in [0 .. n - 1 -> Int \X Int]
      /\ t.bin \in [0 .. n - 1 -> Places] /\ t.prev \in [0 .. n - 1 -> Int]
      /\ t.nextimage \in [0 .. n - 1 -> Int]
  BY DEF TableOf
<1>10. Reset(w.id, NoSite) \in [0 .. n - 1 -> Nat]
  BY <1>8, <1>9 DEF NoSite
<1>11. Reset(w.xyz, NoPlace) \in [0 .. n - 1 -> Int \X Int]
  <2>1. NoPlace \in Int \X Int
    BY DEF NoPlace
  <2> QED BY <1>8, <1>9, <2>1
<1>12. Reset(w.bin, NoPlace) \in [0 .. n - 1 -> Places]
  BY <1>8, <1>9
<1>13. Reset(w.prev, Nil) \in [0 .. n - 1 -> Int]
  BY <1>8, <1>9 DEF Nil
<1>14. Reset(w.nextimage, Nil) \in [0 .. n - 1 -> Int]
  BY <1>8, <1>9 DEF Nil
<1>15. \A k \in 0 .. t.nlocal - 1 :
            /\ Reset(w.prev, Nil)[k] = t.prev[k] /\ Reset(w.bin, NoPlace)[k] = t.bin[k]
            /\ Reset(w.id, NoSite)[k] = t.id[k] /\ Reset(w.xyz, NoPlace)[k] = t.xyz[k]
            /\ Reset(w.nextimage, Nil)[k] = t.nextimage[k]
  <2>1. \A k \in 0 .. t.nlocal - 1 : k \in 0 .. n - 1 /\ k \notin t.nlocal .. n - 1
    BY <1>1
  <2> QED BY <1>1, <1>8, <2>1
<1> HIDE DEF Reset, u
<1>16. /\ u \in TableOf(n, Places) /\ u.nmax = w.nmax
       /\ u.nlocal = w.nlocal /\ u.nghost = w.nghost
       /\ u.nfree = w.nfree /\ u.freehead = w.freehead /\ u.binhead = w.binhead
       /\ u.next = w.next
       /\ u.prev = Reset(w.prev, Nil) /\ u.bin = Reset(w.bin, NoPlace)
       /\ u.id = Reset(w.id, NoSite)
       /\ u.xyz = Reset(w.xyz, NoPlace) /\ u.nextimage = Reset(w.nextimage, Nil)
  <2>1. /\ u \in TableOf(n, Places) /\ u.nmax = w.nmax /\ u.nlocal = w.nlocal
        /\ u.nghost = w.nghost /\ u.nfree = w.nfree /\ u.freehead = w.freehead
        /\ u.binhead = w.binhead
    BY <1>6, <1>8, <1>10, <1>11, <1>12, <1>13, <1>14, ZenonT(60) DEF TableOf
  <2>2. /\ u.next = w.next
        /\ u.prev = Reset(w.prev, Nil) /\ u.bin = Reset(w.bin, NoPlace)
        /\ u.id = Reset(w.id, NoSite)
        /\ u.xyz = Reset(w.xyz, NoPlace) /\ u.nextimage = Reset(w.nextimage, Nil)
    BY <1>6, <1>8, ZenonT(60) DEF TableOf
  <2> QED BY <2>1, <2>2
<1>17. DOMAIN t.binhead = Places
  BY <1>1
<1>18. Same(u, t, 0 .. t.nlocal - 1) /\ \A k \in 0 .. t.nlocal - 1 : u.prev[k] = t.prev[k]
  BY <1>15, <1>16 DEF Same
<1>19. \A b \in DOMAIN t.binhead : u.binhead[b] = IF b \in G THEN Nil ELSE t.binhead[b]
  BY <1>7, <1>8, <1>16, <1>17
<1>20. \A k \in 0 .. t.nmax - 1 :
          u.next[k] = IF k < t.nlocal THEN t.next[k]
                      ELSE IF k = t.nmax - 1 THEN Nil ELSE k + 1
  BY <1>1, <1>7, <1>8, <1>16
<1>21. Bared(u, t, G)
  BY <1>1, <1>7, <1>8, <1>16, <1>18, <1>19, <1>20 DEF Bared
<1> QED BY <1>16, <1>21 DEF u

(* Deleting all ghost sites leaves the owned sites in whole lists and      *)
(* chains every other slot.                                                *)
LEMMA BareWhole ==
    ASSUME NEW n \in Nat, NEW Places, NoPlace \in Places, NEW t \in TableOf(n, Places),
           t.nlocal \in 0 .. n, NEW S, NEW B \in SUBSET Places, NEW h, Keeps(t, S, B, h),
           NEW G, Places \ G \subseteq B, {k \in S : t.bin[k] \notin G} = 0 .. t.nlocal - 1,
           t.nlocal = n => t.freehead = Nil
    PROVE  LET u == DeleteAllGhosts(t, G)
           IN  /\ u \in TableOf(n, Places) /\ Same(u, t, 0 .. t.nlocal - 1)
               /\ u.nlocal = t.nlocal /\ u.nghost = 0
               /\ \E q : /\ Whole(u, 0 .. t.nlocal - 1, q) /\ ToTheEnd(u, q) /\ Consecutive(q)
                         /\ Len(q) # 0 => q[1] = t.nlocal
<1> DEFINE u == DeleteAllGhosts(t, G)
           m == t.nlocal
           L == 0 .. m - 1
           C == Places \ G
           g == [b \in DOMAIN h |-> IF b \in C THEN h[b] ELSE Nil]
           q == [k \in 1 .. n - m |-> m + k - 1]
<1>1. u \in TableOf(n, Places) /\ Bared(u, t, G)
  BY AfterBare
<1> HIDE DEF u
<1>2. /\ t.nmax = n /\ u.nmax = n /\ m \in 0 .. n /\ DOMAIN t.binhead = Places
      /\ DOMAIN u.binhead = Places /\ DOMAIN h = Places
      /\ t.bin \in [0 .. n - 1 -> Places] /\ t.prev \in [0 .. n - 1 -> Int]
      /\ \A b \in B : h[b] = t.binhead[b]
      /\ S \subseteq 0 .. n - 1
  BY <1>1 DEF TableOf, Keeps
<1>3. {k \in S : t.bin[k] \in C} = L
  BY <1>2
<1> HIDE DEF m
<1>4. Keeps(t, L, C, g)
  <2>1. C \in SUBSET B
    OBVIOUS
  <2>2. B \subseteq DOMAIN h
    BY <1>2
  <2>3. Keeps(t, {k \in S : t.bin[k] \in C}, C, g)
    BY <2>1, <2>2, KeepsSome
  <2> QED BY <1>3, <2>3, Zenon
<1>5. u.nlocal = m /\ u.nghost = 0 /\ u.nfree = n - m /\ Same(u, t, L)
  BY <1>1, <1>2 DEF Bared, m
<1>6. \A k \in L : u.next[k] = t.next[k] /\ u.bin[k] = t.bin[k] /\ u.prev[k] = t.prev[k]
  <2>1. \A k \in L : k \in 0 .. n - 1 /\ k < m
    BY <1>2
  <2> QED BY <1>1, <1>2, <1>5, <2>1 DEF Bared, Same, m
<1>7. \A b \in Places : u.binhead[b] = g[b]
  BY <1>1, <1>2 DEF Bared
<1>8. u.binhead = g
  <2>1. DOMAIN g = Places /\ g = [b \in DOMAIN g |-> g[b]]
    BY <1>2
  <2>2. u.binhead = [b \in Places |-> u.binhead[b]]
    BY <1>1 DEF TableOf
  <2> HIDE DEF g
  <2> QED BY <1>7, <2>1, <2>2
<1>9. Keeps(u, L, C, g)
  <2>1. L \subseteq 0 .. u.nmax - 1
    BY <1>2
  <2>2. \A k \in L : /\ u.next[k] = t.next[k] /\ u.bin[k] = t.bin[k]
                     /\ \/ u.prev[k] = t.prev[k]
                        \/ t.bin[k] \notin C /\ {t.prev[k], u.prev[k]} \cap L = {}
    BY <1>6
  <2>3. DOMAIN u.binhead = DOMAIN t.binhead
    BY <1>2
  <2>4. \A b \in C : u.binhead[b] = t.binhead[b]
    BY <1>2, <1>7
  <2> HIDE DEF g, C
  <2> QED BY <1>4, <2>1, <2>2, <2>3, <2>4, SameKeeps, Zenon
<1>10. Keeps(u, L, DOMAIN u.binhead, u.binhead)
  <2>1. \A k \in L : u.bin[k] \in C
    BY <1>3, <1>6
  <2> HIDE DEF g, C
  <2> QED BY <1>8, <1>9, <2>1 DEF Keeps
<1>11. /\ q \in [1 .. n - m -> 0 .. n - 1] /\ n - m \in Nat
  BY <1>2
<1>12. /\ q \in Seq(0 .. n - 1) /\ Len(q) = n - m
  <2> HIDE DEF q
  <2> QED BY <1>11, SeqIs
<1>13. \A k \in 1 .. n - m : q[k] = m + k - 1
  OBVIOUS
<1> HIDE DEF q
<1>14. m \in Nat /\ m <= n
  BY <1>2
<1>15. Distinct(q) /\ Consecutive(q) /\ ToTheEnd(u, q)
  <2>1. Distinct(q)
    BY <1>12, <1>13, <1>14 DEF Distinct
  <2>2. Consecutive(q)
    <3>1. SUFFICES ASSUME NEW k \in 1 .. n - m PROVE q[k] = q[1] + k - 1
      BY <1>12 DEF Consecutive
    <3>2. 1 \in 1 .. n - m
      BY <1>14
    <3>3. q[1] = m + 1 - 1 /\ q[k] = m + k - 1
      BY <1>13, <3>2
    <3> QED BY <1>14, <3>3
  <2>3. ToTheEnd(u, q)
    <3>1. n - m # 0 => n - m \in 1 .. n - m
      BY <1>14
    <3>2. n - m # 0 => q[n - m] = n - 1
      BY <1>13, <1>14, <3>1
    <3> QED BY <1>2, <1>12, <3>2 DEF ToTheEnd
  <2> QED BY <2>1, <2>2, <2>3
<1>16. Len(q) # 0 => q[1] = m
  <2>1. n - m # 0 => 1 \in 1 .. n - m
    BY <1>14
  <2> QED BY <1>12, <1>13, <1>14, <2>1
<1>17. RunsDown(u.next, u.freehead, q)
  <2>1. u.freehead = IF Len(q) = 0 THEN Nil ELSE q[1]
    <3>1. u.freehead = IF n > m THEN m ELSE t.freehead
      BY <1>1, <1>2 DEF Bared, m
    <3>2. n > m <=> n - m # 0
      BY <1>14
    <3>3. n - m = 0 => t.freehead = Nil
      BY <1>14 DEF m
    <3> QED BY <1>12, <1>16, <3>1, <3>2, <3>3
  <2>2. ASSUME NEW k \in 1 .. Len(q)
        PROVE  u.next[q[k]] = IF k = Len(q) THEN Nil ELSE q[k + 1]
    <3>1. q[k] = m + k - 1 /\ k \in 1 .. n - m
      BY <1>12, <1>13
    <3>2. q[k] \in 0 .. n - 1 /\ ~ (q[k] < m) /\ (q[k] = n - 1 <=> k = n - m)
          /\ q[k] + 1 = m + (k + 1) - 1 /\ (k # n - m => k + 1 \in 1 .. n - m)
      BY <1>14, <3>1
    <3>3. u.next[q[k]] = IF q[k] = n - 1 THEN Nil ELSE q[k] + 1
      BY <1>1, <1>2, <3>2 DEF Bared, m
    <3>4. k # n - m => q[k + 1] = m + (k + 1) - 1
      BY <1>13, <3>2
    <3> QED BY <1>12, <3>2, <3>3, <3>4
  <2> QED BY <2>1, <2>2 DEF RunsDown
<1>18. Elements(q) = (0 .. n - 1) \ L
  <2>1. ASSUME NEW k \in 1 .. Len(q) PROVE q[k] \in (0 .. n - 1) \ L
    BY <1>12, <1>13, <1>14
  <2>2. ASSUME NEW k \in (0 .. n - 1) \ L PROVE \E j \in 1 .. Len(q) : q[j] = k
    <3>1. k - m + 1 \in 1 .. n - m /\ m + (k - m + 1) - 1 = k
      BY <1>14
    <3> QED BY <1>12, <1>13, <3>1
  <2> QED BY <2>1, <2>2 DEF Elements
<1>19. Whole(u, L, q)
  <2>1. Free(u, q)
    BY <1>2, <1>5, <1>12, <1>15, <1>17 DEF Free
  <2> QED BY <1>2, <1>10, <1>18, <2>1 DEF Whole
<1> QED BY <1>1, <1>5, <1>15, <1>16, <1>19 DEF u, m

(* Division rounds down.                                                   *)
LEMMA DivIs ==
    ASSUME NEW a \in Int, NEW s \in Nat \ {0}
    PROVE  /\ a \div s \in Int /\ s * (a \div s) <= a /\ a < s * (a \div s) + s
OBVIOUS

(* The quotient lies where its bounds say.                                 *)
LEMMA DivBetween ==
    ASSUME NEW a \in Int, NEW s \in Nat \ {0}, NEW k \in Int, NEW l \in Int,
           s * k <= a, a < s * l
    PROVE  k <= a \div s /\ a \div s <= l - 1
<1> DEFINE d == a \div s
<1>1. d \in Int /\ s * d <= a /\ a < s * d + s
  BY DivIs
<1> HIDE DEF d
<1>2. s * k < s * (d + 1) /\ s * d < s * l
  BY <1>1
<1>3. \A x, y \in Int : s * x < s * y => x < y
  OBVIOUS
<1>4. k < d + 1 /\ d < l
  BY <1>1, <1>2, <1>3
<1> QED BY <1>1, <1>4 DEF d

(* A step to the side wraps round.                                         *)
LEMMA ModIs ==
    ASSUME NEW n \in Nat \ {0}, NEW a \in 0 .. n - 1
    PROVE  /\ (a + 1) % n = (IF a = n - 1 THEN 0 ELSE a + 1)
           /\ (a + -1) % n = (IF a = 0 THEN n - 1 ELSE a - 1)
           /\ (a + 0) % n = a
OBVIOUS

(* The row and the column of a cell.                                       *)
LEMMA DivMod ==
    ASSUME NEW n \in Nat \ {0}, NEW x \in 0 .. n - 1, NEW y \in Nat
    PROVE  (y * n + x) % n = x /\ (y * n + x) \div n = y
<1>1. (y * n + x) % n = x
  OBVIOUS
<1>2. (y * n + x) \div n = y
  OBVIOUS
<1> QED BY <1>1, <1>2

(* A row and a column number a cell.                                       *)
LEMMA ProductIs ==
    ASSUME NEW w \in Nat \ {0}, NEW v \in Nat \ {0}, NEW a \in 0 .. w - 1, NEW b \in 0 .. v - 1
    PROVE  b * w + a \in 0 .. w * v - 1
<1>1. b * w \in Int /\ b * w >= 0
  OBVIOUS
<1>2. b * w <= (v - 1) * w
  OBVIOUS
<1>3. (v - 1) * w = w * v - w
  OBVIOUS
<1>4. w * v \in Int
  OBVIOUS
<1> QED BY <1>1, <1>2, <1>3, <1>4

(* The numbers of a finite set in order.                                   *)
Ascends(f, S) ==
    /\ f \in [1 .. Cardinality(S) -> S]
    /\ \A j, k \in 1 .. Cardinality(S) : j < k => f[j] < f[k]

(* A finite set of numbers that is not empty has a largest member.         *)
LEMMA HasLargest ==
    ASSUME NEW S, IsFiniteSet(S), S \subseteq Nat, S # {}
    PROVE  \E m \in S : \A k \in S : k <= m
<1> DEFINE P == {m \in S : TRUE}
           f == [m \in P |-> {k \in S : m <= k}]
<1>1. P # {}
  OBVIOUS
<1>2. PICK m \in P : \A n \in P : f[n] \subseteq f[m] => f[n] = f[m]
  <2>1. \A m \in P : f[m] \subseteq S
    OBVIOUS
  <2> HIDE DEF f, P
  <2> QED BY <1>1, <2>1, SmallestOf
<1>3. ASSUME NEW k \in S
      PROVE  k <= m
  <2>1. SUFFICES ASSUME ~ k <= m PROVE FALSE
    OBVIOUS
  <2>2. m \in Int /\ k \in Int /\ m \in S /\ k \in P /\ \A j \in S : j \in Int
    OBVIOUS
  <2>3. f[k] = {j \in S : k <= j} /\ f[m] = {j \in S : m <= j}
    OBVIOUS
  <2> HIDE DEF f
  <2>4. \A j \in S : k <= j => m <= j
    BY <2>1, <2>2
  <2>5. f[k] \subseteq f[m]
    BY <2>3, <2>4
  <2>6. m \notin f[k] /\ m \in f[m]
    BY <2>1, <2>2, <2>3
  <2> QED BY <1>2, <2>5, <2>6
<1> QED BY <1>3

(* The members of X up to k.                                               *)
NotAbove(X, k) == {i \in X : i <= k}

(* Each number up to how many there are counts the members up to one.      *)
LEMMA CountsReached ==
    ASSUME NEW X, IsFiniteSet(X), X \subseteq Nat, NEW j \in 1 .. Cardinality(X)
    PROVE  \E k \in X : Cardinality(NotAbove(X, k)) = j
<1> DEFINE n == Cardinality(X)
           D == {d \in 0 .. n - 1 : \E k \in X : Cardinality(NotAbove(X, k)) = n - d}
<1>1. n \in Nat /\ n # 0 /\ X # {}
  BY FS_CardinalityType, FS_EmptySet
<1>2. \A k \in X : /\ IsFiniteSet(NotAbove(X, k)) /\ NotAbove(X, k) \subseteq X
                   /\ \A i : i \in NotAbove(X, k) <=> i \in X /\ i <= k
  BY FS_Subset DEF NotAbove
<1>3. 0 \in D
  <2>1. PICK m \in X : \A k \in X : k <= m
    BY <1>1, HasLargest
  <2>2. NotAbove(X, m) = X
    BY <1>2, <2>1
  <2>3. Cardinality(NotAbove(X, m)) = n - 0
    BY <1>1, <2>2
  <2>4. 0 \in 0 .. n - 1
    BY <1>1
  <2> HIDE DEF n
  <2> QED BY <2>3, <2>4
<1> HIDE DEF n
<1>4. ASSUME NEW d \in 1 .. n - 1, d - 1 \in D PROVE d \in D
  <2>1. PICK k \in X : Cardinality(NotAbove(X, k)) = n - (d - 1)
    BY <1>4
  <2> DEFINE S == NotAbove(X, k) \ {k}
  <2>2. k \in Nat /\ k \in NotAbove(X, k)
    BY <1>2
  <2>3. IsFiniteSet(S) /\ Cardinality(S) = n - d /\ S \subseteq Nat
    <3>1. Cardinality(S) = n - (d - 1) - 1 /\ IsFiniteSet(S)
      BY <1>2, <2>1, <2>2, FS_RemoveElement
    <3>2. n - (d - 1) - 1 = n - d
      BY <1>1
    <3>3. NotAbove(X, k) \subseteq Nat
      BY <1>2
    <3> HIDE DEF S
    <3>4. S \subseteq Nat
      BY <3>3 DEF S
    <3> QED BY <3>1, <3>2, <3>4
  <2>4. S # {}
    <3>1. n - d # 0
      BY <1>1
    <3> QED BY <2>3, <3>1, FS_EmptySet
  <2>5. PICK m \in S : \A i \in S : i <= m
    BY <2>3, <2>4, HasLargest
  <2>6. m \in X /\ m \in Nat /\ m <= k /\ m # k
    BY <1>2, <2>3, <2>5
  <2>7. NotAbove(X, m) = S
    <3>1. ASSUME NEW i \in X, i <= m PROVE i \in S
      <4>1. i \in Nat /\ i <= k /\ i # k
        BY <2>2, <2>6, <3>1
      <4> QED BY <1>2, <4>1
    <3>2. ASSUME NEW i \in S PROVE i \in X /\ i <= m
      BY <1>2, <2>5
    <3> QED BY <1>2, <2>6, <3>1, <3>2
  <2>8. Cardinality(NotAbove(X, m)) = n - d /\ d \in 0 .. n - 1
    BY <2>3, <2>7
  <2> QED BY <2>6, <2>8
<1>5. n - j \in Nat /\ n - j <= n - 1 /\ n - (n - j) = j
  BY <1>1 DEF n
<1>6. n - j \in D
  <2> DEFINE E == {d \in Nat : d <= n - 1 => d \in D}
  <2>1. 0 \in E
    BY <1>3
  <2>2. ASSUME NEW d \in 1 .. n - j, d - 1 \in E PROVE d \in E
    <3>1. d \in 1 .. n - 1 /\ d - 1 <= n - 1
      BY <1>1, <1>5
    <3>2. d \in D
      BY <1>4, <2>2, <3>1
    <3> HIDE DEF D
    <3> QED BY <3>1, <3>2
  <2> HIDE DEF D, E
  <2>3. n - j \in E
    BY <1>5, <2>1, <2>2, UpTo_n
  <2> QED BY <1>5, <2>3 DEF E
<1> QED BY <1>5, <1>6

(* Sorted counts the members of a finite set of numbers in ascending order.*)
LEMMA SortedAscends ==
    ASSUME NEW X, IsFiniteSet(X), X \subseteq Nat
    PROVE  Ascends(Sorted(X), X)
<1> DEFINE n == Cardinality(X)
           f == Sorted(X)
<1>1. n \in Nat
  BY FS_CardinalityType
<1>2. f = [j \in 1 .. n |-> CHOOSE k \in X : Cardinality(NotAbove(X, k)) = j]
  BY DEF Sorted, NotAbove
<1> HIDE DEF f
<1>3. \A j \in 1 .. n : f[j] \in X /\ Cardinality(NotAbove(X, f[j])) = j
  <2>1. SUFFICES ASSUME NEW j \in 1 .. n
                 PROVE  f[j] \in X /\ Cardinality(NotAbove(X, f[j])) = j
    OBVIOUS
  <2>2. \E k \in X : Cardinality(NotAbove(X, k)) = j
    BY CountsReached
  <2>3. f[j] = CHOOSE k \in X : Cardinality(NotAbove(X, k)) = j
    BY <1>2
  <2> QED BY <2>2, <2>3
<1>4. f \in [1 .. n -> X]
  BY <1>2, <1>3
<1>5. ASSUME NEW i \in 1 .. n, NEW j \in 1 .. n, i < j PROVE f[i] < f[j]
  <2>1. f[i] \in Nat /\ f[j] \in Nat
    BY <1>3
  <2>2. SUFFICES ASSUME f[j] <= f[i] PROVE FALSE
    BY <2>1
  <2>3. NotAbove(X, f[j]) \subseteq NotAbove(X, f[i]) /\ NotAbove(X, f[i]) \subseteq X
    <3>1. \A k \in X : k <= f[j] => k <= f[i]
      BY <2>1, <2>2
    <3> QED BY <3>1 DEF NotAbove
  <2>4. Cardinality(NotAbove(X, f[j])) <= Cardinality(NotAbove(X, f[i]))
    BY <2>3, FS_Subset
  <2>5. j <= i
    BY <1>3, <2>4
  <2> QED BY <1>1, <1>5, <2>5
<1> QED BY <1>4, <1>5 DEF Ascends, f

(* Sorted puts the members of a finite set of numbers in one sequence.     *)
LEMMA SortedIs ==
    ASSUME NEW S, IsFiniteSet(S), S \subseteq Nat
    PROVE  /\ Sorted(S) \in Seq(S) /\ Len(Sorted(S)) = Cardinality(S)
           /\ Cardinality(S) \in Nat
           /\ Distinct(Sorted(S)) /\ Elements(Sorted(S)) = S
<1> DEFINE f == Sorted(S)
           n == Cardinality(S)
<1>1. n \in Nat
  BY FS_CardinalityType
<1>2. Ascends(f, S)
  BY SortedAscends
<1> HIDE DEF f
<1>3. f \in [1 .. n -> S] /\ \A j, k \in 1 .. n : j < k => f[j] < f[k]
  BY <1>2 DEF Ascends
<1> HIDE DEF n
<1>4. f \in Seq(S) /\ Len(f) = n
  BY <1>1, <1>3, SeqIs
<1>5. Distinct(f)
  <2>1. SUFFICES ASSUME NEW i \in 1 .. n, NEW j \in 1 .. n, f[i] = f[j] PROVE i = j
    BY <1>4 DEF Distinct
  <2>2. f[i] \in Nat
    BY <1>3
  <2>3. ~ f[i] < f[j] /\ ~ f[j] < f[i]
    BY <2>1, <2>2
  <2>4. ~ i < j /\ ~ j < i
    BY <1>3, <2>3
  <2>5. i \in Int /\ j \in Int
    BY <1>1
  <2> QED BY <2>4, <2>5
<1>6. Elements(f) = S
  <2>1. Elements(f) \subseteq S
    BY <1>3, <1>4 DEF Elements
  <2>2. Cardinality(Elements(f)) = Cardinality(S)
    BY <1>4, <1>5, DistinctLen DEF n
  <2> QED BY <2>1, <2>2, FS_Subset
<1> QED BY <1>1, <1>4, <1>5, <1>6 DEF f, n

(* Among keeps the elements of s that are in S, each as often as s has it. *)
LEMMA AmongIs ==
    ASSUME NEW E, NEW s \in Seq(E), NEW S
    PROVE  /\ Among(s, S) \in Seq(E)
           /\ Elements(Among(s, S)) = Elements(s) \cap S
           /\ Distinct(s) => Distinct(Among(s, S))
<1> DEFINE n == Len(s)
           K == {k \in DOMAIN s : s[k] \in S}
           at == Sorted(K)
           m == Len(at)
           r == Among(s, S)
<1>1. n \in Nat /\ DOMAIN s = 1 .. n /\ \A k \in 1 .. n : s[k] \in E
  OBVIOUS
<1>2. K = {k \in 1 .. n : s[k] \in S}
  BY <1>1
<1> HIDE DEF n, K
<1>3. IsFiniteSet(K) /\ K \subseteq Nat
  <2>1. IsFiniteSet(1 .. n)
    BY <1>1, FS_Interval
  <2>2. K \in SUBSET (1 .. n)
    BY <1>2
  <2>3. 1 .. n \subseteq Nat
    OBVIOUS
  <2>4. IsFiniteSet(K)
    BY <2>1, <2>2, FS_Subset
  <2> QED BY <2>2, <2>3, <2>4
<1>4. at \in Seq(K) /\ Distinct(at) /\ Elements(at) = K
  BY <1>3, SortedIs
<1>5. r = [j \in DOMAIN at |-> s[at[j]]]
  BY DEF Among, K
<1> HIDE DEF at, r
<1>6. m \in Nat /\ DOMAIN at = 1 .. m /\ \A j \in 1 .. m : at[j] \in K
  BY <1>4
<1> HIDE DEF m
<1>7. \A j \in 1 .. m : at[j] \in 1 .. n /\ r[j] = s[at[j]]
  BY <1>2, <1>5, <1>6
<1>8. r \in [1 .. m -> E]
  BY <1>1, <1>5, <1>6, <1>7
<1>9. r \in Seq(E) /\ Len(r) = m
  BY <1>6, <1>8, SeqIs
<1>10. K = {at[j] : j \in 1 .. m}
  BY <1>4 DEF Elements, m
<1>11. Elements(r) = {r[j] : j \in 1 .. m} /\ Elements(s) = {s[k] : k \in 1 .. n}
  BY <1>9 DEF Elements, n
<1>12. Elements(r) = Elements(s) \cap S
  <2>1. ASSUME NEW j \in 1 .. m PROVE r[j] \in Elements(s) \cap S
    BY <1>2, <1>6, <1>7, <1>11
  <2>2. ASSUME NEW k \in 1 .. n, s[k] \in S PROVE s[k] \in Elements(r)
    <3>1. PICK j \in 1 .. m : at[j] = k
      BY <1>2, <1>10, <2>2
    <3> QED BY <1>7, <1>11, <3>1
  <2> QED BY <1>11, <2>1, <2>2
<1>13. ASSUME Distinct(s) PROVE Distinct(r)
  <2>1. \A i, j \in 1 .. n : s[i] = s[j] => i = j
    BY <1>13 DEF Distinct, n
  <2>2. \A i, j \in 1 .. m : at[i] = at[j] => i = j
    BY <1>4 DEF Distinct, m
  <2>3. \A i, j \in 1 .. m : r[i] = r[j] => i = j
    BY <1>7, <2>1, <2>2
  <2> QED BY <1>9, <2>3 DEF Distinct
<1> QED BY <1>9, <1>12, <1>13 DEF r

(* A table with empty bins has lists of no sites.                          *)
LEMMA EmptyKeeps ==
    ASSUME NEW t, NEW B, \A b \in DOMAIN t.binhead : t.binhead[b] = Nil, B = DOMAIN t.binhead
    PROVE  Keeps(t, {}, B, t.binhead)
<1>1. HeadsIn(t.binhead, t.prev, t.bin, {})
  BY DEF HeadsIn
<1>2. NextIn(t.next, t.prev, t.bin, {}) /\ PrevIn(t.binhead, t.next, t.prev, t.bin, {})
  BY DEF NextIn, PrevIn
<1>3. \E rank \in [{} -> Int] : Ascending(t.next, {}, rank)
  <2>1. [k \in {} |-> 0] \in [{} -> Int]
    OBVIOUS
  <2>2. Ascending(t.next, {}, [k \in {} |-> 0])
    BY DEF Ascending
  <2> QED BY <2>1, <2>2
<1>4. Listed(t.binhead, t.next, t.prev, t.bin, {})
  BY <1>1, <1>2, <1>3 DEF Listed
<1> QED BY <1>4 DEF Keeps

(* The identities of the owned sites, no two the same.                     *)
Names(t) == {t.id[k] : k \in 0 .. t.nlocal - 1}
Named(t) == \A j, k \in 0 .. t.nlocal - 1 : t.id[j] = t.id[k] => j = k

(* Rounding up to a multiple does not make a number smaller.               *)
LEMMA RoundUp ==
    ASSUME NEW a \in Nat, NEW d \in Nat \ {0}
    PROVE  LET m == ((a + d - 1) \div d) * d IN m \in Nat /\ a <= m
<1> DEFINE q == (a + d - 1) \div d
<1>1. a + d - 1 \in Int
  OBVIOUS
<1>2. q \in Int /\ d * q <= a + d - 1 /\ a + d - 1 < d * q + d
  BY <1>1, DivIs
<1> HIDE DEF q
<1>3. q * d = d * q /\ d * q \in Int
  BY <1>2
<1> DEFINE m == q * d
<1>4. m = d * q /\ m \in Int
  BY <1>3
<1> HIDE DEF m
<1>5. a + d - 1 < m + d
  BY <1>2, <1>4
<1>6. a <= m
  BY <1>4, <1>5
<1> QED BY <1>4, <1>6 DEF m, q

(* Applying a function to each element gives a sequence of the same length.*)
LEMMA MapIs ==
    ASSUME NEW E, NEW f \in Seq(E), NEW F, NEW g, DOMAIN g = DOMAIN f,
           g = [k \in DOMAIN g |-> g[k]], \A k \in 1 .. Len(f) : g[k] \in F
    PROVE  g \in Seq(F) /\ Len(g) = Len(f)
<1>1. Len(f) \in Nat /\ DOMAIN f = 1 .. Len(f)
  OBVIOUS
<1>2. g \in [1 .. Len(f) -> F]
  BY <1>1
<1> QED BY <1>1, <1>2, SeqIs, Zenon

(* The elements of a sequence are what it holds at its positions.          *)
LEMMA ElementsIn ==
    ASSUME NEW E, NEW q \in Seq(E)
    PROVE  Elements(q) \subseteq E /\ \A k \in 1 .. Len(q) : q[k] \in E /\ q[k] \in Elements(q)
BY DEF Elements

(* A sequence is one over every set that has its elements.                 *)
LEMMA SeqIn ==
    ASSUME NEW E, NEW F, NEW q \in Seq(E), Elements(q) \subseteq F
    PROVE  q \in Seq(F)
<1>1. Len(q) \in Nat /\ q \in [1 .. Len(q) -> E]
  OBVIOUS
<1>2. \A k \in 1 .. Len(q) : q[k] \in F
  BY DEF Elements
<1>3. q \in [1 .. Len(q) -> F]
  BY <1>1, <1>2
<1> QED BY <1>1, <1>3, SeqIs

(* A list depends on the links of its own elements only.                   *)
LEMMA RunsSame ==
    ASSUME NEW f, NEW g, NEW h, NEW q, RunsDown(f, h, q), \A k \in Elements(q) : g[k] = f[k]
    PROVE  RunsDown(g, h, q)
BY DEF RunsDown, Elements

SameLinks(u, t) ==
    /\ u.nmax = t.nmax /\ u.next = t.next /\ u.prev = t.prev /\ u.bin = t.bin
    /\ u.binhead = t.binhead /\ u.freehead = t.freehead /\ u.nfree = t.nfree

(* Tables with the same links are whole together.                          *)
LEMMA WholeLinks ==
    ASSUME NEW t, NEW L, NEW q, Whole(t, L, q), NEW u, SameLinks(u, t)
    PROVE  Whole(u, L, q) /\ (ToTheEnd(t, q) => ToTheEnd(u, q))
<1>1. /\ u.nmax = t.nmax /\ u.next = t.next /\ u.prev = t.prev /\ u.bin = t.bin
      /\ u.binhead = t.binhead /\ u.freehead = t.freehead /\ u.nfree = t.nfree
  BY DEF SameLinks
<1> QED BY <1>1, WholeSame

(* The site m is no longer among the owned ones.                           *)
Shed(v, u, m) ==
    /\ v.nmax = u.nmax /\ v.nlocal = u.nlocal - 1
    /\ v.id = [u.id EXCEPT ![m] = u.id[u.nlocal - 1]]

(* An owned site that leaves takes its id with it and no other.            *)
LEMMA ShedNames ==
    ASSUME NEW n \in Nat, NEW u, u.nlocal \in 0 .. n, u.nmax = n, Named(u), NEW m \in 0 .. u.nlocal - 1,
           u.id \in [0 .. n - 1 -> Nat], NEW v, Shed(v, u, m)
    PROVE  /\ Named(v) /\ u.id[m] \notin Names(v) /\ Names(u) = Names(v) \cup {u.id[m]}
<1> DEFINE l == u.nlocal - 1
<1>1. v.nlocal = l /\ v.id = [u.id EXCEPT ![m] = u.id[l]]
  BY DEF Shed
<1>2. l \in 0 .. u.nlocal - 1 /\ l \in 0 .. n - 1 /\ m \in 0 .. n - 1 /\ l \in Nat
  OBVIOUS
<1>3. \A k \in 0 .. n - 1 : v.id[k] = IF k = m THEN u.id[l] ELSE u.id[k]
  BY <1>1
<1>4. \A j, k \in 0 .. u.nlocal - 1 : u.id[j] = u.id[k] => j = k
  BY DEF Named
<1>5. \A k \in 0 .. l - 1 : k \in 0 .. u.nlocal - 1 /\ k \in 0 .. n - 1 /\ k # l
  BY <1>2, SMTT(30)
<1>6. Named(v)
  <2>1. SUFFICES ASSUME NEW j \in 0 .. l - 1, NEW k \in 0 .. l - 1, v.id[j] = v.id[k]
                 PROVE  j = k
    BY <1>1 DEF Named
  <2> QED BY <1>2, <1>3, <1>4, <1>5, <2>1
<1>7. u.id[m] \notin Names(v)
  <2>1. SUFFICES ASSUME NEW k \in 0 .. l - 1, v.id[k] = u.id[m] PROVE FALSE
    BY <1>1 DEF Names
  <2> QED BY <1>2, <1>3, <1>4, <1>5, <2>1
<1>8. ASSUME NEW k \in 0 .. u.nlocal - 1 PROVE u.id[k] \in Names(v) \cup {u.id[m]}
  <2>1. CASE k = m
    BY <2>1
  <2>2. CASE k # m /\ k # l
    <3>1. k \in 0 .. v.nlocal - 1 /\ v.id[k] = u.id[k]
      <4>1. k \in 0 .. l - 1 /\ k \in 0 .. n - 1
        BY <1>2, <2>2
      <4> QED BY <1>1, <1>3, <2>2, <4>1
    <3> QED BY <3>1 DEF Names
  <2>3. CASE k # m /\ k = l
    <3>1. m \in 0 .. v.nlocal - 1 /\ v.id[m] = u.id[k]
      BY <1>1, <1>2, <1>3, <2>3
    <3> QED BY <3>1 DEF Names
  <2> QED BY <2>1, <2>2, <2>3
<1>9. ASSUME NEW k \in 0 .. v.nlocal - 1 PROVE v.id[k] \in Names(u)
  <2>1. k \in 0 .. u.nlocal - 1 /\ k \in 0 .. n - 1
    BY <1>1, <1>5
  <2> QED BY <1>2, <1>3, <2>1 DEF Names
<1>10. u.id[m] \in Names(u)
  BY DEF Names
<1>11. Names(u) \subseteq Names(v) \cup {u.id[m]}
  BY <1>8 DEF Names
<1>12. Names(v) \subseteq Names(u)
  BY <1>9 DEF Names
<1> QED BY <1>6, <1>7, <1>10, <1>11, <1>12

(* When the owned sites have the first slots, the first free slot comes    *)
(* behind the last of them.                                                *)
LEMMA FirstFree ==
    ASSUME NEW n \in Nat, NEW l \in 0 .. n, NEW q \in Seq(0 .. n - 1), Consecutive(q),
           Elements(q) = (0 .. n - 1) \ (0 .. l - 1)
    PROVE  /\ Len(q) # 0 => q[1] = l
           /\ Len(q) = 0 <=> l = n
<1>1. Len(q) # 0 => 1 \in 1 .. Len(q)
  OBVIOUS
<1>2. ASSUME Len(q) # 0 PROVE q[1] \in l .. n - 1
  <2>1. q[1] \in Elements(q)
    BY <1>1, <1>2 DEF Elements
  <2> QED BY <2>1
<1>3. ASSUME l # n PROVE \E k \in 1 .. Len(q) : q[k] = l
  <2>1. l \in (0 .. n - 1) \ (0 .. l - 1)
    BY <1>3
  <2>2. l \in Elements(q)
    BY <2>1
  <2> QED BY <2>2 DEF Elements
<1>4. ASSUME Len(q) # 0 PROVE l # n /\ q[1] = l
  <2>1. q[1] \in l .. n - 1 /\ l # n
    BY <1>2, <1>4
  <2>2. PICK k \in 1 .. Len(q) : q[k] = l
    BY <1>3, <2>1
  <2>3. q[k] = q[1] + k - 1
    BY DEF Consecutive
  <2>4. k \in Int /\ k >= 1 /\ q[1] \in Int
    BY <2>1
  <2> QED BY <2>1, <2>2, <2>3, <2>4
<1>5. Len(q) = 0 => l = n
  BY <1>3
<1> QED BY <1>4, <1>5

(* An owned site that is added brings its id and no other.                 *)
LEMMA NamesAdd ==
    ASSUME NEW t, NEW u, t.nlocal \in Nat, u.nlocal = t.nlocal + 1,
           \A k \in 0 .. t.nlocal - 1 : u.id[k] = t.id[k], Named(t),
           u.id[t.nlocal] \notin Names(t)
    PROVE  Named(u) /\ Names(u) = Names(t) \cup {u.id[t.nlocal]}
<1> DEFINE l == t.nlocal
<1>1. \A k \in 0 .. u.nlocal - 1 : k \in 0 .. l - 1 \/ k = l
  OBVIOUS
<1>2. \A k \in 0 .. l - 1 : k \in 0 .. u.nlocal - 1 /\ u.id[k] \in Names(t)
  BY DEF Names
<1>3. l \in 0 .. u.nlocal - 1
  OBVIOUS
<1>4. Named(u)
  <2>1. SUFFICES ASSUME NEW j \in 0 .. u.nlocal - 1, NEW k \in 0 .. u.nlocal - 1, u.id[j] = u.id[k]
                 PROVE  j = k
    BY DEF Named
  <2>2. CASE j \in 0 .. l - 1 /\ k \in 0 .. l - 1
    BY <2>1, <2>2 DEF Named
  <2>3. CASE ~ (j \in 0 .. l - 1 /\ k \in 0 .. l - 1)
    BY <1>1, <1>2, <2>1, <2>3
  <2> QED BY <2>2, <2>3
<1>5. ASSUME NEW k \in 0 .. u.nlocal - 1 PROVE u.id[k] \in Names(t) \cup {u.id[l]}
  BY <1>1, <1>2
<1>6. ASSUME NEW k \in 0 .. l - 1 PROVE t.id[k] \in Names(u)
  BY <1>2 DEF Names
<1>7. u.id[l] \in Names(u)
  BY <1>3 DEF Names
<1>8. Names(u) \subseteq Names(t) \cup {u.id[l]}
  BY <1>5 DEF Names
<1>9. Names(t) \subseteq Names(u)
  BY <1>6 DEF Names
<1> QED BY <1>4, <1>7, <1>8, <1>9

-----------------------------------------------------------------------------
(* What the calls on the lists of the bins promise.                        *)

(* The sites of S are in the lists of their bins, all linked both ways.    *)
LinkedBothWays(t, S) == Keeps(t, S, DOMAIN t.binhead, t.binhead)

(* A site that leaves its bin leaves the lists linked.                     *)
THEOREM DeletedIsUnlinked ==
    ASSUME NEW n \in Nat, NEW Places, NEW t \in TableOf(n, Places), NEW S,
           LinkedBothWays(t, S), NEW i \in S
    PROVE  LinkedBothWays(DeleteFromBin(t, i, t.bin[i]), S \ {i})
<1> DEFINE u == DeleteFromBin(t, i, t.bin[i])
           h == [t.binhead EXCEPT ![t.bin[i]] = IF t.prev[i] \notin S THEN t.next[i] ELSE @]
<1>1. /\ DOMAIN t.binhead = Places /\ Keeps(t, S, Places, t.binhead)
      /\ i \in 0 .. n - 1 /\ t.bin[i] \in Places
  BY DEF LinkedBothWays, TableOf, Keeps
<1>2. u \in TableOf(n, Places) /\ u.bin = t.bin /\ Unlinked(u, t, i, t.bin[i])
  BY <1>1, AfterDelete
<1> HIDE DEF u
<1>3. Keeps(u, S \ {i}, Places, h)
  BY <1>1, <1>2, DeleteKeeps
<1>4. DOMAIN u.binhead = Places /\ u.binhead \in [Places -> Int]
  BY <1>2 DEF TableOf
<1>5. DOMAIN h = Places /\ \A b \in Places : h[b] = u.binhead[b]
  BY <1>1, <1>3 DEF Keeps
<1>6. h = u.binhead
  BY <1>4, <1>5
<1> QED BY <1>3, <1>4, <1>6 DEF LinkedBothWays, u

(* A site put into the list of the bin it is in joins it.                  *)
THEOREM AddedIsLinked ==
    ASSUME NEW n \in Nat, NEW Places, NEW t \in TableOf(n, Places), NEW S,
           LinkedBothWays(t, S), NEW i \in (0 .. n - 1) \ S
    PROVE  LinkedBothWays(AddToBin(t, i, t.bin[i]), S \cup {i})
<1> DEFINE u == AddToBin(t, i, t.bin[i])
           h == [t.binhead EXCEPT ![t.bin[i]] = i]
<1>1. /\ DOMAIN t.binhead = Places /\ Keeps(t, S, Places, t.binhead)
      /\ t.bin[i] \in Places /\ \A k \in S : t.bin[k] \in Places
  BY DEF LinkedBothWays, TableOf, Keeps
<1>2. u \in TableOf(n, Places) /\ u.bin = t.bin /\ Linked(u, t, i, t.bin[i])
  BY <1>1, AfterAdd
<1> HIDE DEF u
<1>3. Keeps(u, S \cup {i}, Places, h)
  BY <1>1, <1>2, AddKeeps
<1>4. DOMAIN u.binhead = Places /\ u.binhead \in [Places -> Int]
  BY <1>2 DEF TableOf
<1>5. DOMAIN h = Places /\ \A b \in Places : h[b] = u.binhead[b]
  BY <1>1, <1>3 DEF Keeps
<1>6. h = u.binhead
  BY <1>4, <1>5
<1> QED BY <1>3, <1>4, <1>6 DEF LinkedBothWays, u

(* delete_owned_site(), for any site but the last: the lists of the bins   *)
(* stay linked both ways, without the slot that was freed, although the    *)
(* last site has been renumbered and the links to it repaired by hand.     *)
THEOREM RenumberingKeepsLinks ==
    ASSUME NEW n \in Nat, NEW Places, NEW t \in TableOf(n, Places), NEW S,
           LinkedBothWays(t, S), NEW i \in S, t.nlocal - 1 \in S, i # t.nlocal - 1
    PROVE  LinkedBothWays(DeleteOwned(t, i), S \ {t.nlocal - 1})
<1> DEFINE last == t.nlocal - 1
           u == DeleteOwned(t, i)
           h == [t.binhead EXCEPT ![t.bin[i]] = IF t.prev[i] \notin S THEN t.next[i] ELSE @]
           h2 == [b \in DOMAIN t.binhead |-> IF h[b] = last THEN i ELSE h[b]]
<1>1. DOMAIN t.binhead = Places /\ Keeps(t, S, Places, t.binhead)
  BY DEF LinkedBothWays, TableOf
<1>2. Parting(t, i, S, Places) /\ Without(h, t.binhead, t, i, S) /\ Anew(h2, t.binhead, h, last, i)
  BY DEF Parting, Without, Anew
<1> HIDE DEF u, h, h2
<1>3. u \in TableOf(n, Places) /\ Keeps(u, S \ {last}, Places, h2)
  BY <1>1, <1>2, DeleteOwnedKeeps DEF u
<1>4. DOMAIN u.binhead = Places /\ u.binhead \in [Places -> Int]
  BY <1>3 DEF TableOf
<1>5. DOMAIN h2 = Places /\ \A b \in Places : h2[b] = u.binhead[b]
  BY <1>1, <1>3, <1>4 DEF Keeps
<1>6. h2 = u.binhead
  BY <1>4, <1>5 DEF h2
<1> QED BY <1>3, <1>4, <1>6 DEF LinkedBothWays, u

(* A walk through a bin that deletes a site goes on with the site that     *)
(* came after it, also when that was the last one and has taken the slot   *)
(* of the deleted site.                                                    *)
THEOREM WalkGoesOn ==
    ASSUME NEW n \in Nat, NEW Places, NEW t \in TableOf(n, Places), NEW S,
           LinkedBothWays(t, S), NEW i \in S, t.nlocal - 1 \in S, i # t.nlocal - 1,
           t.next[i] # Nil
    PROVE  /\ NextAfterDelete(t, i) \in S \ {t.nlocal - 1}
           /\ DeleteOwned(t, i).id[NextAfterDelete(t, i)] = t.id[t.next[i]]
<1> DEFINE last == t.nlocal - 1
           out == DeleteFromBin(t, i, t.bin[i])
           u == DeleteOwned(t, i)
<1>1. /\ DOMAIN t.binhead = Places /\ Keeps(t, S, Places, t.binhead)
      /\ S \subseteq 0 .. n - 1 /\ t.id \in [0 .. n - 1 -> Nat] /\ t.bin[i] \in Places
  BY DEF LinkedBothWays, TableOf, Keeps
<1>2. t.next[i] \in S /\ t.next[i] # i
  BY <1>1, NextOf, NoSelf
<1>3. out.id = t.id
  BY <1>1, AfterDelete DEF RestKept
<1>4. u.id = [out.id EXCEPT ![i] = out.id[last]]
  <2>1. Renumbered(u, out, i, last, t.freehead)
    BY <1>1, AfterDeleteOwned
  <2> HIDE DEF u, out
  <2> QED BY <2>1 DEF Renumbered
<1> HIDE DEF out, u
<1>5. u.id = [t.id EXCEPT ![i] = t.id[last]]
  BY <1>3, <1>4
<1>6. CASE t.next[i] = last
  BY <1>1, <1>5, <1>6 DEF NextAfterDelete, u
<1>7. CASE t.next[i] # last
  <2>1. NextAfterDelete(t, i) = t.next[i] /\ t.next[i] \in 0 .. n - 1
    BY <1>1, <1>2, <1>7 DEF NextAfterDelete
  <2>2. u.id[t.next[i]] = t.id[t.next[i]]
    BY <1>1, <1>2, <1>5, <2>1
  <2> QED BY <1>2, <1>7, <2>1, <2>2 DEF u
<1> QED BY <1>6, <1>7
=============================================================================
