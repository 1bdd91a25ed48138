----------------------------- MODULE FoldProofs -----------------------------
(***************************************************************************)
(* What FoldLeft computes, for any operator: the fold of one element more  *)
(* is one application more.  The programs fold messages into books and     *)
(* samples into sums.  Claims about every length are shown by taking a     *)
(* least counterexample.                                                   *)
(***************************************************************************)
EXTENDS Integers, Sequences, SequencesExt, FiniteSetTheorems,
        WellFoundedInduction, TLAPS

CONSTANT Op(_, _)   \* what is applied to the result so far and an element

\* Op applied to all elements of s, from left to right.
Folded(base, s) == FoldLeft(Op, base, s)

-----------------------------------------------------------------------------
\* A nonempty set of numbers has a least one.
LEMMA LeastNumber ==
    ASSUME NEW T, T \subseteq Nat, T # {}
    PROVE  \E x \in T : \A y \in T : x <= y
  <1>1. PICK x \in T : \A y \in T : ~ (<<y, x>> \in OpToRel(<, Nat))
    BY NatLessThanWellFounded, WFMin
  <1>2. \A y \in T : ~ (y < x)
    BY <1>1 DEF OpToRel
  <1> QED
    BY <1>2

\* Some member of the family T has no proper subset in T.
HasMinimal(T) == \E X \in T : \A Y \in T : Y \subseteq X => Y = X

\* A nonempty family of subsets of a finite set has a minimal member.
LEMMA MinimalMember ==
    ASSUME NEW S, IsFiniteSet(S), NEW T \in SUBSET (SUBSET S), T # {}
    PROVE  HasMinimal(T)
  <1>1. IsWellFoundedOn(StrictSubsetOrdering(S), SUBSET S)
    BY FS_StrictSubsetOrderingWellFounded, FS_FiniteSubsetsOfFinite
  <1>2. PICK X \in T : \A Y \in T : ~ (<<Y, X>> \in StrictSubsetOrdering(S))
    BY <1>1, WFMin
  <1>3. \A Y \in T : Y \subseteq X => Y = X
    BY <1>2 DEF StrictSubsetOrdering
  <1> QED
    BY <1>3 DEF HasMinimal

\* A nonempty finite set of positions has a last one.
LEMMA HasLast ==
    ASSUME NEW S, IsFiniteSet(S), S \subseteq Int, S # {}
    PROVE  Max(S) \in S /\ \A y \in S : Max(S) >= y
  <1> DEFINE after(x) == {y \in S : y > x}
             T == {after(x) : x \in S}
  <1>1. PICK X \in T : \A Y \in T : Y \subseteq X => Y = X
    <2>1. T \in SUBSET (SUBSET S) /\ T # {}
      OBVIOUS
    <2> HIDE DEF T
    <2>2. HasMinimal(T)
      BY <2>1, MinimalMember
    <2> QED
      BY <2>2 DEF HasMinimal
  <1>2. PICK x \in S : X = after(x)
    OBVIOUS
  <1>3. ASSUME NEW y \in S, y > x
        PROVE  FALSE
    <2>1. after(y) \in T
      OBVIOUS
    <2>2. ASSUME NEW z \in after(y)
          PROVE  z \in after(x)
      BY <1>3, <2>2
    <2>3. y \in after(x) /\ y \notin after(y)
      BY <1>3
    <2> HIDE DEF T, after
    <2> QED
      BY <1>1, <1>2, <2>1, <2>2, <2>3
  <1>4. \A y \in S : x >= y
    BY <1>3
  <1> QED
    BY <1>4 DEF Max

\* The positions before the last one.
Before(u) == u \ {Max(u)}

\* g tells for each subset of T the fold of the elements s has there.
IsFold(g, base, s, T) ==
    g = [u \in SUBSET T |->
           IF u = {} THEN base
           ELSE Op(g[Before(u)], s[Max(u)])]

\* The fold of the elements that s has at the positions T, in order.
FoldOver(base, s, T) == (CHOOSE g : IsFold(g, base, s, T))[T]

\* The fold of a sequence is the fold at all its positions.
LEMMA FoldedOver ==
    ASSUME NEW base, NEW s
    PROVE  Folded(base, s) = FoldOver(base, s, DOMAIN s)
  BY DEF Folded, FoldLeft, MapThenFoldSet, FoldOver, IsFold, Before

\* A fold at the subsets of T is one at the subsets of U.
LEMMA FoldRestrict ==
    ASSUME NEW base, NEW s, NEW T, NEW U \in SUBSET T, NEW g, IsFold(g, base, s, T)
    PROVE  IsFold([u \in SUBSET U |-> g[u]], base, s, U)
  <1> DEFINE h == [u \in SUBSET U |-> g[u]]
             step(f, u) == IF u = {} THEN base
                           ELSE Op(f[Before(u)], s[Max(u)])
  <1>1. ASSUME NEW u \in SUBSET U
        PROVE  h[u] = step(h, u)
    <2>1. u \in SUBSET T /\ Before(u) \in SUBSET U
      BY DEF Before
    <2>2. g[u] = step(g, u)
      BY <2>1 DEF IsFold
    <2>3. h[u] = g[u] /\ h[Before(u)] = g[Before(u)]
      BY <2>1
    <2> HIDE DEF h
    <2> QED
      BY <2>2, <2>3
  <1>2. h = [u \in SUBSET U |-> h[u]]
    OBVIOUS
  <1> HIDE DEF h
  <1>3. h = [u \in SUBSET U |-> step(h, u)]
    BY <1>1, <1>2
  <1> QED
    BY <1>3 DEF IsFold, h

\* Sequences with the same elements at T have the same fold there.
LEMMA FoldUnique ==
    ASSUME NEW base, NEW s, NEW t, NEW T, IsFiniteSet(T), T \subseteq Int,
           \A i \in T : s[i] = t[i],
           NEW g, IsFold(g, base, s, T), NEW h, IsFold(h, base, t, T)
    PROVE  g = h
  <1> DEFINE Bad == {u \in SUBSET T : g[u] # h[u]}
  <1>1. ASSUME NEW u \in SUBSET T
        PROVE  /\ g[u] = IF u = {} THEN base
                         ELSE Op(g[Before(u)], s[Max(u)])
               /\ h[u] = IF u = {} THEN base
                         ELSE Op(h[Before(u)], t[Max(u)])
    BY DEF IsFold
  <1>2. ASSUME Bad # {}
        PROVE  FALSE
    <2>1. HasMinimal(Bad)
      <3>1. Bad \in SUBSET (SUBSET T)
        OBVIOUS
      <3> HIDE DEF Bad
      <3> QED
        BY <1>2, <3>1, MinimalMember
    <2>2. PICK X \in Bad : \A Y \in Bad : Y \subseteq X => Y = X
      BY <2>1 DEF HasMinimal
    <2>3. X \in SUBSET T /\ g[X] # h[X]
      OBVIOUS
    <2>4. X # {}
      BY <1>1, <2>3
    <2>5. Max(X) \in X
      <3>1. IsFiniteSet(X) /\ X \subseteq Int
        BY <2>3, FS_Subset
      <3> QED
        BY <2>4, <3>1, HasLast
    <2>6. Before(X) \in SUBSET T /\ Before(X) \subseteq X /\ Before(X) # X
      BY <2>3, <2>5 DEF Before
    <2>7. g[Before(X)] = h[Before(X)]
      BY <2>2, <2>6
    <2>8. s[Max(X)] = t[Max(X)]
      BY <2>3, <2>5
    <2>9. /\ g[X] = Op(g[Before(X)], s[Max(X)])
          /\ h[X] = Op(h[Before(X)], t[Max(X)])
      BY <1>1, <2>3, <2>4
    <2> QED
      BY <2>3, <2>7, <2>8, <2>9
  <1>3. \A u \in SUBSET T : g[u] = h[u]
    BY <1>2
  <1>4. g = [u \in SUBSET T |-> g[u]] /\ h = [u \in SUBSET T |-> h[u]]
    BY DEF IsFold
  <1> QED
    BY <1>3, <1>4

\* The fold at a subset is the same wherever it is taken from.
LEMMA FoldOfSubset ==
    ASSUME NEW base, NEW s, NEW T, NEW U \in SUBSET T, IsFiniteSet(U), U \subseteq Int,
           NEW g, IsFold(g, base, s, T)
    PROVE  g[U] = FoldOver(base, s, U)
  <1> DEFINE h == [u \in SUBSET U |-> g[u]]
             f == CHOOSE x : IsFold(x, base, s, U)
  <1>1. IsFold(h, base, s, U)
    BY FoldRestrict
  <1>2. IsFold(f, base, s, U)
    BY <1>1
  <1>3. h[U] = g[U]
    OBVIOUS
  <1> HIDE DEF h, f
  <1>4. f = h
    BY <1>1, <1>2, FoldUnique
  <1>5. FoldOver(base, s, U) = f[U]
    BY DEF FoldOver, f
  <1> QED
    BY <1>3, <1>4, <1>5

\* There is a fold at the subsets of a finite set of positions.
LEMMA FoldExists ==
    ASSUME NEW base, NEW s, NEW S, IsFiniteSet(S), S \subseteq Int
    PROVE  \A T \in SUBSET S : \E g : IsFold(g, base, s, T)
  <1> DEFINE Bad == {T \in SUBSET S : ~ \E g : IsFold(g, base, s, T)}
  <1> SUFFICES ASSUME Bad # {}
               PROVE  FALSE
    OBVIOUS
  <1>1. HasMinimal(Bad)
    <2>1. Bad \in SUBSET (SUBSET S) /\ Bad # {}
      OBVIOUS
    <2> HIDE DEF Bad
    <2> QED
      BY <2>1, MinimalMember
  <1>2. PICK T \in Bad : \A Y \in Bad : Y \subseteq T => Y = T
    BY <1>1 DEF HasMinimal
  <1>3. T \in SUBSET S /\ ~ \E g : IsFold(g, base, s, T)
    OBVIOUS
  <1>4. ASSUME NEW U \in SUBSET T, U # T
        PROVE  \E g : IsFold(g, base, s, U)
    BY <1>2, <1>3, <1>4
  <1> DEFINE G == [u \in SUBSET T |->
                     IF u = {} THEN base
                     ELSE Op(FoldOver(base, s, Before(u)), s[Max(u)])]
  <1>5. ASSUME NEW U \in SUBSET T, U # T
        PROVE  G[U] = FoldOver(base, s, U)
    <2>1. PICK g : IsFold(g, base, s, U)
      BY <1>4, <1>5
    <2>2. /\ IsFiniteSet(U) /\ IsFiniteSet(Before(U))
          /\ U \subseteq Int /\ Before(U) \subseteq Int
      BY <1>3, FS_Subset, FS_RemoveElement DEF Before
    <2>3. g[U] = FoldOver(base, s, U)
      BY <2>1, <2>2, FoldOfSubset
    <2>4. g[Before(U)] = FoldOver(base, s, Before(U))
      <3>1. Before(U) \in SUBSET U
        BY DEF Before
      <3> QED
        BY <2>1, <2>2, <3>1, FoldOfSubset
    <2>5. g[U] = IF U = {} THEN base
                 ELSE Op(g[Before(U)], s[Max(U)])
      BY <2>1 DEF IsFold
    <2> QED
      BY <2>3, <2>4, <2>5
  <1>6. ASSUME NEW u \in SUBSET T
        PROVE  G[u] = IF u = {} THEN base
                      ELSE Op(G[Before(u)], s[Max(u)])
    <2>1. CASE u = {}
      BY <2>1
    <2>2. CASE u # {}
      <3>1. Before(u) \in SUBSET T /\ Before(u) # T
        <4>1. IsFiniteSet(u) /\ u \subseteq Int
          BY <1>3, FS_Subset
        <4>2. Max(u) \in u
          BY <2>2, <4>1, HasLast
        <4> QED
          BY <4>2 DEF Before
      <3>2. G[Before(u)] = FoldOver(base, s, Before(u))
        BY <1>5, <3>1
      <3>3. G[u] = Op(FoldOver(base, s, Before(u)), s[Max(u)])
        BY <2>2
      <3> HIDE DEF G
      <3> QED
        BY <2>2, <3>2, <3>3
    <2> QED
      BY <2>1, <2>2
  <1>7. G = [u \in SUBSET T |-> G[u]]
    OBVIOUS
  <1> HIDE DEF G
  <1>8. IsFold(G, base, s, T)
    BY <1>6, <1>7 DEF IsFold
  <1> QED
    BY <1>3, <1>8

\* One function has the folds at T and before its last position.
LEMMA FoldWitness ==
    ASSUME NEW base, NEW s, NEW T, IsFiniteSet(T), T \subseteq Int
    PROVE  \E g : /\ IsFold(g, base, s, T)
                  /\ g[T] = FoldOver(base, s, T)
                  /\ g[Before(T)] = FoldOver(base, s, Before(T))
  <1>1. PICK g : IsFold(g, base, s, T)
    <2>1. T \in SUBSET T
      OBVIOUS
    <2> QED
      BY <2>1, FoldExists
  <1>2. IsFiniteSet(Before(T)) /\ Before(T) \subseteq Int
    BY FS_RemoveElement DEF Before
  <1>3. T \in SUBSET T /\ Before(T) \in SUBSET T
    BY DEF Before
  <1>4. g[T] = FoldOver(base, s, T)
    BY <1>1, <1>3, FoldOfSubset
  <1>5. g[Before(T)] = FoldOver(base, s, Before(T))
    BY <1>1, <1>2, <1>3, FoldOfSubset
  <1> QED
    BY <1>1, <1>4, <1>5

\* A fold ends with the element at the last position.
LEMMA FoldStep ==
    ASSUME NEW base, NEW s, NEW T, IsFiniteSet(T), T \subseteq Int, T # {}
    PROVE  FoldOver(base, s, T) = Op(FoldOver(base, s, Before(T)), s[Max(T)])
  <1>1. PICK g : /\ IsFold(g, base, s, T)
                 /\ g[T] = FoldOver(base, s, T)
                 /\ g[Before(T)] = FoldOver(base, s, Before(T))
    BY FoldWitness
  <1>2. g[T] = Op(g[Before(T)], s[Max(T)])
    BY <1>1 DEF IsFold
  <1> QED
    BY <1>1, <1>2

\* Nothing is folded at no position.
LEMMA FoldEmpty ==
    ASSUME NEW base, NEW s
    PROVE  FoldOver(base, s, {}) = base
  <1>1. IsFiniteSet({}) /\ {} \subseteq Int
    BY FS_EmptySet
  <1>2. PICK g : IsFold(g, base, s, {}) /\ g[{}] = FoldOver(base, s, {})
    BY <1>1, FoldWitness
  <1>3. g[{}] = base
    BY <1>2 DEF IsFold
  <1> QED
    BY <1>2, <1>3

\* The same, for the fold at T itself.
LEMMA FoldSame ==
    ASSUME NEW base, NEW s, NEW t, NEW T, IsFiniteSet(T), T \subseteq Int,
           \A i \in T : s[i] = t[i]
    PROVE  FoldOver(base, s, T) = FoldOver(base, t, T)
  <1>1. T \in SUBSET T
    OBVIOUS
  <1>2. PICK g : IsFold(g, base, s, T)
    BY <1>1, FoldExists
  <1>3. PICK h : IsFold(h, base, t, T)
    BY <1>1, FoldExists
  <1>4. g[T] = FoldOver(base, s, T) /\ h[T] = FoldOver(base, t, T)
    BY <1>1, <1>2, <1>3, FoldOfSubset
  <1>5. g = h
    BY <1>2, <1>3, FoldUnique
  <1> QED
    BY <1>4, <1>5

\* One element more at the end is one more application.
LEMMA FoldOneMore ==
    ASSUME NEW base, NEW n \in Nat, NEW s, NEW t, DOMAIN s = 1 .. n, DOMAIN t = 1 .. (n + 1),
           \A i \in 1 .. n : t[i] = s[i]
    PROVE  Folded(base, t) = Op(Folded(base, s), t[n + 1])
  <1> DEFINE T == 1 .. (n + 1)
             U == 1 .. n
  <1>1. /\ IsFiniteSet(T) /\ T \subseteq Int /\ T # {}
        /\ IsFiniteSet(U) /\ U \subseteq Int
    <2>1. IsFiniteSet(T) /\ IsFiniteSet(U)
      BY FS_Interval
    <2>2. 1 \in T /\ T \subseteq Int /\ U \subseteq Int
      OBVIOUS
    <2> HIDE DEF T, U
    <2> QED
      BY <2>1, <2>2
  <1>2. Max(T) = n + 1
    <2>1. Max(T) \in T /\ \A y \in T : Max(T) >= y
      <3> HIDE DEF T
      <3> QED
        BY <1>1, HasLast
    <2>2. n + 1 \in T
      OBVIOUS
    <2> QED
      BY <2>1, <2>2
  <1>3. Before(T) = U
    BY <1>2 DEF Before
  <1>4. Folded(base, t) = FoldOver(base, t, T)
    BY FoldedOver
  <1>5. Folded(base, s) = FoldOver(base, s, U)
    BY FoldedOver
  <1> HIDE DEF T
  <1>6. FoldOver(base, t, T) = Op(FoldOver(base, t, U), t[n + 1])
    <2>1. FoldOver(base, t, T) = Op(FoldOver(base, t, Before(T)), t[Max(T)])
      BY <1>1, FoldStep
    <2> QED
      BY <1>2, <1>3, <2>1
  <1>7. FoldOver(base, t, U) = FoldOver(base, s, U)
    BY <1>1, FoldSame
  <1> QED
    BY <1>4, <1>5, <1>6, <1>7

\* The fold of nothing is what it starts from.
LEMMA FoldNone ==
    ASSUME NEW base
    PROVE  Folded(base, <<>>) = base
  <1>1. DOMAIN <<>> = {}
    OBVIOUS
  <1>2. FoldOver(base, <<>>, {}) = base
    BY FoldEmpty
  <1>3. Folded(base, <<>>) = FoldOver(base, <<>>, DOMAIN <<>>)
    BY FoldedOver
  <1> QED
    BY <1>1, <1>2, <1>3

\* The fold of the first n + 1 elements of a sequence from that of the first n.
LEMMA FoldPrefix ==
    ASSUME NEW base, NEW S, NEW s \in Seq(S), NEW n \in 0 .. (Len(s) - 1)
    PROVE  Folded(base, SubSeq(s, 1, n + 1))
             = Op(Folded(base, SubSeq(s, 1, n)), s[n + 1])
  <1> DEFINE r == SubSeq(s, 1, n)
             t == SubSeq(s, 1, n + 1)
  <1>1. /\ n \in Nat /\ DOMAIN r = 1 .. n /\ DOMAIN t = 1 .. (n + 1)
        /\ \A k \in 1 .. n : t[k] = r[k]
        /\ t[n + 1] = s[n + 1]
    OBVIOUS
  <1> HIDE DEF r, t
  <1>2. Folded(base, t) = Op(Folded(base, r), t[n + 1])
    BY <1>1, FoldOneMore
  <1> QED
    BY <1>1, <1>2 DEF r, t

(***************************************************************************)
(* Induction along a sequence: if one application leads from the n-th of a *)
(* family of sets into the next, the fold of the sequence is in the last.  *)
(***************************************************************************)
LEMMA FoldAlong ==
    ASSUME NEW base, NEW S, NEW s \in Seq(S), NEW G, base \in G[0],
           \A n \in 0 .. (Len(s) - 1) : \A x \in G[n] : Op(x, s[n + 1]) \in G[n + 1]
    PROVE  Folded(base, s) \in G[Len(s)]
  <1> DEFINE upto(n) == Folded(base, SubSeq(s, 1, n))
             Bad == {n \in 0 .. Len(s) : upto(n) \notin G[n]}
  <1>1. Len(s) \in Nat /\ SubSeq(s, 1, 0) = <<>> /\ SubSeq(s, 1, Len(s)) = s
    OBVIOUS
  <1>2. ASSUME Bad # {}
        PROVE  FALSE
    <2>1. Bad \subseteq Nat
      BY <1>1
    <2>2. PICK n \in Bad : \A m \in Bad : n <= m
      <3> HIDE DEF Bad
      <3> QED
        BY <1>2, <2>1, LeastNumber
    <2>3. CASE n = 0
      <3>1. upto(0) = base
        BY <1>1, FoldNone
      <3> HIDE DEF upto
      <3> QED
        BY <2>3, <3>1
    <2>4. CASE n # 0
      <3>1. n - 1 \in 0 .. (Len(s) - 1) /\ n - 1 \in 0 .. Len(s) /\ (n - 1) + 1 = n
        BY <1>1, <2>4
      <3>2. upto(n - 1) \in G[n - 1]
        <4> HIDE DEF upto
        <4> QED
          BY <1>1, <2>1, <2>2, <3>1
      <3>3. upto((n - 1) + 1) = Op(upto(n - 1), s[(n - 1) + 1])
        BY <3>1, FoldPrefix
      <3> HIDE DEF upto
      <3> QED
        BY <3>1, <3>2, <3>3
    <2> QED
      BY <2>3, <2>4
  <1>3. Len(s) \in 0 .. Len(s)
    BY <1>1
  <1> HIDE DEF upto
  <1>4. upto(Len(s)) \in G[Len(s)]
    BY <1>2, <1>3
  <1> QED
    BY <1>1, <1>4 DEF upto

=============================================================================
