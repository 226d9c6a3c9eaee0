--------------------------- MODULE HnswGraphProofs ---------------------------
(***************************************************************************)
(* Lemmas about the algorithms of HnswGraph, for graphs of every size: a   *)
(* search stays among the nodes its lists name and never loses its last    *)
(* result, and the choice of neighbours is non-empty, short enough and has *)
(* the nearest candidate first.                                            *)
(*                                                                         *)
(* The algorithms are folds over lists.  What a fold preserves is shown by *)
(* a least counterexample: the set of positions up to which the fold so    *)
(* far has the property contains 0 and with each position the next (UpTo). *)
(***************************************************************************)
EXTENDS HnswGraph, FiniteSetTheorems, TLAPS

-----------------------------------------------------------------------------
(* Induction and folds, stated with sets and functions.                    *)

(* A set of naturals that is not empty has a least member.                 *)
LEMMA LeastNat ==
  ASSUME NEW T \in SUBSET Nat, T # {}
  PROVE  \E n \in T : \A m \in T : n <= m
<1>1. PICK n \in T : \A m \in T : ~ (<<m, n>> \in OpToRel(<, Nat))
  BY NatLessThanWellFounded, WFMin
<1>2. \A m \in T : ~ (m < n)
  <2>. SUFFICES ASSUME NEW m \in T, m < n PROVE FALSE  OBVIOUS
  <2>1. m \in Nat /\ n \in Nat  OBVIOUS
  <2>2. <<m, n>> \in OpToRel(<, Nat)  BY <2>1, Zenon DEF OpToRel
  <2>. QED  BY <1>1, <2>2
<1>. QED  BY <1>2

(* Induction along 0..n, with a set in place of a predicate: a set that    *)
(* has 0 and with each k below n also k + 1 has n.                         *)
LEMMA UpTo ==
  ASSUME NEW n \in Nat, NEW T,
         0 \in T, \A k \in 0..(n-1) : k \in T => k + 1 \in T
  PROVE  n \in T
<1>. SUFFICES ASSUME n \notin T PROVE FALSE  OBVIOUS
<1>. DEFINE Bad == {k \in 0..n : k \notin T}
<1>1. PICK k \in Bad : \A m \in Bad : k <= m
  <2>. Bad \in SUBSET Nat /\ Bad # {}  OBVIOUS
  <2>. HIDE DEF Bad
  <2>. QED  BY LeastNat
<1>2. k # 0 /\ k - 1 \in 0..(n-1) /\ k - 1 \notin Bad
  BY <1>1
<1>. QED  BY <1>2

(* The maximum of a non-empty set of positions is one of them.             *)
LEMMA MaxIn ==
  ASSUME NEW n \in Nat, NEW s \in SUBSET (1..n), s # {}
  PROVE  Max(s) \in s
<1>. DEFINE Above == {k \in Nat : \A y \in s : y <= k}
<1>1. n \in Above  OBVIOUS
<1>2. PICK k \in Above : \A m \in Above : k <= m
  <2>. Above \in SUBSET Nat /\ Above # {}  BY <1>1
  <2>. HIDE DEF Above
  <2>. QED  BY LeastNat
<1>3. k \in s
  <2>. SUFFICES ASSUME k \notin s PROVE FALSE  OBVIOUS
  <2>1. \A y \in s : y \in Nat /\ y >= 1 /\ y <= k /\ y # k  OBVIOUS
  <2>2. k \in Nat /\ \E y \in s : y \in Nat /\ y >= 1 /\ y <= k  BY <2>1
  <2>. HIDE DEF Above
  <2>4. k - 1 \in Nat  BY <2>2
  <2>5. ASSUME NEW y \in s PROVE y <= k - 1
    <3>1. y \in Nat /\ y <= k /\ y # k  BY <2>1
    <3>. QED  BY <2>2, <3>1
  <2>3. k - 1 \in Above  BY <2>4, <2>5 DEF Above
  <2>6. k <= k - 1  BY <1>2, <2>3
  <2>. QED  BY <2>2, <2>6
<1>4. \A y \in s : k >= y  OBVIOUS
<1>. HIDE DEF Above
<1>. QED  BY <1>3, <1>4, Zenon DEF Max

\* The recursion of a fold over the positions 1..n, as a function on sets of
\* positions.
IsFold(g, S, base, n, F) ==
  /\ g \in [SUBSET (1..n) -> S]
  /\ \A s \in SUBSET (1..n) :
       g[s] = IF s = {} THEN base ELSE F[<<g[s \ {Max(s)}], Max(s)>>]

(* The positions 1..(k+1) without their maximum are 1..k: a fold over      *)
(* 1..(k+1) is one more step after the fold over 1..k.                     *)
LEMMA FoldSteps ==
  ASSUME NEW n \in Nat, NEW k \in 0..(n-1)
  PROVE  /\ 1..(k+1) \in SUBSET (1..n) /\ 1..(k+1) # {} /\ k + 1 \in 1..n
         /\ Max(1..(k+1)) = k + 1
         /\ (1..(k+1)) \ {k+1} = 1..k
<1>. DEFINE s == 1..(k+1)
<1>1. s \in SUBSET (1..n)
  <2>. SUFFICES ASSUME NEW i \in s PROVE i \in 1..n  OBVIOUS
  <2>. QED  OBVIOUS
<1>2. k + 1 \in s /\ k + 1 \in 1..n /\ \A y \in s : k + 1 >= y  OBVIOUS
<1>3. \A x \in s : x >= k + 1 => x = k + 1  OBVIOUS
<1>4. s \ {k+1} = 1..k  OBVIOUS
<1>. HIDE DEF s
<1>5. Max(s) = k + 1  BY <1>2, <1>3, Zenon DEF Max
<1>6. s # {}  BY <1>2
<1>. QED  BY <1>1, <1>2, <1>4, <1>5, <1>6 DEF s

(* The recursion behind a fold over positions has a solution, so that the  *)
(* function the fold chooses has the recursion's values.                   *)
LEMMA FoldExists ==
  ASSUME NEW S, NEW base \in S, NEW n \in Nat, NEW F \in [S \X (1..n) -> S]
  PROVE  \E g : IsFold(g, S, base, n, F)
<1>. DEFINE Good(k, g) == \A s \in SUBSET (1..k) :
              g[s] = IF s = {} THEN base ELSE F[<<g[s \ {Max(s)}], Max(s)>>]
            T == {k \in 0..n : \E g \in [SUBSET (1..k) -> S] : Good(k, g)}
<1>1. 0 \in T
  <2>. DEFINE g == [s \in SUBSET (1..0) |-> base]
  <2>1. g \in [SUBSET (1..0) -> S]  OBVIOUS
  <2>2. Good(0, g)
    <3>. SUFFICES ASSUME NEW s \in SUBSET (1..0)
                  PROVE  g[s] = IF s = {} THEN base ELSE F[<<g[s \ {Max(s)}], Max(s)>>]
      OBVIOUS
    <3>1. s = {}  OBVIOUS
    <3>. QED  BY <3>1
  <2>3. 0 \in 0..n  OBVIOUS
  <2>. HIDE DEF g, Good
  <2>. QED  BY <2>1, <2>2, <2>3, Zenon
<1>2. ASSUME NEW k \in 0..(n-1), k \in T PROVE k + 1 \in T
  <2>1. PICK g \in [SUBSET (1..k) -> S] : Good(k, g)
    BY <1>2
  <2>. DEFINE h == [s \in SUBSET (1..(k+1)) |->
                      IF k + 1 \in s THEN F[<<g[s \ {k+1}], k + 1>>] ELSE g[s]]
  <2>2. ASSUME NEW s \in SUBSET (1..(k+1)), k + 1 \in s
        PROVE  Max(s) = k + 1 /\ s \ {k+1} \in SUBSET (1..k)
    <3>1. k + 1 \in s /\ \A y \in s : k + 1 >= y  BY <2>2
    <3>2. \A x \in s : x >= k + 1 => x = k + 1  BY <3>1
    <3>. HIDE DEF Good, T
    <3>3. Max(s) = k + 1  BY <3>1, <3>2, Zenon DEF Max
    <3>. QED  BY <3>3
  <2>3. ASSUME NEW s \in SUBSET (1..(k+1)), k + 1 \notin s
        PROVE  s \in SUBSET (1..k) /\ s \ {Max(s)} \in SUBSET (1..k)
                /\ k + 1 \notin s \ {Max(s)} /\ s \ {Max(s)} \in SUBSET (1..(k+1))
    <3>1. s \in SUBSET (1..k)
      <4>. SUFFICES ASSUME NEW i \in s PROVE i \in 1..k  OBVIOUS
      <4>1. i \in 1..(k+1) /\ i # k + 1  BY <2>3
      <4>. QED  BY <4>1
    <3>. QED  BY <2>3, <3>1
  <2>4. h \in [SUBSET (1..(k+1)) -> S]
    <3>. SUFFICES ASSUME NEW s \in SUBSET (1..(k+1)) PROVE h[s] \in S  OBVIOUS
    <3>1. CASE k + 1 \in s
      BY <3>1, <2>2, g[s \ {k+1}] \in S, k + 1 \in 1..n
    <3>2. CASE k + 1 \notin s
      BY <3>2, <2>3
    <3>. QED  BY <3>1, <3>2
  <2>5. Good(k + 1, h)
    <3>. SUFFICES ASSUME NEW s \in SUBSET (1..(k+1))
                  PROVE  h[s] = IF s = {} THEN base ELSE F[<<h[s \ {Max(s)}], Max(s)>>]
      OBVIOUS
    <3>1. CASE k + 1 \in s
      <4>1. Max(s) = k + 1 /\ s \ {k+1} \in SUBSET (1..k)  BY <3>1, <2>2
      <4>2. h[s \ {k+1}] = g[s \ {k+1}]
        BY <4>1, s \ {k+1} \in SUBSET (1..(k+1)), k + 1 \notin s \ {k+1}
      <4>. QED  BY <3>1, <4>1, <4>2
    <3>2. CASE k + 1 \notin s
      <4>1. h[s] = g[s] /\ h[s \ {Max(s)}] = g[s \ {Max(s)}]  BY <3>2, <2>3
      <4>. QED  BY <3>2, <2>1, <2>3, <4>1
    <3>. QED  BY <3>1, <3>2
  <2>. HIDE DEF h, Good
  <2>. QED  BY <2>4, <2>5
<1>. HIDE DEF T
<1>3. n \in T  BY <1>1, <1>2, UpTo
<1>. QED  BY <1>3 DEF T, IsFold

-----------------------------------------------------------------------------
(* searchLayer.                                                            *)

\* The states of a search with frontier and results in X and visited nodes
\* in Y.
Searches(X, Y) == [front : SUBSET X, found : SUBSET X, seen : SUBSET Y]

(* Keeping a candidate among the results adds nothing else, and some       *)
(* result stays, whichever is evicted.                                     *)
LEMMA KeptBounds ==
  ASSUME NEW data, NEW q, NEW ef \in Nat \ {0}, NEW s, NEW n, IsFiniteSet(s.found)
  PROVE  /\ Kept(data, q, ef, s, n) \subseteq s.found \cup {n}
         /\ Kept(data, q, ef, s, n) # {}
<1>. DEFINE grown == s.found \cup {n}
            far   == CHOOSE m \in Farthest(data, q, grown) : TRUE
<1>1. IsFiniteSet(grown)  BY FS_AddElement
<1>2. Kept(data, q, ef, s, n) = IF Cardinality(grown) > ef THEN grown \ {far} ELSE grown
  BY Zenon DEF Kept
<1>3. grown # {}  OBVIOUS
<1>. HIDE DEF far, grown
<1>4. Cardinality(grown) > ef => grown \ {far} # {}
  <2>1. IsFiniteSet(grown \ {far})
        /\ Cardinality(grown \ {far}) = IF far \in grown THEN Cardinality(grown) - 1
                                                         ELSE Cardinality(grown)
    BY <1>1, FS_RemoveElement, Zenon
  <2>2. Cardinality(grown) \in Nat  BY <1>1, FS_CardinalityType
  <2>. QED  BY <2>1, <2>2, FS_EmptySet
<1>. QED  BY <1>2, <1>3, <1>4 DEF grown

(* searchLayer never runs out of results once it has one.                  *)
LEMMA AbsorbKeeps ==
  ASSUME NEW data, NEW q, NEW ef \in Nat \ {0}, NEW hidden, NEW X, NEW Y,
         NEW s \in Searches(X, Y), IsFiniteSet(s.found), s.found # {}, NEW n
  PROVE  Absorb(data, q, ef, hidden, s, n).found # {}
<1>. DEFINE r == Absorb(data, q, ef, hidden, s, n)
            kept == Kept(data, q, ef, s, n)
            passed == Cardinality(s.found) >= ef /\ Dist(q, data[n]) >= Worst(data, q, s)
<1>1. kept # {}  BY KeptBounds
<1>2. CASE n \in s.seen
  BY <1>2 DEF Absorb
<1>3. CASE n \notin s.seen /\ passed
  <2>1. r = [s EXCEPT !.seen = @ \cup {n}]  BY <1>3 DEF Absorb
  <2>. QED  BY <2>1 DEF Searches
<1>4. CASE n \notin s.seen /\ ~passed
  <2>1. r = [front |-> s.front \cup {n},
             found |-> IF n \in hidden THEN s.found ELSE kept,
             seen  |-> s.seen \cup {n}]
    BY <1>4 DEF Absorb
  <2>. HIDE DEF kept, passed, r
  <2>2. r.found # {}  BY <1>1, <2>1
  <2>. QED  BY <2>2 DEF r
<1>. QED  BY <1>2, <1>3, <1>4

(* One candidate of searchLayer: heaps and visited list stay among the     *)
(* nodes given, and the only new result is the candidate, unless it is     *)
(* hidden.                                                                 *)
LEMMA AbsorbBounds ==
  ASSUME NEW data, NEW q, NEW ef \in Nat \ {0}, NEW hidden, NEW X, NEW Y,
         NEW s \in Searches(X, Y), IsFiniteSet(s.found), NEW n \in X, n \in Y
  PROVE  /\ Absorb(data, q, ef, hidden, s, n) \in Searches(X, Y)
         /\ \A m \in Absorb(data, q, ef, hidden, s, n).found :
              m \in s.found \/ (m = n /\ n \notin hidden)
<1>. DEFINE r == Absorb(data, q, ef, hidden, s, n)
            kept == Kept(data, q, ef, s, n)
            passed == Cardinality(s.found) >= ef /\ Dist(q, data[n]) >= Worst(data, q, s)
<1>0. kept \subseteq s.found \cup {n} /\ kept # {}  BY KeptBounds
<1>1. CASE n \in s.seen
  <2>1. r = s  BY <1>1 DEF Absorb
  <2>. QED  BY <2>1
<1>2. CASE n \notin s.seen /\ passed
  <2>1. r = [s EXCEPT !.seen = @ \cup {n}]  BY <1>2 DEF Absorb
  <2>. QED  BY <2>1 DEF Searches
<1>3. CASE n \notin s.seen /\ ~passed
  <2>1. r = [front |-> s.front \cup {n},
             found |-> IF n \in hidden THEN s.found ELSE kept,
             seen  |-> s.seen \cup {n}]
    BY <1>3 DEF Absorb
  <2>. HIDE DEF kept, passed
  <2>2. /\ r.front = s.front \cup {n} /\ r.seen = s.seen \cup {n}
        /\ r.found = IF n \in hidden THEN s.found ELSE kept
        /\ r \in Searches(X, Y)
    <3>. HIDE DEF r
    <3>. QED  BY <1>0, <2>1 DEF Searches
  <2>. QED  BY <1>0, <2>2
<1>. QED  BY <1>1, <1>2, <1>3

(* One expansion of searchLayer, the whole list of a node: the search      *)
(* stays within the nodes X of the level, and keeps a result.              *)
LEMMA ExpandBounds ==
  ASSUME NEW data, NEW q, NEW X, IsFiniteSet(X), NEW Y, X \subseteq Y,
         NEW s \in Searches(X, Y), s.found # {}, NEW n, NEW ns \in Seq(X)
  PROVE  /\ Expand(data, q, s, n, ns) \in Searches(X, Y)
         /\ Expand(data, q, s, n, ns).found # {}
<1>. DEFINE S == {r \in Searches(X, Y) : r.found # {}}
            base == [s EXCEPT !.front = @ \ {n}]
            len == Len(ns)
            Take(r, i) == Absorb(data, q, Ef, {}, r, ns[i])
            F == [p \in S \X (1..len) |-> Take(p[1], p[2])]
            Rec(g) == g = [t \in SUBSET (1..len) |->
                              IF t = {} THEN base ELSE Take(g[t \ {Max(t)}], Max(t))]
<1>1. base \in S  BY DEF Searches
<1>2. ASSUME NEW r \in S, NEW i \in 1..len PROVE Take(r, i) \in S
  <2>1. IsFiniteSet(r.found)  BY FS_Subset DEF Searches
  <2>2. ns[i] \in X /\ ns[i] \in Y  OBVIOUS
  <2>3. Ef \in Nat \ {0}  BY HnswGraphAssumption
  <2>4. r \in Searches(X, Y) /\ r.found # {}  OBVIOUS
  <2>. DEFINE e == ns[i]
  <2>5. Absorb(data, q, Ef, {}, r, e) \in Searches(X, Y)
        /\ Absorb(data, q, Ef, {}, r, e).found # {}
    <3>1. e \in X /\ e \in Y  BY <2>2
    <3>. HIDE DEF S, e
    <3>2. Absorb(data, q, Ef, {}, r, e) \in Searches(X, Y)
      BY <2>1, <2>3, <2>4, <3>1, AbsorbBounds, ZenonT(40)
    <3>3. Absorb(data, q, Ef, {}, r, e).found # {}
      BY <2>1, <2>3, <2>4, AbsorbKeeps
    <3>. QED  BY <3>2, <3>3
  <2>. QED  BY <2>5
<1>3. F \in [S \X (1..len) -> S]  BY <1>2
<1>4. Expand(data, q, s, n, ns) = (CHOOSE g : Rec(g))[1..len]
  <2>1. DOMAIN ns = 1..len  OBVIOUS
  <2>2. Expand(data, q, s, n, ns)
          = (CHOOSE g : g = [t \in SUBSET (DOMAIN ns) |->
                       IF t = {} THEN base ELSE Take(g[t \ {Max(t)}], Max(t))])[DOMAIN ns]
    BY DEF Expand, FoldLeft, MapThenFoldSet
  <2>. QED  BY <2>1, <2>2
<1>5. len \in Nat  OBVIOUS
<1>6. \A t \in SUBSET (1..len) : t # {} => Max(t) \in 1..len
  BY <1>5, MaxIn
<1>7. \E g : Rec(g)
  <2>1. PICK g : IsFold(g, S, base, len, F)
    <3>. HIDE DEF S, base, len, F
    <3>. QED  BY <1>1, <1>3, <1>5, FoldExists
  <2>2. ASSUME NEW t \in SUBSET (1..len)
        PROVE  g[t] = IF t = {} THEN base ELSE Take(g[t \ {Max(t)}], Max(t))
    <3>. HIDE DEF S, base, len, Take
    <3>1. t # {} => <<g[t \ {Max(t)}], Max(t)>> \in S \X (1..len)
      BY <1>6, <2>1 DEF IsFold
    <3>. QED  BY <2>1, <3>1 DEF IsFold
  <2>. HIDE DEF S, base, len, Take
  <2>3. g = [t \in SUBSET (1..len) |-> g[t]]  BY <2>1 DEF IsFold
  <2>4. g = [t \in SUBSET (1..len) |->
               IF t = {} THEN base ELSE Take(g[t \ {Max(t)}], Max(t))]
    <3>. HIDE DEF S, base, len, Take
    <3>. QED  BY <2>2, <2>3
  <2>. QED  BY <2>4
<1>. DEFINE g == CHOOSE h : Rec(h)
            T == {k \in 0..len : g[1..k] \in S}
<1>8. Rec(g)  BY <1>7
<1>. HIDE DEF g, Take, base, S, len
<1>9. 0 \in T
  <2>1. 1..0 = {} /\ 1..0 \in SUBSET (1..len) /\ 0 \in 0..len  BY <1>5
  <2>. QED  BY <1>1, <1>8, <2>1
<1>10. ASSUME NEW k \in 0..(len-1), k \in T PROVE k + 1 \in T
  <2>0. /\ 1..(k+1) \in SUBSET (1..len) /\ 1..(k+1) # {}
        /\ Max(1..(k+1)) = k + 1 /\ (1..(k+1)) \ {k+1} = 1..k
    BY <1>5, FoldSteps
  <2>1. g[1..(k+1)] = Take(g[1..k], k + 1)  BY <1>8, <2>0
  <2>2. k + 1 \in 1..len /\ k + 1 \in 0..len  BY <1>5
  <2>. QED  BY <1>2, <1>10, <2>1, <2>2
<1>11. g[1..len] \in S
  <2>. HIDE DEF T
  <2>1. len \in T  BY <1>5, <1>9, <1>10, UpTo
  <2>. QED  BY <2>1 DEF T
<1>. QED  BY <1>4, <1>11 DEF g, S

-----------------------------------------------------------------------------
(* Sorting and selectNeighborsHeuristic.                                   *)

(* A list of members of X is a list of members of a larger set.            *)
LEMMA SeqMono ==
  ASSUME NEW X, NEW Y, X \subseteq Y, NEW s \in Seq(X)
  PROVE  s \in Seq(Y)
OBVIOUS

(* A finite set in some order: each member once.                           *)
LEMMA SetToSeqIs ==
  ASSUME NEW S, IsFiniteSet(S)
  PROVE  /\ SetToSeq(S) \in Seq(S)
         /\ Len(SetToSeq(S)) = Cardinality(S)
         /\ \A i, j \in 1..Cardinality(S) : SetToSeq(S)[i] = SetToSeq(S)[j] => i = j
<1>. DEFINE c == Cardinality(S)
            Is(f) == f \in [1..c -> S] /\ IsInjective(f)
<1>1. c \in Nat /\ \E f : Is(f)
  BY FS_CardinalityType DEF ExistsBijection, Bijection, Injection
<1>2. SetToSeq(S) = CHOOSE f \in [1..c -> S] : IsInjective(f)
  BY DEF SetToSeq
<1>. HIDE DEF c
<1>3. Is(SetToSeq(S))  BY <1>1, <1>2, Zenon
<1>4. SetToSeq(S) \in Seq(S) /\ Len(SetToSeq(S)) = c  BY <1>1, <1>3
<1>. QED  BY <1>3, <1>4 DEF c, IsInjective

(* Distances are integers.                                                 *)
LEMMA DistNat ==
  ASSUME NEW x \in Int, NEW y \in Int
  PROVE  Dist(x, y) \in Int
BY DEF Dist, L2Squared

(* A function from a finite set to the integers has a greatest value: the  *)
(* member with the fewest members above it has none.                       *)
LEMMA HasMost ==
  ASSUME NEW S, IsFiniteSet(S), S # {}, NEW f \in [S -> Int]
  PROVE  \E n \in S : \A m \in S : f[m] <= f[n]
<1>. DEFINE Up(n) == {m \in S : f[n] < f[m]}
            Sizes == {Cardinality(Up(n)) : n \in S}
<1>1. ASSUME NEW n \in S PROVE IsFiniteSet(Up(n)) /\ Cardinality(Up(n)) \in Nat
  <2>1. Up(n) \in SUBSET S  OBVIOUS
  <2>. HIDE DEF Up
  <2>. QED  BY <2>1, FS_Subset, FS_CardinalityType
<1>2. ASSUME NEW n \in S, NEW m \in Up(n) PROVE Up(m) \in SUBSET (Up(n) \ {m})
  OBVIOUS
<1>. HIDE DEF Up
<1>3. PICK c \in Sizes : \A d \in Sizes : c <= d
  <2>1. Sizes \in SUBSET Nat /\ Sizes # {}  BY <1>1
  <2>. HIDE DEF Sizes
  <2>. QED  BY <2>1, LeastNat
<1>4. PICK n \in S : c = Cardinality(Up(n))  OBVIOUS
<1>5. Up(n) = {}
  <2>. SUFFICES ASSUME NEW m \in Up(n) PROVE FALSE  OBVIOUS
  <2>1. m \in S  BY DEF Up
  <2>2. Cardinality(Up(n) \ {m}) = Cardinality(Up(n)) - 1 /\ IsFiniteSet(Up(n) \ {m})
    BY <1>1, FS_RemoveElement
  <2>3. Cardinality(Up(m)) <= Cardinality(Up(n) \ {m})
    BY <1>2, <2>2, FS_Subset
  <2>4. c <= Cardinality(Up(m))  BY <1>3, <2>1
  <2>. QED  BY <1>1, <1>4, <2>1, <2>2, <2>3, <2>4
<1>6. \A m \in S : ~ (f[n] < f[m])  BY <1>5 DEF Up
<1>. QED  BY <1>6

(* Of finitely many nodes some are nearest, and some are farthest.         *)
LEMMA Extremes ==
  ASSUME NEW I, NEW data \in [I -> Int], NEW q \in Int,
         NEW S \in SUBSET I, IsFiniteSet(S), S # {}
  PROVE  Nearest(data, q, S) # {} /\ Farthest(data, q, S) # {}
<1>. DEFINE d(n) == Dist(q, data[n])
            f == [n \in S |-> d(n)]
            g == [n \in S |-> - d(n)]
<1>1. ASSUME NEW n \in S PROVE d(n) \in Int /\ - d(n) \in Int
  <2>1. d(n) \in Int  BY DistNat
  <2>. HIDE DEF d
  <2>. QED  BY <2>1
<1>. HIDE DEF d
<1>2. f \in [S -> Int] /\ g \in [S -> Int]  BY <1>1
<1>3. PICK n \in S : \A m \in S : f[m] <= f[n]
  <2>. HIDE DEF f
  <2>. QED  BY <1>2, HasMost
<1>4. PICK k \in S : \A m \in S : g[m] <= g[k]
  <2>. HIDE DEF g
  <2>. QED  BY <1>2, HasMost
<1>5. \A m \in S : d(m) <= d(n)  BY <1>3
<1>6. \A m \in S : d(k) <= d(m)
  <2>. TAKE m \in S
  <2>1. - d(m) <= - d(k)  BY <1>4
  <2>. QED  BY <1>1, <2>1
<1>7. n \in Farthest(data, q, S)  BY <1>1, <1>5 DEF Farthest, d
<1>8. k \in Nearest(data, q, S)  BY <1>6 DEF Nearest, d
<1>. QED  BY <1>7, <1>8

(* Before is a strict total order of the positions: distance, then id,     *)
(* then position.                                                          *)
LEMMA BeforeIsOrder ==
  ASSUME NEW I \in SUBSET Int, NEW data \in [I -> Int], NEW q \in Int, NEW cands \in Seq(I)
  PROVE  /\ \A i \in DOMAIN cands : ~ Before(data, q, cands, i, i)
         /\ \A i, j \in DOMAIN cands :
              i = j \/ Before(data, q, cands, i, j) \/ Before(data, q, cands, j, i)
         /\ \A i, j, k \in DOMAIN cands :
              Before(data, q, cands, i, j) /\ Before(data, q, cands, j, k)
                => Before(data, q, cands, i, k)
<1>. DEFINE D == DOMAIN cands
            near(k) == Dist(q, data[cands[k]])
            B(i, j) == \/ near(i) < near(j)
                       \/ near(i) = near(j) /\ (cands[i] < cands[j] \/ (cands[i] = cands[j] /\ i < j))
<1>1. \A k \in D : k \in Int /\ cands[k] \in Int /\ near(k) \in Int
  <2>. TAKE k \in D
  <2>1. k \in Int /\ cands[k] \in I /\ cands[k] \in Int  OBVIOUS
  <2>2. data[cands[k]] \in Int  BY <2>1
  <2>. QED  BY <2>1, <2>2, DistNat
<1>2. \A i, j : Before(data, q, cands, i, j) <=> B(i, j)
  BY DEF Before
<1>. HIDE DEF near, D
<1>3. \A i \in D : ~ B(i, i)  BY <1>1
<1>4. \A i, j \in D : i = j \/ B(i, j) \/ B(j, i)  BY <1>1
<1>5. \A i, j, k \in D : B(i, j) /\ B(j, k) => B(i, k)
  <2>. TAKE i, j, k \in D
  <2>1. i \in Int /\ j \in Int /\ k \in Int /\ cands[i] \in Int /\ cands[j] \in Int /\ cands[k] \in Int
        /\ near(i) \in Int /\ near(j) \in Int /\ near(k) \in Int
    BY <1>1
  <2>. QED  BY <2>1
<1>. HIDE DEF B
<1>. QED  BY <1>2, <1>3, <1>4, <1>5 DEF D

\* The place of position i among the candidates, nearest first.
Rank(data, q, cands, i) ==
  1 + Cardinality({j \in DOMAIN cands : Before(data, q, cands, j, i)})

\* p puts the candidates in order.
Arranges(p, data, q, cands) ==
  /\ p \in [DOMAIN cands -> DOMAIN cands]
  /\ \A i, j \in DOMAIN cands : i < j => Before(data, q, cands, p[i], p[j])

(* Every list of candidates can be arranged nearest first: the place of a  *)
(* position is the number of positions up to it.                           *)
LEMMA ArrangementExists ==
  ASSUME NEW I \in SUBSET Int, NEW data \in [I -> Int], NEW q \in Int, NEW cands \in Seq(I)
  PROVE  \E p : Arranges(p, data, q, cands)
<1>. DEFINE D == DOMAIN cands
            B(i, j) == Before(data, q, cands, i, j)
            Under(i) == {j \in D : B(j, i)}
            R(i) == Rank(data, q, cands, i)
            r == [i \in D |-> R(i)]
            n == Len(cands)
<1>1. D = 1..n /\ n \in Nat /\ IsFiniteSet(D) /\ Cardinality(D) = n
  <2>1. D = 1..n /\ n \in Nat  OBVIOUS
  <2>. HIDE DEF D, n
  <2>. QED  BY <2>1, FS_Interval
<1>2. \A i : R(i) = 1 + Cardinality(Under(i))  BY DEF Rank
<1>3. \A i : Under(i) \subseteq D  OBVIOUS
<1>4. /\ \A i \in D : ~ B(i, i)
      /\ \A i, j \in D : i = j \/ B(i, j) \/ B(j, i)
      /\ \A i, j, k \in D : B(i, j) /\ B(j, k) => B(i, k)
  BY BeforeIsOrder
<1>. HIDE DEF D, B, R, n
<1>5. ASSUME NEW i \in D
      PROVE  /\ i \notin Under(i) /\ \A j \in D : B(i, j) => i \in Under(j)
             /\ \A j \in D : B(i, j) => Under(i) \subseteq Under(j)
  BY <1>4
<1>. HIDE DEF Under
<1>6. ASSUME NEW i \in D
      PROVE  /\ IsFiniteSet(Under(i)) /\ Cardinality(Under(i)) \in Nat
             /\ R(i) \in D
  <2>1. IsFiniteSet(Under(i)) /\ Cardinality(Under(i)) \in Nat
    BY <1>1, <1>3, FS_Subset, FS_CardinalityType
  <2>2. IsFiniteSet(D \ {i})
        /\ Cardinality(D \ {i}) = IF i \in D THEN Cardinality(D) - 1 ELSE Cardinality(D)
    BY <1>1, FS_RemoveElement, Zenon
  <2>3. Under(i) \in SUBSET (D \ {i})  BY <1>3, <1>5
  <2>4. Cardinality(Under(i)) <= Cardinality(D \ {i})  BY <2>2, <2>3, FS_Subset
  <2>5. R(i) \in 1..n  BY <1>1, <1>2, <2>1, <2>2, <2>4
  <2>. QED  BY <1>1, <2>1, <2>5
<1>61. ASSUME NEW i \in D, NEW j \in D, B(i, j) PROVE R(i) < R(j)
  <2>1. Under(i) \cup {i} \in SUBSET Under(j) /\ i \notin Under(i)  BY <1>5, <1>61
  <2>2. Cardinality(Under(i) \cup {i}) = Cardinality(Under(i)) + 1
    BY <1>6, <2>1, FS_AddElement
  <2>3. Cardinality(Under(i)) + 1 <= Cardinality(Under(j))
    BY <1>6, <2>1, <2>2, FS_Subset
  <2>4. Cardinality(Under(i)) \in Nat /\ Cardinality(Under(j)) \in Nat  BY <1>6
  <2>5. R(i) = 1 + Cardinality(Under(i)) /\ R(j) = 1 + Cardinality(Under(j))  BY <1>2
  <2>. QED  BY <2>3, <2>4, <2>5
<1>7. r \in Injection(D, D)
  <2>1. r \in [D -> D]  BY <1>6
  <2>2. ASSUME NEW i \in D, NEW j \in D, i # j PROVE R(i) # R(j)
    <3>1. R(i) \in Int /\ R(j) \in Int  BY <1>1, <1>6
    <3>2. B(i, j) \/ B(j, i)  BY <1>4, <2>2
    <3>. QED  BY <1>61, <3>1, <3>2
  <2>. QED  BY <2>1, <2>2 DEF Injection, IsInjective
<1>8. r \in Surjection(D, D)
  <2>. HIDE DEF r
  <2>. QED  BY <1>1, <1>7, FS_Injection
<1>9. \A k \in D : \E i \in D : R(i) = k
  BY <1>8 DEF Surjection
<1>. DEFINE p == [k \in D |-> CHOOSE i \in D : R(i) = k]
<1>10. ASSUME NEW k \in D PROVE p[k] \in D /\ R(p[k]) = k
  <2>1. p[k] = CHOOSE i \in D : R(i) = k  OBVIOUS
  <2>. HIDE DEF p
  <2>. QED  BY <1>9, <2>1, Zenon
<1>. HIDE DEF p, r
<1>11. ASSUME NEW i \in D, NEW j \in D, i < j PROVE B(p[i], p[j])
  <2>1. p[i] \in D /\ p[j] \in D /\ R(p[i]) = i /\ R(p[j]) = j  BY <1>10
  <2>2. i \in Int /\ j \in Int  BY <1>1
  <2>3. p[i] # p[j]  BY <1>11, <2>1, <2>2
  <2>4. ~ B(p[j], p[i])
    <3>. SUFFICES ASSUME B(p[j], p[i]) PROVE FALSE  OBVIOUS
    <3>1. j < i  BY <1>61, <2>1
    <3>. QED  BY <1>11, <2>2, <3>1
  <2>. QED  BY <1>4, <2>1, <2>3, <2>4
<1>12. p \in [D -> D]
  <2>1. p = [k \in D |-> p[k]]  BY DEF p
  <2>. QED  BY <1>10, <2>1
<1>. QED  BY <1>11, <1>12 DEF Arranges, D, B

(* Sorted is such an arrangement.                                          *)
LEMMA SortedArranged ==
  ASSUME NEW I \in SUBSET Int, NEW data \in [I -> Int], NEW q \in Int, NEW cands \in Seq(I)
  PROVE  \E p : /\ Arranges(p, data, q, cands)
                /\ Sorted(data, q, cands) = [k \in DOMAIN cands |-> cands[p[k]]]
<1>. DEFINE D == DOMAIN cands
            Is(p) == \A i, j \in D : i < j => Before(data, q, cands, p[i], p[j])
            order == CHOOSE p \in [D -> D] : Is(p)
<1>1. \E p \in [D -> D] : Is(p)  BY ArrangementExists DEF Arranges
<1>2. order \in [D -> D] /\ Is(order)
  <2>. HIDE DEF Is, D
  <2>. QED  BY <1>1, Zenon
<1>3. Sorted(data, q, cands) = [k \in D |-> cands[order[k]]]
  BY DEF Sorted
<1>4. Arranges(order, data, q, cands)
  <2>. HIDE DEF order
  <2>. QED  BY <1>2 DEF Arranges
<1>. HIDE DEF order
<1>. QED  BY <1>3, <1>4

(* Sorting brings in no other candidates.                                  *)
LEMMA SortedIs ==
  ASSUME NEW I \in SUBSET Int, NEW data \in [I -> Int], NEW q \in Int,
         NEW X \in SUBSET I, NEW cands \in Seq(X)
  PROVE  Sorted(data, q, cands) \in Seq(X)
<1>. DEFINE D == DOMAIN cands
<1>1. D = 1..Len(cands) /\ Len(cands) \in Nat /\ cands \in [D -> X] /\ cands \in Seq(I)
  OBVIOUS
<1>2. PICK p : Arranges(p, data, q, cands) /\ Sorted(data, q, cands) = [k \in D |-> cands[p[k]]]
  BY <1>1, SortedArranged, ZenonT(40)
<1>3. p \in [D -> D]  BY <1>2 DEF Arranges
<1>. HIDE DEF D
<1>4. [k \in D |-> cands[p[k]]] \in [1..Len(cands) -> X]  BY <1>1, <1>3
<1>. QED  BY <1>1, <1>2, <1>4

(* Sorting loses and doubles none.                                         *)
LEMMA SortedLen ==
  ASSUME NEW I \in SUBSET Int, NEW data \in [I -> Int], NEW q \in Int, NEW cands \in Seq(I)
  PROVE  Len(Sorted(data, q, cands)) = Len(cands)
<1>1. Sorted(data, q, cands) \in Seq(I)  BY SortedIs
<1>2. DOMAIN Sorted(data, q, cands) = DOMAIN cands  BY SortedArranged
<1>. QED  BY <1>1, <1>2

(* The first of the sorted candidates is a nearest one.                    *)
LEMMA SortedHead ==
  ASSUME NEW I \in SUBSET Int, NEW data \in [I -> Int], NEW q \in Int,
         NEW cands \in Seq(I), cands # << >>
  PROVE  \A i \in DOMAIN cands :
           Dist(q, data[Sorted(data, q, cands)[1]]) <= Dist(q, data[cands[i]])
<1>. DEFINE D == DOMAIN cands
            near(i) == Dist(q, data[cands[i]])
            B(i, j) == Before(data, q, cands, i, j)
<1>1. 1 \in D /\ IsFiniteSet(D) /\ \A i \in D : i \in Int /\ i >= 1
  <2>1. D = 1..Len(cands) /\ Len(cands) \in Nat /\ 1 \in D  OBVIOUS
  <2>. HIDE DEF D
  <2>. QED  BY <2>1, FS_Interval
<1>2. PICK p : Arranges(p, data, q, cands) /\ Sorted(data, q, cands) = [k \in D |-> cands[p[k]]]
  BY SortedArranged, ZenonT(40)
<1>3. Sorted(data, q, cands)[1] = cands[p[1]]  BY <1>1, <1>2
<1>4. p \in [D -> D] /\ \A i, j \in D : i < j => B(p[i], p[j])  BY <1>2 DEF Arranges
<1>5. \A i \in D : ~ B(i, i)  BY BeforeIsOrder
<1>6. ASSUME NEW i \in D PROVE near(i) \in Int
  <2>1. cands[i] \in I  OBVIOUS
  <2>2. data[cands[i]] \in Int  BY <2>1
  <2>. QED  BY <2>2, DistNat
<1>7. \A i, j : B(i, j) => near(i) < near(j) \/ near(i) = near(j)  BY DEF Before
<1>. HIDE DEF D, B, near
<1>8. p \in Surjection(D, D)
  <2>1. ASSUME NEW i \in D, NEW j \in D, i # j PROVE p[i] # p[j]
    <3>1. i < j \/ j < i  BY <1>1, <2>1
    <3>. QED  BY <1>4, <1>5, <3>1
  <2>2. p \in Injection(D, D)  BY <1>4, <2>1 DEF Injection, IsInjective
  <2>. QED  BY <1>1, <2>2, FS_Injection
<1>9. ASSUME NEW i \in D PROVE near(p[1]) <= near(i)
  <2>1. PICK j \in D : p[j] = i  BY <1>8 DEF Surjection
  <2>2. p[1] \in D /\ near(p[1]) \in Int /\ near(i) \in Int  BY <1>1, <1>4, <1>6
  <2>3. CASE j = 1
    BY <2>1, <2>2, <2>3
  <2>4. CASE j # 1
    <3>1. B(p[1], p[j])  BY <1>1, <1>4, <2>4
    <3>. QED  BY <1>7, <2>1, <2>2, <3>1
  <2>. QED  BY <2>3, <2>4
<1>. QED  BY <1>3, <1>9 DEF D, near

(* Sorting rearranges: the order is a one-to-one map of the positions.     *)
LEMMA ArrangesOnto ==
  ASSUME NEW I \in SUBSET Int, NEW data \in [I -> Int], NEW q \in Int, NEW cands \in Seq(I),
         NEW p, Arranges(p, data, q, cands)
  PROVE  /\ p \in Injection(DOMAIN cands, DOMAIN cands)
         /\ p \in Surjection(DOMAIN cands, DOMAIN cands)
<1>. DEFINE D == DOMAIN cands
            B(i, j) == Before(data, q, cands, i, j)
<1>1. IsFiniteSet(D) /\ \A i \in D : i \in Int
  <2>1. D = 1..Len(cands) /\ Len(cands) \in Nat  OBVIOUS
  <2>. HIDE DEF D
  <2>. QED  BY <2>1, FS_Interval
<1>2. p \in [D -> D] /\ \A i, j \in D : i < j => B(p[i], p[j])  BY DEF Arranges
<1>3. \A i \in D : ~ B(i, i)  BY BeforeIsOrder
<1>. HIDE DEF D, B
<1>4. ASSUME NEW i \in D, NEW j \in D, i # j PROVE p[i] # p[j]
  <2>1. i < j \/ j < i  BY <1>1, <1>4
  <2>. QED  BY <1>2, <1>3, <2>1
<1>5. p \in Injection(D, D)  BY <1>2, <1>4 DEF Injection, IsInjective
<1>6. p \in Surjection(D, D)  BY <1>1, <1>5, FS_Injection
<1>. QED  BY <1>5, <1>6 DEF D

\* The list r orders the members of S by the distances dist.
Orders(dist, r, S) ==
  /\ r \in Seq(S) /\ IsInjective(r) /\ Range(r) = S /\ Len(r) = Cardinality(S)
  /\ \A i, j \in DOMAIN r : i <= j => dist[r[i]] <= dist[r[j]]

(* A finite set, sorted: each member once, nearest first.                  *)
LEMMA SortedSet ==
  ASSUME NEW I \in SUBSET Int, NEW data \in [I -> Int], NEW q \in Int,
         NEW dist, dist = [n \in I |-> Dist(q, data[n])],
         NEW S \in SUBSET I, IsFiniteSet(S)
  PROVE  Orders(dist, Sorted(data, q, SetToSeq(S)), S)
<1>1. PICK cands : cands = SetToSeq(S)  OBVIOUS
<1>2. /\ cands \in Seq(S) /\ Len(cands) = Cardinality(S) /\ Cardinality(S) \in Nat
      /\ \A i, j \in DOMAIN cands : cands[i] = cands[j] => i = j
  BY <1>1, SetToSeqIs, FS_CardinalityType
<1>3. cands \in Seq(I)  BY <1>2, SeqMono
<1>. DEFINE D == DOMAIN cands
<1>4. PICK p : Arranges(p, data, q, cands) /\ Sorted(data, q, cands) = [k \in D |-> cands[p[k]]]
  BY <1>3, SortedArranged, ZenonT(40)
<1>5. /\ \A i, j \in D : p[i] = p[j] => i = j
      /\ \A k \in D : \E i \in D : p[i] = k
  <2>1. Arranges(p, data, q, cands)  BY <1>4
  <2>2. p \in Injection(DOMAIN cands, DOMAIN cands) /\ p \in Surjection(DOMAIN cands, DOMAIN cands)
    BY <1>3, <2>1, ArrangesOnto, Zenon
  <2>. QED  BY <2>2 DEF Injection, Surjection, IsInjective
<1>6. p \in [D -> D] /\ \A i, j \in D : i < j => Before(data, q, cands, p[i], p[j])
  BY <1>4 DEF Arranges
<1>7. D = 1..Cardinality(S) /\ IsFiniteSet(D) /\ Cardinality(D) = Cardinality(S)
  <2>1. D = 1..Cardinality(S)  BY <1>2
  <2>. HIDE DEF D
  <2>. QED  BY <1>2, <2>1, FS_Interval
<1>8. cands \in [D -> S]  BY <1>2
<1>9. \A n \in S : \E i \in D : cands[i] = n
  <2>1. cands \in Injection(D, S)  BY <1>2, <1>8 DEF Injection, IsInjective
  <2>. HIDE DEF D
  <2>2. cands \in Surjection(D, S)  BY <1>7, <2>1, FS_Injection
  <2>. QED  BY <2>2 DEF Surjection
<1>10. ASSUME NEW i \in D, NEW j \in D, Before(data, q, cands, i, j)
       PROVE  dist[cands[i]] <= dist[cands[j]]
  <2>1. cands[i] \in I /\ cands[j] \in I  BY <1>8
  <2>2. data[cands[i]] \in Int /\ data[cands[j]] \in Int  BY <2>1
  <2>3. /\ dist[cands[i]] = Dist(q, data[cands[i]]) /\ dist[cands[i]] \in Int
        /\ dist[cands[j]] = Dist(q, data[cands[j]]) /\ dist[cands[j]] \in Int
    BY <2>1, <2>2, DistNat
  <2>. QED  BY <1>10, <2>3 DEF Before
<1>11. ASSUME NEW i \in D PROVE dist[cands[i]] \in Int
  <2>1. cands[i] \in I  BY <1>8
  <2>2. data[cands[i]] \in Int  BY <2>1
  <2>. QED  BY <2>1, <2>2, DistNat
<1>12. PICK r : r = Sorted(data, q, cands)  OBVIOUS
<1>. HIDE DEF D
<1>13. r \in [D -> S] /\ \A i \in D : r[i] = cands[p[i]] /\ p[i] \in D
  BY <1>4, <1>6, <1>8, <1>12
<1>14. r \in Seq(S) /\ Len(r) = Cardinality(S) /\ DOMAIN r = D
  BY <1>2, <1>7, <1>13
<1>15. IsInjective(r)
  <2>. SUFFICES ASSUME NEW i \in D, NEW j \in D, r[i] = r[j] PROVE i = j
    BY <1>14 DEF IsInjective
  <2>1. cands[p[i]] = cands[p[j]] /\ p[i] \in D /\ p[j] \in D  BY <1>13
  <2>2. p[i] = p[j]  BY <1>2, <2>1 DEF D
  <2>. QED  BY <1>5, <2>2
<1>16. Range(r) = S
  <2>1. Range(r) = {r[i] : i \in D}  BY <1>14 DEF Range
  <2>2. ASSUME NEW n \in S PROVE \E k \in D : r[k] = n
    <3>1. PICK i \in D : cands[i] = n  BY <1>9
    <3>2. PICK k \in D : p[k] = i  BY <1>5
    <3>. QED  BY <1>13, <3>1, <3>2
  <2>. QED  BY <1>13, <2>1, <2>2
<1>17. \A i, j \in D : i <= j => dist[r[i]] <= dist[r[j]]
  <2>. SUFFICES ASSUME NEW i \in D, NEW j \in D, i <= j PROVE dist[r[i]] <= dist[r[j]]
    OBVIOUS
  <2>1. i \in Int /\ j \in Int  BY <1>7
  <2>2. r[i] = cands[p[i]] /\ r[j] = cands[p[j]] /\ p[i] \in D /\ p[j] \in D  BY <1>13
  <2>3. CASE i = j  BY <1>11, <2>2, <2>3
  <2>4. CASE i < j  BY <1>6, <1>10, <2>2, <2>4
  <2>. QED  BY <2>1, <2>3, <2>4
<1>. QED  BY <1>1, <1>12, <1>14, <1>15, <1>16, <1>17 DEF Orders

\* Members of S have distances.
Measures(dist, S) == \A n \in S : dist[n] \in Int

\* Two lists have the same distances, place by place.
Alike(dist, r1, r2) ==
  DOMAIN r1 = DOMAIN r2 /\ \A i \in DOMAIN r1 : dist[r1[i]] = dist[r2[i]]

\* r lists members of S, each once, nearest first, and leaves out none that
\* is nearer than a member it has.
Leads(dist, r, S) ==
  /\ r \in Seq(S) /\ IsInjective(r)
  /\ \A i, j \in DOMAIN r : i <= j => dist[r[i]] <= dist[r[j]]
  /\ \A i \in DOMAIN r : \A m \in S \ Range(r) : dist[r[i]] <= dist[m]

(* Of two lists of nearest members neither is nearer at any place: the     *)
(* first i of one would all have to be among the first i - 1 of the other. *)
LEMMA NoneNearer ==
  ASSUME NEW S, NEW dist, Measures(dist, S), NEW r1, NEW r2,
         Leads(dist, r1, S), Leads(dist, r2, S), Len(r1) = Len(r2), NEW i \in DOMAIN r1
  PROVE  ~ (dist[r1[i]] < dist[r2[i]])
<1>. SUFFICES ASSUME dist[r1[i]] < dist[r2[i]] PROVE FALSE  OBVIOUS
<1>1. r1 \in Seq(S) /\ r2 \in Seq(S) /\ IsInjective(r1) /\ IsInjective(r2)  BY DEF Leads
<1>2. PICK D : D = DOMAIN r1 /\ D = DOMAIN r2 /\ D = 1..Len(r1) /\ Len(r1) \in Nat
  BY <1>1
<1>3. i \in D /\ i \in Nat /\ i >= 1 /\ \A j \in 1..i : j \in D  BY <1>2
<1>4. \A j \in D : j \in Nat /\ j >= 1 /\ r1[j] \in S /\ r2[j] \in S  BY <1>1, <1>2
<1>5. ASSUME NEW j \in 1..i PROVE \E k \in 1..(i-1) : r2[k] = r1[j]
  <2>1. j \in D /\ j <= i  BY <1>3
  <2>2. dist[r1[j]] <= dist[r1[i]]  BY <1>2, <1>3, <2>1 DEF Leads
  <2>3. /\ dist[r1[j]] \in Int /\ dist[r1[i]] \in Int /\ dist[r2[i]] \in Int
    BY <1>3, <1>4, <2>1 DEF Measures
  <2>4. dist[r1[j]] < dist[r2[i]]  BY <2>2, <2>3
  <2>5. r1[j] \in Range(r2)
    <3>. SUFFICES ASSUME r1[j] \notin Range(r2) PROVE FALSE  OBVIOUS
    <3>1. dist[r2[i]] <= dist[r1[j]]  BY <1>2, <1>3, <1>4, <2>1 DEF Leads
    <3>. QED  BY <2>3, <2>4, <3>1
  <2>6. PICK k \in D : r2[k] = r1[j]  BY <1>2, <2>5 DEF Range
  <2>7. k < i
    <3>. SUFFICES ASSUME ~ (k < i) PROVE FALSE  OBVIOUS
    <3>1. i <= k  BY <1>3, <1>4
    <3>2. dist[r2[i]] <= dist[r2[k]]  BY <1>2, <1>3, <3>1 DEF Leads
    <3>. QED  BY <2>3, <2>4, <2>6, <3>2
  <2>8. k \in 1..(i-1)  BY <1>3, <1>4, <2>7
  <2>. QED  BY <2>6, <2>8
<1>. DEFINE f == [j \in 1..i |-> CHOOSE k \in 1..(i-1) : r2[k] = r1[j]]
<1>6. ASSUME NEW j \in 1..i PROVE f[j] \in 1..(i-1) /\ r2[f[j]] = r1[j]
  <2>1. f[j] = CHOOSE k \in 1..(i-1) : r2[k] = r1[j]  OBVIOUS
  <2>. HIDE DEF f
  <2>. QED  BY <1>5, <2>1, Zenon
<1>7. f \in [1..i -> 1..(i-1)]
  <2>1. f = [j \in 1..i |-> f[j]]  OBVIOUS
  <2>. HIDE DEF f
  <2>. QED  BY <1>6, <2>1
<1>. HIDE DEF f
<1>8. PICK j, k \in 1..i : j # k /\ f[j] = f[k]
  <2>1. /\ IsFiniteSet(1..i) /\ IsFiniteSet(1..(i-1))
        /\ Cardinality(1..(i-1)) < Cardinality(1..i)
    <3>1. i - 1 \in Nat /\ 1 \in Int /\ i \in Int /\ i - 1 \in Int  BY <1>3
    <3>2. IsFiniteSet(1..i) /\ Cardinality(1..i) = i
      BY <1>3, FS_Interval
    <3>3. IsFiniteSet(1..(i-1)) /\ Cardinality(1..(i-1)) = i - 1
      <4>1. PICK z \in Nat : z = i - 1  BY <3>1
      <4>2. /\ IsFiniteSet(1..z)
            /\ Cardinality(1..z) = IF 1 > z THEN 0 ELSE (z - 1) + 1
        <5>1. 1 \in Int /\ z \in Int  OBVIOUS
        <5>. QED  BY <5>1, FS_Interval, Zenon
      <4>3. Cardinality(1..z) = z  BY <4>2
      <4>. QED  BY <4>1, <4>2, <4>3
    <3>. QED  BY <1>3, <3>2, <3>3
  <2>. QED  BY <1>7, <2>1, FS_PigeonHole
<1>9. r1[j] = r1[k] /\ j \in D /\ k \in D  BY <1>3, <1>6, <1>8
<1>. QED  BY <1>1, <1>2, <1>8, <1>9 DEF IsInjective

(* All lists of the nearest members of a set, of one length, have the same *)
(* distances.                                                              *)
LEMMA SameDistances ==
  ASSUME NEW S, NEW dist, Measures(dist, S), NEW r1, NEW r2,
         Leads(dist, r1, S), Leads(dist, r2, S), Len(r1) = Len(r2)
  PROVE  Alike(dist, r1, r2)
<1>1. r1 \in Seq(S) /\ r2 \in Seq(S)  BY DEF Leads
<1>2. DOMAIN r1 = DOMAIN r2  BY <1>1
<1>3. ASSUME NEW i \in DOMAIN r1 PROVE dist[r1[i]] = dist[r2[i]]
  <2>1. ~ (dist[r1[i]] < dist[r2[i]])  BY NoneNearer, Zenon
  <2>2. ~ (dist[r2[i]] < dist[r1[i]])
    <3>1. i \in DOMAIN r2 /\ Len(r2) = Len(r1)  BY <1>2
    <3>. QED  BY <3>1, NoneNearer, Zenon
  <2>3. r1[i] \in S /\ r2[i] \in S  BY <1>1, <1>2
  <2>. QED  BY <2>1, <2>2, <2>3 DEF Measures
<1>. QED  BY <1>2, <1>3 DEF Alike

(* Some members of a set, in order, lead it if none left out is nearer.    *)
LEMMA PartLeads ==
  ASSUME NEW S, NEW T \in SUBSET S, NEW dist, NEW r, Orders(dist, r, T),
         \A n \in T, m \in S \ T : dist[n] <= dist[m]
  PROVE  Leads(dist, r, S)
<1>1. r \in Seq(T) /\ IsInjective(r) /\ Range(r) = T  BY DEF Orders
<1>2. r \in Seq(S)  BY <1>1, SeqMono
<1>3. \A i \in DOMAIN r : r[i] \in T  BY <1>1
<1>. QED  BY <1>1, <1>2, <1>3 DEF Orders, Leads

(* So do the first z members of the whole set in order.                    *)
LEMMA PrefixLeads ==
  ASSUME NEW S, NEW dist, NEW s, Orders(dist, s, S), NEW z \in Nat, z <= Len(s)
  PROVE  Leads(dist, SubSeq(s, 1, z), S) /\ Len(SubSeq(s, 1, z)) = z
<1>1. s \in Seq(S) /\ IsInjective(s) /\ Range(s) = S  BY DEF Orders
<1>2. PICK r : r = SubSeq(s, 1, z)  OBVIOUS
<1>3. /\ r \in Seq(S) /\ Len(r) = z /\ DOMAIN r = 1..z /\ 1..z \subseteq DOMAIN s
      /\ \A i \in 1..z : r[i] = s[i]
  BY <1>1, <1>2
<1>4. IsInjective(r)  BY <1>1, <1>3 DEF IsInjective
<1>5. \A i, j \in DOMAIN r : i <= j => dist[r[i]] <= dist[r[j]]  BY <1>3 DEF Orders
<1>6. ASSUME NEW i \in DOMAIN r, NEW m \in S \ Range(r) PROVE dist[r[i]] <= dist[m]
  <2>1. PICK j \in DOMAIN s : s[j] = m  BY <1>1 DEF Range
  <2>2. j \notin 1..z  BY <1>3, <2>1 DEF Range
  <2>3. j \in Nat /\ j >= 1 /\ i \in 1..z  BY <1>1, <1>3
  <2>4. i <= j /\ i \in DOMAIN s /\ r[i] = s[i]  BY <1>3, <2>2, <2>3
  <2>. QED  BY <2>1, <2>4 DEF Orders
<1>. QED  BY <1>2, <1>3, <1>4, <1>5, <1>6 DEF Leads

\* What selectNeighborsHeuristic has kept and put aside.
Picks(X) == [kept : Seq(X), rest : Seq(X)]

\* The list s begins with c.
StartsWith(s, c) == s # << >> /\ s[1] = c

(* One round of selectNeighborsHeuristic keeps or puts aside the           *)
(* candidate, and nothing else.                                            *)
LEMMA ConsiderTypes ==
  ASSUME NEW X, NEW data, NEW q, NEW m \in Nat \ {0}, NEW a \in Picks(X), NEW c \in X
  PROVE  Consider(data, q, m, a, c) \in Picks(X)
<1>. DEFINE k == a.kept
            r == a.rest
<1>1. k \in Seq(X) /\ r \in Seq(X) /\ a = [kept |-> k, rest |-> r]  BY DEF Picks
<1>. HIDE DEF k, r
<1>2. Append(k, c) \in Seq(X) /\ Append(r, c) \in Seq(X)  BY <1>1
<1>. DEFINE kc == Append(k, c)
            rc == Append(r, c)
<1>3. \/ Consider(data, q, m, a, c) = a
      \/ Consider(data, q, m, a, c) = [kept |-> k, rest |-> rc]
      \/ Consider(data, q, m, a, c) = [kept |-> kc, rest |-> r]
  BY <1>1 DEF Consider
<1>. HIDE DEF kc, rc
<1>4. [kept |-> k, rest |-> rc] \in Picks(X) /\ [kept |-> kc, rest |-> r] \in Picks(X)
  BY <1>1, <1>2 DEF Picks, kc, rc
<1>. QED  BY <1>3, <1>4

(* The first candidate is kept: nothing kept so far can cover it.          *)
LEMMA ConsiderFirst ==
  ASSUME NEW X, NEW data, NEW q, NEW m \in Nat \ {0}, NEW a \in Picks(X), NEW c \in X,
         a.kept = << >>
  PROVE  StartsWith(Consider(data, q, m, a, c).kept, c)
<1>1. ~ (Len(a.kept) >= m) /\ ~ Covered(data, q, a.kept, c)  BY DEF Covered
<1>2. Consider(data, q, m, a, c) = [a EXCEPT !.kept = Append(@, c)]  BY <1>1 DEF Consider
<1>3. Consider(data, q, m, a, c).kept = Append(<< >>, c)  BY <1>2 DEF Picks
<1>. QED  BY <1>3 DEF StartsWith

(* What was kept first stays first.                                        *)
LEMMA ConsiderLater ==
  ASSUME NEW X, NEW data, NEW q, NEW m \in Nat \ {0}, NEW a \in Picks(X), NEW c \in X,
         NEW d, StartsWith(a.kept, d)
  PROVE  StartsWith(Consider(data, q, m, a, c).kept, d)
<1>. DEFINE k == a.kept
            r == a.rest
            kc == Append(k, c)
            rc == Append(r, c)
<1>1. k \in Seq(X) /\ a = [kept |-> k, rest |-> r]  BY DEF Picks
<1>2. k # << >> /\ k[1] = d  BY DEF StartsWith
<1>. HIDE DEF k, r
<1>3. StartsWith(kc, d)  BY <1>1, <1>2 DEF StartsWith
<1>4. \/ Consider(data, q, m, a, c) = a
      \/ Consider(data, q, m, a, c) = [kept |-> k, rest |-> rc]
      \/ Consider(data, q, m, a, c) = [kept |-> kc, rest |-> r]
  BY <1>1 DEF Consider
<1>. HIDE DEF kc, rc
<1>. QED  BY <1>3, <1>4 DEF k

(* A new element at the end of a list without repetitions.                 *)
LEMMA AppendOnce ==
  ASSUME NEW X, NEW s \in Seq(X), NEW c \in X, IsInjective(s), c \notin Range(s)
  PROVE  IsInjective(Append(s, c)) /\ Range(Append(s, c)) = Range(s) \cup {c}
<1>1. PICK r : r = Append(s, c)  OBVIOUS
<1>2. /\ DOMAIN r = 1..(Len(s) + 1) /\ DOMAIN s = 1..Len(s) /\ Len(s) \in Nat
      /\ r[Len(s) + 1] = c /\ \A i \in DOMAIN s : i \in DOMAIN r /\ r[i] = s[i]
      /\ \A i \in DOMAIN r : i \in DOMAIN s \/ i = Len(s) + 1
  BY <1>1
<1>3. IsInjective(r)  BY <1>2 DEF IsInjective, Range
<1>4. Range(r) = Range(s) \cup {c}  BY <1>2 DEF Range
<1>. QED  BY <1>1, <1>3, <1>4

(* Two lists without repetitions or common elements, one after the other.  *)
LEMMA ConcatOnce ==
  ASSUME NEW X, NEW s \in Seq(X), NEW r \in Seq(X), IsInjective(s), IsInjective(r),
         Range(s) \cap Range(r) = {}
  PROVE  IsInjective(s \o r)
<1>1. PICK a : a = s \o r  OBVIOUS
<1>2. /\ a \in Seq(X) /\ Len(s) \in Nat /\ Len(r) \in Nat /\ Len(a) = Len(s) + Len(r)
      /\ \A i \in 1..Len(s) : a[i] = s[i]
      /\ \A i \in 1..Len(r) : a[Len(s) + i] = r[i]
  BY <1>1
<1>3. ASSUME NEW i \in DOMAIN a, i \notin DOMAIN s
      PROVE  i - Len(s) \in DOMAIN r /\ a[i] = r[i - Len(s)] /\ a[i] \in Range(r)
  <2>1. i \in Nat /\ i > Len(s) /\ i <= Len(s) + Len(r)  BY <1>2, <1>3
  <2>2. PICK x \in Nat, y \in Nat : x = Len(s) /\ y = Len(r)  BY <1>2
  <2>3. i - x \in 1..y /\ x + (i - x) = i  BY <2>1, <2>2
  <2>4. PICK j \in 1..y : j = i - x /\ x + j = i  BY <2>3
  <2>5. a[i] = r[j] /\ j \in DOMAIN r  BY <1>2, <2>2, <2>4
  <2>. QED  BY <2>2, <2>4, <2>5 DEF Range
<1>4. ASSUME NEW i \in DOMAIN a, i \in DOMAIN s PROVE a[i] = s[i] /\ a[i] \in Range(s)
  <2>1. i \in 1..Len(s)  BY <1>4
  <2>2. a[i] = s[i]  BY <1>2, <2>1
  <2>3. s[i] \in Range(s)  BY <1>4, Zenon DEF Range
  <2>. QED  BY <2>2, <2>3
<1>5. \A i \in DOMAIN a : i \in Int  BY <1>2
<1>6. ASSUME NEW i \in DOMAIN a, NEW j \in DOMAIN a, a[i] = a[j] PROVE i = j
  <2>1. CASE i \in DOMAIN s /\ j \in DOMAIN s  BY <1>4, <1>6, <2>1 DEF IsInjective
  <2>2. CASE i \notin DOMAIN s /\ j \notin DOMAIN s
    <3>1. i - Len(s) = j - Len(s)  BY <1>3, <1>6, <2>2 DEF IsInjective
    <3>. QED  BY <1>2, <1>5, <3>1
  <2>3. CASE ~ (i \in DOMAIN s <=> j \in DOMAIN s)  BY <1>3, <1>4, <1>6, <2>3
  <2>. QED  BY <2>1, <2>2, <2>3
<1>. QED  BY <1>1, <1>6 DEF IsInjective

(* The beginning of a list without repetitions.                            *)
LEMMA PrefixOnce ==
  ASSUME NEW X, NEW s \in Seq(X), IsInjective(s), NEW z \in Nat, z <= Len(s)
  PROVE  IsInjective(SubSeq(s, 1, z))
<1>1. PICK r : r = SubSeq(s, 1, z)  OBVIOUS
<1>2. DOMAIN r = 1..z /\ 1..z \subseteq DOMAIN s /\ \A i \in 1..z : r[i] = s[i]
  BY <1>1
<1>3. IsInjective(r)  BY <1>2 DEF IsInjective
<1>. QED  BY <1>1, <1>3

(* Sorting repeats nothing.                                                *)
LEMMA SortedOnce ==
  ASSUME NEW I \in SUBSET Int, NEW data \in [I -> Int], NEW q \in Int, NEW cands \in Seq(I),
         IsInjective(cands)
  PROVE  IsInjective(Sorted(data, q, cands))
<1>1. PICK p : Arranges(p, data, q, cands)
               /\ Sorted(data, q, cands) = [k \in DOMAIN cands |-> cands[p[k]]]
  BY SortedArranged, ZenonT(40)
<1>2. PICK E : E = DOMAIN cands  OBVIOUS
<1>3. p \in [E -> E] /\ \A i, j \in E : p[i] = p[j] => i = j
  <2>1. Arranges(p, data, q, cands)  BY <1>1
  <2>2. p \in Injection(DOMAIN cands, DOMAIN cands)  BY <2>1, ArrangesOnto, Zenon
  <2>. QED  BY <1>2, <2>2 DEF Injection, IsInjective
<1>4. PICK r : r = Sorted(data, q, cands)  OBVIOUS
<1>5. r = [k \in E |-> cands[p[k]]]  BY <1>1, <1>2, <1>4
<1>6. ASSUME NEW i \in E, NEW j \in E, r[i] = r[j] PROVE i = j
  <2>1. cands[p[i]] = cands[p[j]] /\ p[i] \in E /\ p[j] \in E  BY <1>3, <1>5, <1>6
  <2>2. p[i] = p[j]  BY <1>2, <2>1 DEF IsInjective
  <2>. QED  BY <1>3, <2>2
<1>7. IsInjective(r)  BY <1>5, <1>6 DEF IsInjective
<1>. QED  BY <1>4, <1>7

\* What has been kept and put aside is in Y, each node once.
Once(a, Y) ==
  /\ IsInjective(a.kept) /\ IsInjective(a.rest)
  /\ Range(a.kept) \cap Range(a.rest) = {} /\ Range(a.kept) \cup Range(a.rest) \subseteq Y

(* A new candidate is kept or put aside once.                              *)
LEMMA ConsiderOnce ==
  ASSUME NEW X, NEW data, NEW q, NEW m \in Nat \ {0}, NEW a \in Picks(X), NEW c \in X,
         NEW Y, Once(a, Y), c \notin Y, NEW Z, Y \subseteq Z, c \in Z
  PROVE  Once(Consider(data, q, m, a, c), Z)
<1>1. PICK k, r : k = a.kept /\ r = a.rest  OBVIOUS
<1>2. k \in Seq(X) /\ r \in Seq(X) /\ a = [kept |-> k, rest |-> r]  BY <1>1 DEF Picks
<1>3. /\ IsInjective(k) /\ IsInjective(r) /\ Range(k) \cap Range(r) = {}
      /\ c \notin Range(k) /\ c \notin Range(r) /\ Range(k) \subseteq Z /\ Range(r) \subseteq Z
  BY <1>1 DEF Once
<1>4. PICK kc, rc : kc = Append(k, c) /\ rc = Append(r, c)  OBVIOUS
<1>5. /\ IsInjective(kc) /\ Range(kc) = Range(k) \cup {c}
      /\ IsInjective(rc) /\ Range(rc) = Range(r) \cup {c}
  BY <1>2, <1>3, <1>4, AppendOnce
<1>6. PICK b : b = Consider(data, q, m, a, c)  OBVIOUS
<1>7. \/ b = [kept |-> k, rest |-> r]
      \/ b = [kept |-> k, rest |-> rc]
      \/ b = [kept |-> kc, rest |-> r]
  BY <1>2, <1>4, <1>6 DEF Consider
<1>8. \/ b.kept = k /\ b.rest = r
      \/ b.kept = k /\ b.rest = rc
      \/ b.kept = kc /\ b.rest = r
  BY <1>7
<1>9. Once(b, Z)  BY <1>3, <1>5, <1>8 DEF Once
<1>. QED  BY <1>6, <1>9

(* selectNeighborsHeuristic returns between one and m of the candidates,   *)
(* the nearest one first, and none twice.                                  *)
LEMMA SelectBounds ==
  ASSUME NEW I \in SUBSET Int, NEW data \in [I -> Int], NEW q \in Int,
         NEW X \in SUBSET I, NEW cands \in Seq(X), cands # << >>, NEW m \in Nat \ {0}
  PROVE  /\ SelectNeighbors(data, q, cands, m) \in Seq(X)
         /\ SelectNeighbors(data, q, cands, m) # << >>
         /\ Len(SelectNeighbors(data, q, cands, m)) <= m
         /\ SelectNeighbors(data, q, cands, m)[1] = Sorted(data, q, cands)[1]
         /\ IsInjective(cands) => IsInjective(SelectNeighbors(data, q, cands, m))
<1>. DEFINE sorted == Sorted(data, q, cands)
            S == Picks(X)
            base == [kept |-> << >>, rest |-> << >>]
            len == Len(sorted)
            Take(a, i) == Consider(data, q, m, a, sorted[i])
            F == [p \in S \X (1..len) |-> Take(p[1], p[2])]
            Rec(g) == g = [t \in SUBSET (1..len) |->
                              IF t = {} THEN base ELSE Take(g[t \ {Max(t)}], Max(t))]
            acc == FoldLeft(LAMBDA a, c : Consider(data, q, m, a, c), base, sorted)
            all == acc.kept \o acc.rest
<1>4. acc = (CHOOSE g : Rec(g))[1..len]
  <2>1. acc = (CHOOSE g : g = [t \in SUBSET (DOMAIN sorted) |->
                  IF t = {} THEN base ELSE Take(g[t \ {Max(t)}], Max(t))])[DOMAIN sorted]
    BY DEF FoldLeft, MapThenFoldSet
  <2>2. DOMAIN sorted = 1..len  BY SortedIs
  <2>. HIDE DEF acc, Take, base
  <2>. QED  BY <2>1, <2>2
<1>3. SelectNeighbors(data, q, cands, m)
        = IF Len(cands) <= m THEN sorted
          ELSE SubSeq(all, 1, IF Len(all) < m THEN Len(all) ELSE m)
  BY DEF SelectNeighbors
<1>. HIDE DEF acc, Take, base
<1>1. sorted \in Seq(X) /\ len = Len(cands)
  <2>1. Sorted(data, q, cands) \in Seq(X)  BY SortedIs, Zenon
  <2>2. cands \in Seq(I)  BY SeqMono
  <2>3. Len(Sorted(data, q, cands)) = Len(cands)  BY <2>2, SortedLen
  <2>. QED  BY <2>1, <2>3
<1>2. len \in Nat /\ len >= 1 /\ DOMAIN sorted = 1..len /\ \A i \in 1..len : sorted[i] \in X
  BY <1>1
<1>. HIDE DEF sorted
<1>5. base \in S /\ base.kept = << >>
  BY DEF base, Picks
<1>6. ASSUME NEW a \in S, NEW i \in 1..len PROVE Take(a, i) \in S
  <2>1. sorted[i] \in X  BY <1>2
  <2>. QED  BY <2>1, ConsiderTypes DEF Take
<1>7. F \in [S \X (1..len) -> S]
  <2>. HIDE DEF S, Take, len
  <2>. QED  BY <1>6
<1>8. \E g : Rec(g)
  <2>1. \A t \in SUBSET (1..len) : t # {} => Max(t) \in 1..len  BY <1>2, MaxIn
  <2>. HIDE DEF S, base, len, Take
  <2>2. PICK g : IsFold(g, S, base, len, F)
    <3>. HIDE DEF F
    <3>. QED  BY <1>5, <1>7, <1>2, FoldExists
  <2>3. ASSUME NEW t \in SUBSET (1..len)
        PROVE  g[t] = IF t = {} THEN base ELSE Take(g[t \ {Max(t)}], Max(t))
    <3>1. t # {} => <<g[t \ {Max(t)}], Max(t)>> \in S \X (1..len)
      BY <2>1, <2>2 DEF IsFold
    <3>. QED  BY <2>2, <3>1 DEF IsFold
  <2>4. g = [t \in SUBSET (1..len) |-> g[t]]  BY <2>2 DEF IsFold
  <2>5. g = [t \in SUBSET (1..len) |->
               IF t = {} THEN base ELSE Take(g[t \ {Max(t)}], Max(t))]
    BY <2>3, <2>4
  <2>. QED  BY <2>5
<1>. DEFINE g == CHOOSE h : Rec(h)
            First(k) == {sorted[i] : i \in 1..k}
            Good(a, k) == /\ a \in S /\ StartsWith(a.kept, sorted[1])
                          /\ IsInjective(sorted) => Once(a, First(k))
            T == {k \in 0..(len-1) : Good(g[1..(k+1)], k + 1)}
<1>9. Rec(g)  BY <1>8
<1>. HIDE DEF g
<1>10. ASSUME NEW k \in 0..(len-1) PROVE g[1..(k+1)] = Take(g[1..k], k + 1)
  <2>. HIDE DEF Take, base, len
  <2>1. /\ 1..(k+1) \in SUBSET (1..len) /\ 1..(k+1) # {}
        /\ Max(1..(k+1)) = k + 1 /\ (1..(k+1)) \ {k+1} = 1..k
    BY <1>2, FoldSteps
  <2>. QED  BY <1>9, <2>1
<1>11. 0 \in T
  <2>1. g[1..0] = base
    <3>1. 1..0 = {} /\ 1..0 \in SUBSET (1..len)  OBVIOUS
    <3>. QED  BY <1>9, <3>1
  <2>2. 0 \in 0..(len-1) /\ 1 \in 1..len /\ 0 + 1 = 1 /\ sorted[1] \in X  BY <1>2
  <2>3. g[1..1] = Take(base, 1)
    <3>. HIDE DEF Take, base, len
    <3>. QED  BY <1>10, <2>1, <2>2
  <2>4. Take(base, 1) \in S /\ StartsWith(Take(base, 1).kept, sorted[1])
    BY <1>5, <1>6, <2>2, ConsiderFirst DEF Take
  <2>5. Once(Take(base, 1), First(1))
    <3>1. Once(base, {})  BY DEF Once, base, IsInjective, Range
    <3>2. sorted[1] \in First(1)  OBVIOUS
    <3>. HIDE DEF First
    <3>3. PICK Y : Y = {}  OBVIOUS
    <3>4. Once(base, Y) /\ Y \subseteq First(1) /\ sorted[1] \notin Y  BY <3>1, <3>3
    <3>5. base \in Picks(X)  BY <1>5
    <3>. QED  BY <2>2, <3>2, <3>4, <3>5, ConsiderOnce, Zenon DEF Take
  <2>6. Good(Take(base, 1), 1)  BY <2>4, <2>5
  <2>. HIDE DEF Good, Take
  <2>. QED  BY <2>2, <2>3, <2>6
<1>12. ASSUME NEW k \in 0..((len-1)-1), k \in T PROVE k + 1 \in T
  <2>1. k + 1 \in 0..(len-1) /\ k + 1 + 1 \in 1..len  BY <1>2
  <2>2. g[1..(k+1+1)] = Take(g[1..(k+1)], k + 1 + 1)
    <3>. HIDE DEF Take, len
    <3>. QED  BY <1>10, <2>1
  <2>. DEFINE a == g[1..(k+1)]
              c == sorted[k + 1 + 1]
  <2>3. Good(a, k + 1) /\ c \in X  BY <1>2, <1>12, <2>1
  <2>4. /\ First(k + 1) \subseteq First(k + 1 + 1) /\ c \in First(k + 1 + 1)
        /\ IsInjective(sorted) => c \notin First(k + 1)
    <3>1. /\ \A i \in 1..(k+1) : i \in 1..(k+1+1) /\ i \in 1..len /\ i # k + 1 + 1
          /\ k + 1 + 1 \in 1..(k+1+1)
      BY <1>2, <2>1
    <3>2. IsInjective(sorted) => \A i \in 1..(k+1) : sorted[i] # c
      BY <1>2, <2>1, <3>1 DEF IsInjective
    <3>. QED  BY <3>1, <3>2
  <2>. HIDE DEF a, c
  <2>5. /\ Consider(data, q, m, a, c) \in S
        /\ StartsWith(Consider(data, q, m, a, c).kept, sorted[1])
    BY <2>3, ConsiderTypes, ConsiderLater
  <2>6. ASSUME IsInjective(sorted)
        PROVE  Once(Consider(data, q, m, a, c), First(k + 1 + 1))
    <3>1. a \in Picks(X) /\ Once(a, First(k + 1)) /\ c \notin First(k + 1)  BY <2>3, <2>4, <2>6
    <3>. HIDE DEF First
    <3>. QED  BY <2>3, <2>4, <3>1, ConsiderOnce
  <2>7. Good(Consider(data, q, m, a, c), k + 1 + 1)  BY <2>5, <2>6
  <2>. HIDE DEF Good
  <2>. QED  BY <2>1, <2>2, <2>7 DEF a, c, Take
<1>13. Good(acc, len)
  <2>. HIDE DEF T, Good
  <2>1. len - 1 \in Nat /\ (len - 1) + 1 = len  BY <1>2
  <2>2. len - 1 \in T
    <3>. HIDE DEF len
    <3>. QED  BY <1>11, <1>12, <2>1, UpTo
  <2>. QED  BY <1>4, <2>1, <2>2 DEF T, g
<1>. DEFINE kept == acc.kept
            rest == acc.rest
<1>14. kept \in Seq(X) /\ rest \in Seq(X) /\ kept # << >> /\ kept[1] = sorted[1]
  BY <1>13 DEF Picks, StartsWith
<1>14a. IsInjective(cands) => IsInjective(sorted)
  <2>1. cands \in Seq(I)  BY SeqMono
  <2>. QED  BY <2>1, SortedOnce DEF sorted
<1>14b. IsInjective(cands) =>
          IsInjective(kept) /\ IsInjective(rest) /\ Range(kept) \cap Range(rest) = {}
  <2>. HIDE DEF First
  <2>. QED  BY <1>13, <1>14a DEF Once
<1>15. all = kept \o rest  OBVIOUS
<1>. HIDE DEF kept, rest, all
<1>16. all \in Seq(X) /\ Len(all) >= 1 /\ all[1] = sorted[1]  BY <1>14, <1>15
<1>16a. IsInjective(cands) => IsInjective(all)  BY <1>14, <1>14b, <1>15, ConcatOnce
<1>17. ASSUME NEW z \in 1..Len(all)
       PROVE  SubSeq(all, 1, z) \in Seq(X) /\ Len(SubSeq(all, 1, z)) = z
              /\ SubSeq(all, 1, z)[1] = all[1]
  BY <1>16
<1>18. CASE Len(cands) <= m
  BY <1>1, <1>2, <1>3, <1>14a, <1>18 DEF sorted
<1>19. CASE ~ (Len(cands) <= m)
  <2>. DEFINE z == IF Len(all) < m THEN Len(all) ELSE m
  <2>1. z \in 1..Len(all) /\ z <= m /\ z >= 1  BY <1>16
  <2>2. SelectNeighbors(data, q, cands, m) = SubSeq(all, 1, z)  BY <1>3, <1>19
  <2>. HIDE DEF z
  <2>. DEFINE r == SubSeq(all, 1, z)
  <2>3. r \in Seq(X) /\ Len(r) = z /\ r[1] = sorted[1]  BY <1>16, <1>17, <2>1
  <2>. HIDE DEF r
  <2>4. r # << >>  BY <2>1, <2>3
  <2>5. IsInjective(cands) => IsInjective(r)
    <3>1. z \in Nat /\ z <= Len(all)  BY <1>16, <2>1
    <3>. QED  BY <1>16, <1>16a, <3>1, PrefixOnce DEF r
  <2>. QED  BY <2>1, <2>2, <2>3, <2>4, <2>5 DEF sorted, r
<1>. QED  BY <1>18, <1>19

(* Every level has room for a neighbour.                                   *)
LEMMA MaxDegreePositive ==
  ASSUME NEW l \in Nat
  PROVE  MaxDegree(l) \in Nat \ {0}
BY HnswGraphAssumption DEF MaxDegree

(* setLinks stores a part of the list, no longer than the block of the     *)
(* level.                                                                  *)
LEMMA FittingBounds ==
  ASSUME NEW l \in Nat, NEW X, NEW ns \in Seq(X)
  PROVE  Fitting(l, ns) \in Seq(X) /\ Len(Fitting(l, ns)) <= MaxDegree(l)
<1>1. MaxDegree(l) \in Nat \ {0}  BY MaxDegreePositive
<1>. DEFINE z == IF Len(ns) < MaxDegree(l) THEN Len(ns) ELSE MaxDegree(l)
<1>2. z \in Nat /\ z <= Len(ns) /\ z <= MaxDegree(l)  BY <1>1
<1>3. Fitting(l, ns) = SubSeq(ns, 1, z)  BY DEF Fitting
<1>. HIDE DEF z
<1>4. SubSeq(ns, 1, z) \in Seq(X) /\ Len(SubSeq(ns, 1, z)) = z  BY <1>2
<1>. QED  BY <1>2, <1>3, <1>4

(* A back-link brings in the new node and nothing else.                    *)
LEMMA WithBackLinkBounds ==
  ASSUME NEW I \in SUBSET Int, NEW data \in [I -> Int], NEW l \in Nat, NEW n \in I,
         NEW X \in SUBSET I, NEW ns \in Seq(X), NEW id \in X
  PROVE  WithBackLink(data, l, n, ns, id) \in Seq(X)
<1>1. CASE Len(ns) < MaxDegree(l)
  BY <1>1 DEF WithBackLink
<1>2. CASE ~ (Len(ns) < MaxDegree(l))
  <2>. DEFINE c == <<id>> \o ns
              q == data[n]
              m == MaxDegree(l)
  <2>1. c \in Seq(X) /\ c # << >> /\ q \in Int /\ m \in Nat \ {0}
    BY MaxDegreePositive, SMTT(30)
  <2>2. WithBackLink(data, l, n, ns, id) = Fitting(l, SelectNeighbors(data, q, c, m))
    BY <1>2 DEF WithBackLink
  <2>. HIDE DEF c, q, m
  <2>3. SelectNeighbors(data, q, c, m) \in Seq(X)  BY <2>1, SelectBounds, Zenon
  <2>. QED  BY <2>2, <2>3, FittingBounds
<1>. QED  BY <1>1, <1>2

(* setLinks repeats nothing.                                               *)
LEMMA FittingOnce ==
  ASSUME NEW l \in Nat, NEW X, NEW ns \in Seq(X), IsInjective(ns)
  PROVE  IsInjective(Fitting(l, ns))
<1>1. PICK z \in Nat : /\ z = IF Len(ns) < MaxDegree(l) THEN Len(ns) ELSE MaxDegree(l)
                       /\ z <= Len(ns)
  BY MaxDegreePositive
<1>2. Fitting(l, ns) = SubSeq(ns, 1, z)  BY <1>1 DEF Fitting
<1>. QED  BY <1>1, <1>2, PrefixOnce

(* Nor does a back-link to a node that was not in the list.  A full list   *)
(* does not grow.                                                          *)
LEMMA WithBackLinkOnce ==
  ASSUME NEW I \in SUBSET Int, NEW data \in [I -> Int], NEW l \in Nat, NEW n \in I,
         NEW ns \in Seq(I), NEW id \in I, IsInjective(ns), id \notin Range(ns)
  PROVE  /\ IsInjective(WithBackLink(data, l, n, ns, id))
         /\ Len(WithBackLink(data, l, n, ns, id)) <= MaxDegree(l)
<1>1. CASE Len(ns) < MaxDegree(l)
  <2>1. WithBackLink(data, l, n, ns, id) = Append(ns, id)  BY <1>1 DEF WithBackLink
  <2>2. Len(Append(ns, id)) <= MaxDegree(l)  BY <1>1, MaxDegreePositive
  <2>. QED  BY <2>1, <2>2, AppendOnce
<1>2. CASE ~ (Len(ns) < MaxDegree(l))
  <2>1. PICK c, q, m : c = <<id>> \o ns /\ q = data[n] /\ m = MaxDegree(l)  OBVIOUS
  <2>2. c \in Seq(I) /\ c # << >> /\ q \in Int /\ m \in Nat \ {0}
    BY <2>1, MaxDegreePositive, SMTT(30)
  <2>3. IsInjective(c)
    <3>1. PICK one : one = <<id>>  OBVIOUS
    <3>2. one \in Seq(I) /\ IsInjective(one) /\ Range(one) = {id}
      BY <3>1 DEF IsInjective, Range
    <3>. QED  BY <2>1, <3>1, <3>2, ConcatOnce
  <2>4. PICK sel : sel = SelectNeighbors(data, q, c, m)  OBVIOUS
  <2>5. sel \in Seq(I) /\ IsInjective(sel)
    <3>1. I \in SUBSET I  OBVIOUS
    <3>. QED  BY <2>2, <2>3, <2>4, <3>1, SelectBounds, Zenon
  <2>6. WithBackLink(data, l, n, ns, id) = Fitting(l, sel)
    BY <1>2, <2>1, <2>4 DEF WithBackLink
  <2>. QED  BY <2>5, <2>6, FittingOnce, FittingBounds
<1>. QED  BY <1>1, <1>2

(* For every list of candidates, all vectors and every m:                  *)
(* selectNeighborsHeuristic returns at least one and at most m neighbours, *)
(* and the first of them is a nearest candidate.  addPoint relies on this: *)
(* the search of the next level down starts at selected.front(), and a     *)
(* node without neighbours could not be reached.                           *)
THEOREM SelectKeepsNearest ==
  ASSUME NEW I \in SUBSET Int, NEW data \in [I -> Int], NEW q \in Int,
         NEW cands \in Seq(I), cands # << >>, NEW m \in Nat \ {0}
  PROVE  /\ SelectNeighbors(data, q, cands, m) # << >>
         /\ Len(SelectNeighbors(data, q, cands, m)) <= m
         /\ \A i \in DOMAIN cands :
              Dist(q, data[Head(SelectNeighbors(data, q, cands, m))])
                <= Dist(q, data[cands[i]])
<1>. DEFINE sel == SelectNeighbors(data, q, cands, m)
            sorted == Sorted(data, q, cands)
<1>0. I \in SUBSET I  OBVIOUS
<1>1. sel \in Seq(I) /\ sel # << >> /\ Len(sel) <= m /\ sel[1] = sorted[1]
  BY <1>0, SelectBounds, Zenon
<1>2. Head(sel) = sorted[1]
  <2>. HIDE DEF sel, sorted
  <2>. QED  BY <1>1
<1>3. \A i \in DOMAIN cands : Dist(q, data[sorted[1]]) <= Dist(q, data[cands[i]])
  BY SortedHead
<1>. HIDE DEF sorted
<1>4. \A i \in DOMAIN cands : Dist(q, data[Head(sel)]) <= Dist(q, data[cands[i]])
  BY <1>2, <1>3
<1>. QED  BY <1>1, <1>4
=============================================================================
