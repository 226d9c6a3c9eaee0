----------------------------- MODULE HnswGraph -----------------------------
(***************************************************************************)
(* The algorithms inside hnsw::Index (include/hnsw.hpp) that compute and   *)
(* touch no shared state: nearest-first choice, one expansion step of      *)
(* searchLayer, and selectNeighborsHeuristic.  A vector is a point on a    *)
(* line and distance is its square, as in the space L2; `data' maps node   *)
(* ids to vectors.  The heaps compare distances only and leave the order   *)
(* of equal ones open.  So does Nearest; Kept evicts one fixed choice,     *)
(* which matters only where two distances tie.                             *)
(***************************************************************************)
EXTENDS Integers, SequencesExt

CONSTANTS
  M,   \* M_, also maxM_, the degree limit above level 0
  Ef   \* efConstruction_

ASSUME HnswGraphAssumption == M \in Nat \ {0} /\ Ef \in Nat /\ Ef >= M

MaxDegree(l) == IF l = 0 THEN 2 * M ELSE M   \* maxM0_, maxM_

L2Squared(x, y) == (x - y) * (x - y)

Dist(x, y) == L2Squared(x, y)   \* rawDistance in the space L2

\* The members of S nearest to, and farthest from, the point q.
Nearest(data, q, S) ==
  {n \in S : \A m \in S : Dist(q, data[n]) <= Dist(q, data[m])}
Farthest(data, q, S) ==
  {n \in S : \A m \in S : Dist(q, data[n]) >= Dist(q, data[m])}

-----------------------------------------------------------------------------
(* searchLayer's local state: the frontier heap, the result heap and the   *)
(* visited list.  ef bounds the results; with filterDeleted the nodes of   *)
(* `hidden' are walked through but are no results.                         *)

StartSearch(entry, hidden) ==
  [front |-> {entry}, found |-> {entry} \ hidden, seen |-> {entry}]

Worst(data, q, s) == Dist(q, data[CHOOSE n \in Farthest(data, q, s.found) : TRUE])

\* The loop ends: nothing left, or nothing left that could improve.
SearchOver(data, q, ef, s) ==
  \/ s.front = {}
  \/ /\ Cardinality(s.found) >= ef
     /\ \A n \in s.front : Dist(q, data[n]) > Worst(data, q, s)

\* The results with n, without the farthest if there are too many.
Kept(data, q, ef, s, n) ==
  LET grown == s.found \cup {n}
      far   == CHOOSE m \in Farthest(data, q, grown) : TRUE
  IN  IF Cardinality(grown) > ef THEN grown \ {far} ELSE grown

\* Mutant of Absorb: a deleted node is not walked through either.
AbsorbLiveOnly(data, q, ef, hidden, s, n) ==
  CASE n \in s.seen -> s
    [] n \notin s.seen /\ \/ n \in hidden
                          \/ Cardinality(s.found) >= ef /\ Dist(q, data[n]) >= Worst(data, q, s)
         -> [s EXCEPT !.seen = @ \cup {n}]
    [] OTHER -> [front |-> s.front \cup {n},
                 found |-> Kept(data, q, ef, s, n),
                 seen  |-> s.seen \cup {n}]

\* One candidate taken from the copied list of neighbours.
Absorb(data, q, ef, hidden, s, n) ==
  CASE n \in s.seen -> s
    [] n \notin s.seen /\ Cardinality(s.found) >= ef /\ Dist(q, data[n]) >= Worst(data, q, s)
         -> [s EXCEPT !.seen = @ \cup {n}]
    [] OTHER -> [front |-> s.front \cup {n},
                 found |-> IF n \in hidden THEN s.found ELSE Kept(data, q, ef, s, n),
                 seen  |-> s.seen \cup {n}]

\* The loop body of an unfiltered search: node n leaves the frontier, its
\* neighbours are looked at.
Expand(data, q, s, n, neighbours) ==
  FoldLeft(LAMBDA acc, m : Absorb(data, q, Ef, {}, acc, m),
           [s EXCEPT !.front = @ \ {n}], neighbours)

-----------------------------------------------------------------------------
(* selectNeighborsHeuristic: of the candidates, nearest first, keep those  *)
(* nearer to q than to anything kept so far; fill up with the rest.        *)

\* The candidate at position i comes before the one at j: it is nearer, or
\* as near with the smaller id.
Before(data, q, cands, i, j) ==
  LET near(k) == Dist(q, data[cands[k]]) IN
  \/ near(i) < near(j)
  \/ near(i) = near(j) /\ (cands[i] < cands[j] \/ (cands[i] = cands[j] /\ i < j))

Sorted(data, q, cands) ==
  LET Pos   == DOMAIN cands
      order == CHOOSE p \in [Pos -> Pos] :
                 \A i, j \in Pos : i < j => Before(data, q, cands, p[i], p[j])
  IN  [k \in Pos |-> cands[order[k]]]

Covered(data, q, kept, c) ==
  \E i \in 1..Len(kept) : Dist(data[c], data[kept[i]]) < Dist(q, data[c])

\* One round of the loop over the candidates.
Consider(data, q, m, acc, c) ==
  IF Len(acc.kept) >= m THEN acc
  ELSE IF Covered(data, q, acc.kept, c) THEN [acc EXCEPT !.rest = Append(@, c)]
  ELSE [acc EXCEPT !.kept = Append(@, c)]

SelectNeighbors(data, q, cands, m) ==
  LET sorted == Sorted(data, q, cands)
      acc    == FoldLeft(LAMBDA a, c : Consider(data, q, m, a, c),
                         [kept |-> << >>, rest |-> << >>], sorted)
      all    == acc.kept \o acc.rest
  IN  IF Len(cands) <= m THEN sorted
      ELSE SubSeq(all, 1, IF Len(all) < m THEN Len(all) ELSE m)

\* setLinks drops what does not fit.
Fitting(l, ns) == SubSeq(ns, 1, IF Len(ns) < MaxDegree(l) THEN Len(ns) ELSE MaxDegree(l))

\* connectNewElement's back-link: node n, whose list at level l is ns, gets
\* the new neighbour id, and chooses again among all of them when full.
WithBackLink(data, l, n, ns, id) ==
  IF Len(ns) < MaxDegree(l) THEN Append(ns, id)
  ELSE Fitting(l, SelectNeighbors(data, data[n], <<id>> \o ns, MaxDegree(l)))
=============================================================================
