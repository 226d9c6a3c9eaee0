------------------------------ MODULE HnswQuery ------------------------------
(***************************************************************************)
(* Index::search, markDeleted and unmarkDeleted (include/hnsw.hpp) beside  *)
(* the inserts of HnswInsert.  One reader, asking again and again, stands  *)
(* for all: queries share nothing but the visited lists, which             *)
(* VisitedLists treats.                                                    *)
(*                                                                         *)
(* A query holds entryLock_ only to read the entry point, and a link lock  *)
(* only to copy one list.  It reads deleted_ without labelLock_, candidate *)
(* by candidate, so marks may come between any two of them.                *)
(***************************************************************************)
EXTENDS HnswInsert

CONSTANTS
  Target,    \* the vector of the query
  K,         \* k
  EfSearch,  \* ef
  Markable   \* the labels that are marked and unmarked

EfQuery == IF EfSearch > K THEN EfSearch ELSE K   \* std::max(ef, k)

ASSUME HnswQueryAssumption ==
  /\ Target \in Int /\ K \in Nat \ {0} /\ EfSearch \in Nat
  /\ Markable \subseteq Labels

VARIABLES
  deleted,     \* deleted_: the slots that are marked
  numDeleted,  \* numDeleted_
  qpc,         \* where the query is
  qry,         \* its locals
  result,      \* what it returns, nearest first
  (* history *)
  dead,        \* nodes deleted ever since the query began
  still        \* neither links nor marks have changed since it began

insertVars == <<labelToId, count, data, level, links, entry, maxLevel, writer, readers, pc, loc>>
markVars   == <<deleted, numDeleted>>
queryVars  == <<qpc, qry, result>>
history    == <<dead, still>>
allVars    == <<insertVars, markVars, queryVars, history>>

NoQuery == [cur |-> NoId, l |-> 0, s |-> NoSearch, buf |-> << >>]

QueryInit ==
  /\ Init
  /\ deleted = {} /\ numDeleted = 0
  /\ qpc = "start" /\ qry = NoQuery /\ result = << >>
  /\ dead = {} /\ still = TRUE

-----------------------------------------------------------------------------
\* No query is under way: the history starts with the next one.
Unwatched == qpc = "start"

(* markDeleted and unmarkDeleted under labelLock_; where they return false *)
(* nothing changes.                                                        *)

\* Mutant of MarkDeleted: a second mark counts again.
MarkDeletedAgain(lab) ==
  /\ labelToId[lab] # NoId
  /\ numDeleted <= MaxElements
  /\ deleted' = deleted \cup {labelToId[lab]}
  /\ numDeleted' = numDeleted + 1
  /\ still' = Unwatched
  /\ UNCHANGED <<insertVars, queryVars, dead>>

MarkDeleted(lab) ==
  /\ labelToId[lab] # NoId /\ labelToId[lab] \notin deleted
  /\ deleted' = deleted \cup {labelToId[lab]}
  /\ numDeleted' = numDeleted + 1
  /\ still' = Unwatched
  /\ UNCHANGED <<insertVars, queryVars, dead>>

UnmarkDeleted(lab) ==
  /\ labelToId[lab] # NoId /\ labelToId[lab] \in deleted
  /\ deleted' = deleted \ {labelToId[lab]}
  /\ numDeleted' = numDeleted - 1
  /\ dead' = dead \ {labelToId[lab]} /\ still' = Unwatched
  /\ UNCHANGED <<insertVars, queryVars>>

-----------------------------------------------------------------------------
(* search.                                                                 *)

\* An empty index answers at once.
QueryStart ==
  /\ qpc = "start"
  /\ qpc' = IF count = 0 THEN "answered" ELSE "entry"
  /\ dead' = deleted /\ still' = TRUE
  /\ UNCHANGED <<insertVars, markVars, qry, result>>

\* Mutant of QueryEntry: the walk starts above the top.
QueryEntryAbove ==
  /\ qpc = "entry" /\ writer = {}
  /\ \/ entry = NoId /\ qpc' = "answered" /\ UNCHANGED qry
     \/ entry # NoId /\ qpc' = "descend"
        /\ qry' = [qry EXCEPT !.cur = entry, !.l = maxLevel + 1]
  /\ UNCHANGED <<insertVars, markVars, result, history>>

\* The entry point and its level are read under a shared entryLock_.
QueryEntry ==
  /\ qpc = "entry" /\ writer = {}
  /\ \/ entry = NoId /\ qpc' = "answered" /\ UNCHANGED qry
     \/ /\ entry # NoId /\ maxLevel > 0
        /\ qpc' = "descend" /\ qry' = [qry EXCEPT !.cur = entry, !.l = maxLevel]
     \/ /\ entry # NoId /\ maxLevel = 0
        /\ qpc' = "bottom" /\ qry' = [qry EXCEPT !.cur = entry]
  /\ UNCHANGED <<insertVars, markVars, result, history>>

\* One round of greedyDescend, down to level 1.
QueryDescend ==
  /\ qpc = "descend"
  /\ LET closer == Closer(Target, qry.cur, qry.l) IN
       \/ \E n \in closer : qry' = [qry EXCEPT !.cur = n] /\ UNCHANGED qpc
       \/ closer = {} /\ qry.l > 1 /\ qry' = [qry EXCEPT !.l = @ - 1] /\ UNCHANGED qpc
       \/ closer = {} /\ qry.l = 1 /\ qry' = [qry EXCEPT !.l = 0] /\ qpc' = "bottom"
  /\ UNCHANGED <<insertVars, markVars, result, history>>

\* Mutant of SearchBottom: the filter is left out for the first node.
SearchBottomUnfiltered ==
  /\ qpc = "bottom" /\ qpc' = "search"
  /\ qry' = [qry EXCEPT !.s = StartSearch(qry.cur, {})]
  /\ UNCHANGED <<insertVars, markVars, result, history>>

\* Start of searchLayer at level 0, with filterDeleted.
SearchBottom ==
  /\ qpc = "bottom" /\ qpc' = "search"
  /\ qry' = [qry EXCEPT !.s = StartSearch(qry.cur, deleted)]
  /\ UNCHANGED <<insertVars, markVars, result, history>>

\* searchLayer: a node leaves the frontier and its list is copied.
QueryCopy ==
  /\ qpc = "search" /\ qry.buf = << >> /\ ~ SearchOver(data, Target, EfQuery, qry.s)
  /\ \E n \in Nearest(data, Target, qry.s.front) :
       qry' = [qry EXCEPT !.s.front = @ \ {n}, !.buf = Neighbours(n, 0)]
  /\ UNCHANGED <<insertVars, markVars, qpc, result, history>>

\* searchLayer: one candidate of the copy.
QueryLook ==
  /\ qpc = "search" /\ qry.buf # << >>
  /\ qry' = [qry EXCEPT !.s   = Absorb(data, Target, EfQuery, deleted, @, Head(qry.buf)),
                        !.buf = Tail(@)]
  /\ UNCHANGED <<insertVars, markVars, qpc, result, history>>

\* The farthest results are popped until K are left; the rest comes out
\* nearest first.
QueryReturn ==
  /\ qpc = "search" /\ qry.buf = << >> /\ SearchOver(data, Target, EfQuery, qry.s)
  /\ \E T \in SUBSET qry.s.found :
       /\ Cardinality(T) = IF Cardinality(qry.s.found) < K THEN Cardinality(qry.s.found) ELSE K
       /\ \A n \in T, m \in qry.s.found \ T : Dist(Target, data[n]) <= Dist(Target, data[m])
       /\ result' = Sorted(data, Target, SetToSeq(T))
  /\ qpc' = "answered" /\ qry' = [NoQuery EXCEPT !.cur = qry.cur]
  /\ UNCHANGED <<insertVars, markVars, history>>

\* The caller has read the result and asks again, like the readers of
\* stress.cpp.
QueryAgain ==
  /\ qpc = "answered"
  /\ qpc' = "start" /\ qry' = NoQuery /\ result' = << >>
  /\ dead' = {} /\ still' = TRUE
  /\ UNCHANGED <<insertVars, markVars>>

-----------------------------------------------------------------------------
QueryStep ==
  \/ QueryStart \/ QueryEntry \/ QueryDescend \/ SearchBottom
  \/ QueryCopy \/ QueryLook \/ QueryReturn \/ QueryAgain

InsertStep(t) ==
  /\ Step(t)
  /\ still' = (Unwatched \/ (still /\ links' = links))
  /\ UNCHANGED <<markVars, queryVars, dead>>

QueryNext ==
  \/ QueryStep
  \/ \E t \in Threads : InsertStep(t)
  \/ \E lab \in Markable : MarkDeleted(lab) \/ UnmarkDeleted(lab)

QuerySpec == QueryInit /\ [][QueryNext]_allVars

-----------------------------------------------------------------------------
(* Properties.                                                             *)

(* A query never returns a node that was deleted before it began and has   *)
(* not been undeleted since, although it reads deleted_ without a lock and *)
(* walks through deleted nodes, its entry point among them.                *)
DeletedStayHidden ==
  qpc = "answered" => \A i \in 1..Len(result) : result[i] \notin dead

(* A walk beside inserts never asks a node for a list above its level,     *)
(* which linkBlock would read from past the end of linksUpper_: entry      *)
(* point and top level are read together, and links keep within levels.    *)
WalkWithinLevels == qpc = "descend" => qry.l \in DOMAIN links[qry.cur]

\* The nodes that links at level 0 lead to from where the walk ended: those
\* that no set with that node and all neighbours of its members leaves out.
Around ==
  {n \in Ids : \A S \in SUBSET Ids :
     qry.cur \in S /\ (\A m \in S : Range(Neighbours(m, 0)) \subseteq S) => n \in S}

\* bruteForce of benchmark.cpp: all distances, sorted, the first K.
BruteForce(S) ==
  LET sorted == Sorted(data, Target, SetToSeq(S))
  IN  SubSeq(sorted, 1, IF Len(sorted) < K THEN Len(sorted) ELSE K)

\* How far the answers of a list are, in its order.
Far(s) == [i \in DOMAIN s |-> Dist(Target, data[s[i]])]

(* If the graph stands still, tombstones cost a query no results: it       *)
(* returns K nodes, or all live ones that can be reached on level 0, each  *)
(* once; and if ef is no less than their number, at exactly the distances  *)
(* that brute force over them would return.  (The heaps compare distances  *)
(* only: of nodes equally far away either may be returned.)                *)
QueryExact ==
  qpc = "answered" /\ still /\ qry.cur # NoId =>
    LET live == Around \ deleted IN
    /\ Len(result) = Len(BruteForce(live))
    /\ IsInjective(result) /\ Range(result) \subseteq live
    /\ EfQuery >= Cardinality(live) => Far(result) = Far(BruteForce(live))
=============================================================================
