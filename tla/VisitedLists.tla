---------------------------- MODULE VisitedLists ----------------------------
(***************************************************************************)
(* VisitedList and VisitedListPool (include/hnsw.hpp) as searchLayer uses  *)
(* them, by several threads at once and over any number of searches.       *)
(*                                                                         *)
(* A list is never cleared between searches: a node counts as visited if   *)
(* its mark equals the list's current tag, and a search starts by taking   *)
(* the next tag.  Tags have 16 bits in the code and Tags values here, so   *)
(* they come round again.                                                  *)
(*                                                                         *)
(* The graph is left open: an expansion may read any neighbours, which     *)
(* covers every graph and every change that inserts make to it between     *)
(* two reads.  Which unvisited neighbours join the frontier depends on     *)
(* distances (HnswGraph!Absorb) and is a choice here.                      *)
(***************************************************************************)
EXTENDS Integers, Sequences, FiniteSets

CONSTANTS
  Threads,  \* each runs one search after another
  Nodes,    \* the slots of the index
  Tags      \* values of cur_: 2^16 in the code

ASSUME VisitedListsAssumption ==
  /\ Tags \in Nat /\ Tags >= 2
  /\ IsFiniteSet(Threads) /\ Threads # {}

VARIABLES
  pool,      \* pool_: a stack of lists
  list,      \* list[t]: the list thread t has taken out of the pool
  pc,        \* where thread t is in searchLayer
  front,     \* front[t]: the nodes on its frontier
  met,       \* history: the nodes this search has come across
  expanded   \* history: the nodes this search has expanded

vars == <<pool, list, pc, front, met, expanded>>
searches == <<front, met, expanded>>

Lists == [marks : [Nodes -> 0 .. (Tags - 1)], cur : 0 .. (Tags - 1)]
FreshList == [marks |-> [n \in Nodes |-> 0], cur |-> 0]

TypeOK ==
  /\ pool \in Seq(Lists)
  /\ list \in [Threads -> Lists]
  /\ pc \in [Threads -> {"idle", "acquired", "search"}]
  /\ front \in [Threads -> SUBSET Nodes]
  /\ met \in [Threads -> SUBSET Nodes]
  /\ expanded \in [Threads -> SUBSET Nodes]

\* The pool starts with one list.
Init ==
  /\ pool = <<FreshList>>
  /\ list = [t \in Threads |-> FreshList]
  /\ pc = [t \in Threads |-> "idle"]
  /\ front = [t \in Threads |-> {}]
  /\ met = [t \in Threads |-> {}]
  /\ expanded = [t \in Threads |-> {}]

-----------------------------------------------------------------------------
(* VisitedList.                                                            *)

\* Mutant of Reset: the marks stay when the tag comes round to 0.
ResetKeepsMarks(v) == [v EXCEPT !.cur = (@ + 1) % Tags]

\* Mutant of Reset: a tag wider than the marks never comes round.
ResetWide(v) == [v EXCEPT !.cur = @ + 1]

Reset(v) ==
  LET next == (v.cur + 1) % Tags IN
  IF next = 0 THEN [FreshList EXCEPT !.cur = 1] ELSE [v EXCEPT !.cur = next]

Visited(v, n) == v.marks[n] = v.cur

\* Mutant of TestAndSet: a test that forgets to set.
TestOnly(v, S) == v

\* testAndSet on each node of S.
TestAndSet(v, S) == [v EXCEPT !.marks = [n \in Nodes |-> IF n \in S THEN v.cur ELSE @[n]]]

-----------------------------------------------------------------------------
(* VisitedListPool, under its mutex.                                       *)

\* Mutant of Acquire: the pool is never looked at.
AcquireFresh(t) ==
  /\ pc[t] = "idle"
  /\ list' = [list EXCEPT ![t] = FreshList]
  /\ pc' = [pc EXCEPT ![t] = "acquired"]
  /\ UNCHANGED <<pool, searches>>

Acquire(t) ==
  /\ pc[t] = "idle"
  /\ IF pool = << >>
     THEN list' = [list EXCEPT ![t] = FreshList] /\ UNCHANGED pool
     ELSE /\ list' = [list EXCEPT ![t] = Reset(pool[Len(pool)])]
          /\ pool' = SubSeq(pool, 1, Len(pool) - 1)
  /\ pc' = [pc EXCEPT ![t] = "acquired"]
  /\ UNCHANGED searches

-----------------------------------------------------------------------------
(* searchLayer.                                                            *)

\* Mutant of Begin: one reset, that of acquire, looks like enough.
BeginNoReset(t, entry) ==
  /\ pc[t] = "acquired"
  /\ list' = [list EXCEPT ![t] = TestAndSet(@, {entry})]
  /\ front' = [front EXCEPT ![t] = {entry}]
  /\ met' = [met EXCEPT ![t] = {entry}]
  /\ expanded' = [expanded EXCEPT ![t] = {}]
  /\ pc' = [pc EXCEPT ![t] = "search"]
  /\ UNCHANGED pool

\* searchLayer resets the list a second time and visits its entry point.
Begin(t, entry) ==
  /\ pc[t] = "acquired"
  /\ list' = [list EXCEPT ![t] = TestAndSet(Reset(@), {entry})]
  /\ front' = [front EXCEPT ![t] = {entry}]
  /\ met' = [met EXCEPT ![t] = {entry}]
  /\ expanded' = [expanded EXCEPT ![t] = {}]
  /\ pc' = [pc EXCEPT ![t] = "search"]
  /\ UNCHANGED pool

\* Node n leaves the frontier, its neighbours are read and visited, and
\* some of the new ones join the frontier.
ExpandNode(t, n, neighbours, joining) ==
  /\ pc[t] = "search" /\ n \in front[t]
  /\ joining \subseteq {m \in neighbours : ~ Visited(list[t], m)}
  /\ front' = [front EXCEPT ![t] = (@ \ {n}) \cup joining]
  /\ list' = [list EXCEPT ![t] = TestAndSet(@, neighbours)]
  /\ met' = [met EXCEPT ![t] = @ \cup neighbours]
  /\ expanded' = [expanded EXCEPT ![t] = @ \cup {n}]
  /\ UNCHANGED <<pool, pc>>

\* The frontier is empty, or nothing on it can improve the results.
Release(t) ==
  /\ pc[t] = "search"
  /\ pool' = Append(pool, list[t])
  /\ list' = [list EXCEPT ![t] = FreshList]
  /\ pc' = [pc EXCEPT ![t] = "idle"]
  /\ front' = [front EXCEPT ![t] = {}]
  /\ met' = [met EXCEPT ![t] = {}]
  /\ expanded' = [expanded EXCEPT ![t] = {}]

Step(t) ==
  \/ \E n \in Nodes : Begin(t, n)
  \/ \E n \in front[t] : \E neighbours \in SUBSET Nodes :
       \E joining \in SUBSET neighbours : ExpandNode(t, n, neighbours, joining)
  \/ Release(t)

Next == \E t \in Threads : Acquire(t) \/ Step(t)

\* A search that has begun goes on; nobody is obliged to search.
Fairness == \A t \in Threads : WF_vars(Step(t))

Spec == Init /\ [][Next]_vars /\ Fairness

-----------------------------------------------------------------------------
(* Properties.                                                             *)

(* The list of a running search marks exactly the nodes this search has    *)
(* come across.  A mark left by an earlier search, of whatever thread,     *)
(* never hides a node, also when the 16-bit tag comes round (reset), when  *)
(* a list is new and all its marks equal its tag (acquire), and after any  *)
(* number of searches.                                                     *)
MarksAreThisSearch ==
  \A t \in Threads : pc[t] = "search" => {n \in Nodes : Visited(list[t], n)} = met[t]

(* searchLayer never expands a node twice: what has been expanded does not *)
(* come back to the frontier, however the graph changes meanwhile.         *)
ExpandedOnce == \A t \in Threads : front[t] \cap expanded[t] = {}

(* The pool does not grow beyond the largest number of simultaneous        *)
(* searches: acquire makes a list only if none is left.                    *)
PoolBounded ==
  Len(pool) + Cardinality({t \in Threads : pc[t] # "idle"})
    <= Cardinality(Threads)

(* searchLayer ends although the lists it reads change under it: every     *)
(* round expands a node for the first time.                                *)
SearchEnds == \A t \in Threads : pc[t] = "search" ~> pc[t] = "idle"
=============================================================================
