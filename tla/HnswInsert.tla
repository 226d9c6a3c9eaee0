----------------------------- MODULE HnswInsert -----------------------------
(***************************************************************************)
(* Index::addPoint (include/hnsw.hpp) run by several threads at once.      *)
(* Each thread inserts one vector.  A step is what happens between two     *)
(* acquisitions of a lock or accesses to the atomic counter:               *)
(*                                                                         *)
(*   labelLock_      the duplicate check and the publication of the label  *)
(*                   are two critical sections;                            *)
(*   count_          fetch_add reserves a slot, fetch_sub gives it back;   *)
(*   entryLock_      probed, then held, shared or exclusive, to the end;   *)
(*   linkLocks_[n]   held for each read or write of one list of            *)
(*                   neighbours, never two at a time.                      *)
(*                                                                         *)
(* levels_, data_ and linksUpper_ of a new node are written before any     *)
(* list mentions it.  Random levels are a choice from Levels.              *)
(***************************************************************************)
EXTENDS HnswGraph

CONSTANTS
  Threads,      \* each makes one call of addPoint
  LabelOf,      \* LabelOf[t]: the label thread t inserts
  VecOf,        \* VecOf[t]: its vector
  Levels,       \* the levels randomLevel may draw
  MaxElements   \* maxElements_

NoId == -1   \* kNone
Ids == 0 .. (MaxElements - 1)
Labels == {LabelOf[t] : t \in Threads}

ASSUME HnswInsertAssumption ==
  /\ MaxElements \in Nat \ {0}
  /\ IsFiniteSet(Threads)
  /\ VecOf \in [Threads -> Int]
  /\ Levels \subseteq Nat /\ 0 \in Levels /\ IsFiniteSet(Levels)

VARIABLES
  labelToId,   \* labelToId_
  count,       \* count_
  data,        \* data_: vector of each slot
  level,       \* levels_
  links,       \* linksL0_ and linksUpper_: links[id][l], a list of ids
  entry,       \* entryPoint_
  maxLevel,    \* maxLevel_
  writer,      \* the holders of entryLock_: at most one exclusively,
  readers,     \*   or any number shared
  pc,          \* per thread: where it is in addPoint
  loc          \* per thread: the locals of addPoint

vars == <<labelToId, count, data, level, links, entry, maxLevel, writer, readers, pc, loc>>
graph == <<data, level, links>>
entryVars == <<entry, maxLevel>>
lockVars == <<writer, readers>>

NoSearch == [front |-> {}, found |-> {}, seen |-> {}]
NoLocals ==
  [id |-> NoId, top |-> 0, cur |-> NoId, l |-> 0, s |-> NoSearch, sel |-> << >>, todo |-> << >>]

Stages == {"start", "reserve", "giveback", "publish", "probe", "wlock", "rlock", "locked",
           "descend", "search", "back", "finish", "ok", "duplicate", "full"}
Done(t) == pc[t] \in {"ok", "duplicate", "full"}

TypeOK ==
  /\ labelToId \in [Labels -> Ids \cup {NoId}]
  /\ count \in Nat
  /\ data \in [Ids -> Int] /\ level \in [Ids -> Levels]
  /\ \A n \in Ids : \A l \in DOMAIN links[n] : links[n][l] \in Seq(Ids)
  /\ entry \in Ids \cup {NoId} /\ maxLevel \in Levels
  /\ writer \subseteq Threads /\ readers \subseteq Threads
  /\ pc \in [Threads -> Stages]
  /\ \A t \in Threads : loc[t].id \in Ids \cup {NoId} /\ loc[t].cur \in Ids \cup {NoId}

Init ==
  /\ labelToId = [lab \in Labels |-> NoId]
  /\ count = 0
  /\ data = [n \in Ids |-> 0] /\ level = [n \in Ids |-> 0]
  /\ links = [n \in Ids |-> [l \in {0} |-> << >>]]
  /\ entry = NoId /\ maxLevel = 0
  /\ writer = {} /\ readers = {}
  /\ pc = [t \in Threads |-> "start"]
  /\ loc = [t \in Threads |-> NoLocals]

Goto(t, stage) == pc' = [pc EXCEPT ![t] = stage]

\* The new node of thread t, its vector and its level.
Node(t) == loc[t].id
Q(t) == VecOf[t]
Lev(t) == level[Node(t)]

\* The list of node n at level l.  Reading one that was never allocated is
\* undefined; LinksWithinLevels shows that it does not happen.
Neighbours(n, l) == IF l \in DOMAIN links[n] THEN links[n][l] ELSE << >>

-----------------------------------------------------------------------------
(* Label and slot.                                                         *)

\* The first critical section of labelLock_.
CheckLabel(t) ==
  /\ pc[t] = "start"
  /\ Goto(t, IF labelToId[LabelOf[t]] = NoId THEN "reserve" ELSE "duplicate")
  /\ UNCHANGED <<labelToId, count, graph, entryVars, lockVars, loc>>

\* Mutant of Reserve: one slot too many.
ReserveOffByOne(t) ==
  /\ pc[t] = "reserve"
  /\ count' = count + 1
  /\ IF count > MaxElements
     THEN Goto(t, "giveback") /\ UNCHANGED loc
     ELSE Goto(t, "publish") /\ loc' = [loc EXCEPT ![t].id = count]
  /\ UNCHANGED <<labelToId, graph, entryVars, lockVars>>

\* count_.fetch_add(1).
Reserve(t) ==
  /\ pc[t] = "reserve"
  /\ count' = count + 1
  /\ IF count >= MaxElements
     THEN Goto(t, "giveback") /\ UNCHANGED loc
     ELSE Goto(t, "publish") /\ loc' = [loc EXCEPT ![t].id = count]
  /\ UNCHANGED <<labelToId, graph, entryVars, lockVars>>

\* Mutant of GiveBack: the counter keeps the failed attempt.
GiveBackForgotten(t) ==
  /\ pc[t] = "giveback"
  /\ Goto(t, "full")
  /\ UNCHANGED <<labelToId, count, graph, entryVars, lockVars, loc>>

\* count_.fetch_sub(1), and the index is reported full.
GiveBack(t) ==
  /\ pc[t] = "giveback"
  /\ count' = count - 1
  /\ Goto(t, "full")
  /\ UNCHANGED <<labelToId, graph, entryVars, lockVars, loc>>

\* The second critical section of labelLock_, with the writes to the new
\* node's own slots around it.
Publish(t) ==
  /\ pc[t] = "publish"
  /\ labelToId' = [labelToId EXCEPT ![LabelOf[t]] = Node(t)]
  /\ data' = [data EXCEPT ![Node(t)] = VecOf[t]]
  /\ \E lv \in Levels :
       /\ level' = [level EXCEPT ![Node(t)] = lv]
       /\ links' = [links EXCEPT ![Node(t)] = [l \in 0..lv |-> << >>]]
  /\ Goto(t, "probe")
  /\ UNCHANGED <<count, entryVars, lockVars, loc>>

-----------------------------------------------------------------------------
(* The entry point.                                                        *)

\* Mutant of Probe: only the first node asks for the exclusive lock.
ProbeFirstOnly(t) ==
  /\ pc[t] = "probe" /\ writer = {}
  /\ Goto(t, IF entry = NoId THEN "wlock" ELSE "rlock")
  /\ UNCHANGED <<labelToId, count, graph, entryVars, lockVars, loc>>

\* A shared lock taken and dropped again: will this node become the entry?
Probe(t) ==
  /\ pc[t] = "probe" /\ writer = {}
  /\ Goto(t, IF entry = NoId \/ Lev(t) > maxLevel THEN "wlock" ELSE "rlock")
  /\ UNCHANGED <<labelToId, count, graph, entryVars, lockVars, loc>>

\* entryWrite.lock() or entryRead.lock(), then the values are read again.
LockEntry(t) ==
  /\ \/ /\ pc[t] = "wlock" /\ writer = {} /\ readers = {}
        /\ writer' = {t} /\ UNCHANGED readers
     \/ /\ pc[t] = "rlock" /\ writer = {}
        /\ readers' = readers \cup {t} /\ UNCHANGED writer
  /\ loc' = [loc EXCEPT ![t].top = maxLevel, ![t].cur = entry]
  /\ Goto(t, "locked")
  /\ UNCHANGED <<labelToId, count, graph, entryVars>>

\* Mutant of Leave: the exclusive lock stays.
LeaveKeepsWriter(t) ==
  /\ Goto(t, "ok")
  /\ readers' = readers \ {t} /\ UNCHANGED writer

\* addPoint returns: its locks are released.
Leave(t) ==
  /\ Goto(t, "ok")
  /\ writer' = writer \ {t} /\ readers' = readers \ {t}

\* The first node of the index has nothing to link to.
FirstNode(t) ==
  /\ pc[t] = "locked" /\ loc[t].cur = NoId
  /\ entry' = Node(t) /\ maxLevel' = Lev(t)
  /\ Leave(t)
  /\ UNCHANGED <<labelToId, count, graph, loc>>

-----------------------------------------------------------------------------
(* The walk down and the links.                                            *)

\* Start of searchLayer at level l from node n.
SearchFrom(t, l, n) ==
  /\ Goto(t, "search")
  /\ loc' = [loc EXCEPT ![t].l = l, ![t].cur = n, ![t].s = StartSearch(n, {})]

\* Mutant of TopLayer: std::min is missing.
TopLayerOwn(t) == Lev(t)

\* The highest level at which the new node gets links.
TopLayer(t) == IF Lev(t) < loc[t].top THEN Lev(t) ELSE loc[t].top

StartWalk(t) ==
  /\ pc[t] = "locked" /\ loc[t].cur # NoId
  /\ IF Lev(t) < loc[t].top
     THEN Goto(t, "descend") /\ loc' = [loc EXCEPT ![t].l = loc[t].top]
     ELSE SearchFrom(t, TopLayer(t), loc[t].cur)
  /\ UNCHANGED <<labelToId, count, graph, entryVars, lockVars>>

\* One round of greedyDescend under linkLocks_[cur]: the nearest neighbour,
\* if it is nearer to q.
Closer(q, cur, l) ==
  {n \in Nearest(data, q, Range(Neighbours(cur, l))) : Dist(q, data[n]) < Dist(q, data[cur])}

\* Move to the nearer neighbour, else go down one level.
Descend(t) ==
  /\ pc[t] = "descend"
  /\ LET cur    == loc[t].cur
         l      == loc[t].l
         closer == Closer(Q(t), cur, l)
     IN  \/ \E n \in closer : loc' = [loc EXCEPT ![t].cur = n] /\ UNCHANGED pc
         \/ closer = {} /\ l > Lev(t) + 1 /\ loc' = [loc EXCEPT ![t].l = l - 1] /\ UNCHANGED pc
         \/ closer = {} /\ l = Lev(t) + 1 /\ SearchFrom(t, Lev(t), cur)
  /\ UNCHANGED <<labelToId, count, graph, entryVars, lockVars>>

\* One round of searchLayer: the nearest node of the frontier is expanded
\* with the list it has at this moment.
Visit(t) ==
  /\ pc[t] = "search" /\ ~ SearchOver(data, Q(t), Ef, loc[t].s)
  /\ \E n \in Nearest(data, Q(t), loc[t].s.front) :
       loc' = [loc EXCEPT ![t].s = Expand(data, Q(t), @, n, Neighbours(n, loc[t].l))]
  /\ UNCHANGED <<labelToId, count, graph, entryVars, lockVars, pc>>

\* connectNewElement: choose the neighbours, overwrite the node's own list.
SetOwnLinks(t) ==
  /\ pc[t] = "search" /\ SearchOver(data, Q(t), Ef, loc[t].s)
  /\ LET sel == SelectNeighbors(data, Q(t), SetToSeq(loc[t].s.found), M) IN
       /\ links' = [links EXCEPT ![Node(t)][loc[t].l] = Fitting(loc[t].l, sel)]
       /\ loc' = [loc EXCEPT ![t].sel = sel, ![t].todo = sel, ![t].s = NoSearch]
  /\ Goto(t, "back")
  /\ UNCHANGED <<labelToId, count, data, level, entryVars, lockVars>>

\* connectNewElement: one back-link under linkLocks_[n].
BackLink(t) ==
  /\ pc[t] = "back" /\ loc[t].todo # << >>
  /\ LET n == Head(loc[t].todo)
         l == loc[t].l
     IN  links' = [links EXCEPT ![n][l] = WithBackLink(data, l, n, @, Node(t))]
  /\ loc' = [loc EXCEPT ![t].todo = Tail(@)]
  /\ UNCHANGED <<labelToId, count, data, level, entryVars, lockVars, pc>>

\* Mutant of NextLayer: the next level starts at the new node itself.
NextLayerFromSelf(t) ==
  /\ pc[t] = "back" /\ loc[t].todo = << >>
  /\ IF loc[t].l = 0
     THEN Goto(t, "finish") /\ UNCHANGED loc
     ELSE SearchFrom(t, loc[t].l - 1, Node(t))
  /\ UNCHANGED <<labelToId, count, graph, entryVars, lockVars>>

\* The next level down starts at the nearest chosen neighbour.
NextLayer(t) ==
  /\ pc[t] = "back" /\ loc[t].todo = << >>
  /\ IF loc[t].l = 0
     THEN Goto(t, "finish") /\ UNCHANGED loc
     ELSE SearchFrom(t, loc[t].l - 1, Head(loc[t].sel))
  /\ UNCHANGED <<labelToId, count, graph, entryVars, lockVars>>

\* What is left of a call's locals, for the properties: its id.
Forget(t) == loc' = [loc EXCEPT ![t] = [NoLocals EXCEPT !.id = loc[t].id]]

\* Mutant of Finish: every insert becomes the entry point.
FinishAlwaysEntry(t) ==
  /\ pc[t] = "finish"
  /\ entry' = Node(t) /\ maxLevel' = Lev(t)
  /\ Leave(t) /\ Forget(t)
  /\ UNCHANGED <<labelToId, count, graph>>

\* A node above the old top becomes the entry point.
Finish(t) ==
  /\ pc[t] = "finish"
  /\ IF Lev(t) > loc[t].top
     THEN entry' = Node(t) /\ maxLevel' = Lev(t)
     ELSE UNCHANGED entryVars
  /\ Leave(t) /\ Forget(t)
  /\ UNCHANGED <<labelToId, count, graph>>

-----------------------------------------------------------------------------
Step(t) ==
  \/ CheckLabel(t) \/ Reserve(t) \/ GiveBack(t) \/ Publish(t)
  \/ Probe(t) \/ LockEntry(t) \/ FirstNode(t)
  \/ StartWalk(t) \/ Descend(t) \/ Visit(t)
  \/ SetOwnLinks(t) \/ BackLink(t) \/ NextLayer(t) \/ Finish(t)

Next == \E t \in Threads : Step(t)

Spec == Init /\ [][Next]_vars

-----------------------------------------------------------------------------
(* Properties.                                                             *)

(* A list at level l names only nodes that have a list at level l.  The    *)
(* upper lists are allocated to the node's own level, so a walk that       *)
(* followed any other link would read past the end of linksUpper_[n].      *)
LinksWithinLevels ==
  \A n \in Ids : \A l \in DOMAIN links[n] :
    \A m \in Range(links[n][l]) : l \in DOMAIN links[m]

(* entryPoint_ and maxLevel_ are assigned only by a thread that holds      *)
(* entryLock_ exclusively, although the choice between shared and          *)
(* exclusive was made in an earlier critical section, on values that may   *)
(* have changed since.                                                     *)
EntryWrittenExclusively ==
  [][entryVars' # entryVars => \E t \in Threads : writer = {t} /\ pc'[t] # pc[t]]_vars

(* Every finished insert left an index that a walk can enter at its top:   *)
(* the entry point has a list at maxLevel_, and no finished node is        *)
(* higher.                                                                 *)
EntryOnTop ==
  /\ entry # NoId => level[entry] = maxLevel
  /\ \A t \in Threads : pc[t] = "ok" => entry # NoId /\ Lev(t) <= maxLevel

(* An insert is told that the index is full only when every slot has an    *)
(* owner, although failing inserts bump the counter for a moment; and when *)
(* all is quiet the counter is the number of nodes.                        *)
FullMeansFull ==
  LET owners == {t \in Threads : Node(t) # NoId} IN
  /\ (\E t \in Threads : pc[t] \in {"giveback", "full"}) => Cardinality(owners) = MaxElements
  /\ (\A t \in Threads : Done(t)) => count = Cardinality(owners)

\* Thread t asks for entryLock_ while it is held against it.
Blocked(t) ==
  \/ pc[t] \in {"probe", "rlock"} /\ writer # {}
  \/ pc[t] = "wlock" /\ (writer # {} \/ readers # {})

(* Not everyone waits for everyone: as long as a call of addPoint has not  *)
(* returned, some call is under way that entryLock_ does not hold up.  The *)
(* lock is taken once, after the probe has dropped it, and is released on  *)
(* every way out.                                                          *)
NotStuck == (\A t \in Threads : Done(t)) \/ (\E t \in Threads : ~ Done(t) /\ ~ Blocked(t))

(* Two inserts that both succeed never have the same label.                *)
LabelsUnique ==
  \A t, u \in Threads :
    t # u /\ pc[t] = "ok" /\ pc[u] = "ok" => LabelOf[t] # LabelOf[u]

\* The nodes some chain of links, at any level, leads to from the set S.
Beyond(S) == S \cup UNION {UNION {Range(links[n][l]) : l \in DOMAIN links[n]} : n \in S}
Reachable == FoldLeft(LAMBDA S, i : Beyond(S), {entry}, [i \in 1..MaxElements |-> i])

(* When all inserts have returned, every node inserted can be reached from *)
(* the entry point: otherwise no query will ever return it.                *)
AllReachable ==
  (\A t \in Threads : Done(t)) =>
    \A t \in Threads : pc[t] = "ok" => Node(t) \in Reachable

(* No node is its own neighbour.                                           *)
NoSelfLink == \A n \in Ids : \A l \in DOMAIN links[n] : n \notin Range(links[n][l])

(* No list names a node twice, which would waste its few places: a         *)
(* back-link is added without a look at the list, to a neighbour that may  *)
(* have come across the new node by itself in the meantime.                *)
NoDuplicateLinks == \A n \in Ids : \A l \in DOMAIN links[n] : IsInjective(links[n][l])
=============================================================================
