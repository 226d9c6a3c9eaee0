-------------------------- MODULE HnswInsertProofs --------------------------
(***************************************************************************)
(* Proofs about concurrent addPoint, for every number of threads and       *)
(* slots, every set of levels, every M and efConstruction.                 *)
(*                                                                         *)
(* The invariant has six parts.  Besides the types, Slots counts owners    *)
(* and failed attempts; Fresh says that a slot without a published node is *)
(* at level 0; Locks ties entryLock_ to the threads' places; Entries ties  *)
(* what a thread read or decided about the entry point to what the entry   *)
(* point is now; Walks says that lists, and the locals of every walk, stay *)
(* among the nodes of their level.  Apart, a colouring of the nodes that   *)
(* lives from step to step, keeps a node out of its own lists, and with    *)
(* Distinct, in the last section, keeps every list free of repetitions.    *)
(***************************************************************************)
EXTENDS HnswInsert, HnswGraphProofs

\* The stages of a thread that has no slot, and of one that holds
\* entryLock_.
NoSlot    == {"start", "reserve", "giveback", "duplicate", "full"}
Holding   == {"locked", "descend", "search", "back", "finish"}

\* The threads that have a slot, and those that have bumped the counter in
\* vain.
Owners == {t \in Threads : Node(t) # NoId}
Giving == {t \in Threads : pc[t] = "giveback"}

\* The nodes that have a list at level l.
At(l) == {n \in Ids : level[n] >= l}

\* The locals of a call.
Locals ==
  [id : Ids \cup {NoId}, top : Levels, cur : Ids \cup {NoId}, l : Nat,
   s : Searches(Ids, Ids), sel : Seq(Ids), todo : Seq(Ids)]

\* The types, with one list per level of each node.
Types ==
  /\ labelToId \in [Labels -> Ids \cup {NoId}]
  /\ count \in Nat
  /\ data \in [Ids -> Int] /\ level \in [Ids -> Levels]
  /\ links = [n \in Ids |-> links[n]]
  /\ \A n \in Ids : links[n] \in [0..level[n] -> Seq(Ids)]
  /\ entry \in Ids \cup {NoId} /\ maxLevel \in Levels
  /\ writer \subseteq Threads /\ readers \subseteq Threads
  /\ pc \in [Threads -> Stages]
  /\ loc \in [Threads -> Locals]

\* Slots are handed out in order, one owner each; the counter is owners and
\* failed attempts; an attempt fails only when all slots have owners.
Slots ==
  /\ \A t \in Threads : Node(t) = NoId <=> pc[t] \in NoSlot
  /\ \A t, u \in Threads : t # u /\ Node(t) # NoId => Node(t) # Node(u)
  /\ \A t \in Threads : Node(t) # NoId => Node(t) < Cardinality(Owners)
  /\ count = Cardinality(Owners) + Cardinality(Giving)
  /\ Cardinality(Owners) <= MaxElements
  /\ \A t \in Threads : pc[t] \in {"giveback", "full"} => Cardinality(Owners) = MaxElements

\* A slot that nobody has, or whose owner has not published, is at level 0.
Fresh ==
  /\ \A n \in Ids : n >= Cardinality(Owners) => level[n] = 0
  /\ \A t \in Threads : pc[t] = "publish" => level[Node(t)] = 0

\* Who holds entryLock_, and how many.
Locks ==
  /\ \A t \in Threads : t \in writer \cup readers <=> pc[t] \in Holding
  /\ writer # {} => readers = {}
  /\ \A t, u \in writer : t = u

\* Thread t and the entry point: what t will do under a shared lock, and
\* what it read when it took the lock, is still right.
EntryOK(t) ==
  /\ entry # NoId /\ entry = Node(t) => pc[t] = "ok"
  /\ pc[t] = "ok" => entry # NoId /\ Lev(t) <= maxLevel
  /\ pc[t] = "rlock" \/ t \in readers => entry # NoId /\ Lev(t) <= maxLevel
  /\ pc[t] \in Holding => loc[t].top = maxLevel
  /\ pc[t] = "locked" => loc[t].cur = entry
  /\ pc[t] \in Holding \ {"locked"} => entry # NoId

\* The entry point is a finished node of the top level.
Entries ==
  /\ entry = NoId => maxLevel = 0
  /\ entry # NoId => level[entry] = maxLevel /\ entry < Cardinality(Owners)
  /\ \A t \in Threads : EntryOK(t)

\* The walk of thread t is on nodes of its level.
WalkOK(t) ==
  /\ pc[t] = "descend" => loc[t].cur \in At(loc[t].l) /\ Lev(t) < loc[t].l
  /\ pc[t] = "search" =>
       /\ loc[t].l <= Lev(t) /\ loc[t].cur \in At(loc[t].l)
       /\ loc[t].s \in Searches(At(loc[t].l), Ids) /\ loc[t].s.found # {}
  /\ pc[t] = "back" =>
       /\ loc[t].l <= Lev(t) /\ loc[t].sel # << >>
       /\ loc[t].sel \in Seq(At(loc[t].l)) /\ loc[t].todo \in Seq(At(loc[t].l))

\* So are all lists.
Walks ==
  /\ \A n \in Ids : \A l \in 0..level[n] : links[n][l] \in Seq(At(l))
  /\ \A t \in Threads : WalkOK(t)

IInv == Types /\ Slots /\ Fresh /\ Locks /\ Entries /\ Walks

-----------------------------------------------------------------------------
(* Constants, sets of threads, updates of a thread's locals.               *)

(* What the assumptions on the constants say of ids and levels.            *)
LEMMA Consts ==
  /\ Ids \in SUBSET Nat /\ Ids \in SUBSET Int /\ IsFiniteSet(Ids)
  /\ NoId \notin Ids /\ NoId \in Int
  /\ Levels \in SUBSET Nat /\ 0 \in Levels
  /\ MaxElements \in Nat
  /\ \A i \in Nat : i \in Ids <=> i < MaxElements
<1>1. MaxElements \in Nat \ {0} /\ Levels \subseteq Nat /\ 0 \in Levels
  BY HnswInsertAssumption
<1>2. IsFiniteSet(Ids)  BY <1>1, FS_Interval DEF Ids
<1>. QED  BY <1>1, <1>2 DEF Ids, NoId

(* The sets of threads that are counted are finite.                        *)
LEMMA ThreadSets ==
  /\ IsFiniteSet(Threads)
  /\ IsFiniteSet(Owners) /\ Cardinality(Owners) \in Nat
  /\ IsFiniteSet(Giving) /\ Cardinality(Giving) \in Nat
<1>1. IsFiniteSet(Threads)  BY HnswInsertAssumption
<1>2. Owners \in SUBSET Threads /\ Giving \in SUBSET Threads  BY DEF Owners, Giving
<1>. QED  BY <1>1, <1>2, FS_Subset, FS_CardinalityType

(* The nodes of a level are finitely many ids.                             *)
LEMMA AtFinite ==
  ASSUME NEW l
  PROVE  At(l) \in SUBSET Ids /\ IsFiniteSet(At(l))
BY Consts, FS_Subset DEF At

(* A list of nodes of level l is still one when nodes are added to the     *)
(* level.                                                                  *)
LEMMA AtSeq ==
  ASSUME NEW l, NEW s, s \in Seq(At(l)), At(l) \subseteq At(l)'
  PROVE  s \in Seq(At(l)')
<1>1. \A X, Y : X \subseteq Y /\ s \in Seq(X) => s \in Seq(Y)  BY SeqMono
<1>. QED  BY <1>1

\* Every thread but t is where it was.
Others(t) == \A u \in Threads : u # t => pc'[u] = pc[u] /\ loc'[u] = loc[u]

\* Nobody gets or loses a slot.
SameIds == \A u \in Threads : loc'[u].id = loc[u].id

(* Goto moves one thread.                                                  *)
LEMMA GotoStage ==
  ASSUME NEW t \in Threads, NEW stage \in Stages, pc \in [Threads -> Stages], Goto(t, stage)
  PROVE  /\ pc' \in [Threads -> Stages] /\ pc'[t] = stage
         /\ \A u \in Threads : u # t => pc'[u] = pc[u]
BY DEF Goto

(* Slot accounting is kept by steps that neither reserve nor give back.    *)
LEMMA SlotsFrame ==
  ASSUME Slots, count' = count, SameIds,
         \A u \in Threads : /\ pc'[u] \in NoSlot <=> pc[u] \in NoSlot
                            /\ pc'[u] = "giveback" <=> pc[u] = "giveback"
                            /\ pc'[u] = "full" => pc[u] = "full"
  PROVE  Slots' /\ Owners' = Owners /\ Giving' = Giving
<1>1. Owners' = Owners  BY DEF Owners, Node, SameIds
<1>2. Giving' = Giving  BY DEF Giving
<1>. QED  BY <1>1, <1>2 DEF Slots, Node, SameIds

(* Unused slots stay as they were where no level is written.               *)
LEMMA FreshFrame ==
  ASSUME Fresh, Owners' = Owners, level' = level, SameIds,
         \A u \in Threads : pc'[u] = "publish" => pc[u] = "publish"
  PROVE  Fresh'
BY DEF Fresh, Node, SameIds

(* The lock is held by the same threads if none enters or leaves.          *)
LEMMA LocksFrame ==
  ASSUME Locks, UNCHANGED lockVars, \A u \in Threads : pc'[u] \in Holding <=> pc[u] \in Holding
  PROVE  Locks'
BY DEF Locks, lockVars

(* A thread that does not move keeps its relation to the entry point.      *)
LEMMA EntryFrame ==
  ASSUME NEW u \in Threads, EntryOK(u), UNCHANGED entryVars, level' = level, readers' = readers,
         pc'[u] = pc[u], loc'[u] = loc[u]
  PROVE  EntryOK(u)'
BY DEF EntryOK, entryVars, Node, Lev

(* A thread that does not move keeps its relation to the levels.           *)
LEMMA WalkFrame ==
  ASSUME NEW u \in Threads, WalkOK(u), level' = level, pc'[u] = pc[u], loc'[u] = loc[u]
  PROVE  WalkOK(u)'
BY DEF WalkOK, Node, Lev, At

(* The lists stay within levels where neither is written.                  *)
LEMMA LinksFrame ==
  ASSUME Walks, UNCHANGED graph, \A u \in Threads : WalkOK(u)'
  PROVE  Walks'
BY DEF Walks, graph, At

(* The duplicate check keeps the invariant.                                *)
LEMMA CheckLabelInv ==
  ASSUME IInv, NEW t \in Threads, CheckLabel(t)
  PROVE  IInv'
<1>. USE DEF CheckLabel, IInv
<1>1. \E stage \in {"reserve", "duplicate"} : Goto(t, stage)  OBVIOUS
<1>2. /\ pc' \in [Threads -> Stages] /\ pc[t] = "start" /\ pc'[t] \in {"reserve", "duplicate"}
      /\ \A u \in Threads : u # t => pc'[u] = pc[u]
  BY <1>1, GotoStage DEF Types, Stages
<1>3. SameIds  BY DEF SameIds
<1>4. Types'  BY <1>2 DEF Types, graph, entryVars, lockVars
<1>5. Slots' /\ Owners' = Owners
  BY <1>2, <1>3, SlotsFrame DEF NoSlot
<1>6. Fresh'  BY <1>2, <1>3, <1>5, FreshFrame DEF graph
<1>7. Locks'  BY <1>2, LocksFrame DEF Holding
<1>8. EntryOK(t)'  BY <1>2 DEF Entries, EntryOK, entryVars, lockVars, graph, Holding, Node, Lev
<1>9. Entries'
  BY <1>2, <1>5, <1>8, EntryFrame DEF Entries, entryVars, lockVars, graph
<1>10. WalkOK(t)'  BY <1>2 DEF WalkOK
<1>11. Walks'
  BY <1>2, <1>10, WalkFrame, LinksFrame DEF Walks, graph
<1>. QED  BY <1>4, <1>5, <1>6, <1>7, <1>9, <1>11

(* fetch_sub keeps the invariant: what is taken off the counter is the     *)
(* failed attempt's own increment.                                         *)
LEMMA GiveBackInv ==
  ASSUME IInv, NEW t \in Threads, GiveBack(t)
  PROVE  IInv'
<1>. USE DEF GiveBack, IInv
<1>1. /\ pc' \in [Threads -> Stages] /\ pc[t] = "giveback" /\ pc'[t] = "full"
      /\ \A u \in Threads : u # t => pc'[u] = pc[u]
  BY GotoStage DEF Types, Stages
<1>2. SameIds /\ Owners' = Owners  BY DEF SameIds, Owners, Node
<1>3. Giving' = Giving \ {t} /\ t \in Giving  BY <1>1 DEF Giving
<1>4. Cardinality(Giving') = Cardinality(Giving) - 1  BY <1>3, ThreadSets, FS_RemoveElement
<1>5. Cardinality(Giving) >= 1
  BY <1>3, ThreadSets, FS_EmptySet
<1>6. Types'
  BY <1>1, <1>5, ThreadSets DEF Types, graph, entryVars, lockVars, Slots
<1>7. count' = Cardinality(Owners') + Cardinality(Giving')
  <2>1. count = Cardinality(Owners) + Cardinality(Giving) /\ count' = count - 1  BY DEF Slots
  <2>. QED  BY <1>2, <1>4, <2>1, ThreadSets
<1>8. Slots'
  BY <1>1, <1>2, <1>7 DEF Slots, NoSlot, Node
<1>9. Fresh'  BY <1>1, <1>2, FreshFrame DEF graph
<1>10. Locks'  BY <1>1, LocksFrame DEF Holding
<1>11. EntryOK(t)'  BY <1>1 DEF Entries, EntryOK, entryVars, lockVars, graph, Holding, Node, Lev
<1>12. Entries'
  BY <1>1, <1>2, <1>11, EntryFrame DEF Entries, entryVars, lockVars, graph
<1>13. WalkOK(t)'  BY <1>1 DEF WalkOK
<1>14. Walks'
  BY <1>1, <1>13, WalkFrame, LinksFrame DEF Walks, graph
<1>. QED  BY <1>6, <1>8, <1>9, <1>10, <1>12, <1>14

(* The id is written into the locals.                                      *)
LEMMA LocId ==
  ASSUME NEW t \in Threads, loc \in [Threads -> Locals], NEW x \in Ids \cup {NoId},
         loc' = [loc EXCEPT ![t].id = x]
  PROVE  /\ loc' \in [Threads -> Locals]
         /\ \A u \in Threads : u # t => loc'[u] = loc[u]
         /\ loc'[t].id = x
BY DEF Locals

(* fetch_add keeps the invariant. An attempt below the capacity gets a     *)
(* slot nobody has, because nobody is giving one back: a failed attempt    *)
(* means that all slots have owners.                                       *)
LEMMA ReserveInv ==
  ASSUME IInv, NEW t \in Threads, Reserve(t)
  PROVE  IInv'
<1>. USE DEF Reserve, IInv
<1>0. pc[t] = "reserve" /\ Node(t) = NoId /\ t \notin Owners /\ t \notin Giving
  BY DEF Slots, NoSlot, Owners, Giving
<1>a. count \in Nat /\ count = Cardinality(Owners) + Cardinality(Giving)
      /\ Cardinality(Owners) <= MaxElements
  BY DEF Types, Slots
<1>1. CASE count >= MaxElements
  <2>1. /\ pc' \in [Threads -> Stages] /\ pc'[t] = "giveback" /\ loc' = loc
        /\ \A u \in Threads : u # t => pc'[u] = pc[u]
    BY <1>1, GotoStage DEF Types, Stages
  <2>2. SameIds /\ Owners' = Owners  BY <2>1 DEF SameIds, Owners, Node
  <2>3. Giving' = Giving \cup {t}  BY <2>1 DEF Giving
  <2>4. Cardinality(Giving') = Cardinality(Giving) + 1
    BY <1>0, <2>3, ThreadSets, FS_AddElement
  <2>5. Types'  BY <2>1 DEF Types, graph, entryVars, lockVars
  <2>6. count' = Cardinality(Owners') + Cardinality(Giving')
    BY <1>a, <2>2, <2>4, ThreadSets
  <2>7. Cardinality(Owners) = MaxElements
    <3>1. CASE Giving = {}
      BY <1>1, <1>a, <3>1, FS_EmptySet, ThreadSets, Consts
    <3>2. CASE Giving # {}
      BY <3>2 DEF Giving, Slots
    <3>. QED  BY <3>1, <3>2
  <2>8. Slots'
    BY <2>1, <2>2, <2>6, <2>7, <1>0 DEF Slots, NoSlot, Node
  <2>9. Fresh'  BY <2>1, <2>2, FreshFrame DEF graph
  <2>10. Locks'  BY <1>0, <2>1, LocksFrame DEF Holding
  <2>11. EntryOK(t)'
    BY <1>0, <2>1 DEF Entries, EntryOK, entryVars, lockVars, graph, Holding, Node, Lev
  <2>12. Entries'
    BY <2>1, <2>2, <2>11, EntryFrame DEF Entries, entryVars, lockVars, graph
  <2>13. WalkOK(t)'  BY <2>1 DEF WalkOK
  <2>14. Walks'
    BY <2>1, <2>13, WalkFrame, LinksFrame DEF Walks, graph
  <2>. QED  BY <2>5, <2>8, <2>9, <2>10, <2>12, <2>14
<1>2. CASE ~ (count >= MaxElements)
  <2>1. /\ pc' \in [Threads -> Stages] /\ pc'[t] = "publish"
        /\ \A u \in Threads : u # t => pc'[u] = pc[u]
    BY <1>2, GotoStage DEF Types, Stages
  <2>2. count \in Ids /\ count # NoId  BY <1>2, <1>a, Consts
  <2>3. /\ loc' \in [Threads -> Locals] /\ loc'[t].id = count
        /\ \A u \in Threads : u # t => loc'[u] = loc[u]
    BY <1>2, <2>2, LocId DEF Types
  <2>4. Giving = {}
    BY <1>2, <1>a, ThreadSets, FS_EmptySet, Consts DEF Slots, Giving
  <2>5. Giving' = Giving  BY <1>0, <2>1 DEF Giving
  <2>6. count = Cardinality(Owners)  BY <1>a, <2>4, FS_EmptySet, ThreadSets
  <2>7. Owners' = Owners \cup {t}  BY <2>2, <2>3 DEF Owners, Node
  <2>8. Cardinality(Owners') = count + 1
    BY <1>0, <2>6, <2>7, ThreadSets, FS_AddElement
  <2>9. Types'  BY <2>1, <2>3 DEF Types, graph, entryVars, lockVars
  <2>10. \A u \in Threads : u # t /\ Node(u) # NoId => Node(u) \in Ids /\ Node(u) < count
    BY <2>6 DEF Slots, Types, Locals, Node
  <2>11. Slots'
    <3>1. \A u \in Threads : Node(u)' = NoId <=> pc'[u] \in NoSlot
      BY <2>1, <2>2, <2>3 DEF Slots, NoSlot, Node
    <3>2. \A u, v \in Threads : u # v /\ Node(u)' # NoId => Node(u)' # Node(v)'
      <4>. TAKE u, v \in Threads
      <4>1. \A w \in Threads : w # t => Node(w)' = Node(w) /\ Node(w) # count
        BY <1>a, <2>2, <2>3, <2>10, Consts DEF Node
      <4>2. Node(t)' = count  BY <2>3 DEF Node
      <4>. QED  BY <4>1, <4>2 DEF Slots
    <3>3. \A u \in Threads : Node(u)' # NoId => Node(u)' < Cardinality(Owners')
      <4>. SUFFICES ASSUME NEW u \in Threads, Node(u)' # NoId PROVE Node(u)' < count + 1
        BY <2>8
      <4>1. CASE u = t
        BY <1>a, <2>3, <4>1 DEF Node
      <4>2. CASE u # t
        <5>1. Node(u)' = Node(u)  BY <2>3, <4>2 DEF Node
        <5>. QED  BY <1>a, <2>10, <4>2, <5>1, Consts
      <4>. QED  BY <4>1, <4>2
    <3>4. count' = Cardinality(Owners') + Cardinality(Giving')
      BY <1>a, <2>4, <2>5, <2>8, FS_EmptySet
    <3>5. Cardinality(Owners') <= MaxElements  BY <1>2, <1>a, <2>8, Consts
    <3>6. \A u \in Threads : ~ (pc'[u] \in {"giveback", "full"})
      BY <1>2, <2>1, <2>6, <1>a, Consts DEF Slots
    <3>. QED  BY <3>1, <3>2, <3>3, <3>4, <3>5, <3>6 DEF Slots
  <2>12. Fresh'
    <3>1. level[count] = 0  BY <1>a, <2>2, <2>6 DEF Fresh
    <3>2. \A n \in Ids : n >= Cardinality(Owners') => level[n] = 0
      BY <1>a, <2>6, <2>8, Consts DEF Fresh
    <3>. QED  BY <2>1, <2>3, <3>1, <3>2 DEF Fresh, graph, Node
  <2>13. Locks'  BY <1>0, <2>1, LocksFrame DEF Holding
  <2>14. EntryOK(t)'
    <3>1. entry # NoId => entry # count
      BY <1>a, <2>6, Consts DEF Entries, Types
    <3>2. t \notin readers  BY <1>0 DEF Locks, Holding
    <3>. QED  BY <2>1, <2>3, <3>1, <3>2 DEF EntryOK, entryVars, lockVars, Holding, Node
  <2>15. Entries'
    <3>1. entry # NoId => entry < Cardinality(Owners')
      BY <1>a, <2>6, <2>8, Consts DEF Entries, Types
    <3>2. \A u \in Threads : EntryOK(u)'
      BY <2>1, <2>3, <2>14, EntryFrame DEF Entries, lockVars, graph
    <3>. QED  BY <3>1, <3>2 DEF Entries, entryVars, graph
  <2>16. WalkOK(t)'  BY <2>1 DEF WalkOK
  <2>17. Walks'
    BY <2>1, <2>3, <2>16, WalkFrame, LinksFrame DEF Walks, graph
  <2>. QED  BY <2>9, <2>11, <2>12, <2>13, <2>15, <2>17
<1>. QED  BY <1>1, <1>2

(* Publication keeps the invariant. The node's level goes up from 0, its   *)
(* lists are new, and nobody else's walk has met it.                       *)
LEMMA PublishInv ==
  ASSUME IInv, NEW t \in Threads, Publish(t)
  PROVE  IInv'
<1>. USE DEF Publish, IInv
<1>. DEFINE id == Node(t)
<1>0. pc[t] = "publish" /\ id \in Ids /\ id # NoId /\ level[id] = 0 /\ LabelOf[t] \in Labels
  <2>1. pc[t] = "publish" /\ IInv  OBVIOUS
  <2>. HIDE DEF Publish, IInv
  <2>2. id # NoId /\ level[id] = 0  BY <2>1 DEF IInv, Slots, NoSlot, Fresh
  <2>3. id \in Ids \cup {NoId}  BY <2>1 DEF IInv, Types, Locals, Node
  <2>4. LabelOf[t] \in Labels  BY DEF Labels
  <2>. QED  BY <2>1, <2>2, <2>3, <2>4
<1>1. /\ pc' \in [Threads -> Stages] /\ pc'[t] = "probe" /\ loc' = loc
      /\ \A u \in Threads : u # t => pc'[u] = pc[u]
  BY GotoStage DEF Types, Stages
<1>2. SameIds  BY <1>1 DEF SameIds
<1>3. PICK lv \in Levels : /\ level' = [level EXCEPT ![id] = lv]
                           /\ links' = [links EXCEPT ![id] = [l \in 0..lv |-> << >>]]
  OBVIOUS
<1>4. /\ level' \in [Ids -> Levels] /\ level'[id] = lv
      /\ \A n \in Ids : n # id => level'[n] = level[n] /\ links'[n] = links[n]
      /\ \A n \in Ids : level'[n] >= level[n]
      /\ links'[id] = [l \in 0..lv |-> << >>]
      /\ links' = [n \in Ids |-> links'[n]]
  <2>1. level \in [Ids -> Levels] /\ links = [n \in Ids |-> links[n]]  BY DEF Types
  <2>2. /\ level' \in [Ids -> Levels] /\ level'[id] = lv
        /\ \A n \in Ids : n # id => level'[n] = level[n]
    BY <1>0, <1>3, <2>1
  <2>3. \A n \in Ids : level'[n] >= level[n]
    BY <1>0, <2>1, <2>2, Consts
  <2>. HIDE DEF id
  <2>4. /\ links'[id] = [l \in 0..lv |-> << >>]
        /\ \A n \in Ids : n # id => links'[n] = links[n]
        /\ links' = [n \in Ids |-> links'[n]]
    BY <1>0, <1>3, <2>1
  <2>. QED  BY <2>2, <2>3, <2>4
<1>5. Types'
  <2>1. \A n \in Ids : links'[n] \in [0..level'[n] -> Seq(Ids)]
    BY <1>4 DEF Types
  <2>2. labelToId' \in [Labels -> Ids \cup {NoId}]  BY <1>0 DEF Types
  <2>3. data' \in [Ids -> Int]  BY HnswInsertAssumption DEF Types
  <2>. QED  BY <1>1, <1>4, <2>1, <2>2, <2>3 DEF Types, entryVars, lockVars
<1>6. Slots' /\ Owners' = Owners
  BY <1>1, <1>2, <1>0, SlotsFrame DEF NoSlot
<1>7. \A u \in Threads : u # t => Node(u)' = Node(u) /\ Node(u) # id
  BY <1>0, <1>2 DEF Slots, SameIds, Node
<1>8. Fresh'
  <2>1. \A n \in Ids : n >= Cardinality(Owners) => n # id
    BY <1>0, Consts, ThreadSets DEF Slots
  <2>2. \A n \in Ids : n >= Cardinality(Owners') => level'[n] = 0
    BY <1>4, <1>6, <2>1 DEF Fresh
  <2>3. \A u \in Threads : pc'[u] = "publish" => level'[Node(u)'] = 0
    <3>. SUFFICES ASSUME NEW u \in Threads, pc'[u] = "publish" PROVE level'[Node(u)'] = 0
      OBVIOUS
    <3>1. u # t /\ pc[u] = "publish"  BY <1>1
    <3>2. Node(u) \in Ids  BY <3>1 DEF Slots, NoSlot, Types, Locals, Node
    <3>. QED  BY <1>4, <1>7, <3>1, <3>2 DEF Fresh
  <2>. QED  BY <2>2, <2>3 DEF Fresh
<1>9. Locks'  BY <1>0, <1>1, LocksFrame DEF Holding
<1>10. entry # id  BY <1>0 DEF Entries, EntryOK
<1>11. ASSUME NEW u \in Threads PROVE EntryOK(u)'
  <2>1. CASE u = t
    <3>1. t \notin readers  BY <1>0 DEF Locks, Holding
    <3>. QED  BY <1>1, <1>10, <2>1, <3>1 DEF EntryOK, entryVars, lockVars, Holding, Node
  <2>2. CASE u # t
    <3>1. pc'[u] = pc[u] /\ loc'[u] = loc[u] /\ Node(u)' = Node(u)  BY <1>1, <1>7, <2>2
    <3>2. pc[u] = "ok" \/ pc[u] = "rlock" \/ u \in readers => Lev(u)' = Lev(u)
      <4>1. pc[u] = "ok" \/ pc[u] = "rlock" \/ u \in readers => Node(u) \in Ids
        BY DEF Slots, NoSlot, Locks, Holding, Types, Locals, Node
      <4>. QED  BY <1>4, <1>7, <2>2, <4>1 DEF Lev
    <3>. QED  BY <3>1, <3>2 DEF Entries, EntryOK, entryVars, lockVars
  <2>. QED  BY <2>1, <2>2
<1>12. Entries'
  <2>1. entry # NoId => level'[entry] = level[entry]  BY <1>4, <1>10 DEF Types
  <2>. QED  BY <1>6, <1>11, <2>1 DEF Entries, entryVars
<1>13. \A l \in Nat : At(l) \subseteq At(l)'
  BY <1>4, Consts DEF At, Types
<1>14. ASSUME NEW u \in Threads PROVE WalkOK(u)'
  <2>1. CASE u = t
    BY <1>1, <2>1 DEF WalkOK
  <2>2. CASE u # t /\ pc[u] \in {"descend", "search", "back"}
    <3>1. pc'[u] = pc[u] /\ loc'[u] = loc[u] /\ Node(u)' = Node(u) /\ Node(u) \in Ids
      BY <1>1, <1>7, <2>2, ZenonT(40) DEF Slots, NoSlot, Types, Locals, Node
    <3>2. Lev(u)' = Lev(u)  BY <1>4, <1>7, <2>2, <3>1 DEF Lev
    <3>3a. PICK l \in Nat : l = loc[u].l  BY DEF Types, Locals
    <3>3. At(l) \subseteq At(l)'  BY <1>13
    <3>4. loc[u].sel \in Seq(At(l)) => loc[u].sel \in Seq(At(l)')  BY <3>3, AtSeq
    <3>5. loc[u].todo \in Seq(At(l)) => loc[u].todo \in Seq(At(l)')  BY <3>3, AtSeq
    <3>6. loc[u].s \in Searches(At(l), Ids) => loc[u].s \in Searches(At(l)', Ids)
      BY <3>3 DEF Searches
    <3>7. WalkOK(u)  BY DEF Walks
    <3>8. Lev(u)' = Lev(u) /\ loc'[u].l = l  BY <3>1, <3>2, <3>3a
    <3>9. pc[u] = "descend" => WalkOK(u)'
      BY <3>3a, <3>1, <3>2, <3>3, <3>7, <3>8 DEF WalkOK
    <3>10. pc[u] = "search" => WalkOK(u)'
      BY <3>3a, <3>1, <3>2, <3>3, <3>6, <3>7, <3>8 DEF WalkOK
    <3>11. pc[u] = "back" => WalkOK(u)'
      BY <3>3a, <3>1, <3>2, <3>4, <3>5, <3>7, <3>8 DEF WalkOK
    <3>. QED  BY <2>2, <3>9, <3>10, <3>11
  <2>3. CASE u # t /\ ~ (pc[u] \in {"descend", "search", "back"})
    BY <1>1, <2>3 DEF WalkOK
  <2>. QED  BY <2>1, <2>2, <2>3
<1>15. ASSUME NEW n \in Ids, NEW l \in 0..level'[n] PROVE links'[n][l] \in Seq(At(l)')
  <2>1. CASE n = id
    <3>1. links'[n][l] = << >>  BY <1>4, <2>1
    <3>2. \A X : << >> \in Seq(X)  OBVIOUS
    <3>. QED  BY <3>1, <3>2, Zenon
  <2>2. CASE n # id
    <3>1. links[n][l] \in Seq(At(l)) /\ links'[n] = links[n] /\ l \in Nat
      BY <1>4, <2>2 DEF Walks
    <3>2. At(l) \subseteq At(l)'  BY <1>13, <3>1
    <3>3. links[n][l] \in Seq(At(l)')  BY <3>1, <3>2, AtSeq
    <3>. QED  BY <3>1, <3>3
  <2>. QED  BY <2>1, <2>2
<1>16. Walks'  BY <1>14, <1>15 DEF Walks
<1>. QED  BY <1>5, <1>6, <1>8, <1>9, <1>12, <1>16

(* A thread that has passed Reserve has a node with a level.               *)
LEMMA HasNode ==
  ASSUME IInv, NEW u \in Threads, pc[u] \notin NoSlot
  PROVE  /\ Node(u) \in Ids /\ Node(u) # NoId
         /\ Lev(u) \in Levels /\ Lev(u) \in Nat /\ Lev(u) \in Int
         /\ maxLevel \in Nat /\ maxLevel \in Int
<1>1. Node(u) \in Ids /\ Node(u) # NoId  BY DEF IInv, Slots, Types, Locals, Node
<1>2. Lev(u) \in Levels /\ maxLevel \in Levels  BY <1>1 DEF IInv, Types, Lev
<1>3. \A x \in Levels : x \in Nat /\ x \in Int  BY Consts
<1>. QED  BY <1>1, <1>2, <1>3

(* The probe keeps the invariant: a thread that will ask for the shared    *)
(* lock saw an entry point at least as high as its node, and maxLevel_     *)
(* never falls.                                                            *)
LEMMA ProbeInv ==
  ASSUME IInv, NEW t \in Threads, Probe(t)
  PROVE  IInv'
<1>. USE DEF Probe, IInv
<1>1. \E stage \in {"wlock", "rlock"} : Goto(t, stage)  OBVIOUS
<1>2. /\ pc' \in [Threads -> Stages] /\ pc[t] = "probe" /\ pc'[t] \in {"wlock", "rlock"}
      /\ \A u \in Threads : u # t => pc'[u] = pc[u]
  BY <1>1, GotoStage DEF Types, Stages
<1>3. pc'[t] = "rlock" => entry # NoId /\ ~ (Lev(t) > maxLevel)
  BY DEF Goto, Types
<1>4. SameIds  BY DEF SameIds
<1>5. Types'  BY <1>2 DEF Types, graph, entryVars, lockVars
<1>6. Slots' /\ Owners' = Owners
  BY <1>2, <1>4, SlotsFrame DEF NoSlot
<1>7. Fresh'  BY <1>2, <1>4, <1>6, FreshFrame DEF graph
<1>8. Locks'  BY <1>2, LocksFrame DEF Holding
<1>9. EntryOK(t)'
  <2>1. Lev(t) \in Int /\ maxLevel \in Int
    BY <1>2, HasNode DEF NoSlot
  <2>2. t \notin readers  BY <1>2 DEF Locks, Holding
  <2>3. entry # NoId => entry # Node(t)  BY <1>2 DEF Entries, EntryOK
  <2>. QED  BY <1>2, <1>3, <2>1, <2>2, <2>3 DEF EntryOK, entryVars, lockVars, graph, Holding, Node, Lev
<1>10. Entries'
  BY <1>2, <1>6, <1>9, EntryFrame DEF Entries, entryVars, lockVars, graph
<1>11. WalkOK(t)'  BY <1>2 DEF WalkOK
<1>12. Walks'
  BY <1>2, <1>11, WalkFrame, LinksFrame DEF Walks, graph
<1>. QED  BY <1>5, <1>6, <1>7, <1>8, <1>10, <1>12

(* Taking entryLock_ keeps the invariant: the values read under the lock   *)
(* are the ones that stay until it is released.                            *)
LEMMA LockEntryInv ==
  ASSUME IInv, NEW t \in Threads, LockEntry(t)
  PROVE  IInv'
<1>. USE DEF LockEntry, IInv
<1>1. /\ pc' \in [Threads -> Stages] /\ pc[t] \in {"wlock", "rlock"} /\ pc'[t] = "locked"
      /\ \A u \in Threads : u # t => pc'[u] = pc[u]
  BY GotoStage DEF Types, Stages
<1>2. /\ loc' \in [Threads -> Locals]
      /\ \A u \in Threads : u # t => loc'[u] = loc[u]
      /\ loc'[t].id = loc[t].id /\ loc'[t].top = maxLevel /\ loc'[t].cur = entry
  <2>1. maxLevel \in Levels /\ entry \in Ids \cup {NoId} /\ loc \in [Threads -> Locals]
    BY DEF Types
  <2>2. PICK x \in Levels, y \in Ids \cup {NoId} : x = maxLevel /\ y = entry  BY <2>1
  <2>3. loc' = [loc EXCEPT ![t].top = x, ![t].cur = y]  BY <2>2
  <2>. HIDE DEF LockEntry, IInv
  <2>4. /\ loc' \in [Threads -> Locals]
        /\ \A u \in Threads : u # t => loc'[u] = loc[u]
        /\ loc'[t].id = loc[t].id /\ loc'[t].top = x /\ loc'[t].cur = y
    BY <2>1, <2>3, ZenonT(40) DEF Locals
  <2>. QED  BY <2>2, <2>4
<1>3. SameIds  BY <1>2 DEF SameIds
<1>4. \/ writer = {} /\ readers = {} /\ writer' = {t} /\ readers' = readers
      \/ pc[t] = "rlock" /\ writer = {} /\ writer' = writer /\ readers' = readers \cup {t}
  OBVIOUS
<1>5. Types'  BY <1>1, <1>2, <1>4 DEF Types, graph, entryVars
<1>6. Slots' /\ Owners' = Owners
  BY <1>1, <1>3, SlotsFrame DEF NoSlot
<1>7. Fresh'  BY <1>1, <1>3, <1>6, FreshFrame DEF graph
<1>8. Locks'  BY <1>1, <1>4 DEF Locks, Holding
<1>9. EntryOK(t)'
  <2>1. entry # NoId => entry # Node(t)  BY <1>1 DEF Entries, EntryOK
  <2>2. pc[t] = "rlock" => entry # NoId /\ Lev(t) <= maxLevel  BY DEF Entries, EntryOK
  <2>3. t \in readers' => pc[t] = "rlock"  BY <1>4
  <2>. QED  BY <1>1, <1>2, <2>1, <2>2, <2>3 DEF EntryOK, entryVars, graph, Holding, Node, Lev
<1>10. ASSUME NEW u \in Threads, u # t PROVE EntryOK(u)'
  <2>1. u \in readers' <=> u \in readers  BY <1>4, <1>10
  <2>2. EntryOK(u)  BY DEF Entries
  <2>. QED  BY <1>1, <1>2, <1>10, <2>1, <2>2 DEF EntryOK, entryVars, graph, Node, Lev
<1>11. Entries'
  BY <1>6, <1>9, <1>10 DEF Entries, entryVars, graph
<1>12. WalkOK(t)'  BY <1>1 DEF WalkOK
<1>13. Walks'
  BY <1>1, <1>2, <1>12, WalkFrame, LinksFrame DEF Walks, graph
<1>. QED  BY <1>5, <1>6, <1>7, <1>8, <1>11, <1>13

(* A thread that holds entryLock_ alone makes its node the entry point and *)
(* returns.                                                                *)
LEMMA RaiseInv ==
  ASSUME IInv, NEW t \in Threads, pc[t] \in Holding, Leave(t),
         entry' = Node(t), maxLevel' = Lev(t), maxLevel <= Lev(t),
         t \notin readers,
         UNCHANGED <<labelToId, count, graph>>,
         loc' \in [Threads -> Locals], SameIds,
         \A u \in Threads : u # t => loc'[u] = loc[u]
  PROVE  IInv'
<1>. USE DEF IInv
<1>1. /\ pc' \in [Threads -> Stages] /\ pc'[t] = "ok"
      /\ \A u \in Threads : u # t => pc'[u] = pc[u]
  BY GotoStage DEF Types, Stages, Leave
<1>2. writer' = writer \ {t} /\ readers' = readers \ {t}  BY DEF Leave
<1>3. t \in writer /\ readers = {} /\ writer = {t}  BY DEF Locks
<1>4. \A u \in Threads : u # t => ~ (pc[u] \in Holding)  BY <1>3 DEF Locks
<1>5. Node(t) \in Ids /\ Lev(t) \in Levels /\ Lev(t) \in Int /\ maxLevel \in Int
  BY HasNode DEF NoSlot, Holding
<1>6. Types'  BY <1>1, <1>2, <1>5 DEF Types, graph
<1>7. Slots' /\ Owners' = Owners
  BY <1>1, SlotsFrame DEF NoSlot, Holding
<1>8. Fresh'  BY <1>1, <1>7, FreshFrame DEF graph
<1>9. Locks'  BY <1>1, <1>2, <1>3 DEF Locks, Holding
<1>10. \A u \in Threads : Node(u)' = Node(u) /\ Lev(u)' = Lev(u)
  BY DEF SameIds, Node, Lev, graph
<1>11. entry' # NoId /\ entry' \in Ids  BY <1>5, Consts
<1>12. EntryOK(t)'
  BY <1>1, <1>2, <1>3, <1>5, <1>10, <1>11 DEF EntryOK, Holding
<1>13. ASSUME NEW u \in Threads, u # t PROVE EntryOK(u)'
  <2>1. Node(u)' # entry'  BY <1>10, <1>13, <1>11 DEF Slots
  <2>2. pc'[u] = pc[u] /\ ~ (pc[u] \in Holding) /\ u \notin readers'  BY <1>1, <1>2, <1>3, <1>4, <1>13
  <2>3. pc[u] = "ok" \/ pc[u] = "rlock" => Lev(u) <= maxLevel  BY DEF Entries, EntryOK
  <2>4. pc[u] = "ok" \/ pc[u] = "rlock" => Lev(u) \in Int
    BY HasNode DEF NoSlot
  <2>5. pc[u] = "ok" \/ pc[u] = "rlock" => Lev(u)' <= maxLevel'
    BY <1>5, <1>10, <2>3, <2>4
  <2>. QED  BY <1>11, <2>1, <2>2, <2>5 DEF EntryOK, Holding
<1>14. Entries'
  <2>1. level'[entry'] = maxLevel'  BY DEF graph, Lev
  <2>2. entry' < Cardinality(Owners')  BY <1>7, <1>11 DEF Slots
  <2>. QED  BY <1>11, <1>12, <1>13, <2>1, <2>2 DEF Entries
<1>15. WalkOK(t)'  BY <1>1 DEF WalkOK
<1>16. Walks'
  BY <1>1, <1>15, WalkFrame, LinksFrame DEF Walks, graph
<1>. QED  BY <1>6, <1>7, <1>8, <1>9, <1>14, <1>16

(* The first node keeps the invariant.                                     *)
LEMMA FirstNodeInv ==
  ASSUME IInv, NEW t \in Threads, FirstNode(t)
  PROVE  IInv'
<1>. USE DEF FirstNode, IInv
<1>1. pc[t] = "locked" /\ entry = NoId  BY DEF Entries, EntryOK
<1>2. pc[t] \in Holding  BY <1>1 DEF Holding
<1>3. t \notin readers  BY <1>1 DEF Entries, EntryOK
<1>4. maxLevel = 0 /\ Lev(t) \in Nat
  BY <1>1, Consts DEF Entries, Slots, NoSlot, Types, Locals, Node, Lev
<1>5. loc' \in [Threads -> Locals] /\ SameIds  BY DEF Types, SameIds
<1>. QED  BY <1>2, <1>3, <1>4, <1>5, RaiseInv

(* A call that returns keeps its id only.                                  *)
LEMMA LocForget ==
  ASSUME NEW t \in Threads, loc \in [Threads -> Locals], Forget(t)
  PROVE  /\ loc' \in [Threads -> Locals]
         /\ \A u \in Threads : u # t => loc'[u] = loc[u]
         /\ SameIds
<1>1. PICK x \in Ids \cup {NoId} : x = loc[t].id  BY DEF Locals
<1>2. [NoLocals EXCEPT !.id = loc[t].id] =
        [id |-> x, top |-> 0, cur |-> NoId, l |-> 0, s |-> NoSearch, sel |-> << >>, todo |-> << >>]
  BY <1>1 DEF NoLocals
<1>3. NoSearch \in Searches(Ids, Ids)  BY DEF NoSearch, Searches
<1>4. [NoLocals EXCEPT !.id = loc[t].id] \in Locals /\ [NoLocals EXCEPT !.id = loc[t].id].id = x
  <2>1. 0 \in Nat /\ 0 \in Levels /\ NoId \in Ids \cup {NoId} /\ << >> \in Seq(Ids)  BY Consts
  <2>. HIDE DEF NoSearch
  <2>. QED  BY <1>2, <1>3, <2>1 DEF Locals
<1>. QED  BY <1>1, <1>4 DEF Forget, SameIds

(* A thread whose node is not above the top returns.                       *)
LEMMA LeaveInv ==
  ASSUME IInv, NEW t \in Threads, pc[t] = "finish", Leave(t), Lev(t) <= maxLevel,
         UNCHANGED <<labelToId, count, graph, entryVars>>,
         loc' \in [Threads -> Locals], SameIds,
         \A u \in Threads : u # t => loc'[u] = loc[u]
  PROVE  IInv'
<1>. USE DEF IInv
<1>1. /\ pc' \in [Threads -> Stages] /\ pc'[t] = "ok"
      /\ \A u \in Threads : u # t => pc'[u] = pc[u]
  BY GotoStage DEF Types, Stages, Leave
<1>2. writer' = writer \ {t} /\ readers' = readers \ {t}  BY DEF Leave
<1>6. Types'  BY <1>1, <1>2 DEF Types, graph, entryVars
<1>7. Slots' /\ Owners' = Owners
  BY <1>1, SlotsFrame DEF NoSlot
<1>8. Fresh'  BY <1>1, <1>7, FreshFrame DEF graph
<1>9. Locks'  BY <1>1, <1>2 DEF Locks, Holding
<1>10. \A u \in Threads : Node(u)' = Node(u) /\ Lev(u)' = Lev(u)
  BY DEF SameIds, Node, Lev, graph
<1>12. EntryOK(t)'
  <2>1. entry # NoId  BY DEF Entries, EntryOK, Holding
  <2>. QED  BY <1>1, <1>2, <1>10, <2>1 DEF EntryOK, Holding, entryVars
<1>13. ASSUME NEW u \in Threads, u # t PROVE EntryOK(u)'
  <2>1. u \in readers' <=> u \in readers  BY <1>2, <1>13
  <2>2. EntryOK(u)  BY DEF Entries
  <2>. QED  BY <1>1, <1>10, <1>13, <2>1, <2>2 DEF EntryOK, entryVars
<1>14. Entries'
  BY <1>7, <1>12, <1>13 DEF Entries, entryVars, graph
<1>15. WalkOK(t)'  BY <1>1 DEF WalkOK
<1>16. Walks'
  BY <1>1, <1>15, WalkFrame, LinksFrame DEF Walks, graph
<1>. QED  BY <1>6, <1>7, <1>8, <1>9, <1>14, <1>16

(* The end of addPoint keeps the invariant: only a thread that is no       *)
(* reader can be above the top.                                            *)
LEMMA FinishInv ==
  ASSUME IInv, NEW t \in Threads, Finish(t)
  PROVE  IInv'
<1>. USE DEF Finish, IInv
<1>1. pc[t] = "finish" /\ pc[t] \in Holding /\ loc[t].top = maxLevel
  BY DEF Entries, EntryOK, Holding
<1>2. Lev(t) \in Int /\ maxLevel \in Int
  BY <1>1, HasNode DEF NoSlot
<1>3. /\ loc' \in [Threads -> Locals] /\ SameIds
      /\ \A u \in Threads : u # t => loc'[u] = loc[u]
  BY LocForget DEF Types
<1>4. CASE Lev(t) > loc[t].top
  <2>1. t \notin readers /\ maxLevel <= Lev(t)  BY <1>1, <1>2, <1>4 DEF Entries, EntryOK
  <2>. QED  BY <1>1, <1>3, <1>4, <2>1, RaiseInv
<1>5. CASE ~ (Lev(t) > loc[t].top)
  <2>1. Lev(t) <= maxLevel  BY <1>1, <1>2, <1>5
  <2>. QED  BY <1>1, <1>3, <1>5, <2>1, LeaveInv
<1>. QED  BY <1>4, <1>5

(* A step of a thread that holds entryLock_ and writes only its locals and *)
(* lists of the graph keeps the invariant, if its locals and the lists     *)
(* stay within levels.                                                     *)
LEMMA WalkStep ==
  ASSUME IInv, NEW t \in Threads, pc[t] \in Holding, entry # NoId,
         UNCHANGED <<labelToId, count, data, level, entryVars, lockVars>>,
         pc' \in [Threads -> Stages], pc'[t] \in Holding \ {"locked"},
         loc' \in [Threads -> Locals], loc'[t].id = loc[t].id, loc'[t].top = loc[t].top,
         Others(t), WalkOK(t)',
         links' = [n \in Ids |-> links'[n]],
         \A n \in Ids : links'[n] \in [0..level[n] -> Seq(Ids)],
         \A n \in Ids : \A l \in 0..level[n] : links'[n][l] \in Seq(At(l))
  PROVE  IInv'
<1>. USE DEF IInv
<1>1. \A u \in Threads : u # t => pc'[u] = pc[u] /\ loc'[u] = loc[u]  BY DEF Others
<1>2. SameIds  BY <1>1 DEF SameIds
<1>3. level' = level /\ readers' = readers  BY DEF lockVars
<1>4. Types'  BY <1>3 DEF Types, entryVars, lockVars
<1>5. Slots' /\ Owners' = Owners
  BY <1>1, <1>2, SlotsFrame DEF NoSlot, Holding
<1>6. Fresh'  BY <1>1, <1>2, <1>5, FreshFrame DEF Holding
<1>7. Locks'  BY <1>1, LocksFrame
<1>8. EntryOK(t)'
  <2>1. Node(t)' = Node(t) /\ Lev(t)' = Lev(t)  BY DEF Node, Lev
  <2>2. EntryOK(t)  BY DEF Entries
  <2>. QED  BY <1>3, <2>1, <2>2 DEF EntryOK, Holding, entryVars
<1>9. Entries'
  BY <1>1, <1>3, <1>5, <1>8, EntryFrame DEF Entries, entryVars
<1>10. \A u \in Threads : WalkOK(u)'
  BY <1>1, WalkFrame DEF Walks
<1>11. Walks'  BY <1>10 DEF Walks, At
<1>. QED  BY <1>4, <1>5, <1>6, <1>7, <1>9, <1>11

(* A node of level l has a list at level l, of nodes of level l.           *)
LEMMA NeighboursIn ==
  ASSUME IInv, NEW l \in Nat, NEW n \in At(l)
  PROVE  Neighbours(n, l) \in Seq(At(l)) /\ l \in DOMAIN links[n]
<1>1. n \in Ids /\ level[n] \in Nat /\ level[n] >= l  BY Consts DEF At, IInv, Types
<1>2. l \in 0..level[n]  BY <1>1
<1>3. DOMAIN links[n] = 0..level[n]  BY <1>1 DEF IInv, Types
<1>4. links[n][l] \in Seq(At(l))  BY <1>1, <1>2 DEF IInv, Walks
<1>. QED  BY <1>2, <1>3, <1>4 DEF Neighbours

(* What the invariant says of the lists.                                   *)
LEMMA LinksAsTheyAre ==
  ASSUME IInv
  PROVE  /\ links = [n \in Ids |-> links[n]]
         /\ \A n \in Ids : links[n] \in [0..level[n] -> Seq(Ids)]
         /\ \A n \in Ids : \A l \in 0..level[n] : links[n][l] \in Seq(At(l))
BY DEF IInv, Types, Walks

(* Starting searchLayer at a node of the level keeps the invariant.        *)
LEMMA SearchFromInv ==
  ASSUME IInv, NEW t \in Threads, pc[t] \in Holding, entry # NoId,
         NEW l \in Nat, NEW n \in At(l), l <= Lev(t), SearchFrom(t, l, n),
         UNCHANGED <<labelToId, count, graph, entryVars, lockVars>>
  PROVE  IInv'
<1>1. /\ pc' \in [Threads -> Stages] /\ pc'[t] = "search"
      /\ \A u \in Threads : u # t => pc'[u] = pc[u]
  BY GotoStage DEF IInv, Types, Stages, SearchFrom
<1>2. n \in Ids  BY AtFinite
<1>3. PICK s : s = StartSearch(n, {})  OBVIOUS
<1>4. s = [front |-> {n}, found |-> {n}, seen |-> {n}]  BY <1>3 DEF StartSearch
<1>5. s \in Searches(Ids, Ids) /\ s \in Searches(At(l), Ids) /\ s.found # {}
  BY <1>2, <1>4 DEF Searches
<1>6. loc \in [Threads -> Locals]  BY DEF IInv, Types
<1>7. loc' = [loc EXCEPT ![t].l = l, ![t].cur = n, ![t].s = s]  BY <1>3 DEF SearchFrom
<1>8. n \in Ids \cup {NoId}  BY <1>2
<1>9. /\ loc' \in [Threads -> Locals]
      /\ \A u \in Threads : u # t => loc'[u] = loc[u]
      /\ loc'[t].id = loc[t].id /\ loc'[t].top = loc[t].top
      /\ loc'[t].l = l /\ loc'[t].cur = n /\ loc'[t].s = s
  BY <1>5, <1>6, <1>7, <1>8, ZenonT(40) DEF Locals
<1>10. level' = level /\ links' = links  BY DEF graph
<1>11. WalkOK(t)'
  <2>1. Lev(t)' = Lev(t)  BY <1>9, <1>10 DEF Lev, Node
  <2>2. \A k : At(k)' = At(k)  BY <1>10 DEF At
  <2>. QED  BY <1>1, <1>5, <1>9, <2>1, <2>2 DEF WalkOK
<1>12. Others(t)  BY <1>1, <1>9 DEF Others
<1>13. pc'[t] \in Holding \ {"locked"}  BY <1>1 DEF Holding
<1>. QED  BY <1>1, <1>9, <1>10, <1>11, <1>12, <1>13, LinksAsTheyAre, WalkStep DEF graph

(* The level is written into the locals.                                   *)
LEMMA LocLevel ==
  ASSUME NEW t \in Threads, loc \in [Threads -> Locals], NEW l \in Nat,
         loc' = [loc EXCEPT ![t].l = l]
  PROVE  /\ loc' \in [Threads -> Locals]
         /\ \A u \in Threads : u # t => loc'[u] = loc[u]
         /\ loc'[t].id = loc[t].id /\ loc'[t].top = loc[t].top
         /\ loc'[t].l = l /\ loc'[t].cur = loc[t].cur
BY DEF Locals

(* The walk starts at the entry point, which is a node of the top level.   *)
LEMMA StartWalkInv ==
  ASSUME IInv, NEW t \in Threads, StartWalk(t)
  PROVE  IInv'
<1>0. pc[t] = "locked" /\ loc[t].cur # NoId  BY DEF StartWalk
<1>1. pc[t] \in Holding /\ pc[t] \notin NoSlot  BY <1>0 DEF Holding, NoSlot
<1>2. Lev(t) \in Nat /\ maxLevel \in Nat /\ maxLevel \in Levels
  BY <1>1, HasNode DEF IInv, Types
<1>3. loc[t].top = maxLevel /\ loc[t].cur = entry  BY <1>0, <1>1 DEF IInv, Entries, EntryOK
<1>4. entry # NoId /\ entry \in Ids /\ level[entry] = maxLevel
  BY <1>0, <1>3 DEF IInv, Types, Entries
<1>5. UNCHANGED <<labelToId, count, graph, entryVars, lockVars>>  BY DEF StartWalk
<1>6. CASE Lev(t) < loc[t].top
  <2>1. /\ pc' \in [Threads -> Stages] /\ pc'[t] = "descend"
        /\ \A u \in Threads : u # t => pc'[u] = pc[u]
    BY <1>6, GotoStage DEF IInv, Types, Stages, StartWalk
  <2>2. loc \in [Threads -> Locals]  BY DEF IInv, Types
  <2>3. PICK x \in Nat : x = maxLevel  BY <1>2
  <2>4. loc' = [loc EXCEPT ![t].l = x]  BY <1>3, <1>6, <2>3 DEF StartWalk
  <2>5. /\ loc' \in [Threads -> Locals]
        /\ \A u \in Threads : u # t => loc'[u] = loc[u]
        /\ loc'[t].id = loc[t].id /\ loc'[t].top = loc[t].top
        /\ loc'[t].l = x /\ loc'[t].cur = loc[t].cur
    BY <2>2, <2>4, LocLevel
  <2>6. level' = level /\ links' = links  BY <1>5 DEF graph
  <2>7. WalkOK(t)'
    <3>1. loc'[t].cur \in Ids /\ level'[loc'[t].cur] >= x  BY <1>3, <1>4, <2>3, <2>5, <2>6
    <3>2. Lev(t)' < x  BY <1>3, <1>6, <2>3, <2>5, <2>6 DEF Lev, Node
    <3>. QED  BY <2>1, <2>5, <3>1, <3>2 DEF WalkOK, At
  <2>8. Others(t)  BY <2>1, <2>5 DEF Others
  <2>9. pc'[t] \in Holding \ {"locked"}  BY <2>1 DEF Holding
  <2>. QED  BY <1>1, <1>4, <1>5, <2>1, <2>5, <2>6, <2>7, <2>8, <2>9, LinksAsTheyAre, WalkStep DEF graph
<1>7. CASE ~ (Lev(t) < loc[t].top)
  <2>1. TopLayer(t) = maxLevel  BY <1>3, <1>7 DEF TopLayer
  <2>2. SearchFrom(t, maxLevel, entry)  BY <1>3, <1>7, <2>1 DEF StartWalk
  <2>3. entry \in At(maxLevel) /\ maxLevel <= Lev(t)  BY <1>2, <1>3, <1>4, <1>7 DEF At
  <2>. QED  BY <1>1, <1>2, <1>4, <1>5, <2>2, <2>3, SearchFromInv
<1>. QED  BY <1>6, <1>7

(* The current node is written into the locals.                            *)
LEMMA LocCur ==
  ASSUME NEW t \in Threads, loc \in [Threads -> Locals], NEW n \in Ids \cup {NoId},
         loc' = [loc EXCEPT ![t].cur = n]
  PROVE  /\ loc' \in [Threads -> Locals]
         /\ \A u \in Threads : u # t => loc'[u] = loc[u]
         /\ loc'[t].id = loc[t].id /\ loc'[t].top = loc[t].top
         /\ loc'[t].l = loc[t].l /\ loc'[t].cur = n
BY DEF Locals

(* The next node of a descent has a list at the level of the descent.      *)
LEMMA CloserIn ==
  ASSUME IInv, NEW q, NEW l \in Nat, NEW cur \in At(l)
  PROVE  Closer(q, cur, l) \subseteq At(l)
<1>1. Neighbours(cur, l) \in Seq(At(l))  BY NeighboursIn
<1>2. Range(Neighbours(cur, l)) \subseteq At(l)  BY <1>1 DEF Range
<1>. QED  BY <1>2 DEF Closer, Nearest

(* greedyDescend keeps the invariant: it moves along links of the level,   *)
(* and a node of a level is one of the level below.                        *)
LEMMA DescendInv ==
  ASSUME IInv, NEW t \in Threads, Descend(t)
  PROVE  IInv'
<1>0. pc[t] = "descend"  BY DEF Descend
<1>1. pc[t] \in Holding /\ pc[t] \notin NoSlot  BY <1>0 DEF Holding, NoSlot
<1>2. entry # NoId  BY <1>0 DEF Holding, IInv, Entries, EntryOK
<1>3. Lev(t) \in Nat  BY <1>1, HasNode
<1>4. PICK l \in Nat : l = loc[t].l  BY DEF IInv, Types, Locals
<1>5. PICK cur \in At(l) : cur = loc[t].cur  BY <1>0, <1>4 DEF IInv, Walks, WalkOK
<1>6. Lev(t) < l  BY <1>0, <1>4 DEF IInv, Walks, WalkOK
<1>7. UNCHANGED <<labelToId, count, graph, entryVars, lockVars>>  BY DEF Descend
<1>8. level' = level /\ links' = links  BY <1>7 DEF graph
<1>9. loc \in [Threads -> Locals] /\ pc \in [Threads -> Stages]  BY DEF IInv, Types
<1>10. \/ \E n \in Closer(Q(t), cur, l) : loc' = [loc EXCEPT ![t].cur = n] /\ UNCHANGED pc
       \/ l > Lev(t) + 1 /\ loc' = [loc EXCEPT ![t].l = l - 1] /\ UNCHANGED pc
       \/ l = Lev(t) + 1 /\ SearchFrom(t, Lev(t), cur)
  BY <1>4, <1>5 DEF Descend
<1>11. CASE \E n \in Closer(Q(t), cur, l) : loc' = [loc EXCEPT ![t].cur = n] /\ UNCHANGED pc
  <2>1. PICK n \in Closer(Q(t), cur, l) : loc' = [loc EXCEPT ![t].cur = n] /\ UNCHANGED pc
    BY <1>11
  <2>2. n \in At(l) /\ n \in Ids \cup {NoId}  BY CloserIn, AtFinite
  <2>3. /\ loc' \in [Threads -> Locals]
        /\ \A u \in Threads : u # t => loc'[u] = loc[u]
        /\ loc'[t].id = loc[t].id /\ loc'[t].top = loc[t].top
        /\ loc'[t].l = loc[t].l /\ loc'[t].cur = n
    BY <1>9, <2>1, <2>2, LocCur
  <2>4. WalkOK(t)'
    BY <1>0, <1>4, <1>6, <1>8, <2>1, <2>2, <2>3 DEF WalkOK, At, Lev, Node
  <2>5. Others(t)  BY <2>1, <2>3 DEF Others
  <2>6. pc' \in [Threads -> Stages] /\ pc'[t] \in Holding \ {"locked"}
    BY <1>0, <1>9, <2>1 DEF Holding
  <2>. QED  BY <1>1, <1>2, <1>7, <1>8, <2>3, <2>4, <2>5, <2>6, LinksAsTheyAre, WalkStep DEF graph
<1>12. CASE l > Lev(t) + 1 /\ loc' = [loc EXCEPT ![t].l = l - 1] /\ UNCHANGED pc
  <2>1. PICK k \in Nat : k = l - 1 /\ Lev(t) < k /\ k <= l  BY <1>3, <1>12
  <2>2. /\ loc' \in [Threads -> Locals]
        /\ \A u \in Threads : u # t => loc'[u] = loc[u]
        /\ loc'[t].id = loc[t].id /\ loc'[t].top = loc[t].top
        /\ loc'[t].l = k /\ loc'[t].cur = loc[t].cur
    BY <1>9, <1>12, <2>1, LocLevel
  <2>3. cur \in At(k)
    <3>1. \A n \in Ids : level[n] \in Nat  BY Consts DEF IInv, Types
    <3>. QED  BY <2>1, <3>1 DEF At
  <2>4. WalkOK(t)'
    BY <1>0, <1>5, <1>8, <1>12, <2>1, <2>2, <2>3 DEF WalkOK, At, Lev, Node
  <2>5. Others(t)  BY <1>12, <2>2 DEF Others
  <2>6. pc' \in [Threads -> Stages] /\ pc'[t] \in Holding \ {"locked"}
    BY <1>0, <1>9, <1>12 DEF Holding
  <2>. QED  BY <1>1, <1>2, <1>7, <1>8, <2>2, <2>4, <2>5, <2>6, LinksAsTheyAre, WalkStep DEF graph
<1>13. CASE l = Lev(t) + 1 /\ SearchFrom(t, Lev(t), cur)
  <2>1. PICK k \in Nat : k = Lev(t) /\ k <= l  BY <1>3, <1>13
  <2>2. cur \in At(k)
    <3>1. \A n \in Ids : level[n] \in Nat  BY Consts DEF IInv, Types
    <3>. QED  BY <2>1, <3>1 DEF At
  <2>3. SearchFrom(t, k, cur) /\ k <= Lev(t)  BY <1>3, <1>13, <2>1
  <2>. QED  BY <1>1, <1>2, <1>7, <2>2, <2>3, SearchFromInv
<1>. QED  BY <1>10, <1>11, <1>12, <1>13

(* The search's heaps are written into the locals.                         *)
LEMMA LocS ==
  ASSUME NEW t \in Threads, loc \in [Threads -> Locals], NEW s \in Searches(Ids, Ids),
         loc' = [loc EXCEPT ![t].s = s]
  PROVE  /\ loc' \in [Threads -> Locals]
         /\ \A u \in Threads : u # t => loc'[u] = loc[u]
         /\ loc'[t].id = loc[t].id /\ loc'[t].top = loc[t].top
         /\ loc'[t].l = loc[t].l /\ loc'[t].cur = loc[t].cur /\ loc'[t].s = s
BY DEF Locals

(* An expansion of searchLayer keeps the invariant.                        *)
LEMMA VisitInv ==
  ASSUME IInv, NEW t \in Threads, Visit(t)
  PROVE  IInv'
<1>0. pc[t] = "search" /\ UNCHANGED pc  BY DEF Visit
<1>1. pc[t] \in Holding /\ pc[t] \notin NoSlot  BY <1>0 DEF Holding, NoSlot
<1>2. entry # NoId  BY <1>0 DEF Holding, IInv, Entries, EntryOK
<1>4. PICK l \in Nat : l = loc[t].l  BY DEF IInv, Types, Locals
<1>5. /\ l <= Lev(t) /\ loc[t].cur \in At(l)
      /\ loc[t].s \in Searches(At(l), Ids) /\ loc[t].s.found # {}
  BY <1>0, <1>4 DEF IInv, Walks, WalkOK
<1>7. UNCHANGED <<labelToId, count, graph, entryVars, lockVars>>  BY DEF Visit
<1>8. level' = level /\ links' = links  BY <1>7 DEF graph
<1>9. loc \in [Threads -> Locals] /\ pc \in [Threads -> Stages]  BY DEF IInv, Types
<1>10. PICK n \in Nearest(data, Q(t), loc[t].s.front) :
         loc' = [loc EXCEPT ![t].s = Expand(data, Q(t), loc[t].s, n, Neighbours(n, l))]
  BY <1>4, <1>9 DEF Visit
<1>11. n \in At(l)  BY <1>5 DEF Nearest, Searches
<1>12. Neighbours(n, l) \in Seq(At(l))  BY <1>11, NeighboursIn
<1>13. PICK s : s = Expand(data, Q(t), loc[t].s, n, Neighbours(n, l))  OBVIOUS
<1>14. s \in Searches(At(l), Ids) /\ s.found # {}
  <2>1. At(l) \subseteq Ids /\ IsFiniteSet(At(l))  BY AtFinite
  <2>. QED  BY <1>5, <1>12, <1>13, <2>1, ExpandBounds
<1>15. s \in Searches(Ids, Ids)  BY <1>14, AtFinite DEF Searches
<1>16. /\ loc' \in [Threads -> Locals]
       /\ \A u \in Threads : u # t => loc'[u] = loc[u]
       /\ loc'[t].id = loc[t].id /\ loc'[t].top = loc[t].top
       /\ loc'[t].l = loc[t].l /\ loc'[t].cur = loc[t].cur /\ loc'[t].s = s
  BY <1>9, <1>10, <1>13, <1>15, LocS
<1>17. WalkOK(t)'
  <2>1. Lev(t)' = Lev(t)  BY <1>8, <1>16 DEF Lev, Node
  <2>2. \A k : At(k)' = At(k)  BY <1>8 DEF At
  <2>. QED  BY <1>0, <1>4, <1>5, <1>14, <1>16, <2>1, <2>2 DEF WalkOK
<1>18. Others(t)  BY <1>0, <1>16 DEF Others
<1>19. pc' \in [Threads -> Stages] /\ pc'[t] \in Holding \ {"locked"}
  BY <1>0, <1>9 DEF Holding
<1>. QED  BY <1>1, <1>2, <1>7, <1>8, <1>16, <1>17, <1>18, <1>19, LinksAsTheyAre, WalkStep DEF graph

(* One list is replaced by another one of nodes of its level.              *)
LEMMA LinksWith ==
  ASSUME IInv, NEW n \in Ids, NEW l \in Nat, n \in At(l), NEW ns \in Seq(At(l)),
         links' = [links EXCEPT ![n][l] = ns]
  PROVE  /\ links' = [m \in Ids |-> links'[m]]
         /\ \A m \in Ids : links'[m] \in [0..level[m] -> Seq(Ids)]
         /\ \A m \in Ids : \A k \in 0..level[m] : links'[m][k] \in Seq(At(k))
<1>1. links = [m \in Ids |-> links[m]] /\ links[n] \in [0..level[n] -> Seq(Ids)]
  BY LinksAsTheyAre
<1>2. l \in 0..level[n]
  <2>1. level[n] \in Nat /\ level[n] >= l  BY Consts DEF At, IInv, Types
  <2>. QED  BY <2>1
<1>3. ns \in Seq(Ids)  BY AtFinite, SeqMono
<1>4. /\ links' = [m \in Ids |-> links'[m]]
      /\ \A m \in Ids : m # n => links'[m] = links[m]
      /\ links'[n] = [links[n] EXCEPT ![l] = ns]
  BY <1>1
<1>5. links'[n] \in [0..level[n] -> Seq(Ids)] /\ links'[n][l] = ns
      /\ \A k \in 0..level[n] : k # l => links'[n][k] = links[n][k]
  BY <1>1, <1>2, <1>3, <1>4
<1>6. \A m \in Ids : links'[m] \in [0..level[m] -> Seq(Ids)]
  BY <1>4, <1>5, LinksAsTheyAre
<1>7. ASSUME NEW m \in Ids, NEW k \in 0..level[m] PROVE links'[m][k] \in Seq(At(k))
  <2>1. links[m][k] \in Seq(At(k))  BY LinksAsTheyAre
  <2>2. CASE m = n /\ k = l  BY <1>5, <2>2
  <2>3. CASE ~ (m = n /\ k = l)
    <3>1. links'[m][k] = links[m][k]  BY <1>4, <1>5, <2>3
    <3>. QED  BY <2>1, <3>1
  <2>. QED  BY <2>2, <2>3
<1>. QED  BY <1>4, <1>6, <1>7

(* The neighbours connectNewElement chooses are among those it is given,   *)
(* and there is at least one.                                              *)
LEMMA ChosenIn ==
  ASSUME IInv, NEW t \in Threads, NEW X \in SUBSET Ids, NEW S \in SUBSET X, S # {}
  PROVE  /\ SelectNeighbors(data, Q(t), SetToSeq(S), M) \in Seq(X)
         /\ SelectNeighbors(data, Q(t), SetToSeq(S), M) # << >>
         /\ IsInjective(SelectNeighbors(data, Q(t), SetToSeq(S), M))
<1>1. IsFiniteSet(S) /\ Ids \in SUBSET Int
  BY FS_Subset, Consts
<1>2. SetToSeq(S) \in Seq(S) /\ Len(SetToSeq(S)) = Cardinality(S) /\ IsInjective(SetToSeq(S))
  BY <1>1, SetToSeqIs DEF IsInjective
<1>3. SetToSeq(S) \in Seq(X)  BY <1>2, SeqMono
<1>4. SetToSeq(S) # << >>
  <2>1. Cardinality(S) # 0  BY <1>1, FS_EmptySet
  <2>. QED  BY <1>2, <2>1
<1>5. data \in [Ids -> Int] /\ Q(t) \in Int /\ M \in Nat \ {0}
  BY HnswInsertAssumption, HnswGraphAssumption DEF IInv, Types, Q
<1>. QED  BY <1>1, <1>2, <1>3, <1>4, <1>5, SelectBounds

(* Overwriting the new node's own list keeps the invariant.                *)
LEMMA SetOwnLinksInv ==
  ASSUME IInv, NEW t \in Threads, SetOwnLinks(t)
  PROVE  IInv'
<1>0. pc[t] = "search"  BY DEF SetOwnLinks
<1>1. pc[t] \in Holding /\ pc[t] \notin NoSlot  BY <1>0 DEF Holding, NoSlot
<1>2. entry # NoId  BY <1>0 DEF Holding, IInv, Entries, EntryOK
<1>3. Node(t) \in Ids /\ Lev(t) \in Nat  BY <1>1, HasNode
<1>4. PICK l \in Nat : l = loc[t].l  BY DEF IInv, Types, Locals
<1>5. l <= Lev(t) /\ loc[t].s \in Searches(At(l), Ids) /\ loc[t].s.found # {}
  BY <1>0, <1>4 DEF IInv, Walks, WalkOK
<1>6. Node(t) \in At(l)  BY <1>3, <1>5 DEF At, Lev
<1>7. UNCHANGED <<labelToId, count, data, level, entryVars, lockVars>>  BY DEF SetOwnLinks
<1>8. loc \in [Threads -> Locals] /\ pc \in [Threads -> Stages]  BY DEF IInv, Types
<1>9. PICK sel : sel = SelectNeighbors(data, Q(t), SetToSeq(loc[t].s.found), M)  OBVIOUS
<1>10. sel \in Seq(At(l)) /\ sel # << >>
  <2>1. loc[t].s.found \in SUBSET At(l) /\ At(l) \in SUBSET Ids
    BY <1>5, AtFinite DEF Searches
  <2>. QED  BY <1>5, <1>9, <2>1, ChosenIn
<1>11. PICK ns : ns = Fitting(l, sel)  OBVIOUS
<1>12. ns \in Seq(At(l))  BY <1>10, <1>11, FittingBounds
<1>13. links' = [links EXCEPT ![Node(t)][l] = ns]  BY <1>4, <1>9, <1>11 DEF SetOwnLinks
<1>14. loc' = [loc EXCEPT ![t].sel = sel, ![t].todo = sel, ![t].s = NoSearch]
  BY <1>9 DEF SetOwnLinks
<1>15. sel \in Seq(Ids) /\ NoSearch \in Searches(Ids, Ids)
  BY <1>10, AtFinite, SeqMono DEF NoSearch, Searches
<1>16. /\ loc' \in [Threads -> Locals]
       /\ \A u \in Threads : u # t => loc'[u] = loc[u]
       /\ loc'[t].id = loc[t].id /\ loc'[t].top = loc[t].top
       /\ loc'[t].l = loc[t].l /\ loc'[t].sel = sel /\ loc'[t].todo = sel
  BY <1>8, <1>14, <1>15, ZenonT(40) DEF Locals
<1>17. /\ pc' \in [Threads -> Stages] /\ pc'[t] = "back"
       /\ \A u \in Threads : u # t => pc'[u] = pc[u]
  BY <1>8, GotoStage DEF Stages, SetOwnLinks
<1>18. WalkOK(t)'
  <2>1. Lev(t)' = Lev(t)  BY <1>7, <1>16 DEF Lev, Node
  <2>2. \A k : At(k)' = At(k)  BY <1>7 DEF At
  <2>. QED  BY <1>4, <1>5, <1>10, <1>16, <1>17, <2>1, <2>2 DEF WalkOK
<1>19. Others(t)  BY <1>16, <1>17 DEF Others
<1>20. pc'[t] \in Holding \ {"locked"}  BY <1>17 DEF Holding
<1>21. /\ links' = [m \in Ids |-> links'[m]]
       /\ \A m \in Ids : links'[m] \in [0..level[m] -> Seq(Ids)]
       /\ \A m \in Ids : \A k \in 0..level[m] : links'[m][k] \in Seq(At(k))
  BY <1>3, <1>6, <1>12, <1>13, LinksWith
<1>. QED  BY <1>1, <1>2, <1>7, <1>16, <1>17, <1>18, <1>19, <1>20, <1>21, WalkStep

(* The neighbours still to be linked back are written into the locals.     *)
LEMMA LocTodo ==
  ASSUME NEW t \in Threads, loc \in [Threads -> Locals], NEW todo \in Seq(Ids),
         loc' = [loc EXCEPT ![t].todo = todo]
  PROVE  /\ loc' \in [Threads -> Locals]
         /\ \A u \in Threads : u # t => loc'[u] = loc[u]
         /\ loc'[t].id = loc[t].id /\ loc'[t].top = loc[t].top
         /\ loc'[t].l = loc[t].l /\ loc'[t].sel = loc[t].sel /\ loc'[t].todo = todo
BY DEF Locals

(* A back-link keeps the invariant: the new node is a node of the level,   *)
(* so its neighbours may name it.                                          *)
LEMMA BackLinkInv ==
  ASSUME IInv, NEW t \in Threads, BackLink(t)
  PROVE  IInv'
<1>0. pc[t] = "back" /\ pc' = pc /\ loc[t].todo # << >>  BY DEF BackLink
<1>1. pc[t] \in Holding /\ pc[t] \notin NoSlot  BY <1>0 DEF Holding, NoSlot
<1>2. entry # NoId  BY <1>0 DEF Holding, IInv, Entries, EntryOK
<1>3. Node(t) \in Ids /\ Lev(t) \in Nat  BY <1>1, HasNode
<1>4. PICK l \in Nat : l = loc[t].l  BY DEF IInv, Types, Locals
<1>5. /\ l <= Lev(t) /\ loc[t].sel # << >>
      /\ loc[t].sel \in Seq(At(l)) /\ loc[t].todo \in Seq(At(l))
  BY <1>0, <1>4 DEF IInv, Walks, WalkOK
<1>6. Node(t) \in At(l)  BY <1>3, <1>5 DEF At, Lev
<1>7. UNCHANGED <<labelToId, count, data, level, entryVars, lockVars>>  BY DEF BackLink
<1>8. loc \in [Threads -> Locals] /\ pc \in [Threads -> Stages]  BY DEF IInv, Types
<1>9. PICK n : n = Head(loc[t].todo)  OBVIOUS
<1>10. n \in At(l) /\ n \in Ids  BY <1>0, <1>5, <1>9, AtFinite
<1>11. PICK todo : todo = Tail(loc[t].todo)  OBVIOUS
<1>12. todo \in Seq(At(l)) /\ todo \in Seq(Ids)
  <2>1. todo \in Seq(At(l))  BY <1>0, <1>5, <1>11
  <2>. QED  BY <2>1, AtFinite, SeqMono
<1>13. PICK ns : ns = WithBackLink(data, l, n, links[n][l], Node(t))  OBVIOUS
<1>14. ns \in Seq(At(l))
  <2>1. links[n][l] \in Seq(At(l))
    BY <1>10, NeighboursIn DEF Neighbours
  <2>2. data \in [Ids -> Int]  BY DEF IInv, Types
  <2>3. At(l) \in SUBSET Ids /\ Ids \in SUBSET Int  BY AtFinite, Consts
  <2>. QED  BY <1>6, <1>10, <1>13, <2>1, <2>2, <2>3, WithBackLinkBounds
<1>15. links' = [links EXCEPT ![n][l] = ns]
  <2>1. links = [m \in Ids |-> links[m]] /\ l \in DOMAIN links[n]
    BY <1>10, LinksAsTheyAre, NeighboursIn
  <2>2. links' = [links EXCEPT ![n][l] = WithBackLink(data, l, n, @, Node(t))]
    BY <1>4, <1>9 DEF BackLink
  <2>. QED  BY <1>10, <1>13, <2>1, <2>2
<1>16. loc' = [loc EXCEPT ![t].todo = todo]  BY <1>8, <1>11 DEF BackLink
<1>17. /\ loc' \in [Threads -> Locals]
       /\ \A u \in Threads : u # t => loc'[u] = loc[u]
       /\ loc'[t].id = loc[t].id /\ loc'[t].top = loc[t].top
       /\ loc'[t].l = loc[t].l /\ loc'[t].sel = loc[t].sel /\ loc'[t].todo = todo
  BY <1>8, <1>12, <1>16, LocTodo
<1>18. WalkOK(t)'
  <2>1. Lev(t)' = Lev(t)  BY <1>7, <1>17 DEF Lev, Node
  <2>2. \A k : At(k)' = At(k)  BY <1>7 DEF At
  <2>. QED  BY <1>0, <1>4, <1>5, <1>12, <1>17, <2>1, <2>2 DEF WalkOK
<1>19. Others(t)  BY <1>0, <1>17 DEF Others
<1>20. pc' \in [Threads -> Stages] /\ pc'[t] \in Holding \ {"locked"}  BY <1>0, <1>8 DEF Holding
<1>21. /\ links' = [m \in Ids |-> links'[m]]
       /\ \A m \in Ids : links'[m] \in [0..level[m] -> Seq(Ids)]
       /\ \A m \in Ids : \A k \in 0..level[m] : links'[m][k] \in Seq(At(k))
  BY <1>10, <1>14, <1>15, LinksWith
<1>. QED  BY <1>1, <1>2, <1>7, <1>17, <1>18, <1>19, <1>20, <1>21, WalkStep

(* Going down a level keeps the invariant: there is a first chosen         *)
(* neighbour, and it is a node of the level below too.                     *)
LEMMA NextLayerInv ==
  ASSUME IInv, NEW t \in Threads, NextLayer(t)
  PROVE  IInv'
<1>0. pc[t] = "back" /\ UNCHANGED <<labelToId, count, graph, entryVars, lockVars>>
  BY DEF NextLayer
<1>1. pc[t] \in Holding /\ pc[t] \notin NoSlot  BY <1>0 DEF Holding, NoSlot
<1>2. entry # NoId  BY <1>0 DEF Holding, IInv, Entries, EntryOK
<1>3. Node(t) \in Ids /\ Lev(t) \in Nat  BY <1>1, HasNode
<1>4. PICK l \in Nat : l = loc[t].l  BY DEF IInv, Types, Locals
<1>5. /\ l <= Lev(t) /\ loc[t].sel # << >> /\ loc[t].sel \in Seq(At(l))
  BY <1>0, <1>4 DEF IInv, Walks, WalkOK
<1>6. CASE l = 0
  <2>1. /\ pc' \in [Threads -> Stages] /\ pc'[t] = "finish" /\ loc' = loc
        /\ \A u \in Threads : u # t => pc'[u] = pc[u]
    BY <1>4, <1>6, GotoStage DEF IInv, Types, Stages, NextLayer
  <2>2. WalkOK(t)'  BY <2>1 DEF WalkOK
  <2>3. Others(t)  BY <2>1 DEF Others
  <2>4. pc'[t] \in Holding \ {"locked"} /\ loc' \in [Threads -> Locals] /\ links' = links
    BY <1>0, <2>1 DEF Holding, IInv, Types, graph
  <2>. QED  BY <1>0, <1>1, <1>2, <2>1, <2>2, <2>3, <2>4, LinksAsTheyAre, WalkStep DEF graph
<1>7. CASE l # 0
  <2>1. PICK k \in Nat : k = l - 1 /\ k <= l /\ k <= Lev(t)  BY <1>3, <1>5, <1>7
  <2>2. PICK n : n = Head(loc[t].sel)  OBVIOUS
  <2>3. n \in At(l)  BY <1>5, <2>2
  <2>4. n \in At(k)
    <3>1. \A m \in Ids : level[m] \in Nat  BY Consts DEF IInv, Types
    <3>. QED  BY <2>1, <2>3, <3>1 DEF At
  <2>5. SearchFrom(t, k, n)  BY <1>4, <1>7, <2>1, <2>2 DEF NextLayer
  <2>. QED  BY <1>0, <1>1, <1>2, <2>1, <2>4, <2>5, SearchFromInv
<1>. QED  BY <1>6, <1>7

-----------------------------------------------------------------------------
(* The empty index satisfies the invariant.                                *)
LEMMA InitInv ==
  ASSUME Init
  PROVE  IInv
<1>. USE DEF Init
<1>1. \A t \in Threads : pc[t] = "start" /\ loc[t] = NoLocals /\ Node(t) = NoId
  BY DEF Node, NoLocals
<1>2. Owners = {} /\ Giving = {} /\ Cardinality({}) = 0
  BY <1>1, FS_EmptySet DEF Owners, Giving
<1>3. Types
  <2>1. NoSearch \in Searches(Ids, Ids)  BY DEF NoSearch, Searches
  <2>2. NoLocals \in Locals  BY <2>1, Consts DEF NoLocals, Locals
  <2>3. level \in [Ids -> Levels] /\ data \in [Ids -> Int]  BY Consts
  <2>4. \A n \in Ids : links[n] \in [0..level[n] -> Seq(Ids)]
    <3>1. 0..0 = {0}  OBVIOUS
    <3>. QED  BY <3>1
  <2>. QED  BY <2>2, <2>3, <2>4, Consts DEF Types, Stages
<1>4. Slots  BY <1>1, <1>2, Consts DEF Slots, NoSlot
<1>5. Fresh  BY <1>1 DEF Fresh
<1>6. Locks  BY <1>1 DEF Locks, Holding
<1>7. Entries  BY <1>1 DEF Entries, EntryOK, Holding
<1>8. Walks
  <2>1. \A t \in Threads : WalkOK(t)  BY <1>1 DEF WalkOK
  <2>2. ASSUME NEW n \in Ids, NEW l \in 0..level[n] PROVE links[n][l] \in Seq(At(l))
    <3>1. links[n][l] = << >>  OBVIOUS
    <3>2. \A X : << >> \in Seq(X)  OBVIOUS
    <3>. QED  BY <3>1, <3>2, Zenon
  <2>. QED  BY <2>1, <2>2 DEF Walks
<1>. QED  BY <1>3, <1>4, <1>5, <1>6, <1>7, <1>8 DEF IInv

(* The invariant is about these variables only.                            *)
LEMMA StutterInv ==
  ASSUME IInv, UNCHANGED vars
  PROVE  IInv'
<1>. USE DEF IInv, vars, Node
<1>1. Types'  BY DEF Types
<1>2. SameIds /\ UNCHANGED <<graph, entryVars, lockVars>>
  BY DEF SameIds, graph, entryVars, lockVars
<1>3. Slots' /\ Owners' = Owners  BY <1>2, SlotsFrame
<1>4. Fresh'  BY <1>2, <1>3, FreshFrame
<1>5. Locks'  BY <1>2, LocksFrame
<1>6. Entries'  BY <1>2, <1>3, EntryFrame DEF Entries
<1>7. Walks'  BY <1>2, WalkFrame, LinksFrame DEF Walks
<1>. QED  BY <1>1, <1>3, <1>4, <1>5, <1>6, <1>7

(* Every step of addPoint keeps the invariant.                             *)
LEMMA StepInv ==
  ASSUME IInv, NEW t \in Threads, Step(t)
  PROVE  IInv'
BY CheckLabelInv, ReserveInv, GiveBackInv, PublishInv, ProbeInv, LockEntryInv, FirstNodeInv,
   StartWalkInv, DescendInv, VisitInv, SetOwnLinksInv, BackLinkInv, NextLayerInv, FinishInv
   DEF Step

(* IInv is an invariant of concurrent addPoint, for every number of        *)
(* threads and slots, every set of levels, every M and efConstruction.     *)
THEOREM Invariance == Spec => []IInv
<1>1. IInv /\ [Next]_vars => IInv'  BY StepInv, StutterInv DEF Next
<1>. QED  BY <1>1, InitInv, PTL DEF Spec

(* The type invariant holds: ids stay below max_elements, lists hold ids.  *)
THEOREM TypeCorrect == Spec => []TypeOK
<1>1. IInv => TypeOK
  <2>. SUFFICES ASSUME IInv PROVE TypeOK  OBVIOUS
  <2>1. \A n \in Ids : \A l \in DOMAIN links[n] : links[n][l] \in Seq(Ids)  BY DEF IInv, Types
  <2>2. \A t \in Threads : loc[t].id \in Ids \cup {NoId} /\ loc[t].cur \in Ids \cup {NoId}
    BY DEF IInv, Types, Locals
  <2>. QED  BY <2>1, <2>2 DEF IInv, Types, TypeOK
<1>. QED  BY <1>1, Invariance, PTL

(* In every interleaving of addPoint, a list at level l names only nodes   *)
(* that have a list at level l, so that no walk reads past the end of      *)
(* linksUpper_.                                                            *)
THEOREM LinksStayWithinLevels == Spec => []LinksWithinLevels
<1>1. IInv => LinksWithinLevels
  <2>. SUFFICES ASSUME IInv, NEW n \in Ids, NEW l \in DOMAIN links[n],
                       NEW m \in Range(links[n][l])
                PROVE  l \in DOMAIN links[m]
    BY DEF LinksWithinLevels
  <2>1. l \in 0..level[n] /\ links[n][l] \in Seq(At(l)) /\ level[n] \in Nat
    BY Consts DEF IInv, Types, Walks
  <2>2. m \in At(l) /\ l \in Nat  BY <2>1 DEF Range
  <2>. QED  BY <2>2, NeighboursIn
<1>. QED  BY <1>1, Invariance, PTL

(* entryPoint_ always has the level maxLevel_, and no insert that has      *)
(* returned left a node above it, although the decision to take entryLock_ *)
(* exclusively was made before the lock was taken.                         *)
THEOREM EntryStaysOnTop == Spec => []EntryOnTop
<1>1. IInv => EntryOnTop  BY DEF IInv, Entries, EntryOK, EntryOnTop
<1>. QED  BY <1>1, Invariance, PTL

(* addPoint reports a full index only when every slot has an owner, and    *)
(* the counter is right again when all is quiet, although failing inserts  *)
(* bump it.                                                                *)
THEOREM FullIsFull == Spec => []FullMeansFull
<1>1. IInv => FullMeansFull
  <2>. SUFFICES ASSUME IInv PROVE FullMeansFull  OBVIOUS
  <2>1. Owners = {t \in Threads : Node(t) # NoId}  BY DEF Owners
  <2>2. (\E t \in Threads : pc[t] \in {"giveback", "full"}) => Cardinality(Owners) = MaxElements
    BY DEF IInv, Slots
  <2>3. (\A t \in Threads : Done(t)) => count = Cardinality(Owners)
    <3>. SUFFICES ASSUME \A t \in Threads : Done(t) PROVE count = Cardinality(Owners)  OBVIOUS
    <3>1. Giving = {}  BY DEF Giving, Done
    <3>2. count = Cardinality(Owners) + Cardinality(Giving)  BY DEF IInv, Slots
    <3>. QED  BY <3>1, <3>2, ThreadSets, FS_EmptySet
  <2>. QED  BY <2>1, <2>2, <2>3 DEF FullMeansFull
<1>. QED  BY <1>1, Invariance, PTL

(* Only FirstNode and Finish assign the entry point, and only for a thread *)
(* that holds the lock alone.                                              *)
LEMMA OnlyWriter ==
  ASSUME IInv, NEW t \in Threads, Step(t), entryVars' # entryVars
  PROVE  writer = {t} /\ pc'[t] # pc[t]
<1>. USE DEF IInv
<1>1. FirstNode(t) \/ (Finish(t) /\ Lev(t) > loc[t].top)
  BY DEF Step, CheckLabel, Reserve, GiveBack, Publish, Probe, LockEntry, StartWalk, Descend,
         Visit, SetOwnLinks, BackLink, NextLayer, Finish
<1>2. pc[t] \in {"locked", "finish"} /\ pc'[t] = "ok"
  BY <1>1 DEF FirstNode, Finish, Leave, Goto, Types
<1>3. pc[t] \in Holding /\ pc[t] \notin NoSlot  BY <1>2 DEF Holding, NoSlot
<1>4. t \notin readers
  <2>1. CASE FirstNode(t)
    BY <2>1, <1>3 DEF FirstNode, Entries, EntryOK
  <2>2. CASE Finish(t) /\ Lev(t) > loc[t].top
    <3>1. Lev(t) > maxLevel  BY <1>3, <2>2 DEF Entries, EntryOK
    <3>2. Lev(t) \in Int /\ maxLevel \in Int  BY <1>3, HasNode
    <3>. QED  BY <3>1, <3>2 DEF Entries, EntryOK
  <2>. QED  BY <1>1, <2>1, <2>2
<1>5. t \in writer  BY <1>3, <1>4 DEF Locks
<1>. QED  BY <1>2, <1>5 DEF Locks

(* Every step that changes entryPoint_ or maxLevel_ is taken by the        *)
(* exclusive holder of entryLock_.                                         *)
THEOREM EntryWrittenByHolder == Spec => EntryWrittenExclusively
<1>1. IInv /\ [Next]_vars =>
        [entryVars' # entryVars => \E t \in Threads : writer = {t} /\ pc'[t] # pc[t]]_vars
  BY OnlyWriter DEF Next
<1>. QED  BY <1>1, Invariance, PTL DEF Spec, EntryWrittenExclusively

-----------------------------------------------------------------------------
(* Waiting.                                                                *)

(* Whoever holds entryLock_ is in a stage that asks for no other lock of   *)
(* the entry point.                                                        *)
LEMMA HolderGoesOn ==
  ASSUME IInv, NEW t \in writer \cup readers
  PROVE  t \in Threads /\ ~ Done(t) /\ ~ Blocked(t)
BY DEF IInv, Types, Locks, Holding, Done, Blocked

(* Not everyone waits for everyone: if a call is held up by entryLock_,    *)
(* then a thread holds the lock, and holders are not held up.              *)
THEOREM NeverStuck == Spec => []NotStuck
<1>1. IInv => NotStuck
  <2>. SUFFICES ASSUME IInv, NEW t \in Threads, ~ Done(t), Blocked(t)
                PROVE  \E u \in Threads : ~ Done(u) /\ ~ Blocked(u)
    BY DEF NotStuck
  <2>1. PICK u : u \in writer \cup readers  BY DEF Blocked
  <2>. QED  BY <2>1, HolderGoesOn
<1>. QED  BY <1>1, Invariance, PTL

\* The part of Step(t) that speaks of the state before the step: each
\* disjunct is what one action, or one branch of it, requires.
Guard(t) ==
  \/ pc[t] \in {"start", "reserve", "giveback", "publish", "locked", "finish"}
  \/ pc[t] \in {"probe", "rlock"} /\ writer = {}
  \/ pc[t] = "wlock" /\ writer = {} /\ readers = {}
  \/ pc[t] = "descend" /\ (Closer(Q(t), loc[t].cur, loc[t].l) # {} \/ loc[t].l >= Lev(t) + 1)
  \/ pc[t] = "search" /\ \/ SearchOver(data, Q(t), Ef, loc[t].s)
                         \/ Nearest(data, Q(t), loc[t].s.front) # {}
  \/ pc[t] = "back" /\ (loc[t].todo # << >> \/ loc[t].l = 0 \/ loc[t].sel # << >>)

(* A call that entryLock_ does not hold up has somewhere to go: a descent  *)
(* is still above the new node's level, a search that is not over has a    *)
(* nearest node in its frontier, and a node always has a first neighbour   *)
(* from which the level below is searched.                                 *)
THEOREM WaitsForNothingElse ==
  Spec => [](\A t \in Threads : Done(t) \/ Blocked(t) \/ Guard(t))
<1>1. ASSUME IInv, NEW t \in Threads PROVE Done(t) \/ Blocked(t) \/ Guard(t)
  <2>0. pc[t] \in Stages /\ loc[t] \in Locals  BY <1>1 DEF IInv, Types
  <2>1. CASE pc[t] = "descend"
    <3>1. loc[t].l \in Nat  BY <2>0 DEF Locals
    <3>2. Lev(t) \in Nat  BY <1>1, <2>1, HasNode DEF NoSlot
    <3>3. Lev(t) < loc[t].l  BY <1>1, <2>1 DEF IInv, Walks, WalkOK
    <3>4. loc[t].l >= Lev(t) + 1  BY <3>1, <3>2, <3>3
    <3>. QED  BY <2>1, <3>4 DEF Guard
  <2>2. CASE pc[t] = "search"
    <3>1. loc[t].s.front \in SUBSET Ids  BY <2>0 DEF Locals, Searches
    <3>2. IsFiniteSet(loc[t].s.front)  BY <3>1, Consts, FS_Subset
    <3>3. data \in [Ids -> Int] /\ Q(t) \in Int
      BY <1>1, HnswInsertAssumption DEF IInv, Types, Q
    <3>4. loc[t].s.front # {} => Nearest(data, Q(t), loc[t].s.front) # {}
      BY <3>1, <3>2, <3>3, Extremes
    <3>5. loc[t].s.front = {} => SearchOver(data, Q(t), Ef, loc[t].s)  BY DEF SearchOver
    <3>. QED  BY <2>2, <3>4, <3>5 DEF Guard
  <2>3. CASE pc[t] = "back"
    <3>1. loc[t].sel # << >>  BY <1>1, <2>3 DEF IInv, Walks, WalkOK
    <3>. QED  BY <2>3, <3>1 DEF Guard
  <2>4. CASE pc[t] \notin {"descend", "search", "back"}
    BY <2>0, <2>4 DEF Stages, Done, Blocked, Guard
  <2>. QED  BY <2>1, <2>2, <2>3, <2>4
<1>2. IInv => \A t \in Threads : Done(t) \/ Blocked(t) \/ Guard(t)  BY <1>1
<1>. QED  BY <1>2, Invariance, PTL

-----------------------------------------------------------------------------
(***************************************************************************)
(* No node is its own neighbour.  addPoint does not exclude the new node   *)
(* from its own search; what excludes it is that the search cannot reach   *)
(* it: other inserts that came across it on a level above may already have *)
(* linked to it here, but only from a part of the level that its own       *)
(* search is not in yet.                                                   *)
(*                                                                         *)
(* To say so, the nodes of each level are coloured.  Linked nodes have one *)
(* colour, and a level refines the level above it.  An insert that is to   *)
(* link its node a to a start b on level l is a pending edge (a, b), and   *)
(* the pending edges of a level are no cycle of colours: each has a cut, a *)
(* set closed under the colours of the level that separates its two ends   *)
(* and those of no other pending edge.  Hence a search from b stays in     *)
(* b's colour and does not meet a.                                         *)
(***************************************************************************)

\* The set S is a union of colours; it separates x from y.
Closed(f, S) == \A n, m \in Ids : f[n] = f[m] => (n \in S <=> m \in S)
Separates(S, x, y) == ~ (x \in S <=> y \in S)

Colourings == [Nat -> [Ids -> Ids]]
Cuts == [Threads -> SUBSET Ids]

\* The threads in P have the pending edges (a[t], b[t]) on level lev[t].
Edges(P, lev, a, b) ==
  P \subseteq Threads /\ \A t \in P : lev[t] \in Nat /\ a[t] \in Ids /\ b[t] \in Ids

\* Colours refine from level to level, and every pending edge has its cut.
Forest(R, C, P, lev, a, b) ==
  /\ \A l \in Nat : \A n, m \in Ids : R[l][n] = R[l][m] => R[l + 1][n] = R[l + 1][m]
  /\ \A t \in P : R[lev[t] + 1][a[t]] = R[lev[t] + 1][b[t]]
  /\ \A t \in P : Closed(R[lev[t]], C[t]) /\ Separates(C[t], a[t], b[t])
  /\ \A t, s \in P : s # t /\ lev[s] = lev[t] => ~ Separates(C[t], a[s], b[s])

\* Nobody shares the colour of n.
Alone(R, n) == \A l \in Nat : \A m \in Ids : m # n => R[l][m] # R[l][n]

(* Cuts stay when edges go.                                                *)
LEMMA FewerEdges ==
  ASSUME NEW R, NEW C, NEW P, NEW lev, NEW a, NEW b, Forest(R, C, P, lev, a, b),
         NEW P1, NEW lev1, NEW a1, NEW b1, P1 \subseteq P,
         \A t \in P1 : lev1[t] = lev[t] /\ a1[t] = a[t] /\ b1[t] = b[t]
  PROVE  Forest(R, C, P1, lev1, a1, b1)
BY DEF Forest

\* The edge (u, w) on level l, of thread t, is new, and so is the node u.
Joins(P, lev, a, b, P1, lev1, a1, b1, t, u, w, l) ==
  /\ t \notin P /\ P1 = P \cup {t} /\ lev1[t] = l /\ a1[t] = u /\ b1[t] = w
  /\ \A s \in P : lev1[s] = lev[s] /\ a1[s] = a[s] /\ b1[s] = b[s]
  /\ u # w /\ \A s \in P : a[s] # u /\ b[s] # u

\* R1 is R but for u, which above level l has its own colour or that of w.
Follows(R, R1, u, w, l) ==
  /\ \A k \in Nat : k <= l => R1[k] = R[k]
  /\ \A k \in Nat : \A n \in Ids : n # u => R1[k][n] = R[k][n]
  /\ \A k \in Nat : R1[k][u] \in {R[k][u], R[k][w]}

(* An insert whose node u nobody knows arrives on level l at w: u takes    *)
(* the colours of w above l and keeps its own from l down, and each cut    *)
(* takes u to the side of w.                                               *)
LEMMA NewEdge ==
  ASSUME NEW R \in Colourings, NEW C \in Cuts, NEW P, NEW lev, NEW a, NEW b,
         Forest(R, C, P, lev, a, b), Edges(P, lev, a, b),
         NEW P1, NEW lev1, NEW a1, NEW b1,
         NEW t \in Threads, NEW u \in Ids, NEW w \in Ids, NEW l \in Nat,
         Joins(P, lev, a, b, P1, lev1, a1, b1, t, u, w, l), Alone(R, u)
  PROVE  \E R1 \in Colourings, C1 \in Cuts :
           Forest(R1, C1, P1, lev1, a1, b1) /\ Follows(R, R1, u, w, l)
<1>a. /\ t \notin P /\ P1 = P \cup {t} /\ lev1[t] = l /\ a1[t] = u /\ b1[t] = w
      /\ \A s \in P : lev1[s] = lev[s] /\ a1[s] = a[s] /\ b1[s] = b[s]
      /\ u # w /\ \A s \in P : a[s] # u /\ b[s] # u
  BY DEF Joins
<1>. USE <1>a
<1>1. PICK R1 : R1 = [k \in Nat |-> [n \in Ids |-> IF n = u /\ k > l THEN R[k][w] ELSE R[k][n]]]
  OBVIOUS
<1>2. PICK C1 : C1 = [s \in Threads |-> IF s = t THEN {u}
                                        ELSE IF w \in C[s] THEN C[s] \cup {u} ELSE C[s] \ {u}]
  OBVIOUS
<1>3. \A k \in Nat : R[k] \in [Ids -> Ids]  BY DEF Colourings
<1>4. /\ R1 \in Colourings
      /\ \A k \in Nat : \A n \in Ids : R1[k][n] = IF n = u /\ k > l THEN R[k][w] ELSE R[k][n]
  <2>1. ASSUME NEW k \in Nat
        PROVE  /\ R1[k] \in [Ids -> Ids]
               /\ \A n \in Ids : R1[k][n] = IF n = u /\ k > l THEN R[k][w] ELSE R[k][n]
    <3>1. R[k] \in [Ids -> Ids]  BY <1>3
    <3>2. R1[k] = [n \in Ids |-> IF n = u /\ k > l THEN R[k][w] ELSE R[k][n]]  BY <1>1
    <3>. QED  BY <3>1, <3>2
  <2>2. R1 \in Colourings  BY <1>1, <2>1 DEF Colourings
  <2>. QED  BY <2>1, <2>2
<1>5. /\ C1 \in Cuts /\ C1[t] = {u}
      /\ \A s \in Threads : s # t => \A n \in Ids : n \in C1[s] <=> IF n = u THEN w \in C[s] ELSE n \in C[s]
  <2>1. \A s \in Threads : C[s] \in SUBSET Ids  BY DEF Cuts
  <2>2. \A s \in Threads : C1[s] \in SUBSET Ids  BY <1>2, <2>1
  <2>3. C1 \in Cuts  BY <1>2, <2>2 DEF Cuts
  <2>. QED  BY <1>2, <2>3
<1>6. \A k \in Nat : k <= l => R1[k] = R[k]
  <2> SUFFICES ASSUME NEW k \in Nat, k <= l PROVE R1[k] = R[k]
    OBVIOUS
  <2>1. R1[k] \in [Ids -> Ids] /\ R[k] \in [Ids -> Ids]  BY <1>3, <1>4 DEF Colourings
  <2>2. \A n \in Ids : R1[k][n] = R[k][n]  BY <1>4
  <2>. QED  BY <2>1, <2>2
<1>7. \A k \in Nat : \A n \in Ids : n # u => R1[k][n] = R[k][n]  BY <1>4
<1>8. \A k \in Nat : R1[k][u] \in {R[k][u], R[k][w]}  BY <1>4
<1>9. ASSUME NEW k \in Nat, NEW n \in Ids, NEW m \in Ids, R1[k][n] = R1[k][m]
      PROVE  R1[k + 1][n] = R1[k + 1][m]
  <2>1. k + 1 \in Nat  OBVIOUS
  <2>2. \A x, y \in Ids : R[k][x] = R[k][y] => R[k + 1][x] = R[k + 1][y]  BY DEF Forest
  <2>3. \A y \in Ids : y # u => R[k][y] # R[k][u]  BY DEF Alone
  <2>4. CASE k > l
    <3>1. /\ \A x \in Ids : R1[k][x] = R[k][IF x = u THEN w ELSE x]
          /\ \A x \in Ids : R1[k + 1][x] = R[k + 1][IF x = u THEN w ELSE x]
      BY <1>4, <2>1, <2>4
    <3>. QED  BY <1>9, <2>2, <3>1
  <2>5. CASE ~ (k > l)
    <3>1. \A x \in Ids : R1[k][x] = R[k][x]  BY <1>4, <2>5
    <3>2. n = u \/ m = u => n = m  BY <1>9, <2>3, <3>1
    <3>3. n # u /\ m # u => R1[k + 1][n] = R[k + 1][n] /\ R1[k + 1][m] = R[k + 1][m]
      BY <1>7, <2>1
    <3>. QED  BY <1>9, <2>2, <3>1, <3>2, <3>3
  <2>. QED  BY <2>4, <2>5
<1>10. \A s \in P : /\ s \in Threads /\ s # t /\ lev[s] \in Nat /\ lev[s] + 1 \in Nat
                    /\ a[s] \in Ids /\ b[s] \in Ids
  BY DEF Edges
<1>11. ASSUME NEW s \in P1
       PROVE  R1[lev1[s] + 1][a1[s]] = R1[lev1[s] + 1][b1[s]]
  <2>1. CASE s = t
    <3>1. l + 1 \in Nat /\ l + 1 > l  OBVIOUS
    <3>. QED  BY <1>4, <2>1, <3>1
  <2>2. CASE s # t
    <3>1. s \in P  BY <2>2
    <3>2. R[lev[s] + 1][a[s]] = R[lev[s] + 1][b[s]]  BY <3>1 DEF Forest
    <3>. QED  BY <1>7, <1>10, <3>1, <3>2
  <2>. QED  BY <2>1, <2>2
<1>12. ASSUME NEW s \in P1
       PROVE  Closed(R1[lev1[s]], C1[s]) /\ Separates(C1[s], a1[s], b1[s])
  <2>1. CASE s = t
    <3>1. R1[l] = R[l] /\ \A y \in Ids : y # u => R[l][y] # R[l][u]  BY <1>6 DEF Alone
    <3>2. Closed(R1[l], {u})  BY <3>1 DEF Closed
    <3>3. Separates({u}, u, w)  BY DEF Separates
    <3>. QED  BY <1>5, <2>1, <3>2, <3>3
  <2>2. CASE s # t
    <3>1. s \in P  BY <2>2
    <3>2. PICK k \in Nat : k = lev[s] /\ lev1[s] = k  BY <1>10, <3>1
    <3>3. /\ \A n, m \in Ids : R[k][n] = R[k][m] => (n \in C[s] <=> m \in C[s])
          /\ Separates(C[s], a[s], b[s])
      BY <3>1, <3>2 DEF Forest, Closed
    <3>4. \A n \in Ids : n \in C1[s] <=> IF n = u THEN w \in C[s] ELSE n \in C[s]
      BY <1>5, <1>10, <3>1
    <3>5. Separates(C1[s], a1[s], b1[s])
      <4>1. a1[s] = a[s] /\ b1[s] = b[s] /\ a[s] # u /\ b[s] # u /\ a[s] \in Ids /\ b[s] \in Ids
        BY <1>10, <3>1
      <4>. QED  BY <3>3, <3>4, <4>1 DEF Separates
    <3>6. Closed(R1[k], C1[s])
      <4> SUFFICES ASSUME NEW n \in Ids, NEW m \in Ids, R1[k][n] = R1[k][m]
                   PROVE  n \in C1[s] <=> m \in C1[s]
        BY DEF Closed
      <4>1. CASE k > l
        <5>1. \A x \in Ids : R1[k][x] = R[k][IF x = u THEN w ELSE x]  BY <1>4, <4>1
        <5>2. \A x \in Ids : x \in C1[s] <=> (IF x = u THEN w ELSE x) \in C[s]  BY <3>4
        <5>. QED  BY <3>3, <5>1, <5>2
      <4>2. CASE ~ (k > l)
        <5>1. \A x \in Ids : R1[k][x] = R[k][x]  BY <1>4, <4>2
        <5>2. \A y \in Ids : y # u => R[k][y] # R[k][u]  BY DEF Alone
        <5>3. n = u \/ m = u => n = m  BY <5>1, <5>2
        <5>. QED  BY <3>3, <3>4, <5>1, <5>3
      <4>. QED  BY <4>1, <4>2
    <3>. QED  BY <3>2, <3>5, <3>6
  <2>. QED  BY <2>1, <2>2
<1>13. ASSUME NEW r \in P1, NEW s \in P1, s # r, lev1[s] = lev1[r]
       PROVE  ~ Separates(C1[r], a1[s], b1[s])
  <2>1. CASE r = t
    <3>1. s \in P /\ a1[s] # u /\ b1[s] # u  BY <1>13, <2>1
    <3>. QED  BY <1>5, <2>1, <3>1 DEF Separates
  <2>2. CASE s = t
    <3>1. r \in P /\ r \in Threads /\ r # t  BY <1>10, <1>13, <2>2
    <3>2. u \in C1[r] <=> w \in C1[r]  BY <1>5, <3>1
    <3>. QED  BY <2>2, <3>2 DEF Separates
  <2>3. CASE r # t /\ s # t
    <3>1. r \in P /\ s \in P /\ lev[s] = lev[r]  BY <1>13, <2>3
    <3>2. ~ Separates(C[r], a[s], b[s])  BY <1>13, <3>1 DEF Forest
    <3>3. a1[s] = a[s] /\ b1[s] = b[s] /\ a[s] # u /\ b[s] # u /\ a[s] \in Ids /\ b[s] \in Ids
      BY <1>10, <3>1
    <3>. QED  BY <1>5, <1>10, <3>1, <3>2, <3>3 DEF Separates
  <2>. QED  BY <2>1, <2>2, <2>3
<1>14. Forest(R1, C1, P1, lev1, a1, b1)  BY <1>9, <1>11, <1>12, <1>13 DEF Forest
<1>. QED  BY <1>4, <1>5, <1>6, <1>7, <1>8, <1>14 DEF Follows

\* The edge of thread t gives way to one from the same node to h on the
\* level below, or to none.
Advances(P, lev, a, b, P1, lev1, a1, b1, t, h) ==
  /\ t \in P /\ P1 \subseteq P
  /\ t \in P1 => lev[t] - 1 \in Nat /\ lev1[t] = lev[t] - 1 /\ a1[t] = a[t] /\ b1[t] = h
  /\ \A s \in P1 : s # t => lev1[s] = lev[s] /\ a1[s] = a[s] /\ b1[s] = b[s]

\* R1 is R but for level l, where x has the colour of y.
Merged(R, R1, l, x, y) ==
  /\ \A k \in Nat : k # l => R1[k] = R[k]
  /\ \A n \in Ids : R1[l][n] = IF R[l][n] = R[l][x] THEN R[l][y] ELSE R[l][n]

(* The edge of thread t is drawn: its two colours become one.  Its next    *)
(* edge, from the same node to some h of the colour of b[t] on the level   *)
(* below, has the same cut; a cut there that the new edge crosses is       *)
(* mended with the symmetric difference.                                   *)
LEMMA DrawEdge ==
  ASSUME NEW R \in Colourings, NEW C \in Cuts, NEW P, NEW lev, NEW a, NEW b,
         Forest(R, C, P, lev, a, b), Edges(P, lev, a, b),
         NEW P1, NEW lev1, NEW a1, NEW b1, NEW t, NEW h \in Ids,
         Advances(P, lev, a, b, P1, lev1, a1, b1, t, h), R[lev[t]][h] = R[lev[t]][b[t]]
  PROVE  \E R1 \in Colourings, C1 \in Cuts :
           Forest(R1, C1, P1, lev1, a1, b1) /\ Merged(R, R1, lev[t], a[t], b[t])
<1>a. PICK l \in Nat : l = lev[t]  BY DEF Edges, Advances
<1>b. /\ t \in P /\ P1 \subseteq P /\ R[l][h] = R[l][b[t]]
      /\ t \in P1 => l - 1 \in Nat /\ lev1[t] = l - 1 /\ a1[t] = a[t] /\ b1[t] = h
      /\ \A s \in P1 : s # t => lev1[s] = lev[s] /\ a1[s] = a[s] /\ b1[s] = b[s]
  BY <1>a DEF Advances
<1>. USE <1>a, <1>b
<1>0. t \in Threads /\ a[t] \in Ids /\ b[t] \in Ids  BY DEF Edges
<1>1. PICK f : f = [n \in Ids |-> IF R[l][n] = R[l][a[t]] THEN R[l][b[t]] ELSE R[l][n]]
  OBVIOUS
<1>2. PICK R1 : R1 = [R EXCEPT ![l] = f]
  OBVIOUS
<1>3. PICK Mend : Mend = {s \in P1 : s # t /\ t \in P1 /\ lev[s] = l - 1 /\ Separates(C[s], a[t], h)}
  OBVIOUS
<1>4. PICK C1 : C1 = [s \in Threads |-> IF s \in Mend THEN (C[s] \ C[t]) \cup (C[t] \ C[s]) ELSE C[s]]
  OBVIOUS
<1>5. /\ R1 \in Colourings /\ \A k \in Nat : k # l => R1[k] = R[k]
      /\ \A n \in Ids : R1[l][n] = IF R[l][n] = R[l][a[t]] THEN R[l][b[t]] ELSE R[l][n]
  <2>1. R[l] \in [Ids -> Ids]  BY DEF Colourings
  <2>2. f \in [Ids -> Ids]  BY <1>0, <1>1, <2>1
  <2>3. R1 \in Colourings /\ R1[l] = f /\ \A k \in Nat : k # l => R1[k] = R[k]
    BY <1>2, <2>2 DEF Colourings
  <2>. QED  BY <1>1, <2>3
<1>6. /\ C1 \in Cuts
      /\ \A s \in Threads : s \notin Mend => C1[s] = C[s]
      /\ \A s \in Threads : s \in Mend => \A n : n \in C1[s] <=> ~ (n \in C[s] <=> n \in C[t])
  <2>1. \A s \in Threads : C[s] \in SUBSET Ids  BY DEF Cuts
  <2>2. \A s \in Threads : C1[s] \in SUBSET Ids  BY <1>0, <1>4, <2>1
  <2>3. C1 \in Cuts  BY <1>4, <2>2 DEF Cuts
  <2>4. \A s \in Threads : s \in Mend => C1[s] = (C[s] \ C[t]) \cup (C[t] \ C[s])  BY <1>4
  <2>. QED  BY <1>4, <2>3, <2>4
<1>7. \A k \in Nat : \A n, m \in Ids : R[k][n] = R[k][m] => R1[k][n] = R1[k][m]
  BY <1>5
<1>8. \A k \in Nat : \A n, m \in Ids : R[k][n] = R[k][m] => R[k + 1][n] = R[k + 1][m]
  BY DEF Forest
<1>9. R[l + 1][a[t]] = R[l + 1][b[t]]  BY DEF Forest
<1>10. ASSUME NEW k \in Nat, NEW n \in Ids, NEW m \in Ids, R1[k][n] = R1[k][m]
       PROVE  R1[k + 1][n] = R1[k + 1][m]
  <2>1. k + 1 \in Nat  OBVIOUS
  <2>2. R[k + 1][n] = R[k + 1][m]
    <3>1. CASE k # l  BY <1>5, <1>8, <1>10, <3>1
    <3>2. CASE k = l
      <4>1. R[l][n] = R[l][m] \/ /\ R[l][n] \in {R[l][a[t]], R[l][b[t]]}
                                 /\ R[l][m] \in {R[l][a[t]], R[l][b[t]]}
        BY <1>5, <1>10, <3>2
      <4>2. \A x \in Ids : R[l][x] \in {R[l][a[t]], R[l][b[t]]} => R[l + 1][x] = R[l + 1][b[t]]
        BY <1>0, <1>8, <1>9
      <4>. QED  BY <1>8, <3>2, <4>1, <4>2
    <3>. QED  BY <3>1, <3>2
  <2>. QED  BY <1>7, <2>1, <2>2
<1>11. \A s \in P1 : s \in P /\ s \in Threads /\ lev[s] \in Nat /\ a[s] \in Ids /\ b[s] \in Ids
  BY DEF Edges
<1>12. ASSUME NEW s \in P1
       PROVE  R1[lev1[s] + 1][a1[s]] = R1[lev1[s] + 1][b1[s]]
  <2>1. CASE s = t
    <3>1. lev1[s] + 1 = l /\ a1[s] = a[t] /\ b1[s] = h  BY <2>1
    <3>2. R1[l][a[t]] = R[l][b[t]] /\ R1[l][h] = R[l][b[t]]  BY <1>0, <1>5
    <3>. QED  BY <3>1, <3>2
  <2>2. CASE s # t
    <3>1. R[lev[s] + 1][a[s]] = R[lev[s] + 1][b[s]]  BY <1>11 DEF Forest
    <3>2. lev[s] + 1 \in Nat  BY <1>11
    <3>. QED  BY <1>7, <1>11, <2>2, <3>1, <3>2
  <2>. QED  BY <2>1, <2>2
\* What the old cuts do.
<1>13. \A s \in P : /\ \A n, m \in Ids : R[lev[s]][n] = R[lev[s]][m] => (n \in C[s] <=> m \in C[s])
                    /\ ~ (a[s] \in C[s] <=> b[s] \in C[s])
  BY DEF Forest, Closed, Separates
<1>14. \A s, r \in P : s # r /\ lev[s] = lev[r] => (a[s] \in C[r] <=> b[s] \in C[r])
  BY DEF Forest, Separates
<1>15. \A n, m \in Ids : R[l][n] = R[l][m] => (n \in C[t] <=> m \in C[t])
  BY <1>13
<1>16. ~ (a[t] \in C[t] <=> h \in C[t])  BY <1>0, <1>13, <1>15
<1>17. t \notin Mend /\ C1[t] = C[t]  BY <1>0, <1>3, <1>6
\* Below level l the cut of t is closed, and no pending edge crosses it.
<1>18. ASSUME l - 1 \in Nat
       PROVE  /\ \A n, m \in Ids : R[l - 1][n] = R[l - 1][m] => (n \in C[t] <=> m \in C[t])
              /\ \A s \in P1 : lev[s] = l - 1 => (a[s] \in C[t] <=> b[s] \in C[t])
  <2>1. PICK k \in Nat : k = l - 1 /\ k + 1 = l  BY <1>18
  <2>2. \A n, m \in Ids : R[k][n] = R[k][m] => R[l][n] = R[l][m]  BY <1>8, <2>1
  <2>3. \A s \in P1 : lev[s] = k => R[l][a[s]] = R[l][b[s]]  BY <1>11, <2>1 DEF Forest
  <2>. QED  BY <1>11, <1>15, <2>1, <2>2, <2>3
<1>19. ASSUME NEW s \in P1
       PROVE  Closed(R1[lev1[s]], C1[s])
  <2>1. CASE s = t
    <3>1. l - 1 \in Nat /\ l - 1 # l /\ lev1[s] = l - 1  BY <2>1
    <3>2. R1[l - 1] = R[l - 1]  BY <1>5, <3>1
    <3>. QED  BY <1>17, <1>18, <2>1, <3>1, <3>2 DEF Closed
  <2>2. CASE s # t /\ s \in Mend
    <3>1. l - 1 \in Nat /\ l - 1 # l /\ lev1[s] = l - 1 /\ lev[s] = l - 1  BY <1>3, <2>2
    <3>2. R1[l - 1] = R[l - 1]  BY <1>5, <3>1
    <3>3. \A n, m \in Ids : R[l - 1][n] = R[l - 1][m] => (n \in C[s] <=> m \in C[s])
      BY <1>11, <1>13, <3>1
    <3>4. \A n : n \in C1[s] <=> ~ (n \in C[s] <=> n \in C[t])  BY <1>6, <1>11, <2>2
    <3>. QED  BY <1>18, <3>1, <3>2, <3>3, <3>4 DEF Closed
  <2>3. CASE s # t /\ s \notin Mend
    <3>1. C1[s] = C[s] /\ lev1[s] = lev[s]  BY <1>6, <1>11, <2>3
    <3>2. \A n, m \in Ids : R[lev[s]][n] = R[lev[s]][m] => (n \in C[s] <=> m \in C[s])
      BY <1>11, <1>13
    <3>3. CASE lev[s] # l
      <4>1. R1[lev[s]] = R[lev[s]]  BY <1>5, <1>11, <3>3
      <4>. QED  BY <3>1, <3>2, <4>1 DEF Closed
    <3>4. CASE lev[s] = l
      <4>1. a[t] \in C[s] <=> b[t] \in C[s]  BY <1>11, <1>14, <2>3, <3>4
      <4>2. \A n \in Ids : R[l][n] = R[l][a[t]] => (n \in C[s] <=> b[t] \in C[s])
        BY <1>0, <3>2, <3>4, <4>1
      <4>3. ASSUME NEW n \in Ids, NEW m \in Ids, R1[l][n] = R1[l][m]
            PROVE  n \in C[s] <=> m \in C[s]
        <5>1. CASE R[l][n] = R[l][a[t]] /\ R[l][m] = R[l][a[t]]  BY <4>2, <5>1
        <5>2. CASE R[l][n] = R[l][a[t]] /\ R[l][m] # R[l][a[t]]
          <6>1. R[l][m] = R[l][b[t]]  BY <1>5, <4>3, <5>2
          <6>. QED  BY <1>0, <3>2, <3>4, <4>2, <5>2, <6>1
        <5>3. CASE R[l][n] # R[l][a[t]] /\ R[l][m] = R[l][a[t]]
          <6>1. R[l][n] = R[l][b[t]]  BY <1>5, <4>3, <5>3
          <6>. QED  BY <1>0, <3>2, <3>4, <4>2, <5>3, <6>1
        <5>4. CASE R[l][n] # R[l][a[t]] /\ R[l][m] # R[l][a[t]]
          <6>1. R[l][n] = R[l][m]  BY <1>5, <4>3, <5>4
          <6>. QED  BY <3>2, <3>4, <6>1
        <5>. QED  BY <5>1, <5>2, <5>3, <5>4
      <4>. QED  BY <3>1, <3>4, <4>3 DEF Closed
    <3>. QED  BY <3>3, <3>4
  <2>. QED  BY <2>1, <2>2, <2>3
<1>20. ASSUME NEW s \in P1
       PROVE  Separates(C1[s], a1[s], b1[s])
  <2>1. CASE s = t  BY <1>16, <1>17, <2>1 DEF Separates
  <2>2. CASE s # t /\ s \in Mend
    <3>1. l - 1 \in Nat /\ lev[s] = l - 1 /\ a1[s] = a[s] /\ b1[s] = b[s]  BY <1>3, <2>2
    <3>2. a[s] \in C[t] <=> b[s] \in C[t]  BY <1>18, <3>1
    <3>3. ~ (a[s] \in C[s] <=> b[s] \in C[s])  BY <1>11, <1>13
    <3>4. \A n : n \in C1[s] <=> ~ (n \in C[s] <=> n \in C[t])  BY <1>6, <1>11, <2>2
    <3>. QED  BY <3>1, <3>2, <3>3, <3>4 DEF Separates
  <2>3. CASE s # t /\ s \notin Mend
    <3>1. C1[s] = C[s] /\ a1[s] = a[s] /\ b1[s] = b[s]  BY <1>6, <1>11, <2>3
    <3>. QED  BY <1>11, <1>13, <3>1 DEF Separates
  <2>. QED  BY <2>1, <2>2, <2>3
<1>21. ASSUME NEW r \in P1, NEW s \in P1, s # r, lev1[s] = lev1[r]
       PROVE  ~ Separates(C1[r], a1[s], b1[s])
  <2>1. CASE r = t
    <3>1. l - 1 \in Nat /\ lev[s] = l - 1 /\ a1[s] = a[s] /\ b1[s] = b[s]  BY <1>21, <2>1
    <3>. QED  BY <1>17, <1>18, <2>1, <3>1 DEF Separates
  <2>2. CASE s = t
    <3>1. l - 1 \in Nat /\ lev[r] = l - 1 /\ a1[s] = a[t] /\ b1[s] = h  BY <1>21, <2>2
    <3>2. CASE r \in Mend
      <4>1. ~ (a[t] \in C[r] <=> h \in C[r])  BY <1>3, <3>2 DEF Separates
      <4>2. \A n : n \in C1[r] <=> ~ (n \in C[r] <=> n \in C[t])  BY <1>6, <1>11, <3>2
      <4>. QED  BY <1>16, <3>1, <4>1, <4>2 DEF Separates
    <3>3. CASE r \notin Mend
      <4>1. ~ Separates(C[r], a[t], h)  BY <1>3, <1>21, <2>2, <3>1, <3>3
      <4>2. C1[r] = C[r]  BY <1>6, <1>11, <3>3
      <4>. QED  BY <3>1, <4>1, <4>2
    <3>. QED  BY <3>2, <3>3
  <2>3. CASE r # t /\ s # t
    <3>1. /\ r \in P /\ s \in P /\ lev[s] = lev[r] /\ a1[s] = a[s] /\ b1[s] = b[s]
      BY <1>11, <1>21, <2>3
    <3>2. a[s] \in C[r] <=> b[s] \in C[r]  BY <1>14, <1>21, <3>1
    <3>3. CASE r \in Mend
      <4>1. l - 1 \in Nat /\ lev[s] = l - 1  BY <1>3, <3>1, <3>3
      <4>2. a[s] \in C[t] <=> b[s] \in C[t]  BY <1>18, <4>1
      <4>3. \A n : n \in C1[r] <=> ~ (n \in C[r] <=> n \in C[t])  BY <1>6, <1>11, <3>3
      <4>. QED  BY <3>1, <3>2, <4>2, <4>3 DEF Separates
    <3>4. CASE r \notin Mend
      <4>1. C1[r] = C[r]  BY <1>6, <1>11, <3>4
      <4>. QED  BY <3>1, <3>2, <4>1 DEF Separates
    <3>. QED  BY <3>3, <3>4
  <2>. QED  BY <2>1, <2>2, <2>3
<1>22. Forest(R1, C1, P1, lev1, a1, b1)
  BY <1>10, <1>12, <1>19, <1>20, <1>21 DEF Forest
<1>. QED  BY <1>5, <1>6, <1>22 DEF Merged

-----------------------------------------------------------------------------
(* The colours of the index.                                               *)

\* The stages of a thread whose node others may know.
Linking == {"search", "back", "finish", "ok"}
Known == {n \in Ids : \E t \in Threads : pc[t] \in Linking /\ Node(t) = n}

\* The nodes of K with the colour of n, and those other than n.
Class(K, f, n) == {m \in K : f[m] = f[n]}
Near(K, f, n) == {m \in K : m # n /\ f[m] = f[n]}

\* The pending edges: of a search at its level, and of a thread that is
\* linking its neighbours back at the level below.
Pends == {t \in Threads : pc[t] = "search" \/ (pc[t] = "back" /\ loc[t].l > 0)}
PLev == [t \in Threads |-> IF pc[t] = "search" THEN loc[t].l ELSE loc[t].l - 1]
PSrc == [t \in Threads |-> Node(t)]
PDst == [t \in Threads |-> IF pc[t] = "search" THEN loc[t].cur ELSE Head(loc[t].sel)]

\* The walk of thread t is on known nodes, of one colour per level.
ColourOK(R, t) ==
  /\ loc[t].cur \in Known \cup {NoId}
  /\ pc[t] = "search" =>
       /\ loc[t].cur \in Known
       /\ loc[t].s \in Searches(Class(Known, R[loc[t].l], loc[t].cur), Ids)
  /\ pc[t] = "back" =>
       /\ loc[t].sel \in Seq(Near(Known, R[loc[t].l], Node(t)))
       /\ loc[t].todo \in Seq(Near(Known, R[loc[t].l], Node(t)))

\* So is every list, and a node that nobody knows is alone.
Coloured(R) ==
  /\ \A n \in Ids : \A l \in 0..level[n] : links[n][l] \in Seq(Near(Known, R[l], n))
  /\ entry \in Known \cup {NoId}
  /\ \A t \in Threads : ColourOK(R, t)
  /\ \A n \in Ids \ Known : Alone(R, n)

Apart == \E R \in Colourings, C \in Cuts : Forest(R, C, Pends, PLev, PSrc, PDst) /\ Coloured(R)

(* The pending edges join nodes, and known ones.                           *)
LEMMA EdgesKnown ==
  ASSUME IInv, NEW R, Coloured(R)
  PROVE  /\ Edges(Pends, PLev, PSrc, PDst)
         /\ \A t \in Pends : PSrc[t] \in Known /\ PDst[t] \in Known
<1> SUFFICES ASSUME NEW t \in Pends
             PROVE  PLev[t] \in Nat /\ PSrc[t] \in Known /\ PDst[t] \in Known
  BY DEF Edges, Pends, Known
<1>1. t \in Threads /\ pc[t] \in {"search", "back"} /\ pc[t] \notin NoSlot /\ pc[t] \in Linking
  BY DEF Pends, NoSlot, Linking
<1>2. Node(t) \in Ids  BY <1>1, HasNode
<1>3. Node(t) \in Known  BY <1>1, <1>2 DEF Known
<1>4. loc[t].l \in Nat  BY <1>1 DEF IInv, Types, Locals
<1>5. PLev[t] \in Nat  BY <1>1, <1>4 DEF PLev, Pends
<1>6. CASE pc[t] = "search"
  <2>1. PDst[t] \in Known  BY <1>1, <1>6 DEF PDst, Coloured, ColourOK
  <2>. QED  BY <1>1, <1>3, <1>5, <2>1 DEF PSrc
<1>7. CASE pc[t] = "back"
  <2>1. loc[t].sel \in Seq(Near(Known, R[loc[t].l], Node(t)))  BY <1>1, <1>7 DEF Coloured, ColourOK
  <2>2. loc[t].sel # << >>  BY <1>1, <1>7 DEF IInv, Walks, WalkOK
  <2>3. Head(loc[t].sel) \in Near(Known, R[loc[t].l], Node(t))  BY <2>1, <2>2
  <2>4. PDst[t] \in Known  BY <1>1, <1>7, <2>3 DEF PDst, Near
  <2>. QED  BY <1>1, <1>3, <1>5, <2>4 DEF PSrc
<1>. QED  BY <1>1, <1>6, <1>7

(* Threads that do not move keep their edges.                              *)
LEMMA OthersEdges ==
  ASSUME NEW t \in Threads, Others(t)
  PROVE  \A u \in Threads : u # t => /\ u \in Pends' <=> u \in Pends
                                     /\ PLev'[u] = PLev[u] /\ PSrc'[u] = PSrc[u] /\ PDst'[u] = PDst[u]
BY DEF Others, Pends, PLev, PSrc, PDst, Node

(* Nobody forgets a node as long as the moving thread keeps its own.       *)
LEMMA KnownGrows ==
  ASSUME NEW t \in Threads, Others(t),
         pc[t] \in Linking => pc'[t] \in Linking /\ loc'[t].id = loc[t].id
  PROVE  Known \subseteq Known'
BY DEF Known, Others, Node

(* A node in the colours R is one in the coarser R1, and known nodes stay  *)
(* known.                                                                  *)
LEMMA NearGrows ==
  ASSUME NEW K, NEW K1, K \subseteq K1, K1 \subseteq Ids, NEW R, NEW R1, NEW l \in Nat,
         \A n, m \in K : R[l][n] = R[l][m] => R1[l][n] = R1[l][m],
         \A n \in Ids \ K : Alone(R, n)
  PROVE  /\ \A n \in Ids : Near(K, R[l], n) \subseteq Near(K1, R1[l], n)
         /\ \A n \in K : Class(K, R[l], n) \subseteq Class(K1, R1[l], n)
<1>1. ASSUME NEW n \in Ids, NEW m \in Near(K, R[l], n) PROVE m \in Near(K1, R1[l], n)
  <2>1. m \in K /\ m \in Ids /\ m # n /\ R[l][m] = R[l][n]  BY DEF Near
  <2>2. n \in K  BY <2>1 DEF Alone
  <2>. QED  BY <2>1, <2>2 DEF Near
<1>. QED  BY <1>1 DEF Class

(* What a step of thread t has to show.                                    *)
LEMMA Recolour ==
  ASSUME IInv, NEW t \in Threads, Others(t), NEW R, NEW R1, Coloured(R),
         Known \subseteq Known', level' = level, entry' \in Known' \cup {NoId},
         \A l \in Nat : \A n, m \in Known : R[l][n] = R[l][m] => R1[l][n] = R1[l][m],
         \A n \in Ids \ Known' : Alone(R1, n),
         \A n \in Ids : \A l \in 0..level[n] :
           links'[n][l] = links[n][l] \/ links'[n][l] \in Seq(Near(Known', R1[l], n)),
         ColourOK(R1, t)'
  PROVE  Coloured(R1)'
<1>1. Known' \subseteq Ids  BY DEF Known
<1>2. \A l \in Nat : /\ \A n \in Ids : Near(Known, R[l], n) \subseteq Near(Known', R1[l], n)
                     /\ \A n \in Known : Class(Known, R[l], n) \subseteq Class(Known', R1[l], n)
  <2>1. \A n \in Ids \ Known : Alone(R, n)  BY DEF Coloured
  <2>. QED  BY <1>1, <2>1, NearGrows
<1>3. \A X, Y : \A s : X \subseteq Y /\ s \in Seq(X) => s \in Seq(Y)  BY SeqMono
<1>4. ASSUME NEW n \in Ids, NEW l \in 0..level[n]
      PROVE  links'[n][l] \in Seq(Near(Known', R1[l], n))
  <2>1. l \in Nat  BY Consts DEF IInv, Types
  <2>2. links[n][l] \in Seq(Near(Known, R[l], n))  BY DEF Coloured
  <2>3. Near(Known, R[l], n) \subseteq Near(Known', R1[l], n)  BY <1>2, <2>1
  <2>4. links[n][l] \in Seq(Near(Known', R1[l], n))  BY <1>3, <2>2, <2>3
  <2>. QED  BY <2>4
<1>5. ASSUME NEW u \in Threads, u # t PROVE ColourOK(R1, u)'
  <2>1. pc'[u] = pc[u] /\ loc'[u] = loc[u]  BY <1>5 DEF Others
  <2>2. ColourOK(R, u)  BY DEF Coloured
  <2>3. PICK l \in Nat : l = loc[u].l  BY DEF IInv, Types, Locals
  <2>4. loc[u].cur \in Known' \cup {NoId}  BY <2>2 DEF ColourOK
  <2>5. CASE pc[u] = "search"
    <3>1. loc[u].cur \in Known /\ loc[u].s \in Searches(Class(Known, R[l], loc[u].cur), Ids)
      BY <2>2, <2>3, <2>5 DEF ColourOK
    <3>2. Class(Known, R[l], loc[u].cur) \subseteq Class(Known', R1[l], loc[u].cur)
      BY <1>2, <3>1
    <3>3. loc[u].s \in Searches(Class(Known', R1[l], loc[u].cur), Ids)
      BY <3>1, <3>2 DEF Searches
    <3>. QED  BY <2>1, <2>3, <2>4, <2>5, <3>1, <3>3 DEF ColourOK
  <2>6. CASE pc[u] = "back"
    <3>1. Node(u) \in Ids  BY <2>6, HasNode DEF NoSlot
    <3>2. /\ loc[u].sel \in Seq(Near(Known, R[l], Node(u)))
          /\ loc[u].todo \in Seq(Near(Known, R[l], Node(u)))
      BY <2>2, <2>3, <2>6 DEF ColourOK
    <3>3. Near(Known, R[l], Node(u)) \subseteq Near(Known', R1[l], Node(u))  BY <1>2, <3>1
    <3>4. /\ loc[u].sel \in Seq(Near(Known', R1[l], Node(u)))
          /\ loc[u].todo \in Seq(Near(Known', R1[l], Node(u)))
      BY <1>3, <3>2, <3>3
    <3>. QED  BY <2>1, <2>3, <2>4, <2>6, <3>4 DEF ColourOK, Node
  <2>7. CASE pc[u] \notin {"search", "back"}  BY <2>1, <2>4, <2>7 DEF ColourOK
  <2>. QED  BY <2>5, <2>6, <2>7
<1>6. \A u \in Threads : ColourOK(R1, u)'  BY <1>5
<1>. QED  BY <1>4, <1>6 DEF Coloured

(* A step that draws no link and starts no search.                         *)
LEMMA QuietApart ==
  ASSUME IInv, Apart, NEW t \in Threads, Others(t), links' = links, level' = level,
         pc[t] \in Linking => pc'[t] \in Linking /\ loc'[t].id = loc[t].id,
         pc'[t] \notin {"search", "back"},
         entry' \in Known' \cup {NoId}, loc'[t].cur \in Known \cup {NoId}
  PROVE  Apart'
<1>1. PICK R \in Colourings, C \in Cuts : Forest(R, C, Pends, PLev, PSrc, PDst) /\ Coloured(R)
  BY DEF Apart
<1>2. Known \subseteq Known'  BY KnownGrows
<1>3. Pends' \subseteq Pends
      /\ \A u \in Pends' : PLev'[u] = PLev[u] /\ PSrc'[u] = PSrc[u] /\ PDst'[u] = PDst[u]
  <2>1. t \notin Pends' /\ \A u \in Pends' : u \in Threads  BY DEF Pends
  <2>. QED  BY <2>1, OthersEdges
<1>4. Forest(R, C, Pends', PLev', PSrc', PDst')  BY <1>1, <1>3, FewerEdges
<1>5. ColourOK(R, t)'  BY <1>2 DEF ColourOK
<1>6. \A n \in Ids \ Known' : Alone(R, n)  BY <1>1, <1>2 DEF Coloured
<1>7. Coloured(R)'  BY <1>1, <1>2, <1>5, <1>6, Recolour
<1>. QED  BY <1>4, <1>7 DEF Apart

(* Entry point, walks and lists name known nodes.                          *)
LEMMA ApartKnown ==
  ASSUME IInv, Apart
  PROVE  /\ entry \in Known \cup {NoId}
         /\ \A t \in Threads : loc[t].cur \in Known \cup {NoId}
         /\ \A l \in Nat : \A n \in At(l) : Range(Neighbours(n, l)) \subseteq Known
<1>1. PICK R \in Colourings, C \in Cuts : Forest(R, C, Pends, PLev, PSrc, PDst) /\ Coloured(R)
  BY DEF Apart
<1>2. ASSUME NEW l \in Nat, NEW n \in At(l) PROVE Range(Neighbours(n, l)) \subseteq Known
  <2>1. n \in Ids /\ l \in DOMAIN links[n] /\ DOMAIN links[n] = 0..level[n]
    BY NeighboursIn, AtFinite, LinksAsTheyAre
  <2>2. links[n][l] \in Seq(Near(Known, R[l], n))  BY <1>1, <2>1 DEF Coloured
  <2>3. Neighbours(n, l) = links[n][l]  BY <2>1 DEF Neighbours
  <2>4. Range(Neighbours(n, l)) \subseteq Near(Known, R[l], n)  BY <2>2, <2>3 DEF Range
  <2>. QED  BY <2>4 DEF Near
<1>3. entry \in Known \cup {NoId}  BY <1>1 DEF Coloured
<1>4. \A t \in Threads : loc[t].cur \in Known \cup {NoId}  BY <1>1 DEF Coloured, ColourOK
<1>. QED  BY <1>2, <1>3, <1>4

(* The steps before publication, and the probe.                            *)
LEMMA EarlyApart ==
  ASSUME IInv, Apart, NEW t \in Threads, CheckLabel(t) \/ Reserve(t) \/ GiveBack(t) \/ Probe(t)
  PROVE  Apart'
<1>1. loc \in [Threads -> Locals] /\ pc \in [Threads -> Stages]  BY DEF IInv, Types
<1>2. pc[t] \in {"start", "reserve", "giveback", "probe"}
  BY DEF CheckLabel, Reserve, GiveBack, Probe
<1>3. \E stage \in Stages \ {"search", "back"} : Goto(t, stage)
  BY DEF CheckLabel, Reserve, GiveBack, Probe, Stages
<1>4. /\ pc'[t] \notin {"search", "back"}
      /\ \A u \in Threads : u # t => pc'[u] = pc[u]
  BY <1>1, <1>3, GotoStage
<1>5. loc' = loc \/ loc' = [loc EXCEPT ![t].id = count]
  BY DEF CheckLabel, Reserve, GiveBack, Probe
<1>6. loc'[t].cur = loc[t].cur /\ \A u \in Threads : u # t => loc'[u] = loc[u]
  <2>1. PICK x : x = count  OBVIOUS
  <2>. QED  BY <1>1, <1>5, <2>1 DEF Locals
<1>7. Others(t)  BY <1>4, <1>6 DEF Others
<1>8. links' = links /\ level' = level /\ entry' = entry
  BY DEF CheckLabel, Reserve, GiveBack, Probe, graph, entryVars
<1>9. pc[t] \notin Linking  BY <1>2 DEF Linking
<1>10. Known \subseteq Known'  BY <1>7, <1>9, KnownGrows
<1>11. entry' \in Known' \cup {NoId} /\ loc'[t].cur \in Known \cup {NoId}
  BY <1>6, <1>8, <1>10, ApartKnown
<1>. QED  BY <1>4, <1>7, <1>8, <1>9, <1>11, QuietApart

(* The thread reads the entry point.                                       *)
LEMMA LockEntryApart ==
  ASSUME IInv, Apart, NEW t \in Threads, LockEntry(t)
  PROVE  Apart'
<1>1. loc \in [Threads -> Locals] /\ pc \in [Threads -> Stages]  BY DEF IInv, Types
<1>2. pc[t] \in {"wlock", "rlock"} /\ Goto(t, "locked")  BY DEF LockEntry
<1>3. /\ pc'[t] = "locked" /\ \A u \in Threads : u # t => pc'[u] = pc[u]
  BY <1>1, <1>2, GotoStage DEF Stages
<1>4. PICK x, y : x = maxLevel /\ y = entry  OBVIOUS
<1>5. loc' = [loc EXCEPT ![t].top = x, ![t].cur = y]  BY <1>4 DEF LockEntry
<1>6. loc'[t].cur = y /\ \A u \in Threads : u # t => loc'[u] = loc[u]
  BY <1>1, <1>5 DEF Locals
<1>7. Others(t)  BY <1>3, <1>6 DEF Others
<1>8. links' = links /\ level' = level /\ entry' = entry  BY DEF LockEntry, graph, entryVars
<1>9. pc[t] \notin Linking  BY <1>2 DEF Linking
<1>10. Known \subseteq Known'  BY <1>7, <1>9, KnownGrows
<1>11. entry' \in Known' \cup {NoId} /\ loc'[t].cur \in Known \cup {NoId}
  BY <1>4, <1>6, <1>8, <1>10, ApartKnown
<1>. QED  BY <1>3, <1>7, <1>8, <1>9, <1>11, QuietApart

(* A call that returns, the first or another: its node is known, and may   *)
(* be the entry point.                                                     *)
LEMMA LeaveApart ==
  ASSUME IInv, Apart, NEW t \in Threads, FirstNode(t) \/ Finish(t)
  PROVE  Apart'
<1>1. loc \in [Threads -> Locals] /\ pc \in [Threads -> Stages]  BY DEF IInv, Types
<1>2. pc[t] \in {"locked", "finish"} /\ Goto(t, "ok")  BY DEF FirstNode, Finish, Leave
<1>3. /\ pc'[t] = "ok" /\ \A u \in Threads : u # t => pc'[u] = pc[u]
  BY <1>1, <1>2, GotoStage DEF Stages
<1>4. loc' = loc \/ Forget(t)  BY DEF FirstNode, Finish
<1>5. /\ loc'[t].cur \in Known \cup {NoId} /\ loc'[t].id = loc[t].id
      /\ \A u \in Threads : u # t => loc'[u] = loc[u]
  <2>1. CASE loc' = loc  BY <2>1, ApartKnown
  <2>2. CASE Forget(t)
    <3>1. SameIds /\ \A u \in Threads : u # t => loc'[u] = loc[u]  BY <1>1, <2>2, LocForget
    <3>2. PICK x : x = loc[t].id  OBVIOUS
    <3>3. loc' = [loc EXCEPT ![t] = [NoLocals EXCEPT !.id = x]]  BY <2>2, <3>2 DEF Forget
    <3>4. loc'[t] = [NoLocals EXCEPT !.id = x]  BY <1>1, <3>3
    <3>5. loc'[t].cur = NoId  BY <3>4 DEF NoLocals
    <3>. QED  BY <3>1, <3>5 DEF SameIds
  <2>. QED  BY <1>4, <2>1, <2>2
<1>6. Others(t)  BY <1>3, <1>5 DEF Others
<1>7. links' = links /\ level' = level  BY DEF FirstNode, Finish, graph
<1>8. pc'[t] \in Linking  BY <1>3 DEF Linking
<1>9. Known \subseteq Known'  BY <1>5, <1>6, <1>8, KnownGrows
<1>10. Node(t) \in Known'
  <2>1. Node(t) \in Ids  BY <1>2, HasNode DEF NoSlot
  <2>2. Node(t)' = Node(t)  BY <1>5 DEF Node
  <2>. QED  BY <1>8, <2>1, <2>2 DEF Known
<1>11. entry' = entry \/ entry' = Node(t)  BY DEF FirstNode, Finish, entryVars
<1>12. entry' \in Known' \cup {NoId}  BY <1>9, <1>10, <1>11, ApartKnown
<1>. QED  BY <1>3, <1>5, <1>6, <1>7, <1>8, <1>12, QuietApart

(* Publication writes only to a node that no list and no walk mentions.    *)
LEMMA PublishApart ==
  ASSUME IInv, Apart, NEW t \in Threads, Publish(t)
  PROVE  Apart'
<1>0. pc[t] = "publish" /\ loc' = loc /\ entry' = entry  BY DEF Publish, entryVars
<1>1. Node(t) \in Ids  BY <1>0, HasNode DEF NoSlot
<1>2. /\ pc'[t] = "probe" /\ \A u \in Threads : u # t => pc'[u] = pc[u]
  BY GotoStage DEF IInv, Types, Stages, Publish
<1>3. Others(t)  BY <1>0, <1>2 DEF Others
<1>4. PICK lv \in Levels : /\ level' = [level EXCEPT ![Node(t)] = lv]
                           /\ links' = [links EXCEPT ![Node(t)] = [l \in 0..lv |-> << >>]]
  BY DEF Publish
<1>5. /\ level'[Node(t)] = lv /\ \A n \in Ids : n # Node(t) => level'[n] = level[n] /\ links'[n] = links[n]
      /\ \A l \in 0..lv : links'[Node(t)][l] = << >>
  <2>1. PICK id \in Ids : id = Node(t)  BY <1>1
  <2>2. level \in [Ids -> Levels] /\ links = [n \in Ids |-> links[n]]  BY DEF IInv, Types
  <2>3. /\ level' = [level EXCEPT ![id] = lv]
        /\ links' = [links EXCEPT ![id] = [l \in 0..lv |-> << >>]]
    BY <1>4, <2>1
  <2>4. /\ level'[id] = lv /\ \A n \in Ids : n # id => level'[n] = level[n] /\ links'[n] = links[n]
        /\ links'[id] = [l \in 0..lv |-> << >>]
    BY <2>2, <2>3
  <2>. QED  BY <2>1, <2>4
<1>6. PICK R \in Colourings, C \in Cuts : Forest(R, C, Pends, PLev, PSrc, PDst) /\ Coloured(R)
  BY DEF Apart
<1>7. Known' = Known  BY <1>0, <1>2 DEF Known, Linking, Node
<1>8. Pends' \subseteq Pends
      /\ \A u \in Pends' : PLev'[u] = PLev[u] /\ PSrc'[u] = PSrc[u] /\ PDst'[u] = PDst[u]
  <2>1. t \notin Pends' /\ \A u \in Pends' : u \in Threads  BY <1>2 DEF Pends
  <2>. QED  BY <1>3, <2>1, OthersEdges
<1>9. Forest(R, C, Pends', PLev', PSrc', PDst')  BY <1>6, <1>8, FewerEdges
<1>10. ASSUME NEW u \in Threads PROVE ColourOK(R, u)'
  <2>1. ColourOK(R, u)  BY <1>6 DEF Coloured
  <2>2. CASE u = t  BY <1>0, <1>2, <1>7, <2>1, <2>2 DEF ColourOK
  <2>3. CASE u # t
    <3>1. pc'[u] = pc[u] /\ loc'[u] = loc[u]  BY <1>3, <2>3 DEF Others
    <3>. QED  BY <1>7, <2>1, <3>1 DEF ColourOK, Node
  <2>. QED  BY <2>2, <2>3
<1>11. ASSUME NEW n \in Ids, NEW l \in 0..level'[n]
       PROVE  links'[n][l] \in Seq(Near(Known', R[l], n))
  <2>1. CASE n = Node(t)
    <3>1. links'[n][l] = << >>  BY <1>5, <2>1
    <3>2. \A X : << >> \in Seq(X)  OBVIOUS
    <3>. QED  BY <3>1, <3>2, Zenon
  <2>2. CASE n # Node(t)
    <3>1. l \in 0..level[n] /\ links'[n] = links[n]  BY <1>5, <2>2
    <3>2. links[n][l] \in Seq(Near(Known, R[l], n))  BY <1>6, <3>1 DEF Coloured
    <3>. QED  BY <1>7, <3>1, <3>2
  <2>. QED  BY <2>1, <2>2
<1>12. entry' \in Known' \cup {NoId} /\ \A n \in Ids \ Known' : Alone(R, n)
  BY <1>0, <1>6, <1>7 DEF Coloured
<1>13. Coloured(R)'  BY <1>10, <1>11, <1>12 DEF Coloured
<1>. QED  BY <1>9, <1>13 DEF Apart

(* What SearchFrom writes.                                                 *)
LEMMA SearchFromLocals ==
  ASSUME IInv, NEW t \in Threads, NEW l \in Nat, NEW n \in Ids, SearchFrom(t, l, n)
  PROVE  /\ pc'[t] = "search" /\ Others(t) /\ loc'[t].id = loc[t].id
         /\ loc'[t].l = l /\ loc'[t].cur = n
         /\ loc'[t].s = [front |-> {n}, found |-> {n}, seen |-> {n}]
<1>1. /\ pc'[t] = "search" /\ \A u \in Threads : u # t => pc'[u] = pc[u]
  BY GotoStage DEF IInv, Types, Stages, SearchFrom
<1>2. PICK s : s = StartSearch(n, {})  OBVIOUS
<1>3. s = [front |-> {n}, found |-> {n}, seen |-> {n}]  BY <1>2 DEF StartSearch
<1>4. loc \in [Threads -> Locals]  BY DEF IInv, Types
<1>5. loc' = [loc EXCEPT ![t].l = l, ![t].cur = n, ![t].s = s]  BY <1>2 DEF SearchFrom
<1>6. /\ \A u \in Threads : u # t => loc'[u] = loc[u]
      /\ loc'[t].id = loc[t].id /\ loc'[t].l = l /\ loc'[t].cur = n /\ loc'[t].s = s
  BY <1>4, <1>5 DEF Locals
<1>. QED  BY <1>1, <1>3, <1>6 DEF Others

(* A search that has just begun is in the colour of its start.             *)
LEMMA StartInClass ==
  ASSUME NEW K \in SUBSET Ids, NEW f, NEW n \in K
  PROVE  [front |-> {n}, found |-> {n}, seen |-> {n}] \in Searches(Class(K, f, n), Ids)
BY DEF Searches, Class

(* A thread whose node nobody knows begins its first search.               *)
LEMMA JoinApart ==
  ASSUME IInv, Apart, NEW t \in Threads, pc[t] \in {"locked", "descend"},
         NEW l \in Nat, NEW w \in Known, SearchFrom(t, l, w),
         links' = links, level' = level, entry' = entry
  PROVE  Apart'
<1>1. w \in Ids  BY DEF Known
<1>2. /\ pc'[t] = "search" /\ Others(t) /\ loc'[t].id = loc[t].id
      /\ loc'[t].l = l /\ loc'[t].cur = w
      /\ loc'[t].s = [front |-> {w}, found |-> {w}, seen |-> {w}]
  BY <1>1, SearchFromLocals
<1>3. PICK u \in Ids : u = Node(t)  BY HasNode DEF NoSlot
<1>4. pc[t] \notin Linking /\ t \notin Pends  BY DEF Linking, Pends
<1>5. u \notin Known
  <2>1. \A s \in Threads : s # t => Node(s) # u
    BY <1>3, Consts DEF IInv, Slots
  <2>. QED  BY <1>4, <2>1 DEF Known
<1>6. u # w  BY <1>5
<1>7. PICK R \in Colourings, C \in Cuts : Forest(R, C, Pends, PLev, PSrc, PDst) /\ Coloured(R)
  BY DEF Apart
<1>8. /\ Edges(Pends, PLev, PSrc, PDst)
      /\ \A s \in Pends : PSrc[s] # u /\ PDst[s] # u
  BY <1>5, <1>7, EdgesKnown
<1>9. Alone(R, u)  BY <1>5, <1>7 DEF Coloured
<1>10. Node(t)' = u  BY <1>2, <1>3 DEF Node
<1>11. Pends' = Pends \cup {t}
  <2>1. t \in Pends'  BY <1>2 DEF Pends
  <2>2. \A s : s \in Pends \/ s \in Pends' => s \in Threads  BY DEF Pends
  <2>. QED  BY <1>2, <2>1, <2>2, OthersEdges
<1>12. PLev'[t] = l /\ PSrc'[t] = u /\ PDst'[t] = w  BY <1>2, <1>10 DEF PLev, PSrc, PDst
<1>13. \A s \in Pends : PLev'[s] = PLev[s] /\ PSrc'[s] = PSrc[s] /\ PDst'[s] = PDst[s]
  <2>1. \A s \in Pends : s \in Threads /\ s # t  BY <1>4 DEF Pends
  <2>. QED  BY <1>2, <2>1, OthersEdges
<1>a. Joins(Pends, PLev, PSrc, PDst, Pends', PLev', PSrc', PDst', t, u, w, l)
  BY <1>4, <1>6, <1>8, <1>11, <1>12, <1>13 DEF Joins
<1>b. PICK R1 \in Colourings, C1 \in Cuts :
        Forest(R1, C1, Pends', PLev', PSrc', PDst') /\ Follows(R, R1, u, w, l)
  BY <1>1, <1>7, <1>8, <1>9, <1>a, NewEdge, Zenon
<1>14. /\ \A k \in Nat : \A n \in Ids : n # u => R1[k][n] = R[k][n]
       /\ \A k \in Nat : R1[k][u] \in {R[k][u], R[k][w]}
  BY <1>b DEF Follows
<1>15. Known \subseteq Known' /\ Known' \subseteq Ids /\ u \in Known'
  <2>1. Known \subseteq Known'  BY <1>2, <1>4, KnownGrows
  <2>2. pc'[t] \in Linking  BY <1>2 DEF Linking
  <2>. QED  BY <1>10, <2>1, <2>2 DEF Known
<1>16. \A k \in Nat : \A n, m \in Known : R[k][n] = R[k][m] => R1[k][n] = R1[k][m]
  BY <1>5, <1>14 DEF Known
<1>17. ASSUME NEW n \in Ids \ Known', NEW k \in Nat, NEW m \in Ids, m # n
       PROVE  R1[k][m] # R1[k][n]
  <2>1. n # u /\ n # w /\ n \notin Known  BY <1>15
  <2>2. \A x \in Ids : x # n => R[k][x] # R[k][n]  BY <1>7, <2>1 DEF Coloured, Alone
  <2>3. R1[k][n] = R[k][n]  BY <1>14, <2>1
  <2>4. CASE m = u  BY <1>1, <1>14, <2>1, <2>2, <2>3, <2>4
  <2>5. CASE m # u  BY <1>14, <1>17, <2>2, <2>3, <2>5
  <2>. QED  BY <2>4, <2>5
<1>18. \A n \in Ids \ Known' : Alone(R1, n)  BY <1>17 DEF Alone
<1>19. ColourOK(R1, t)'
  <2>1. loc'[t].s \in Searches(Class(Known', R1[l], w), Ids)
    BY <1>2, <1>15, StartInClass
  <2>. QED  BY <1>2, <1>15, <2>1 DEF ColourOK
<1>20. entry' \in Known' \cup {NoId}  BY <1>15, ApartKnown
<1>21. Coloured(R1)'  BY <1>2, <1>7, <1>15, <1>16, <1>18, <1>19, <1>20, Recolour
<1>. QED  BY <1>b, <1>21 DEF Apart

(* The walk begins.                                                        *)
LEMMA StartWalkApart ==
  ASSUME IInv, Apart, NEW t \in Threads, StartWalk(t)
  PROVE  Apart'
<1>0. pc[t] = "locked" /\ loc[t].cur # NoId  BY DEF StartWalk
<1>1. pc[t] \in Holding /\ pc[t] \notin NoSlot /\ pc[t] \notin Linking
  BY <1>0 DEF Holding, NoSlot, Linking
<1>2. links' = links /\ level' = level /\ entry' = entry  BY DEF StartWalk, graph, entryVars
<1>3. loc[t].cur \in Known  BY <1>0, ApartKnown
<1>4. Lev(t) \in Nat /\ maxLevel \in Nat /\ loc[t].top = maxLevel
  BY <1>1, HasNode DEF IInv, Entries, EntryOK
<1>5. CASE Lev(t) < loc[t].top
  <2>1. /\ pc'[t] = "descend" /\ \A u \in Threads : u # t => pc'[u] = pc[u]
    BY <1>5, GotoStage DEF IInv, Types, Stages, StartWalk
  <2>2. PICK x \in Nat : x = maxLevel  BY <1>4
  <2>3. loc' = [loc EXCEPT ![t].l = x]  BY <1>4, <1>5, <2>2 DEF StartWalk
  <2>4. loc'[t].cur = loc[t].cur /\ \A u \in Threads : u # t => loc'[u] = loc[u]
    BY <2>3, LocLevel DEF IInv, Types
  <2>5. Others(t)  BY <2>1, <2>4 DEF Others
  <2>6. entry' \in Known' \cup {NoId}  BY <1>1, <1>2, <2>5, KnownGrows, ApartKnown
  <2>. QED  BY <1>1, <1>2, <1>3, <2>1, <2>4, <2>5, <2>6, QuietApart
<1>6. CASE ~ (Lev(t) < loc[t].top)
  <2>1. TopLayer(t) \in Nat  BY <1>4 DEF TopLayer
  <2>2. SearchFrom(t, TopLayer(t), loc[t].cur)  BY <1>6 DEF StartWalk
  <2>. QED  BY <1>0, <1>2, <1>3, <2>1, <2>2, JoinApart
<1>. QED  BY <1>5, <1>6

(* greedyDescend moves among known nodes.                                  *)
LEMMA DescendApart ==
  ASSUME IInv, Apart, NEW t \in Threads, Descend(t)
  PROVE  Apart'
<1>0. pc[t] = "descend"  BY DEF Descend
<1>1. pc[t] \notin NoSlot /\ pc[t] \notin Linking  BY <1>0 DEF NoSlot, Linking
<1>2. links' = links /\ level' = level /\ entry' = entry  BY DEF Descend, graph, entryVars
<1>3. Lev(t) \in Nat  BY <1>1, HasNode
<1>4. PICK l \in Nat : l = loc[t].l  BY DEF IInv, Types, Locals
<1>5. PICK cur \in At(l) : cur = loc[t].cur  BY <1>0, <1>4 DEF IInv, Walks, WalkOK
<1>6. cur \in Known /\ Range(Neighbours(cur, l)) \subseteq Known
  BY <1>5, ApartKnown, AtFinite, Consts
<1>7. \/ \E n \in Closer(Q(t), cur, l) : loc' = [loc EXCEPT ![t].cur = n] /\ UNCHANGED pc
      \/ l > Lev(t) + 1 /\ loc' = [loc EXCEPT ![t].l = l - 1] /\ UNCHANGED pc
      \/ l = Lev(t) + 1 /\ SearchFrom(t, Lev(t), cur)
  BY <1>4, <1>5 DEF Descend
<1>8. loc \in [Threads -> Locals]  BY DEF IInv, Types
<1>9. ASSUME UNCHANGED pc, loc'[t].cur \in Known, \A u \in Threads : u # t => loc'[u] = loc[u]
      PROVE  Apart'
  <2>1. Others(t)  BY <1>9 DEF Others
  <2>2. entry' \in Known' \cup {NoId}  BY <1>1, <1>2, <2>1, KnownGrows, ApartKnown
  <2>. QED  BY <1>0, <1>1, <1>2, <1>9, <2>1, <2>2, QuietApart
<1>10. CASE \E n \in Closer(Q(t), cur, l) : loc' = [loc EXCEPT ![t].cur = n] /\ UNCHANGED pc
  <2>1. PICK n \in Closer(Q(t), cur, l) : loc' = [loc EXCEPT ![t].cur = n] /\ UNCHANGED pc
    BY <1>10
  <2>2. n \in Known  BY <1>6 DEF Closer, Nearest
  <2>3. loc'[t].cur = n /\ \A u \in Threads : u # t => loc'[u] = loc[u]
    BY <1>8, <2>1 DEF Locals
  <2>. QED  BY <1>9, <2>1, <2>2, <2>3
<1>11. CASE l > Lev(t) + 1 /\ loc' = [loc EXCEPT ![t].l = l - 1] /\ UNCHANGED pc
  <2>1. PICK k : k = l - 1  OBVIOUS
  <2>2. loc'[t].cur = loc[t].cur /\ \A u \in Threads : u # t => loc'[u] = loc[u]
    BY <1>8, <1>11, <2>1 DEF Locals
  <2>. QED  BY <1>5, <1>6, <1>9, <1>11, <2>2
<1>12. CASE l = Lev(t) + 1 /\ SearchFrom(t, Lev(t), cur)
  BY <1>0, <1>2, <1>3, <1>6, <1>12, JoinApart
<1>. QED  BY <1>7, <1>10, <1>11, <1>12

(* A step that keeps the colours: every pending edge was one before, and   *)
(* the thread that moves, and the list it writes, stay within the colours. *)
LEMMA SameColours ==
  ASSUME IInv, NEW t \in Threads, Others(t), NEW R \in Colourings, NEW C \in Cuts,
         Forest(R, C, Pends, PLev, PSrc, PDst), Coloured(R),
         pc'[t] \in Linking, loc'[t].id = loc[t].id, level' = level, entry' = entry,
         t \in Pends' => t \in Pends /\ PLev'[t] = PLev[t] /\ PDst'[t] = PDst[t],
         \A n \in Ids : \A l \in 0..level[n] :
           links'[n][l] = links[n][l] \/ links'[n][l] \in Seq(Near(Known, R[l], n)),
         Known \subseteq Known' => ColourOK(R, t)'
  PROVE  Apart'
<1>1. Known \subseteq Known'  BY KnownGrows
<1>2. ASSUME NEW u \in Pends'
      PROVE  u \in Pends /\ PLev'[u] = PLev[u] /\ PSrc'[u] = PSrc[u] /\ PDst'[u] = PDst[u]
  <2>1. CASE u = t  BY <2>1 DEF PSrc, Node
  <2>2. CASE u # t
    <3>1. u \in Threads  BY DEF Pends
    <3>. QED  BY <2>2, <3>1, OthersEdges
  <2>. QED  BY <2>1, <2>2
<1>3. Forest(R, C, Pends', PLev', PSrc', PDst')  BY <1>2, FewerEdges
<1>4. \A n \in Ids \ Known' : Alone(R, n)  BY <1>1 DEF Coloured
<1>5. entry' \in Known' \cup {NoId}  BY <1>1 DEF Coloured
<1>6. \A n \in Ids : \A l \in 0..level[n] :
        links'[n][l] = links[n][l] \/ links'[n][l] \in Seq(Near(Known', R[l], n))
  <2>1. \A f, n : Near(Known, f, n) \subseteq Near(Known', f, n)  BY <1>1 DEF Near
  <2>2. \A X, Y : \A s : X \subseteq Y /\ s \in Seq(X) => s \in Seq(Y)  BY SeqMono
  <2>. QED  BY <2>1, <2>2, Zenon
<1>7. Coloured(R)'  BY <1>1, <1>4, <1>5, <1>6, Recolour
<1>. QED  BY <1>3, <1>7 DEF Apart

(* searchLayer stays in the colour of its start.                           *)
LEMMA VisitApart ==
  ASSUME IInv, Apart, NEW t \in Threads, Visit(t)
  PROVE  Apart'
<1>0. pc[t] = "search" /\ UNCHANGED pc  BY DEF Visit
<1>1. links' = links /\ level' = level /\ entry' = entry  BY DEF Visit, graph, entryVars
<1>2. PICK R \in Colourings, C \in Cuts : Forest(R, C, Pends, PLev, PSrc, PDst) /\ Coloured(R)
  BY DEF Apart
<1>3. PICK l \in Nat : l = loc[t].l  BY DEF IInv, Types, Locals
<1>4. PICK cur : cur = loc[t].cur  OBVIOUS
<1>5. PICK X : X = Class(Known, R[l], cur)  OBVIOUS
<1>6. cur \in Known /\ loc[t].s \in Searches(X, Ids)
  BY <1>0, <1>2, <1>3, <1>4, <1>5 DEF Coloured, ColourOK
<1>7. X \subseteq Ids /\ IsFiniteSet(X)
  <2>1. X \in SUBSET Ids  BY <1>5 DEF Class, Known
  <2>. QED  BY <2>1, Consts, FS_Subset
<1>8. loc[t].s \in Searches(At(l), Ids) /\ loc[t].s.found # {}
  BY <1>0, <1>3 DEF IInv, Walks, WalkOK
<1>9. loc \in [Threads -> Locals]  BY DEF IInv, Types
<1>10. PICK n \in Nearest(data, Q(t), loc[t].s.front) :
         loc' = [loc EXCEPT ![t].s = Expand(data, Q(t), loc[t].s, n, Neighbours(n, l))]
  BY <1>3, <1>9 DEF Visit
<1>11. n \in At(l) /\ n \in X /\ n \in Ids  BY <1>6, <1>7, <1>8 DEF Nearest, Searches
<1>12. Neighbours(n, l) \in Seq(X)
  <2>1. l \in DOMAIN links[n] /\ DOMAIN links[n] = 0..level[n]
    BY <1>11, NeighboursIn, LinksAsTheyAre
  <2>2. Neighbours(n, l) = links[n][l]  BY <2>1 DEF Neighbours
  <2>3. links[n][l] \in Seq(Near(Known, R[l], n))  BY <1>2, <1>11, <2>1 DEF Coloured
  <2>4. Near(Known, R[l], n) \subseteq X  BY <1>5, <1>11 DEF Near, Class
  <2>. QED  BY <2>2, <2>3, <2>4, SeqMono
<1>13. PICK s : s = Expand(data, Q(t), loc[t].s, n, Neighbours(n, l))  OBVIOUS
<1>14. s \in Searches(X, Ids)  BY <1>6, <1>7, <1>8, <1>12, <1>13, ExpandBounds
<1>15. s \in Searches(Ids, Ids)  BY <1>7, <1>14 DEF Searches
<1>16. /\ \A u \in Threads : u # t => loc'[u] = loc[u]
       /\ loc'[t].id = loc[t].id /\ loc'[t].l = l /\ loc'[t].cur = cur /\ loc'[t].s = s
  BY <1>3, <1>4, <1>9, <1>10, <1>13, <1>15, LocS
<1>17. Others(t)  BY <1>0, <1>16 DEF Others
<1>18. pc'[t] \in Linking  BY <1>0 DEF Linking
<1>19. t \in Pends /\ PLev'[t] = PLev[t] /\ PDst'[t] = PDst[t]
  BY <1>0, <1>3, <1>4, <1>16 DEF Pends, PLev, PDst
<1>20. ASSUME Known \subseteq Known' PROVE ColourOK(R, t)'
  <2>1. X \subseteq Class(Known', R[l], cur)  BY <1>5, <1>20 DEF Class
  <2>2. s \in Searches(Class(Known', R[l], cur), Ids)  BY <1>14, <2>1 DEF Searches
  <2>. QED  BY <1>0, <1>6, <1>16, <1>20, <2>2 DEF ColourOK
<1>. QED  BY <1>1, <1>2, <1>16, <1>17, <1>18, <1>19, <1>20, SameColours

(* One list is written.                                                    *)
LEMMA OneList ==
  ASSUME IInv, NEW n \in Ids, NEW l \in 0..level[n], NEW ns,
         links' = [links EXCEPT ![n][l] = ns]
  PROVE  \A m \in Ids : \A k \in 0..level[m] :
           links'[m][k] = links[m][k] \/ (m = n /\ k = l /\ links'[m][k] = ns)
<1>1. links = [m \in Ids |-> links[m]] /\ links[n] \in [0..level[n] -> Seq(Ids)]
  BY LinksAsTheyAre
<1>2. /\ \A m \in Ids : m # n => links'[m] = links[m]
      /\ links'[n] = [links[n] EXCEPT ![l] = ns]
  BY <1>1
<1>3. links'[n][l] = ns /\ \A k \in 0..level[n] : k # l => links'[n][k] = links[n][k]
  BY <1>1, <1>2
<1>. QED  BY <1>2, <1>3

(* A back-link joins two nodes of one colour.                              *)
LEMMA BackLinkApart ==
  ASSUME IInv, Apart, NEW t \in Threads, BackLink(t)
  PROVE  Apart'
<1>0. pc[t] = "back" /\ pc' = pc /\ loc[t].todo # << >>  BY DEF BackLink
<1>1. level' = level /\ entry' = entry  BY DEF BackLink, entryVars
<1>2. PICK R \in Colourings, C \in Cuts : Forest(R, C, Pends, PLev, PSrc, PDst) /\ Coloured(R)
  BY DEF Apart
<1>3. PICK l \in Nat : l = loc[t].l  BY DEF IInv, Types, Locals
<1>4. PICK u \in Ids : u = Node(t)  BY <1>0, HasNode DEF NoSlot
<1>5. u \in Known  BY <1>0, <1>4 DEF Known, Linking
<1>6. loc[t].sel \in Seq(Near(Known, R[l], u)) /\ loc[t].todo \in Seq(Near(Known, R[l], u))
  BY <1>0, <1>2, <1>3, <1>4 DEF Coloured, ColourOK
<1>7. loc[t].todo \in Seq(At(l))  BY <1>0, <1>3 DEF IInv, Walks, WalkOK
<1>8. PICK n : n = Head(loc[t].todo)  OBVIOUS
<1>9. n \in At(l) /\ n \in Ids /\ n \in Near(Known, R[l], u)
  BY <1>0, <1>6, <1>7, <1>8, AtFinite
<1>10. PICK X : X = Near(Known, R[l], n)  OBVIOUS
<1>11. X \in SUBSET Ids /\ u \in X  BY <1>4, <1>5, <1>9, <1>10 DEF Near, Known
<1>12. l \in DOMAIN links[n] /\ DOMAIN links[n] = 0..level[n] /\ links[n][l] \in Seq(X)
  <2>1. l \in DOMAIN links[n] /\ DOMAIN links[n] = 0..level[n]
    BY <1>9, NeighboursIn, LinksAsTheyAre
  <2>. QED  BY <1>2, <1>9, <1>10, <2>1 DEF Coloured
<1>13. PICK ns : ns = WithBackLink(data, l, n, links[n][l], u)  OBVIOUS
<1>14. ns \in Seq(X)
  <2>1. data \in [Ids -> Int] /\ Ids \in SUBSET Int  BY Consts DEF IInv, Types
  <2>. QED  BY <1>9, <1>11, <1>12, <1>13, <2>1, WithBackLinkBounds
<1>15. links' = [links EXCEPT ![n][l] = ns]
  <2>1. links = [m \in Ids |-> links[m]]  BY LinksAsTheyAre
  <2>2. links' = [links EXCEPT ![n][l] = WithBackLink(data, l, n, @, u)]
    BY <1>3, <1>4, <1>8 DEF BackLink
  <2>. QED  BY <1>9, <1>12, <1>13, <2>1, <2>2
<1>16. PICK todo : todo = Tail(loc[t].todo)  OBVIOUS
<1>17. todo \in Seq(Near(Known, R[l], u)) /\ todo \in Seq(Ids)
  <2>1. todo \in Seq(Near(Known, R[l], u))
    <3>1. \A Y : \A s \in Seq(Y) : s # << >> => Tail(s) \in Seq(Y)  OBVIOUS
    <3>. QED  BY <1>0, <1>6, <1>16, <3>1, Zenon
  <2>2. Near(Known, R[l], u) \subseteq Ids  BY DEF Near, Known
  <2>. QED  BY <2>1, <2>2, SeqMono
<1>18. loc \in [Threads -> Locals]  BY DEF IInv, Types
<1>19. loc' = [loc EXCEPT ![t].todo = todo]  BY <1>16, <1>18 DEF BackLink
<1>20. /\ \A v \in Threads : v # t => loc'[v] = loc[v]
       /\ loc'[t].id = loc[t].id /\ loc'[t].cur = loc[t].cur
       /\ loc'[t].l = l /\ loc'[t].sel = loc[t].sel /\ loc'[t].todo = todo
  BY <1>3, <1>17, <1>18, <1>19 DEF Locals
<1>21. Others(t)  BY <1>0, <1>20 DEF Others
<1>22. pc'[t] \in Linking  BY <1>0 DEF Linking
<1>23. t \in Pends' => t \in Pends /\ PLev'[t] = PLev[t] /\ PDst'[t] = PDst[t]
  BY <1>0, <1>3, <1>20 DEF Pends, PLev, PDst
<1>24. ASSUME NEW m \in Ids, NEW k \in 0..level[m]
       PROVE  links'[m][k] = links[m][k] \/ links'[m][k] \in Seq(Near(Known, R[k], m))
  BY <1>9, <1>10, <1>12, <1>14, <1>15, OneList
<1>25. ASSUME Known \subseteq Known' PROVE ColourOK(R, t)'
  <2>1. Near(Known, R[l], u) \subseteq Near(Known', R[l], u)  BY <1>25 DEF Near
  <2>2. /\ loc[t].sel \in Seq(Near(Known', R[l], u))
        /\ todo \in Seq(Near(Known', R[l], u))
    <3>1. \A X1, Y1 : \A s : X1 \subseteq Y1 /\ s \in Seq(X1) => s \in Seq(Y1)  BY SeqMono
    <3>. QED  BY <1>6, <1>17, <2>1, <3>1, Zenon
  <2>3. loc[t].cur \in Known' \cup {NoId}  BY <1>2, <1>25 DEF Coloured, ColourOK
  <2>4. Node(t)' = u  BY <1>4, <1>20 DEF Node
  <2>. QED  BY <1>0, <1>20, <2>2, <2>3, <2>4 DEF ColourOK
<1>. QED  BY <1>1, <1>2, <1>20, <1>21, <1>22, <1>23, <1>24, <1>25, SameColours

(* The search on the next level starts where the pending edge ends.        *)
LEMMA NextLayerApart ==
  ASSUME IInv, Apart, NEW t \in Threads, NextLayer(t)
  PROVE  Apart'
<1>0. pc[t] = "back"  BY DEF NextLayer
<1>1. links' = links /\ level' = level /\ entry' = entry  BY DEF NextLayer, graph, entryVars
<1>2. PICK R \in Colourings, C \in Cuts : Forest(R, C, Pends, PLev, PSrc, PDst) /\ Coloured(R)
  BY DEF Apart
<1>3. PICK l \in Nat : l = loc[t].l  BY DEF IInv, Types, Locals
<1>4. CASE l = 0
  <2>1. /\ pc'[t] = "finish" /\ loc' = loc /\ \A u \in Threads : u # t => pc'[u] = pc[u]
    BY <1>3, <1>4, GotoStage DEF IInv, Types, Stages, NextLayer
  <2>2. Others(t)  BY <2>1 DEF Others
  <2>3. pc'[t] \in Linking /\ t \notin Pends'  BY <2>1 DEF Linking, Pends
  <2>4. Known \subseteq Known' => ColourOK(R, t)'
    BY <1>2, <2>1 DEF Coloured, ColourOK
  <2>. QED  BY <1>1, <1>2, <2>1, <2>2, <2>3, <2>4, SameColours
<1>5. CASE l # 0
  <2>1. PICK k \in Nat : k = l - 1  BY <1>5
  <2>2. PICK n : n = Head(loc[t].sel)  OBVIOUS
  <2>3. n \in Known /\ n \in Ids
    <3>1. loc[t].sel \in Seq(Near(Known, R[l], Node(t)))
      BY <1>0, <1>2, <1>3 DEF Coloured, ColourOK
    <3>2. loc[t].sel # << >>  BY <1>0 DEF IInv, Walks, WalkOK
    <3>3. n \in Near(Known, R[l], Node(t))  BY <2>2, <3>1, <3>2
    <3>. QED  BY <3>3 DEF Near, Known
  <2>4. SearchFrom(t, k, n)  BY <1>3, <1>5, <2>1, <2>2 DEF NextLayer
  <2>5. /\ pc'[t] = "search" /\ Others(t) /\ loc'[t].id = loc[t].id
        /\ loc'[t].l = k /\ loc'[t].cur = n
        /\ loc'[t].s = [front |-> {n}, found |-> {n}, seen |-> {n}]
    BY <2>3, <2>4, SearchFromLocals
  <2>6. pc'[t] \in Linking  BY <2>5 DEF Linking
  <2>7. t \in Pends /\ PLev'[t] = PLev[t] /\ PDst'[t] = PDst[t]
    BY <1>0, <1>3, <1>5, <2>1, <2>2, <2>5 DEF Pends, PLev, PDst
  <2>8. ASSUME Known \subseteq Known' PROVE ColourOK(R, t)'
    <3>1. n \in Known' /\ Known' \in SUBSET Ids  BY <2>3, <2>8 DEF Known
    <3>2. loc'[t].s \in Searches(Class(Known', R[k], n), Ids)  BY <2>5, <3>1, StartInClass
    <3>. QED  BY <2>5, <3>1, <3>2 DEF ColourOK
  <2>. QED  BY <1>1, <1>2, <2>5, <2>6, <2>7, <2>8, SameColours
<1>. QED  BY <1>4, <1>5

(* connectNewElement draws the pending edge: the new node's neighbours are *)
(* in the colour of its search, from which the cut keeps the node itself;  *)
(* from now on both are one colour.                                        *)
LEMMA SetOwnLinksApart ==
  ASSUME IInv, Apart, NEW t \in Threads, SetOwnLinks(t)
  PROVE  Apart'
<1>0. pc[t] = "search"  BY DEF SetOwnLinks
<1>1. level' = level /\ entry' = entry  BY DEF SetOwnLinks, entryVars
<1>2. PICK R \in Colourings, C \in Cuts : Forest(R, C, Pends, PLev, PSrc, PDst) /\ Coloured(R)
  BY DEF Apart
<1>3. PICK l \in Nat : l = loc[t].l  BY DEF IInv, Types, Locals
<1>4. PICK cur : cur = loc[t].cur  OBVIOUS
<1>5. PICK u \in Ids : u = Node(t)  BY <1>0, HasNode DEF NoSlot
<1>6. u \in Known  BY <1>0, <1>5 DEF Known, Linking
<1>7. PICK X : X = Class(Known, R[l], cur)  OBVIOUS
<1>8. cur \in Known /\ cur \in Ids /\ loc[t].s \in Searches(X, Ids)
  BY <1>0, <1>2, <1>3, <1>4, <1>7 DEF Coloured, ColourOK, Known
<1>9. X \in SUBSET Ids  BY <1>7 DEF Class, Known
<1>10. l <= Lev(t) /\ loc[t].s.found # {}  BY <1>0, <1>3 DEF IInv, Walks, WalkOK
<1>11. l \in 0..level[u]
  <2>1. Lev(t) = level[u] /\ Lev(t) \in Nat  BY <1>0, <1>5, HasNode DEF Lev, NoSlot
  <2>. QED  BY <1>10, <2>1
\* What is chosen, and written.
<1>12. PICK sel : sel = SelectNeighbors(data, Q(t), SetToSeq(loc[t].s.found), M)  OBVIOUS
<1>13. sel \in Seq(X) /\ sel # << >>
  <2>1. loc[t].s.found \in SUBSET X  BY <1>8 DEF Searches
  <2>. QED  BY <1>9, <1>10, <1>12, <2>1, ChosenIn
<1>14. PICK h : h = Head(sel)  OBVIOUS
<1>15. h \in X /\ h \in Ids  BY <1>9, <1>13, <1>14
<1>16. PICK ns : ns = Fitting(l, sel)  OBVIOUS
<1>17. links' = [links EXCEPT ![u][l] = ns]  BY <1>3, <1>5, <1>12, <1>16 DEF SetOwnLinks
<1>18. loc \in [Threads -> Locals] /\ pc \in [Threads -> Stages]  BY DEF IInv, Types
<1>19. loc' = [loc EXCEPT ![t].sel = sel, ![t].todo = sel, ![t].s = NoSearch]
  BY <1>12 DEF SetOwnLinks
<1>20. /\ \A v \in Threads : v # t => loc'[v] = loc[v]
       /\ loc'[t].id = loc[t].id /\ loc'[t].cur = cur
       /\ loc'[t].l = l /\ loc'[t].sel = sel /\ loc'[t].todo = sel
  <2>1. PICK none : none = NoSearch  OBVIOUS
  <2>2. loc' = [loc EXCEPT ![t].sel = sel, ![t].todo = sel, ![t].s = none]  BY <1>19, <2>1
  <2>. QED  BY <1>3, <1>4, <1>18, <2>2 DEF Locals
<1>21. pc'[t] = "back" /\ \A v \in Threads : v # t => pc'[v] = pc[v]
  BY <1>18, GotoStage DEF Stages, SetOwnLinks
<1>22. Others(t)  BY <1>20, <1>21 DEF Others
<1>23. Node(t)' = u  BY <1>5, <1>20 DEF Node
\* The edge, and the one on the level below.
<1>24. t \in Pends /\ PLev[t] = l /\ PSrc[t] = u /\ PDst[t] = cur
  BY <1>0, <1>3, <1>4, <1>5 DEF Pends, PLev, PSrc, PDst
<1>25. R[l][u] # R[l][cur]
  <2>1. Closed(R[l], C[t]) /\ Separates(C[t], u, cur)  BY <1>2, <1>24 DEF Forest
  <2>. QED  BY <1>8, <2>1 DEF Closed, Separates
<1>26. \A m \in X : m \in Known /\ R[l][m] = R[l][cur]  BY <1>7 DEF Class
<1>27. t \in Pends' => l - 1 \in Nat /\ PLev'[t] = l - 1 /\ PSrc'[t] = u /\ PDst'[t] = h
  BY <1>14, <1>20, <1>21, <1>23 DEF Pends, PLev, PSrc, PDst
<1>28. /\ Pends' \subseteq Pends
       /\ \A s \in Pends' : s # t => PLev'[s] = PLev[s] /\ PSrc'[s] = PSrc[s] /\ PDst'[s] = PDst[s]
  <2>1. \A s \in Pends' : s \in Threads  BY DEF Pends
  <2>. QED  BY <1>22, <1>24, <2>1, OthersEdges
<1>29. Advances(Pends, PLev, PSrc, PDst, Pends', PLev', PSrc', PDst', t, h)
  BY <1>24, <1>27, <1>28 DEF Advances
<1>30. Edges(Pends, PLev, PSrc, PDst) /\ R[PLev[t]][h] = R[PLev[t]][PDst[t]]
  BY <1>2, <1>15, <1>24, <1>26, EdgesKnown
<1>31. PICK R1 \in Colourings, C1 \in Cuts :
         Forest(R1, C1, Pends', PLev', PSrc', PDst') /\ Merged(R, R1, PLev[t], PSrc[t], PDst[t])
  BY <1>2, <1>15, <1>29, <1>30, DrawEdge, Zenon
<1>32. /\ \A k \in Nat : k # l => R1[k] = R[k]
       /\ \A n \in Ids : R1[l][n] = IF R[l][n] = R[l][u] THEN R[l][cur] ELSE R[l][n]
  BY <1>24, <1>31 DEF Merged
\* What Recolour asks for.
<1>33. Known \subseteq Known' /\ u \in Known'
  <2>1. pc'[t] \in Linking  BY <1>21 DEF Linking
  <2>2. Known \subseteq Known'  BY <1>20, <1>22, <2>1, KnownGrows
  <2>. QED  BY <1>6, <2>2
<1>34. \A k \in Nat : \A n, m \in Known : R[k][n] = R[k][m] => R1[k][n] = R1[k][m]
  <2>1. \A n \in Known : n \in Ids  BY DEF Known
  <2>. QED  BY <1>32, <2>1
<1>35. ASSUME NEW n \in Ids \ Known', NEW k \in Nat, NEW m \in Ids, m # n
       PROVE  R1[k][m] # R1[k][n]
  <2>1. n # u /\ n # cur /\ n \notin Known  BY <1>8, <1>33
  <2>2. \A x \in Ids : x # n => R[k][x] # R[k][n]  BY <1>2, <2>1 DEF Coloured, Alone
  <2>3. CASE k # l  BY <1>32, <1>35, <2>2, <2>3
  <2>4. CASE k = l  BY <1>8, <1>32, <1>35, <2>1, <2>2, <2>4
  <2>. QED  BY <2>3, <2>4
<1>36. \A n \in Ids \ Known' : Alone(R1, n)  BY <1>35 DEF Alone
<1>37. sel \in Seq(Near(Known', R1[l], u))
  <2>1. \A m \in X : m # u /\ R1[l][m] = R[l][cur]  BY <1>9, <1>25, <1>26, <1>32
  <2>2. R1[l][u] = R[l][cur]  BY <1>32
  <2>3. X \subseteq Near(Known', R1[l], u)  BY <1>26, <1>33, <2>1, <2>2 DEF Near
  <2>. QED  BY <1>13, <2>3, SeqMono
<1>38. ns \in Seq(Near(Known', R1[l], u))  BY <1>16, <1>37, FittingBounds
<1>39. \A n \in Ids : \A k \in 0..level[n] :
         links'[n][k] = links[n][k] \/ links'[n][k] \in Seq(Near(Known', R1[k], n))
  BY <1>11, <1>17, <1>38, OneList
<1>40. ColourOK(R1, t)'
  BY <1>8, <1>20, <1>21, <1>23, <1>33, <1>37 DEF ColourOK
<1>41. entry' \in Known' \cup {NoId}  BY <1>1, <1>33, ApartKnown
<1>42. Coloured(R1)'
  BY <1>1, <1>2, <1>22, <1>33, <1>34, <1>36, <1>39, <1>40, <1>41, Recolour
<1>. QED  BY <1>31, <1>42 DEF Apart

(* At first nobody knows any node, and each has a colour of its own.       *)
LEMMA InitApart ==
  ASSUME Init
  PROVE  Apart
<1>. USE DEF Init
<1>1. PICK R : R = [l \in Nat |-> [n \in Ids |-> n]]  OBVIOUS
<1>2. PICK C : C = [t \in Threads |-> {}]  OBVIOUS
<1>3. R \in Colourings /\ C \in Cuts  BY <1>1, <1>2 DEF Colourings, Cuts
<1>4. \A l \in Nat : \A n \in Ids : R[l][n] = n
  <2>1. \A l \in Nat : R[l] = [n \in Ids |-> n]  BY <1>1
  <2>. QED  BY <2>1
<1>5. Pends = {} /\ Known = {}  BY DEF Pends, Known, Linking
<1>6. Forest(R, C, Pends, PLev, PSrc, PDst)
  <2>1. \A l \in Nat : \A n, m \in Ids : R[l][n] = R[l][m] => R[l + 1][n] = R[l + 1][m]
    BY <1>4
  <2>. QED  BY <1>5, <2>1 DEF Forest
<1>7. \A n \in Ids : Alone(R, n)  BY <1>4 DEF Alone
<1>8. \A t \in Threads : ColourOK(R, t)  BY DEF ColourOK, NoLocals
<1>9. ASSUME NEW n \in Ids, NEW l \in 0..level[n] PROVE links[n][l] \in Seq(Near(Known, R[l], n))
  <2>1. links[n][l] = << >>  OBVIOUS
  <2>2. \A X : << >> \in Seq(X)  OBVIOUS
  <2>. QED  BY <2>1, <2>2, Zenon
<1>10. Coloured(R)  BY <1>7, <1>8, <1>9 DEF Coloured
<1>. QED  BY <1>3, <1>6, <1>10 DEF Apart

(* Every step keeps the colours apart.                                     *)
LEMMA StepApart ==
  ASSUME IInv, Apart, NEW t \in Threads, Step(t)
  PROVE  Apart'
BY EarlyApart, PublishApart, LockEntryApart, LeaveApart, StartWalkApart, DescendApart,
   VisitApart, SetOwnLinksApart, BackLinkApart, NextLayerApart
   DEF Step

(* Apart is about the variables only.                                      *)
LEMMA StutterApart ==
  ASSUME Apart, UNCHANGED vars
  PROVE  Apart'
<1>. USE DEF vars
<1>1. PICK R \in Colourings, C \in Cuts : Forest(R, C, Pends, PLev, PSrc, PDst) /\ Coloured(R)
  BY DEF Apart
<1>2. Pends' = Pends /\ PLev' = PLev /\ PSrc' = PSrc /\ PDst' = PDst /\ Known' = Known
  BY DEF Pends, PLev, PSrc, PDst, Known, Node
<1>3. Coloured(R)'  BY <1>1, <1>2 DEF Coloured, ColourOK, Node
<1>. QED  BY <1>1, <1>2, <1>3 DEF Apart

(* In every interleaving of addPoint, no node is ever in a list of its     *)
(* own, although nothing in searchLayer or connectNewElement excludes the  *)
(* new node and others may link to it before its search has passed.        *)
THEOREM NeverOwnNeighbour == Spec => []NoSelfLink
<1>1. Init => IInv /\ Apart  BY InitInv, InitApart
<1>2. IInv /\ Apart /\ [Next]_vars => (IInv /\ Apart)'
  BY StepInv, StutterInv, StepApart, StutterApart DEF Next
<1>3. IInv /\ Apart => NoSelfLink
  <2>. SUFFICES ASSUME IInv, Apart, NEW n \in Ids, NEW l \in DOMAIN links[n]
                PROVE  n \notin Range(links[n][l])
    BY DEF NoSelfLink
  <2>1. PICK R \in Colourings, C \in Cuts : Forest(R, C, Pends, PLev, PSrc, PDst) /\ Coloured(R)
    BY DEF Apart
  <2>2. DOMAIN links[n] = 0..level[n]  BY LinksAsTheyAre
  <2>3. links[n][l] \in Seq(Near(Known, R[l], n))  BY <2>1, <2>2 DEF Coloured
  <2>4. Range(links[n][l]) \subseteq Near(Known, R[l], n)  BY <2>3 DEF Range
  <2>. QED  BY <2>4 DEF Near
<1>. QED  BY <1>1, <1>2, <1>3, PTL DEF Spec

-----------------------------------------------------------------------------
(***************************************************************************)
(* Repeated links.  A back-link is added without a look at the list, so it *)
(* must not be there yet.  It is not: when an insert chooses its           *)
(* neighbours they have another colour than its node, hence no link to it; *)
(* and a neighbour that is still to be linked back has by then the colour  *)
(* of the node, so that its own search, if it is still to come, does not   *)
(* find the node.                                                          *)
(***************************************************************************)

\* The neighbours thread t is still to link back are not linked to its node.
Awaiting(t) ==
  /\ IsInjective(loc[t].todo)
  /\ \A n \in Range(loc[t].todo) : Node(t) \notin Range(links[n][loc[t].l])

\* Every list is within its block.
ListsFit == \A n \in Ids : \A l \in DOMAIN links[n] : Len(links[n][l]) <= MaxDegree(l)

Distinct == NoDuplicateLinks /\ ListsFit /\ \A t \in Threads : pc[t] = "back" => Awaiting(t)

(* The neighbours still to be linked back are known nodes of the level and *)
(* of the colour of the new node, other than itself.                       *)
LEMMA TodoNear ==
  ASSUME IInv, NEW R, Coloured(R), NEW t \in Threads, pc[t] = "back",
         NEW n \in Range(loc[t].todo)
  PROVE  /\ n \in Near(Known, R[loc[t].l], Node(t)) /\ n \in Known /\ n \in Ids /\ n # Node(t)
         /\ loc[t].l \in Nat /\ n \in At(loc[t].l) /\ loc[t].l \in 0..level[n]
<1>1. loc[t].todo \in Seq(Near(Known, R[loc[t].l], Node(t)))  BY DEF Coloured, ColourOK
<1>2. loc[t].l \in Nat /\ loc[t].todo \in Seq(At(loc[t].l))
  BY DEF IInv, Types, Locals, Walks, WalkOK
<1>3. n \in Near(Known, R[loc[t].l], Node(t))  BY <1>1 DEF Range
<1>4. n \in At(loc[t].l)  BY <1>2 DEF Range
<1>5. loc[t].l \in 0..level[n]  BY <1>2, <1>4, NeighboursIn, LinksAsTheyAre, AtFinite
<1>. QED  BY <1>2, <1>3, <1>4, <1>5 DEF Near, Known

(* A step that writes no list and ends in no linking back changes nothing. *)
LEMMA QuietDistinct ==
  ASSUME IInv, Distinct, NEW t \in Threads, Others(t), links' = links, pc'[t] # "back"
  PROVE  Distinct'
<1>1. NoDuplicateLinks' /\ ListsFit'  BY DEF Distinct, NoDuplicateLinks, ListsFit
<1>2. ASSUME NEW u \in Threads, pc'[u] = "back" PROVE Awaiting(u)'
  BY <1>2 DEF Distinct, Awaiting, Others, Node
<1>. QED  BY <1>1, <1>2 DEF Distinct

(* Most steps are of that kind.                                            *)
LEMMA QuietSteps ==
  ASSUME IInv, NEW t \in Threads, Step(t), ~ Publish(t), ~ SetOwnLinks(t), ~ BackLink(t)
  PROVE  Others(t) /\ links' = links /\ pc'[t] # "back"
<1>1. links' = links
  BY DEF Step, CheckLabel, Reserve, GiveBack, Probe, LockEntry, FirstNode, StartWalk, Descend,
         Visit, NextLayer, Finish, graph
<1>2. loc \in [Threads -> Locals] /\ pc \in [Threads -> Stages]  BY DEF IInv, Types
<1>3. \/ \E stage : Goto(t, stage) /\ stage # "back"
      \/ pc' = pc /\ pc[t] # "back"
  <2>1. CASE NextLayer(t)
    BY <2>1 DEF NextLayer, SearchFrom
  <2>2. CASE StartWalk(t)
    BY <2>2 DEF StartWalk, SearchFrom
  <2>3. CASE Descend(t)
    BY <2>3 DEF Descend, SearchFrom
  <2>4. CASE CheckLabel(t) \/ Reserve(t) \/ GiveBack(t) \/ Probe(t) \/ LockEntry(t)
             \/ FirstNode(t) \/ Visit(t) \/ Finish(t)
    BY <2>4 DEF CheckLabel, Reserve, GiveBack, Probe, LockEntry, FirstNode, Visit, Finish, Leave
  <2>. QED  BY <2>1, <2>2, <2>3, <2>4 DEF Step
<1>4. \A u \in Threads : u # t => pc'[u] = pc[u]  BY <1>2, <1>3 DEF Goto
<1>5. pc'[t] # "back"  BY <1>2, <1>3 DEF Goto
<1>6. \A u \in Threads : u # t => loc'[u] = loc[u]
  <2>1. loc' = loc \/ \E x : loc' = [loc EXCEPT ![t] = x]
    <3>1. CASE CheckLabel(t) \/ GiveBack(t) \/ Probe(t) \/ FirstNode(t)
      BY <3>1 DEF CheckLabel, GiveBack, Probe, FirstNode
    <3>2. CASE Reserve(t)  BY <3>2 DEF Reserve
    <3>3. CASE LockEntry(t)  BY <3>3 DEF LockEntry
    <3>4. CASE StartWalk(t)  BY <3>4 DEF StartWalk, SearchFrom
    <3>5. CASE Descend(t)  BY <3>5 DEF Descend, SearchFrom
    <3>6. CASE Visit(t)  BY <3>6 DEF Visit
    <3>7. CASE NextLayer(t)  BY <3>7 DEF NextLayer, SearchFrom
    <3>8. CASE Finish(t)  BY <3>8 DEF Finish, Forget
    <3>. QED  BY <3>1, <3>2, <3>3, <3>4, <3>5, <3>6, <3>7, <3>8 DEF Step
  <2>. QED  BY <1>2, <2>1
<1>. QED  BY <1>1, <1>4, <1>5, <1>6 DEF Others

(* The lists of a node that is published are empty, and nobody is to link  *)
(* to it.                                                                  *)
LEMMA PublishDistinct ==
  ASSUME IInv, Apart, Distinct, NEW t \in Threads, Publish(t)
  PROVE  Distinct'
<1>1. PICK R \in Colourings : Coloured(R)  BY DEF Apart
<1>2. pc[t] = "publish" /\ loc' = loc /\ Node(t) \in Ids
  BY HasNode DEF Publish, NoSlot
<1>3. PICK lv \in Levels : links' = [links EXCEPT ![Node(t)] = [l \in 0..lv |-> << >>]]
  BY DEF Publish
<1>4. PICK none : none = [l \in 0..lv |-> << >>]  OBVIOUS
<1>5. DOMAIN none = 0..lv /\ \A l \in 0..lv : none[l] = << >>  BY <1>4
<1>6. links'[Node(t)] = none /\ \A n \in Ids : n # Node(t) => links'[n] = links[n]
  BY <1>2, <1>3, <1>4, LinksAsTheyAre
<1>7. IsInjective(<< >>)  BY DEF IsInjective
<1>8. \A l \in 0..lv : l \in Nat  OBVIOUS
<1>9. NoDuplicateLinks'
  BY <1>5, <1>6, <1>7 DEF Distinct, NoDuplicateLinks
<1>10. ListsFit'
  <2>1. \A l \in 0..lv : Len(none[l]) <= MaxDegree(l)
    <3>. SUFFICES ASSUME NEW l \in 0..lv PROVE Len(none[l]) <= MaxDegree(l)  OBVIOUS
    <3>1. MaxDegree(l) \in Nat  BY <1>8, MaxDegreePositive
    <3>. QED  BY <1>5, <3>1
  <2>. QED  BY <1>5, <1>6, <2>1 DEF Distinct, ListsFit
<1>11. Node(t) \notin Known
  BY <1>2, Consts DEF Known, Linking, IInv, Slots
<1>12. ASSUME NEW u \in Threads, pc'[u] = "back" PROVE Awaiting(u)'
  <2>1. pc[u] = "back"
    <3>1. pc \in [Threads -> Stages] /\ Goto(t, "probe")  BY DEF IInv, Types, Publish
    <3>. QED  BY <1>12, <3>1 DEF Goto
  <2>2. Awaiting(u)  BY <2>1 DEF Distinct
  <2>3. ASSUME NEW n \in Range(loc[u].todo) PROVE links'[n] = links[n]
    <3>1. n \in Known /\ n \in Ids  BY <1>1, <2>1, TodoNear
    <3>. QED  BY <1>6, <1>11, <3>1
  <2>. QED  BY <1>2, <2>2, <2>3 DEF Awaiting, Node
<1>. QED  BY <1>9, <1>10, <1>12 DEF Distinct

(* One list is written, without repetitions and within its block.          *)
LEMMA OneListDistinct ==
  ASSUME IInv, Distinct, level' = level, NEW n \in Ids, NEW l \in 0..level[n], NEW ns,
         links' = [links EXCEPT ![n][l] = ns], IsInjective(ns), Len(ns) <= MaxDegree(l)
  PROVE  NoDuplicateLinks' /\ ListsFit'
<1>1. \A m \in Ids : \A k \in 0..level[m] :
        links'[m][k] = links[m][k] \/ (m = n /\ k = l /\ links'[m][k] = ns)
  BY OneList
<1>2. \A m \in Ids : DOMAIN links'[m] = 0..level[m] /\ DOMAIN links[m] = 0..level[m]
  BY LinksAsTheyAre
<1>. QED  BY <1>1, <1>2 DEF Distinct, NoDuplicateLinks, ListsFit

(* The chosen neighbours are not linked to the node yet, and the node is   *)
(* to be linked back to nobody among them.                                 *)
LEMMA SetOwnLinksDistinct ==
  ASSUME IInv, Apart, Distinct, NEW t \in Threads, SetOwnLinks(t)
  PROVE  Distinct'
<1>0. pc[t] = "search" /\ level' = level  BY DEF SetOwnLinks
<1>1. PICK R \in Colourings, C \in Cuts : Forest(R, C, Pends, PLev, PSrc, PDst) /\ Coloured(R)
  BY DEF Apart
<1>2. PICK l \in Nat : l = loc[t].l  BY DEF IInv, Types, Locals
<1>3. PICK cur : cur = loc[t].cur  OBVIOUS
<1>4. PICK u \in Ids : u = Node(t)  BY <1>0, HasNode DEF NoSlot
<1>5. PICK X : X = Class(Known, R[l], cur)  OBVIOUS
<1>6. cur \in Ids /\ loc[t].s \in Searches(X, Ids)
  BY <1>0, <1>1, <1>2, <1>3, <1>5 DEF Coloured, ColourOK, Known
<1>7. X \in SUBSET Ids  BY <1>5 DEF Class, Known
<1>8. l <= Lev(t) /\ loc[t].s.found # {}  BY <1>0, <1>2 DEF IInv, Walks, WalkOK
<1>9. l \in 0..level[u]
  <2>1. Lev(t) = level[u] /\ Lev(t) \in Nat  BY <1>0, <1>4, HasNode DEF Lev, NoSlot
  <2>. QED  BY <1>8, <2>1
\* The chosen have another colour than the node.
<1>10. \A m \in X : R[l][m] # R[l][u]
  <2>1. t \in Pends /\ PLev[t] = l /\ PSrc[t] = u /\ PDst[t] = cur
    BY <1>0, <1>2, <1>3, <1>4 DEF Pends, PLev, PSrc, PDst
  <2>2. Closed(R[l], C[t]) /\ Separates(C[t], u, cur)  BY <1>1, <2>1 DEF Forest
  <2>3. R[l][u] # R[l][cur]  BY <1>6, <2>2 DEF Closed, Separates
  <2>. QED  BY <1>5, <2>3 DEF Class
<1>11. PICK sel : sel = SelectNeighbors(data, Q(t), SetToSeq(loc[t].s.found), M)  OBVIOUS
<1>12. sel \in Seq(X) /\ IsInjective(sel)
  <2>1. loc[t].s.found \in SUBSET X  BY <1>6 DEF Searches
  <2>. QED  BY <1>7, <1>8, <1>11, <2>1, ChosenIn
<1>13. PICK ns : ns = Fitting(l, sel)  OBVIOUS
<1>14. ns \in Seq(X) /\ IsInjective(ns) /\ Len(ns) <= MaxDegree(l)
  BY <1>12, <1>13, FittingOnce, FittingBounds
<1>15. Range(sel) \subseteq X /\ Range(ns) \subseteq X  BY <1>12, <1>14 DEF Range
<1>16. links' = [links EXCEPT ![u][l] = ns]  BY <1>2, <1>4, <1>11, <1>13 DEF SetOwnLinks
<1>17. loc \in [Threads -> Locals] /\ pc \in [Threads -> Stages]  BY DEF IInv, Types
<1>18. /\ \A v \in Threads : v # t => loc'[v] = loc[v]
       /\ loc'[t].id = u /\ loc'[t].l = l /\ loc'[t].todo = sel
  <2>1. PICK none : none = NoSearch  OBVIOUS
  <2>2. loc' = [loc EXCEPT ![t].sel = sel, ![t].todo = sel, ![t].s = none]
    BY <1>11, <2>1 DEF SetOwnLinks
  <2>. QED  BY <1>2, <1>4, <1>17, <2>2 DEF Locals, Node
<1>19. \A v \in Threads : v # t => pc'[v] = pc[v]
  BY <1>17, GotoStage DEF Stages, SetOwnLinks
<1>20. NoDuplicateLinks' /\ ListsFit'
  BY <1>0, <1>9, <1>14, <1>16, OneListDistinct
<1>21. \A m \in Ids : \A k \in 0..level[m] :
         links'[m][k] = links[m][k] \/ (m = u /\ k = l /\ links'[m][k] = ns)
  BY <1>9, <1>16, OneList
<1>22. Awaiting(t)'
  <2>1. ASSUME NEW n \in X, l \in 0..level[n] PROVE u \notin Range(links'[n][l])
    <3>1. n \in Ids /\ n # u  BY <1>7, <1>10
    <3>2. links'[n][l] = links[n][l]  BY <1>21, <2>1, <3>1
    <3>3. links[n][l] \in Seq(Near(Known, R[l], n))  BY <1>1, <2>1, <3>1 DEF Coloured
    <3>4. \A m \in Range(links[n][l]) : R[l][m] = R[l][n]  BY <3>3 DEF Range, Near
    <3>. QED  BY <1>10, <3>2, <3>4
  <2>2. \A n \in Range(sel) : l \in 0..level[n]
    <3>1. loc[t].s \in Searches(At(l), Ids)  BY <1>0, <1>2 DEF IInv, Walks, WalkOK
    <3>2. loc[t].s.found \in SUBSET At(l) /\ At(l) \in SUBSET Ids  BY <3>1, AtFinite DEF Searches
    <3>3. sel \in Seq(At(l))  BY <1>8, <1>11, <3>2, ChosenIn
    <3>4. \A n \in Range(sel) : n \in At(l)  BY <3>3 DEF Range
    <3>. QED  BY <3>2, <3>4, NeighboursIn, LinksAsTheyAre
  <2>3. \A n \in Range(sel) : u \notin Range(links'[n][l])  BY <1>15, <2>1, <2>2
  <2>. QED  BY <1>12, <1>18, <2>3 DEF Awaiting, Node
<1>23. ASSUME NEW v \in Threads, v # t, pc'[v] = "back" PROVE Awaiting(v)'
  <2>1. pc[v] = "back" /\ loc'[v] = loc[v]  BY <1>18, <1>19, <1>23
  <2>2. Awaiting(v)  BY <2>1 DEF Distinct
  <2>3. PICK k, w : k = loc[v].l /\ w = Node(v)  OBVIOUS
  <2>4. ASSUME NEW n \in Range(loc[v].todo) PROVE w \notin Range(links'[n][k])
    <3>1. n \in Near(Known, R[k], w) /\ n \in Ids /\ k \in 0..level[n]
      BY <1>1, <2>1, <2>3, TodoNear
    <3>2. w \notin Range(links[n][k])  BY <2>2, <2>3 DEF Awaiting
    <3>3. CASE links'[n][k] = links[n][k]  BY <3>2, <3>3
    <3>4. CASE n = u /\ k = l /\ links'[n][k] = ns
      <4>1. R[l][w] = R[l][u]  BY <3>1, <3>4 DEF Near
      <4>. QED  BY <1>10, <1>15, <3>4, <4>1
    <3>. QED  BY <1>21, <3>1, <3>3, <3>4
  <2>. QED  BY <2>1, <2>2, <2>3, <2>4 DEF Awaiting, Node
<1>. QED  BY <1>20, <1>22, <1>23 DEF Distinct

(* A back-link goes to a node that was not linked to the new one, and the  *)
(* others still to be linked back are other nodes.                         *)
LEMMA BackLinkDistinct ==
  ASSUME IInv, Apart, Distinct, NEW t \in Threads, BackLink(t)
  PROVE  Distinct'
<1>0. pc[t] = "back" /\ pc' = pc /\ loc[t].todo # << >> /\ level' = level  BY DEF BackLink
<1>1. PICK R \in Colourings : Coloured(R)  BY DEF Apart
<1>2. PICK l \in Nat : l = loc[t].l  BY DEF IInv, Types, Locals
<1>3. PICK u \in Ids : u = Node(t)  BY <1>0, HasNode DEF NoSlot
<1>4. PICK b \in Seq(Ids) : b = loc[t].todo /\ b # << >>
  BY <1>0 DEF IInv, Types, Locals
<1>5. PICK n, todo : n = Head(b) /\ todo = Tail(b)  OBVIOUS
<1>6. /\ n \in Range(b) /\ todo \in Seq(Ids) /\ Range(todo) \subseteq Range(b)
      /\ IsInjective(b) => IsInjective(todo) /\ n \notin Range(todo)
  <2>1. /\ DOMAIN b = 1..Len(b) /\ Len(b) \in Nat \ {0} /\ n = b[1] /\ todo \in Seq(Ids)
        /\ DOMAIN todo = 1..(Len(b) - 1) /\ \A i \in 1..(Len(b) - 1) : todo[i] = b[i+1]
    BY <1>4, <1>5
  <2>2. 1 \in DOMAIN b /\ \A i \in DOMAIN todo : i \in Int /\ i + 1 \in DOMAIN b /\ i + 1 # 1
    BY <2>1
  <2>3. Range(todo) \subseteq Range(b) /\ n \in Range(b)  BY <2>1, <2>2 DEF Range
  <2>4. ASSUME IsInjective(b) PROVE IsInjective(todo) /\ n \notin Range(todo)
    <3>1. n \notin Range(todo)  BY <2>1, <2>2, <2>4 DEF IsInjective, Range
    <3>2. ASSUME NEW i \in DOMAIN todo, NEW j \in DOMAIN todo, todo[i] = todo[j] PROVE i = j
      <4>1. b[i + 1] = b[j + 1] /\ i + 1 \in DOMAIN b /\ j + 1 \in DOMAIN b
        BY <2>1, <2>2, <3>2
      <4>2. i + 1 = j + 1  BY <2>4, <4>1 DEF IsInjective
      <4>. QED  BY <2>2, <4>2
    <3>. QED  BY <3>1, <3>2 DEF IsInjective
  <2>. QED  BY <2>1, <2>3, <2>4
<1>7. Awaiting(t)  BY <1>0 DEF Distinct
<1>8. n \in Ids /\ l \in 0..level[n] /\ n \in At(l)
  BY <1>0, <1>1, <1>2, <1>4, <1>6, TodoNear
<1>9. IsInjective(b) /\ u \notin Range(links[n][l])
  BY <1>2, <1>3, <1>4, <1>6, <1>7 DEF Awaiting
<1>10. links[n] \in [0..level[n] -> Seq(Ids)] /\ links = [m \in Ids |-> links[m]]
  BY <1>8, LinksAsTheyAre
<1>11. links[n][l] \in Seq(Ids) /\ IsInjective(links[n][l])
  BY <1>8, <1>10 DEF Distinct, NoDuplicateLinks
<1>12. PICK ns : ns = WithBackLink(data, l, n, links[n][l], u)  OBVIOUS
<1>13. data \in [Ids -> Int] /\ Ids \in SUBSET Int  BY Consts DEF IInv, Types
<1>14. IsInjective(ns) /\ Len(ns) <= MaxDegree(l)
  BY <1>8, <1>9, <1>11, <1>12, <1>13, WithBackLinkOnce
<1>15. Range(ns) \subseteq Range(links[n][l]) \cup {u}
  <2>1. PICK X : X = Range(links[n][l]) \cup {u}  OBVIOUS
  <2>2. X \in SUBSET Ids /\ u \in X /\ links[n][l] \in Seq(X)  BY <1>11, <2>1 DEF Range
  <2>3. ns \in Seq(X)  BY <1>8, <1>12, <1>13, <2>2, WithBackLinkBounds
  <2>. QED  BY <2>1, <2>3 DEF Range
<1>16. links' = [links EXCEPT ![n][l] = ns]
  <2>1. links' = [links EXCEPT ![n][l] = WithBackLink(data, l, n, @, u)]
    BY <1>2, <1>3, <1>4, <1>5 DEF BackLink
  <2>. QED  BY <1>8, <1>10, <1>12, <2>1
<1>17. /\ \A v \in Threads : v # t => loc'[v] = loc[v]
       /\ loc'[t].id = loc[t].id /\ loc'[t].l = loc[t].l /\ loc'[t].todo = todo
  <2>1. loc \in [Threads -> Locals]  BY DEF IInv, Types
  <2>2. loc' = [loc EXCEPT ![t].todo = todo]  BY <1>4, <1>5, <2>1 DEF BackLink
  <2>. QED  BY <1>6, <2>1, <2>2, LocTodo
<1>18. NoDuplicateLinks' /\ ListsFit'
  BY <1>0, <1>8, <1>14, <1>16, OneListDistinct
<1>19. \A m \in Ids : \A k \in 0..level[m] :
         links'[m][k] = links[m][k] \/ (m = n /\ k = l /\ links'[m][k] = ns)
  BY <1>8, <1>16, OneList
<1>20. ASSUME NEW v \in Threads, pc'[v] = "back" PROVE Awaiting(v)'
  <2>1. pc[v] = "back"  BY <1>0, <1>20
  <2>2. Awaiting(v)  BY <2>1 DEF Distinct
  <2>3. PICK k, w : k = loc[v].l /\ w = Node(v)  OBVIOUS
  <2>4. /\ loc'[v].l = k /\ Node(v)' = w /\ IsInjective(loc'[v].todo)
        /\ Range(loc'[v].todo) \subseteq Range(loc[v].todo)
        /\ v = t => n \notin Range(loc'[v].todo)
    <3>1. CASE v = t  BY <1>4, <1>6, <1>9, <1>17, <2>3, <3>1 DEF Node
    <3>2. CASE v # t  BY <1>17, <2>2, <2>3, <3>2 DEF Node, Awaiting
    <3>. QED  BY <3>1, <3>2
  <2>5. ASSUME NEW m \in Range(loc'[v].todo) PROVE w \notin Range(links'[m][k])
    <3>1. m \in Range(loc[v].todo)  BY <2>4
    <3>2. m \in Ids /\ k \in 0..level[m]  BY <1>1, <2>1, <2>3, <3>1, TodoNear
    <3>3. w \notin Range(links[m][k])  BY <2>2, <2>3, <3>1 DEF Awaiting
    <3>4. CASE links'[m][k] = links[m][k]  BY <3>3, <3>4
    <3>5. CASE m = n /\ k = l /\ links'[m][k] = ns
      <4>1. v # t  BY <2>4, <3>5
      <4>2. w # u
        <5>1. w \in Ids  BY <2>1, <2>3, HasNode DEF NoSlot
        <5>. QED  BY <1>3, <2>3, <4>1, <5>1, Consts DEF IInv, Slots
      <4>. QED  BY <1>15, <3>3, <3>5, <4>2
    <3>. QED  BY <1>19, <3>2, <3>4, <3>5
  <2>. QED  BY <2>4, <2>5 DEF Awaiting
<1>. QED  BY <1>18, <1>20 DEF Distinct

(* Distinct is an invariant of the inserts, beside IInv and Apart.         *)
LEMMA DistinctLists == Spec => [](IInv /\ Apart /\ Distinct)
<1>1. Init => IInv /\ Apart /\ Distinct
  <2>. SUFFICES ASSUME Init PROVE Distinct  BY InitInv, InitApart
  <2>1. \A n \in Ids : DOMAIN links[n] = {0} /\ links[n][0] = << >>  BY DEF Init
  <2>2. IsInjective(<< >>) /\ Len(<< >>) = 0 /\ MaxDegree(0) \in Nat
    BY MaxDegreePositive DEF IsInjective
  <2>3. NoDuplicateLinks /\ ListsFit  BY <2>1, <2>2 DEF NoDuplicateLinks, ListsFit
  <2>4. \A t \in Threads : pc[t] # "back"  BY DEF Init
  <2>. QED  BY <2>3, <2>4 DEF Distinct
<1>2. IInv /\ Apart /\ Distinct /\ [Next]_vars => (IInv /\ Apart /\ Distinct)'
  <2>. SUFFICES ASSUME IInv, Apart, Distinct, [Next]_vars PROVE (IInv /\ Apart /\ Distinct)'
    OBVIOUS
  <2>1. CASE UNCHANGED vars
    <3>1. Distinct'
      BY <2>1 DEF vars, Distinct, NoDuplicateLinks, ListsFit, Awaiting, Node
    <3>. QED  BY <2>1, <3>1, StutterInv, StutterApart
  <2>2. ASSUME NEW t \in Threads, Step(t) PROVE (IInv /\ Apart /\ Distinct)'
    <3>1. Distinct'
      BY <2>2, QuietSteps, QuietDistinct, PublishDistinct, SetOwnLinksDistinct, BackLinkDistinct
    <3>. QED  BY <2>2, <3>1, StepInv, StepApart
  <2>. QED  BY <2>1, <2>2 DEF Next
<1>. QED  BY <1>1, <1>2, PTL DEF Spec

(* No list of the graph names a node twice, in every interleaving, for     *)
(* every number of threads, slots and levels, every M and efConstruction.  *)
THEOREM NoneTwice == Spec => []NoDuplicateLinks
<1>1. Distinct => NoDuplicateLinks  BY DEF Distinct
<1>. QED  BY <1>1, DistinctLists, PTL

(* No list outgrows its block: maxM0_ ids at level 0, maxM_ above, behind  *)
(* which the next node's block begins.                                     *)
THEOREM BlocksAreWideEnough == Spec => []ListsFit
<1>1. Distinct => ListsFit  BY DEF Distinct
<1>. QED  BY <1>1, DistinctLists, PTL

=============================================================================
