-------------------------- MODULE HnswQueryProofs --------------------------
(***************************************************************************)
(* Proofs about search, markDeleted and unmarkDeleted beside concurrent    *)
(* addPoint, for every size of the index, every k and ef.  The invariant   *)
(* of the inserts holds beside queries; to it the query adds that its walk *)
(* is on nodes of its level, that nothing it has found has been deleted    *)
(* since it began, and that marks are on slots with owners.  The last part *)
(* proves what a query returns on a graph that stands still.               *)
(***************************************************************************)
EXTENDS HnswQuery, HnswInsertProofs

QStages == {"start", "entry", "descend", "bottom", "search", "answered"}
QLocals == [cur : Ids \cup {NoId}, l : Nat, s : Searches(Ids, Ids), buf : Seq(Ids)]

\* What has been deleted since the query began is deleted.
QTypes ==
  /\ deleted \in SUBSET Ids /\ dead \in SUBSET deleted
  /\ qpc \in QStages /\ qry \in QLocals /\ result \in Seq(Ids)

\* The descent stands on a node of its level, and ends on one.
QWalks ==
  /\ qpc = "descend" => qry.cur \in At(qry.l)
  /\ qpc = "bottom" => qry.cur # NoId

\* Neither results nor answer contain what has been deleted all along.
QHidden ==
  /\ \A n \in qry.s.found : n \notin dead
  /\ \A i \in 1..Len(result) : result[i] \notin dead
  /\ qpc = "start" => qry.s.found = {} /\ result = << >>

\* The slots that some insert has.
Taken == {Node(t) : t \in Owners}

\* Labels and marks are on slots with owners; the counter counts marks.
QMarks ==
  /\ \A lab \in Labels : labelToId[lab] # NoId => labelToId[lab] \in Taken
  /\ deleted \in SUBSET Taken
  /\ numDeleted = Cardinality(deleted)

QInv == IInv /\ QTypes /\ QWalks /\ QHidden /\ QMarks

-----------------------------------------------------------------------------
(* The variables of the inserts are those of HnswInsert.                   *)
LEMMA Unchanged ==
  ASSUME UNCHANGED insertVars
  PROVE  UNCHANGED vars
BY DEF insertVars, vars

(* What leaves the inserts' variables alone keeps what is said of them.    *)
LEMMA InsertFrame ==
  ASSUME IInv, UNCHANGED insertVars
  PROVE  /\ IInv'
         /\ \A l : At(l)' = At(l)
         /\ Taken' = Taken
         /\ labelToId' = labelToId
BY Unchanged, StutterInv DEF insertVars, At, Taken, Owners, Node

(* Starting a search leaves the slot alone.                                *)
LEMMA SearchFromId ==
  ASSUME NEW t \in Threads, loc \in [Threads -> Locals], NEW l, NEW n, SearchFrom(t, l, n)
  PROVE  SameIds
<1>1. PICK s : loc' = [loc EXCEPT ![t].l = l, ![t].cur = n, ![t].s = s]  BY DEF SearchFrom
<1>. QED  BY <1>1 DEF SameIds, Locals

(* What no insert takes back: a level never falls, a slot keeps its owner, *)
(* and a label points to an owner's slot.                                  *)
LEMMA StepKeeps ==
  ASSUME IInv, NEW t \in Threads, Step(t)
  PROVE  /\ \A n \in Ids : level'[n] >= level[n]
         /\ \A u \in Threads : Node(u) # NoId => Node(u)' = Node(u)
         /\ \A lab \in Labels : \/ labelToId'[lab] = labelToId[lab]
                                \/ labelToId'[lab] = Node(t) /\ Node(t) # NoId
<1>. USE DEF IInv
<1>1. \A n \in Ids : level[n] \in Nat  BY Consts DEF Types
<1>2. CASE Publish(t)
  <2>1. pc[t] = "publish" /\ Node(t) # NoId /\ Node(t) \in Ids /\ level[Node(t)] = 0
    BY <1>2, ZenonT(40) DEF Publish, Slots, NoSlot, Fresh, Types, Locals, Node
  <2>2. PICK lv \in Levels : level' = [level EXCEPT ![Node(t)] = lv]  BY <1>2 DEF Publish
  <2>3. \A n \in Ids : level'[n] >= level[n]
    <3>1. level \in [Ids -> Levels] /\ lv \in Nat  BY Consts DEF Types
    <3>. QED  BY <1>1, <2>1, <2>2, <3>1
  <2>4. loc' = loc  BY <1>2 DEF Publish
  <2>5. labelToId' = [labelToId EXCEPT ![LabelOf[t]] = Node(t)]  BY <1>2 DEF Publish
  <2>. QED  BY <2>1, <2>3, <2>4, <2>5 DEF Node, Types
<1>3. CASE Reserve(t)
  <2>1. level' = level /\ labelToId' = labelToId  BY <1>3 DEF Reserve, graph
  <2>2. Node(t) = NoId  BY <1>3 DEF Reserve, Slots, NoSlot
  <2>3. \A u \in Threads : u # t => loc'[u] = loc[u]  BY <1>3 DEF Reserve, Types
  <2>. QED  BY <1>1, <2>1, <2>2, <2>3 DEF Node
<1>4. CASE ~ Publish(t) /\ ~ Reserve(t)
  <2>1. level' = level /\ labelToId' = labelToId
    BY <1>4 DEF Step, CheckLabel, GiveBack, Probe, LockEntry, FirstNode, StartWalk, Descend,
                Visit, SetOwnLinks, BackLink, NextLayer, Finish, graph
  <2>2. SameIds
    <3>1. loc \in [Threads -> Locals]  BY DEF Types
    <3>2. CASE CheckLabel(t) \/ GiveBack(t) \/ Probe(t) \/ FirstNode(t)
      BY <3>2 DEF CheckLabel, GiveBack, Probe, FirstNode, SameIds
    <3>3. CASE LockEntry(t)
      <4>1. PICK x, y : loc' = [loc EXCEPT ![t].top = x, ![t].cur = y]  BY <3>3 DEF LockEntry
      <4>. QED  BY <3>1, <4>1 DEF SameIds, Locals
    <3>4. CASE Finish(t)
      BY <3>1, <3>4, LocForget DEF Finish
    <3>5. CASE StartWalk(t)
      <4>1. \/ \E l : loc' = [loc EXCEPT ![t].l = l]
            \/ SearchFrom(t, TopLayer(t), loc[t].cur)
        BY <3>5 DEF StartWalk
      <4>2. ASSUME NEW l, loc' = [loc EXCEPT ![t].l = l] PROVE SameIds
        BY <3>1, <4>2 DEF SameIds, Locals
      <4>3. ASSUME SearchFrom(t, TopLayer(t), loc[t].cur) PROVE SameIds
        BY <3>1, <4>3, SearchFromId
      <4>. QED  BY <4>1, <4>2, <4>3, Zenon
    <3>6. CASE Descend(t)
      <4>1. \/ \E n : loc' = [loc EXCEPT ![t].cur = n]
            \/ \E l : loc' = [loc EXCEPT ![t].l = l]
            \/ SearchFrom(t, Lev(t), loc[t].cur)
        BY <3>6 DEF Descend
      <4>2. ASSUME NEW n, loc' = [loc EXCEPT ![t].cur = n] PROVE SameIds
        BY <3>1, <4>2 DEF SameIds, Locals
      <4>3. ASSUME NEW l, loc' = [loc EXCEPT ![t].l = l] PROVE SameIds
        BY <3>1, <4>3 DEF SameIds, Locals
      <4>4. ASSUME SearchFrom(t, Lev(t), loc[t].cur) PROVE SameIds
        BY <3>1, <4>4, SearchFromId
      <4>. QED  BY <4>1, <4>2, <4>3, <4>4, Zenon
    <3>7. CASE Visit(t)
      BY <3>1, <3>7 DEF Visit, SameIds, Locals
    <3>8. CASE SetOwnLinks(t)
      BY <3>1, <3>8 DEF SetOwnLinks, SameIds, Locals
    <3>9. CASE BackLink(t)
      BY <3>1, <3>9 DEF BackLink, SameIds, Locals
    <3>10. CASE NextLayer(t)
      BY <3>1, <3>10, SearchFromId DEF NextLayer, SameIds, Locals
    <3>. QED
      BY <1>4, <3>2, <3>3, <3>4, <3>5, <3>6, <3>7, <3>8, <3>9, <3>10 DEF Step
  <2>. QED  BY <1>1, <2>1, <2>2 DEF SameIds, Node
<1>. QED  BY <1>2, <1>3, <1>4

(* An insert beside the query keeps the invariant: the node a descent      *)
(* stands on keeps its lists.                                              *)
LEMMA InsertStepInv ==
  ASSUME QInv, NEW t \in Threads, InsertStep(t)
  PROVE  QInv'
<1>. USE DEF QInv, InsertStep, markVars, queryVars
<1>1. IInv'  BY StepInv
<1>2. QTypes'  BY DEF QTypes
<1>3. QHidden'  BY DEF QHidden
<1>4. QWalks'
  <2>. SUFFICES ASSUME qpc = "descend" PROVE qry.cur \in At(qry.l)'
    BY DEF QWalks, At
  <2>1. PICK l \in Nat : l = qry.l  BY DEF QTypes, QLocals
  <2>2. qry.cur \in At(l)  BY <2>1 DEF QWalks
  <2>3. \A n \in Ids : level[n] \in Nat /\ level'[n] \in Nat /\ level'[n] >= level[n]
    BY <1>1, StepKeeps, Consts DEF IInv, Types
  <2>. QED  BY <2>1, <2>2, <2>3 DEF At
<1>5. QMarks'
  <2>1. Taken \subseteq Taken'
    BY StepKeeps DEF Taken, Owners
  <2>2. Node(t) # NoId => Node(t) \in Taken  BY DEF Taken, Owners
  <2>3. \A lab \in Labels : labelToId'[lab] # NoId => labelToId'[lab] \in Taken'
    BY <2>1, <2>2, StepKeeps DEF QMarks
  <2>. QED  BY <2>1, <2>3 DEF QMarks
<1>. QED  BY <1>1, <1>2, <1>3, <1>4, <1>5

(* markDeleted keeps the invariant: it counts one more exactly when there  *)
(* is one more.                                                            *)
LEMMA MarkDeletedInv ==
  ASSUME QInv, NEW lab \in Markable, MarkDeleted(lab)
  PROVE  QInv'
<1>. USE DEF QInv, MarkDeleted, queryVars
<1>1. lab \in Labels  BY HnswQueryAssumption
<1>2. PICK n : n = labelToId[lab]  OBVIOUS
<1>3. n \in Ids /\ n \notin deleted /\ n \in Taken  BY <1>1, <1>2 DEF IInv, Types, QMarks
<1>4. deleted' = deleted \cup {n} /\ numDeleted' = numDeleted + 1  BY <1>2
<1>5. IInv'  BY InsertFrame
<1>6. QTypes'  BY <1>3, <1>4 DEF QTypes
<1>7. QHidden'  BY DEF QHidden
<1>8. QWalks'  BY DEF QWalks, At, insertVars
<1>9. IsFiniteSet(deleted)  BY Consts, FS_Subset DEF QTypes
<1>10. Cardinality(deleted') = Cardinality(deleted) + 1  BY <1>3, <1>4, <1>9, FS_AddElement
<1>11. QMarks'
  <2>1. Taken' = Taken /\ labelToId' = labelToId  BY InsertFrame
  <2>2. numDeleted' = Cardinality(deleted')  BY <1>4, <1>10 DEF QMarks
  <2>. QED  BY <1>3, <1>4, <2>1, <2>2 DEF QMarks
<1>. QED  BY <1>5, <1>6, <1>7, <1>8, <1>11

(* unmarkDeleted keeps the invariant; a node that is live again may be     *)
(* returned.                                                               *)
LEMMA UnmarkDeletedInv ==
  ASSUME QInv, NEW lab \in Markable, UnmarkDeleted(lab)
  PROVE  QInv'
<1>. USE DEF QInv, UnmarkDeleted, queryVars
<1>2. PICK n : n = labelToId[lab]  OBVIOUS
<1>3. n \in deleted  BY <1>2
<1>4. deleted' = deleted \ {n} /\ numDeleted' = numDeleted - 1 /\ dead' = dead \ {n}  BY <1>2
<1>5. IInv'  BY InsertFrame
<1>6. QTypes'  BY <1>3, <1>4 DEF QTypes
<1>7. QHidden'  BY <1>4 DEF QHidden
<1>8. QWalks'  BY DEF QWalks, At, insertVars
<1>9. IsFiniteSet(deleted)  BY Consts, FS_Subset DEF QTypes
<1>10. Cardinality(deleted') = Cardinality(deleted) - 1  BY <1>3, <1>4, <1>9, FS_RemoveElement
<1>11. QMarks'
  <2>1. Taken' = Taken /\ labelToId' = labelToId  BY InsertFrame
  <2>2. numDeleted' = Cardinality(deleted')  BY <1>4, <1>10 DEF QMarks
  <2>. QED  BY <1>3, <1>4, <2>1, <2>2 DEF QMarks
<1>. QED  BY <1>5, <1>6, <1>7, <1>8, <1>11

(* The fields of the query's locals.                                       *)
LEMMA QueryLocals ==
  ASSUME QInv
  PROVE  /\ qry.cur \in Ids \cup {NoId} /\ qry.l \in Nat
         /\ qry.s \in Searches(Ids, Ids) /\ qry.buf \in Seq(Ids)
         /\ qry = [cur |-> qry.cur, l |-> qry.l, s |-> qry.s, buf |-> qry.buf]
BY DEF QInv, QTypes, QLocals

(* A step of the query changes nothing that others use.                    *)
LEMMA QueryFrame ==
  ASSUME QInv, UNCHANGED <<insertVars, markVars>>, dead' \in SUBSET deleted,
         qpc' \in QStages, qry' \in QLocals, result' \in Seq(Ids),
         qpc' = "descend" => qry'.cur \in At(qry'.l), qpc' = "bottom" => qry'.cur # NoId,
         QHidden'
  PROVE  QInv'
<1>. USE DEF QInv
<1>1. IInv' /\ Taken' = Taken /\ labelToId' = labelToId  BY InsertFrame
<1>2. QTypes'  BY DEF QTypes, markVars
<1>3. QMarks'  BY <1>1 DEF QMarks, markVars
<1>4. QWalks'  BY DEF QWalks, At, insertVars
<1>. QED  BY <1>1, <1>2, <1>3, <1>4

(* The beginning of search keeps the invariant: what is deleted now is to  *)
(* stay hidden, and nothing has been found yet.                            *)
LEMMA QueryStartInv ==
  ASSUME QInv, QueryStart
  PROVE  QInv'
<1>. USE DEF QueryStart
<1>1. qpc' \in {"answered", "entry"}  OBVIOUS
<1>2. QHidden'  BY <1>1 DEF QInv, QHidden
<1>3. qry' \in QLocals /\ result' \in Seq(Ids)  BY DEF QInv, QTypes
<1>. QED  BY <1>1, <1>2, <1>3, QueryFrame DEF QStages

(* The search of level 0 begins with one node, which is a result only if   *)
(* it is not deleted.                                                      *)
LEMMA SearchBottomInv ==
  ASSUME QInv, SearchBottom
  PROVE  QInv'
<1>1. qpc = "bottom" /\ qpc' = "search" /\ qpc' \in QStages  BY DEF SearchBottom, QStages
<1>2. PICK n \in Ids : n = qry.cur  BY <1>1, QueryLocals DEF QInv, QWalks
<1>3. PICK s : s = StartSearch(n, deleted)  OBVIOUS
<1>4. s \in Searches(Ids, Ids) /\ \A m \in s.found : m \notin deleted
  BY <1>3 DEF StartSearch, Searches
<1>5. qry' = [cur |-> n, l |-> qry.l, s |-> s, buf |-> qry.buf]
  BY <1>2, <1>3, QueryLocals DEF SearchBottom
<1>6. qry' \in QLocals /\ qry'.s = s  BY <1>4, <1>5, QueryLocals DEF QLocals
<1>7. /\ UNCHANGED <<insertVars, markVars>>
      /\ dead' = dead /\ result' = result /\ dead \in SUBSET deleted /\ result \in Seq(Ids)
  BY DEF SearchBottom, history, QInv, QTypes
<1>8. QHidden'  BY <1>1, <1>4, <1>6, <1>7 DEF QInv, QHidden
<1>. QED  BY <1>1, <1>6, <1>7, <1>8, QueryFrame

(* Entry point and top level are read together: the entry point is a node  *)
(* of that level.                                                          *)
LEMMA QueryEntryInv ==
  ASSUME QInv, QueryEntry
  PROVE  QInv'
<1>. USE DEF QueryEntry
<1>0. qpc = "entry" /\ dead' = dead /\ result' = result /\ dead \in SUBSET deleted /\ result \in Seq(Ids)
  BY DEF history, QInv, QTypes
<1>1. CASE entry = NoId /\ qpc' = "answered" /\ UNCHANGED qry
  <2>1. QHidden'  BY <1>0, <1>1 DEF QInv, QHidden
  <2>2. qry' \in QLocals /\ qpc' \in QStages /\ qpc' \notin {"descend", "bottom"}
    BY <1>1 DEF QInv, QTypes, QStages
  <2>. QED  BY <1>0, <2>1, <2>2, QueryFrame
<1>2. CASE /\ entry # NoId
           /\ qpc' = "descend" /\ qry' = [qry EXCEPT !.cur = entry, !.l = maxLevel]
  <2>1. entry \in Ids /\ level[entry] = maxLevel /\ maxLevel \in Nat
    BY <1>2, Consts DEF QInv, IInv, Types, Entries
  <2>2. qry' = [cur |-> entry, l |-> maxLevel, s |-> qry.s, buf |-> qry.buf]
    BY <1>2, QueryLocals
  <2>3. /\ qry' \in QLocals /\ qry'.s = qry.s /\ qry'.cur = entry /\ qry'.l = maxLevel
    BY <2>1, <2>2, QueryLocals DEF QLocals
  <2>4. qry'.cur \in At(qry'.l)  BY <2>1, <2>3 DEF At
  <2>5. QHidden'  BY <1>0, <1>2, <2>3 DEF QInv, QHidden
  <2>6. qpc' \in QStages  BY <1>2 DEF QStages
  <2>. QED  BY <1>0, <2>3, <2>4, <2>5, <2>6, QueryFrame
<1>3. CASE entry # NoId /\ qpc' = "bottom" /\ qry' = [qry EXCEPT !.cur = entry]
  <2>1. entry \in Ids  BY <1>3 DEF QInv, IInv, Types
  <2>2. qry' = [cur |-> entry, l |-> qry.l, s |-> qry.s, buf |-> qry.buf]  BY <1>3, QueryLocals
  <2>3. qry' \in QLocals /\ qry'.s = qry.s /\ qry'.cur # NoId
    BY <1>3, <2>1, <2>2, QueryLocals DEF QLocals
  <2>4. QHidden'  BY <1>0, <1>3, <2>3 DEF QInv, QHidden
  <2>5. qpc' \in QStages  BY <1>3 DEF QStages
  <2>. QED  BY <1>0, <1>3, <2>3, <2>4, <2>5, QueryFrame
<1>. QED  BY <1>1, <1>2, <1>3

(* greedyDescend of a query stays on nodes of its level.                   *)
LEMMA QueryDescendInv ==
  ASSUME QInv, QueryDescend
  PROVE  QInv'
<1>. USE DEF QueryDescend
<1>0. /\ qpc = "descend" /\ dead' = dead /\ result' = result
      /\ dead \in SUBSET deleted /\ result \in Seq(Ids) /\ qpc \in QStages
  BY DEF history, QInv, QTypes
<1>1. PICK l \in Nat : l = qry.l  BY QueryLocals
<1>2. PICK cur \in At(l) : cur = qry.cur  BY <1>0, <1>1 DEF QInv, QWalks
<1>3. \/ \E n \in Closer(Target, cur, l) : qry' = [qry EXCEPT !.cur = n] /\ UNCHANGED qpc
      \/ l > 1 /\ qry' = [qry EXCEPT !.l = @ - 1] /\ UNCHANGED qpc
      \/ qry' = [qry EXCEPT !.l = 0] /\ qpc' = "bottom"
  BY <1>1, <1>2
<1>4. CASE \E n \in Closer(Target, cur, l) : qry' = [qry EXCEPT !.cur = n] /\ UNCHANGED qpc
  <2>1. PICK n \in Closer(Target, cur, l) : qry' = [qry EXCEPT !.cur = n] /\ UNCHANGED qpc
    BY <1>4
  <2>2. n \in At(l) /\ n \in Ids
    <3>1. IInv  BY DEF QInv
    <3>. QED  BY <3>1, CloserIn, AtFinite
  <2>3. qry' = [cur |-> n, l |-> l, s |-> qry.s, buf |-> qry.buf]  BY <1>1, <2>1, QueryLocals
  <2>4. qry' \in QLocals /\ qry'.s = qry.s /\ qry'.cur = n /\ qry'.l = l
    BY <2>2, <2>3, QueryLocals DEF QLocals
  <2>5. QHidden'  BY <1>0, <2>1, <2>4 DEF QInv, QHidden
  <2>. QED  BY <1>0, <2>1, <2>2, <2>4, <2>5, QueryFrame
<1>5. CASE l > 1 /\ qry' = [qry EXCEPT !.l = @ - 1] /\ UNCHANGED qpc
  <2>1. PICK k \in Nat : k = l - 1 /\ k <= l  BY <1>5
  <2>2. cur \in Ids /\ cur \in At(k)
    <3>1. \A m \in Ids : level[m] \in Nat  BY Consts DEF QInv, IInv, Types
    <3>. QED  BY <2>1, <3>1 DEF At
  <2>3. qry' = [cur |-> cur, l |-> k, s |-> qry.s, buf |-> qry.buf]
    BY <1>1, <1>2, <1>5, <2>1, QueryLocals
  <2>4. qry' \in QLocals /\ qry'.s = qry.s /\ qry'.cur = cur /\ qry'.l = k
    BY <2>2, <2>3, QueryLocals DEF QLocals
  <2>5. QHidden'  BY <1>0, <1>5, <2>4 DEF QInv, QHidden
  <2>. QED  BY <1>0, <1>5, <2>2, <2>4, <2>5, QueryFrame
<1>6. CASE qry' = [qry EXCEPT !.l = 0] /\ qpc' = "bottom"
  <2>1. cur \in Ids /\ cur # NoId  BY AtFinite, Consts
  <2>2. qry' = [cur |-> cur, l |-> 0, s |-> qry.s, buf |-> qry.buf]
    BY <1>2, <1>6, QueryLocals
  <2>3. qry' \in QLocals /\ qry'.s = qry.s /\ qry'.cur = cur
    BY <2>1, <2>2, QueryLocals DEF QLocals
  <2>4. QHidden'  BY <1>0, <1>6, <2>3 DEF QInv, QHidden
  <2>5. qpc' \in QStages  BY <1>6 DEF QStages
  <2>. QED  BY <1>0, <1>6, <2>1, <2>3, <2>4, <2>5, QueryFrame
<1>. QED  BY <1>3, <1>4, <1>5, <1>6

(* Copying a list finds nothing yet.                                       *)
LEMMA QueryCopyInv ==
  ASSUME QInv, QueryCopy
  PROVE  QInv'
<1>. USE DEF QueryCopy
<1>0. /\ qpc = "search" /\ qpc' = qpc /\ dead' = dead /\ result' = result
      /\ dead \in SUBSET deleted /\ result \in Seq(Ids) /\ qpc \in QStages
  BY DEF history, QInv, QTypes
<1>1. PICK n \in Nearest(data, Target, qry.s.front) :
        qry' = [qry EXCEPT !.s.front = @ \ {n}, !.buf = Neighbours(n, 0)]
  OBVIOUS
<1>2. n \in Ids  BY QueryLocals DEF Nearest, Searches
<1>3. PICK ns : ns = Neighbours(n, 0)  OBVIOUS
<1>4. ns \in Seq(Ids)
  <2>1. IInv  BY DEF QInv
  <2>2. level[n] \in Nat  BY <1>2, <2>1, Consts DEF IInv, Types
  <2>3. n \in At(0)  BY <1>2, <2>2 DEF At
  <2>4. ns \in Seq(At(0))  BY <1>3, <2>1, <2>3, NeighboursIn
  <2>. QED  BY <2>4, AtFinite, SeqMono
<1>5. PICK s : s = [qry.s EXCEPT !.front = @ \ {n}]  OBVIOUS
<1>6. s \in Searches(Ids, Ids) /\ s.found = qry.s.found  BY <1>5, QueryLocals DEF Searches
<1>7. qry' = [cur |-> qry.cur, l |-> qry.l, s |-> s, buf |-> ns]
  BY <1>1, <1>3, <1>5, QueryLocals
<1>8. qry' \in QLocals /\ qry'.s = s  BY <1>4, <1>6, <1>7, QueryLocals DEF QLocals
<1>9. QHidden'  BY <1>0, <1>6, <1>8 DEF QInv, QHidden
<1>. QED  BY <1>0, <1>8, <1>9, QueryFrame

(* A candidate joins the results only if it is not deleted at that moment, *)
(* and what has been deleted all along is.                                 *)
LEMMA QueryLookInv ==
  ASSUME QInv, QueryLook
  PROVE  QInv'
<1>. USE DEF QueryLook
<1>0. /\ qpc = "search" /\ qpc' = qpc /\ dead' = dead /\ result' = result
      /\ dead \in SUBSET deleted /\ result \in Seq(Ids) /\ qpc \in QStages
  BY DEF history, QInv, QTypes
<1>1. PICK n \in Ids : n = Head(qry.buf)  BY QueryLocals
<1>2. PICK ns : ns = Tail(qry.buf)  OBVIOUS
<1>2a. ns \in Seq(Ids)
  <2>1. qry.buf \in Seq(Ids) /\ qry.buf # << >>  BY QueryLocals
  <2>. QED  BY <1>2, <2>1
<1>3. PICK s : s = Absorb(data, Target, EfQuery, deleted, qry.s, n)  OBVIOUS
<1>4. /\ s \in Searches(Ids, Ids)
      /\ \A m \in s.found : m \in qry.s.found \/ (m = n /\ n \notin deleted)
  <2>1. EfQuery \in Nat \ {0}  BY HnswQueryAssumption DEF EfQuery
  <2>2. IsFiniteSet(qry.s.found)  BY QueryLocals, Consts, FS_Subset DEF Searches
  <2>3. PICK s0 \in Searches(Ids, Ids) : s0 = qry.s  BY QueryLocals
  <2>. HIDE DEF QueryLook
  <2>4. /\ Absorb(data, Target, EfQuery, deleted, s0, n) \in Searches(Ids, Ids)
        /\ \A m \in Absorb(data, Target, EfQuery, deleted, s0, n).found :
             m \in s0.found \/ (m = n /\ n \notin deleted)
    <3>1. IsFiniteSet(s0.found)  BY <2>2, <2>3
    <3>. QED  BY <2>1, <3>1, AbsorbBounds, Zenon
  <2>. QED  BY <1>3, <2>3, <2>4
<1>5. qry' = [cur |-> qry.cur, l |-> qry.l, s |-> s, buf |-> ns]
  BY <1>1, <1>2, <1>3, QueryLocals
<1>. HIDE DEF QueryLook
<1>6. qry' \in QLocals /\ qry'.s = s  BY <1>2a, <1>4, <1>5, QueryLocals DEF QLocals
<1>7. QHidden'  BY <1>0, <1>4, <1>6 DEF QInv, QHidden
<1>8. UNCHANGED <<insertVars, markVars>>  BY DEF QueryLook
<1>. QED  BY <1>0, <1>6, <1>7, <1>8, QueryFrame

(* What is returned is among the results.                                  *)
LEMMA QueryReturnInv ==
  ASSUME QInv, QueryReturn
  PROVE  QInv'
<1>. USE DEF QueryReturn
<1>0. /\ qpc' = "answered" /\ qpc' \in QStages /\ dead' = dead /\ dead \in SUBSET deleted
  BY DEF history, QInv, QTypes, QStages
<1>1. PICK T \in SUBSET qry.s.found : result' = Sorted(data, Target, SetToSeq(T))  OBVIOUS
<1>2. T \in SUBSET Ids /\ IsFiniteSet(T)
  BY QueryLocals, Consts, FS_Subset DEF Searches
<1>3. SetToSeq(T) \in Seq(T)  BY <1>2, SetToSeqIs
<1>4. result' \in Seq(T)
  <2>1. data \in [Ids -> Int] /\ Target \in Int /\ Ids \in SUBSET Int
    BY Consts, HnswQueryAssumption DEF QInv, IInv, Types
  <2>. QED  BY <1>1, <1>2, <1>3, <2>1, SortedIs
<1>5. result' \in Seq(Ids)  BY <1>2, <1>4, SeqMono
<1>6. qry' = [cur |-> qry.cur, l |-> 0, s |-> NoSearch, buf |-> << >>]  BY DEF NoQuery
<1>7. NoSearch \in Searches(Ids, Ids) /\ NoSearch.found = {}  BY DEF NoSearch, Searches
<1>8. qry' \in QLocals /\ qry'.s = NoSearch
  <2>1. PICK s \in Searches(Ids, Ids) : s = NoSearch  BY <1>7
  <2>2. << >> \in Seq(Ids) /\ 0 \in Nat  OBVIOUS
  <2>3. qry' = [cur |-> qry.cur, l |-> 0, s |-> s, buf |-> << >>]  BY <1>6, <2>1
  <2>. HIDE DEF QueryReturn
  <2>4. qry' \in QLocals /\ qry'.s = s  BY <2>2, <2>3, QueryLocals DEF QLocals
  <2>. QED  BY <2>1, <2>4
<1>9. \A i \in 1..Len(result') : result'[i] \in T  BY <1>4
<1>10. QHidden'  BY <1>0, <1>7, <1>8, <1>9 DEF QInv, QHidden
<1>. QED  BY <1>0, <1>5, <1>8, <1>10, QueryFrame

(* A query that has not begun has found nothing.                           *)
LEMMA NoQueryIs == NoQuery \in QLocals /\ NoQuery.s.found = {}
<1>1. NoSearch \in Searches(Ids, Ids) /\ NoSearch.found = {}  BY DEF NoSearch, Searches
<1>. QED  BY <1>1, Consts DEF NoQuery, QLocals

(* Asking again starts afresh.                                             *)
LEMMA QueryAgainInv ==
  ASSUME QInv, QueryAgain
  PROVE  QInv'
<1>. USE DEF QueryAgain
<1>1. qpc' \in QStages /\ qpc' \notin {"descend", "bottom"} /\ result' \in Seq(Ids)
  BY DEF QStages
<1>2. QHidden'  BY NoQueryIs DEF QHidden
<1>. QED  BY <1>1, <1>2, NoQueryIs, QueryFrame

(* The empty index satisfies the invariant.                                *)
LEMMA QueryInitInv ==
  ASSUME QueryInit
  PROVE  QInv
<1>. USE DEF QueryInit
<1>1. IInv  BY InitInv
<1>2. QTypes  BY NoQueryIs DEF QTypes, QStages
<1>3. QWalks  BY DEF QWalks
<1>4. QHidden  BY NoQueryIs DEF QHidden
<1>5. QMarks  BY FS_EmptySet DEF QMarks, Init
<1>. QED  BY <1>1, <1>2, <1>3, <1>4, <1>5 DEF QInv

(* A step of a query keeps the invariant.                                  *)
LEMMA QueryStepInv ==
  ASSUME QInv, QueryStep
  PROVE  QInv'
BY QueryStartInv, QueryEntryInv, QueryDescendInv, SearchBottomInv, QueryCopyInv,
   QueryLookInv, QueryReturnInv, QueryAgainInv DEF QueryStep

(* QInv is an invariant of search, markDeleted and unmarkDeleted beside    *)
(* concurrent addPoint, for every size of the index, every k and ef.       *)
THEOREM QueryInvariance == QuerySpec => []QInv
<1>1. QInv /\ [QueryNext]_allVars => QInv'
  <2>. SUFFICES ASSUME QInv, [QueryNext]_allVars PROVE QInv'  OBVIOUS
  <2>1. CASE UNCHANGED allVars
    <3>1. UNCHANGED <<insertVars, markVars, queryVars, history>>  BY <2>1 DEF allVars
    <3>2. QHidden'  BY <3>1 DEF QInv, QHidden, queryVars, history
    <3>3. /\ dead' \in SUBSET deleted /\ qpc' \in QStages /\ qry' \in QLocals /\ result' \in Seq(Ids)
          /\ qpc' = "descend" => qry'.cur \in At(qry'.l)
          /\ qpc' = "bottom" => qry'.cur # NoId
      BY <3>1 DEF QInv, QTypes, QWalks, queryVars, history
    <3>. QED  BY <3>1, <3>2, <3>3, QueryFrame
  <2>2. CASE QueryStep  BY <2>2, QueryStepInv
  <2>3. CASE \E t \in Threads : InsertStep(t)  BY <2>3, InsertStepInv
  <2>4. CASE \E lab \in Markable : MarkDeleted(lab) \/ UnmarkDeleted(lab)
    BY <2>4, MarkDeletedInv, UnmarkDeletedInv
  <2>. QED  BY <2>1, <2>2, <2>3, <2>4 DEF QueryNext
<1>. QED  BY <1>1, QueryInitInv, PTL DEF QuerySpec

(* search never returns a node that has been deleted since before it       *)
(* began, although it reads deleted_ without a lock and walks through      *)
(* deleted nodes.                                                          *)
THEOREM DeletedAreHidden == QuerySpec => []DeletedStayHidden
<1>1. QInv => DeletedStayHidden  BY DEF QInv, QHidden, DeletedStayHidden
<1>. QED  BY <1>1, QueryInvariance, PTL

(* The descent of a query beside inserts only asks nodes for lists they    *)
(* have.                                                                   *)
THEOREM WalksStayWithinLevels == QuerySpec => []WalkWithinLevels
<1>1. QInv => WalkWithinLevels
  <2>. SUFFICES ASSUME QInv, qpc = "descend" PROVE qry.l \in DOMAIN links[qry.cur]
    BY DEF WalkWithinLevels
  <2>1. IInv /\ qry.l \in Nat /\ qry.cur \in At(qry.l)  BY QueryLocals DEF QInv, QWalks
  <2>. QED  BY <2>1, NeighboursIn
<1>. QED  BY <1>1, QueryInvariance, PTL

-----------------------------------------------------------------------------
(***************************************************************************)
(* What a query returns on a graph that stands still.  Its search sweeps   *)
(* the nodes around its start: as long as there is room for results, every *)
(* live node seen is a result, and every neighbour of a node that has left *)
(* the frontier is seen or in the copy being looked at.  So the search     *)
(* ends with ef results or with all there are.  The answer stays right     *)
(* when inserts write the vectors of new nodes, since no list names one of *)
(* these: that is what the inserts' invariant Apart is needed for.         *)
(***************************************************************************)

\* The search s among the nodes A with neighbours G, of which D are deleted;
\* the candidates in B are still to be looked at.
Sweeps(G, A, D, s, B) ==
  /\ s.seen \subseteq A /\ B \subseteq A
  /\ s.front \subseteq s.seen /\ s.found \subseteq s.seen \ D
  /\ Cardinality(s.found) <= EfQuery
  /\ \/ Cardinality(s.found) >= EfQuery
     \/ /\ s.seen \ D \subseteq s.found
        /\ \A n \in s.seen \ s.front : G[n] \subseteq s.seen \cup B

(* A full result heap stays full, one that is not keeps everything.        *)
LEMMA KeptCounts ==
  ASSUME NEW I, NEW d \in [I -> Int], NEW q \in Int, NEW ef \in Nat \ {0}, NEW s,
         s.found \in SUBSET I, IsFiniteSet(s.found), Cardinality(s.found) <= ef,
         NEW n \in I, n \notin s.found
  PROVE  /\ Kept(d, q, ef, s, n) \in SUBSET (s.found \cup {n})
         /\ Cardinality(Kept(d, q, ef, s, n)) <= ef
         /\ \/ Cardinality(Kept(d, q, ef, s, n)) >= ef
            \/ Kept(d, q, ef, s, n) = s.found \cup {n}
<1>. DEFINE grown == s.found \cup {n}
            far   == CHOOSE m \in Farthest(d, q, grown) : TRUE
<1>1. /\ IsFiniteSet(grown) /\ Cardinality(grown) = Cardinality(s.found) + 1
      /\ Cardinality(s.found) \in Nat
  BY FS_AddElement, FS_CardinalityType
<1>2. Kept(d, q, ef, s, n) = IF Cardinality(grown) > ef THEN grown \ {far} ELSE grown
  BY Zenon DEF Kept
<1>3. grown \in SUBSET I /\ grown # {}  OBVIOUS
<1>4. far \in grown
  <2>. HIDE DEF grown
  <2>1. Farthest(d, q, grown) # {}  BY <1>1, <1>3, Extremes
  <2>2. far \in Farthest(d, q, grown)  BY <2>1, Zenon
  <2>. QED  BY <2>2 DEF Farthest
<1>. HIDE DEF far, grown
<1>5. Cardinality(grown \ {far}) = Cardinality(grown) - 1
  BY <1>1, <1>4, FS_RemoveElement
<1>6. PICK kept : kept = Kept(d, q, ef, s, n)  OBVIOUS
<1>7. kept \in SUBSET grown  BY <1>2, <1>6
<1>8. CASE Cardinality(grown) > ef
  <2>1. Cardinality(kept) = ef  BY <1>1, <1>2, <1>5, <1>6, <1>8
  <2>. QED  BY <1>6, <1>7, <2>1 DEF grown
<1>9. CASE ~ (Cardinality(grown) > ef)
  <2>1. kept = grown /\ Cardinality(kept) <= ef  BY <1>1, <1>2, <1>6, <1>9
  <2>. QED  BY <1>6, <1>7, <2>1 DEF grown
<1>. QED  BY <1>8, <1>9

(* Looking at one candidate keeps the sweep: the candidate is seen, it is  *)
(* a result if it is live, and it joins the frontier, unless the heap is   *)
(* full.                                                                   *)
LEMMA AbsorbSweeps ==
  ASSUME NEW d \in [Ids -> Int], NEW G, NEW A \in SUBSET Ids, NEW D,
         NEW s \in Searches(Ids, Ids), NEW B, NEW B1, NEW n \in B, Sweeps(G, A, D, s, B),
         B1 \subseteq B, B \subseteq B1 \cup {n}
  PROVE  /\ Sweeps(G, A, D, Absorb(d, Target, EfQuery, D, s, n), B1)
         /\ s.seen \subseteq Absorb(d, Target, EfQuery, D, s, n).seen
<1>. DEFINE kept == Kept(d, Target, EfQuery, s, n)
            passed == Cardinality(s.found) >= EfQuery /\ Dist(Target, d[n]) >= Worst(d, Target, s)
<1>1. PICK r : r = Absorb(d, Target, EfQuery, D, s, n)  OBVIOUS
<1>2. EfQuery \in Nat \ {0} /\ Target \in Int  BY HnswQueryAssumption DEF EfQuery
<1>3. IsFiniteSet(s.found) /\ s.found \in SUBSET Ids /\ Cardinality(s.found) \in Nat
  BY Consts, FS_Subset, FS_CardinalityType DEF Searches
<1>4. n \in A /\ n \in Ids /\ s.found \subseteq s.seen \ D /\ Cardinality(s.found) <= EfQuery
  BY DEF Sweeps
<1>5. CASE n \in s.seen
  <2>1. r = s  BY <1>1, <1>5 DEF Absorb
  <2>. QED  BY <1>1, <1>5, <2>1 DEF Sweeps
<1>6. CASE n \notin s.seen /\ passed
  <2>1. r = [s EXCEPT !.seen = @ \cup {n}]  BY <1>1, <1>6 DEF Absorb
  <2>2. r.front = s.front /\ r.found = s.found /\ r.seen = s.seen \cup {n}
    BY <2>1 DEF Searches
  <2>3. Cardinality(s.found) >= EfQuery  BY <1>6
  <2>4. Sweeps(G, A, D, r, B1)
    <3>. HIDE DEF passed
    <3>. QED  BY <1>4, <2>2, <2>3 DEF Sweeps
  <2>. QED  BY <1>1, <2>2, <2>4
<1>7. CASE n \notin s.seen /\ ~passed
  <2>1. r = [front |-> s.front \cup {n}, found |-> IF n \in D THEN s.found ELSE kept,
             seen  |-> s.seen \cup {n}]
    BY <1>1, <1>7 DEF Absorb
  <2>2. /\ kept \in SUBSET (s.found \cup {n}) /\ Cardinality(kept) <= EfQuery
        /\ Cardinality(kept) >= EfQuery \/ kept = s.found \cup {n}
    <3>1. n \notin s.found  BY <1>4, <1>7
    <3>. HIDE DEF passed
    <3>. QED  BY <1>2, <1>3, <1>4, <3>1, KeptCounts
  <2>. HIDE DEF kept, passed
  <2>3. /\ r.front = s.front \cup {n} /\ r.seen = s.seen \cup {n}
        /\ r.found = IF n \in D THEN s.found ELSE kept
    BY <2>1
  <2>4. Sweeps(G, A, D, r, B1)
    <3>1. CASE n \in D
      BY <1>4, <2>3, <3>1 DEF Sweeps
    <3>2. CASE n \notin D
      <4>1. r.found = kept  BY <2>3, <3>2
      <4>2. CASE Cardinality(kept) >= EfQuery
        BY <1>4, <2>2, <2>3, <4>1, <4>2, <3>2 DEF Sweeps
      <4>3. CASE ~ (Cardinality(kept) >= EfQuery)
        <5>1. kept = s.found \cup {n}  BY <2>2, <4>3
        <5>2. Cardinality(kept) = Cardinality(s.found) + 1
          BY <1>3, <1>4, <1>7, <5>1, FS_AddElement
        <5>3. ~ (Cardinality(s.found) >= EfQuery)  BY <1>2, <1>3, <4>3, <5>2
        <5>. QED  BY <1>4, <2>2, <2>3, <3>2, <4>1, <5>1, <5>3 DEF Sweeps
      <4>. QED  BY <4>2, <4>3
    <3>. QED  BY <3>1, <3>2
  <2>. QED  BY <1>1, <2>3, <2>4
<1>. QED  BY <1>5, <1>6, <1>7

\* Some member of S has a neighbour outside; what can be reached from x is
\* in every set with x for which that is not so.
Leaves(G, S) == \E m \in S : ~ (G[m] \subseteq S)
Reached(G, x) == {n \in Ids : \A S \in SUBSET Ids : x \in S /\ ~ Leaves(G, S) => n \in S}

(* A sweep that is over has ef results, or all live nodes of A.            *)
LEMMA SweepEnds ==
  ASSUME NEW G, NEW A, NEW D, NEW s \in Searches(Ids, Ids), NEW x \in s.seen,
         A = Reached(G, x), Sweeps(G, A, D, s, {}),
         s.front = {} \/ Cardinality(s.found) >= EfQuery
  PROVE  /\ s.found \subseteq A \ D
         /\ s.found = A \ D \/ Cardinality(s.found) >= EfQuery
<1>1. s.found \subseteq A \ D  BY DEF Sweeps
<1>2. ASSUME ~ (Cardinality(s.found) >= EfQuery) PROVE A \ D \subseteq s.found
  <2>1. s.seen \ D \subseteq s.found /\ \A n \in s.seen : G[n] \subseteq s.seen
    BY <1>2 DEF Sweeps
  <2>2. s.seen \in SUBSET Ids  BY DEF Searches
  <2>3. A \subseteq s.seen  BY <2>1, <2>2 DEF Leaves, Reached
  <2>. QED  BY <2>1, <2>3
<1>. QED  BY <1>1, <1>2

(* What can be reached from x has x and the neighbours of its members.     *)
LEMMA ReachedIs ==
  ASSUME NEW G, \A n \in Ids : G[n] \in SUBSET Ids, NEW x \in Ids
  PROVE  /\ Reached(G, x) \in SUBSET Ids /\ x \in Reached(G, x)
         /\ \A n \in Reached(G, x) : G[n] \subseteq Reached(G, x)
         /\ \A S \in SUBSET Ids : x \in S /\ ~ Leaves(G, S) => Reached(G, x) \subseteq S
BY DEF Reached, Leaves

\* The neighbours at level 0, and the distances to the query.
Adjacent == [n \in Ids |-> Range(Neighbours(n, 0))]
Distance == [n \in Ids |-> Dist(Target, data[n])]

\* The nodes a query can return, and how many it should.
Live == Around \ deleted
AtMostK(c) == IF c < K THEN c ELSE K

\* A search, and an answer, on a graph that stands still.
Sweeping == qry.cur \in qry.s.seen /\ Sweeps(Adjacent, Around, deleted, qry.s, Range(qry.buf))
Answered ==
  /\ result \in Seq(Live) /\ IsInjective(result) /\ Len(result) = AtMostK(Cardinality(Live))
  /\ EfQuery >= Cardinality(Live) => Leads(Distance, result, Live)

\* The walk is on known nodes; if the graph has stood still, the search is
\* a sweep and the answer the right one.
QExact ==
  /\ qry.cur \in Known \cup {NoId}
  /\ qpc \in {"start", "entry"} => qry.cur = NoId
  /\ qpc \in {"descend", "bottom", "search"} => qry.cur # NoId
  /\ qpc \in {"start", "entry", "descend", "bottom"} => qry.buf = << >>
  /\ qpc = "search" /\ still => Sweeping
  /\ qpc = "answered" /\ still /\ qry.cur # NoId => Answered

(* What is around the query: known nodes, whose neighbours are around it.  *)
LEMMA AroundIs ==
  ASSUME IInv, Apart, qry.cur \in Known
  PROVE  /\ \A n \in Ids : Adjacent[n] = Range(Neighbours(n, 0)) /\ Adjacent[n] \in SUBSET Ids
         /\ Around = Reached(Adjacent, qry.cur) /\ qry.cur \in Ids
         /\ Around \in SUBSET Known /\ Known \in SUBSET Ids
<1>1. Known \in SUBSET Ids  BY DEF Known
<1>2. ASSUME NEW n \in Ids
      PROVE  Adjacent[n] = Range(Neighbours(n, 0)) /\ Adjacent[n] \in SUBSET Known
  <2>1. level[n] \in Nat  BY Consts DEF IInv, Types
  <2>2. n \in At(0)  BY <2>1 DEF At
  <2>3. Range(Neighbours(n, 0)) \subseteq Known  BY <2>2, ApartKnown
  <2>. QED  BY <2>3 DEF Adjacent
<1>3. \A S \in SUBSET Ids : ~ Leaves(Adjacent, S) <=> \A m \in S : Range(Neighbours(m, 0)) \subseteq S
  BY <1>2 DEF Leaves
<1>4. Around = Reached(Adjacent, qry.cur)  BY <1>3 DEF Around, Reached
<1>5. ~ Leaves(Adjacent, Known)  BY <1>1, <1>2 DEF Leaves
<1>6. Reached(Adjacent, qry.cur) \subseteq Known  BY <1>1, <1>5 DEF Reached
<1>. QED  BY <1>1, <1>2, <1>4, <1>6

(* As long as no list changes, the same nodes are around.                  *)
LEMMA SameAround ==
  ASSUME links' = links, qry'.cur = qry.cur
  PROVE  Adjacent' = Adjacent /\ Around' = Around
BY DEF Adjacent, Around, Neighbours

(* An insert makes nodes known and forgets none, and writes the vector of  *)
(* none that is known.                                                     *)
LEMMA StepKnown ==
  ASSUME IInv, NEW t \in Threads, Step(t)
  PROVE  Known \subseteq Known' /\ \A n \in Known : data'[n] = data[n]
<1>1. \A u \in Threads : Node(u) # NoId => Node(u)' = Node(u)  BY StepKeeps
<1>2. pc \in [Threads -> Stages]  BY DEF IInv, Types
<1>3. ASSUME NEW u \in Threads, pc[u] \in Linking PROVE pc'[u] \in Linking
  <2>1. CASE u # t
    <3>1. \E stage : Goto(t, stage) \/ pc' = pc
      BY DEF Step, CheckLabel, Reserve, GiveBack, Publish, Probe, LockEntry, FirstNode, StartWalk,
             Descend, Visit, SetOwnLinks, BackLink, NextLayer, Finish, Leave, SearchFrom
    <3>. QED  BY <1>2, <1>3, <2>1, <3>1 DEF Goto
  <2>2. CASE u = t
    <3>1. Visit(t) \/ SetOwnLinks(t) \/ BackLink(t) \/ NextLayer(t) \/ Finish(t)
      BY <1>3, <2>2 DEF Linking, Step, CheckLabel, Reserve, GiveBack, Publish, Probe, LockEntry,
                        FirstNode, StartWalk, Descend
    <3>2. CASE Visit(t) \/ BackLink(t)
      BY <1>3, <2>2, <3>2 DEF Visit, BackLink
    <3>3. CASE SetOwnLinks(t) \/ NextLayer(t) \/ Finish(t)
      <4>1. \E stage \in {"back", "search", "finish", "ok"} : Goto(t, stage)
        BY <3>3 DEF SetOwnLinks, NextLayer, Finish, SearchFrom, Leave
      <4>. QED  BY <1>2, <2>2, <4>1 DEF Goto, Linking
    <3>. QED  BY <3>1, <3>2, <3>3
  <2>. QED  BY <2>1, <2>2
<1>4. Known \subseteq Known'
  <2>. SUFFICES ASSUME NEW n \in Known PROVE n \in Known'  OBVIOUS
  <2>1. PICK u \in Threads : pc[u] \in Linking /\ Node(u) = n /\ n \in Ids  BY DEF Known
  <2>2. pc'[u] \in Linking /\ Node(u)' = n  BY <1>1, <1>3, <2>1, Consts
  <2>. QED  BY <2>1, <2>2 DEF Known
<1>5. ASSUME NEW n \in Known PROVE data'[n] = data[n]
  <2>1. CASE Publish(t)
    <3>1. pc[t] = "publish" /\ data' = [data EXCEPT ![Node(t)] = VecOf[t]]  BY <2>1 DEF Publish
    <3>2. PICK u \in Threads : pc[u] \in Linking /\ Node(u) = n /\ n \in Ids  BY DEF Known
    <3>3. u # t /\ n # NoId  BY <3>1, <3>2, Consts DEF Linking
    <3>4. Node(t) # n  BY <3>2, <3>3 DEF IInv, Slots
    <3>. QED  BY <3>1, <3>2, <3>4 DEF IInv, Types
  <2>2. CASE ~ Publish(t)
    BY <2>2 DEF Step, CheckLabel, Reserve, GiveBack, Probe, LockEntry, FirstNode, StartWalk,
                Descend, Visit, SetOwnLinks, BackLink, NextLayer, Finish, graph
  <2>. QED  BY <2>1, <2>2
<1>. QED  BY <1>4, <1>5

(* A list leads a set by any distances that agree on its members.          *)
LEMMA LeadsAgree ==
  ASSUME NEW S, NEW d, NEW e, NEW r, \A n \in S : d[n] = e[n], Leads(d, r, S)
  PROVE  Leads(e, r, S)
<1>1. r \in Seq(S) /\ \A i \in DOMAIN r : r[i] \in S  BY DEF Leads
<1>. QED  BY <1>1 DEF Leads

(* What the clauses of the invariant say of a graph that has not changed   *)
(* where the query sees it, when the query has not moved.                  *)
LEMMA ExactStays ==
  ASSUME IInv, Apart, QExact, links' = links, deleted' = deleted, UNCHANGED queryVars,
         Known \subseteq Known', \A n \in Known : data'[n] = data[n], still' => still
  PROVE  QExact'
<1>1. qpc' = qpc /\ qry' = qry /\ result' = result  BY DEF queryVars
<1>2. Adjacent' = Adjacent /\ Around' = Around  BY <1>1, SameAround
<1>3. Live' = Live  BY <1>2 DEF Live
<1>4. Sweeping => Sweeping'  BY <1>1, <1>2 DEF Sweeping
<1>5. ASSUME qry.cur # NoId, Answered PROVE Answered'
  <2>1. qry.cur \in Known  BY <1>5 DEF QExact
  <2>2. Around \in SUBSET Known /\ Known \in SUBSET Ids  BY <2>1, AroundIs
  <2>3. \A n \in Live : n \in Known /\ n \in Ids  BY <2>2 DEF Live
  <2>4. \A n \in Live : Distance[n] = Distance'[n]  BY <2>3 DEF Distance
  <2>5. Leads(Distance, result, Live) => Leads(Distance', result, Live)
    BY <2>4, LeadsAgree, Zenon
  <2>. QED  BY <1>1, <1>3, <1>5, <2>5 DEF Answered
<1>. QED  BY <1>1, <1>4, <1>5 DEF QExact

(* An insert beside the query: if it changes a list, the graph no longer   *)
(* stands still.                                                           *)
LEMMA InsertExact ==
  ASSUME QInv, Apart, QExact, NEW t \in Threads, InsertStep(t)
  PROVE  QExact'
<1>1. Step(t) /\ still' = (Unwatched \/ (still /\ links' = links))
  BY DEF InsertStep
<1>2. UNCHANGED <<markVars, queryVars>>  BY DEF InsertStep
<1>3. Known \subseteq Known' /\ \A n \in Known : data'[n] = data[n]
  BY <1>1, StepKnown DEF QInv
<1>4. qpc' = qpc /\ qry' = qry /\ deleted' = deleted  BY <1>2 DEF markVars, queryVars
<1>5. CASE links' = links /\ still
  BY <1>2, <1>3, <1>4, <1>5, ExactStays DEF QInv
<1>6. CASE ~ (links' = links /\ still)
  <2>1. still' => qpc = "start"  BY <1>1, <1>6 DEF Unwatched
  <2>. QED  BY <1>3, <1>4, <2>1 DEF QExact
<1>. QED  BY <1>5, <1>6

(* Nor does it after a mark.                                               *)
LEMMA MarkExact ==
  ASSUME QInv, QExact, NEW lab \in Markable, MarkDeleted(lab) \/ UnmarkDeleted(lab)
  PROVE  QExact'
<1>1. UNCHANGED <<insertVars, queryVars>> /\ still' = Unwatched
  BY DEF MarkDeleted, UnmarkDeleted
<1>2. Known' = Known  BY <1>1 DEF insertVars, Known, Node
<1>3. qpc' = qpc /\ qry' = qry  BY <1>1 DEF queryVars
<1>4. still' => qpc = "start"  BY <1>1 DEF Unwatched
<1>. QED  BY <1>2, <1>3, <1>4 DEF QExact

(* A step of the query leaves known nodes, lists and distances alone.      *)
LEMMA QueryStands ==
  ASSUME UNCHANGED <<insertVars, markVars>>
  PROVE  /\ Known' = Known /\ Adjacent' = Adjacent /\ Distance' = Distance
         /\ deleted' = deleted
         /\ qry'.cur = qry.cur => Around' = Around /\ Live' = Live
<1>1. Known' = Known  BY DEF insertVars, Known, Node
<1>2. Adjacent' = Adjacent /\ Distance' = Distance
  BY DEF insertVars, Adjacent, Neighbours, Distance
<1>3. deleted' = deleted  BY DEF markVars
<1>4. ASSUME qry'.cur = qry.cur PROVE Around' = Around /\ Live' = Live
  <2>1. links' = links  BY DEF insertVars
  <2>2. Around' = Around  BY <1>4, <2>1, SameAround
  <2>. QED  BY <1>3, <2>2 DEF Live
<1>. QED  BY <1>1, <1>2, <1>3, <1>4

(* A query that begins has gone nowhere.                                   *)
LEMMA QueryStartExact ==
  ASSUME QInv, QExact, QueryStart
  PROVE  QExact'
<1>1. /\ UNCHANGED <<insertVars, markVars>> /\ qpc = "start" /\ qry' = qry
      /\ qpc' \in {"answered", "entry"}
  BY DEF QueryStart
<1>2. Known' = Known  BY <1>1, QueryStands
<1>3. qry'.cur = NoId /\ qry'.buf = << >>  BY <1>1 DEF QExact
<1>. QED  BY <1>1, <1>2, <1>3 DEF QExact

(* The search begins with one node, seen and, if live, found.              *)
LEMMA SearchBottomExact ==
  ASSUME QInv, Apart, QExact, SearchBottom
  PROVE  QExact'
<1>0. PICK n \in Known : n = qry.cur  BY DEF QExact, SearchBottom
<1>1. /\ qpc' = "search" /\ n \in Ids /\ n # NoId /\ qry.buf = << >>
      /\ UNCHANGED <<insertVars, markVars, result, history>>
  BY Consts DEF SearchBottom, Known, QExact
<1>2. PICK s : s = StartSearch(n, deleted)  OBVIOUS
<1>3. s.front = {n} /\ s.seen = {n} /\ s.found = {n} \ deleted  BY <1>2 DEF StartSearch
<1>4. qry' = [cur |-> n, l |-> qry.l, s |-> s, buf |-> << >>]
  BY <1>0, <1>1, <1>2, QueryLocals DEF SearchBottom
<1>5. qry'.cur = n /\ qry'.s = s /\ qry'.buf = << >>  BY <1>4
<1>6. Known' = Known /\ Adjacent' = Adjacent /\ deleted' = deleted  BY <1>1, QueryStands
<1>7. n \in Around'
  <2>1. \A S \in SUBSET Ids :
          qry'.cur \in S /\ (\A m \in S : Range(Neighbours(m, 0)') \subseteq S) => n \in S
    BY <1>5
  <2>. QED  BY <1>1, <2>1, Zenon DEF Around
<1>8. Cardinality(s.found) <= EfQuery
  <2>1. Cardinality({n}) = 1 /\ Cardinality({}) = 0  BY FS_Singleton, FS_EmptySet
  <2>2. s.found = {n} \/ s.found = {}  BY <1>3
  <2>3. EfQuery \in Nat \ {0}  BY HnswQueryAssumption DEF EfQuery
  <2>4. PICK c : c = Cardinality(s.found)  OBVIOUS
  <2>5. c = 1 \/ c = 0  BY <2>1, <2>2, <2>4
  <2>6. c <= EfQuery  BY <2>3, <2>5
  <2>. QED  BY <2>4, <2>6
<1>9. Sweeps(Adjacent, Around', deleted, s, {})  BY <1>3, <1>7, <1>8 DEF Sweeps
<1>10. Sweeping'
  <2>1. Range(qry'.buf) = {}  BY <1>5 DEF Range
  <2>2. Sweeps(Adjacent, Around, deleted, qry.s, Range(qry.buf))'
    BY <1>5, <1>6, <1>9, <2>1 DEF Sweeps
  <2>. QED  BY <1>3, <1>5, <2>2 DEF Sweeping
<1>. QED  BY <1>1, <1>5, <1>6, <1>10 DEF QExact

(* The entry point is a known node.                                        *)
LEMMA QueryEntryExact ==
  ASSUME QInv, Apart, QExact, QueryEntry
  PROVE  QExact'
<1>1. /\ UNCHANGED <<insertVars, markVars, result, history>> /\ qpc = "entry"
      /\ \/ qpc' = "answered" /\ qry' = qry
         \/ entry # NoId /\ qpc' = "descend" /\ qry' = [qry EXCEPT !.cur = entry, !.l = maxLevel]
         \/ entry # NoId /\ qpc' = "bottom" /\ qry' = [qry EXCEPT !.cur = entry]
  BY DEF QueryEntry
<1>2. Known' = Known  BY <1>1, QueryStands
<1>3. qry.cur = NoId /\ qry.buf = << >>  BY <1>1 DEF QExact
<1>4. entry # NoId => entry \in Known  BY ApartKnown DEF QInv
<1>5. CASE qpc' = "answered" /\ qry' = qry
  BY <1>2, <1>3, <1>5 DEF QExact
<1>6. CASE entry # NoId /\ qpc' = "descend" /\ qry' = [qry EXCEPT !.cur = entry, !.l = maxLevel]
  <2>1. qry' = [cur |-> entry, l |-> maxLevel, s |-> qry.s, buf |-> << >>]
    BY <1>3, <1>6, QueryLocals
  <2>2. qry'.cur = entry /\ qry'.buf = << >>  BY <2>1
  <2>. QED  BY <1>2, <1>4, <1>6, <2>2 DEF QExact
<1>7. CASE entry # NoId /\ qpc' = "bottom" /\ qry' = [qry EXCEPT !.cur = entry]
  <2>1. qry' = [cur |-> entry, l |-> qry.l, s |-> qry.s, buf |-> << >>]
    BY <1>3, <1>7, QueryLocals
  <2>2. qry'.cur = entry /\ qry'.buf = << >>  BY <2>1
  <2>. QED  BY <1>2, <1>4, <1>7, <2>2 DEF QExact
<1>. QED  BY <1>1, <1>5, <1>6, <1>7

(* The descent moves along links, which lead to known nodes.               *)
LEMMA QueryDescendExact ==
  ASSUME QInv, Apart, QExact, QueryDescend
  PROVE  QExact'
<1>1. UNCHANGED <<insertVars, markVars, result, history>> /\ qpc = "descend"
  BY DEF QueryDescend
<1>2. Known' = Known  BY <1>1, QueryStands
<1>3. qry.cur \in Known /\ qry.cur # NoId /\ qry.buf = << >>  BY <1>1 DEF QExact
<1>4. PICK l \in Nat : l = qry.l  BY QueryLocals
<1>5. PICK cur \in At(l) : cur = qry.cur  BY <1>1, <1>4 DEF QInv, QWalks
<1>6. \/ \E n \in Closer(Target, cur, l) : qry' = [qry EXCEPT !.cur = n] /\ UNCHANGED qpc
      \/ qry' = [qry EXCEPT !.l = @ - 1] /\ UNCHANGED qpc
      \/ qry' = [qry EXCEPT !.l = 0] /\ qpc' = "bottom"
  BY <1>4, <1>5 DEF QueryDescend
<1>7. ASSUME NEW n \in Closer(Target, cur, l), qry' = [qry EXCEPT !.cur = n], UNCHANGED qpc
      PROVE  QExact'
  <2>1. n \in Range(Neighbours(cur, l))  BY DEF Closer, Nearest
  <2>2. n \in Known /\ n # NoId  BY <2>1, ApartKnown, Consts DEF QInv, Known
  <2>3. qry' = [cur |-> n, l |-> qry.l, s |-> qry.s, buf |-> qry.buf]  BY <1>7, QueryLocals
  <2>4. qry'.cur = n /\ qry'.buf = << >>  BY <1>3, <2>3
  <2>. QED  BY <1>1, <1>2, <1>7, <2>2, <2>4 DEF QExact
<1>8. CASE qry' = [qry EXCEPT !.l = @ - 1] /\ UNCHANGED qpc
  <2>1. qry' = [cur |-> qry.cur, l |-> qry.l - 1, s |-> qry.s, buf |-> qry.buf]
    BY <1>8, QueryLocals
  <2>2. qry'.cur = qry.cur /\ qry'.buf = << >>  BY <1>3, <2>1
  <2>. QED  BY <1>1, <1>2, <1>3, <1>8, <2>2 DEF QExact
<1>9. CASE qry' = [qry EXCEPT !.l = 0] /\ qpc' = "bottom"
  <2>1. qry' = [cur |-> qry.cur, l |-> 0, s |-> qry.s, buf |-> qry.buf]  BY <1>9, QueryLocals
  <2>2. qry'.cur = qry.cur /\ qry'.buf = << >>  BY <1>3, <2>1
  <2>. QED  BY <1>1, <1>2, <1>3, <1>9, <2>2 DEF QExact
<1>. QED  BY <1>6, <1>7, <1>8, <1>9

(* A node that leaves the frontier leaves its neighbours in the copy.      *)
LEMMA QueryCopyExact ==
  ASSUME QInv, Apart, QExact, QueryCopy
  PROVE  QExact'
<1>1. /\ UNCHANGED <<insertVars, markVars>> /\ qpc = "search" /\ qpc' = qpc /\ still' = still
      /\ qry.buf = << >>
  BY DEF QueryCopy, history
<1>2. PICK n \in Nearest(data, Target, qry.s.front) :
        qry' = [qry EXCEPT !.s.front = @ \ {n}, !.buf = Neighbours(n, 0)]
  BY DEF QueryCopy
<1>3. n \in qry.s.front  BY DEF Nearest
<1>4. PICK ns : ns = Neighbours(n, 0)  OBVIOUS
<1>5. PICK s : s = [qry.s EXCEPT !.front = @ \ {n}]  OBVIOUS
<1>6. s.front = qry.s.front \ {n} /\ s.found = qry.s.found /\ s.seen = qry.s.seen
  BY <1>5, QueryLocals DEF Searches
<1>7. qry' = [cur |-> qry.cur, l |-> qry.l, s |-> s, buf |-> ns]
  BY <1>2, <1>4, <1>5, QueryLocals
<1>8. qry'.cur = qry.cur /\ qry'.s = s /\ qry'.buf = ns  BY <1>7
<1>9. /\ Known' = Known /\ Adjacent' = Adjacent /\ deleted' = deleted /\ Around' = Around
  BY <1>1, <1>8, QueryStands
<1>10. qry.cur \in Known /\ qry.cur # NoId  BY <1>1 DEF QExact
<1>11. ASSUME still PROVE Sweeping'
  <2>1. Sweeping  BY <1>1, <1>11 DEF QExact
  <2>2. Range(qry.buf) = {}  BY <1>1 DEF Range
  <2>3. qry.cur \in qry.s.seen /\ Sweeps(Adjacent, Around, deleted, qry.s, {})
    BY <2>1, <2>2 DEF Sweeping
  <2>4. /\ n \in Around /\ n \in Ids
        /\ Adjacent[n] = Range(ns) /\ Adjacent[n] \subseteq Around
    <3>1. n \in Around  BY <1>3, <2>3 DEF Sweeps
    <3>2. /\ \A m \in Ids : Adjacent[m] = Range(Neighbours(m, 0)) /\ Adjacent[m] \in SUBSET Ids
          /\ Around = Reached(Adjacent, qry.cur) /\ qry.cur \in Ids /\ Around \in SUBSET Ids
      BY <1>10, AroundIs DEF QInv
    <3>3. \A m \in Around : Adjacent[m] \subseteq Around
      BY <3>2, ReachedIs
    <3>. QED  BY <1>4, <3>1, <3>2, <3>3
  <2>5. Sweeps(Adjacent, Around, deleted, s, Range(ns))
    BY <1>6, <2>3, <2>4 DEF Sweeps
  <2>6. Sweeps(Adjacent, Around, deleted, qry.s, Range(qry.buf))'
    BY <1>8, <1>9, <2>5 DEF Sweeps
  <2>. QED  BY <1>6, <1>8, <2>3, <2>6 DEF Sweeping
<1>. QED  BY <1>1, <1>8, <1>9, <1>10, <1>11 DEF QExact

(* A candidate looked at is seen, and found if it is live and there is     *)
(* room.                                                                   *)
LEMMA QueryLookExact ==
  ASSUME QInv, Apart, QExact, QueryLook
  PROVE  QExact'
<1>1. /\ UNCHANGED <<insertVars, markVars>> /\ qpc = "search" /\ qpc' = qpc /\ still' = still
      /\ qry.buf # << >>
  BY DEF QueryLook, history
<1>2. PICK b \in Seq(Ids) : b = qry.buf /\ b # << >>  BY <1>1, QueryLocals
<1>3. PICK n, ns : n = Head(b) /\ ns = Tail(b)  OBVIOUS
<1>4. /\ n \in Range(b) /\ Range(ns) \subseteq Range(b) /\ Range(b) \subseteq Range(ns) \cup {n}
  <2>1. /\ DOMAIN b = 1..Len(b) /\ Len(b) \in Nat \ {0} /\ n = b[1]
        /\ DOMAIN ns = 1..(Len(b) - 1) /\ \A i \in 1..(Len(b) - 1) : ns[i] = b[i+1]
    BY <1>2, <1>3
  <2>2. 1 \in DOMAIN b /\ \A i \in DOMAIN ns : i + 1 \in DOMAIN b  BY <2>1
  <2>3. \A i \in DOMAIN b : i = 1 \/ (i - 1 \in DOMAIN ns /\ ns[i - 1] = b[i])  BY <2>1
  <2>. QED  BY <2>1, <2>2, <2>3 DEF Range
<1>5. PICK s0 \in Searches(Ids, Ids) : s0 = qry.s  BY QueryLocals
<1>6. PICK s : s = Absorb(data, Target, EfQuery, deleted, s0, n)  OBVIOUS
<1>7. qry' = [cur |-> qry.cur, l |-> qry.l, s |-> s, buf |-> ns]
  BY <1>2, <1>3, <1>5, <1>6, QueryLocals DEF QueryLook
<1>8. qry'.cur = qry.cur /\ qry'.s = s /\ qry'.buf = ns  BY <1>7
<1>9. Known' = Known /\ Adjacent' = Adjacent /\ deleted' = deleted /\ Around' = Around
  BY <1>1, <1>8, QueryStands
<1>10. qry.cur \in Known /\ qry.cur # NoId  BY <1>1 DEF QExact
<1>11. ASSUME still PROVE Sweeping'
  <2>1. qry.cur \in s0.seen /\ Sweeps(Adjacent, Around, deleted, s0, Range(b))
    BY <1>1, <1>2, <1>5, <1>11 DEF QExact, Sweeping
  <2>2. data \in [Ids -> Int] /\ Around \in SUBSET Ids
    BY <1>10, AroundIs DEF QInv, IInv, Types
  <2>3. /\ Sweeps(Adjacent, Around, deleted, Absorb(data, Target, EfQuery, deleted, s0, n), Range(ns))
        /\ s0.seen \subseteq Absorb(data, Target, EfQuery, deleted, s0, n).seen
    BY <1>4, <2>1, <2>2, AbsorbSweeps, Zenon
  <2>4. Sweeps(Adjacent, Around, deleted, s, Range(ns)) /\ s0.seen \subseteq s.seen
    BY <1>6, <2>3
  <2>5. Sweeps(Adjacent, Around, deleted, qry.s, Range(qry.buf))'
    BY <1>8, <1>9, <2>4 DEF Sweeps
  <2>. QED  BY <1>8, <2>1, <2>4, <2>5 DEF Sweeping
<1>. QED  BY <1>1, <1>8, <1>9, <1>10, <1>11 DEF QExact

(* The search is over, and what it returns is the answer.                  *)
LEMMA QueryReturnExact ==
  ASSUME QInv, Apart, QExact, QueryReturn
  PROVE  QExact'
<1>1. /\ UNCHANGED <<insertVars, markVars>> /\ qpc = "search" /\ qpc' = "answered"
      /\ still' = still /\ qry.buf = << >> /\ SearchOver(data, Target, EfQuery, qry.s)
      /\ qry' = [NoQuery EXCEPT !.cur = qry.cur]
  BY DEF QueryReturn, history
<1>2. PICK s \in Searches(Ids, Ids) : s = qry.s  BY QueryLocals
<1>3. PICK T \in SUBSET s.found :
        /\ Cardinality(T) = AtMostK(Cardinality(s.found))
        /\ \A n \in T, m \in s.found \ T : Dist(Target, data[n]) <= Dist(Target, data[m])
        /\ result' = Sorted(data, Target, SetToSeq(T))
  BY <1>2, Zenon DEF QueryReturn, AtMostK
<1>4. qry'.cur = qry.cur  BY <1>1 DEF NoQuery
<1>5. Known' = Known /\ Distance' = Distance /\ Live' = Live  BY <1>1, <1>4, QueryStands
<1>6. qry.cur \in Known /\ qry.cur # NoId  BY <1>1 DEF QExact
<1>7. ASSUME still PROVE Answered'
  <2>1. qry.cur \in s.seen /\ Sweeps(Adjacent, Around, deleted, s, {})
    <3>1. Range(qry.buf) = {}  BY <1>1 DEF Range
    <3>. QED  BY <1>1, <1>2, <1>7, <3>1 DEF QExact, Sweeping
  <2>2. s.front = {} \/ Cardinality(s.found) >= EfQuery  BY <1>1, <1>2 DEF SearchOver
  <2>3. Around = Reached(Adjacent, qry.cur) /\ Around \in SUBSET Ids
    BY <1>6, AroundIs DEF QInv
  <2>4. /\ s.found \subseteq Live
        /\ s.found = Live \/ Cardinality(s.found) >= EfQuery
    <3>1. /\ s.found \subseteq Around \ deleted
          /\ s.found = Around \ deleted \/ Cardinality(s.found) >= EfQuery
      BY <2>1, <2>2, <2>3, SweepEnds
    <3>. QED  BY <3>1 DEF Live
  <2>5. /\ IsFiniteSet(Live) /\ IsFiniteSet(s.found) /\ IsFiniteSet(T)
        /\ Cardinality(Live) \in Nat /\ Cardinality(s.found) \in Nat
        /\ Cardinality(s.found) <= Cardinality(Live)
        /\ Cardinality(s.found) = Cardinality(Live) => s.found = Live
    <3>1. Live \in SUBSET Ids /\ IsFiniteSet(Ids)  BY <2>3, Consts DEF Live
    <3>2. IsFiniteSet(Live)  BY <3>1, FS_Subset
    <3>. QED  BY <2>4, <3>2, FS_Subset, FS_CardinalityType
  <2>6. K \in Nat \ {0} /\ EfQuery \in Nat /\ EfQuery >= K
    BY HnswQueryAssumption DEF EfQuery
  <2>7. Cardinality(T) = AtMostK(Cardinality(Live))
    BY <1>3, <2>4, <2>5, <2>6 DEF AtMostK
  <2>8. T \in SUBSET Ids /\ T \in SUBSET Live /\ Live \in SUBSET Ids
    BY <2>3, <2>4 DEF Live
  <2>9. Orders(Distance, result', T)
    <3>1. data \in [Ids -> Int] /\ Target \in Int /\ Ids \in SUBSET Int
      BY Consts, HnswQueryAssumption DEF QInv, IInv, Types
    <3>2. Distance = [n \in Ids |-> Dist(Target, data[n])]  BY DEF Distance
    <3>3. Orders(Distance, Sorted(data, Target, SetToSeq(T)), T)
      BY <2>5, <2>8, <3>1, <3>2, SortedSet, Zenon
    <3>. QED  BY <1>3, <3>3
  <2>10. result' \in Seq(Live) /\ IsInjective(result') /\ Len(result') = AtMostK(Cardinality(Live))
    <3>1. result' \in Seq(T) /\ IsInjective(result') /\ Len(result') = Cardinality(T)
      BY <2>9 DEF Orders
    <3>. QED  BY <2>7, <2>8, <3>1, SeqMono
  <2>11. ASSUME EfQuery >= Cardinality(Live) PROVE Leads(Distance, result', Live)
    <3>1. s.found = Live  BY <2>4, <2>5, <2>6, <2>11
    <3>2. \A n \in T, m \in Live \ T : Distance[n] <= Distance[m]
      BY <1>3, <2>8, <3>1 DEF Distance
    <3>. QED  BY <2>8, <2>9, <3>2, PartLeads, Zenon
  <2>. QED  BY <1>5, <2>10, <2>11 DEF Answered
<1>8. qry'.buf = << >>  BY <1>1 DEF NoQuery
<1>. QED  BY <1>1, <1>4, <1>5, <1>6, <1>7, <1>8 DEF QExact

(* Before a query nothing is claimed.                                      *)
LEMMA NoQueryExact ==
  ASSUME qpc = "start", qry = NoQuery
  PROVE  QExact
<1>1. NoQuery.cur = NoId /\ NoQuery.buf = << >>  BY DEF NoQuery
<1>. QED  BY <1>1 DEF QExact

(* Nor after one.                                                          *)
LEMMA QueryAgainExact ==
  ASSUME QueryAgain
  PROVE  QExact'
<1>1. NoQuery.cur = NoId /\ NoQuery.buf = << >>  BY DEF NoQuery
<1>2. qpc' = "start" /\ qry' = NoQuery  BY DEF QueryAgain
<1>. QED  BY <1>1, <1>2 DEF QExact

(* A graph that stands still gets the right answer: the invariant says so  *)
(* in terms of what leads what.                                            *)
LEMMA ExactAnswers ==
  ASSUME QInv, Apart, QExact
  PROVE  QueryExact
<1>. SUFFICES ASSUME qpc = "answered", still, qry.cur # NoId
              PROVE  /\ Len(result) = Len(BruteForce(Live))
                     /\ IsInjective(result) /\ Range(result) \subseteq Live
                     /\ EfQuery >= Cardinality(Live) => Far(result) = Far(BruteForce(Live))
  BY DEF QueryExact, Live
<1>1. Answered /\ qry.cur \in Known  BY DEF QExact
<1>2. Live \in SUBSET Ids /\ IsFiniteSet(Live) /\ Cardinality(Live) \in Nat
  <2>1. Live \in SUBSET Ids  BY <1>1, AroundIs DEF QInv, Live
  <2>. QED  BY <2>1, Consts, FS_Subset, FS_CardinalityType
<1>3. data \in [Ids -> Int] /\ Target \in Int /\ Ids \in SUBSET Int /\ K \in Nat
  BY Consts, HnswQueryAssumption DEF QInv, IInv, Types
<1>4. PICK all : all = Sorted(data, Target, SetToSeq(Live))  OBVIOUS
<1>5. Orders(Distance, all, Live)
  <2>1. Distance = [n \in Ids |-> Dist(Target, data[n])]  BY DEF Distance
  <2>. QED  BY <1>2, <1>3, <1>4, <2>1, SortedSet, Zenon
<1>6. Len(all) = Cardinality(Live)  BY <1>5 DEF Orders
<1>7. PICK z \in Nat : z = AtMostK(Cardinality(Live)) /\ z <= Cardinality(Live)
  BY <1>2, <1>3 DEF AtMostK
<1>8. PICK best : best = BruteForce(Live)  OBVIOUS
<1>9. best = SubSeq(all, 1, z)  BY <1>4, <1>6, <1>7, <1>8 DEF BruteForce, AtMostK
<1>10. Leads(Distance, best, Live) /\ Len(best) = z
  BY <1>5, <1>6, <1>7, <1>9, PrefixLeads
<1>11. result \in Seq(Live) /\ IsInjective(result) /\ Len(result) = z
  BY <1>1, <1>7 DEF Answered
<1>12. Range(result) \subseteq Live  BY <1>11 DEF Range
<1>13. ASSUME EfQuery >= Cardinality(Live) PROVE Far(result) = Far(best)
  <2>1. Leads(Distance, result, Live)  BY <1>1, <1>13 DEF Answered
  <2>2. \A n \in Live : Distance[n] = Dist(Target, data[n])  BY <1>2 DEF Distance
  <2>3. Measures(Distance, Live)
    <3>. SUFFICES ASSUME NEW n \in Live PROVE Distance[n] \in Int  BY DEF Measures
    <3>1. data[n] \in Int  BY <1>2, <1>3
    <3>. QED  BY <1>3, <2>2, <3>1, DistNat
  <2>4. /\ DOMAIN result = DOMAIN best
        /\ \A i \in DOMAIN result : Distance[result[i]] = Distance[best[i]]
    <3>1. Leads(Distance, best, Live) /\ Len(result) = Len(best)  BY <1>10, <1>11
    <3>2. Alike(Distance, result, best)  BY <2>1, <2>3, <3>1, SameDistances, Zenon
    <3>. QED  BY <3>2 DEF Alike
  <2>5. best \in Seq(Live)  BY <1>10 DEF Leads
  <2>6. \A i \in DOMAIN result : result[i] \in Live /\ best[i] \in Live
    BY <1>11, <2>4, <2>5
  <2>7. \A i \in DOMAIN result : Dist(Target, data[result[i]]) = Dist(Target, data[best[i]])
    BY <2>2, <2>4, <2>6
  <2>. QED  BY <2>4, <2>7 DEF Far
<1>. QED  BY <1>8, <1>10, <1>11, <1>12, <1>13

(* QExact is an invariant of search beside inserts and marks, whose own    *)
(* invariant Apart it needs.                                               *)
LEMMA QuerySweeps == QuerySpec => [](Apart /\ QExact)
<1>1. QueryInit => Apart /\ QExact
  BY InitApart, NoQueryExact DEF QueryInit
<1>2. QInv /\ Apart /\ QExact /\ [QueryNext]_allVars => Apart' /\ QExact'
  <2>. SUFFICES ASSUME QInv, Apart, QExact, [QueryNext]_allVars PROVE Apart' /\ QExact'
    OBVIOUS
  <2>1. CASE UNCHANGED allVars
    <3>1. UNCHANGED <<insertVars, markVars, queryVars, history>>  BY <2>1 DEF allVars
    <3>2. Apart'  BY <3>1, Unchanged, StutterApart
    <3>3. /\ Known' = Known /\ links' = links /\ data' = data /\ deleted' = deleted /\ still' = still
      BY <3>1 DEF insertVars, markVars, history, Known, Node
    <3>4. QExact'  BY <3>1, <3>3, ExactStays DEF QInv
    <3>. QED  BY <3>2, <3>4
  <2>2. CASE QueryStep
    <3>1. UNCHANGED insertVars
      BY <2>2 DEF QueryStep, QueryStart, QueryEntry, QueryDescend, SearchBottom, QueryCopy,
                  QueryLook, QueryReturn, QueryAgain
    <3>2. Apart'  BY <3>1, Unchanged, StutterApart
    <3>3. QExact'
      BY <2>2, QueryStartExact, QueryEntryExact, QueryDescendExact, SearchBottomExact,
         QueryCopyExact, QueryLookExact, QueryReturnExact, QueryAgainExact DEF QueryStep
    <3>. QED  BY <3>2, <3>3
  <2>3. CASE \E t \in Threads : InsertStep(t)
    <3>1. PICK t \in Threads : InsertStep(t)  BY <2>3
    <3>2. Apart'  BY <3>1, StepApart DEF InsertStep, QInv
    <3>. QED  BY <3>1, <3>2, InsertExact
  <2>4. CASE \E lab \in Markable : MarkDeleted(lab) \/ UnmarkDeleted(lab)
    <3>1. PICK lab \in Markable : MarkDeleted(lab) \/ UnmarkDeleted(lab)  BY <2>4
    <3>2. UNCHANGED insertVars  BY <3>1 DEF MarkDeleted, UnmarkDeleted
    <3>3. Apart'  BY <3>2, Unchanged, StutterApart
    <3>. QED  BY <3>1, <3>3, MarkExact
  <2>. QED  BY <2>1, <2>2, <2>3, <2>4 DEF QueryNext
<1>. QED  BY <1>1, <1>2, QueryInvariance, PTL DEF QuerySpec

(* A query on a graph that stands still returns k nodes, or all live ones  *)
(* that it can reach, each once, and with ef no less than their number at  *)
(* the distances of an exact search over them.                             *)
THEOREM QueryIsExact == QuerySpec => []QueryExact
BY ExactAnswers, QuerySweeps, QueryInvariance, PTL
=============================================================================
