-------------------------- MODULE HnswActiveProofs --------------------------
(***************************************************************************)
(* Proofs about activeSize beside concurrent addPoint, markDeleted and     *)
(* unmarkDeleted, for every size of the index.  To the invariant of the    *)
(* inserts and marks is added what the first read still says at the time   *)
(* of the second: slots keep their owners, so the marks counted first are  *)
(* on nodes that are counted later; and a count read first covers the      *)
(* marks as long as none is added.                                         *)
(***************************************************************************)
EXTENDS HnswActive, HnswQueryProofs

ATypes ==
  /\ first \in Counters \cup {"none"} /\ got \in Nat
  /\ between \in {"nothing", "other", "mark"}
  /\ first = "none" => between = "nothing"

\* What the first read says of the index now.
AHalf ==
  /\ first = "numDeleted" => got <= Cardinality(Owners)
  /\ first = "count" /\ between # "mark" => numDeleted <= got
  /\ first # "none" /\ between = "nothing" => got = Value(first)

AInv == QInv /\ ATypes /\ AHalf

-----------------------------------------------------------------------------
(* As many inserts own a deleted slot as there are deleted slots.          *)
LEMMA MarkedOwners ==
  ASSUME QInv
  PROVE  /\ IsFiniteSet(deleted)
         /\ Cardinality({t \in Owners : Node(t) \in deleted}) = Cardinality(deleted)
<1>. DEFINE D == {t \in Owners : Node(t) \in deleted}
            f == [t \in D |-> Node(t)]
<1>1. IsFiniteSet(deleted)  BY Consts, FS_Subset DEF QInv, QTypes
<1>2. IsFiniteSet(D)  BY ThreadSets, FS_Subset
<1>3. f \in [D -> deleted]  OBVIOUS
<1>4. \A t, u \in D : f[t] = f[u] => t = u  BY DEF QInv, IInv, Slots, Owners
<1>5. \A n \in deleted : \E t \in D : f[t] = n  BY DEF QInv, QMarks, Taken
<1>6. f \in Bijection(D, deleted)
  BY <1>3, <1>4, <1>5 DEF Bijection, Injection, Surjection, IsInjective
<1>7. Cardinality(D) = Cardinality(deleted)
  BY <1>1, <1>2, <1>6, FS_Bijection DEF ExistsBijection
<1>. QED  BY <1>1, <1>7

(* count_ covers the slots that have owners, and those the marks.          *)
LEMMA CountCovers ==
  ASSUME QInv
  PROVE  /\ numDeleted \in Nat /\ count \in Nat /\ Cardinality(Owners) \in Nat
         /\ numDeleted <= Cardinality(Owners) /\ Cardinality(Owners) <= count
<1>. DEFINE D == {t \in Owners : Node(t) \in deleted}
<1>1. numDeleted = Cardinality(D)  BY MarkedOwners DEF QInv, QMarks
<1>2. D \subseteq Owners /\ Cardinality(D) \in Nat /\ Cardinality(D) <= Cardinality(Owners)
  BY ThreadSets, FS_Subset, FS_CardinalityType
<1>3. count = Cardinality(Owners) + Cardinality(Giving)  BY DEF QInv, IInv, Slots
<1>. HIDE DEF D
<1>. QED  BY <1>1, <1>2, <1>3, ThreadSets

(* When all inserts have returned, the difference of the counters is the   *)
(* number of live nodes.                                                   *)
LEMMA QuietDifference ==
  ASSUME QInv, \A t \in Threads : Done(t)
  PROVE  count - numDeleted = Cardinality(Alive)
<1>. DEFINE D == {t \in Owners : Node(t) \in deleted}
<1>1. numDeleted = Cardinality(D)  BY MarkedOwners DEF QInv, QMarks
<1>2. D \subseteq Owners  OBVIOUS
<1>3. Alive = Owners \ D
  <2>1. \A t \in Threads : pc[t] = "ok" <=> t \in Owners
    BY DEF Done, QInv, IInv, Slots, NoSlot, Owners
  <2>. QED  BY <2>1 DEF Owners, Alive
<1>4. Giving = {}  BY DEF Giving, Done
<1>5. count = Cardinality(Owners)
  BY <1>4, ThreadSets, FS_EmptySet DEF QInv, IInv, Slots
<1>6. Cardinality(Owners \ D) = Cardinality(Owners) - Cardinality(D)
  <2>1. Owners \cap D = D  BY <1>2
  <2>. HIDE DEF D
  <2>. QED  BY <1>2, <2>1, ThreadSets, FS_Difference
<1>. QED  BY <1>1, <1>3, <1>5, <1>6

(* No slot loses its owner.                                                *)
LEMMA OwnersGrow ==
  ASSUME QInv, NEW t \in Threads, InsertStep(t)
  PROVE  Cardinality(Owners) <= Cardinality(Owners') /\ Cardinality(Owners') \in Nat
<1>1. Owners \subseteq Owners'  BY StepKeeps DEF QInv, InsertStep, Owners
<1>2. IsFiniteSet(Owners')  BY ThreadSets, FS_Subset, HnswInsertAssumption DEF Owners
<1>. QED  BY <1>1, <1>2, FS_Subset, FS_CardinalityType

(* Inserts beside activeSize: the marks stay and the slots in use grow.    *)
LEMMA InsertBesideInv ==
  ASSUME AInv, NEW t \in Threads, InsertBeside(t)
  PROVE  AInv'
<1>. USE DEF AInv
<1>1. QInv'  BY InsertStepInv DEF InsertBeside
<1>2. /\ first' = first /\ got' = got /\ numDeleted' = numDeleted
      /\ between' = IF first = "none" \/ between = "mark" THEN between ELSE "other"
  BY DEF InsertBeside, Beside, InsertStep, markVars
<1>3. Cardinality(Owners) <= Cardinality(Owners') /\ Cardinality(Owners') \in Nat
  BY OwnersGrow DEF InsertBeside
<1>4. Cardinality(Owners) \in Nat  BY CountCovers
<1>5. ATypes'  BY <1>2 DEF ATypes
<1>6. AHalf'  BY <1>2, <1>3, <1>4 DEF AHalf, ATypes
<1>. QED  BY <1>1, <1>5, <1>6

(* A mark beside activeSize is remembered.                                 *)
LEMMA MarkBesideInv ==
  ASSUME AInv, NEW lab \in Markable, MarkBeside(lab)
  PROVE  AInv'
<1>. USE DEF AInv
<1>1. QInv'  BY MarkDeletedInv DEF MarkBeside
<1>2. /\ first' = first /\ got' = got /\ UNCHANGED insertVars
      /\ between' = IF first = "none" \/ between = "mark" THEN between ELSE "mark"
  BY DEF MarkBeside, Beside, MarkDeleted
<1>3. Owners' = Owners  BY <1>2 DEF insertVars, Owners, Node
<1>4. ATypes'  BY <1>2 DEF ATypes
<1>5. AHalf'  BY <1>2, <1>3 DEF AHalf, ATypes
<1>. QED  BY <1>1, <1>4, <1>5

(* An undelete beside activeSize leaves fewer marks.                       *)
LEMMA UnmarkBesideInv ==
  ASSUME AInv, NEW lab \in Markable, UnmarkBeside(lab)
  PROVE  AInv'
<1>. USE DEF AInv
<1>1. QInv'  BY UnmarkDeletedInv DEF UnmarkBeside
<1>2. /\ first' = first /\ got' = got /\ UNCHANGED insertVars /\ numDeleted' = numDeleted - 1
      /\ between' = IF first = "none" \/ between = "mark" THEN between ELSE "other"
  BY DEF UnmarkBeside, Beside, UnmarkDeleted
<1>3. Owners' = Owners  BY <1>2 DEF insertVars, Owners, Node
<1>4. ATypes'  BY <1>2 DEF ATypes
<1>5. numDeleted \in Nat  BY CountCovers
<1>6. AHalf'  BY <1>2, <1>3, <1>5 DEF AHalf, ATypes
<1>. QED  BY <1>1, <1>4, <1>6

(* Outside of a call there is nothing to say.                              *)
LEMMA NoCall ==
  ASSUME first = "none", got = 0, between = "nothing"
  PROVE  ATypes /\ AHalf
BY DEF ATypes, AHalf, Counters

(* The steps of activeSize leave the index alone.                          *)
LEMMA IndexFrame ==
  ASSUME QInv, UNCHANGED allVars
  PROVE  QInv' /\ Owners' = Owners /\ count' = count /\ numDeleted' = numDeleted
<1>1. UNCHANGED <<insertVars, markVars, queryVars, history>>  BY DEF allVars
<1>2. QHidden'  BY <1>1 DEF QInv, QHidden, queryVars, history
<1>3. /\ dead' \in SUBSET deleted /\ qpc' \in QStages /\ qry' \in QLocals /\ result' \in Seq(Ids)
      /\ qpc' = "descend" => qry'.cur \in At(qry'.l)
      /\ qpc' = "bottom" => qry'.cur # NoId
  BY <1>1 DEF QInv, QTypes, QWalks, queryVars, history
<1>4. QInv'  BY <1>1, <1>2, <1>3, QueryFrame
<1>. QED  BY <1>1, <1>4 DEF insertVars, markVars, Owners, Node

(* A query is no call of activeSize.                                       *)
LEMMA QueryOnlyInv ==
  ASSUME AInv, QueryOnly
  PROVE  AInv'
<1>1. QInv'  BY QueryStepInv DEF QueryOnly, AInv
<1>2. first' = "none" /\ got' = got /\ between' = between /\ first = "none"  BY DEF QueryOnly
<1>3. ATypes' /\ AHalf'  BY <1>2 DEF AInv, ATypes, AHalf
<1>. QED  BY <1>1, <1>3 DEF AInv

(* The first read: at that moment the marks are on slots that are counted. *)
LEMMA ReadFirstInv ==
  ASSUME AInv, NEW c \in Counters, ReadFirst(c)
  PROVE  AInv'
<1>. USE DEF AInv
<1>1. QInv' /\ Owners' = Owners /\ count' = count /\ numDeleted' = numDeleted
  BY IndexFrame DEF ReadFirst
<1>2. first' = c /\ got' = Value(c) /\ between' = between /\ first = "none"  BY DEF ReadFirst
<1>3. c \in {"count", "numDeleted"}  BY DEF Counters
<1>4. ATypes'  BY <1>2, <1>3, CountCovers DEF ATypes, Value, Counters
<1>5. AHalf'  BY <1>1, <1>2, <1>3, CountCovers DEF AHalf, Value
<1>. QED  BY <1>1, <1>4, <1>5

(* AInv is an invariant of activeSize beside inserts and marks.            *)
LEMMA ActiveInvariance == ActiveSpec => []AInv
<1>1. ActiveInit => AInv
  BY QueryInitInv, NoCall DEF ActiveInit, AInv
<1>2. AInv /\ [ActiveNext]_activeVars => AInv'
  <2>. SUFFICES ASSUME AInv, [ActiveNext]_activeVars PROVE AInv'  OBVIOUS
  <2>1. CASE UNCHANGED activeVars
    <3>1. UNCHANGED allVars /\ UNCHANGED <<first, got, between>>  BY <2>1 DEF activeVars
    <3>2. QInv' /\ Owners' = Owners /\ count' = count /\ numDeleted' = numDeleted
      BY <3>1, IndexFrame DEF AInv
    <3>3. ATypes' /\ AHalf'  BY <3>1, <3>2 DEF AInv, ATypes, AHalf, Value
    <3>. QED  BY <3>2, <3>3 DEF AInv
  <2>2. CASE \E t \in Threads : InsertBeside(t)  BY <2>2, InsertBesideInv
  <2>3. CASE \E lab \in Markable : MarkBeside(lab) \/ UnmarkBeside(lab)
    BY <2>3, MarkBesideInv, UnmarkBesideInv
  <2>4. CASE QueryOnly  BY <2>4, QueryOnlyInv
  <2>5. CASE \E c \in Counters : ReadFirst(c)  BY <2>5, ReadFirstInv
  <2>6. CASE ReadSecond
    <3>1. QInv'  BY <2>6, IndexFrame DEF AInv, ReadSecond
    <3>2. first' = "none" /\ got' = 0 /\ between' = "nothing"  BY <2>6 DEF ReadSecond
    <3>3. ATypes' /\ AHalf'  BY <3>2 DEF ATypes, AHalf, Counters
    <3>. QED  BY <3>1, <3>3 DEF AInv
  <2>. QED  BY <2>1, <2>2, <2>3, <2>4, <2>5, <2>6 DEF ActiveNext
<1>. QED  BY <1>1, <1>2, PTL DEF ActiveSpec

(* activeSize(), two reads under no lock beside inserts, deletes and       *)
(* undeletes, wraps round only if count_ is read first and a node is       *)
(* deleted before numDeleted_ is read; and it is the number of live nodes  *)
(* when all inserts have returned and nothing comes in between.            *)
THEOREM ActiveSizeIsRight == ActiveSpec => []ActiveSizeRight
<1>1. AInv => ActiveSizeRight
  <2>. SUFFICES ASSUME AInv, first # "none" PROVE ActiveSizeRight  BY DEF ActiveSizeRight
  <2>. USE DEF AInv
  <2>1. first \in {"count", "numDeleted"} /\ got \in Nat  BY DEF ATypes, Counters
  <2>2. Counted \in Nat /\ Deleted \in Nat  BY <2>1, CountCovers DEF Counted, Deleted
  <2>3. Deleted <= Counted => ActiveSize = Counted - Deleted /\ ActiveSize <= Counted
    BY <2>2 DEF ActiveSize, Minus
  <2>4. first = "numDeleted" \/ between # "mark" => Deleted <= Counted
    BY <2>1, CountCovers DEF AHalf, Counted, Deleted
  <2>5. ASSUME between = "nothing", \A t \in Threads : Done(t)
        PROVE  ActiveSize = Cardinality(Alive)
    <3>1. Counted = count /\ Deleted = numDeleted
      BY <2>1, <2>5 DEF AHalf, Value, Counted, Deleted
    <3>2. numDeleted <= count  BY CountCovers
    <3>. QED  BY <2>3, <2>5, <3>1, <3>2, QuietDifference
  <2>. QED  BY <2>3, <2>4, <2>5 DEF ActiveSizeRight
<1>. QED  BY <1>1, ActiveInvariance, PTL

(* What is said of queries holds for those of a reader that calls          *)
(* activeSize between them.                                                *)
LEMMA QueriesAsBefore == ActiveSpec => QuerySpec
<1>1. ActiveInit => QueryInit  BY DEF ActiveInit
<1>2. [ActiveNext]_activeVars => [QueryNext]_allVars
  BY DEF ActiveNext, activeVars, QueryNext, InsertBeside, MarkBeside, UnmarkBeside, QueryOnly,
         ReadFirst, ReadSecond
<1>. QED  BY <1>1, <1>2, PTL DEF ActiveSpec, QuerySpec
=============================================================================
