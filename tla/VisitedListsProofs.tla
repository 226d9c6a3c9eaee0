------------------------- MODULE VisitedListsProofs -------------------------
(***************************************************************************)
(* Proofs about VisitedLists for every number of threads, nodes and tags.  *)
(* The heart is that no mark of a list is ever above the list's tag: then  *)
(* the next tag is new to the list, or the list is cleared.                *)
(***************************************************************************)
EXTENDS VisitedLists, FiniteSetTheorems, TLAPS

-----------------------------------------------------------------------------
(* One list.                                                               *)

\* No mark is above the tag.
Below(v) == \A n \in Nodes : v.marks[n] <= v.cur

(* A new list: every node counts as visited until the first reset.         *)
LEMMA FreshListBelow == FreshList \in Lists /\ Below(FreshList)
  BY VisitedListsAssumption DEF FreshList, Lists, Below

(* reset takes a tag that no mark of the list has.                         *)
LEMMA ResetFresh ==
  ASSUME NEW v \in Lists, Below(v)
  PROVE  /\ Reset(v) \in Lists
         /\ Below(Reset(v))
         /\ \A n \in Nodes : ~ Visited(Reset(v), n)
  <1>1. v.cur \in 0 .. (Tags - 1) /\ v.marks \in [Nodes -> 0 .. (Tags - 1)]
    BY DEF Lists
  <1>2. CASE v.cur + 1 = Tags
    <2>1. (v.cur + 1) % Tags = 0
      BY <1>1, <1>2, VisitedListsAssumption
    <2>2. Reset(v) = [marks |-> [n \in Nodes |-> 0], cur |-> 1]
      BY <2>1 DEF Reset, FreshList
    <2> QED
      BY <2>2, VisitedListsAssumption DEF Lists, Below, Visited
  <1>3. CASE v.cur + 1 < Tags
    <2>1. (v.cur + 1) % Tags = v.cur + 1 /\ v.cur + 1 # 0
      BY <1>1, <1>3, VisitedListsAssumption
    <2>2. Reset(v) = [v EXCEPT !.cur = v.cur + 1]
      BY <2>1 DEF Reset
    <2>3. Reset(v).marks = v.marks /\ Reset(v).cur = v.cur + 1 /\ Reset(v) \in Lists
      BY <2>2, <1>1, <1>3, VisitedListsAssumption DEF Lists
    <2> QED
      BY <2>3, <1>1 DEF Below, Visited
  <1> QED
    BY <1>1, <1>2, <1>3, VisitedListsAssumption

(* testAndSet adds S to the visited nodes and nothing else.                *)
LEMMA TestAndSetAdds ==
  ASSUME NEW v \in Lists, Below(v), NEW S \in SUBSET Nodes
  PROVE  /\ TestAndSet(v, S) \in Lists
         /\ Below(TestAndSet(v, S))
         /\ {n \in Nodes : Visited(TestAndSet(v, S), n)} = {n \in Nodes : Visited(v, n)} \cup S
  <1> DEFINE w == TestAndSet(v, S)
  <1>1. v.cur \in 0 .. (Tags - 1) /\ v.marks \in [Nodes -> 0 .. (Tags - 1)]
    BY DEF Lists
  <1>2. /\ w \in Lists
        /\ w.cur = v.cur
        /\ w.marks = [n \in Nodes |-> IF n \in S THEN v.cur ELSE v.marks[n]]
    BY <1>1 DEF TestAndSet, Lists
  <1> QED
    BY <1>1, <1>2 DEF Below, Visited

-----------------------------------------------------------------------------
(* The inductive invariant.                                                *)

ListsBelow ==
  /\ \A i \in 1 .. Len(pool) : Below(pool[i])
  /\ \A t \in Threads : Below(list[t])

\* What is on the frontier or expanded has been met.
SearchMet == \A t \in Threads : front[t] \subseteq met[t] /\ expanded[t] \subseteq met[t]

Inv == TypeOK /\ ListsBelow /\ SearchMet /\ MarksAreThisSearch /\ ExpandedOnce

LEMMA InitInv == Init => Inv
  <1> SUFFICES ASSUME Init PROVE Inv
    OBVIOUS
  <1>1. TypeOK
    BY FreshListBelow DEF Init, TypeOK
  <1>2. ListsBelow
    BY FreshListBelow DEF Init, ListsBelow
  <1> QED
    BY <1>1, <1>2 DEF Inv, Init, SearchMet, MarksAreThisSearch, ExpandedOnce

LEMMA AcquireInv ==
  ASSUME Inv, NEW t \in Threads, Acquire(t)
  PROVE  Inv'
  <1> USE DEF Inv
  <1>1. CASE pool = << >>
    <2>1. TypeOK'
      BY <1>1, FreshListBelow DEF Acquire, TypeOK, searches
    <2>2. ListsBelow'
      BY <1>1, FreshListBelow DEF Acquire, TypeOK, ListsBelow
    <2> QED
      BY <1>1, <2>1, <2>2
      DEF Acquire, TypeOK, SearchMet, MarksAreThisSearch, ExpandedOnce, searches
  <1>2. CASE pool # << >>
    <2> DEFINE v == pool[Len(pool)]
    <2>1. Len(pool) \in 1 .. Len(pool) /\ v \in Lists /\ Below(v)
      BY <1>2 DEF TypeOK, ListsBelow
    <2>2. Reset(v) \in Lists /\ Below(Reset(v))
      BY <2>1, ResetFresh
    <2>3. /\ list' = [list EXCEPT ![t] = Reset(v)]
          /\ pool' = SubSeq(pool, 1, Len(pool) - 1)
          /\ pc' = [pc EXCEPT ![t] = "acquired"]
          /\ UNCHANGED <<front, met, expanded>>
      BY <1>2 DEF Acquire, searches
    <2>4. pool' \in Seq(Lists) /\ \A i \in 1 .. Len(pool') : pool'[i] = pool[i] /\ i \in 1 .. Len(pool)
      BY <2>1, <2>3 DEF TypeOK
    <2>5. TypeOK'
      BY <2>2, <2>3, <2>4 DEF TypeOK
    <2>6. ListsBelow'
      BY <2>2, <2>3, <2>4 DEF TypeOK, ListsBelow
    <2> QED
      BY <2>3, <2>5, <2>6 DEF TypeOK, SearchMet, MarksAreThisSearch, ExpandedOnce
  <1> QED
    BY <1>1, <1>2

LEMMA BeginInv ==
  ASSUME Inv, NEW t \in Threads, NEW entry \in Nodes, Begin(t, entry)
  PROVE  Inv'
  <1> USE DEF Inv
  <1> DEFINE v == Reset(list[t])
             w == TestAndSet(v, {entry})
  <1>1. v \in Lists /\ Below(v) /\ {n \in Nodes : Visited(v, n)} = {}
    BY ResetFresh DEF TypeOK, ListsBelow
  <1>2. w \in Lists /\ Below(w) /\ {n \in Nodes : Visited(w, n)} = {entry}
    BY <1>1, TestAndSetAdds
  <1>3. /\ list' = [list EXCEPT ![t] = w]
        /\ front' = [front EXCEPT ![t] = {entry}]
        /\ met' = [met EXCEPT ![t] = {entry}]
        /\ expanded' = [expanded EXCEPT ![t] = {}]
        /\ pc' = [pc EXCEPT ![t] = "search"]
        /\ UNCHANGED pool
    BY DEF Begin
  <1> HIDE DEF w, v
  <1>4. TypeOK'
    BY <1>2, <1>3 DEF TypeOK
  <1>5. ListsBelow'
    BY <1>2, <1>3 DEF TypeOK, ListsBelow
  <1>6. MarksAreThisSearch'
    BY <1>2, <1>3 DEF TypeOK, MarksAreThisSearch
  <1> QED
    BY <1>3, <1>4, <1>5, <1>6 DEF TypeOK, SearchMet, ExpandedOnce

LEMMA ExpandInv ==
  ASSUME Inv, NEW t \in Threads, NEW n \in front[t], NEW neighbours \in SUBSET Nodes,
         NEW joining \in SUBSET neighbours, ExpandNode(t, n, neighbours, joining)
  PROVE  Inv'
  <1> USE DEF Inv
  <1> DEFINE w == TestAndSet(list[t], neighbours)
  <1>1. {m \in Nodes : Visited(list[t], m)} = met[t]
    BY DEF ExpandNode, MarksAreThisSearch
  <1>2. w \in Lists /\ Below(w) /\ {m \in Nodes : Visited(w, m)} = met[t] \cup neighbours
    BY <1>1, TestAndSetAdds DEF TypeOK, ListsBelow
  <1>3. /\ list' = [list EXCEPT ![t] = w]
        /\ front' = [front EXCEPT ![t] = (@ \ {n}) \cup joining]
        /\ met' = [met EXCEPT ![t] = @ \cup neighbours]
        /\ expanded' = [expanded EXCEPT ![t] = @ \cup {n}]
        /\ UNCHANGED <<pool, pc>>
        /\ joining \cap met[t] = {}
    BY <1>1 DEF ExpandNode
  <1> HIDE DEF w
  <1>4. TypeOK'
    BY <1>2, <1>3 DEF TypeOK
  <1>5. ListsBelow'
    BY <1>2, <1>3 DEF TypeOK, ListsBelow
  <1>6. MarksAreThisSearch'
    BY <1>2, <1>3 DEF TypeOK, MarksAreThisSearch
  <1>7. SearchMet' /\ ExpandedOnce'
    BY <1>3 DEF TypeOK, SearchMet, ExpandedOnce
  <1> QED
    BY <1>4, <1>5, <1>6, <1>7

LEMMA ReleaseInv ==
  ASSUME Inv, NEW t \in Threads, Release(t)
  PROVE  Inv'
  <1> USE DEF Inv
  <1>1. TypeOK'
    BY FreshListBelow DEF Release, TypeOK
  <1>2. /\ Len(pool') = Len(pool) + 1
        /\ \A i \in 1 .. Len(pool) : pool'[i] = pool[i]
        /\ pool'[Len(pool) + 1] = list[t]
    BY DEF Release, TypeOK
  <1>3. ListsBelow'
    <2>1. \A i \in 1 .. Len(pool') : Below(pool'[i])
      BY <1>2 DEF TypeOK, ListsBelow
    <2>2. \A u \in Threads : Below(list'[u])
      BY FreshListBelow DEF Release, TypeOK, ListsBelow
    <2> QED
      BY <2>1, <2>2 DEF ListsBelow, Below
  <1> QED
    BY <1>1, <1>3 DEF Release, TypeOK, SearchMet, MarksAreThisSearch, ExpandedOnce

LEMMA NextInv == Inv /\ [Next]_vars => Inv'
  <1> SUFFICES ASSUME Inv, [Next]_vars PROVE Inv'
    OBVIOUS
  <1>1. CASE Next
    BY <1>1, AcquireInv, BeginInv, ExpandInv, ReleaseInv DEF Next, Step
  <1>2. CASE UNCHANGED vars
    BY <1>2 DEF vars, Inv, TypeOK, ListsBelow, Below, SearchMet, MarksAreThisSearch, ExpandedOnce, Visited
  <1> QED
    BY <1>1, <1>2

LEMMA AlwaysInv == Spec => []Inv
  BY InitInv, NextInv, PTL DEF Spec

-----------------------------------------------------------------------------
(* The theorems.                                                           *)

(* Every list, frontier and stage of searchLayer has its type: a tag is    *)
(* never out of its range.                                                 *)
THEOREM TypeCorrect == Spec => []TypeOK
  <1>1. Inv => TypeOK
    BY DEF Inv
  <1> QED
    BY <1>1, AlwaysInv, PTL

(* For every width of the tag and every number of searches on a list, the  *)
(* marks of a running search are those of this search: reset and the pool  *)
(* never let an earlier search hide a node.                                *)
THEOREM MarksCorrect == Spec => []MarksAreThisSearch
  <1>1. Inv => MarksAreThisSearch
    BY DEF Inv
  <1> QED
    BY <1>1, AlwaysInv, PTL

(* On any graph, changing or not, searchLayer expands a node at most once. *)
THEOREM ExpandsOnce == Spec => []ExpandedOnce
  <1>1. Inv => ExpandedOnce
    BY DEF Inv
  <1> QED
    BY <1>1, AlwaysInv, PTL
-----------------------------------------------------------------------------
(* The size of the pool.                                                   *)

\* The threads that hold a list.
Busy == {t \in Threads : pc[t] # "idle"}

(* Taking out or bringing back one list changes the number of holders by   *)
(* one, and there is never a holder more than there are threads.           *)
LEMMA BusyCounts ==
  /\ IsFiniteSet(Busy) /\ Cardinality(Busy) \in Nat /\ Cardinality(Threads) \in Nat
  /\ Cardinality(Busy) <= Cardinality(Threads)
  /\ \A t \in Threads : /\ t \notin Busy => Cardinality(Busy \cup {t}) = Cardinality(Busy) + 1
                        /\ t \in Busy => Cardinality(Busy \ {t}) = Cardinality(Busy) - 1
                        /\ Cardinality(Busy \cup {t}) <= Cardinality(Threads)
  <1>1. Busy \subseteq Threads
    BY DEF Busy
  <1>2. IsFiniteSet(Busy) /\ Cardinality(Busy) <= Cardinality(Threads)
    BY <1>1, FS_Subset, VisitedListsAssumption
  <1>3. Cardinality(Busy) \in Nat /\ Cardinality(Threads) \in Nat
    BY <1>2, FS_CardinalityType, VisitedListsAssumption
  <1>4. ASSUME NEW t \in Threads
        PROVE  /\ t \notin Busy => Cardinality(Busy \cup {t}) = Cardinality(Busy) + 1
               /\ t \in Busy => Cardinality(Busy \ {t}) = Cardinality(Busy) - 1
    BY <1>2, FS_AddElement, FS_RemoveElement
  <1>5. ASSUME NEW t \in Threads
        PROVE  Cardinality(Busy \cup {t}) <= Cardinality(Threads)
    <2>1. Busy \cup {t} \subseteq Threads
      BY <1>1
    <2> QED
      BY <2>1, FS_Subset, VisitedListsAssumption
  <1> QED
    BY <1>2, <1>3, <1>4, <1>5

LEMMA NextBounded == TypeOK /\ PoolBounded /\ [Next]_vars => PoolBounded'
  <1> SUFFICES ASSUME TypeOK, PoolBounded, [Next]_vars PROVE PoolBounded'
    OBVIOUS
  <1> USE BusyCounts
  <1>1. ASSUME NEW t \in Threads, Acquire(t) PROVE PoolBounded'
    <2>1. Busy' = Busy \cup {t} /\ t \notin Busy
      BY <1>1 DEF Acquire, TypeOK, Busy
    <2>2. CASE pool = << >>
      <3>1. Len(pool') = 0
        BY <1>1, <2>2 DEF Acquire
      <3> QED
        BY <2>1, <3>1 DEF PoolBounded, Busy
    <2>3. CASE pool # << >>
      <3>1. Len(pool') = Len(pool) - 1 /\ Len(pool) \in Nat
        BY <1>1, <2>3 DEF Acquire, TypeOK
      <3> QED
        BY <2>1, <3>1 DEF PoolBounded, Busy
    <2> QED
      BY <2>2, <2>3
  <1>2. ASSUME NEW t \in Threads, Release(t) PROVE PoolBounded'
    <2>1. Busy' = Busy \ {t} /\ t \in Busy
      BY <1>2 DEF Release, TypeOK, Busy
    <2>2. Len(pool') = Len(pool) + 1 /\ Len(pool) \in Nat
      BY <1>2 DEF Release, TypeOK
    <2> QED
      BY <2>1, <2>2 DEF PoolBounded, Busy
  <1>3. ASSUME NEW t \in Threads, Step(t), ~ Release(t) PROVE PoolBounded'
    <2>1. Busy' = Busy /\ pool' = pool
      BY <1>3, ZenonT(40) DEF Step, Begin, ExpandNode, TypeOK, Busy
    <2> QED
      BY <2>1 DEF PoolBounded, Busy
  <1>4. CASE UNCHANGED vars
    BY <1>4 DEF vars, PoolBounded
  <1> QED
    BY <1>1, <1>2, <1>3, <1>4 DEF Next

(* For every number of threads and searches, the pool and the searches     *)
(* that run hold no more lists than there are threads.                     *)
THEOREM PoolStaysSmall == Spec => []PoolBounded
  <1>1. Init => PoolBounded
    <2> SUFFICES ASSUME Init PROVE PoolBounded
      OBVIOUS
    <2>1. Busy = {} /\ Len(pool) = 1
      BY DEF Init, Busy
    <2>2. Cardinality(Threads) \in Nat /\ Cardinality(Threads) # 0
      BY VisitedListsAssumption, FS_CardinalityType, FS_EmptySet
    <2>3. Cardinality(Busy) = 0
      BY <2>1, FS_EmptySet
    <2> QED
      BY <2>1, <2>2, <2>3 DEF PoolBounded, Busy
  <1>2. TypeOK /\ PoolBounded /\ [Next]_vars => PoolBounded'
    BY NextBounded
  <1> QED
    BY <1>1, <1>2, TypeCorrect, PTL DEF Spec
=============================================================================
