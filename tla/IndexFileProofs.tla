--------------------------- MODULE IndexFileProofs ---------------------------
(***************************************************************************)
(* Proofs about IndexFile for every capacity and every set of labels: a    *)
(* load gives back the index of the moment save began, and the index hangs *)
(* together.  While save runs nobody changes the index, so every field     *)
(* written so far agrees with `saved'; that stays true of the fields that  *)
(* are left of the file until the next save truncates it.                  *)
(***************************************************************************)
EXTENDS IndexFile, FiniteSetTheorems, TLAPS

-----------------------------------------------------------------------------
(* The inductive invariant.                                                *)

\* Nothing is written at or above the counter, and the marks are counted.
Counts(x) ==
  /\ \A i \in Ids : i >= x.cnt => /\ x.data[i] = Blank /\ x.labels[i] = Blank
                                  /\ x.links[i] = {} /\ i \notin x.deleted
  /\ x.ndel = Cardinality(x.deleted)

\* The slots below n have a label each, and no two the same.
Labelled(x, n) ==
  /\ \A i \in Ids : i < n => x.labels[i] \in Labels /\ x.data[i] = x.labels[i]
  /\ \A i, j \in Ids : i < n /\ j < n /\ x.labels[i] = x.labels[j] => i = j

\* Links and entry point stay below n.
Linked(x, n) ==
  /\ \A i \in Ids : \A j \in x.links[i] : i < n /\ j < n
  /\ x.top < n /\ (n > 0 => x.top # NoId)

\* The table finds exactly the labels of the slots below n.
Finds(table, x, n) ==
  \A lab \in Labels : \A i \in Ids : table[lab] = i <=> (i < n /\ x.labels[i] = lab)

\* How far labels and links are written while an insert is under way.
LabelEnd == IF adding = "reserved" THEN idx.cnt - 1 ELSE idx.cnt
LinkEnd  == IF adding = "none" THEN idx.cnt ELSE idx.cnt - 1

IndexInv ==
  /\ Counts(idx) /\ Labelled(idx, LabelEnd) /\ Linked(idx, LinkEnd)
  /\ Finds(byLabel, idx, LabelEnd)
  /\ adding = "reserved" => /\ idx.labels[NewId] = Blank
                            /\ NewId \notin idx.deleted
  /\ adding # "none" => idx.links[NewId] = {}

SavedInv == Counts(saved) /\ Labelled(saved, saved.cnt) /\ Linked(saved, saved.cnt)

Locks ==
  /\ (proc = "saving") <=> (mu = "exclusive")
  /\ (adding # "none") <=> (mu = "shared")
  /\ adding # "none" => proc = "up" /\ idx.cnt >= 1
  /\ proc = "saving" =>
       /\ idx = saved /\ file.version = 2
       /\ hdr.cnt = saved.cnt /\ hdr.ndel = saved.ndel /\ hdr.top = saved.top

\* The fields of the file agree with the index of the last save.
FileInv ==
  /\ file.version = 2 => file.len >= 0
  /\ file.version = 2 /\ file.len >= 4  => file.img.cnt = saved.cnt
  /\ file.version = 2 /\ file.len >= 5  => file.img.ndel = saved.ndel
  /\ file.version = 2 /\ file.len >= 6  => file.img.top = saved.top
  /\ file.version = 2 /\ file.len >= 7  => file.img.data = saved.data
  /\ file.version = 2 /\ file.len >= 8  => file.img.labels = saved.labels
  /\ file.version = 2 /\ file.len >= 9  => file.img.deleted = saved.deleted
  /\ file.version = 2 /\ file.len >= 10 => file.img.links = saved.links

Inv == TypeOK /\ IndexInv /\ SavedInv /\ Locks /\ FileInv

-----------------------------------------------------------------------------
(* Facts about an index.                                                   *)

LEMMA OrderLength == Len(Order) = 10
  BY DEF Order

(* The index a new process starts with.                                    *)
LEMMA EmptyIndexSound ==
  /\ EmptyIndex \in Indexes
  /\ Counts(EmptyIndex) /\ Labelled(EmptyIndex, 0) /\ Linked(EmptyIndex, 0)
  /\ EmptyIndex.cnt = 0
  /\ Finds([lab \in Labels |-> NoId], EmptyIndex, 0)
  /\ [lab \in Labels |-> NoId] \in [Labels -> Ids \cup {NoId}]
  <1>1. EmptyIndex \in Indexes
    BY IndexFileAssumption DEF EmptyIndex, Indexes, Ids, NoId
  <1>2. Cardinality({}) = 0
    BY FS_EmptySet
  <1>3. Counts(EmptyIndex)
    BY <1>2 DEF EmptyIndex, Counts
  <1>4. Labelled(EmptyIndex, 0) /\ Linked(EmptyIndex, 0) /\ EmptyIndex.cnt = 0
    BY DEF EmptyIndex, Labelled, Linked, Ids, NoId
  <1>5. Finds([lab \in Labels |-> NoId], EmptyIndex, 0)
    BY DEF Finds, Ids, NoId
  <1> QED
    BY <1>1, <1>3, <1>4, <1>5

(* Two indexes with the same fields are the same.                          *)
LEMMA IndexesEqual ==
  ASSUME NEW x \in Indexes, NEW y \in Indexes,
         x.cnt = y.cnt, x.ndel = y.ndel, x.top = y.top, x.data = y.data,
         x.labels = y.labels, x.deleted = y.deleted, x.links = y.links
  PROVE  x = y
  BY DEF Indexes

(* Marks are finitely many.                                                *)
LEMMA MarksFinite ==
  ASSUME NEW S \in SUBSET Ids
  PROVE  /\ IsFiniteSet(S) /\ Cardinality(S) \in Nat
         /\ \A i \in Ids : /\ i \notin S => Cardinality(S \cup {i}) = Cardinality(S) + 1
                           /\ i \in S => Cardinality(S \ {i}) = Cardinality(S) - 1
                                         /\ Cardinality(S) > 0
  <1>1. IsFiniteSet(Ids)
    BY FS_Interval, IndexFileAssumption DEF Ids
  <1>2. IsFiniteSet(S)
    BY <1>1, FS_Subset
  <1>3. Cardinality(S) \in Nat
    BY <1>2, FS_CardinalityType
  <1>4. \A i \in Ids : /\ i \notin S => Cardinality(S \cup {i}) = Cardinality(S) + 1
                       /\ i \in S => Cardinality(S \ {i}) = Cardinality(S) - 1
    BY <1>2, FS_AddElement, FS_RemoveElement
  <1>5. \A i \in Ids : i \in S => Cardinality(S) > 0
    BY <1>2, <1>3, FS_EmptySet
  <1> QED
    BY <1>2, <1>3, <1>4, <1>5

(* The table load rebuilds finds what the table of the index found.        *)
LEMMA LookupFinds ==
  ASSUME NEW x \in Indexes, Labelled(x, x.cnt)
  PROVE  Finds(Lookup(x), x, x.cnt) /\ Lookup(x) \in [Labels -> Ids \cup {NoId}]
  <1>1. ASSUME NEW lab \in Labels, NEW i \in Ids, i < x.cnt, x.labels[i] = lab
        PROVE  Lookup(x)[lab] = i
    <2> DEFINE P(k) == /\ k < x.cnt /\ x.labels[k] = lab
                       /\ \A j \in Ids : j > k /\ j < x.cnt => x.labels[j] # lab
    <2>1. \A k \in Ids : k < x.cnt /\ x.labels[k] = lab => k = i
      BY <1>1 DEF Labelled
    <2>2. \A j \in Ids : j > i => j # i
      BY DEF Ids
    <2>3. P(i)
      BY <1>1, <2>1, <2>2
    <2>4. (CHOOSE k \in Ids : P(k)) = i
      BY <2>1, <2>3
    <2> QED
      BY <1>1, <2>4 DEF Lookup
  <1>2. ASSUME NEW lab \in Labels, \A i \in Ids : ~ (i < x.cnt /\ x.labels[i] = lab)
        PROVE  Lookup(x)[lab] = NoId
    BY <1>2 DEF Lookup
  <1>3. NoId \notin Ids
    BY DEF NoId, Ids
  <1>4. Finds(Lookup(x), x, x.cnt)
    BY <1>1, <1>2, <1>3 DEF Finds
  <1>5. \A lab \in Labels : Lookup(x)[lab] \in Ids \cup {NoId}
    BY <1>1, <1>2
  <1>6. Lookup(x) \in [Labels -> Ids \cup {NoId}]
    BY <1>5 DEF Lookup
  <1> QED
    BY <1>4, <1>6
-----------------------------------------------------------------------------
(* The writers.                                                            *)

LEMMA InitInv == Init => Inv
  <1> SUFFICES ASSUME Init PROVE Inv
    OBVIOUS
  <1>1. idx = EmptyIndex /\ saved = EmptyIndex /\ adding = "none" /\ LabelEnd = 0 /\ LinkEnd = 0
    BY EmptyIndexSound DEF Init, LabelEnd, LinkEnd
  <1>2. TypeOK
    <2>1. file \in [len : -1 .. Len(Order), version : 0..2, img : Indexes]
      BY EmptyIndexSound, OrderLength DEF Init, NoFile, OldFile
    <2>2. hdr \in [cnt : 0..MaxElements, ndel : Nat, top : Ids \cup {NoId}]
      BY IndexFileAssumption DEF Init
    <2> QED
      BY <2>1, <2>2, EmptyIndexSound DEF Init, TypeOK
  <1>3. IndexInv
    BY <1>1, EmptyIndexSound DEF IndexInv, Init
  <1>4. SavedInv
    BY <1>1, EmptyIndexSound DEF SavedInv
  <1>5. Locks /\ FileInv
    BY OrderLength DEF Locks, FileInv, Init, NoFile, OldFile
  <1> QED
    BY <1>2, <1>3, <1>4, <1>5 DEF Inv

\* What a step of a writer leaves alone.
WriterFrame == UNCHANGED <<hdr, file, proc, last, saved>>

(* A writer's step can only disturb the index, its table and the lock.     *)
LEMMA WriterKeepsFile ==
  ASSUME Inv, WriterFrame
  PROVE  SavedInv' /\ FileInv'
  BY DEF Inv, WriterFrame, SavedInv, FileInv, Counts, Labelled, Linked

LEMMA AddReserveInv ==
  ASSUME Inv, AddReserve
  PROVE  Inv'
  <1> USE DEF Inv
  <1> DEFINE n == idx.cnt
  <1>1. n \in Ids /\ n \in Nat /\ idx \in Indexes
    BY IndexFileAssumption, SMTT(30) DEF TypeOK, Indexes, AddReserve, Ids
  <1>2. /\ idx' \in Indexes
        /\ idx'.cnt = n + 1 /\ idx'.ndel = idx.ndel /\ idx'.top = idx.top
        /\ idx'.data = idx.data /\ idx'.labels = idx.labels
        /\ idx'.deleted = idx.deleted /\ idx'.links = idx.links
    <2>1. n + 1 \in 0 .. MaxElements
      BY <1>1, IndexFileAssumption DEF Ids
    <2>2. idx' = [idx EXCEPT !.cnt = n + 1]
      BY DEF AddReserve
    <2> HIDE DEF n
    <2> QED
      BY <1>1, <2>1, <2>2 DEF Indexes
  <1>3. /\ adding = "none" /\ mu = "free" /\ proc = "up"
        /\ adding' = "reserved" /\ mu' = "shared" /\ byLabel' = byLabel
        /\ WriterFrame
    BY DEF AddReserve, WriterFrame
  <1>4. TypeOK'
    BY <1>2, <1>3 DEF TypeOK, WriterFrame
  <1>5. NewId' = n /\ LabelEnd' = n /\ LinkEnd' = n /\ LabelEnd = n /\ LinkEnd = n
    BY <1>1, <1>2, <1>3 DEF NewId, LabelEnd, LinkEnd
  <1>6. idx.labels[n] = Blank /\ n \notin idx.deleted /\ idx.links[n] = {}
    BY <1>1 DEF IndexInv, Counts
  <1>7. Counts(idx')
    BY <1>1, <1>2 DEF IndexInv, Counts, Ids
  <1>8. Labelled(idx', n) /\ Linked(idx', n) /\ Finds(byLabel', idx', n)
    BY <1>2, <1>3, <1>5 DEF IndexInv, Labelled, Linked, Finds
  <1>9. IndexInv'
    BY <1>2, <1>3, <1>5, <1>6, <1>7, <1>8 DEF IndexInv
  <1>10. Locks'
    BY <1>1, <1>2, <1>3 DEF Locks, WriterFrame
  <1> QED
    BY <1>3, <1>4, <1>9, <1>10, WriterKeepsFile

LEMMA AddWriteInv ==
  ASSUME Inv, NEW lab \in Labels, AddWrite(lab)
  PROVE  Inv'
  <1> USE DEF Inv
  <1> DEFINE n == idx.cnt - 1
  <1>1. n \in Ids /\ idx \in Indexes /\ idx.cnt = n + 1 /\ NewId = n
    BY IndexFileAssumption, SMTT(30) DEF TypeOK, Indexes, AddWrite, Ids, Locks, NewId
  <1>2. /\ adding = "reserved" /\ adding' = "written" /\ mu' = mu /\ byLabel[lab] = NoId
        /\ byLabel' = [byLabel EXCEPT ![lab] = n]
        /\ WriterFrame
    BY <1>1 DEF AddWrite, WriterFrame
  <1>3. n \notin idx.deleted /\ idx.labels[n] = Blank
    BY <1>1, <1>2 DEF IndexInv
  <1>4. /\ idx' \in Indexes
        /\ idx'.cnt = idx.cnt /\ idx'.ndel = idx.ndel /\ idx'.top = idx.top
        /\ idx'.data = [idx.data EXCEPT ![n] = lab]
        /\ idx'.labels = [idx.labels EXCEPT ![n] = lab]
        /\ idx'.deleted = idx.deleted /\ idx'.links = idx.links
    <2>1. idx' = [idx EXCEPT !.data = [idx.data EXCEPT ![n] = lab],
                             !.labels = [idx.labels EXCEPT ![n] = lab],
                             !.deleted = idx.deleted \ {n}]
      BY <1>1 DEF AddWrite
    <2>2. idx.deleted \ {n} = idx.deleted
      BY <1>3
    <2> QED
      BY <2>1, <2>2, <1>1 DEF Indexes
  <1>5. TypeOK'
    BY <1>1, <1>2, <1>4 DEF TypeOK, WriterFrame
  <1>6. NewId' = n /\ LabelEnd = n /\ LinkEnd = n /\ LabelEnd' = n + 1 /\ LinkEnd' = n
    BY <1>1, <1>2, <1>4 DEF NewId, LabelEnd, LinkEnd
  <1>7. \A i \in Ids : /\ i # n => idx'.labels[i] = idx.labels[i] /\ idx'.data[i] = idx.data[i]
                       /\ i < n + 1 <=> (i < n \/ i = n)
                       /\ ~ (n < n)
    BY <1>1, <1>4 DEF Indexes, Ids
  <1>8. idx'.labels[n] = lab /\ idx'.data[n] = lab
    BY <1>1, <1>4 DEF Indexes
  <1>9. \A i \in Ids : i < n => idx.labels[i] # lab
    BY <1>2, <1>6 DEF IndexInv, Finds, NoId, Ids
  <1>10. Counts(idx')
    BY <1>1, <1>4, <1>7 DEF IndexInv, Counts, Ids
  <1>11. Labelled(idx', n + 1)
    BY <1>6, <1>7, <1>8, <1>9 DEF IndexInv, Labelled
  <1>12. Finds(byLabel', idx', n + 1)
    <2>1. NoId \notin Ids
      BY DEF NoId, Ids
    <2>2. byLabel'[lab] = n /\ \A other \in Labels : other # lab => byLabel'[other] = byLabel[other]
      BY <1>2 DEF TypeOK
    <2>3. Finds(byLabel, idx, n)
      BY <1>6 DEF IndexInv
    <2> QED
      BY <1>1, <1>2, <1>7, <1>8, <1>9, <2>1, <2>2, <2>3 DEF Finds
  <1>13. Linked(idx', n) /\ idx'.links[n] = {}
    BY <1>1, <1>2, <1>4, <1>6 DEF IndexInv, Linked
  <1>14. IndexInv'
    BY <1>2, <1>6, <1>10, <1>11, <1>12, <1>13 DEF IndexInv
  <1>15. Locks'
    BY <1>2, <1>4 DEF Locks, WriterFrame
  <1> QED
    BY <1>2, <1>5, <1>14, <1>15, WriterKeepsFile

LEMMA AddLinkInv ==
  ASSUME Inv, NEW S \in SUBSET Ids, NEW enters \in BOOLEAN, AddLink(S, enters)
  PROVE  Inv'
  <1> USE DEF Inv
  <1> DEFINE n == idx.cnt - 1
             linked == [i \in Ids |-> IF i = n THEN S
                                      ELSE IF i \in S THEN idx.links[i] \cup {n} ELSE idx.links[i]]
  <1>1. n \in Ids /\ idx \in Indexes /\ idx.cnt = n + 1 /\ NewId = n /\ adding = "written"
    <2>1. adding = "written"
      BY Zenon DEF AddLink
    <2> QED
      BY <2>1, IndexFileAssumption, SMTT(30) DEF TypeOK, Indexes, Ids, Locks, NewId
  <1>2. /\ adding' = "none" /\ mu' = "free" /\ byLabel' = byLabel
        /\ \A i \in S : i < n
        /\ (S = {} <=> n = 0) /\ (S = {} => enters)
        /\ WriterFrame
    <2>1. /\ adding' = "none" /\ mu' = "free" /\ byLabel' = byLabel
          /\ (S = {} <=> n = 0) /\ (S = {} => enters) /\ S \subseteq 0 .. (n - 1)
      BY <1>1, Zenon DEF AddLink
    <2>2. WriterFrame
      BY Zenon DEF AddLink, WriterFrame
    <2>3. \A i \in 0 .. (n - 1) : i < n
      BY <1>1 DEF Ids
    <2> QED
      BY <2>1, <2>2, <2>3, Zenon
  <1>3. /\ idx' \in Indexes
        /\ idx'.cnt = idx.cnt /\ idx'.ndel = idx.ndel
        /\ idx'.top = (IF enters THEN n ELSE idx.top)
        /\ idx'.data = idx.data /\ idx'.labels = idx.labels
        /\ idx'.deleted = idx.deleted /\ idx'.links = linked
    <2>1. idx' = [idx EXCEPT !.links = linked, !.top = IF enters THEN n ELSE idx.top]
      BY <1>1 DEF AddLink
    <2>2. linked \in [Ids -> SUBSET Ids]
      BY <1>1 DEF Indexes
    <2>3. (IF enters THEN n ELSE idx.top) \in Ids \cup {NoId}
      BY <1>1 DEF Indexes
    <2> HIDE DEF linked
    <2> QED
      BY <2>1, <2>2, <2>3, <1>1 DEF Indexes
  <1>4. TypeOK'
    BY <1>2, <1>3 DEF TypeOK, WriterFrame
  <1>5. LabelEnd = n + 1 /\ LinkEnd = n /\ LabelEnd' = n + 1 /\ LinkEnd' = n + 1
    BY <1>1, <1>2, <1>3 DEF LabelEnd, LinkEnd
  <1>6. Linked(idx, n)
    BY <1>5 DEF IndexInv
  <1>7. Counts(idx')
    BY <1>1, <1>2, <1>3, <1>5 DEF IndexInv, Counts, Ids
  <1>8. Linked(idx', n + 1)
    <2>1. \A i \in Ids : \A j \in linked[i] : i < n + 1 /\ j < n + 1
      BY <1>1, <1>2, <1>6 DEF Linked, Indexes, Ids
    <2>2. idx'.top < n + 1 /\ idx'.top # NoId
      BY <1>1, <1>2, <1>3, <1>6 DEF Linked, Indexes, Ids, NoId
    <2> QED
      BY <1>3, <2>1, <2>2 DEF Linked
  <1>9. Labelled(idx', n + 1) /\ Finds(byLabel', idx', n + 1)
    BY <1>2, <1>3, <1>5 DEF IndexInv, Labelled, Finds
  <1>10. IndexInv'
    BY <1>2, <1>5, <1>7, <1>8, <1>9 DEF IndexInv
  <1>11. Locks'
    BY <1>1, <1>2, <1>3 DEF Locks, WriterFrame
  <1> QED
    BY <1>2, <1>4, <1>10, <1>11, WriterKeepsFile

LEMMA ToggleInv ==
  ASSUME Inv, NEW i \in Ids, ToggleDeleted(i)
  PROVE  Inv'
  <1> USE DEF Inv
  <1>1. /\ idx \in Indexes /\ mu = "free" /\ proc = "up" /\ adding = "none" /\ i < idx.cnt
        /\ UNCHANGED <<byLabel, adding, mu>> /\ WriterFrame
    BY DEF TypeOK, ToggleDeleted, WriterFrame, Locks
  <1>2. idx.deleted \in SUBSET Ids /\ idx.ndel = Cardinality(idx.deleted)
    BY <1>1 DEF Indexes, IndexInv, Counts
  <1>3. /\ idx' \in Indexes
        /\ idx'.cnt = idx.cnt /\ idx'.top = idx.top /\ idx'.data = idx.data
        /\ idx'.labels = idx.labels /\ idx'.links = idx.links
        /\ idx'.ndel = Cardinality(idx'.deleted)
        /\ idx'.deleted \subseteq idx.deleted \cup {i}
    <2>1. CASE i \in idx.deleted
      <3>1. idx' = [idx EXCEPT !.deleted = idx.deleted \ {i}, !.ndel = idx.ndel - 1]
        BY <2>1 DEF ToggleDeleted
      <3>2. Cardinality(idx.deleted \ {i}) = idx.ndel - 1 /\ idx.ndel - 1 \in Nat
        BY <1>2, <2>1, MarksFinite, ZenonT(40)
      <3> QED
        BY <3>1, <3>2, <1>1 DEF Indexes
    <2>2. CASE i \notin idx.deleted
      <3>1. idx' = [idx EXCEPT !.deleted = idx.deleted \cup {i}, !.ndel = idx.ndel + 1]
        BY <2>2 DEF ToggleDeleted
      <3>2. Cardinality(idx.deleted \cup {i}) = idx.ndel + 1 /\ idx.ndel + 1 \in Nat
        BY <1>2, <2>2, MarksFinite
      <3> QED
        BY <3>1, <3>2, <1>1 DEF Indexes
    <2> QED
      BY <2>1, <2>2
  <1>4. TypeOK'
    BY <1>1, <1>3 DEF TypeOK, WriterFrame
  <1>5. Counts(idx')
    BY <1>1, <1>3 DEF IndexInv, Counts, Indexes, Ids
  <1>6. IndexInv'
    BY <1>1, <1>3, <1>5 DEF IndexInv, Labelled, Linked, Finds, LabelEnd, LinkEnd
  <1>7. Locks'
    BY <1>1, <1>3 DEF Locks, WriterFrame
  <1> QED
    BY <1>1, <1>4, <1>6, <1>7, WriterKeepsFile
-----------------------------------------------------------------------------
(* save.                                                                   *)

(* IndexInv and SavedInv are about these variables only.                   *)
LEMMA IndexKept ==
  ASSUME IndexInv, UNCHANGED <<idx, byLabel, adding>>
  PROVE  IndexInv'
  BY DEF IndexInv, Counts, Labelled, Linked, Finds, LabelEnd, LinkEnd, NewId

LEMMA SavedKept ==
  ASSUME SavedInv, UNCHANGED saved
  PROVE  SavedInv'
  BY DEF SavedInv, Counts, Labelled, Linked

Files == [len : -1 .. 10, version : 0..2, img : Indexes]

LEMMA SaveOpenInv ==
  ASSUME Inv, SaveOpen
  PROVE  Inv'
  <1> USE DEF Inv
  <1>1. /\ proc = "up" /\ mu = "free" /\ adding = "none"
        /\ mu' = "exclusive" /\ proc' = "saving" /\ saved' = idx
        /\ hdr' = [cnt |-> idx.cnt, ndel |-> idx.ndel, top |-> idx.top]
        /\ UNCHANGED <<idx, byLabel, adding, last>>
    BY DEF SaveOpen, Locks
  <1>2. /\ file' = [file EXCEPT !.len = 0, !.version = 2]
        /\ file \in Files
    BY OrderLength DEF SaveOpen, TypeOK, Files
  <1>3. file' \in Files /\ file'.len = 0 /\ file'.version = 2
    <2>1. file' = [len |-> 0, version |-> 2, img |-> file.img]
      BY <1>2 DEF Files
    <2>2. 0 \in -1 .. 10 /\ 2 \in 0 .. 2 /\ file.img \in Indexes
      BY <1>2 DEF Files
    <2> QED
      BY <2>1, <2>2 DEF Files
  <1>4. hdr' \in [cnt : 0..MaxElements, ndel : Nat, top : Ids \cup {NoId}]
    BY <1>1 DEF TypeOK, Indexes
  <1>5. TypeOK'
    BY <1>1, <1>3, <1>4, OrderLength DEF TypeOK, Files
  <1>6. IndexInv'
    BY <1>1, IndexKept
  <1>7. SavedInv'
    <2>1. LabelEnd = idx.cnt /\ LinkEnd = idx.cnt
      BY <1>1 DEF LabelEnd, LinkEnd
    <2>2. Counts(idx) /\ Labelled(idx, idx.cnt) /\ Linked(idx, idx.cnt)
      BY <2>1 DEF IndexInv
    <2> QED
      BY <1>1, <2>2 DEF SavedInv, Counts, Labelled, Linked
  <1>8. Locks'
    BY <1>1, <1>3 DEF Locks
  <1>9. FileInv'
    BY <1>3 DEF FileInv
  <1> QED
    BY <1>5, <1>6, <1>7, <1>8, <1>9

(* While save runs, an array is written as it is: there is nothing in it   *)
(* at or above the counter.                                                *)
LEMMA SavedWhole ==
  ASSUME Inv, proc = "saving"
  PROVE  /\ Saved(idx.data, Blank) = saved.data /\ Saved(idx.labels, Blank) = saved.labels
         /\ Saved(idx.links, {}) = saved.links
         /\ {i \in idx.deleted : i < hdr.cnt} = saved.deleted
  <1>1. /\ idx = saved /\ hdr.cnt = saved.cnt /\ saved \in Indexes /\ Counts(saved)
    BY DEF Inv, Locks, TypeOK, SavedInv
  <1>2. \A i \in Ids : ~ (i < saved.cnt) => i >= saved.cnt
    BY <1>1 DEF Indexes, Ids
  <1>3. \A i \in Ids : ~ (i < saved.cnt) =>
          saved.data[i] = Blank /\ saved.labels[i] = Blank /\ saved.links[i] = {} /\ i \notin saved.deleted
    BY <1>1, <1>2 DEF Counts
  <1>4. /\ saved.data = [i \in Ids |-> saved.data[i]]
        /\ saved.labels = [i \in Ids |-> saved.labels[i]]
        /\ saved.links = [i \in Ids |-> saved.links[i]]
        /\ saved.deleted \subseteq Ids
    BY <1>1 DEF Indexes
  <1>5. Saved(idx.data, Blank) = saved.data
    BY <1>1, <1>3, <1>4 DEF Saved
  <1>6. Saved(idx.labels, Blank) = saved.labels
    BY <1>1, <1>3, <1>4 DEF Saved
  <1>7. Saved(idx.links, {}) = saved.links
    BY <1>1, <1>3, <1>4 DEF Saved
  <1>8. {i \in idx.deleted : i < hdr.cnt} = saved.deleted
    BY <1>1, <1>3, <1>4
  <1> QED
    BY <1>5, <1>6, <1>7, <1>8

(* A field that is written agrees with the index, and the others stay.     *)
LEMMA WrittenField ==
  ASSUME Inv, proc = "saving", NEW img \in Indexes
  PROVE  /\ Written(img, "magic") = img /\ Written(img, "version") = img
         /\ Written(img, "params") = img
         /\ Written(img, "cnt") = [img EXCEPT !.cnt = saved.cnt]
         /\ Written(img, "ndel") = [img EXCEPT !.ndel = saved.ndel]
         /\ Written(img, "top") = [img EXCEPT !.top = saved.top]
         /\ Written(img, "data") = [img EXCEPT !.data = saved.data]
         /\ Written(img, "labels") = [img EXCEPT !.labels = saved.labels]
         /\ Written(img, "deleted") = [img EXCEPT !.deleted = saved.deleted]
         /\ Written(img, "links") = [img EXCEPT !.links = saved.links]
  <1>1. hdr.cnt = saved.cnt /\ hdr.ndel = saved.ndel /\ hdr.top = saved.top
    BY DEF Inv, Locks
  <1> DEFINE d == Saved(idx.data, Blank)
             l == Saved(idx.labels, Blank)
             k == Saved(idx.links, {})
             m == {i \in idx.deleted : i < hdr.cnt}
  <1>2. d = saved.data /\ l = saved.labels /\ k = saved.links /\ m = saved.deleted
    BY SavedWhole
  <1>3. \A field \in {"magic", "version", "params", "cnt", "ndel", "top", "data", "labels", "deleted", "links"} :
          Written(img, field) =
            CASE field = "cnt"     -> [img EXCEPT !.cnt = hdr.cnt]
              [] field = "ndel"    -> [img EXCEPT !.ndel = hdr.ndel]
              [] field = "top"     -> [img EXCEPT !.top = hdr.top]
              [] field = "data"    -> [img EXCEPT !.data = d]
              [] field = "labels"  -> [img EXCEPT !.labels = l]
              [] field = "deleted" -> [img EXCEPT !.deleted = m]
              [] field = "links"   -> [img EXCEPT !.links = k]
              [] OTHER             -> img
    BY DEF Written
  <1> HIDE DEF d, l, k, m
  <1> QED
    BY <1>1, <1>2, <1>3

LEMMA OrderFields ==
  /\ Order[1] = "magic" /\ Order[2] = "version" /\ Order[3] = "params" /\ Order[4] = "cnt"
  /\ Order[5] = "ndel" /\ Order[6] = "top" /\ Order[7] = "data" /\ Order[8] = "labels"
  /\ Order[9] = "deleted" /\ Order[10] = "links"
  BY DEF Order

LEMMA SaveFieldInv ==
  ASSUME Inv, SaveField
  PROVE  Inv'
  <1> USE DEF Inv
  <1> DEFINE img == Written(file.img, Order[file.len + 1])
  <1>1. /\ proc = "saving" /\ file.version = 2 /\ file.len \in 0 .. 9 /\ file \in Files
        /\ saved \in Indexes /\ file.img \in Indexes
        /\ UNCHANGED <<idx, byLabel, adding, mu, hdr, proc, last, saved>>
    BY OrderLength DEF SaveField, Locks, FileInv, TypeOK, Files
  <1>2. file' = [len |-> file.len + 1, version |-> 2, img |-> img]
    <2>1. file' = [file EXCEPT !.len = file.len + 1, !.img = img]
      BY DEF SaveField
    <2> HIDE DEF img
    <2> QED
      BY <2>1, <1>1 DEF Files
  <1>3. /\ img \in Indexes
        /\ file.len + 1 >= 4 => img.cnt = saved.cnt
        /\ file.len + 1 >= 5 => img.ndel = saved.ndel
        /\ file.len + 1 >= 6 => img.top = saved.top
        /\ file.len + 1 >= 7 => img.data = saved.data
        /\ file.len + 1 >= 8 => img.labels = saved.labels
        /\ file.len + 1 >= 9 => img.deleted = saved.deleted
        /\ file.len + 1 >= 10 => img.links = saved.links
    <2> DEFINE old == file.img
    <2>1. /\ file.len >= 4 => old.cnt = saved.cnt
          /\ file.len >= 5 => old.ndel = saved.ndel
          /\ file.len >= 6 => old.top = saved.top
          /\ file.len >= 7 => old.data = saved.data
          /\ file.len >= 8 => old.labels = saved.labels
          /\ file.len >= 9 => old.deleted = saved.deleted
      BY <1>1 DEF FileInv
    <2>2. old \in Indexes
      BY <1>1
    <2>c0. CASE file.len = 0
      <3>1. img = old
        BY <1>1, <2>c0, OrderFields, WrittenField
      <3> HIDE DEF img, old
      <3> QED
        BY <2>1, <2>2, <2>c0, <3>1, <1>1 DEF Indexes
    <2>c1. CASE file.len = 1
      <3>1. img = old
        BY <1>1, <2>c1, OrderFields, WrittenField
      <3> HIDE DEF img, old
      <3> QED
        BY <2>1, <2>2, <2>c1, <3>1, <1>1 DEF Indexes
    <2>c2. CASE file.len = 2
      <3>1. img = old
        BY <1>1, <2>c2, OrderFields, WrittenField
      <3> HIDE DEF img, old
      <3> QED
        BY <2>1, <2>2, <2>c2, <3>1, <1>1 DEF Indexes
    <2>c3. CASE file.len = 3
      <3>1. img = [old EXCEPT !.cnt = saved.cnt]
        BY <1>1, <2>c3, OrderFields, WrittenField
      <3> HIDE DEF img, old
      <3> QED
        BY <2>1, <2>2, <2>c3, <3>1, <1>1, SMTT(30) DEF Indexes
    <2>c4. CASE file.len = 4
      <3>1. img = [old EXCEPT !.ndel = saved.ndel]
        BY <1>1, <2>c4, OrderFields, WrittenField
      <3> HIDE DEF img, old
      <3> QED
        BY <2>1, <2>2, <2>c4, <3>1, <1>1, SMTT(30) DEF Indexes
    <2>c5. CASE file.len = 5
      <3>1. img = [old EXCEPT !.top = saved.top]
        BY <1>1, <2>c5, OrderFields, WrittenField
      <3> HIDE DEF img, old
      <3> QED
        BY <2>1, <2>2, <2>c5, <3>1, <1>1 DEF Indexes
    <2>c6. CASE file.len = 6
      <3>1. img = [old EXCEPT !.data = saved.data]
        BY <1>1, <2>c6, OrderFields, WrittenField
      <3> HIDE DEF img, old
      <3> QED
        BY <2>1, <2>2, <2>c6, <3>1, <1>1 DEF Indexes
    <2>c7. CASE file.len = 7
      <3>1. img = [old EXCEPT !.labels = saved.labels]
        BY <1>1, <2>c7, OrderFields, WrittenField
      <3> HIDE DEF img, old
      <3> QED
        BY <2>1, <2>2, <2>c7, <3>1, <1>1 DEF Indexes
    <2>c8. CASE file.len = 8
      <3>1. img = [old EXCEPT !.deleted = saved.deleted]
        BY <1>1, <2>c8, OrderFields, WrittenField
      <3> HIDE DEF img, old
      <3> QED
        BY <2>1, <2>2, <2>c8, <3>1, <1>1 DEF Indexes
    <2>c9. CASE file.len = 9
      <3>1. img = [old EXCEPT !.links = saved.links]
        BY <1>1, <2>c9, OrderFields, WrittenField
      <3> HIDE DEF img, old
      <3> QED
        BY <2>1, <2>2, <2>c9, <3>1, <1>1 DEF Indexes
    <2> QED
      BY <1>1, <2>c0, <2>c1, <2>c2, <2>c3, <2>c4, <2>c5, <2>c6, <2>c7, <2>c8, <2>c9
  <1> HIDE DEF img
  <1>4. file' \in Files /\ file'.version = 2 /\ file'.len = file.len + 1 /\ file'.img = img
    BY <1>1, <1>2, <1>3 DEF Files
  <1>5. TypeOK'
    BY <1>1, <1>4, OrderLength DEF TypeOK, Files
  <1>6. IndexInv' /\ SavedInv'
    BY <1>1, IndexKept, SavedKept
  <1>7. Locks'
    BY <1>1, <1>4 DEF Locks
  <1>8. FileInv'
    BY <1>1, <1>3, <1>4 DEF FileInv
  <1> QED
    BY <1>5, <1>6, <1>7, <1>8

(* The end of the file is lost: what is left still agrees.                 *)
LEMMA FileShorter ==
  ASSUME Inv, UNCHANGED saved, NEW n \in -1 .. 10, n <= file.len,
         file.len >= 0 => n >= 0, file' = [file EXCEPT !.len = n]
  PROVE  FileInv' /\ file' \in Files /\ file'.version = file.version
  <1>1. file \in Files
    BY OrderLength DEF Inv, TypeOK, Files
  <1>2. file' = [len |-> n, version |-> file.version, img |-> file.img]
    BY <1>1 DEF Files
  <1>3. file' \in Files
    BY <1>1, <1>2 DEF Files
  <1>4. FileInv'
    BY <1>1, <1>2 DEF Inv, FileInv, Files
  <1> QED
    BY <1>2, <1>3, <1>4

(* A save that fails and one that returns end the same way.                *)
LEMMA SaveEndsInv ==
  ASSUME Inv, NEW n \in 0 .. Len(Order), SaveFails(n) \/ SaveReturns(n)
  PROVE  Inv'
  <1> USE DEF Inv
  <1>1. /\ proc = "saving" /\ proc' = "up" /\ mu' = "free" /\ mu = "exclusive" /\ adding = "none"
        /\ n \in -1 .. 10 /\ n >= 0 /\ n <= file.len
        /\ file' = [file EXCEPT !.len = n]
        /\ UNCHANGED <<idx, byLabel, adding, hdr, last, saved>>
    BY OrderLength DEF SaveFails, SaveReturns, Locks, TypeOK
  <1>2. FileInv' /\ file' \in Files
    BY <1>1, FileShorter
  <1>3. TypeOK'
    BY <1>1, <1>2, OrderLength DEF TypeOK, Files
  <1>4. IndexInv' /\ SavedInv'
    BY <1>1, IndexKept, SavedKept
  <1>5. Locks'
    BY <1>1 DEF Locks
  <1> QED
    BY <1>2, <1>3, <1>4, <1>5

-----------------------------------------------------------------------------
(* Crash and start.                                                        *)

(* An index that starts empty.                                             *)
LEMMA StartsEmpty ==
  ASSUME idx' = EmptyIndex, byLabel' = [lab \in Labels |-> NoId], adding' = "none"
  PROVE  IndexInv' /\ idx' \in Indexes /\ byLabel' \in [Labels -> Ids \cup {NoId}]
  <1>1. LabelEnd' = 0 /\ LinkEnd' = 0
    BY EmptyIndexSound DEF LabelEnd, LinkEnd
  <1> QED
    BY <1>1, EmptyIndexSound DEF IndexInv

LEMMA CrashInv ==
  ASSUME Inv, NEW n \in -1 .. Len(Order), Crash(n)
  PROVE  Inv'
  <1> USE DEF Inv
  <1>1. /\ idx' = EmptyIndex /\ byLabel' = [lab \in Labels |-> NoId] /\ adding' = "none"
        /\ mu' = "free" /\ proc' = "down" /\ file' = [file EXCEPT !.len = n]
        /\ UNCHANGED <<hdr, last, saved>>
    BY DEF Crash
  <1>2. n \in -1 .. 10 /\ n <= file.len /\ (file.len >= 0 => n >= 0)
    BY OrderLength DEF Crash, TypeOK
  <1>3. FileInv' /\ file' \in Files
    BY <1>1, <1>2, FileShorter
  <1>4. IndexInv' /\ idx' \in Indexes /\ byLabel' \in [Labels -> Ids \cup {NoId}]
    BY <1>1, StartsEmpty
  <1>5. TypeOK'
    BY <1>1, <1>3, <1>4, OrderLength DEF TypeOK, Files
  <1>6. SavedInv'
    BY <1>1, SavedKept
  <1>7. Locks'
    BY <1>1 DEF Locks
  <1> QED
    BY <1>3, <1>4, <1>5, <1>6, <1>7

LEMMA FileKept ==
  ASSUME FileInv, UNCHANGED <<file, saved>>
  PROVE  FileInv'
  BY DEF FileInv

LEMMA StartEmptyInv ==
  ASSUME Inv, StartEmpty
  PROVE  Inv'
  <1> USE DEF Inv
  <1>1. /\ proc = "down" /\ proc' = "up" /\ last' = "none"
        /\ idx' = EmptyIndex /\ byLabel' = [lab \in Labels |-> NoId]
        /\ UNCHANGED <<adding, mu, hdr, file, saved>>
        /\ adding = "none" /\ mu = "free"
    BY DEF StartEmpty, Locks, TypeOK
  <1>2. IndexInv' /\ idx' \in Indexes /\ byLabel' \in [Labels -> Ids \cup {NoId}]
    BY <1>1, StartsEmpty
  <1>3. TypeOK'
    BY <1>1, <1>2 DEF TypeOK
  <1>4. SavedInv' /\ FileInv'
    BY <1>1, SavedKept, FileKept
  <1>5. Locks'
    BY <1>1 DEF Locks
  <1> QED
    BY <1>2, <1>3, <1>4, <1>5

(* A file that load accepts holds the index of the last save.              *)
LEMMA LoadedWhole ==
  ASSUME Inv, NEW outcome, Load(outcome), outcome = "loaded"
  PROVE  LoadedIndex = saved
  <1>1. file \in Files /\ saved \in Indexes
    BY OrderLength DEF Inv, TypeOK, Files
  <1>2. file.version = 2 /\ Whole /\ file.len \in -1 .. 10
    BY <1>1, OrderLength DEF Load, Outcomes, Counted, Files
  <1>3. file.len >= 6 /\ (file.len # 10 => file.img.cnt = 0)
    BY <1>2, OrderLength DEF Whole, Header
  <1>4. /\ file.img.cnt = saved.cnt /\ file.img.ndel = saved.ndel /\ file.img.top = saved.top
    BY <1>2, <1>3 DEF Inv, FileInv
  <1>5. saved.cnt = 0 => /\ saved.data = EmptyIndex.data /\ saved.labels = EmptyIndex.labels
                         /\ saved.deleted = {} /\ saved.links = EmptyIndex.links
    <2>1. \A i \in Ids : i >= 0  BY DEF Ids
    <2>2. Counts(saved)  BY DEF Inv, SavedInv
    <2> QED
      BY <1>1, <2>1, <2>2 DEF Counts, Indexes, EmptyIndex
  <1>6. \A field \in {"ndel", "top"} : \E j \in 1 .. file.len : Order[j] = field
    BY <1>2, <1>3 DEF Order
  <1>7. /\ Read("data", file.img.data, EmptyIndex.data) = saved.data
        /\ Read("labels", file.img.labels, EmptyIndex.labels) = saved.labels
        /\ Read("deleted", file.img.deleted, {}) = saved.deleted
        /\ Read("links", file.img.links, EmptyIndex.links) = saved.links
    <2>1. CASE file.len = 10
      <3>1. \A field \in {"data", "labels", "deleted", "links"} :
              \E j \in 1 .. file.len : Order[j] = field
        BY <2>1, OrderFields
      <3>2. /\ file.img.data = saved.data /\ file.img.labels = saved.labels
            /\ file.img.deleted = saved.deleted /\ file.img.links = saved.links
        BY <1>2, <2>1 DEF Inv, FileInv
      <3> QED
        BY <3>1, <3>2 DEF Read
    <2>2. CASE file.len # 10
      <3>1. saved.cnt = 0
        BY <1>3, <1>4, <2>2
      <3>2. /\ (\E j \in 1 .. file.len : Order[j] = "data") => file.img.data = saved.data
            /\ (\E j \in 1 .. file.len : Order[j] = "labels") => file.img.labels = saved.labels
            /\ (\E j \in 1 .. file.len : Order[j] = "deleted") => file.img.deleted = saved.deleted
            /\ (\E j \in 1 .. file.len : Order[j] = "links") => file.img.links = saved.links
        <4>1. \A j \in 1 .. 10 : /\ Order[j] = "data" => j >= 7
                                 /\ Order[j] = "labels" => j >= 8
                                 /\ Order[j] = "deleted" => j >= 9
                                 /\ Order[j] = "links" => j >= 10
          BY DEF Order
        <4>2. \A j \in 1 .. file.len : j \in 1 .. 10 /\ j <= file.len
          BY <1>2
        <4> QED
          BY <1>2, <4>1, <4>2 DEF Inv, FileInv
      <3> QED
        BY <1>5, <3>1, <3>2 DEF Read
    <2> QED
      BY <2>1, <2>2
  <1>8. LoadedIndex = [cnt |-> saved.cnt, ndel |-> saved.ndel, top |-> saved.top, data |-> saved.data,
                       labels |-> saved.labels, deleted |-> saved.deleted, links |-> saved.links]
    BY <1>4, <1>6, <1>7 DEF LoadedIndex, Read
  <1> QED
    BY <1>1, <1>8 DEF Indexes

LEMMA LoadInv ==
  ASSUME Inv, NEW outcome \in {"loaded", "refused", "undefined"}, Load(outcome)
  PROVE  Inv'
  <1> USE DEF Inv
  <1>1. /\ proc = "down" /\ adding = "none" /\ mu = "free" /\ last' = outcome
        /\ UNCHANGED <<adding, mu, hdr, file, saved>>
    BY DEF Load, Locks, TypeOK
  <1>2. SavedInv' /\ FileInv'
    BY <1>1, SavedKept, FileKept
  <1>3. CASE outcome = "loaded"
    <2>1. idx' = saved /\ byLabel' = Lookup(saved) /\ proc' = "up"
      BY <1>3, LoadedWhole DEF Load
    <2>2. saved \in Indexes /\ Counts(saved) /\ Labelled(saved, saved.cnt) /\ Linked(saved, saved.cnt)
      BY DEF TypeOK, SavedInv
    <2>3. Finds(Lookup(saved), saved, saved.cnt) /\ Lookup(saved) \in [Labels -> Ids \cup {NoId}]
      BY <2>2, LookupFinds
    <2>4. LabelEnd' = saved.cnt /\ LinkEnd' = saved.cnt
      BY <1>1, <2>1 DEF LabelEnd, LinkEnd
    <2>5. IndexInv'
      BY <1>1, <2>1, <2>2, <2>3, <2>4 DEF IndexInv
    <2>6. TypeOK'
      BY <1>1, <2>1, <2>2, <2>3 DEF TypeOK
    <2>7. Locks'
      BY <1>1, <2>1 DEF Locks
    <2> QED
      BY <1>2, <2>5, <2>6, <2>7
  <1>4. CASE outcome # "loaded"
    <2>1. UNCHANGED <<idx, byLabel, proc>>
      BY <1>4 DEF Load
    <2>2. IndexInv'
      BY <1>1, <2>1, IndexKept
    <2>3. TypeOK'
      BY <1>1, <2>1 DEF TypeOK
    <2>4. Locks'
      BY <1>1, <2>1 DEF Locks
    <2> QED
      BY <1>2, <2>2, <2>3, <2>4
  <1> QED
    BY <1>3, <1>4

-----------------------------------------------------------------------------
(* The theorems.                                                           *)

LEMMA NextInv ==
  ASSUME Inv, [Next]_vars
  PROVE  Inv'
  <1>1. CASE UNCHANGED vars
    <2>1. UNCHANGED <<idx, byLabel, adding, mu, hdr, file, proc, last, saved>>
      BY <1>1 DEF vars
    <2>2. IndexInv' /\ SavedInv' /\ FileInv'
      BY <2>1, IndexKept, SavedKept, FileKept DEF Inv
    <2>3. TypeOK' /\ Locks'
      BY <2>1 DEF Inv, TypeOK, Locks
    <2> QED
      BY <2>2, <2>3 DEF Inv
  <1>2. CASE Next
    BY <1>2, AddReserveInv, AddWriteInv, AddLinkInv, ToggleInv, SaveOpenInv, SaveFieldInv,
       SaveEndsInv, CrashInv, StartEmptyInv, LoadInv DEF Next
  <1> QED
    BY <1>1, <1>2

LEMMA AlwaysInv == Spec => []Inv
  BY InitInv, NextInv, PTL DEF Spec

(* Every variable of the model of save, load and the writers keeps its     *)
(* type; ndel in particular never falls below zero.                        *)
THEOREM TypeCorrect == Spec => []TypeOK
  <1>1. Inv => TypeOK
    BY DEF Inv
  <1> QED
    BY <1>1, AlwaysInv, PTL

(* Between inserts the index hangs together, through every sequence of     *)
(* saves that end early, crashes and loads.                                *)
THEOREM Sound == Spec => []IndexSound
  <1>1. Inv => IndexSound
    <2> SUFFICES ASSUME Inv, adding = "none" PROVE IndexSound
      BY DEF IndexSound
    <2>1. LabelEnd = idx.cnt /\ LinkEnd = idx.cnt
      BY DEF LabelEnd, LinkEnd
    <2>2. /\ Counts(idx) /\ Labelled(idx, idx.cnt) /\ Linked(idx, idx.cnt)
          /\ Finds(byLabel, idx, idx.cnt)
      BY <2>1 DEF Inv, IndexInv
    <2> QED
      BY <2>2 DEF IndexSound, Counts, Labelled, Linked, Finds
  <1> QED
    BY <1>1, AlwaysInv, PTL

(* What load returns is the whole index of the moment the last save began. *)
THEOREM LoadGivesSaved == Spec => LoadedIsSaved
  <1>1. ASSUME Inv, [Next]_vars
        PROVE  proc = "down" /\ proc' = "up" /\ last' = "loaded" => idx' = saved
    <2> SUFFICES ASSUME proc = "down", proc' = "up", last' = "loaded"
                 PROVE  idx' = saved
      OBVIOUS
    <2>1. mu = "free" /\ adding = "none"
      BY <1>1 DEF Inv, Locks, TypeOK
    <2>2. Load("loaded")
      <3>1. ASSUME NEW S, NEW enters, AddLink(S, enters)
            PROVE  FALSE
        BY <3>1, <2>1, Zenon DEF AddLink
      <3>2. ~ StartEmpty
        BY DEF StartEmpty
      <3>3. \A o : Load(o) => o = "loaded"
        BY DEF Load
      <3> QED
        BY <1>1, <2>1, <3>1, <3>2, <3>3 DEF Next, vars, AddReserve, AddWrite, ToggleDeleted,
           SaveOpen, SaveField, SaveFails, SaveReturns, Crash
    <2> QED
      BY <1>1, <2>2, LoadedWhole DEF Load
  <1> QED
    BY <1>1, AlwaysInv, PTL DEF Spec, LoadedIsSaved
==============================================================================
