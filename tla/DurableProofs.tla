--------------------------- MODULE DurableProofs ---------------------------
(***************************************************************************)
(* Proofs about Durable, for every set of clients, keys and vectors, every *)
(* capacity and every length of the log.                                   *)
(***************************************************************************)
EXTENDS Durable, TLAPS, FiniteSetTheorems

-----------------------------------------------------------------------------
(* The table.                                                              *)

\* What one request does to the entry of its key when there is room for it.
After(e, r) ==
  CASE r.op = "add"   -> IF Present(e) THEN e ELSE [vec |-> r.vec, deleted |-> FALSE]
    [] r.op = "del"   -> IF Present(e) THEN [vec |-> e.vec, deleted |-> TRUE] ELSE e
    [] r.op = "undel" -> IF Present(e) THEN [vec |-> e.vec, deleted |-> FALSE] ELSE e

\* The same for any key.
AfterOn(k, e, r) == IF r.key = k THEN After(e, r) ELSE e

(* A record has one of three operations; only an add carries a vector.     *)
LEMMA RecordFields ==
  ASSUME NEW r \in Record
  PROVE  /\ r.key \in Keys
         /\ r.op \in {"add", "del", "undel"}
         /\ r.op = "add" => r.vec \in Vecs /\ r.vec # NoVec
  BY KeyTableAssumption DEF Record, Adds, Marks, KeyTableAssumption

(* An entry's tombstone is a Boolean, and an absent key has none.          *)
LEMMA EntryFields ==
  ASSUME NEW e \in Entry
  PROVE  /\ e.deleted \in BOOLEAN
         /\ ~ Present(e) => e = AbsentEntry
         /\ e = [vec |-> e.vec, deleted |-> e.deleted]
<1>1. CASE e = AbsentEntry
  BY <1>1 DEF AbsentEntry, Present
<1>2. CASE e \in [vec : Vecs, deleted : BOOLEAN]
  <2>1. e.vec \in Vecs /\ e.deleted \in BOOLEAN
    BY <1>2
  <2>2. e.vec # NoVec
    BY <2>1, KeyTableAssumption DEF KeyTableAssumption
  <2>3. e = [vec |-> e.vec, deleted |-> e.deleted]
    BY <1>2
  <2> QED
    BY <2>1, <2>2, <2>3 DEF Present
<1> QED
  BY <1>1, <1>2 DEF Entry

(* After stays among the entries.                                          *)
LEMMA AfterType ==
  ASSUME NEW e \in Entry, NEW r \in Record
  PROVE  After(e, r) \in Entry
  BY RecordFields, EntryFields DEF After, Entry, AbsentEntry, Present

(* Applied does to each key what After says, unless the index is full.     *)
LEMMA AppliedEntry ==
  ASSUME NEW t \in Table, NEW r \in Record, NEW k \in Keys, Code(t, r) # "full"
  PROVE  Applied(t, r)[k] = AfterOn(k, t[k], r)
<1> DEFINE e == t[r.key]
<1>1. /\ r.key \in Keys /\ e \in Entry /\ t[k] \in Entry
      /\ e = [vec |-> e.vec, deleted |-> e.deleted] /\ e.deleted \in BOOLEAN
  BY RecordFields, EntryFields DEF Table
<1>2. CASE k # r.key
  BY <1>1, <1>2 DEF Applied, AfterOn, Table
<1>3. CASE k = r.key /\ r.op = "add"
  BY <1>1, <1>3 DEF Applied, AfterOn, After, Code, Effect, Table
<1>4. CASE k = r.key /\ r.op = "del"
  <2>1. CASE Present(e) /\ ~ e.deleted
    <3>1. Code(t, r) = "ok"
      BY <1>4, <2>1 DEF Code
    <3>2. Effect(e, r) = [vec |-> e.vec, deleted |-> TRUE]
      BY <1>1, <1>4 DEF Effect
    <3>3. After(e, r) = [vec |-> e.vec, deleted |-> TRUE]
      BY <1>4, <2>1 DEF After
    <3> QED
      BY <1>1, <1>4, <3>1, <3>2, <3>3 DEF Applied, AfterOn, Table
  <2>2. CASE ~ (Present(e) /\ ~ e.deleted)
    <3>1. Code(t, r) # "ok"
      BY <1>4, <2>2 DEF Code
    <3>2. Present(e) => e.deleted = TRUE
      BY <1>1, <2>2
    <3>3. After(e, r) = e
      BY <1>1, <1>4, <3>2 DEF After
    <3> QED
      BY <1>4, <3>1, <3>3 DEF Applied, AfterOn
  <2> QED
    BY <2>1, <2>2
<1>5. CASE k = r.key /\ r.op = "undel"
  <2>1. CASE Present(e) /\ e.deleted
    <3>1. Code(t, r) = "ok"
      BY <1>5, <2>1 DEF Code
    <3>2. Effect(e, r) = [vec |-> e.vec, deleted |-> FALSE]
      BY <1>1, <1>5 DEF Effect
    <3>3. After(e, r) = [vec |-> e.vec, deleted |-> FALSE]
      BY <1>5, <2>1 DEF After
    <3> QED
      BY <1>1, <1>5, <3>1, <3>2, <3>3 DEF Applied, AfterOn, Table
  <2>2. CASE ~ (Present(e) /\ e.deleted)
    <3>1. Code(t, r) # "ok"
      BY <1>5, <2>2 DEF Code
    <3>2. Present(e) => e.deleted = FALSE
      BY <1>1, <2>2
    <3>3. After(e, r) = e
      BY <1>1, <1>5, <3>2 DEF After
    <3> QED
      BY <1>5, <3>1, <3>3 DEF Applied, AfterOn
  <2> QED
    BY <2>1, <2>2
<1> QED
  BY <1>2, <1>3, <1>4, <1>5, RecordFields

(* Applied stays among the tables.                                         *)
LEMMA AppliedType ==
  ASSUME NEW t \in Table, NEW r \in Record
  PROVE  Applied(t, r) \in Table
<1>1. CASE Code(t, r) = "ok"
  <2>1. r.key \in Keys /\ t[r.key] \in Entry
    BY RecordFields DEF Table
  <2>2. Applied(t, r)[r.key] \in Entry
    BY <1>1, <2>1, AppliedEntry, AfterType DEF AfterOn
  <2>3. Applied(t, r) = [t EXCEPT ![r.key] = Applied(t, r)[r.key]]
    BY <1>1, <2>1 DEF Applied, Table
  <2> QED
    BY <2>1, <2>2, <2>3 DEF Table
<1> QED
  BY <1>1 DEF Applied

(* With as many slots as keys the index is never full.                     *)
LEMMA NeverFull ==
  ASSUME NEW t \in Table, NEW r \in Record, Cardinality(Keys) <= Capacity
  PROVE  Code(t, r) # "full"
<1> DEFINE P == {k \in Keys : Present(t[k])}
<1> SUFFICES ASSUME ~ Present(t[r.key])
             PROVE  ~ (Cardinality(P) >= Capacity)
  BY RecordFields DEF Code, Count
<1>1. IsFiniteSet(Keys) /\ Capacity \in Nat
  BY KeyTableAssumption DEF KeyTableAssumption
<1>2. r.key \in Keys /\ P \subseteq Keys /\ P # Keys
  BY RecordFields
<1>3. IsFiniteSet(P) /\ Cardinality(P) <= Cardinality(Keys)
        /\ (Cardinality(Keys) = Cardinality(P) => Keys = P)
  BY <1>1, <1>2, FS_Subset
<1>4. Cardinality(P) \in Nat /\ Cardinality(Keys) \in Nat
  BY <1>1, <1>3, FS_CardinalityType
<1> QED
  BY <1>1, <1>2, <1>3, <1>4

-----------------------------------------------------------------------------
(* Replay.                                                                 *)

(* The empty log leaves the snapshot's entry.                              *)
LEMMA ReplayNothing ==
  ASSUME NEW base \in Table, NEW log \in Seq(Record), NEW k \in Keys
  PROVE  Replayed(base, log, 0, k, base[k])
<1>1. base[k] \in Entry
  BY DEF Table
<1>2. ~ AddedBy(log, 0, k) /\ ~ UndeletedAfter(log, 0, 0, k)
  BY DEF AddedBy, UndeletedAfter
<1>3. ReplayedVec(base, log, 0, k, base[k].vec)
  BY <1>2 DEF ReplayedVec, Present
<1>4. base[k].deleted <=> ReplayedDeleted(base, log, 0, k)
  BY <1>1, <1>2, EntryFields DEF ReplayedDeleted
<1> QED
  BY <1>3, <1>4 DEF Replayed

(* A key is present after replay when the snapshot has it or an add of it  *)
(* was replayed.                                                           *)
LEMMA ReplayedPresent ==
  ASSUME NEW base \in Table, NEW log \in Seq(Record), NEW n \in Nat, n <= Len(log),
         NEW k \in Keys, NEW e \in Entry, Replayed(base, log, n, k, e)
  PROVE  Present(e) <=> Present(base[k]) \/ AddedBy(log, n, k)
<1>1. ReplayedVec(base, log, n, k, e.vec)
  BY DEF Replayed
<1>2. CASE Present(base[k])
  BY <1>1, <1>2 DEF ReplayedVec, Present
<1>3. CASE ~ Present(base[k]) /\ ~ AddedBy(log, n, k)
  <2>1. \A i \in 1..n : ~ FirstAdd(log, i, k)
    BY <1>3 DEF AddedBy, FirstAdd
  <2> QED
    BY <1>1, <1>3, <2>1 DEF ReplayedVec, Present
<1>4. CASE ~ Present(base[k]) /\ AddedBy(log, n, k)
  <2>1. PICK i \in 1..n : FirstAdd(log, i, k) /\ e.vec = log[i].vec
    BY <1>1, <1>4 DEF ReplayedVec
  <2>2. log[i] \in Record /\ log[i].op = "add"
    BY <2>1 DEF FirstAdd, IsOp
  <2> QED
    BY <1>4, <2>1, <2>2, RecordFields DEF Present
<1> QED
  BY <1>2, <1>3, <1>4

(* Replaying one record more: Durable's ReplayRecord agrees with the       *)
(* reference definition, and so does a record appended to the log.         *)
LEMMA ReplayStep ==
  ASSUME NEW base \in Table, NEW log \in Seq(Record), NEW n \in Nat, n < Len(log),
         NEW k \in Keys, NEW e \in Entry, Replayed(base, log, n, k, e)
  PROVE  Replayed(base, log, n + 1, k, AfterOn(k, e, log[n + 1]))
<1> DEFINE r == log[n + 1]
           f == AfterOn(k, e, r)
<1>1. r \in Record /\ r.op \in {"add", "del", "undel"}
  BY RecordFields
<1>2. Present(e) <=> Present(base[k]) \/ AddedBy(log, n, k)
  BY ReplayedPresent
<1>3. AddedBy(log, n + 1, k) <=> AddedBy(log, n, k) \/ IsOp(r, "add", k)
  BY DEF AddedBy
<1>4. \A i \in 0..n : UndeletedAfter(log, n + 1, i, k)
                        <=> UndeletedAfter(log, n, i, k) \/ IsOp(r, "undel", k)
  BY DEF UndeletedAfter
<1>5. ReplayedVec(base, log, n + 1, k, f.vec)
  <2>1. ReplayedVec(base, log, n, k, e.vec)
    BY DEF Replayed
  <2>2. CASE IsOp(r, "add", k) /\ ~ Present(e)
    <3>1. f.vec = r.vec
      BY <2>2 DEF AfterOn, After, IsOp
    <3>2. FirstAdd(log, n + 1, k)
      BY <2>2, <1>2 DEF FirstAdd, AddedBy
    <3>3. n + 1 \in 1..(n + 1)
      OBVIOUS
    <3> QED
      BY <2>2, <3>1, <3>2, <3>3, <1>2 DEF ReplayedVec
  <2>3. CASE ~ (IsOp(r, "add", k) /\ ~ Present(e))
    <3>1. f.vec = e.vec
      BY <2>3, <1>1 DEF AfterOn, After, IsOp
    <3>2. Present(base[k]) => ReplayedVec(base, log, n + 1, k, e.vec)
      BY <2>1 DEF ReplayedVec
    <3>3. ~ Present(base[k]) /\ AddedBy(log, n, k) => ReplayedVec(base, log, n + 1, k, e.vec)
      BY <2>1 DEF ReplayedVec
    <3>4. ~ Present(base[k]) /\ ~ AddedBy(log, n, k) => ReplayedVec(base, log, n + 1, k, e.vec)
      <4> SUFFICES ASSUME ~ Present(base[k]), ~ AddedBy(log, n, k)
                   PROVE  ReplayedVec(base, log, n + 1, k, e.vec)
        OBVIOUS
      <4>1. ~ AddedBy(log, n + 1, k)
        BY <1>2, <1>3, <2>3
      <4>2. e.vec = NoVec
        BY <1>2 DEF Present
      <4> QED
        BY <4>1, <4>2 DEF ReplayedVec
    <3> QED
      BY <3>1, <3>2, <3>3, <3>4
  <2> QED
    BY <2>2, <2>3
<1>6. f.deleted <=> ReplayedDeleted(base, log, n + 1, k)
  <2> DEFINE D(i, m) == /\ IsOp(log[i], "del", k)
                        /\ Present(base[k]) \/ AddedBy(log, i - 1, k)
                        /\ ~ UndeletedAfter(log, m, i, k)
  <2>1. e.deleted <=> \/ base[k].deleted /\ ~ UndeletedAfter(log, n, 0, k)
                      \/ \E i \in 1..n : D(i, n)
    BY DEF Replayed, ReplayedDeleted
  <2>2. ReplayedDeleted(base, log, n + 1, k)
          <=> \/ base[k].deleted /\ ~ UndeletedAfter(log, n + 1, 0, k)
              \/ (\E i \in 1..n : D(i, n + 1)) \/ D(n + 1, n + 1)
    BY DEF ReplayedDeleted
  <2>3. \A i \in 1..n : D(i, n + 1) <=> D(i, n) /\ ~ IsOp(r, "undel", k)
    BY <1>4
  <2>4. ~ UndeletedAfter(log, n + 1, n + 1, k)
    BY DEF UndeletedAfter
  <2>5. (n + 1) - 1 = n
    OBVIOUS
  <2>6. D(n + 1, n + 1) <=> IsOp(r, "del", k) /\ Present(e)
    BY <2>4, <2>5, <1>2
  <2>7. UndeletedAfter(log, n + 1, 0, k) <=> UndeletedAfter(log, n, 0, k) \/ IsOp(r, "undel", k)
    BY <1>4
  <2>8. ReplayedDeleted(base, log, n + 1, k)
          <=> \/ e.deleted /\ ~ IsOp(r, "undel", k)
              \/ IsOp(r, "del", k) /\ Present(e)
    <3> HIDE DEF D
    <3> QED
      BY <2>1, <2>2, <2>3, <2>6, <2>7
  <2>9. ~ Present(e) => ~ e.deleted
    BY EntryFields DEF AbsentEntry
  <2>10. f.deleted <=> \/ e.deleted /\ ~ IsOp(r, "undel", k)
                       \/ IsOp(r, "del", k) /\ Present(e)
    <3>1. CASE r.key # k
      BY <3>1 DEF AfterOn, IsOp
    <3>2. CASE r.key = k /\ r.op = "add"
      BY <3>2, <2>9 DEF AfterOn, After, IsOp
    <3>3. CASE r.key = k /\ r.op = "del"
      BY <3>3, <2>9 DEF AfterOn, After, IsOp
    <3>4. CASE r.key = k /\ r.op = "undel"
      BY <3>4, <2>9 DEF AfterOn, After, IsOp
    <3> QED
      BY <3>1, <3>2, <3>3, <3>4, <1>1
  <2> QED
    BY <2>8, <2>10
<1> QED
  BY <1>5, <1>6 DEF Replayed

(* The first n records are all that matters to a replay of n records.      *)
LEMMA ReplayPrefix ==
  ASSUME NEW base \in Table, NEW log \in Seq(Record), NEW r \in Record,
         NEW k \in Keys, NEW e \in Entry, Replayed(base, log, Len(log), k, e)
  PROVE  Replayed(base, Append(log, r), Len(log), k, e)
<1> DEFINE n == Len(log)
           log2 == Append(log, r)
<1>1. n \in Nat /\ \A i \in 1..n : log2[i] = log[i]
  OBVIOUS
<1>2. \A m \in 0..n : AddedBy(log2, m, k) <=> AddedBy(log, m, k)
  BY <1>1 DEF AddedBy
<1>3. \A i \in 1..n : FirstAdd(log2, i, k) <=> FirstAdd(log, i, k)
  BY <1>1 DEF FirstAdd
<1>4. \A i \in 0..n : UndeletedAfter(log2, n, i, k) <=> UndeletedAfter(log, n, i, k)
  BY <1>1 DEF UndeletedAfter
<1>5. ReplayedVec(base, log2, n, k, e.vec)
  BY <1>1, <1>2, <1>3 DEF Replayed, ReplayedVec
<1>6. \A i \in 1..n : i - 1 \in 0..n /\ i \in 0..n
  BY <1>1
<1>7. ReplayedDeleted(base, log2, n, k) <=> ReplayedDeleted(base, log, n, k)
  BY <1>1, <1>2, <1>4, <1>6 DEF ReplayedDeleted
<1> QED
  BY <1>5, <1>7 DEF Replayed

\* Every delete in the log finds its key in the snapshot or added before it.
DeletesFindKeys(base, log) ==
  \A i \in 1..Len(log) :
    log[i].op = "del" =>
      Present(base[log[i].key]) \/ AddedBy(log, i - 1, log[i].key)

(* Replay is idempotent: a log replayed over the table it already produced *)
(* changes nothing, provided its deletes were not blind.  This is the      *)
(* moment between the two renames of Snapshot.                             *)
LEMMA ReplayIdempotent ==
  ASSUME NEW base \in Table, NEW tab \in Table, NEW log \in Seq(Record),
         NEW k \in Keys, DeletesFindKeys(base, log),
         Replayed(base, log, Len(log), k, tab[k])
  PROVE  Replayed(tab, log, Len(log), k, tab[k])
<1> DEFINE n == Len(log)
<1>1. n \in Nat /\ tab[k] \in Entry
  BY DEF Table
<1>2. Present(tab[k]) <=> Present(base[k]) \/ AddedBy(log, n, k)
  BY <1>1, ReplayedPresent
<1>3. ReplayedVec(tab, log, n, k, tab[k].vec)
  BY <1>2 DEF ReplayedVec, Present
<1>4. tab[k].deleted <=> ReplayedDeleted(base, log, n, k)
  BY DEF Replayed
<1>5. \A i \in 1..n : AddedBy(log, i - 1, k) => AddedBy(log, n, k)
  BY <1>1 DEF AddedBy
<1>6. \A i \in 1..n : IsOp(log[i], "del", k) => Present(base[k]) \/ AddedBy(log, i - 1, k)
  BY DEF DeletesFindKeys, IsOp
<1>7. ASSUME tab[k].deleted
      PROVE  ReplayedDeleted(tab, log, n, k)
  <2>1. CASE base[k].deleted /\ ~ UndeletedAfter(log, n, 0, k)
    BY <1>7, <2>1 DEF ReplayedDeleted
  <2>2. CASE \E i \in 1..n : /\ IsOp(log[i], "del", k)
                             /\ Present(base[k]) \/ AddedBy(log, i - 1, k)
                             /\ ~ UndeletedAfter(log, n, i, k)
    BY <1>2, <1>5, <2>2 DEF ReplayedDeleted
  <2> QED
    BY <1>4, <1>7, <2>1, <2>2 DEF ReplayedDeleted
<1>8. ASSUME ReplayedDeleted(tab, log, n, k)
      PROVE  tab[k].deleted
  <2>1. CASE \E i \in 1..n : /\ IsOp(log[i], "del", k)
                             /\ ~ UndeletedAfter(log, n, i, k)
    BY <1>4, <1>6, <2>1 DEF ReplayedDeleted
  <2> QED
    BY <1>8, <2>1 DEF ReplayedDeleted
<1> QED
  BY <1>3, <1>7, <1>8 DEF Replayed

-----------------------------------------------------------------------------
(* Type correctness.                                                       *)

(* The file values the actions assign are files.                           *)
LEMMA FileTypes ==
  /\ EmptyTable \in Table
  /\ NoSnap \in SnapFile /\ CutSnap \in SnapFile
  /\ \A t \in Table : WholeSnap(t) \in SnapFile
  /\ \A f \in SnapFile : Leftover(f) \in SnapFile
  /\ NoWal \in WalFile /\ BareWal \in WalFile /\ NewWal \in WalFile
<1>1. EmptyTable \in Table
  BY DEF EmptyTable, Table, Entry
<1>2. NoSnap \in SnapFile /\ CutSnap \in SnapFile
  BY <1>1 DEF NoSnap, CutSnap, SnapFile
<1>3. << >> \in Seq(Record)
  OBVIOUS
<1>4. NoWal \in WalFile /\ BareWal \in WalFile /\ NewWal \in WalFile
  BY <1>3 DEF NoWal, BareWal, NewWal, WalFile, FileStates
<1> QED
  BY <1>1, <1>2, <1>4 DEF WholeSnap, Leftover, SnapFile

(* So are the logs that appending, syncing, truncating and crashing leave. *)
LEMMA WalTypes ==
  ASSUME NEW w \in WalFile
  PROVE  /\ \A r \in Record : WithRecord(w, r) \in WalFile
         /\ WithSync(w) \in WalFile
         /\ \A n \in 0 .. Len(w.recs) : Truncated(w, n) \in WalFile
         /\ [w EXCEPT !.torn = TRUE] \in WalFile
         /\ \A n \in w.synced .. Len(w.recs) :
              [w EXCEPT !.recs = SubSeq(w.recs, 1, n), !.synced = n, !.torn = TRUE] \in WalFile
<1>1. w.recs \in Seq(Record) /\ w.synced \in Nat /\ Len(w.recs) \in Nat
  BY DEF WalFile
<1>2. \A r \in Record : WithRecord(w, r) \in WalFile
  BY <1>1, SMTT(30) DEF WithRecord, WalFile
<1>3. WithSync(w) \in WalFile
  BY <1>1 DEF WithSync, WalFile
<1>6. ASSUME NEW n \in 0 .. Len(w.recs)
      PROVE  Truncated(w, n) \in WalFile
  <2>1. SubSeq(w.recs, 1, n) \in Seq(Record)
    BY <1>1
  <2>2. PICK q, m : /\ q = SubSeq(w.recs, 1, n)
                    /\ m = IF w.synced < n THEN w.synced ELSE n
    OBVIOUS
  <2>3. q \in Seq(Record) /\ m \in Nat
    BY <1>1, <2>1, <2>2
  <2>4. Truncated(w, n) = [w EXCEPT !.recs = q, !.torn = FALSE, !.synced = m]
    BY <2>2 DEF Truncated
  <2> QED
    BY <2>3, <2>4 DEF WalFile
<1>4. [w EXCEPT !.torn = TRUE] \in WalFile
  BY DEF WalFile
<1>5. ASSUME NEW n \in w.synced .. Len(w.recs)
      PROVE  [w EXCEPT !.recs = SubSeq(w.recs, 1, n), !.synced = n, !.torn = TRUE] \in WalFile
  <2>1. n \in Nat /\ n <= Len(w.recs)
    BY <1>1
  <2>2. SubSeq(w.recs, 1, n) \in Seq(Record)
    BY <1>1, <2>1
  <2> QED
    BY <2>1, <2>2 DEF WalFile
<1> QED
  BY <1>2, <1>3, <1>4, <1>5, <1>6

(* Truncating behind the last record takes away the torn bytes only.       *)
LEMMA ReopenKeeps ==
  ASSUME TypeOK, ReopenWAL
  PROVE  /\ wal' \in WalFile
         /\ wal'.recs = wal.recs /\ wal'.st = "ready" /\ ~ wal'.torn
         /\ wal.st = "ready"
<1>1. wal \in WalFile /\ wal.recs \in Seq(Record) /\ Len(wal.recs) \in Nat
  BY DEF TypeOK, WalFile
<1>2. wal' = Truncated(wal, Len(wal.recs)) /\ wal.st = "ready"
  BY DEF ReopenWAL, OpenForAppend
<1>3. SubSeq(wal.recs, 1, Len(wal.recs)) = wal.recs
  BY <1>1
<1> QED
  BY <1>1, <1>2, <1>3, WalTypes DEF Truncated, WalFile

(* A request in progress is a record, never NoReq.                         *)
LEMMA ActiveRequest ==
  ASSUME TypeOK, NEW c \in Clients, pc[c] # "idle"
  PROVE  op[c] \in Record
  BY DEF TypeOK

(* The placeholder of an idle client is not a request.                     *)
LEMMA NoReqNotRecord == NoReq \notin Record
  BY RecordFields DEF NoReq

(* Every step keeps the types.                                             *)
LEMMA TypeStep == TypeOK /\ [Next]_vars => TypeOK'
<1> SUFFICES ASSUME TypeOK, [Next]_vars
             PROVE  TypeOK'
  OBVIOUS
<1> USE DEF TypeOK
<1>1. CASE UNCHANGED vars
  BY <1>1 DEF vars
<1>2. CASE OpenLoad
  BY <1>2 DEF OpenLoad, files, calls, SnapFile
<1>3. CASE OpenRefuses
  BY <1>3 DEF OpenRefuses, files, calls
<1>4. CASE ReplayRecord
  <2>1. wal.recs \in Seq(Record) /\ wal.recs[rp + 1] \in Record
    BY <1>4 DEF ReplayRecord, WalFile
  <2>2. Applied(mem, wal.recs[rp + 1]) \in Table
    BY <2>1, AppliedType
  <2> QED
    BY <1>4, <2>2 DEF ReplayRecord, files, calls
<1>5. CASE ReopenWAL
  BY <1>5, ReopenKeeps DEF ReopenWAL, OpenForAppend, calls
<1>21. CASE ReplayCutShort
  <2>1. rp \in 0 .. Len(wal.recs)
    BY <1>21 DEF ReplayCutShort, WalFile
  <2> QED
    BY <1>21, <2>1, WalTypes DEF ReplayCutShort, OpenForAppend, calls
<1>6. CASE CreateWAL
  BY <1>6, FileTypes DEF CreateWAL, calls
<1>7. CASE CreateWALHeader
  BY <1>7, FileTypes DEF CreateWALHeader, calls
<1>8. CASE OpenFault
  BY <1>8, FileTypes DEF OpenFault, calls
<1>9. ASSUME NEW c \in Clients, NEW r \in Record, Call(c, r)
      PROVE  TypeOK'
  BY <1>9, NoReqNotRecord DEF Call, files, server, Stages, Active
<1>10. ASSUME NEW c \in Clients, Write(c)
       PROVE  TypeOK'
  <2>1. op[c] \in Record
    BY <1>10, ActiveRequest DEF Write
  <2> QED
    BY <1>10, <2>1, WalTypes DEF Write, server, Stages
<1>11. ASSUME NEW c \in Clients, Sync(c)
       PROVE  TypeOK'
  BY <1>11, WalTypes DEF Sync, server, Stages
<1>12. ASSUME NEW c \in Clients, ApplyIndex(c)
       PROVE  TypeOK'
  <2>1. op[c] \in Record
    BY <1>12, ActiveRequest DEF ApplyIndex
  <2>2. Applied(mem, op[c]) \in Table
    BY <2>1, AppliedType
  <2> QED
    BY <1>12, <2>2 DEF ApplyIndex, Return, files, Stages
<1>13. ASSUME NEW c \in Clients, WriteClosed(c)
       PROVE  TypeOK'
  BY <1>13 DEF WriteClosed, Return, files, server, Stages
<1>14. ASSUME NEW c \in Clients, AppendFault(c)
       PROVE  TypeOK'
  BY <1>14, WalTypes DEF AppendFault, Return, server, Stages
<1>15. CASE SnapshotCall
  BY <1>15 DEF SnapshotCall, files, server, calls, SnapStages
<1>16. CASE SnapStep
  <2>1. CASE SnapSave
    BY <2>1, FileTypes DEF SnapSave, server, calls, SnapStages
  <2>2. CASE SnapSaved
    BY <2>2, FileTypes DEF SnapSaved, server, calls, SnapStages
  <2>3. CASE SnapRename
    BY <2>3, FileTypes DEF SnapRename, server, calls, SnapStages
  <2>4. CASE SnapCreate
    BY <2>4 DEF SnapCreate, server, calls, SnapStages, FileStates
  <2>5. CASE SnapExists
    BY <2>5 DEF SnapExists, files, server, calls, SnapStages
  <2>6. CASE SnapHeader
    BY <2>6 DEF SnapHeader, server, calls, SnapStages, FileStates
  <2>7. CASE SnapClose
    BY <2>7 DEF SnapClose, files, calls, SnapStages
  <2>8. CASE SnapCloseTwice
    BY <2>8 DEF SnapCloseTwice, server, calls, SnapStages, FileStates
  <2>9. CASE SnapRotate
    BY <2>9, FileTypes DEF SnapRotate, server, calls, SnapStages, FileStates
  <2>10. CASE SnapReopen
    BY <2>10 DEF SnapReopen, files, calls, SnapStages
  <2> QED
    BY <1>16, <2>1, <2>2, <2>3, <2>4, <2>5, <2>6, <2>7, <2>8, <2>9, <2>10 DEF SnapStep
<1>17. CASE SnapFault
  BY <1>17, FileTypes DEF SnapFault, calls, SnapStages, FileStates
<1>18. CASE Close
  BY <1>18 DEF Close, files, calls
<1>19. CASE Writeback
  BY <1>19 DEF Writeback, server, calls, SnapFile
<1>20. CASE Crash
  BY <1>20, FileTypes, WalTypes, ZenonT(40) DEF Crash, CrashWals, CrashSnaps, Stages, SnapStages
<1> QED
  BY <1>1, <1>2, <1>3, <1>4, <1>5, <1>6, <1>7, <1>8, <1>9, <1>10, <1>11, <1>12, <1>13,
     <1>14, <1>15, <1>16, <1>17, <1>18, <1>19, <1>20, <1>21
  DEF Next, OpenStep, ClientStep

(* Type correctness of the durable index, under every fault.               *)
THEOREM TypeCorrect == Spec => []TypeOK
<1>1. Init => TypeOK
  BY FileTypes DEF Init, TypeOK, FileStates, Stages, SnapStages
<1> QED
  BY <1>1, TypeStep, PTL DEF Spec

-----------------------------------------------------------------------------
(* Open computes what the files stand for, whatever happened to them.      *)

\* Calls and snapshots run only in a running process, and Snapshot runs
\* alone once it has the write lock.
Running ==
  /\ \A c \in Clients : pc[c] # "idle" => proc = "up"
  /\ snapPc # "idle" => proc = "up"
  /\ snapPc \notin {"idle", "wait"} => NoReader

\* ReplayMatchesReference, and how far Open has got.
ReplayInv ==
  proc = "replay" =>
    /\ rp <= Len(wal.recs)
    /\ \A k \in Keys : Replayed(snap.tab, wal.recs, rp, k, mem[k])

(* The locks keep Snapshot and the writers apart.                          *)
LEMMA RunningStep == TypeOK /\ Running /\ [Next]_vars => Running'
<1> SUFFICES ASSUME TypeOK, Running, [Next]_vars
             PROVE  Running'
  OBVIOUS
<1> USE DEF Running, NoReader, Active
<1>1. CASE UNCHANGED vars
  BY <1>1 DEF vars
<1>2. CASE OpenLoad \/ OpenRefuses \/ OpenStep \/ ReplayCutShort \/ OpenFault
  BY <1>2 DEF OpenLoad, OpenRefuses, OpenStep, ReplayCutShort, OpenFault, ReplayRecord, ReopenWAL,
              OpenForAppend, CreateWAL, CreateWALHeader, calls
<1>3. ASSUME NEW c \in Clients, NEW r \in Record, Call(c, r)
      PROVE  Running'
  BY <1>3 DEF TypeOK, Call, server
<1>4. ASSUME NEW c \in Clients, Write(c) \/ ClientStep(c) \/ AppendFault(c)
      PROVE  Running'
  <2>1. pc[c] # "idle" /\ proc = "up" /\ snapPc \in {"idle", "wait"}
    BY <1>4 DEF Write, ClientStep, Sync, ApplyIndex, WriteClosed, AppendFault
  <2>2. proc' = proc /\ snapPc' = snapPc
    BY <1>4 DEF Write, ClientStep, Sync, ApplyIndex, WriteClosed, AppendFault, server
  <2> QED
    BY <2>1, <2>2
<1>5. CASE SnapshotCall \/ SnapStep \/ SnapFault
  BY <1>5 DEF SnapshotCall, SnapStep, SnapFault, SnapSave, SnapSaved, SnapRename, SnapCreate,
              SnapExists, SnapHeader, SnapClose, SnapCloseTwice, SnapRotate, SnapReopen,
              server, calls, SnapStages
<1>6. CASE Close \/ Writeback
  BY <1>6 DEF Close, Writeback, server, calls
<1>7. CASE Crash
  BY <1>7 DEF Crash
<1> QED
  BY <1>1, <1>2, <1>3, <1>4, <1>5, <1>6, <1>7 DEF Next

(* Every step of Open, and every other step, keeps ReplayInv.              *)
LEMMA ReplayInvStep ==
  TypeOK /\ Running /\ ReplayInv /\ [Next]_vars => ReplayInv'
<1> SUFFICES ASSUME TypeOK, Running, ReplayInv, [Next]_vars, proc' = "replay"
             PROVE  /\ rp' <= Len(wal'.recs)
                    /\ \A k \in Keys : Replayed(snap'.tab, wal'.recs, rp', k, mem'[k])
  BY DEF ReplayInv
<1>1. CASE UNCHANGED vars
  BY <1>1 DEF vars, ReplayInv
<1>2. CASE OpenLoad
  <2>1. snap.tab \in Table /\ wal.recs \in Seq(Record)
    BY DEF TypeOK, SnapFile, WalFile
  <2>2. snap' = snap /\ wal' = wal /\ mem' = snap.tab /\ rp' = 0
    BY <1>2 DEF OpenLoad, files
  <2>3. 0 <= Len(wal.recs)
    BY <2>1
  <2> QED
    BY <2>1, <2>2, <2>3, ReplayNothing
<1>3. CASE ReplayRecord
  <2> DEFINE r == wal.recs[rp + 1]
  <2>1. /\ snap' = snap /\ wal' = wal /\ mem' = Applied(mem, r) /\ rp' = rp + 1
        /\ proc = "replay" /\ rp < Len(wal.recs) /\ Code(mem, r) # "full"
    BY <1>3 DEF ReplayRecord, files
  <2>2. snap.tab \in Table /\ wal.recs \in Seq(Record) /\ mem \in Table /\ rp \in Nat
    BY DEF TypeOK, SnapFile, WalFile
  <2>3. r \in Record /\ rp + 1 <= Len(wal.recs)
    BY <2>1, <2>2
  <2>4. ASSUME NEW k \in Keys
        PROVE  Replayed(snap.tab, wal.recs, rp + 1, k, Applied(mem, r)[k])
    <3>1. Replayed(snap.tab, wal.recs, rp, k, mem[k]) /\ mem[k] \in Entry
      BY <2>1, <2>2 DEF ReplayInv, Table
    <3>2. Replayed(snap.tab, wal.recs, rp + 1, k, AfterOn(k, mem[k], r))
      BY <2>1, <2>2, <3>1, ReplayStep
    <3> QED
      BY <2>1, <2>2, <2>3, <3>2, AppliedEntry
  <2> QED
    BY <2>1, <2>3, <2>4
<1>4. CASE Writeback
  BY <1>4 DEF Writeback, server, ReplayInv, TypeOK, SnapFile
<1>5. CASE \/ OpenRefuses \/ ReopenWAL \/ ReplayCutShort \/ CreateWAL \/ CreateWALHeader
           \/ OpenFault \/ Crash
  BY <1>5 DEF OpenRefuses, ReopenWAL, ReplayCutShort, OpenForAppend, CreateWAL, CreateWALHeader, OpenFault, Crash
<1>6. ASSUME NEW c \in Clients,
             (\E r \in Record : Call(c, r)) \/ Write(c) \/ ClientStep(c) \/ AppendFault(c)
      PROVE  FALSE
  <2>1. proc = "up" /\ proc' = proc
    BY <1>6 DEF Running, Call, Write, ClientStep, Sync, ApplyIndex, WriteClosed,
                AppendFault, server
  <2> QED
    BY <2>1
<1>7. ASSUME SnapshotCall \/ SnapStep \/ SnapFault \/ Close
      PROVE  FALSE
  <2>1. proc = "up" /\ proc' = proc
    BY <1>7 DEF Running, SnapshotCall, SnapStep, SnapFault, SnapSave, SnapSaved, SnapRename,
                SnapCreate, SnapExists, SnapHeader, SnapClose, SnapCloseTwice, SnapRotate,
                SnapReopen, Close, server, SnapStages
  <2> QED
    BY <2>1
<1> QED
  BY <1>1, <1>2, <1>3, <1>4, <1>5, <1>6, <1>7 DEF Next, OpenStep

(* Replaying record by record computes the reference definition, for every *)
(* log, every snapshot and every fault.                                    *)
THEOREM ReplayCorrect == Spec => []ReplayMatchesReference
<1> DEFINE I == TypeOK /\ Running /\ ReplayInv
<1>1. Init => I
  BY FileTypes DEF Init, TypeOK, Running, NoReader, Active, ReplayInv, FileStates, Stages,
                   SnapStages
<1>2. I /\ [Next]_vars => I'
  BY TypeStep, RunningStep, ReplayInvStep
<1>3. I => ReplayMatchesReference
  BY DEF ReplayInv, ReplayMatchesReference
<1> QED
  BY <1>1, <1>2, <1>3, PTL DEF Spec

-----------------------------------------------------------------------------
(* Durability.  It needs four things of the world: one writer per key at a *)
(* time, no delete of a key the index does not have, a slot for every key, *)
(* and no fault but a killed process and file operations whose failure     *)
(* Open or Snapshot reports.  Each is needed: the configurations           *)
(* MCDurable_order, _overlap, _full, _read, _append and _power show what   *)
(* is lost without it.                                                     *)

Discipline ==
  /\ \A c, d \in Clients : c # d => KeysOf[c] \cap KeysOf[d] = {}
  /\ ~ BlindDeletes
  /\ Cardinality(Keys) <= Capacity
  /\ Faults \subseteq {"io"}

\* What is on disk in each phase of the process's life.
FilesInv ==
  /\ snap.st # "cut"
  /\ wal.st # "ready" => snap.st = "none" /\ wal \in {NoWal, BareWal}
  /\ proc = "up" => wal.st = "ready" /\ ~ wal.torn
  /\ proc = "create" => wal.st = "bare"
  /\ proc = "replay" => wal.st # "bare"
  /\ proc = "failed" => wal.st = "bare"

\* What clients ask for.
RequestInv ==
  \A c \in Clients : pc[c] # "idle" =>
    /\ op[c].key \in KeysOf[c]
    /\ op[c].op = "del" => Present(mem[op[c].key])

\* Client c's record is in the log and not yet in the index.
InLog(c) == pc[c] \in {"written", "logged"}

\* The files are ahead of the index by the records in flight, and by
\* nothing else.
LogInv ==
  proc \in {"create", "up"} =>
    /\ \A k \in Keys :
         (\A c \in Clients : InLog(c) => op[c].key # k) =>
           Replayed(snap.tab, wal.recs, Len(wal.recs), k, mem[k])
    /\ \A c \in Clients :
         InLog(c) =>
           Replayed(snap.tab, wal.recs, Len(wal.recs), op[c].key,
                    After(mem[op[c].key], op[c]))

\* The snapshot being taken is the index.
SnapInv ==
  /\ snapPc = "saved" => tmp = WholeSnap(mem)
  /\ snapPc \in {"renamed", "creating", "created", "closed", "rotated"} =>
       snap.st = "whole" /\ snap.tab = mem

DurableInv ==
  /\ TypeOK /\ Running /\ ReplayInv
  /\ FilesInv /\ RequestInv /\ LogInv /\ SnapInv
  /\ DeletesFindKeys(snap.tab, wal.recs)

(* The invariant holds in the empty directory.                             *)
LEMMA DurableInit == Init => DurableInv
<1> SUFFICES ASSUME Init PROVE DurableInv
  OBVIOUS
<1>1. TypeOK /\ Running /\ ReplayInv
  BY FileTypes DEF Init, TypeOK, Running, NoReader, Active, ReplayInv, FileStates, Stages,
                   SnapStages
<1>2. FilesInv /\ RequestInv /\ LogInv /\ SnapInv
  BY DEF Init, FilesInv, RequestInv, LogInv, SnapInv, NoSnap, NoWal
<1>3. DeletesFindKeys(snap.tab, wal.recs)
  BY DEF Init, DeletesFindKeys, NoWal
<1> QED
  BY <1>1, <1>2, <1>3 DEF DurableInv

(* Each request in flight has its key to itself.                           *)
LEMMA OwnKey ==
  ASSUME Discipline, TypeOK, RequestInv,
         NEW c \in Clients, NEW d \in Clients, c # d, pc[c] # "idle", pc[d] # "idle"
  PROVE  op[c].key # op[d].key
  BY DEF Discipline, RequestInv

(* Append: the log takes in a record.                                      *)
LEMMA WriteKeeps ==
  ASSUME Discipline, DurableInv, NEW c \in Clients, Write(c)
  PROVE  FilesInv' /\ RequestInv' /\ LogInv' /\ SnapInv' /\ DeletesFindKeys(snap.tab, wal.recs)'
<1> DEFINE log == wal.recs
           r == op[c]
<1>1. /\ TypeOK /\ Running /\ FilesInv /\ RequestInv /\ LogInv /\ SnapInv
      /\ DeletesFindKeys(snap.tab, log)
  BY DEF DurableInv
<1>2. /\ pc[c] = "called" /\ r \in Record /\ r.key \in Keys /\ proc = "up"
      /\ log \in Seq(Record) /\ Len(log) \in Nat /\ snap.tab \in Table /\ mem \in Table
  BY <1>1, ActiveRequest, RecordFields DEF Write, Running, TypeOK, WalFile, SnapFile
<1>3. /\ wal' = [wal EXCEPT !.recs = Append(log, r)]
      /\ wal'.recs = Append(log, r) /\ wal'.st = wal.st /\ wal'.torn = wal.torn
      /\ pc' = [pc EXCEPT ![c] = "written"]
      /\ snap' = snap /\ tmp' = tmp /\ mem' = mem /\ proc' = proc /\ op' = op
      /\ snapPc' = snapPc
  BY <1>1, <1>2 DEF Write, WithRecord, FilesInv, server, TypeOK, WalFile
<1>4. \A d \in Clients : /\ pc'[d] = IF d = c THEN "written" ELSE pc[d]
                         /\ d # c /\ pc[d] # "idle" => op[d].key # r.key
  BY <1>1, <1>2, <1>3, OwnKey DEF TypeOK
<1>5. Len(wal'.recs) = Len(log) + 1 /\ wal'.recs[Len(log) + 1] = r /\ wal'.recs \in Seq(Record)
  BY <1>2, <1>3
<1>6. FilesInv'
  BY <1>1, <1>2, <1>3 DEF FilesInv
<1>7. RequestInv'
  BY <1>1, <1>2, <1>3, <1>4 DEF RequestInv
<1>8. SnapInv'
  BY <1>1, <1>3 DEF SnapInv
<1>9. ASSUME NEW k \in Keys, NEW e \in Entry, Replayed(snap.tab, log, Len(log), k, e)
      PROVE  Replayed(snap.tab, wal'.recs, Len(wal'.recs), k, AfterOn(k, e, r))
  <2>1. Replayed(snap.tab, wal'.recs, Len(log), k, e)
    BY <1>2, <1>3, <1>9, ReplayPrefix
  <2>2. Len(log) < Len(wal'.recs)
    BY <1>2, <1>5
  <2> QED
    BY <1>2, <1>5, <2>1, <2>2, ReplayStep
<1>10. \A d \in Clients : InLog(d) => op[d].key # r.key
  BY <1>2, <1>4 DEF InLog
<1>11. mem[r.key] \in Entry /\ Replayed(snap.tab, log, Len(log), r.key, mem[r.key])
  BY <1>1, <1>2, <1>10 DEF LogInv, Table
<1>12. LogInv'
  <2>1. ASSUME NEW k \in Keys, \A d \in Clients : InLog(d)' => op[d].key # k
        PROVE  Replayed(snap.tab, wal'.recs, Len(wal'.recs), k, mem[k])
    <3>1. k # r.key /\ \A d \in Clients : InLog(d) => op[d].key # k
      BY <1>2, <1>3, <1>4, <2>1 DEF InLog
    <3>2. Replayed(snap.tab, log, Len(log), k, mem[k]) /\ mem[k] \in Entry
      BY <1>1, <1>2, <3>1 DEF LogInv, Table
    <3> QED
      BY <1>9, <3>1, <3>2 DEF AfterOn
  <2>2. ASSUME NEW d \in Clients, InLog(d)'
        PROVE  Replayed(snap.tab, wal'.recs, Len(wal'.recs), op[d].key, After(mem[op[d].key], op[d]))
    <3>1. CASE d = c
      BY <1>2, <1>9, <1>11, <3>1 DEF AfterOn
    <3>2. CASE d # c
      <4>1. InLog(d) /\ op[d].key # r.key
        BY <1>4, <1>10, <2>2, <3>2 DEF InLog
      <4>2. op[d] \in Record /\ op[d].key \in Keys
        BY <1>1, <4>1, ActiveRequest, RecordFields DEF InLog
      <4>3. After(mem[op[d].key], op[d]) \in Entry
        BY <1>2, <4>2, AfterType DEF Table
      <4>4. Replayed(snap.tab, log, Len(log), op[d].key, After(mem[op[d].key], op[d]))
        BY <1>1, <1>2, <4>1 DEF LogInv
      <4> QED
        BY <1>9, <4>1, <4>2, <4>3, <4>4 DEF AfterOn
    <3> QED
      BY <3>1, <3>2
  <2> QED
    BY <1>3, <2>1, <2>2 DEF LogInv
<1>13. DeletesFindKeys(snap.tab, wal'.recs)
  <2> SUFFICES ASSUME NEW i \in 1..Len(wal'.recs), wal'.recs[i].op = "del"
               PROVE  Present(snap.tab[wal'.recs[i].key])
                        \/ AddedBy(wal'.recs, i - 1, wal'.recs[i].key)
    BY DEF DeletesFindKeys
  <2>1. \A j \in 1..Len(log) : wal'.recs[j] = log[j]
    BY <1>2, <1>3
  <2>2. \A k : \A m \in 0..Len(log) : AddedBy(wal'.recs, m, k) <=> AddedBy(log, m, k)
    BY <1>2, <2>1, SMTT(30) DEF AddedBy
  <2>3. CASE i \in 1..Len(log)
    <3>1. i - 1 \in 0..Len(log) /\ wal'.recs[i] = log[i]
      BY <1>2, <2>1, <2>3
    <3>2. Present(snap.tab[log[i].key]) \/ AddedBy(log, i - 1, log[i].key)
      BY <1>1, <2>3, <3>1 DEF DeletesFindKeys
    <3> QED
      BY <2>2, <3>1, <3>2
  <2>4. CASE i = Len(log) + 1
    <3>1. wal'.recs[i] = r /\ i - 1 = Len(log) /\ Len(log) \in 0..Len(log)
      BY <1>2, <1>5, <2>4
    <3>2. Present(mem[r.key])
      BY <1>1, <1>2, <3>1 DEF RequestInv
    <3>3. Present(snap.tab[r.key]) \/ AddedBy(log, Len(log), r.key)
      BY <1>2, <1>11, <3>2, ReplayedPresent
    <3> QED
      BY <2>2, <3>1, <3>3
  <2> QED
    BY <1>2, <1>5, <2>3, <2>4
<1> QED
  BY <1>3, <1>6, <1>7, <1>8, <1>12, <1>13

(* The index catches up with the log.                                      *)
LEMMA ApplyKeeps ==
  ASSUME Discipline, DurableInv, NEW c \in Clients, ApplyIndex(c)
  PROVE  FilesInv' /\ RequestInv' /\ LogInv' /\ SnapInv' /\ DeletesFindKeys(snap.tab, wal.recs)'
<1> DEFINE r == op[c]
<1>1. /\ TypeOK /\ Running /\ FilesInv /\ RequestInv /\ LogInv /\ SnapInv
      /\ DeletesFindKeys(snap.tab, wal.recs)
  BY DEF DurableInv
<1>2. /\ pc[c] = "logged" /\ r \in Record /\ r.key \in Keys /\ proc = "up" /\ mem \in Table
      /\ snapPc \in {"idle", "wait"}
  BY <1>1, ActiveRequest, RecordFields DEF ApplyIndex, Running, TypeOK, NoReader, Active
<1>3. /\ snap' = snap /\ tmp' = tmp /\ wal' = wal /\ proc' = proc /\ snapPc' = snapPc
      /\ pc' = [pc EXCEPT ![c] = "idle"] /\ op' = [op EXCEPT ![c] = NoReq]
      /\ mem' = Applied(mem, r)
  BY DEF ApplyIndex, Return, files
<1>4. \A k \in Keys : mem'[k] = AfterOn(k, mem[k], r)
  BY <1>2, <1>3, NeverFull, AppliedEntry DEF Discipline
<1>5. \A d \in Clients : d # c /\ pc[d] # "idle" =>
        /\ pc'[d] = pc[d] /\ op'[d] = op[d] /\ op[d].key \in Keys
        /\ op[d].key # r.key /\ mem'[op[d].key] = mem[op[d].key]
  BY <1>1, <1>2, <1>3, <1>4, OwnKey, ActiveRequest, RecordFields DEF TypeOK, AfterOn
<1>6. \A d \in Clients : pc'[d] # "idle" => d # c /\ pc[d] # "idle" /\ pc'[d] = pc[d]
  BY <1>1, <1>3 DEF TypeOK
<1>7. RequestInv'
  BY <1>1, <1>5, <1>6 DEF RequestInv
<1>8. LogInv'
  <2>1. ASSUME NEW k \in Keys, \A d \in Clients : InLog(d)' => op'[d].key # k
        PROVE  Replayed(snap.tab, wal.recs, Len(wal.recs), k, mem'[k])
    <3>1. CASE k = r.key
      BY <1>1, <1>2, <1>4, <3>1 DEF LogInv, InLog, AfterOn
    <3>2. CASE k # r.key
      <4>1. \A d \in Clients : InLog(d) => op[d].key # k
        BY <1>5, <2>1, <3>2 DEF InLog
      <4>2. mem'[k] = mem[k]
        BY <1>4, <3>2 DEF AfterOn
      <4> QED
        BY <1>1, <1>2, <4>1, <4>2 DEF LogInv
    <3> QED
      BY <3>1, <3>2
  <2>2. ASSUME NEW d \in Clients, InLog(d)'
        PROVE  Replayed(snap.tab, wal.recs, Len(wal.recs), op'[d].key,
                        After(mem'[op'[d].key], op'[d]))
    <3>1. d # c /\ pc[d] # "idle" /\ InLog(d)
      BY <1>6, <2>2 DEF InLog
    <3> QED
      BY <1>1, <1>2, <1>5, <3>1 DEF LogInv
  <2> QED
    BY <1>3, <2>1, <2>2 DEF LogInv
<1>9. FilesInv' /\ DeletesFindKeys(snap.tab, wal.recs)'
  BY <1>1, <1>3 DEF FilesInv
<1>10. SnapInv'
  BY <1>2, <1>3 DEF SnapInv
<1> QED
  BY <1>7, <1>8, <1>9, <1>10

(* The snapshot is renamed into place under a log that it already covers.  *)
LEMMA RenameKeeps ==
  ASSUME Discipline, DurableInv, SnapRename
  PROVE  FilesInv' /\ RequestInv' /\ LogInv' /\ SnapInv' /\ DeletesFindKeys(snap.tab, wal.recs)'
<1> DEFINE log == wal.recs
<1>1. /\ TypeOK /\ Running /\ FilesInv /\ RequestInv /\ LogInv /\ SnapInv
      /\ DeletesFindKeys(snap.tab, log)
  BY DEF DurableInv
<1>2. /\ proc = "up" /\ NoReader /\ log \in Seq(Record) /\ Len(log) \in Nat
      /\ snap.tab \in Table /\ mem \in Table
  BY <1>1 DEF SnapRename, Running, TypeOK, WalFile, SnapFile
<1>3. /\ snap' = WholeSnap(mem) /\ snap'.tab = mem /\ snap'.st = "whole" /\ snapPc' = "renamed"
      /\ wal' = wal /\ mem' = mem /\ proc' = proc /\ pc' = pc /\ op' = op
  BY <1>1 DEF SnapRename, SnapInv, WholeSnap, server, calls
<1>4. \A k \in Keys : Replayed(snap.tab, log, Len(log), k, mem[k])
  BY <1>1, <1>2 DEF LogInv, NoReader, Active, InLog
<1>5. \A k \in Keys : Replayed(mem, log, Len(log), k, mem[k])
  BY <1>1, <1>2, <1>4, ReplayIdempotent
<1>6. LogInv'
  BY <1>2, <1>3, <1>5 DEF LogInv, NoReader, Active, InLog
<1>7. DeletesFindKeys(mem, log)
  <2> SUFFICES ASSUME NEW i \in 1..Len(log), log[i].op = "del"
               PROVE  Present(mem[log[i].key])
    BY DEF DeletesFindKeys
  <2>1. log[i] \in Record /\ log[i].key \in Keys /\ mem[log[i].key] \in Entry
    BY <1>2, RecordFields DEF Table
  <2>2. Present(snap.tab[log[i].key]) \/ AddedBy(log, i - 1, log[i].key)
    BY <1>1 DEF DeletesFindKeys
  <2>3. AddedBy(log, i - 1, log[i].key) => AddedBy(log, Len(log), log[i].key)
    BY <1>2 DEF AddedBy
  <2> QED
    BY <1>2, <1>4, <2>1, <2>2, <2>3, ReplayedPresent
<1>8. FilesInv' /\ RequestInv' /\ SnapInv'
  BY <1>1, <1>2, <1>3 DEF FilesInv, RequestInv, SnapInv
<1> QED
  BY <1>3, <1>6, <1>7, <1>8

(* The log is rotated away: the snapshot holds all it stood for.           *)
LEMMA RotateKeeps ==
  ASSUME DurableInv, SnapRotate
  PROVE  FilesInv' /\ RequestInv' /\ LogInv' /\ SnapInv' /\ DeletesFindKeys(snap.tab, wal.recs)'
<1>1. /\ TypeOK /\ Running /\ FilesInv /\ RequestInv /\ SnapInv
  BY DEF DurableInv
<1>2. proc = "up" /\ NoReader /\ snap.tab = mem /\ snap.st = "whole" /\ mem \in Table
  BY <1>1 DEF SnapRotate, Running, SnapInv, TypeOK
<1>3. /\ wal'.recs = << >> /\ wal'.st = "ready" /\ wal'.torn = FALSE /\ snap' = snap
      /\ mem' = mem /\ proc' = proc /\ pc' = pc /\ op' = op /\ snapPc' = "rotated"
  BY DEF SnapRotate, NewWal, NoWal, server, calls
<1>4. << >> \in Seq(Record) /\ Len(<< >>) = 0
  OBVIOUS
<1>5. \A k \in Keys : Replayed(mem, << >>, 0, k, mem[k])
  BY <1>2, <1>4, ReplayNothing
<1>6. LogInv'
  BY <1>2, <1>3, <1>4, <1>5 DEF LogInv, NoReader, Active, InLog
<1>7. FilesInv' /\ RequestInv' /\ SnapInv'
  BY <1>1, <1>2, <1>3 DEF FilesInv, RequestInv, SnapInv
<1>8. DeletesFindKeys(snap.tab, wal.recs)'
  BY <1>3, <1>4 DEF DeletesFindKeys
<1> QED
  BY <1>6, <1>7, <1>8

(* Open finishes with the index that the files stand for.                  *)
LEMMA OpenKeeps ==
  ASSUME Discipline, DurableInv, OpenLoad \/ OpenRefuses \/ OpenStep \/ OpenFault
  PROVE  FilesInv' /\ RequestInv' /\ LogInv' /\ SnapInv' /\ DeletesFindKeys(snap.tab, wal.recs)'
<1>1. /\ TypeOK /\ Running /\ ReplayInv /\ FilesInv /\ RequestInv /\ LogInv /\ SnapInv
      /\ DeletesFindKeys(snap.tab, wal.recs)
  BY DEF DurableInv
<1>2. /\ proc # "up" /\ snapPc = "idle" /\ \A c \in Clients : pc[c] = "idle"
      /\ snapPc' = snapPc /\ snap' = snap /\ pc' = pc /\ op' = op
  BY <1>1 DEF OpenLoad, OpenRefuses, OpenStep, OpenFault, ReplayRecord, ReopenWAL, OpenForAppend,
              CreateWAL, CreateWALHeader, Running, files, calls
<1>3. RequestInv' /\ SnapInv'
  BY <1>2 DEF RequestInv, SnapInv
<1>4. NoWal.recs = << >> /\ BareWal.recs = << >> /\ NewWal.recs = << >>
      /\ NoWal.st = "none" /\ BareWal.st = "bare" /\ NewWal.st = "ready" /\ ~ NewWal.torn
  BY DEF NoWal, BareWal, NewWal
<1>5. wal'.recs = wal.recs
  BY <1>1, <1>4, ReopenKeeps
  DEF OpenLoad, OpenRefuses, OpenStep, OpenFault, ReplayRecord, CreateWAL, CreateWALHeader,
      FilesInv, files
<1>6. FilesInv'
  <2>1. CASE OpenLoad \/ OpenRefuses
    BY <1>1, <2>1 DEF OpenLoad, OpenRefuses, FilesInv, files
  <2>2. CASE ReplayRecord
    <3>1. wal.recs[rp + 1] \in Record /\ mem \in Table
      BY <1>1, <2>2 DEF ReplayRecord, TypeOK, WalFile
    <3>2. Code(mem, wal.recs[rp + 1]) # "full"
      BY <3>1, NeverFull DEF Discipline
    <3> QED
      BY <1>1, <2>2, <3>2 DEF ReplayRecord, FilesInv, files
  <2>3. CASE ReopenWAL
    BY <1>1, <2>3, ReopenKeeps DEF ReopenWAL, OpenForAppend, FilesInv
  <2>4. CASE CreateWAL
    BY <1>1, <1>4, <2>4 DEF CreateWAL, FilesInv
  <2>5. CASE CreateWALHeader
    BY <1>1, <1>4, <2>5 DEF CreateWALHeader, FilesInv
  <2>6. CASE OpenFault
    BY <1>1, <1>4, <2>6 DEF OpenFault, FilesInv
  <2> QED
    BY <2>1, <2>2, <2>3, <2>4, <2>5, <2>6 DEF OpenStep
<1>7. LogInv'
  <2>1. CASE ReopenWAL \/ CreateWAL
    <3>1. proc = "replay" /\ mem' = mem /\ rp = Len(wal.recs)
      BY <1>1, <1>4, <2>1 DEF ReopenWAL, OpenForAppend, CreateWAL, ReplayInv, FilesInv, TypeOK
    <3> QED
      BY <1>1, <1>2, <1>5, <3>1 DEF LogInv, ReplayInv, InLog
  <2>2. CASE CreateWALHeader
    <3>1. proc = "create" /\ mem' = mem
      BY <2>2 DEF CreateWALHeader
    <3> QED
      BY <1>1, <1>2, <1>5, <3>1 DEF LogInv, InLog
  <2>3. CASE OpenLoad \/ OpenRefuses \/ ReplayRecord \/ OpenFault
    BY <2>3 DEF OpenLoad, OpenRefuses, ReplayRecord, OpenFault, LogInv
  <2> QED
    BY <2>1, <2>2, <2>3 DEF OpenStep
<1>8. DeletesFindKeys(snap.tab, wal.recs)'
  BY <1>1, <1>2, <1>5
<1> QED
  BY <1>3, <1>6, <1>7, <1>8

(* The steps of a call other than Write and ApplyIndex.                    *)
LEMMA CallKeeps ==
  ASSUME Discipline, DurableInv, NEW c \in Clients,
         (\E r \in Record : Call(c, r)) \/ Sync(c) \/ WriteClosed(c)
  PROVE  FilesInv' /\ RequestInv' /\ LogInv' /\ SnapInv' /\ DeletesFindKeys(snap.tab, wal.recs)'
<1>1. /\ TypeOK /\ Running /\ FilesInv /\ RequestInv /\ LogInv /\ SnapInv
      /\ DeletesFindKeys(snap.tab, wal.recs)
  BY DEF DurableInv
<1>2. /\ snap' = snap /\ tmp' = tmp /\ mem' = mem /\ proc' = proc /\ snapPc' = snapPc
      /\ wal'.recs = wal.recs /\ wal'.st = wal.st /\ wal'.torn = wal.torn
      /\ wal.st = "ready"
  <2>1. proc = "up" /\ wal.st = "ready"
    BY <1>1 DEF Call, Sync, WriteClosed, Running, FilesInv
  <2> QED
    BY <1>1, <2>1 DEF Call, Sync, WriteClosed, WithSync, files, server, TypeOK, WalFile
<1>3. FilesInv' /\ SnapInv' /\ DeletesFindKeys(snap.tab, wal.recs)'
  BY <1>1, <1>2 DEF FilesInv, SnapInv
<1>4. RequestInv'
  <2>1. ASSUME NEW r \in Record, Call(c, r)
        PROVE  RequestInv'
    <3>1. r.key \in KeysOf[c] /\ (r.op = "del" => Present(mem[r.key]))
      BY <2>1 DEF Call, Discipline
    <3>2. \A d \in Clients : /\ op'[d] = IF d = c THEN r ELSE op[d]
                             /\ d # c => pc'[d] = pc[d]
      BY <1>1, <2>1 DEF Call, TypeOK
    <3> QED
      BY <1>1, <1>2, <3>1, <3>2 DEF RequestInv
  <2>2. CASE Sync(c) \/ WriteClosed(c)
    <3>1. \A d \in Clients : pc'[d] # "idle" => pc[d] # "idle" /\ op'[d] = op[d]
      BY <1>1, <2>2 DEF Sync, WriteClosed, Return, TypeOK
    <3> QED
      BY <1>1, <1>2, <3>1 DEF RequestInv
  <2> QED
    BY <2>1, <2>2
<1>5. \A d \in Clients : InLog(d)' <=> InLog(d)
  BY <1>1 DEF InLog, Call, Sync, WriteClosed, Return, Active, TypeOK
<1>6. \A d \in Clients : InLog(d) => op'[d] = op[d]
  BY <1>1 DEF InLog, Call, Sync, WriteClosed, Return, Active, TypeOK
<1>7. LogInv'
  BY <1>1, <1>2, <1>5, <1>6 DEF LogInv
<1> QED
  BY <1>3, <1>4, <1>7

(* The steps of Snapshot that touch neither the log nor the snapshot, and  *)
(* Close.                                                                  *)
LEMMA SnapshotKeeps ==
  ASSUME Discipline, DurableInv,
         SnapshotCall \/ SnapStep \/ SnapFault \/ Close, ~ SnapRename, ~ SnapRotate
  PROVE  FilesInv' /\ RequestInv' /\ LogInv' /\ SnapInv' /\ DeletesFindKeys(snap.tab, wal.recs)'
<1>1. /\ TypeOK /\ FilesInv /\ RequestInv /\ LogInv /\ SnapInv
      /\ DeletesFindKeys(snap.tab, wal.recs)
  BY DEF DurableInv
<1>2. /\ snap' = snap /\ wal' = wal /\ mem' = mem /\ proc' = proc /\ pc' = pc /\ op' = op
  BY DEF SnapshotCall, SnapStep, SnapFault, SnapSave, SnapSaved, SnapCreate, SnapExists,
         SnapHeader, SnapClose, SnapCloseTwice, SnapReopen, Close, files, server, calls
<1>3. FilesInv' /\ RequestInv' /\ LogInv' /\ DeletesFindKeys(snap.tab, wal.recs)'
  BY <1>1, <1>2 DEF FilesInv, RequestInv, LogInv, InLog
<1>4. SnapInv'
  <2>1. CASE SnapSaved
    BY <2>1, <1>2 DEF SnapSaved, SnapInv, Discipline
  <2>2. CASE SnapCreate \/ SnapHeader \/ SnapClose
    BY <1>1, <1>2, <2>2 DEF SnapCreate, SnapHeader, SnapClose, SnapInv
  <2>3. CASE SnapshotCall \/ SnapSave \/ SnapExists \/ SnapCloseTwice \/ SnapReopen \/ SnapFault
    BY <2>3 DEF SnapshotCall, SnapSave, SnapExists, SnapCloseTwice, SnapReopen, SnapFault, SnapInv
  <2>4. CASE Close
    BY <1>1, <1>2, <2>4 DEF Close, files, SnapInv
  <2> QED
    BY <2>1, <2>2, <2>3, <2>4 DEF SnapStep
<1> QED
  BY <1>3, <1>4

(* A crash keeps the records and the snapshot.                             *)
LEMMA CrashKeeps ==
  ASSUME Discipline, DurableInv, Crash
  PROVE  FilesInv' /\ RequestInv' /\ LogInv' /\ SnapInv' /\ DeletesFindKeys(snap.tab, wal.recs)'
<1>1. TypeOK /\ Running /\ FilesInv /\ DeletesFindKeys(snap.tab, wal.recs)
  BY DEF DurableInv
<1>2. snap' = snap /\ wal' \in {wal, [wal EXCEPT !.torn = TRUE]}
  BY DEF Crash, CrashSnaps, CrashWals, Discipline
<1>3. wal'.recs = wal.recs /\ wal'.st = wal.st
  BY <1>1, <1>2 DEF TypeOK, WalFile
<1>4. wal.st # "ready" => wal' = wal
  BY <1>1 DEF Crash, CrashWals, MidWrite, Running, FilesInv, Discipline
<1>5. proc' = "down" /\ snapPc' = "idle" /\ \A c \in Clients : pc'[c] = "idle"
  BY DEF Crash
<1>6. FilesInv'
  BY <1>1, <1>2, <1>3, <1>4, <1>5 DEF FilesInv
<1>7. RequestInv' /\ LogInv' /\ SnapInv'
  BY <1>5 DEF RequestInv, LogInv, SnapInv
<1> QED
  BY <1>1, <1>2, <1>3, <1>6, <1>7

(* DurableInv is inductive.                                                *)
LEMMA DurableStep ==
  ASSUME Discipline, DurableInv, [Next]_vars
  PROVE  DurableInv'
<1> DEFINE Rest == FilesInv /\ RequestInv /\ LogInv /\ SnapInv /\ DeletesFindKeys(snap.tab, wal.recs)
<1>1. TypeOK' /\ Running' /\ ReplayInv'
  BY TypeStep, RunningStep, ReplayInvStep DEF DurableInv
<1>2. Rest'
  <2>1. CASE UNCHANGED vars
    BY <2>1 DEF DurableInv, FilesInv, RequestInv, LogInv, SnapInv, InLog, vars
  <2>2. CASE OpenLoad \/ OpenRefuses \/ OpenStep \/ OpenFault
    BY <2>2, OpenKeeps
  <2>3. ASSUME NEW c \in Clients, (\E r \in Record : Call(c, r)) \/ Write(c) \/ ClientStep(c)
        PROVE  Rest'
    BY <2>3, CallKeeps, WriteKeeps, ApplyKeeps DEF ClientStep
  <2>4. CASE SnapshotCall \/ SnapStep \/ SnapFault \/ Close
    BY <2>4, SnapshotKeeps, RenameKeeps, RotateKeeps
  <2>5. CASE Crash
    BY <2>5, CrashKeeps
  <2>6. ASSUME NEW c \in Clients PROVE ~ AppendFault(c)
    BY DEF AppendFault, Discipline
  <2>7. ~ Writeback /\ ~ ReplayCutShort
    BY DEF Writeback, ReplayCutShort, Discipline
  <2> QED
    BY <2>1, <2>2, <2>3, <2>4, <2>5, <2>6, <2>7 DEF Next
<1> QED
  BY <1>1, <1>2 DEF DurableInv

(* What the invariant says about the next crash.                           *)
LEMMA DurableConsequence ==
  ASSUME Discipline, DurableInv
  PROVE  AckedWritesSurvive /\ OpenAcceptsItsFiles
<1>1. TypeOK /\ FilesInv /\ LogInv
  BY DEF DurableInv
<1>2. OpenAcceptsItsFiles
  BY <1>1 DEF OpenAcceptsItsFiles, FilesInv
<1>3. ASSUME proc = "up", NEW s \in CrashSnaps, NEW w \in CrashWals, NEW k \in Keys, Quiet(k)
      PROVE  /\ s.st # "cut" /\ w.st = "ready"
             /\ Replayed(s.tab, w.recs, Len(w.recs), k, mem[k])
  <2>1. s = snap /\ w.recs = wal.recs /\ w.st = wal.st
    BY <1>1, <1>3 DEF CrashSnaps, CrashWals, Discipline, TypeOK, WalFile
  <2>2. \A c \in Clients : InLog(c) => op[c].key # k
    BY <1>1, <1>3 DEF Quiet, InLog, TypeOK
  <2> QED
    BY <1>1, <1>3, <2>1, <2>2 DEF FilesInv, LogInv
<1> QED
  BY <1>2, <1>3 DEF AckedWritesSurvive

(* The guarantee of WAL.md, with what it takes: under Discipline, every    *)
(* answered write survives a crash of the process at any point, also in    *)
(* the middle of a snapshot or of a failing rotation, and any number of    *)
(* crashes and restarts later.                                             *)
THEOREM WritesSurvive == Discipline => (Spec => []AckedWritesSurvive)
<1> SUFFICES ASSUME Discipline PROVE Spec => []AckedWritesSurvive
  OBVIOUS
<1>1. Init => DurableInv
  BY DurableInit
<1>2. DurableInv /\ [Next]_vars => DurableInv'
  BY DurableStep
<1>3. DurableInv => AckedWritesSurvive
  BY DurableConsequence
<1> QED
  BY <1>1, <1>2, <1>3, PTL DEF Spec

(* Under the same Discipline no state of the files makes Open fail, save a *)
(* first start cut short before it wrote the log's header.                 *)
THEOREM OpenAccepts == Discipline => (Spec => []OpenAcceptsItsFiles)
<1> SUFFICES ASSUME Discipline PROVE Spec => []OpenAcceptsItsFiles
  OBVIOUS
<1>1. Init => DurableInv
  BY DurableInit
<1>2. DurableInv /\ [Next]_vars => DurableInv'
  BY DurableStep
<1>3. DurableInv => OpenAcceptsItsFiles
  BY DurableConsequence
<1> QED
  BY <1>1, <1>2, <1>3, PTL DEF Spec

-----------------------------------------------------------------------------
(* The refinement: the files stand for an abstract durable map.            *)

(* Replay leaves at most one entry for a key.                              *)
LEMMA ReplayUnique ==
  ASSUME NEW base \in Table, NEW log \in Seq(Record), NEW k \in Keys,
         NEW e \in Entry, NEW f \in Entry,
         Replayed(base, log, Len(log), k, e), Replayed(base, log, Len(log), k, f)
  PROVE  e = f
<1> DEFINE n == Len(log)
<1>1. n \in Nat
  OBVIOUS
<1>2. \A i, j \in 1..n : FirstAdd(log, i, k) /\ FirstAdd(log, j, k) => i = j
  <2> SUFFICES ASSUME NEW i \in 1..n, NEW j \in 1..n,
                      FirstAdd(log, i, k), FirstAdd(log, j, k), i < j
               PROVE  FALSE
    BY <1>1
  <2>1. i \in 1..(j - 1)
    BY <1>1
  <2> QED
    BY <2>1 DEF FirstAdd
<1>3. ReplayedVec(base, log, n, k, e.vec) /\ ReplayedVec(base, log, n, k, f.vec)
  BY DEF Replayed
<1>4. e.vec = f.vec
  <2>1. CASE Present(base[k])
    BY <1>3, <2>1 DEF ReplayedVec
  <2>2. CASE ~ Present(base[k]) /\ AddedBy(log, n, k)
    <3>1. PICK i \in 1..n : FirstAdd(log, i, k) /\ e.vec = log[i].vec
      BY <1>3, <2>2 DEF ReplayedVec
    <3>2. PICK j \in 1..n : FirstAdd(log, j, k) /\ f.vec = log[j].vec
      BY <1>3, <2>2 DEF ReplayedVec
    <3> QED
      BY <1>2, <3>1, <3>2
  <2>3. CASE ~ Present(base[k]) /\ ~ AddedBy(log, n, k)
    <3>1. \A i \in 1..n : ~ FirstAdd(log, i, k)
      BY <2>3 DEF AddedBy, FirstAdd
    <3> QED
      BY <1>3, <2>3, <3>1 DEF ReplayedVec
  <2> QED
    BY <2>1, <2>2, <2>3
<1>5. e.deleted = f.deleted
  <2>1. e.deleted \in BOOLEAN /\ f.deleted \in BOOLEAN
    BY EntryFields
  <2>2. e.deleted <=> f.deleted
    BY DEF Replayed
  <2> QED
    BY <2>1, <2>2
<1> QED
  BY <1>4, <1>5, EntryFields

(* So Recovery is the table replay leaves.                                 *)
LEMMA RecoveryEntry ==
  ASSUME NEW base \in Table, NEW log \in Seq(Record), NEW k \in Keys,
         NEW e \in Entry, Replayed(base, log, Len(log), k, e)
  PROVE  Recovery(base, log)[k] = e
<1> DEFINE f == CHOOSE x \in Entry : Replayed(base, log, Len(log), k, x)
<1>1. f \in Entry /\ Replayed(base, log, Len(log), k, f)
  OBVIOUS
<1>2. Recovery(base, log)[k] = f
  BY DEF Recovery
<1> HIDE DEF f
<1> QED
  BY <1>1, <1>2, ReplayUnique

\* Replay of `log' over `base' leaves an entry for every key.
Recoverable(base, log) ==
  \A k \in Keys : \E e \in Entry : Replayed(base, log, Len(log), k, e)

(* Recovery is a table, and the one replay leaves.                         *)
LEMMA RecoveryType ==
  ASSUME NEW base \in Table, NEW log \in Seq(Record), Recoverable(base, log)
  PROVE  /\ Recovery(base, log) \in Table
         /\ \A k \in Keys : Replayed(base, log, Len(log), k, Recovery(base, log)[k])
<1>1. ASSUME NEW k \in Keys
      PROVE  /\ Recovery(base, log)[k] \in Entry
             /\ Replayed(base, log, Len(log), k, Recovery(base, log)[k])
  <2>1. PICK e \in Entry : Replayed(base, log, Len(log), k, e)
    BY DEF Recoverable
  <2>2. Recovery(base, log)[k] = e
    BY <2>1, RecoveryEntry
  <2> QED
    BY <2>1, <2>2
<1>2. Recovery(base, log) = [k \in Keys |-> Recovery(base, log)[k]]
  BY DEF Recovery
<1>3. Recovery(base, log) \in Table
  BY <1>1, <1>2 DEF Table
<1> QED
  BY <1>1, <1>3

(* A table that replay leaves for every key is the recovered one.          *)
LEMMA RecoveryIs ==
  ASSUME NEW base \in Table, NEW log \in Seq(Record), NEW t \in Table,
         \A k \in Keys : Replayed(base, log, Len(log), k, t[k])
  PROVE  Recoverable(base, log) /\ Recovery(base, log) = t
<1>1. ASSUME NEW k \in Keys
      PROVE  t[k] \in Entry /\ Recovery(base, log)[k] = t[k]
  BY RecoveryEntry DEF Table
<1>2. Recoverable(base, log)
  BY <1>1 DEF Recoverable
<1>3. Recovery(base, log) = [k \in Keys |-> Recovery(base, log)[k]]
  BY DEF Recovery
<1>4. t = [k \in Keys |-> t[k]]
  BY DEF Table
<1>5. [k \in Keys |-> Recovery(base, log)[k]] = [k \in Keys |-> t[k]]
  BY <1>1
<1> QED
  BY <1>2, <1>3, <1>4, <1>5

(* An empty log leaves the snapshot.                                       *)
LEMMA RecoveryOfNothing ==
  ASSUME NEW base \in Table
  PROVE  Recoverable(base, << >>) /\ Recovery(base, << >>) = base
<1>1. << >> \in Seq(Record) /\ Len(<< >>) = 0
  OBVIOUS
<1>2. \A k \in Keys : Replayed(base, << >>, 0, k, base[k])
  BY <1>1, ReplayNothing
<1> QED
  BY <1>1, <1>2, RecoveryIs

(* A record appended to the log does to the recovered table what the       *)
(* request does to the index: this is the instant it takes effect.         *)
LEMMA RecoveryAppend ==
  ASSUME NEW base \in Table, NEW log \in Seq(Record), NEW r \in Record,
         Recoverable(base, log), Cardinality(Keys) <= Capacity
  PROVE  /\ Recoverable(base, Append(log, r))
         /\ Recovery(base, Append(log, r)) = Applied(Recovery(base, log), r)
<1>1. PICK t : t = Recovery(base, log)
  OBVIOUS
<1>2. PICK log2 : log2 = Append(log, r)
  OBVIOUS
<1>3. t \in Table /\ \A k \in Keys : Replayed(base, log, Len(log), k, t[k])
  BY <1>1, RecoveryType
<1>4. /\ log2 \in Seq(Record) /\ Len(log) \in Nat /\ Len(log) < Len(log2)
      /\ Len(log2) = Len(log) + 1 /\ log2[Len(log) + 1] = r
  BY <1>2
<1>5. Applied(t, r) \in Table
  BY <1>3, AppliedType
<1>6. ASSUME NEW k \in Keys
      PROVE  Replayed(base, log2, Len(log2), k, Applied(t, r)[k])
  <2>1. t[k] \in Entry /\ Replayed(base, log2, Len(log), k, t[k])
    BY <1>2, <1>3, ReplayPrefix DEF Table
  <2>2. Replayed(base, log2, Len(log) + 1, k, AfterOn(k, t[k], log2[Len(log) + 1]))
    BY <1>4, <2>1, ReplayStep
  <2>3. Applied(t, r)[k] = AfterOn(k, t[k], r)
    BY <1>3, NeverFull, AppliedEntry
  <2> QED
    BY <1>4, <2>2, <2>3
<1>7. Recoverable(base, log2) /\ Recovery(base, log2) = Applied(t, r)
  BY <1>4, <1>5, <1>6, RecoveryIs
<1> QED
  BY <1>1, <1>2, <1>7

(* With a slot for every key, the answer to a request depends on its own   *)
(* key alone.                                                              *)
LEMMA CodeOwnKey ==
  ASSUME NEW t \in Table, NEW u \in Table, NEW r \in Record, t[r.key] = u[r.key],
         Cardinality(Keys) <= Capacity
  PROVE  Code(t, r) = Code(u, r)
<1>1. Code(t, r) # "full" /\ Code(u, r) # "full"
  BY NeverFull
<1>2. r.op \in {"add", "del", "undel"}
  BY RecordFields
<1> QED
  BY <1>1, <1>2 DEF Code

(* DurableMap computes with the same table operators.                      *)
LEMMA MapOperators ==
  /\ Map!EmptyTable = EmptyTable /\ Map!Record = Record
  /\ \A t, r : Map!Code(t, r) = Code(t, r) /\ Map!Applied(t, r) = Applied(t, r)
<1>1. Map!EmptyTable = EmptyTable
  BY DEF Map!EmptyTable, EmptyTable, Map!AbsentEntry, AbsentEntry
<1>2. Map!Record = Record
  BY DEF Map!Record, Record, Map!Adds, Adds, Map!Marks, Marks
<1>3. \A e : Map!Present(e) <=> Present(e)
  BY DEF Map!Present, Present
<1>4. \A t : Map!Count(t) = Count(t)
  <2>1. \A S : Map!Cardinality(S) = Cardinality(S)
    BY DEF Map!Cardinality, Cardinality
  <2>2. \A t : {k \in Keys : Map!Present(t[k])} = {k \in Keys : Present(t[k])}
    BY <1>3
  <2> QED
    BY <2>1, <2>2 DEF Map!Count, Count
<1>5. \A t, r : Map!Code(t, r) = Code(t, r)
  BY <1>3, <1>4 DEF Map!Code, Code
<1>6. \A e, r : Map!Effect(e, r) = Effect(e, r)
  BY DEF Map!Effect, Effect
<1>7. \A t, r : Map!Applied(t, r) = Applied(t, r)
  BY <1>5, <1>6 DEF Map!Applied, Applied
<1> QED
  BY <1>1, <1>2, <1>5, <1>7
\* The invariant of the refinement.
MapInv == DurableInv /\ Recoverable(snap.tab, wal.recs)

(* Writing a record is the request's one effect on the files.              *)
LEMMA WriteCommits ==
  ASSUME Discipline, MapInv, NEW c \in Clients, Write(c)
  PROVE  /\ Recoverable(snap.tab, wal.recs)'
         /\ Recovered' = Applied(Recovered, op[c])
<1>1. TypeOK /\ Running /\ FilesInv /\ Recoverable(snap.tab, wal.recs)
  BY DEF MapInv, DurableInv
<1>2. /\ op[c] \in Record /\ proc = "up" /\ wal.recs \in Seq(Record) /\ snap.tab \in Table
  BY <1>1, ActiveRequest DEF Write, Running, TypeOK, WalFile, SnapFile
<1>3. wal'.recs = Append(wal.recs, op[c]) /\ snap' = snap
  BY <1>1, <1>2 DEF Write, WithRecord, FilesInv, TypeOK, WalFile
<1>4. /\ Recoverable(snap.tab, Append(wal.recs, op[c]))
      /\ Recovery(snap.tab, Append(wal.recs, op[c])) = Applied(Recovery(snap.tab, wal.recs), op[c])
  BY <1>1, <1>2, RecoveryAppend DEF Discipline
<1> QED
  BY <1>3, <1>4 DEF Recovered

(* No other step changes what the files stand for: not the two renames of  *)
(* Snapshot, not a crash, not a step of Open.                              *)
LEMMA OthersKeepFiles ==
  ASSUME Discipline, MapInv, [Next]_vars, \A c \in Clients : ~ Write(c)
  PROVE  Recoverable(snap.tab, wal.recs)' /\ Recovered' = Recovered
<1>1. /\ TypeOK /\ Running /\ FilesInv /\ LogInv /\ SnapInv
      /\ DeletesFindKeys(snap.tab, wal.recs) /\ Recoverable(snap.tab, wal.recs)
  BY DEF MapInv, DurableInv
<1>2. wal.recs \in Seq(Record) /\ snap.tab \in Table /\ mem \in Table
  BY <1>1 DEF TypeOK, WalFile, SnapFile
<1>3. ASSUME snap' = snap, wal'.recs = wal.recs
      PROVE  Recoverable(snap.tab, wal.recs)' /\ Recovered' = Recovered
  BY <1>1, <1>3 DEF Recovered
<1>4. CASE UNCHANGED vars
  BY <1>3, <1>4 DEF vars
<1>5. CASE OpenLoad \/ OpenRefuses \/ OpenStep \/ OpenFault
  <2>1. NoWal.recs = << >> /\ BareWal.recs = << >> /\ NewWal.recs = << >> /\ BareWal.st = "bare"
    BY DEF NoWal, BareWal, NewWal
  <2>2. snap' = snap /\ wal'.recs = wal.recs
    BY <1>1, <1>5, <2>1, ReopenKeeps
    DEF OpenLoad, OpenRefuses, OpenStep, OpenFault, ReplayRecord, ReopenWAL, OpenForAppend,
        CreateWAL, CreateWALHeader, FilesInv, files
  <2> QED
    BY <1>3, <2>2
<1>6. ASSUME NEW c \in Clients, (\E r \in Record : Call(c, r)) \/ ClientStep(c)
      PROVE  Recoverable(snap.tab, wal.recs)' /\ Recovered' = Recovered
  <2>1. snap' = snap /\ wal'.recs = wal.recs
    BY <1>1, <1>6 DEF Call, ClientStep, Sync, ApplyIndex, WriteClosed, WithSync, files,
                      TypeOK, WalFile
  <2> QED
    BY <1>3, <2>1
<1>7. CASE SnapRename
  <2>1. /\ proc = "up" /\ NoReader /\ snap'.tab = mem /\ wal' = wal
    BY <1>1, <1>7 DEF SnapRename, SnapInv, WholeSnap, Running
  <2>2. \A k \in Keys : Replayed(snap.tab, wal.recs, Len(wal.recs), k, mem[k])
    BY <1>1, <2>1 DEF LogInv, NoReader, Active, InLog
  <2>3. Recovery(snap.tab, wal.recs) = mem
    BY <1>2, <2>2, RecoveryIs
  <2>4. \A k \in Keys : Replayed(mem, wal.recs, Len(wal.recs), k, mem[k])
    BY <1>1, <1>2, <2>2, ReplayIdempotent
  <2>5. Recoverable(mem, wal.recs) /\ Recovery(mem, wal.recs) = mem
    BY <1>2, <2>4, RecoveryIs
  <2> QED
    BY <2>1, <2>3, <2>5 DEF Recovered
<1>8. CASE SnapRotate
  <2>1. proc = "up" /\ NoReader /\ snap.tab = mem /\ snap' = snap /\ wal'.recs = << >>
    BY <1>1, <1>8 DEF SnapRotate, SnapInv, Running, NewWal, NoWal
  <2>2. \A k \in Keys : Replayed(snap.tab, wal.recs, Len(wal.recs), k, mem[k])
    BY <1>1, <2>1 DEF LogInv, NoReader, Active, InLog
  <2>3. Recovery(snap.tab, wal.recs) = mem
    BY <1>2, <2>2, RecoveryIs
  <2>4. Recoverable(mem, << >>) /\ Recovery(mem, << >>) = mem
    BY <1>2, RecoveryOfNothing
  <2> QED
    BY <2>1, <2>3, <2>4 DEF Recovered
<1>9. CASE SnapshotCall \/ SnapStep \/ SnapFault \/ Close
  <2>1. CASE ~ SnapRename /\ ~ SnapRotate
    <3>1. snap' = snap /\ wal' = wal
      BY <1>9, <2>1 DEF SnapshotCall, SnapStep, SnapFault, SnapSave, SnapSaved, SnapCreate,
         SnapExists, SnapHeader, SnapClose, SnapCloseTwice, SnapReopen, Close, files
    <3> QED
      BY <1>3, <3>1
  <2> QED
    BY <1>7, <1>8, <2>1
<1>10. CASE Crash
  <2>1. snap' = snap /\ wal' \in {wal, [wal EXCEPT !.torn = TRUE]}
    BY <1>10 DEF Crash, CrashSnaps, CrashWals, Discipline
  <2>2. wal'.recs = wal.recs
    BY <1>1, <2>1 DEF TypeOK, WalFile
  <2> QED
    BY <1>3, <2>1, <2>2
<1>11. ~ Writeback /\ ~ ReplayCutShort /\ \A c \in Clients : ~ AppendFault(c)
  BY DEF Writeback, ReplayCutShort, AppendFault, Discipline
<1> QED
  BY <1>4, <1>5, <1>6, <1>9, <1>10, <1>11 DEF Next

(* MapInv is inductive.                                                    *)
LEMMA MapInvStep ==
  ASSUME Discipline, MapInv, [Next]_vars
  PROVE  MapInv'
<1>1. DurableInv'
  BY DurableStep DEF MapInv
<1>2. Recoverable(snap.tab, wal.recs)'
  BY WriteCommits, OthersKeepFiles
<1> QED
  BY <1>1, <1>2 DEF MapInv

\* What DurableMap sees of the clients, case by case.
PendingCases ==
  /\ Pending = [c \in Clients |-> Pending[c]]
  /\ \A c \in Clients :
       /\ pc[c] = "idle" => Pending[c] = Map!NoCall
       /\ pc[c] = "called" => Pending[c] = [st |-> "called", req |-> op[c]]
       /\ InLog(c) => Pending[c] = [st |-> "done", ans |-> Code(mem, op[c])]

(* The cases hold before and after every step.                             *)
LEMMA PendingIs == PendingCases /\ PendingCases'
  BY DEF PendingCases, Pending, InLog, Map!NoCall

(* A step that moves only client c changes only what DurableMap sees of c: *)
(* the answers the others are going to get stay the same.                  *)
LEMMA PendingOther ==
  ASSUME Discipline, TypeOK, TypeOK', NEW c \in Clients, NEW x,
         Pending'[c] = x,
         \A d \in Clients \ {c} : pc'[d] = pc[d] /\ op'[d] = op[d],
         \A d \in Clients \ {c} : InLog(d) => mem'[op[d].key] = mem[op[d].key]
  PROVE  Pending' = [Pending EXCEPT ![c] = x]
<1>1. mem \in Table /\ mem' \in Table /\ Cardinality(Keys) <= Capacity
  BY DEF TypeOK, Discipline
<1>2. ASSUME NEW d \in Clients, d # c
      PROVE  Pending'[d] = Pending[d]
  <2>1. pc[d] \in Stages /\ pc'[d] = pc[d] /\ op'[d] = op[d]
    BY <1>2 DEF TypeOK
  <2>2. CASE pc[d] = "idle" \/ pc[d] = "called"
    BY <2>1, <2>2, PendingIs DEF PendingCases
  <2>3. CASE InLog(d)
    <3>1. op[d] \in Record /\ InLog(d)'
      BY <2>1, <2>3, ActiveRequest DEF InLog
    <3>2. Code(mem', op[d]) = Code(mem, op[d])
      BY <1>1, <1>2, <2>3, <3>1, CodeOwnKey
    <3> QED
      BY <2>1, <2>3, <3>1, <3>2, PendingIs DEF PendingCases
  <2> QED
    BY <2>1, <2>2, <2>3 DEF Stages, InLog
<1>3. /\ Pending = [d \in Clients |-> Pending[d]]
      /\ Pending' = [d \in Clients |-> Pending'[d]]
  BY PendingIs DEF PendingCases
<1>4. PICK p, q : p = Pending /\ q = Pending'
  OBVIOUS
<1>5. p = [d \in Clients |-> p[d]] /\ q = [d \in Clients |-> q[d]]
  BY <1>3, <1>4
<1>6. q[c] = x /\ \A d \in Clients : d # c => q[d] = p[d]
  BY <1>2, <1>4
<1>7. q = [p EXCEPT ![c] = x]
  BY <1>5, <1>6
<1> QED
  BY <1>4, <1>7

(* Every step of a client is a step of DurableMap or invisible to it.      *)
LEMMA ClientRefines ==
  ASSUME Discipline, MapInv, TypeOK', NEW c \in Clients,
         (\E r \in Record : Call(c, r)) \/ Write(c) \/ ClientStep(c), [Next]_vars
  PROVE  \/ \E r \in Map!Record : Map!Begin(c, r)
         \/ Map!Commit(c) \/ Map!Answer(c) \/ Map!Refuse(c)
         \/ UNCHANGED <<Recovered, Pending>>
<1>1. /\ TypeOK /\ Running /\ RequestInv /\ LogInv /\ Recoverable(snap.tab, wal.recs)
  BY DEF MapInv, DurableInv
<1>2. pc \in [Clients -> Stages] /\ op \in [Clients -> Record \cup {NoReq}] /\ mem \in Table
  BY <1>1 DEF TypeOK
<1>3. ASSUME NEW r \in Record, Call(c, r)
      PROVE  \E q \in Map!Record : Map!Begin(c, q)
  <2>1. /\ pc[c] = "idle" /\ pc' = [pc EXCEPT ![c] = "called"] /\ op' = [op EXCEPT ![c] = r]
        /\ mem' = mem
    BY <1>3 DEF Call, Active, server
  <2>2. pc'[c] = "called" /\ op'[c] = r
    BY <1>2, <2>1
  <2>3. Pending[c] = Map!NoCall /\ Pending'[c] = [st |-> "called", req |-> r]
    BY <2>1, <2>2, PendingIs DEF PendingCases
  <2>4. \A d \in Clients \ {c} : pc'[d] = pc[d] /\ op'[d] = op[d]
    BY <1>2, <2>1
  <2>5. Pending' = [Pending EXCEPT ![c] = [st |-> "called", req |-> r]]
    BY <1>1, <2>1, <2>3, <2>4, PendingOther
  <2>6. Recovered' = Recovered
    <3>1. snap' = snap /\ wal' = wal
      BY <1>3 DEF Call, files
    <3> QED
      BY <3>1 DEF Recovered
  <2>7. Map!Begin(c, r)
    BY <2>3, <2>5, <2>6 DEF Map!Begin
  <2> QED
    BY <2>7, MapOperators
<1>4. CASE Write(c)
  <2> DEFINE r == op[c]
  <2>1. /\ pc[c] = "called" /\ pc' = [pc EXCEPT ![c] = "written"] /\ op' = op /\ mem' = mem
        /\ proc = "up" /\ r \in Record /\ r.key \in Keys
    BY <1>1, <1>4, ActiveRequest, RecordFields DEF Write, server, Running
  <2>2. InLog(c)'
    BY <1>2, <2>1 DEF InLog
  <2>3. Pending[c] = [st |-> "called", req |-> r] /\ Pending'[c] = [st |-> "done", ans |-> Code(mem, r)]
    BY <2>1, <2>2, PendingIs DEF PendingCases
  <2>4. \A d \in Clients \ {c} : pc'[d] = pc[d] /\ op'[d] = op[d]
    BY <1>2, <2>1
  <2>5. Pending' = [Pending EXCEPT ![c] = [st |-> "done", ans |-> Code(mem, r)]]
    BY <1>1, <2>1, <2>3, <2>4, PendingOther
  <2>6. snap.tab \in Table /\ wal.recs \in Seq(Record)
    BY <1>1 DEF TypeOK, SnapFile, WalFile
  <2>7. \A d \in Clients : InLog(d) => op[d].key # r.key
    BY <1>1, <2>1, OwnKey DEF InLog
  <2>8. mem[r.key] \in Entry /\ Replayed(snap.tab, wal.recs, Len(wal.recs), r.key, mem[r.key])
    BY <1>1, <1>2, <2>1, <2>7 DEF LogInv, Table
  <2>9. Recovered[r.key] = mem[r.key] /\ Recovered \in Table
    BY <1>1, <2>1, <2>6, <2>8, RecoveryEntry, RecoveryType DEF Recovered
  <2>10. Code(mem, r) = Code(Recovered, r)
    BY <1>2, <2>1, <2>9, CodeOwnKey DEF Discipline
  <2>11. Recovered' = Applied(Recovered, r)
    BY <1>4, WriteCommits
  <2>12. /\ Pending[c].st = "called" /\ Pending[c].req = r
    BY <2>3
  <2>13. Map!Commit(c)
    BY <2>5, <2>10, <2>11, <2>12, MapOperators DEF Map!Commit
  <2> QED
    BY <2>13
<1>5. CASE Sync(c)
  <2>1. /\ pc[c] = "written" /\ pc' = [pc EXCEPT ![c] = "logged"] /\ op' = op /\ mem' = mem
    BY <1>5 DEF Sync, server
  <2>2. InLog(c) /\ InLog(c)'
    BY <1>2, <2>1 DEF InLog
  <2>3. Pending'[c] = Pending[c]
    BY <2>1, <2>2, PendingIs DEF PendingCases
  <2>4. \A d \in Clients \ {c} : pc'[d] = pc[d] /\ op'[d] = op[d]
    BY <1>2, <2>1
  <2>5. Pending' = [Pending EXCEPT ![c] = Pending[c]]
    BY <1>1, <2>1, <2>3, <2>4, PendingOther
  <2>6. Pending' = Pending
    BY <2>5, PendingIs DEF PendingCases
  <2>7. Recovered' = Recovered
    <3>1. ~ \E d \in Clients : Write(d)
      BY <2>1 DEF Write, Logging
    <3> QED
      BY <3>1, OthersKeepFiles
  <2> QED
    BY <2>6, <2>7
<1>6. CASE ApplyIndex(c)
  <2> DEFINE r == op[c]
  <2>1. /\ pc[c] = "logged" /\ pc' = [pc EXCEPT ![c] = "idle"]
        /\ op' = [op EXCEPT ![c] = NoReq] /\ mem' = Applied(mem, r)
        /\ snap' = snap /\ wal' = wal /\ r \in Record /\ r.key \in Keys
    BY <1>1, <1>6, ActiveRequest, RecordFields DEF ApplyIndex, Return, files
  <2>2. pc'[c] = "idle" /\ InLog(c)
    BY <1>2, <2>1 DEF InLog
  <2>3. Pending[c].st = "done" /\ Pending'[c] = Map!NoCall
    BY <2>2, PendingIs DEF PendingCases
  <2>4. \A d \in Clients \ {c} : pc'[d] = pc[d] /\ op'[d] = op[d]
    BY <1>2, <2>1
  <2>5. ASSUME NEW d \in Clients \ {c}, InLog(d)
        PROVE  mem'[op[d].key] = mem[op[d].key]
    <3>1. op[d] \in Record /\ op[d].key \in Keys /\ op[d].key # r.key
      BY <1>1, <2>1, <2>5, OwnKey, ActiveRequest, RecordFields DEF InLog
    <3> QED
      BY <1>2, <2>1, <3>1, NeverFull, AppliedEntry DEF Discipline, AfterOn
  <2>6. Pending' = [Pending EXCEPT ![c] = Map!NoCall]
    BY <1>1, <2>3, <2>4, <2>5, PendingOther
  <2>7. Recovered' = Recovered
    BY <2>1 DEF Recovered
  <2>8. Map!Answer(c)
    BY <2>3, <2>6, <2>7 DEF Map!Answer
  <2> QED
    BY <2>8
<1>7. CASE WriteClosed(c)
  <2>1. /\ pc[c] = "called" /\ pc' = [pc EXCEPT ![c] = "idle"]
        /\ op' = [op EXCEPT ![c] = NoReq] /\ mem' = mem /\ snap' = snap /\ wal' = wal
    BY <1>7 DEF WriteClosed, Return, files, server
  <2>2. pc'[c] = "idle"
    BY <1>2, <2>1
  <2>3. Pending[c].st = "called" /\ Pending'[c] = Map!NoCall
    BY <2>1, <2>2, PendingIs DEF PendingCases
  <2>4. \A d \in Clients \ {c} : pc'[d] = pc[d] /\ op'[d] = op[d]
    BY <1>2, <2>1
  <2>5. Pending' = [Pending EXCEPT ![c] = Map!NoCall]
    BY <1>1, <2>1, <2>3, <2>4, PendingOther
  <2>6. Recovered' = Recovered
    BY <2>1 DEF Recovered
  <2>7. Map!Refuse(c)
    BY <2>3, <2>5, <2>6 DEF Map!Refuse
  <2> QED
    BY <2>7
<1> QED
  BY <1>3, <1>4, <1>5, <1>6, <1>7 DEF ClientStep

(* A step that no client takes part in leaves Pending alone, but for a     *)
(* crash, which empties it.                                                *)
LEMMA OthersRefine ==
  ASSUME Discipline, MapInv, [Next]_vars,
         \/ OpenLoad \/ OpenRefuses \/ OpenStep \/ OpenFault
         \/ SnapshotCall \/ SnapStep \/ SnapFault \/ Close \/ Crash
  PROVE  Map!BreakOff \/ UNCHANGED <<Recovered, Pending>>
<1>1. TypeOK /\ Running
  BY DEF MapInv, DurableInv
<1>2. \A c \in Clients : ~ Write(c)
  <2> SUFFICES ASSUME NEW c \in Clients, Write(c) PROVE FALSE
    OBVIOUS
  <2>1. /\ pc[c] = "called" /\ proc = "up" /\ snapPc \in {"idle", "wait"} /\ ~ NoReader
        /\ pc'[c] = "written" /\ proc' = proc /\ snapPc' = snapPc
    BY <1>1 DEF Write, Running, NoReader, Active, server, TypeOK
  <2> QED
    BY <2>1 DEF OpenLoad, OpenRefuses, OpenStep, OpenFault, ReplayRecord, ReopenWAL, OpenForAppend,
         CreateWAL, CreateWALHeader, SnapshotCall, SnapStep, SnapFault, SnapSave, SnapSaved, SnapRename,
         SnapCreate, SnapExists, SnapHeader, SnapClose, SnapCloseTwice, SnapRotate, SnapReopen,
         Close, Crash, SnapStages, calls
<1>3. Recovered' = Recovered
  BY <1>2, OthersKeepFiles
<1>4. CASE Crash
  <2>1. \A c \in Clients : pc'[c] = "idle"
    BY <1>4 DEF Crash
  <2>2. Pending' = [c \in Clients |-> Pending'[c]] /\ \A c \in Clients : Pending'[c] = Map!NoCall
    BY <2>1, PendingIs DEF PendingCases
  <2>3. Pending' = [c \in Clients |-> Map!NoCall]
    BY <2>2
  <2> QED
    BY <1>3, <2>3 DEF Map!BreakOff
<1>5. CASE ~ Crash
  <2>1. pc' = pc /\ op' = op
    BY <1>5 DEF OpenLoad, OpenRefuses, OpenStep, OpenFault, ReplayRecord, ReopenWAL, OpenForAppend,
         CreateWAL, CreateWALHeader, SnapshotCall, SnapStep, SnapFault, SnapSave, SnapSaved, SnapRename,
         SnapCreate, SnapExists, SnapHeader, SnapClose, SnapCloseTwice, SnapRotate, SnapReopen,
         Close, calls
  <2>2. mem' = mem \/ \A c \in Clients : pc[c] = "idle"
    BY <1>1, <1>5 DEF OpenLoad, OpenRefuses, OpenStep, OpenFault, ReplayRecord, ReopenWAL,
         OpenForAppend, CreateWAL, CreateWALHeader, SnapshotCall, SnapStep, SnapFault, SnapSave, SnapSaved,
         SnapRename, SnapCreate, SnapExists, SnapHeader, SnapClose, SnapCloseTwice, SnapRotate,
         SnapReopen, Close, server, Running
  <2>3. CASE mem' = mem
    BY <1>3, <2>1, <2>3 DEF Pending
  <2>4. CASE \A c \in Clients : pc[c] = "idle"
    <3>1. \A c \in Clients : Pending[c] = Map!NoCall /\ Pending'[c] = Map!NoCall
      BY <2>1, <2>4, PendingIs DEF PendingCases
    <3>2. /\ Pending = [c \in Clients |-> Pending[c]]
          /\ Pending' = [c \in Clients |-> Pending'[c]]
      BY PendingIs DEF PendingCases
    <3>3. PICK p, q : p = Pending /\ q = Pending'
      OBVIOUS
    <3>4. /\ p = [c \in Clients |-> p[c]] /\ q = [c \in Clients |-> q[c]]
          /\ \A c \in Clients : p[c] = q[c]
      BY <3>1, <3>2, <3>3
    <3>5. p = q
      BY <3>4
    <3> QED
      BY <1>3, <3>3, <3>5
  <2> QED
    BY <2>2, <2>3, <2>4
<1> QED
  BY <1>4, <1>5

(* Every step of Durable is a step of DurableMap or invisible to it.       *)
LEMMA MapStep ==
  ASSUME Discipline, MapInv, [Next]_vars
  PROVE  [Map!MapNext]_<<Recovered, Pending>>
<1>1. TypeOK'
  BY MapInvStep DEF MapInv, DurableInv
<1>2. CASE UNCHANGED vars
  BY <1>2 DEF vars, Recovered, Pending
<1>3. ASSUME NEW c \in Clients, (\E r \in Record : Call(c, r)) \/ Write(c) \/ ClientStep(c)
      PROVE  [Map!MapNext]_<<Recovered, Pending>>
  BY <1>1, <1>3, ClientRefines DEF Map!MapNext
<1>4. CASE \/ OpenLoad \/ OpenRefuses \/ OpenStep \/ OpenFault
           \/ SnapshotCall \/ SnapStep \/ SnapFault \/ Close \/ Crash
  BY <1>4, OthersRefine DEF Map!MapNext
<1>5. ~ Writeback /\ ~ ReplayCutShort /\ \A c \in Clients : ~ AppendFault(c)
  BY DEF Writeback, ReplayCutShort, AppendFault, Discipline
<1> QED
  BY <1>2, <1>3, <1>4, <1>5 DEF Next

(* durable.Index implements the durable map under Discipline: every        *)
(* request takes effect exactly once, at the write of its record, gets the *)
(* answer the map gave at that instant, and crashes, replays, snapshots    *)
(* and failed rotations never change the map.                              *)
THEOREM DurableImplementsMap == Discipline => (Spec => ImplementsMap)
<1> SUFFICES ASSUME Discipline PROVE Spec => ImplementsMap
  OBVIOUS
<1>1. Init => MapInv /\ Map!MapInit
  <2> SUFFICES ASSUME Init PROVE MapInv /\ Map!MapInit
    OBVIOUS
  <2>1. snap.tab = EmptyTable /\ wal.recs = << >> /\ EmptyTable \in Table
    BY FileTypes DEF Init, NoSnap, NoWal
  <2>2. Recoverable(snap.tab, wal.recs) /\ Recovered = EmptyTable
    BY <2>1, RecoveryOfNothing DEF Recovered
  <2>3. \A c \in Clients : pc[c] = "idle"
    BY DEF Init
  <2>4. Pending = [c \in Clients |-> Pending[c]] /\ \A c \in Clients : Pending[c] = Map!NoCall
    BY <2>3, PendingIs DEF PendingCases
  <2>5. Pending = [c \in Clients |-> Map!NoCall]
    BY <2>4
  <2> QED
    BY <2>2, <2>5, DurableInit, MapOperators DEF MapInv, Map!MapInit
<1>2. MapInv /\ [Next]_vars => MapInv'
  BY MapInvStep
<1>3. MapInv /\ [Next]_vars => [Map!MapNext]_<<Recovered, Pending>>
  BY MapStep
<1> QED
  BY <1>1, <1>2, <1>3, PTL DEF Spec, ImplementsMap, Map!MapSpec
=============================================================================
