-------------------------------- MODULE Wal --------------------------------
(***************************************************************************)
(* The log file of go/wal/wal.go.  The framing (length prefix, payload,    *)
(* CRC32) is abstracted to what readRecord can tell apart: a prefix of     *)
(* whole records, and after it possibly bytes that do not decode.          *)
(* readRecord stops at the first such bytes and never resynchronises, so   *)
(* whatever is appended behind them is not part of the log any more: the   *)
(* file is its readable records and one flag.                              *)
(***************************************************************************)
EXTENDS KeyTable, Sequences

(* A file is absent, present without a complete header, or present with    *)
(* one: wal.Create makes the name visible first and writes the header      *)
(* afterwards.                                                             *)
FileStates == {"none", "bare", "ready"}

WalFile ==
  [st     : FileStates,
   recs   : Seq(Record),   \* what Replay hands to apply, in order
   torn   : BOOLEAN,       \* undecodable bytes follow the last of them
   synced : Nat]           \* how many of recs a completed fsync covers

NoWal   == [st |-> "none", recs |-> << >>, torn |-> FALSE, synced |-> 0]
BareWal == [NoWal EXCEPT !.st = "bare"]
NewWal  == [NoWal EXCEPT !.st = "ready"]

\* The write of one whole record (WAL.Append up to its Sync).
WithRecord(w, r) == IF w.torn THEN w ELSE [w EXCEPT !.recs = Append(@, r)]

\* The Sync of WAL.Append: everything written so far is on the medium.
WithSync(w) == [w EXCEPT !.synced = Len(w.recs)]

\* Mutant of Truncated: the file is reopened as it is.
TornTailKept(w, n) == w

\* OpenForAppend(path, lastGood): what lies behind the n records that Replay
\* has read is cut off.
Truncated(w, n) ==
  [w EXCEPT !.recs = SubSeq(@, 1, n), !.torn = FALSE,
            !.synced = IF w.synced < n THEN w.synced ELSE n]

-----------------------------------------------------------------------------
(***************************************************************************)
(* What replaying the first n records of `log' over the table `base'       *)
(* leaves for key k, said without recursion: e is that entry.  The vector  *)
(* is the one base already has, or else the one of the first "add"; the    *)
(* key ends deleted when some "del" found it present and no "undel"        *)
(* follows.  Replaying record by record (Durable's ReplayRecord) computes  *)
(* the same entry; DurableProofs proves the step of that induction.        *)
(***************************************************************************)
IsOp(r, op, k) == r.op = op /\ r.key = k

AddedBy(log, n, k) == \E i \in 1..n : IsOp(log[i], "add", k)

FirstAdd(log, i, k) ==
  /\ IsOp(log[i], "add", k)
  /\ \A j \in 1..(i - 1) : ~ IsOp(log[j], "add", k)

ReplayedVec(base, log, n, k, v) ==
  \/ Present(base[k]) /\ v = base[k].vec
  \/ /\ ~ Present(base[k])
     /\ \E i \in 1..n : FirstAdd(log, i, k) /\ v = log[i].vec
  \/ ~ Present(base[k]) /\ ~ AddedBy(log, n, k) /\ v = NoVec

UndeletedAfter(log, n, i, k) == \E j \in (i + 1)..n : IsOp(log[j], "undel", k)

ReplayedDeleted(base, log, n, k) ==
  \/ base[k].deleted /\ ~ UndeletedAfter(log, n, 0, k)
  \/ \E i \in 1..n :
       /\ IsOp(log[i], "del", k)
       /\ Present(base[k]) \/ AddedBy(log, i - 1, k)
       /\ ~ UndeletedAfter(log, n, i, k)

Replayed(base, log, n, k, e) ==
  /\ ReplayedVec(base, log, n, k, e.vec)
  /\ e.deleted <=> ReplayedDeleted(base, log, n, k)
=============================================================================
