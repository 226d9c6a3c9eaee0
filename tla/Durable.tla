------------------------------ MODULE Durable ------------------------------
(***************************************************************************)
(* durable.Index (go/durable/durable.go): one shard's index made durable   *)
(* by a write-ahead log and snapshots, together with the files it keeps,   *)
(* the goroutines that write to it, the goroutine that snapshots it, and   *)
(* crashes.                                                                *)
(*                                                                         *)
(*   Index.mu    Writers hold the read lock from Call to their last step,  *)
(*               Snapshot the write lock from SnapSave to its last step.   *)
(*               A waiting Snapshot keeps new readers out.                 *)
(*   WAL.mu      Held between the Write and the Sync of one Append.        *)
(*   index       One atomic table (KeyTable).                              *)
(*                                                                         *)
(* Search takes no lock and changes nothing, and has no action.            *)
(* A payload with the wrong number of dimensions never gets here: the      *)
(* shard server refuses it before it calls Add.                            *)
(***************************************************************************)
EXTENDS Wal

CONSTANTS
  Clients,       \* the goroutines that call Add, MarkDeleted, UnmarkDeleted
  KeysOf,        \* KeysOf[c]: the keys client c writes
  BlindDeletes,  \* may a client delete a key that is not in the index?
  Faults,        \* what the environment may do wrong besides killing the process
  MaxLog         \* bound: no new request once the log could exceed this length

FaultKinds ==
  {"io",      \* a file operation of Open or Snapshot fails, and they report it
   "read",    \* a read of the log fails, which Replay takes for its end
   "append",  \* the write or the fsync of a record reports an error
   "flush",   \* the last buffered bytes of a snapshot are lost unreported
   "power"}   \* a crash also loses what was written and not fsync'd

ASSUME DurableAssumption ==
  /\ KeysOf \in [Clients -> SUBSET Keys]
  /\ BlindDeletes \in BOOLEAN
  /\ Faults \subseteq FaultKinds
  /\ MaxLog \in Nat

VARIABLES
  (* files *)
  snap,    \* SnapshotPath
  tmp,     \* SnapshotPath + ".tmp"
  wal,     \* WALPath
  walNew,  \* WALPath + ".new", which never holds a record
  (* the process *)
  proc,    \* where the process is in its life
  mem,     \* Index.idx
  rp,      \* records replayed so far by Open
  handle,  \* whether the file behind Index.w is open
  (* its goroutines *)
  pc, op,  \* per client: where it is in its call, and its request
  snapPc   \* where Snapshot is

files  == <<snap, tmp, wal, walNew>>
server == <<proc, mem, rp, handle>>
calls  == <<pc, op>>
vars   == <<snap, tmp, wal, walNew, proc, mem, rp, handle, pc, op, snapPc>>

SnapFile ==
  [st : {"none", "cut", "whole"}, tab : Table, flushed : BOOLEAN]

NoSnap     == [st |-> "none", tab |-> EmptyTable, flushed |-> FALSE]
CutSnap    == [NoSnap EXCEPT !.st = "cut"]
WholeSnap(tab) == [st |-> "whole", tab |-> tab, flushed |-> FALSE]

\* A .tmp file left behind is only ever overwritten: its content is dropped.
Leftover(f) == IF f.st = "none" THEN f ELSE CutSnap

NoReq == [op |-> "none"]

Stages     == {"idle", "called", "written", "logged"}
SnapStages == {"idle", "wait", "saving", "saved", "renamed", "creating",
               "created", "closed", "rotated"}

TypeOK ==
  /\ snap \in SnapFile /\ tmp \in SnapFile
  /\ wal \in WalFile /\ walNew \in FileStates
  /\ proc \in {"down", "replay", "create", "up", "failed"}
  /\ mem \in Table
  /\ rp \in Nat
  /\ handle \in {"open", "closed"}
  /\ pc \in [Clients -> Stages]
  /\ op \in [Clients -> Record \cup {NoReq}]
  /\ snapPc \in SnapStages
  /\ \A c \in Clients : (pc[c] = "idle") <=> (op[c] = NoReq)

Init ==
  /\ snap = NoSnap /\ tmp = NoSnap /\ wal = NoWal /\ walNew = "none"
  /\ proc = "down" /\ mem = EmptyTable /\ rp = 0 /\ handle = "closed"
  /\ pc = [c \in Clients |-> "idle"]
  /\ op = [c \in Clients |-> NoReq]
  /\ snapPc = "idle"

-----------------------------------------------------------------------------
(* Open: load the snapshot, replay the log over it, reopen the log.        *)

\* loadOrCreateIndex, then Replay's check of the header.  No snapshot means
\* an empty index (NoSnap.tab); no log means there is nothing to replay.
OpenLoad ==
  /\ proc = "down"
  /\ snap.st # "cut" /\ wal.st # "bare"
  /\ proc' = "replay" /\ mem' = snap.tab /\ rp' = 0
  /\ UNCHANGED <<files, handle, calls, snapPc>>

\* hnsw.Load refuses a short snapshot (where its behaviour is defined: see
\* IndexFile), Replay a log without its header.
OpenRefuses ==
  /\ proc = "down"
  /\ snap.st = "cut" \/ wal.st = "bare"
  /\ proc' = "failed"
  /\ UNCHANGED <<files, mem, rp, handle, calls, snapPc>>

\* Mutant of ReplayRecord: a duplicate add overwrites what is there.
ReplayOverwrites ==
  /\ proc = "replay" /\ rp < Len(wal.recs)
  /\ LET r == wal.recs[rp + 1] IN
       mem' = IF r.op = "add" THEN [mem EXCEPT ![r.key] = Effect(@, r)]
                              ELSE Applied(mem, r)
  /\ rp' = rp + 1
  /\ UNCHANGED <<files, proc, handle, calls, snapPc>>

\* apply forgives a duplicate and a missing key, and nothing else: "full"
\* comes back from Replay as an error, and Open fails.
ReplayRecord ==
  /\ proc = "replay" /\ rp < Len(wal.recs)
  /\ LET r == wal.recs[rp + 1] IN
       IF Code(mem, r) = "full"
       THEN proc' = "failed" /\ UNCHANGED <<mem, rp>>
       ELSE mem' = Applied(mem, r) /\ rp' = rp + 1 /\ UNCHANGED proc
  /\ UNCHANGED <<files, handle, calls, snapPc>>

\* OpenForAppend truncates the log behind the records Replay has read.
OpenForAppend ==
  /\ wal' = Truncated(wal, rp)
  /\ proc' = "up" /\ handle' = "open"
  /\ UNCHANGED <<snap, tmp, walNew, mem, rp, calls, snapPc>>

\* reopenWAL when the log exists: readRecord has met the end of the file or
\* bytes that do not decode.
ReopenWAL == proc = "replay" /\ rp = Len(wal.recs) /\ wal.st = "ready" /\ OpenForAppend

\* readRecord does not tell a failing read from the end of the file: Replay
\* returns no error, and the records it has not read are cut off.
ReplayCutShort ==
  /\ "read" \in Faults
  /\ proc = "replay" /\ rp < Len(wal.recs)
  /\ OpenForAppend

\* reopenWAL when there is none: Create makes the file, ...
CreateWAL ==
  /\ proc = "replay" /\ wal.st = "none"
  /\ wal' = BareWal /\ proc' = "create"
  /\ UNCHANGED <<snap, tmp, walNew, mem, rp, handle, calls, snapPc>>

\* ... and then writes and fsyncs its header.
CreateWALHeader ==
  /\ proc = "create"
  /\ wal' = NewWal
  /\ proc' = "up" /\ handle' = "open"
  /\ UNCHANGED <<snap, tmp, walNew, mem, rp, calls, snapPc>>

\* An error on the way that Open sees: it returns it and the process exits.
\* Create removes the file when the header write fails and leaves it when
\* only the fsync does.
OpenFault ==
  /\ "io" \in Faults
  /\ proc \in {"replay", "create"}
  /\ IF proc = "create" THEN wal' \in {NoWal, NewWal} ELSE UNCHANGED wal
  /\ proc' = "down" /\ mem' = EmptyTable /\ rp' = 0
  /\ UNCHANGED <<snap, tmp, walNew, handle, calls, snapPc>>

-----------------------------------------------------------------------------
(* Add, MarkDeleted, UnmarkDeleted: under the read lock, append the record *)
(* to the log, then do the operation on the index.                         *)

Active(c) == pc[c] # "idle"
NoReader == \A c \in Clients : ~ Active(c)
Logging == \E c \in Clients : pc[c] = "written"   \* somebody holds WAL.mu

\* A request arrives and takes the read lock.
Call(c, r) ==
  /\ proc = "up" /\ snapPc = "idle" /\ ~ Active(c)
  /\ r.key \in KeysOf[c]
  /\ BlindDeletes \/ r.op # "del" \/ Present(mem[r.key])
  /\ Len(wal.recs) + Cardinality({d \in Clients : Active(d)}) < MaxLog
  /\ pc' = [pc EXCEPT ![c] = "called"]
  /\ op' = [op EXCEPT ![c] = r]
  /\ UNCHANGED <<files, server, snapPc>>

\* The call returns and releases the read lock.
Return(c) ==
  /\ pc' = [pc EXCEPT ![c] = "idle"]
  /\ op' = [op EXCEPT ![c] = NoReq]

\* WAL.Append up to its Sync.
Write(c) ==
  /\ pc[c] = "called" /\ ~ Logging /\ handle = "open"
  /\ wal' = WithRecord(wal, op[c])
  /\ pc' = [pc EXCEPT ![c] = "written"]
  /\ UNCHANGED <<snap, tmp, walNew, server, op, snapPc>>

\* The Sync of WAL.Append; WAL.mu is released.
Sync(c) ==
  /\ pc[c] = "written"
  /\ wal' = WithSync(wal)
  /\ pc' = [pc EXCEPT ![c] = "logged"]
  /\ UNCHANGED <<snap, tmp, walNew, server, op, snapPc>>

\* Mutant of ApplyIndex: the read lock is taken a second time inside the
\* call, which Go refuses while a writer waits.
ApplyIndexRelocks(c) ==
  /\ pc[c] = "logged" /\ snapPc = "idle"
  /\ mem' = Applied(mem, op[c])
  /\ Return(c)
  /\ UNCHANGED <<files, proc, rp, handle, snapPc>>

\* The operation on the index; its answer, Code(mem, op[c]), is the answer
\* to the client.
ApplyIndex(c) ==
  /\ pc[c] = "logged"
  /\ mem' = Applied(mem, op[c])
  /\ Return(c)
  /\ UNCHANGED <<files, proc, rp, handle, snapPc>>

\* Append on a log that Close, or a rotation that failed half way, closed:
\* the client gets an error.
WriteClosed(c) ==
  /\ pc[c] = "called" /\ ~ Logging /\ handle = "closed"
  /\ Return(c)
  /\ UNCHANGED <<files, server, snapPc>>

\* Append fails, and so does the call.  A failed write may leave part of the
\* record behind, and nothing truncates it; a failed fsync leaves all of it.
AppendFault(c) ==
  /\ "append" \in Faults
  /\ \/ /\ pc[c] = "called" /\ ~ Logging /\ handle = "open"
        /\ wal' \in {wal, [wal EXCEPT !.torn = TRUE]}
     \/ pc[c] = "written" /\ UNCHANGED wal
  /\ Return(c)
  /\ UNCHANGED <<snap, tmp, walNew, server, snapPc>>

-----------------------------------------------------------------------------
(* Snapshot, step by step under the write lock.                            *)

SnapshotCall ==
  /\ proc = "up" /\ snapPc = "idle"
  /\ snapPc' = "wait"
  /\ UNCHANGED <<files, server, calls>>

\* Mutant of SnapSave: Snapshot takes the read lock only.
SnapSaveShared ==
  /\ snapPc = "wait"
  /\ tmp' = CutSnap
  /\ snapPc' = "saving"
  /\ UNCHANGED <<snap, wal, walNew, server, calls>>

\* Mutant of SnapSave: the snapshot is written straight to SnapshotPath.
SnapSaveInPlace ==
  /\ snapPc = "wait" /\ NoReader
  /\ tmp' = CutSnap /\ snap' = CutSnap
  /\ snapPc' = "saving"
  /\ UNCHANGED <<wal, walNew, server, calls>>

\* Lock is granted once the readers are gone; Index::save opens the .tmp
\* file, which truncates it.
SnapSave ==
  /\ snapPc = "wait" /\ NoReader
  /\ tmp' = CutSnap
  /\ snapPc' = "saving"
  /\ UNCHANGED <<snap, wal, walNew, server, calls>>

\* save returns without an error.  Its stream is flushed by the destructor,
\* after the last check of the stream.
SnapSaved ==
  /\ snapPc = "saving"
  /\ tmp' \in {WholeSnap(mem)} \cup (IF "flush" \in Faults THEN {CutSnap} ELSE {})
  /\ snapPc' = "saved"
  /\ UNCHANGED <<snap, wal, walNew, server, calls>>

SnapRename ==
  /\ snapPc = "saved"
  /\ snap' = tmp /\ tmp' = NoSnap
  /\ snapPc' = "renamed"
  /\ UNCHANGED <<wal, walNew, server, calls>>

\* wal.Create(".new") with O_EXCL ...
SnapCreate ==
  /\ snapPc = "renamed" /\ walNew = "none"
  /\ walNew' = "bare"
  /\ snapPc' = "creating"
  /\ UNCHANGED <<snap, tmp, wal, server, calls>>

\* ... which refuses a file left over from an earlier attempt.
SnapExists ==
  /\ snapPc = "renamed" /\ walNew # "none"
  /\ snapPc' = "idle"
  /\ UNCHANGED <<files, server, calls>>

SnapHeader ==
  /\ snapPc = "creating"
  /\ walNew' = "ready"
  /\ snapPc' = "created"
  /\ UNCHANGED <<snap, tmp, wal, server, calls>>

\* Both logs are closed: Windows cannot rename an open file.
SnapClose ==
  /\ snapPc = "created" /\ handle = "open"
  /\ handle' = "closed"
  /\ snapPc' = "closed"
  /\ UNCHANGED <<files, proc, mem, rp, calls>>

\* Closing the old log fails when it is closed already.
SnapCloseTwice ==
  /\ snapPc = "created" /\ handle = "closed"
  /\ walNew' = "none"
  /\ snapPc' = "idle"
  /\ UNCHANGED <<snap, tmp, wal, server, calls>>

SnapRotate ==
  /\ snapPc = "closed"
  /\ wal' = NewWal /\ walNew' = "none"
  /\ snapPc' = "rotated"
  /\ UNCHANGED <<snap, tmp, server, calls>>

SnapReopen ==
  /\ snapPc = "rotated"
  /\ handle' = "open"
  /\ snapPc' = "idle"
  /\ UNCHANGED <<files, proc, mem, rp, calls>>

\* A step of Snapshot fails: it returns at once.  What it leaves behind
\* depends on the step: save a short .tmp file, Create a complete .new file
\* if only its fsync failed, Close two closed logs and no .new file, the
\* second rename the .new file, OpenForAppend a rotated log nobody has open.
SnapFault ==
  /\ "io" \in Faults
  /\ snapPc \in SnapStages \ {"idle", "wait"}
  /\ walNew' \in CASE snapPc = "creating" -> {"none", "ready"}
                   [] snapPc = "created"  -> {"none"}
                   [] OTHER -> {walNew}
  /\ handle' = IF snapPc = "created" THEN "closed" ELSE handle
  /\ tmp' = Leftover(tmp)
  /\ snapPc' = "idle"
  /\ UNCHANGED <<snap, wal, proc, mem, rp, calls>>

\* durable.Index.Close.
Close ==
  /\ proc = "up" /\ snapPc = "idle" /\ NoReader
  /\ handle' = "closed"
  /\ UNCHANGED <<files, proc, mem, rp, calls, snapPc>>

-----------------------------------------------------------------------------
(* Crashes.  Killing the process keeps every byte it wrote; a power loss   *)
(* keeps what was fsync'd and an arbitrary part of the rest.               *)

\* The kernel writes the snapshot back on its own schedule: nobody asks it to.
Writeback ==
  /\ "power" \in Faults
  /\ snap.st = "whole" /\ ~ snap.flushed
  /\ snap' = [snap EXCEPT !.flushed = TRUE]
  /\ UNCHANGED <<tmp, wal, walNew, server, calls, snapPc>>

MidWrite ==
  handle = "open" /\ ~ Logging /\ \E c \in Clients : pc[c] = "called"

CrashWals ==
  {wal}
  \cup (IF MidWrite THEN {[wal EXCEPT !.torn = TRUE]} ELSE {})
  \cup (IF "power" \in Faults
        THEN {[wal EXCEPT !.recs = SubSeq(wal.recs, 1, n), !.synced = n, !.torn = TRUE] :
                n \in wal.synced .. Len(wal.recs)}
        ELSE {})

CrashSnaps ==
  {snap} \cup (IF "power" \in Faults /\ snap.st = "whole" /\ ~ snap.flushed
               THEN {CutSnap} ELSE {})

Crash ==
  /\ proc # "down"
  /\ wal' \in CrashWals /\ snap' \in CrashSnaps
  /\ proc' = "down" /\ mem' = EmptyTable /\ rp' = 0 /\ handle' = "closed"
  /\ pc' = [c \in Clients |-> "idle"]
  /\ op' = [c \in Clients |-> NoReq]
  /\ snapPc' = "idle"
  /\ tmp' = Leftover(tmp)
  /\ UNCHANGED walNew

-----------------------------------------------------------------------------
OpenStep == ReplayRecord \/ ReopenWAL \/ CreateWAL \/ CreateWALHeader
ClientStep(c) == Sync(c) \/ ApplyIndex(c) \/ WriteClosed(c)
SnapStep == SnapSave \/ SnapSaved \/ SnapRename \/ SnapCreate \/ SnapExists
              \/ SnapHeader \/ SnapClose \/ SnapCloseTwice \/ SnapRotate
              \/ SnapReopen

Next ==
  \/ OpenLoad \/ OpenRefuses \/ OpenStep \/ ReplayCutShort \/ OpenFault
  \/ \E c \in Clients : \/ \E r \in Record : Call(c, r)
                        \/ Write(c)
                        \/ ClientStep(c)
                        \/ AppendFault(c)
  \/ SnapshotCall \/ SnapStep \/ SnapFault
  \/ Close \/ Writeback \/ Crash

Spec == Init /\ [][Next]_vars

(* A running goroutine is eventually scheduled, and sync.Mutex hands the   *)
(* lock to a waiter that has been starved: strong fairness for Write,      *)
(* which is where WAL.mu is taken.  Nothing obliges anybody to call, to    *)
(* snapshot, to crash or to restart the process, and no fault has to       *)
(* happen.                                                                 *)
Fairness ==
  /\ \A c \in Clients : SF_vars(Write(c)) /\ WF_vars(ClientStep(c))
  /\ WF_vars(SnapStep)

FairSpec == Spec /\ Fairness

-----------------------------------------------------------------------------
(* Properties.                                                             *)

\* No request for key k is in flight.
Quiet(k) == \A c \in Clients : op[c] = NoReq \/ op[c].key # k

(* The guarantee of WAL.md: if a crash at this moment leaves the snapshot  *)
(* s and the log w, then every key whose last request was answered comes   *)
(* back exactly as the running index has it, tombstone included, and when  *)
(* there is anything to bring back, Open can read the files.  A key with a *)
(* request in flight may come out either way.                              *)
AckedWritesSurvive ==
  proc = "up" =>
    \A s \in CrashSnaps, w \in CrashWals, k \in Keys :
      Quiet(k) =>
        /\ Present(mem[k]) => s.st # "cut" /\ w.st = "ready"
        /\ s.st # "cut" => Replayed(s.tab, w.recs, Len(w.recs), k, mem[k])

(* Open turns down its own files in one case only: the process died inside *)
(* its very first wal.Create, before any write was accepted.  In           *)
(* particular no logged record makes Replay fail.                          *)
OpenAcceptsItsFiles ==
  proc = "failed" => wal.st = "bare" /\ snap.st = "none"

(* Recovery loses nothing of what the files hold: what they stand for is   *)
(* the same when Open has returned as it was before.  Together with        *)
(* AckedWritesSurvive, which compares the files with the index of the      *)
(* running process, this is WAL.md's guarantee over any number of crashes. *)
OpenLosesNothing ==
  [][proc = "replay" /\ proc' = "up" =>
       \A k \in Keys, e \in Entry :
         Replayed(snap.tab, wal.recs, Len(wal.recs), k, e)
           => Replayed(snap'.tab, wal'.recs, Len(wal'.recs), k, e)]_vars

(* Replaying record by record, with apply's tolerance of duplicates and    *)
(* missing keys, computes the reference definition of Wal: first add wins, *)
(* last mark wins.  It needs neither disciplined clients nor a healthy     *)
(* disk.                                                                   *)
ReplayMatchesReference ==
  proc = "replay" =>
    \A k \in Keys : Replayed(snap.tab, wal.recs, rp, k, mem[k])

(* A crash during a snapshot asks for no repair afterwards: Snapshot never *)
(* trips over a file that an interrupted one left behind.                  *)
SnapshotNotBlocked == ~ (snapPc = "renamed" /\ walNew # "none")

(* The log is dropped only when the snapshot that replaces it would be     *)
(* found whole after a power loss: otherwise a write that was fsync'd and  *)
(* answered is on no medium any more.                                      *)
RotationLosesNothing ==
  \A k \in Keys :
    snapPc = "rotated" /\ Present(mem[k]) => \A s \in CrashSnaps : s.st = "whole"

(* Every request is answered unless the process dies, whatever Snapshot    *)
(* and the other writers do: the two locks never deadlock and a waiting    *)
(* Snapshot does not keep out a writer that is already in.                 *)
CallsReturn == \A c \in Clients : pc[c] # "idle" ~> pc[c] = "idle"

(* Every Snapshot ends, although it has to wait until no writer is left    *)
(* inside.                                                                 *)
SnapshotsReturn == snapPc # "idle" ~> snapPc = "idle"

-----------------------------------------------------------------------------
(* The refinement of DurableMap.                                           *)

\* What replay makes of the snapshot `base' and the log `log'.
Recovery(base, log) ==
  [k \in Keys |-> CHOOSE e \in Entry : Replayed(base, log, Len(log), k, e)]

(* The durable map behind the files: what replay would make of them now.   *)
Recovered == Recovery(snap.tab, wal.recs)

Pending ==
  [c \in Clients |->
     CASE pc[c] = "idle"   -> [st |-> "idle"]
       [] pc[c] = "called" -> [st |-> "called", req |-> op[c]]
       [] OTHER            -> [st |-> "done", ans |-> Code(mem, op[c])]]

Map == INSTANCE DurableMap WITH tab <- Recovered, pend <- Pending

(* durable.Index implements the abstract durable map: a request takes      *)
(* effect exactly once, when its record is written, and neither a crash    *)
(* nor any step of Open, Snapshot or a failed rotation changes what the    *)
(* files stand for.                                                        *)
ImplementsMap == Map!MapSpec
=============================================================================
